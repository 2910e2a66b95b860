------------------------------ MODULE ApiStore ------------------------------
(***************************************************************************)
(* The control-plane tables cf_api_jobs, cf_api_events and                 *)
(* cf_api_approvals (casparian_state_store/src/api_storage.rs), each       *)
(* statement an operator from table to table.  The job table is a function *)
(* from job ids to rows, a row of status "none" not existing yet; the only *)
(* event the storage layer itself writes (job_finished, by cancel_job) is  *)
(* counted in the row of its job.                                          *)
(***************************************************************************)
EXTENDS Naturals

JobStatuses == {"none", "queued", "running", "completed", "failed", "cancelled"}

ApprovalStatuses == {"none", "pending", "approved", "rejected", "expired"}

NoJob == 0

AbsentJob(noApproval) ==
    [status |-> "none", approval |-> noApproval, error |-> FALSE, finished |-> 0]

AbsentApproval == [status |-> "none", overdue |-> FALSE, job |-> NoJob]

is_terminal_status(status) == status \in {"completed", "failed", "cancelled"}

\* AUTOINCREMENT: the new row takes the first id not used yet.
IsNextId(t, j) ==
    /\ t[j].status = "none"
    /\ \A k \in DOMAIN t : k < j => t[k].status # "none"

create_job(t, j, approval_id) ==
    [t EXCEPT ![j].status = "queued", ![j].approval = approval_id]

update_job_status(t, j, status) == [t EXCEPT ![j].status = status]

update_job_error(t, j) == [t EXCEPT ![j].error = TRUE]

insert_job_finished(t, j) == [t EXCEPT ![j].finished = @ + 1]

\* A read, a status update and an event; nothing for an absent or a finished job.
cancel_job(t, j) ==
    IF t[j].status = "none" \/ is_terminal_status(t[j].status)
    THEN t
    ELSE insert_job_finished(update_job_status(t, j, "cancelled"), j)

create_approval(p, a) == [p EXCEPT ![a].status = "pending"]

\* Mutant: AND status = 'pending' is missing.
decide_any(p, a, status) == [p EXCEPT ![a].status = status]

\* WHERE approval_id = ? AND status = 'pending'
decide_pending(p, a, status) ==
    IF p[a].status = "pending" THEN [p EXCEPT ![a].status = status] ELSE p

approve(p, a) == decide_pending(p, a, "approved")

reject(p, a) == decide_pending(p, a, "rejected")

\* WHERE status = 'pending' AND expires_at < now
expire_approvals(p) ==
    [a \in DOMAIN p |-> IF p[a].status = "pending" /\ p[a].overdue
                        THEN [p[a] EXCEPT !.status = "expired"]
                        ELSE p[a]]

link_approval_to_job(p, a, j) == [p EXCEPT ![a].job = j]
=============================================================================
