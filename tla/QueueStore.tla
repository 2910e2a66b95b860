------------------------------ MODULE QueueStore ------------------------------
(***************************************************************************)
(* The state-store tables the job queue lives in and the SQL statements    *)
(* that change them (crates/casparian_state_store/src/queue.rs).  The      *)
(* tables are one record                                                   *)
(*    jobs      cf_processing_queue, one row per job id                    *)
(*    dead      cf_dead_letter, the number of letters of each job          *)
(*    health    cf_parser_health (consecutive_failures, paused_at)         *)
(*    runs      cf_pipeline_runs.status                                    *)
(*    mats      cf_output_materializations, the jobs that recorded one     *)
(*    artifacts cf_job_artifacts, the jobs that have output artifacts      *)
(*              (the log artifact of every receipt is left out)            *)
(* and every operator below maps the tables before a statement (or a       *)
(* sequence of statements) to the tables after it.  A lease token is a     *)
(* UUID: an element of Token that was never used before.  Clock values     *)
(* are abstracted: `due' says that scheduled_at has passed, and the        *)
(* caller of requeue_expired_dispatches chooses which leases have expired. *)
(* Every row is enqueued with priority 0, so the queue order is the id.    *)
(***************************************************************************)
EXTENDS Integers, FiniteSets

CONSTANTS
    Job,        \* job ids (cf_processing_queue.id)
    Worker,     \* worker ids
    Parser,     \* plugin names
    Run,        \* pipeline run ids
    Token,      \* lease tokens
    NoWorker,   \* NULL lease_owner
    NoRun,      \* NULL pipeline_run_id
    NoToken,    \* NULL lease_token
    MAX_RETRY_COUNT,
    CIRCUIT_BREAKER_THRESHOLD

ASSUME StoreAssumption ==
    /\ Job \subseteq Nat
    /\ Parser # {}
    /\ NoWorker \notin Worker
    /\ NoRun \notin Run
    /\ NoToken \notin Token
    /\ MAX_RETRY_COUNT \in Nat
    /\ CIRCUIT_BREAKER_THRESHOLD \in Nat \ {0}

\* ABSENT: no row with this id yet.  PENDING, STAGED and SKIPPED rows are
\* never written by the queue.
ProcessingStatus == {"ABSENT", "QUEUED", "DISPATCHING", "RUNNING",
                     "COMPLETED", "FAILED", "ABORTED"}

Terminal == {"COMPLETED", "FAILED", "ABORTED"}

PipelineRunStatus == {"queued", "running", "completed", "failed"}

ProcessingJob ==
    [status : ProcessingStatus,
     token  : Token \cup {NoToken},
     owner  : Worker \cup {NoWorker},
     retry  : Nat,
     due    : BOOLEAN,
     plugin : Parser,
     run    : Run \cup {NoRun}]

Tables ==
    [jobs      : [Job -> ProcessingJob],
     dead      : [Job -> Nat],
     health    : [Parser -> [fails : Nat, paused : BOOLEAN]],
     runs      : [Run -> PipelineRunStatus],
     mats      : SUBSET Job,
     artifacts : SUBSET Job]

-------------------------------------------------------------------------------
(* One row. *)

\* The columns every transition back to QUEUED resets.
Requeued(row, due) ==
    [row EXCEPT !.status = "QUEUED", !.token = NoToken,
                !.owner = NoWorker, !.due = due]

\* Mutants: the token, or the status, is not compared.
StatusMatches(db, j, t, status) == db.jobs[j].status = status

LeaseMatches(db, j, t, status) == db.jobs[j].token = t

\* The guard "id = ? AND status = ? AND lease_token = ?".
TokenMatches(db, j, t, status) ==
    /\ db.jobs[j].status = status
    /\ db.jobs[j].token = t

\* UPDATE cf_processing_queue ... WHERE id = j.
WithRow(db, j, row) == [db EXCEPT !.jobs = [db.jobs EXCEPT ![j] = row]]

SetStatus(db, j, status) ==
    WithRow(db, j, [db.jobs[j] EXCEPT !.status = status])

\* UPDATE cf_parser_health ... WHERE parser_name = p.
WithHealth(db, p, fails, paused) ==
    [db EXCEPT !.health[p] = [fails |-> fails, paused |-> paused]]

-------------------------------------------------------------------------------
(* Entering the queue and being leased. *)

enqueue_job(db, j, plugin, run) ==
    WithRow(db, j, [status |-> "QUEUED", token |-> NoToken,
                    owner |-> NoWorker, retry |-> 0, due |-> TRUE,
                    plugin |-> plugin, run |-> run])

\* The rows the SELECT of lease_jobs_for_dispatch can return.
Leasable(db) ==
    {j \in Job : /\ db.jobs[j].status = "QUEUED"
                 /\ db.jobs[j].due
                 /\ ~db.health[db.jobs[j].plugin].paused}

\* ORDER BY priority DESC, id ASC LIMIT 1.
FirstLeasable(db, j) == j \in Leasable(db) /\ \A k \in Leasable(db) : j <= k

lease_jobs_for_dispatch(db, j) ==
    WithRow(db, j, [db.jobs[j] EXCEPT !.status = "DISPATCHING",
                                      !.token = NoToken, !.owner = NoWorker])

\* Mutant: the bound parameters in the wrong order.
set_dispatch_lease_swapped(db, j, t, w) ==
    WithRow(db, j, [db.jobs[j] EXCEPT !.token = w, !.owner = t])

set_dispatch_lease(db, j, t, w) ==
    IF db.jobs[j].status = "DISPATCHING"
    THEN WithRow(db, j, [db.jobs[j] EXCEPT !.token = t, !.owner = w])
    ELSE db

\* Mutant: the token is not compared.
ack_any(db, j, t, w) ==
    IF db.jobs[j].status = "DISPATCHING"
    THEN WithRow(db, j, [db.jobs[j] EXCEPT !.status = "RUNNING", !.owner = w])
    ELSE db

ack_dispatch(db, j, t, w) ==
    IF TokenMatches(db, j, t, "DISPATCHING")
    THEN WithRow(db, j, [db.jobs[j] EXCEPT !.status = "RUNNING", !.owner = w])
    ELSE db

Dispatching(db) == {j \in Job : db.jobs[j].status = "DISPATCHING"}

\* Mutant: only rows that were not yet handed to a worker are taken back.
requeue_unowned(db, expired) ==
    [db EXCEPT !.jobs = [j \in Job |->
        IF j \in expired \cap Dispatching(db) /\ db.jobs[j].owner = NoWorker
        THEN Requeued(db.jobs[j], db.jobs[j].due)
        ELSE db.jobs[j]]]

\* expired: the DISPATCHING rows whose lease_expires_at is in the past.
requeue_expired_dispatches(db, expired) ==
    [db EXCEPT !.jobs = [j \in Job |->
        IF j \in expired \cap Dispatching(db)
        THEN Requeued(db.jobs[j], db.jobs[j].due)
        ELSE db.jobs[j]]]

-------------------------------------------------------------------------------
(* Leaving a lease. *)

complete_job_if_token_matches(db, j, t) ==
    IF TokenMatches(db, j, t, "RUNNING") THEN SetStatus(db, j, "COMPLETED") ELSE db

fail_job_if_token_matches(db, j, t) ==
    IF TokenMatches(db, j, t, "RUNNING") THEN SetStatus(db, j, "FAILED") ELSE db

abort_job_if_token_matches(db, j, t) ==
    IF TokenMatches(db, j, t, "RUNNING") THEN SetStatus(db, j, "ABORTED") ELSE db

fail_job_if_token_matches_dispatching(db, j, t) ==
    IF TokenMatches(db, j, t, "DISPATCHING") THEN SetStatus(db, j, "FAILED") ELSE db

\* Mutant: the lease columns are not cleared.
defer_job_keeping_lease(db, j) ==
    WithRow(db, j, [db.jobs[j] EXCEPT !.status = "QUEUED", !.due = TRUE])

\* Unconditional: whatever the row is doing, it is queued again.
defer_job(db, j) == WithRow(db, j, Requeued(db.jobs[j], TRUE))

\* due: the caller deferred to the present moment, not to a later one.
defer_job_if_token_matches(db, j, t, due) ==
    IF TokenMatches(db, j, t, "DISPATCHING")
    THEN WithRow(db, j, Requeued(db.jobs[j], due))
    ELSE db

\* The loops "for job in list_running_jobs...: defer_job(job)".
DeferAll(db, lost) ==
    [db EXCEPT !.jobs = [j \in Job |->
        IF j \in lost THEN Requeued(db.jobs[j], TRUE) ELSE db.jobs[j]]]

Cancellable == {"QUEUED", "DISPATCHING"}

cancel_job(db, j) ==
    IF db.jobs[j].status \in Cancellable THEN SetStatus(db, j, "ABORTED") ELSE db

-------------------------------------------------------------------------------
(* Retries, dead letters and the parser's health. *)

schedule_retry(db, j, next_retry_count) ==
    WithRow(db, j, [Requeued(db.jobs[j], FALSE) EXCEPT !.retry = next_retry_count])

\* move_to_dead_letter is two statements: the letter, then the row.
insert_dead_letter(db, j) == [db EXCEPT !.dead[j] = @ + 1]

move_to_dead_letter(db, j) == SetStatus(insert_dead_letter(db, j), j, "FAILED")

record_parser_success(db, p) == WithHealth(db, p, 0, db.health[p].paused)

record_parser_failure(db, p) ==
    WithHealth(db, p, db.health[p].fails + 1, db.health[p].paused)

check_circuit_breaker_db(db, p) ==
    IF ~db.health[p].paused /\ db.health[p].fails >= CIRCUIT_BREAKER_THRESHOLD
    THEN WithHealth(db, p, db.health[p].fails, TRUE)
    ELSE db

resume_parser(db, p) == WithHealth(db, p, db.health[p].fails, FALSE)

-------------------------------------------------------------------------------
(* The pipeline run a job belongs to. *)

RunJobs(db, r, statuses) ==
    {j \in Job : db.jobs[j].run = r /\ db.jobs[j].status \in statuses}

update_pipeline_run_status(db, r) ==
    [db EXCEPT !.runs[r] =
        IF RunJobs(db, r, {"FAILED", "ABORTED"}) # {} THEN "failed"
        ELSE IF RunJobs(db, r, {"QUEUED", "RUNNING"}) # {} THEN "running"
        ELSE IF RunJobs(db, r, {"COMPLETED"}) # {} THEN "completed"
        ELSE @]

update_pipeline_run_status_for_job(db, j) ==
    IF db.jobs[j].run = NoRun THEN db
    ELSE update_pipeline_run_status(db, db.jobs[j].run)

set_pipeline_run_running(db, r) ==
    IF r = NoRun THEN db ELSE [db EXCEPT !.runs[r] = "running"]

===============================================================================
