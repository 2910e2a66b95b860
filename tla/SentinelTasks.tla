---------------------------- MODULE SentinelTasks -----------------------------
(***************************************************************************)
(* The database tasks of the Sentinel (crates/casparian_sentinel/src/      *)
(* sentinel.rs).  The Sentinel's reactor never touches the database: it    *)
(* hands closures to the SqliteExecutor, whose one thread runs them one    *)
(* after another.  A closure is several autocommitted statements, so       *)
(* nothing else happens in the database between two of them, but a crash   *)
(* of the process, or a statement that returns an error, can keep any      *)
(* prefix.  A task is therefore the sequence of the tables after each of   *)
(* its statements: Done(s) is what a task that ran to its end leaves, and  *)
(* Torn(db, s) is the set of what one that was cut short can leave.        *)
(***************************************************************************)
EXTENDS QueueStore, Sequences

\* A lease: the token, the job and the worker of one dispatch.
Lease == [token : Token, job : Job, worker : Worker]

Done(steps) == steps[Len(steps)]

Torn(db, steps) == {db} \cup {steps[k] : k \in 1 .. Len(steps)}

-------------------------------------------------------------------------------
(* prepare_dispatch_plan *)

\* The job is leased and its lease handed to worker w under token t.
Leased(db, j, t, w) ==
    set_dispatch_lease(lease_jobs_for_dispatch(db, j), j, t, w)

\* A plan was built: the DISPATCH will be sent.
PlanSteps(db, j, t, w) ==
    << lease_jobs_for_dispatch(db, j), Leased(db, j, t, w) >>

\* fail_dispatch: the plugin or the file cannot be dispatched at all.
FailDispatchSteps(db, j, t, w) ==
    LET l == Leased(db, j, t, w)
        f == fail_job_if_token_matches_dispatching(l, j, t)
    IN  << lease_jobs_for_dispatch(db, j), l, f,
           update_pipeline_run_status_for_job(f, j) >>

\* defer_dispatch: try again DISPATCH_PREP_RETRY_MS later.
DeferDispatchSteps(db, j, t, w) ==
    LET l == Leased(db, j, t, w)
        d == defer_job_if_token_matches(l, j, t, FALSE)
    IN  << lease_jobs_for_dispatch(db, j), l, d,
           update_pipeline_run_status_for_job(d, j) >>

-------------------------------------------------------------------------------
(* process_conclude_db, one sequence per receipt status.  The token of the *)
(* receipt is compared by the first statement that touches the job's row;  *)
(* what comes before it is done for stale receipts too.                    *)

insert_job_artifacts(db, j) == [db EXCEPT !.artifacts = @ \cup {j}]

record_materializations_for_job(db, j) == [db EXCEPT !.mats = @ \cup {j}]

SuccessSteps(db, j, t) ==
    LET a == insert_job_artifacts(db, j)
        c == complete_job_if_token_matches(a, j, t)
        m == record_materializations_for_job(c, j)
        h == record_parser_success(m, db.jobs[j].plugin)
    IN  IF TokenMatches(db, j, t, "RUNNING")
        THEN << a, c, m, h, update_pipeline_run_status_for_job(h, j) >>
        ELSE << a >>

\* Mutant: one retry too many.
OneRetryTooMany(db, j, transient) ==
    transient /\ db.jobs[j].retry <= MAX_RETRY_COUNT

\* handle_job_failure_db on the row as fail_job_if_token_matches left it.
RetriesLeft(db, j, transient) ==
    transient /\ db.jobs[j].retry < MAX_RETRY_COUNT

\* Mutant: a permanent failure is taken for a completion with warnings.
FailureAsWarning(db, j, t, transient) ==
    IF transient THEN << db >> ELSE SuccessSteps(db, j, t)

FailureSteps(db, j, t, transient) ==
    LET p == db.jobs[j].plugin
        n == record_parser_failure(db, p)
        b == check_circuit_breaker_db(n, p)
        f == fail_job_if_token_matches(b, j, t)
        r == schedule_retry(f, j, db.jobs[j].retry + 1)
        d == move_to_dead_letter(f, j)
    IN  IF ~TokenMatches(db, j, t, "RUNNING")
        THEN << n, b >>
        ELSE IF RetriesLeft(db, j, transient)
        THEN << n, b, f, r, update_pipeline_run_status_for_job(r, j) >>
        ELSE << n, b, f, insert_dead_letter(f, j), d,
                update_pipeline_run_status_for_job(d, j) >>

\* The worker was at capacity.
RejectedSteps(db, j, t) ==
    LET d == defer_job_if_token_matches(db, j, t, TRUE)
    IN  IF TokenMatches(db, j, t, "DISPATCHING")
        THEN << d, update_pipeline_run_status_for_job(d, j) >>
        ELSE << d >>

AbortedSteps(db, j, t) ==
    LET a == abort_job_if_token_matches(db, j, t)
    IN  IF TokenMatches(db, j, t, "RUNNING")
        THEN << a, update_pipeline_run_status_for_job(a, j) >>
        ELSE << a >>

ReceiptStatus == {"success", "transient", "permanent", "rejected", "aborted"}

process_conclude_db(db, j, t, status) ==
    CASE status = "success"   -> SuccessSteps(db, j, t)
      [] status = "transient" -> FailureSteps(db, j, t, TRUE)
      [] status = "permanent" -> FailureSteps(db, j, t, FALSE)
      [] status = "rejected"  -> RejectedSteps(db, j, t)
      [] status = "aborted"   -> AbortedSteps(db, j, t)

-------------------------------------------------------------------------------
(* The reconciliation after a restart of the Sentinel. *)

list_running_jobs_by_owner(db, w) ==
    {j \in Job : db.jobs[j].status = "RUNNING" /\ db.jobs[j].owner = w}

\* The jobs the worker owns and did not report as active.
reconcile_running_jobs_for_worker(db, w, active) ==
    DeferAll(db, list_running_jobs_by_owner(db, w) \ active)

\* The running jobs of every worker that did not come back in time.
MissingJobs(db, seen) ==
    {j \in Job : db.jobs[j].status = "RUNNING" /\ db.jobs[j].owner \notin seen}

reconcile_missing_workers_after_grace(db, seen) == DeferAll(db, MissingJobs(db, seen))

===============================================================================
