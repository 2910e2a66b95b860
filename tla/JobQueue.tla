------------------------------- MODULE JobQueue -------------------------------
(***************************************************************************)
(* The job queue as its clients see it: the tables of QueueStore under     *)
(* every task the Sentinel runs on them, in any order.  Workers, sockets   *)
(* and the Sentinel's memory are not here.  They are replaced by the most  *)
(* hostile environment they can be: a DISPATCH_ACK or a CONCLUDE of any    *)
(* lease ever handed out may arrive at any moment, any number of times or  *)
(* never, and a crash may cut any task after any of its statements.        *)
(*                                                                         *)
(* `issued' and `settled' are history: the leases handed out so far, and   *)
(* for each lease token how often a receipt, an orphan sweep or a fatal    *)
(* dispatch was applied to the job's row in its name.                      *)
(***************************************************************************)
EXTENDS SentinelTasks

VARIABLES
    db,         \* the tables (persistent)
    issued,     \* the leases handed out
    settled     \* how many outcomes were applied under each token

queue == << db, issued, settled >>

NoRow == [status |-> "ABSENT", token |-> NoToken, owner |-> NoWorker,
          retry |-> 0, due |-> FALSE,
          plugin |-> CHOOSE p \in Parser : TRUE, run |-> NoRun]

EmptyTables ==
    [jobs      |-> [j \in Job |-> NoRow],
     dead      |-> [j \in Job |-> 0],
     health    |-> [p \in Parser |-> [fails |-> 0, paused |-> FALSE]],
     runs      |-> [r \in Run |-> "queued"],
     mats      |-> {},
     artifacts |-> {}]

QueueInit ==
    /\ db = EmptyTables
    /\ issued = {}
    /\ settled = [t \in Token |-> 0]

\* The lease is settled by this step exactly when the step changed the row.
SettleRow(j, t) ==
    settled' = IF db'.jobs[j] = db.jobs[j] THEN settled
               ELSE [settled EXCEPT ![t] = @ + 1]

-------------------------------------------------------------------------------
(* Clients of the queue. *)

\* AUTOINCREMENT: the new row has the smallest id that was never used.
NextId(j) ==
    /\ db.jobs[j].status = "ABSENT"
    /\ \A k \in Job : k < j => db.jobs[k].status # "ABSENT"

Enqueue(j, p, r) ==
    /\ NextId(j)
    /\ db' = enqueue_job(db, j, p, r)
    /\ UNCHANGED << issued, settled >>

CancelJob(j) ==
    /\ db.jobs[j].status # "ABSENT"
    /\ db' = cancel_job(db, j)
    /\ UNCHANGED << issued, settled >>

ResumeParser(p) ==
    /\ db' = resume_parser(db, p)
    /\ UNCHANGED << issued, settled >>

\* replay_dead_letter: a new row for the letter's job, then the letter is
\* deleted; a crash between the two statements keeps both.
ReplayDeadLetter(j, k) ==
    /\ db.dead[j] > 0
    /\ NextId(k)
    /\ LET replayed == enqueue_job(db, k, db.jobs[j].plugin, NoRun)
       IN  db' \in {replayed, [replayed EXCEPT !.dead[j] = @ - 1]}
    /\ UNCHANGED << issued, settled >>

\* The clock passes the scheduled_at of a job in backoff.
BackoffElapses(j) ==
    /\ db.jobs[j].status = "QUEUED"
    /\ ~db.jobs[j].due
    /\ db' = WithRow(db, j, [db.jobs[j] EXCEPT !.due = TRUE])
    /\ UNCHANGED << issued, settled >>

-------------------------------------------------------------------------------
(* Tasks of the Sentinel. *)

Unused(t) == \A l \in issued : l.token # t

\* A crash before the token is stored: nobody holds a lease on the row.
LeaseCut(j) ==
    /\ FirstLeasable(db, j)
    /\ db' = lease_jobs_for_dispatch(db, j)
    /\ UNCHANGED << issued, settled >>

PrepareDispatch(j, t, w) ==
    /\ FirstLeasable(db, j)
    /\ Unused(t)
    /\ issued' = issued \cup {[token |-> t, job |-> j, worker |-> w]}
    /\ \/ /\ db' = Done(PlanSteps(db, j, t, w))
          /\ UNCHANGED settled
       \/ /\ db' \in {FailDispatchSteps(db, j, t, w)[k] : k \in 3 .. 4}
          /\ settled' = [settled EXCEPT ![t] = @ + 1]
       \/ /\ db' \in {DeferDispatchSteps(db, j, t, w)[k] : k \in 3 .. 4}
          /\ settled' = [settled EXCEPT ![t] = @ + 1]

AckDispatch(l) ==
    /\ db' = ack_dispatch(db, l.job, l.token, l.worker)
    /\ UNCHANGED << issued, settled >>

SweepExpired(expired) ==
    /\ db' = requeue_expired_dispatches(db, expired)
    /\ UNCHANGED << issued, settled >>

Conclude(l, status) ==
    /\ db' \in Torn(db, process_conclude_db(db, l.job, l.token, status))
    /\ SettleRow(l.job, l.token)
    /\ UNCHANGED issued

\* A stale worker was removed while it held this lease.
FailOrphan(l) ==
    /\ db' = fail_job_if_token_matches(db, l.job, l.token)
    /\ SettleRow(l.job, l.token)
    /\ UNCHANGED issued

\* A plan whose worker was busy, gone or unreachable when it was drained.
DeferPlan(l) ==
    /\ db' = defer_job(db, l.job)
    /\ UNCHANGED << issued, settled >>

\* Either reconciliation, or as much of it as a crash left.
Reconcile(lost) ==
    /\ \A j \in lost : db.jobs[j].status = "RUNNING"
    /\ db' = DeferAll(db, lost)
    /\ UNCHANGED << issued, settled >>

SetRunRunning(l) ==
    /\ db' = set_pipeline_run_running(db, db.jobs[l.job].run)
    /\ UNCHANGED << issued, settled >>

QueueNext ==
    \/ \E j \in Job, p \in Parser, r \in Run \cup {NoRun} : Enqueue(j, p, r)
    \/ \E j \in Job : CancelJob(j) \/ BackoffElapses(j) \/ LeaseCut(j)
    \/ \E p \in Parser : ResumeParser(p)
    \/ \E j, k \in Job : ReplayDeadLetter(j, k)
    \/ \E j \in Job, t \in Token, w \in Worker : PrepareDispatch(j, t, w)
    \/ \E expired \in SUBSET Job : SweepExpired(expired) \/ Reconcile(expired)
    \/ \E l \in issued : \/ AckDispatch(l) \/ FailOrphan(l) \/ DeferPlan(l)
                         \/ SetRunRunning(l)
                         \/ \E status \in ReceiptStatus : Conclude(l, status)

QueueSpec == QueueInit /\ [][QueueNext]_queue

-------------------------------------------------------------------------------
(* The types of the tables and of the history.                             *)
QueueTypeOK ==
    /\ db \in Tables
    /\ issued \subseteq Lease
    /\ settled \in [Token -> Nat]

\* A job that is somebody's: leased to a worker, or running on it.
Active == {"DISPATCHING", "RUNNING"}

(* A lease gets at most one outcome: however receipts are duplicated,      *)
(* delayed or reordered, and wherever tasks are cut, no two of them are    *)
(* applied to a job under one lease token.                                 *)
AtMostOneOutcome == \A t \in Token : settled[t] <= 1

(* A RUNNING row names the very lease it runs under: its token was handed  *)
(* out for this job, and its lease_owner is the worker it was handed to.   *)
(* list_running_jobs_by_owner relies on it after a restart.                *)
RunningIsOwned ==
    \A j \in Job : db.jobs[j].status = "RUNNING" =>
        \E l \in issued : /\ l.token = db.jobs[j].token
                          /\ l.job = j
                          /\ l.worker = db.jobs[j].owner

(* A job is retried at most MAX_RETRY_COUNT times, however its failures    *)
(* interleave with requeues, reconciliations and stale receipts.           *)
RetriesBounded == \A j \in Job : db.jobs[j].retry <= MAX_RETRY_COUNT

(* The remaining parts of the inductive invariant: tokens are never handed *)
(* out twice, a token in a row was handed out for that row's job, a queued *)
(* row carries no lease, and a lease that had its outcome is not active.   *)
TokensUnique == \A l, m \in issued : l.token = m.token => l = m

RowTokenIssued ==
    \A j \in Job : db.jobs[j].token # NoToken =>
        \E l \in issued : l.token = db.jobs[j].token /\ l.job = j

QueuedIsUnleased ==
    \A j \in Job : db.jobs[j].status \in {"ABSENT", "QUEUED"} =>
        db.jobs[j].token = NoToken /\ db.jobs[j].owner = NoWorker

SettledIsInactive ==
    \A j \in Job : (db.jobs[j].status \in Active /\ db.jobs[j].token \in Token)
                     => settled[db.jobs[j].token] = 0

SettledWasIssued == \A t \in Token : settled[t] > 0 => ~Unused(t)

(* The invariant that makes the two above inductive, as one conjunction.   *)
LeaseInv ==
    /\ AtMostOneOutcome /\ RunningIsOwned /\ TokensUnique /\ RowTokenIssued
    /\ QueuedIsUnleased /\ SettledIsInactive /\ SettledWasIssued

===============================================================================
