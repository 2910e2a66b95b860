------------------------------- MODULE Dispatch -------------------------------
(***************************************************************************)
(* The Sentinel, its database thread and its workers, as the processes and *)
(* messages they really are.                                               *)
(*                                                                         *)
(* The Sentinel's reactor (sentinel.rs) is one thread that handles worker  *)
(* messages and control requests and drains the answers of the database    *)
(* thread; it changes its own memory and hands tasks to the SqliteExecutor *)
(* (sqlite_executor.rs), one thread with a FIFO of closures.  A worker     *)
(* (worker.rs) has an event loop and, since MAX_CONCURRENT_JOBS is 1, at   *)
(* most one job thread.  Each pair is joined by two ZeroMQ pipes, FIFO in  *)
(* each direction.  The reactor and the worker may be interleaved at any   *)
(* handler; time is abstract, so a lease may expire, a worker may go stale *)
(* and the restart grace may end whenever the code would look at the clock.*)
(*                                                                         *)
(* The Sentinel may crash, which cuts the task it is running and loses its *)
(* memory, its queued tasks and what its sockets had taken in or not yet   *)
(* delivered.  Workers may die.  A worker keeps its pipe, and with it its  *)
(* ZeroMQ identity, for as long as the Sentinel is up.                     *)
(***************************************************************************)
EXTENDS JobQueue, SequencesExt

CONSTANTS
    NoLease,
    max_workers,    \* the cap on registered workers
    Cancelled,      \* the jobs a user asks to cancel, once each
    Mortal,         \* the workers that may die or be shut down
    Beating,        \* the workers whose IDENTIFY and HEARTBEAT timers fire
    MaxStarts,      \* how often the Sentinel is started
    Failures,       \* the kinds of error that jobs and dispatches may meet
    Capacity        \* of the executor's bounded channel

ASSUME DispatchAssumption ==
    /\ NoLease \notin Lease
    /\ max_workers \in Nat \ {0}
    /\ Cancelled \subseteq Job
    /\ Mortal \subseteq Worker
    /\ Beating \subseteq Worker
    /\ MaxStarts \in Nat \ {0}
    /\ Failures \subseteq {"transient", "permanent", "fail_dispatch", "defer_dispatch"}
    /\ Capacity \in Nat \ {0}

VARIABLES
    tasks,          \* the closures queued at the SqliteExecutor
    mem,            \* the Sentinel's memory
    toSentinel,     \* per worker, the messages on their way to the Sentinel
    toWorker,       \* per worker, the messages on their way to it
    wk,             \* the workers
    promoted,       \* history: the tokens under which a worker committed outputs,
    committed       \* and those under which it committed all of them

net == << toSentinel, toWorker >>
vars == << db, tasks, mem, toSentinel, toWorker, wk, issued, settled,
           promoted, committed >>

-------------------------------------------------------------------------------
(* State. *)

NotRegistered == [known |-> FALSE, status |-> "Idle", lease |-> NoLease]

NoPlan == [asked |-> FALSE, lease |-> NoLease]

\* A Sentinel that has just bound its sockets.
FreshMemory(starts) ==
    [up         |-> TRUE,
     starts     |-> starts,
     workers    |-> [w \in Worker |-> NotRegistered],
     plans      |-> [w \in Worker |-> NoPlan],         \* pending_dispatches
     grace      |-> TRUE,                              \* startup_grace_deadline
     seen       |-> {},                                \* seen_worker_ids
     reconciled |-> {},                                \* reconciled_workers
     cancels    |-> [j \in Job |-> "none"]]            \* pending_cancel_jobs

\* A worker whose active_jobs is empty.
IdleWorker == [up |-> TRUE, stage |-> "idle", lease |-> NoLease,
               cancelled |-> FALSE, result |-> "none"]

Init ==
    /\ QueueInit
    /\ tasks = << >>
    /\ mem = FreshMemory(1)
    /\ toSentinel = [w \in Worker |-> << [op |-> "IDENTIFY"] >>]
    /\ toWorker = [w \in Worker |-> << >>]
    /\ wk = [w \in Worker |-> IdleWorker]
    /\ promoted = {}
    /\ committed = {}

\* Something the Sentinel does leaves the queue's tables, the workers and
\* the history alone; something a worker does leaves the Sentinel alone.
SentinelOnly == UNCHANGED << db, wk, issued, settled, promoted, committed >>
WorkerOnly == UNCHANGED << db, tasks, mem, issued, settled >>

\* sync_channel(256): the reactor waits for room.
Submit(task) ==
    /\ Len(tasks) < Capacity
    /\ tasks' = Append(tasks, task)

Register(w, entry) == mem' = [mem EXCEPT !.workers[w] = entry]

Send(w, msg) == toSentinel' = [toSentinel EXCEPT ![w] = Append(@, msg)]

\* ROUTER_MANDATORY: a send to a worker that is gone fails.
Dispatched(w, msg) == [toWorker EXCEPT ![w] = Append(@, msg)]

-------------------------------------------------------------------------------
(* The Sentinel's reactor: messages from workers. *)

\* recv_message and handle_message: the next message of worker w.
Receive(w, op) ==
    /\ mem.up
    /\ toSentinel[w] # << >>
    /\ Head(toSentinel[w]).op = op
    /\ toSentinel' = [toSentinel EXCEPT ![w] = Tail(@)]
    /\ UNCHANGED toWorker
    /\ SentinelOnly

KnownWorkers == {w \in Worker : mem.workers[w].known}

register_worker(w) ==
    /\ Receive(w, "IDENTIFY")
    /\ mem' = IF w \in KnownWorkers
              THEN [mem EXCEPT !.seen = @ \cup {w}]
              ELSE IF Cardinality(KnownWorkers) >= max_workers
              THEN mem
              ELSE [mem EXCEPT !.seen = @ \cup {w},
                               !.workers[w] = [NotRegistered EXCEPT !.known = TRUE]]
    /\ UNCHANGED tasks

handle_dispatch_ack(w) ==
    /\ Receive(w, "DISPATCH_ACK")
    /\ LET l == Head(toSentinel[w]).lease
       IN  IF mem.workers[w].known /\ mem.workers[w].lease = l
           THEN Submit([op |-> "ack", lease |-> l])
           ELSE UNCHANGED tasks
    /\ UNCHANGED mem

handle_heartbeat(w) ==
    /\ Receive(w, "HEARTBEAT")
    /\ LET active == Head(toSentinel[w]).active
           entry  == [mem.workers[w] EXCEPT !.status =
                         IF active = {} THEN "Idle" ELSE "Busy"]
           first  == mem.grace /\ w \notin mem.reconciled
       IN  IF ~mem.workers[w].known
           THEN UNCHANGED << mem, tasks >>
           ELSE /\ mem' = [mem EXCEPT !.workers[w] = entry,
                                      !.seen = @ \cup {w},
                                      !.reconciled = IF first THEN @ \cup {w} ELSE @]
                /\ IF first
                   THEN Submit([op |-> "reconcile", worker |-> w, active |-> active])
                   ELSE UNCHANGED tasks

\* Mutant: a CONCLUDE of a worker that was removed is dropped.
handle_known_conclude(w) ==
    /\ Receive(w, "CONCLUDE")
    /\ LET msg == Head(toSentinel[w])
       IN  IF mem.workers[w].known
           THEN /\ Submit([op |-> "conclude", lease |-> msg.lease, status |-> msg.status])
                /\ Register(w, [NotRegistered EXCEPT !.known = TRUE])
           ELSE UNCHANGED << mem, tasks >>

handle_conclude(w) ==
    /\ Receive(w, "CONCLUDE")
    /\ LET msg == Head(toSentinel[w])
       IN  Submit([op |-> "conclude", lease |-> msg.lease, status |-> msg.status])
    /\ IF mem.workers[w].known
       THEN Register(w, [NotRegistered EXCEPT !.known = TRUE])
       ELSE UNCHANGED mem

-------------------------------------------------------------------------------
(* The Sentinel's reactor: control requests and timers. *)

handle_control_request(j) ==
    /\ mem.up
    /\ j \in Cancelled
    /\ db.jobs[j].status # "ABSENT"
    /\ mem.cancels[j] = "none"
    /\ mem' = [mem EXCEPT !.cancels[j] = "asked"]
    /\ Submit([op |-> "cancel", job |-> j])
    /\ UNCHANGED net
    /\ SentinelOnly

\* The workers the Sentinel believes to have the job.
Holders(j) == {w \in KnownWorkers : mem.workers[w].lease # NoLease
                                      /\ mem.workers[w].lease.job = j}

drain_pending_cancel_jobs(j) ==
    /\ mem.up
    /\ mem.cancels[j] \in {"cancelled", "notCancelled"}
    /\ mem' = [mem EXCEPT !.cancels[j] = "closed"]
    /\ IF mem.cancels[j] = "cancelled" \/ Holders(j) = {}
       THEN UNCHANGED toWorker
       ELSE \E w \in Holders(j) :
              IF wk[w].up
              THEN toWorker' = Dispatched(w, [op |-> "ABORT", job |-> j])
              ELSE UNCHANGED toWorker
    /\ UNCHANGED << tasks, toSentinel >>
    /\ SentinelOnly

\* One pass of the loop hands out at most one prepare task per idle worker.
\* The model stops asking when its lease tokens are used up.
Prepares == Cardinality({i \in DOMAIN tasks : tasks[i].op = "prepare"})

dispatch_loop(w) ==
    /\ mem.up
    /\ mem.workers[w].known
    /\ mem.workers[w].status = "Idle"
    /\ ~mem.plans[w].asked
    /\ Cardinality(issued) + Prepares < Cardinality(Token)
    /\ mem' = [mem EXCEPT !.plans[w].asked = TRUE]
    /\ Submit([op |-> "prepare", worker |-> w])
    /\ UNCHANGED net
    /\ SentinelOnly

\* send_dispatch_plan, when the socket takes the message.
SendPlan(w, l) ==
    /\ toWorker' = Dispatched(w, [op |-> "DISPATCH", lease |-> l])
    /\ mem' = [mem EXCEPT !.plans[w] = NoPlan,
                          !.workers[w] = [known |-> TRUE, status |-> "Busy", lease |-> l]]
    /\ LET run == db.jobs[l.job].run
       IN  IF run = NoRun THEN UNCHANGED tasks
           ELSE Submit([op |-> "running", lease |-> l])

\* The worker is not there to take the plan: the job is deferred.
DropPlan(w, l, entry) ==
    /\ Submit([op |-> "defer", job |-> l.job])
    /\ mem' = [mem EXCEPT !.plans[w] = NoPlan, !.workers[w] = entry]
    /\ UNCHANGED toWorker

drain_pending_dispatches(w) ==
    /\ mem.up
    /\ mem.plans[w].lease # NoLease
    /\ LET l     == mem.plans[w].lease
           entry == mem.workers[w]
           idle  == entry.known /\ entry.status = "Idle"
       IN  \/ ~idle /\ DropPlan(w, l, entry)
           \/ idle /\ wk[w].up /\ SendPlan(w, l)
           \/ idle /\ ~wk[w].up /\ DropPlan(w, l, [entry EXCEPT !.lease = NoLease])
    /\ UNCHANGED toSentinel
    /\ SentinelOnly

\* pending_dispatch_sweep keeps a second sweep from being submitted.
sweep_expired_dispatches ==
    /\ mem.up
    /\ \A i \in DOMAIN tasks : tasks[i].op # "sweep"
    /\ Submit([op |-> "sweep"])
    /\ UNCHANGED << mem, net >>
    /\ SentinelOnly

\* The worker was silent for WORKER_TIMEOUT_SECS; the orphaned job is handed
\* to the executor in the same pass of the loop.
cleanup_stale_workers(w) ==
    /\ mem.up
    /\ mem.workers[w].known
    /\ Register(w, NotRegistered)
    /\ IF mem.workers[w].lease = NoLease THEN UNCHANGED tasks
       ELSE Submit([op |-> "orphan", lease |-> mem.workers[w].lease])
    /\ UNCHANGED net
    /\ SentinelOnly

GraceEnds ==
    /\ mem.up
    /\ mem.grace
    /\ mem' = [mem EXCEPT !.grace = FALSE]
    /\ Submit([op |-> "missing", seen |-> mem.seen])
    /\ UNCHANGED net
    /\ SentinelOnly

-------------------------------------------------------------------------------
(* The SqliteExecutor. *)

SettleTask(task) ==
    settled' = IF task.op \in {"conclude", "orphan"}
                  /\ db'.jobs[task.lease.job] # db.jobs[task.lease.job]
               THEN [settled EXCEPT ![task.lease.token] = @ + 1]
               ELSE settled

\* Mutant: fail_job instead of fail_job_if_token_matches.
fail_orphan_unfenced(l) == SetStatus(db, l.job, "FAILED")

\* The job of a worker that was removed, if it still runs under that lease.
fail_orphan(l) == fail_job_if_token_matches(db, l.job, l.token)

\* What the tables can be after each statement of a task other than prepare.
Steps(task) ==
    CASE task.op = "ack"       -> {<< ack_dispatch(db, task.lease.job, task.lease.token,
                                                   task.lease.worker) >>}
      [] task.op = "conclude"  -> {process_conclude_db(db, task.lease.job,
                                                       task.lease.token, task.status)}
      [] task.op = "orphan"    -> {<< fail_orphan(task.lease) >>}
      [] task.op = "defer"     -> {<< defer_job(db, task.job) >>}
      [] task.op = "cancel"    -> {<< cancel_job(db, task.job) >>}
      [] task.op = "running"   -> {<< set_pipeline_run_running(db,
                                         db.jobs[task.lease.job].run) >>}
      [] task.op = "sweep"     -> {<< requeue_expired_dispatches(db, expired) >> :
                                     expired \in SUBSET Dispatching(db)}
      [] task.op = "reconcile" -> {<< reconcile_running_jobs_for_worker(db,
                                         task.worker, task.active) >>}
      [] task.op = "missing"   -> {<< reconcile_missing_workers_after_grace(db, task.seen) >>}

\* The reply to a cancel request says whether the row was cancelled.
CancelReply(task) ==
    IF task.op = "cancel"
    THEN mem' = [mem EXCEPT !.cancels[task.job] =
                    IF db'.jobs[task.job] = db.jobs[task.job]
                    THEN "notCancelled" ELSE "cancelled"]
    ELSE UNCHANGED mem

RunTask ==
    /\ mem.up
    /\ tasks # << >>
    /\ Head(tasks).op # "prepare"
    /\ \E steps \in Steps(Head(tasks)) : db' = Done(steps)
    /\ SettleTask(Head(tasks))
    /\ CancelReply(Head(tasks))
    /\ tasks' = Tail(tasks)
    /\ UNCHANGED << net, wk, issued, promoted, committed >>

\* prepare_dispatch_plan with a job to lease: a plan, a fatal failure or a
\* transient one.
Prepared(j, t, w) ==
    {PlanSteps(db, j, t, w)}
    \cup {FailDispatchSteps(db, j, t, w) : f \in Failures \cap {"fail_dispatch"}}
    \cup {DeferDispatchSteps(db, j, t, w) : f \in Failures \cap {"defer_dispatch"}}

RunPrepare(w) ==
    /\ mem.up
    /\ tasks # << >>
    /\ Head(tasks) = [op |-> "prepare", worker |-> w]
    /\ tasks' = Tail(tasks)
    /\ \/ /\ Leasable(db) = {}
          /\ mem' = [mem EXCEPT !.plans[w] = NoPlan]
          /\ UNCHANGED queue
       \/ \E j \in Job, t \in Token :
            LET l == [token |-> t, job |-> j, worker |-> w]
            IN  /\ FirstLeasable(db, j)
                /\ Unused(t)
                /\ issued' = issued \cup {l}
                /\ \E steps \in Prepared(j, t, w) :
                     /\ db' = Done(steps)
                     /\ IF steps = PlanSteps(db, j, t, w)
                        THEN /\ mem' = [mem EXCEPT !.plans[w].lease = l]
                             /\ UNCHANGED settled
                        ELSE /\ mem' = [mem EXCEPT !.plans[w] = NoPlan]
                             /\ settled' = [settled EXCEPT ![t] = @ + 1]
    /\ UNCHANGED << net, wk, promoted, committed >>

-------------------------------------------------------------------------------
(* Crash and restart of the Sentinel. *)

\* The process is gone: requests that were not answered never will be.  Of
\* what was on its way, the Sentinel had received some oldest messages and
\* had not delivered some newest ones: those are lost.
Crashed ==
    /\ mem.up
    /\ mem.starts < MaxStarts
    /\ tasks' = << >>
    /\ mem' = [FreshMemory(mem.starts) EXCEPT
                  !.up = FALSE,
                  !.cancels = [j \in Job |-> IF mem.cancels[j] = "none"
                                             THEN "none" ELSE "closed"]]
    /\ \E f \in [Worker -> 0 .. Max({Len(toSentinel[w]) : w \in Worker} \cup {0})] :
         toSentinel' = [w \in Worker |-> SubSeq(toSentinel[w], 1 + f[w], Len(toSentinel[w]))]
    /\ \E f \in [Worker -> 0 .. Max({Len(toWorker[w]) : w \in Worker} \cup {0})] :
         /\ \A w \in Worker : f[w] <= Len(toWorker[w])
         /\ toWorker' = [w \in Worker |-> SubSeq(toWorker[w], 1, f[w])]
    /\ UNCHANGED << wk, promoted, committed >>

\* Between two tasks.
CrashIdle == Crashed /\ UNCHANGED queue

\* In the middle of a task; the loops over lost jobs may have deferred some.
Lost(task) ==
    IF task.op = "reconcile"
    THEN list_running_jobs_by_owner(db, task.worker) \ task.active
    ELSE MissingJobs(db, task.seen)

CrashInTask ==
    /\ tasks # << >>
    /\ LET task == Head(tasks)
       IN  /\ task.op \notin {"prepare", "cancel"}
           /\ IF task.op \in {"reconcile", "missing"}
              THEN db' \in {DeferAll(db, some) : some \in SUBSET Lost(task)}
              ELSE \E steps \in Steps(task) : db' \in Torn(db, steps)
           /\ SettleTask(task)
    /\ UNCHANGED issued
    /\ Crashed

CrashInPrepare ==
    /\ tasks # << >>
    /\ Head(tasks).op = "prepare"
    /\ \E j \in Job, t \in Token :
         LET w == Head(tasks).worker
         IN  /\ FirstLeasable(db, j)
             /\ Unused(t)
             /\ \E steps \in Prepared(j, t, w) : \E k \in DOMAIN steps :
                  /\ db' = steps[k]
                  /\ issued' = IF k = 1 THEN issued
                               ELSE issued \cup {[token |-> t, job |-> j, worker |-> w]}
                  /\ settled' = IF k <= 2 THEN settled ELSE [settled EXCEPT ![t] = @ + 1]
    /\ Crashed

\* bind: leases that expired in the meantime are taken back first.
Restart ==
    /\ ~mem.up
    /\ \E expired \in SUBSET Dispatching(db) :
         db' = requeue_expired_dispatches(db, expired)
    /\ mem' = [FreshMemory(mem.starts + 1) EXCEPT !.cancels = mem.cancels]
    /\ UNCHANGED << tasks, net, wk, issued, settled, promoted, committed >>

-------------------------------------------------------------------------------
(* Workers. *)

Alive(w) == wk[w].up

InPipe(w, op) == \E i \in DOMAIN toSentinel[w] : toSentinel[w][i].op = op

\* The timers of the event loop.  The model keeps at most one IDENTIFY or
\* HEARTBEAT of a worker on the way.
TimerMayFire(w) ==
    w \in Beating /\ ~InPipe(w, "IDENTIFY") /\ ~InPipe(w, "HEARTBEAT")

send_identify(w) ==
    /\ Alive(w)
    /\ TimerMayFire(w)
    /\ Send(w, [op |-> "IDENTIFY"])
    /\ UNCHANGED << toWorker, wk, promoted, committed >>
    /\ WorkerOnly

\* Mutant: a job whose thread has ended is no longer reported.
RunningJobs(w) == IF wk[w].stage = "running" THEN {wk[w].lease.job} ELSE {}

\* active_jobs still holds a job whose thread ended but was not yet reaped.
ActiveJobs(w) == IF wk[w].stage = "idle" THEN {} ELSE {wk[w].lease.job}

SendHeartbeat(w) ==
    /\ Alive(w)
    /\ TimerMayFire(w)
    /\ Send(w, [op |-> "HEARTBEAT", active |-> ActiveJobs(w)])
    /\ UNCHANGED << toWorker, wk, promoted, committed >>
    /\ WorkerOnly

WorkerReceive(w, op) ==
    /\ Alive(w)
    /\ toWorker[w] # << >>
    /\ Head(toWorker[w]).op = op
    /\ toWorker' = [toWorker EXCEPT ![w] = Tail(@)]
    /\ UNCHANGED << promoted, committed >>
    /\ WorkerOnly

Conclusion(l, status) == [op |-> "CONCLUDE", lease |-> l, status |-> status]

handle_dispatch(w) ==
    /\ WorkerReceive(w, "DISPATCH")
    /\ LET l == Head(toWorker[w]).lease
       IN  IF wk[w].stage = "idle"
           THEN /\ Send(w, [op |-> "DISPATCH_ACK", lease |-> l])
                /\ wk' = [wk EXCEPT ![w] = [IdleWorker EXCEPT !.stage = "running",
                                                              !.lease = l]]
           ELSE /\ Send(w, Conclusion(l, "rejected"))
                /\ UNCHANGED wk

\* The flag matters only to a job thread that is still running.
handle_abort(w) ==
    /\ WorkerReceive(w, "ABORT")
    /\ wk' = IF wk[w].stage = "running" /\ wk[w].lease.job = Head(toWorker[w]).job
             THEN [wk EXCEPT ![w].cancelled = TRUE]
             ELSE wk
    /\ UNCHANGED toSentinel

\* write_outputs_grouped commits one sink URI after the other, each unless its
\* commit guard sees the cancellation: some outputs are promoted, and the job may
\* still fail or be cancelled.
write_outputs_grouped(w) ==
    /\ Alive(w)
    /\ wk[w].stage = "running"
    /\ ~wk[w].cancelled
    /\ wk[w].lease.token \notin promoted
    /\ promoted' = promoted \cup {wk[w].lease.token}
    /\ UNCHANGED << net, wk, committed >>
    /\ WorkerOnly

\* How execute_job ends.  It succeeds when the guard of the last sink URI does not
\* see the cancellation.  An error can be reported whether it was seen or not, but
\* a permanent one is met before anything is written.
JobOutcome(w, cancelled) ==
    {f \in Failures \cap {"transient", "permanent"} :
        f = "permanent" => wk[w].lease.token \notin promoted}
    \cup {IF cancelled THEN "aborted" ELSE "success"}

\* Mutant: the cancellation is looked at after the commit.
execute_job_late_guard(w) ==
    /\ Alive(w)
    /\ wk[w].stage = "running"
    /\ \E status \in JobOutcome(w, wk[w].cancelled) :
         /\ wk' = [wk EXCEPT ![w].stage = "finished", ![w].result = status]
         /\ LET done == IF status \in {"success", "aborted"} THEN {wk[w].lease.token} ELSE {}
            IN  promoted' = promoted \cup done /\ committed' = committed \cup done
    /\ UNCHANGED net
    /\ WorkerOnly

execute_job(w) ==
    /\ Alive(w)
    /\ wk[w].stage = "running"
    /\ \E status \in JobOutcome(w, wk[w].cancelled) :
         /\ wk' = [wk EXCEPT ![w].stage = "finished", ![w].result = status]
         /\ LET done == IF status = "success" THEN {wk[w].lease.token} ELSE {}
            IN  promoted' = promoted \cup done /\ committed' = committed \cup done
    /\ UNCHANGED net
    /\ WorkerOnly

\* The thread's result is found by result_rx.try_recv.  If the pass had
\* reaped the thread before, the job also leaves active_jobs.
DrainResult(w) ==
    /\ Alive(w)
    /\ wk[w].stage = "finished"
    /\ Send(w, Conclusion(wk[w].lease, wk[w].result))
    /\ \/ wk' = [wk EXCEPT ![w].stage = "sent", ![w].result = "none"]
       \/ wk' = [wk EXCEPT ![w] = IdleWorker]
    /\ UNCHANGED << toWorker, promoted, committed >>
    /\ WorkerOnly

reap_completed_jobs(w) ==
    /\ Alive(w)
    /\ wk[w].stage = "sent"
    /\ wk' = [wk EXCEPT ![w] = IdleWorker]
    /\ UNCHANGED << net, promoted, committed >>
    /\ WorkerOnly

GoneWorker == [IdleWorker EXCEPT !.up = FALSE]

\* Graceful shutdown: the job is cancelled and waited for, and what it ends
\* with is sent before the worker goes.  If it takes too long "aborted" is
\* sent for it, although its thread may be past a commit guard, even the last.
wait_for_all_jobs(w) ==
    /\ Alive(w)
    /\ w \in Mortal
    /\ \/ wk[w].stage \in {"idle", "sent"} /\ UNCHANGED << toSentinel, promoted, committed >>
       \/ /\ wk[w].stage = "finished"
          /\ Send(w, Conclusion(wk[w].lease, wk[w].result))
          /\ UNCHANGED << promoted, committed >>
       \/ /\ wk[w].stage = "running"
          /\ \E status \in JobOutcome(w, TRUE) :
               /\ Send(w, Conclusion(wk[w].lease, status))
               /\ \/ UNCHANGED << promoted, committed >>
                  \/ /\ status = "aborted"
                     /\ promoted' = promoted \cup {wk[w].lease.token}
                     /\ committed' \in {committed, committed \cup {wk[w].lease.token}}
    /\ wk' = [wk EXCEPT ![w] = GoneWorker]
    /\ toWorker' = [toWorker EXCEPT ![w] = << >>]
    /\ WorkerOnly

\* Killed: the newest messages may not have left the process.
WorkerDies(w) ==
    /\ Alive(w)
    /\ w \in Mortal
    /\ wk' = [wk EXCEPT ![w] = GoneWorker]
    /\ \E n \in 0 .. Len(toSentinel[w]) :
         toSentinel' = [toSentinel EXCEPT ![w] = SubSeq(@, 1, n)]
    /\ toWorker' = [toWorker EXCEPT ![w] = << >>]
    /\ UNCHANGED << promoted, committed >>
    /\ WorkerOnly

-------------------------------------------------------------------------------
(* The CLI inserts the jobs of a pipeline run one at a time, and the clock *)
(* passes the end of a backoff.                                            *)

Outside == UNCHANGED << tasks, mem, net, wk, promoted, committed >>

enqueue_jobs(j) ==
    /\ \E p \in Parser, r \in Run : Enqueue(j, p, r)
    /\ Outside

ClockPasses(j) == BackoffElapses(j) /\ Outside

-------------------------------------------------------------------------------
Reactor(w) ==
    \/ register_worker(w) \/ handle_dispatch_ack(w) \/ handle_heartbeat(w)
    \/ handle_conclude(w) \/ dispatch_loop(w) \/ drain_pending_dispatches(w)

WorkerStep(w) ==
    \/ handle_dispatch(w) \/ handle_abort(w) \/ write_outputs_grouped(w) \/ execute_job(w)
    \/ DrainResult(w) \/ reap_completed_jobs(w)

Next ==
    \/ \E w \in Worker :
         \/ Reactor(w) \/ cleanup_stale_workers(w) \/ RunPrepare(w)
         \/ WorkerStep(w) \/ send_identify(w) \/ SendHeartbeat(w)
         \/ wait_for_all_jobs(w) \/ WorkerDies(w)
    \/ \E j \in Job : \/ handle_control_request(j) \/ drain_pending_cancel_jobs(j)
                      \/ enqueue_jobs(j) \/ ClockPasses(j)
    \/ sweep_expired_dispatches \/ GraceEnds \/ RunTask
    \/ CrashIdle \/ CrashInTask \/ CrashInPrepare \/ Restart

Spec == Init /\ [][Next]_vars

\* The executor always takes its next closure.  The reactor's loop gives every
\* handler its turn, so one that keeps finding something to do and room in the
\* executor's channel does it (strong fairness).  Worker loops never stop, job
\* threads end and a Sentinel that went down is started again.  A lease that
\* nobody takes up expires, so sweeps do not miss it for ever.  Nothing is
\* assumed of cleanup_stale_workers, GraceEnds, the timers of a worker, users
\* and deaths.
SweepAll ==
    /\ RunTask
    /\ Head(tasks).op = "sweep"
    /\ Dispatching(db') = {}

FairSpec ==
    /\ Spec
    /\ WF_vars(RunTask)
    /\ WF_vars(\E w \in Worker : RunPrepare(w))
    /\ SF_vars(sweep_expired_dispatches)
    /\ SF_vars(SweepAll)
    /\ WF_vars(Restart)
    /\ \A w \in Worker :
         /\ SF_vars(drain_pending_dispatches(w))
         /\ SF_vars(handle_conclude(w) \/ handle_dispatch_ack(w)
                       \/ handle_heartbeat(w) \/ register_worker(w))
         /\ WF_vars(WorkerStep(w))

-------------------------------------------------------------------------------
(* Properties. *)

LeaseOrNone == Lease \cup {NoLease}

Message ==
    [op : {"IDENTIFY"}] \cup [op : {"HEARTBEAT"}, active : SUBSET Job]
    \cup [op : {"DISPATCH", "DISPATCH_ACK"}, lease : Lease]
    \cup [op : {"CONCLUDE"}, lease : Lease, status : ReceiptStatus]
    \cup [op : {"ABORT"}, job : Job]

Task ==
    [op : {"prepare"}, worker : Worker] \cup [op : {"sweep"}]
    \cup [op : {"ack", "orphan", "running"}, lease : Lease]
    \cup [op : {"conclude"}, lease : Lease, status : ReceiptStatus]
    \cup [op : {"defer", "cancel"}, job : Job]
    \cup [op : {"reconcile"}, worker : Worker, active : SUBSET Job]
    \cup [op : {"missing"}, seen : SUBSET Worker]

WorkerStatus == {"Idle", "Busy"}

(* The types of the tables, the tasks, the memories and the messages.      *)
TypeOK ==
    /\ QueueTypeOK
    /\ \A i \in DOMAIN tasks : tasks[i] \in Task
    /\ mem.workers \in [Worker -> [known : BOOLEAN, status : WorkerStatus,
                                   lease : LeaseOrNone]]
    /\ mem.plans \in [Worker -> [asked : BOOLEAN, lease : LeaseOrNone]]
    /\ mem.cancels \in [Job -> {"none", "asked", "cancelled", "notCancelled", "closed"}]
    /\ mem.reconciled \subseteq mem.seen /\ mem.seen \subseteq Worker
    /\ \A w \in Worker : \A i \in DOMAIN toSentinel[w] : toSentinel[w][i] \in Message
    /\ \A w \in Worker : \A i \in DOMAIN toWorker[w] : toWorker[w][i] \in Message
    /\ wk \in [Worker -> [up : BOOLEAN, stage : {"idle", "running", "finished", "sent"},
                          lease : LeaseOrNone, cancelled : BOOLEAN,
                          result : ReceiptStatus \cup {"none"}]]
    /\ committed \subseteq promoted /\ promoted \subseteq Token

(* COMPLETED is never reported for work that did not happen: the lease a   *)
(* completed row still names is one under which a worker committed all its *)
(* outputs, although other leases of the same job may have been running,   *)
(* failing or concluding at the same time (the token guard of              *)
(* complete_job_if_token_matches).                                         *)
CompletedWasCommitted ==
    \A j \in Job : db.jobs[j].status = "COMPLETED" => db.jobs[j].token \in committed

(* A materialization makes later runs skip the file, so it is recorded     *)
(* only for a job whose outputs some lease really committed.               *)
MaterializedWasCommitted ==
    \A j \in db.mats : \E l \in issued : l.job = j /\ l.token \in committed

\* The outcome of the lease (t) is still on its way to the database.
Concluding(t) ==
    \/ \E w \in Worker : wk[w].stage \in {"running", "finished"} /\ wk[w].lease.token = t
    \/ \E w \in Worker : \E i \in DOMAIN toSentinel[w] :
          toSentinel[w][i].op = "CONCLUDE" /\ toSentinel[w][i].lease.token = t
    \/ \E i \in DOMAIN tasks :
          tasks[i].op = "conclude" /\ tasks[i].lease.token = t

(* While the Sentinel stays up and no worker dies, a RUNNING row is never  *)
(* abandoned: its outcome is on its way.  This is what the order of the    *)
(* worker's event loop, the FIFO pipes and the executor's FIFO are for.    *)
OutcomeOnItsWay ==
    \A j \in Job : db.jobs[j].status = "RUNNING" => Concluding(db.jobs[j].token)

(* The reconciliation a heartbeat starts after a restart takes back only   *)
(* jobs the worker really lost: when the database thread gets to it, none  *)
(* of the rows it requeues is being executed by that worker, or concluded  *)
(* by a message behind the heartbeat, under the lease the row names.       *)
ReconcileSparesLiveJobs ==
    (tasks # << >> /\ Head(tasks).op = "reconcile") =>
        \A j \in Lost(Head(tasks)) : ~Concluding(db.jobs[j].token)

(* The database only ever goes through steps of the queue specification:   *)
(* what JobQueue proves of its hostile environment (at most one outcome    *)
(* per lease, running rows owned by their worker) holds of the real        *)
(* Sentinel, its crashes and its workers.                                  *)
ImplementsJobQueue == QueueSpec

(* A lease does not last for ever: while the Sentinel stays up and no      *)
(* worker dies, a job that is DISPATCHING or RUNNING comes back to the     *)
(* queue or ends, also when its plan, DISPATCH or DISPATCH_ACK was dropped.*)
LeaseEnds ==
    \A j \in Job : (db.jobs[j].status \in Active) ~> (db.jobs[j].status \notin Active)

(* ARCHITECTURE.md, core invariant 3, "Cancel means stop", as far as the    *)
(* code keeps it: a job that has written everything is never recorded as   *)
(* aborted.  Under the lease whose receipt made a row ABORTED no worker    *)
(* that is still there has committed all outputs, however the ABORT, the   *)
(* job's result and other leases of the job cross.                         *)
(* "Aborted job cannot commit outputs" is more than the code keeps.  In    *)
(* three ways outputs can be promoted under the lease an ABORTED row       *)
(* names: a row cancelled while it is DISPATCHING gets no receipt and its  *)
(* worker is not told; the guard is asked for each sink URI, so that a job *)
(* cancelled between two of them keeps the first; and a worker that shuts  *)
(* down gives up waiting for a job that is past a guard.                   *)
AbortedDidNotFinish ==
    \A j \in Job : LET row == db.jobs[j] IN
        (row.status = "ABORTED" /\ row.token \in Token /\ settled[row.token] > 0)
            => row.token \notin committed \/ ~wk[row.owner].up

===============================================================================
