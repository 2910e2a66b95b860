----------------------------- MODULE McpServer -----------------------------
(***************************************************************************)
(* The MCP server (crates/casparian_mcp): a thread that serves one tool    *)
(* call at a time from stdin, an executor thread fed by an in-memory       *)
(* channel, and the Core thread that owns the job and approval managers.   *)
(* Core runs one command at a time, so a command is one step here; what a  *)
(* tool or the executor does between two commands interleaves with the     *)
(* other thread and with the people who decide approvals from the command  *)
(* line, the terminal UI, the desktop application or the Control API.      *)
(*                                                                         *)
(* Nothing keeps a second "casparian mcp serve" from using the same store. *)
(* One server is modelled whole; of the others, as many as one likes, what *)
(* their decide tool does to the shared approvals and jobs.  What they run *)
(* in their own executors, and cancel of this server's jobs, is left out.  *)
(*                                                                         *)
(* Faults: a Core command may fail before it reaches the table or lose its *)
(* answer after it did (the Control API client times out), and the process *)
(* may die between any two statements.  Nothing re-fills the channel after *)
(* a restart.                                                              *)
(***************************************************************************)
EXTENDS ApiStore, Sequences

CONSTANTS Approvals,    \* the approval requests clients may make
          NoApproval,   \* the absence of one
          OtherServers, \* further MCP servers on the same state store
          MaxJobs,      \* bound: rows of cf_api_jobs
          MaxFiles,     \* bound: input files of one job
          MaxFaults     \* bound: lost or failed commands and crashes

ASSUME McpAssumption ==
    /\ NoApproval \notin Approvals
    /\ MaxJobs \in Nat /\ MaxFiles \in Nat /\ MaxFaults \in Nat

VARIABLES jobs,        \* cf_api_jobs
          approvals,   \* cf_api_approvals
          tool,        \* the tool call being served: pc, job, approval
          chan,        \* JobExecutorHandle.tx: the ids enqueued, oldest first
          exec,        \* the executor: pc, job, files left, its token's flag
          cancels,     \* the jobs with a token in JobExecutorHandle.cancels
          others,      \* the decision each other server is serving
          foreign,     \* history: the jobs that other servers created
          faults

otherVars == <<others, foreign>>

vars == <<jobs, approvals, tool, chan, exec, cancels, others, foreign, faults>>

JobIds == 1 .. MaxJobs

IdleTool == [pc |-> "idle", job |-> NoJob, approval |-> NoApproval]

IdleExec == [pc |-> "idle", job |-> NoJob, files |-> 0, cancelled |-> FALSE]

Init ==
    /\ jobs = [j \in JobIds |-> AbsentJob(NoApproval)]
    /\ approvals = [a \in Approvals |-> AbsentApproval]
    /\ tool = IdleTool
    /\ chan = <<>>
    /\ exec = IdleExec
    /\ cancels = {}
    /\ others = [s \in OtherServers |-> IdleTool]
    /\ foreign = {}
    /\ faults = 0

-----------------------------------------------------------------------------
(* Core commands and the manager functions behind them *)

(***************************************************************************)
(* How a command ends for its caller: "done", "failed" before anything was *)
(* written, or "lost" when the statements ran and the answer did not come  *)
(* back.                                                                   *)
(***************************************************************************)
Outcome(o) ==
    \/ o = "done" /\ UNCHANGED faults
    \/ o \in {"failed", "lost"} /\ faults < MaxFaults /\ faults' = faults + 1

(***************************************************************************)
(* from_protocol_job refuses a failed row without its error message, so    *)
(* get_job answers with an error for as long as the row exists.            *)
(***************************************************************************)
Readable(row) == row.status = "failed" => row.error

start_job(t, j) ==
    IF t[j].status = "queued" THEN update_job_status(t, j, "running") ELSE t

\* Mutant: the status is not looked at.
fail_any(t, j) == update_job_error(update_job_status(t, j, "failed"), j)

fail_job(t, j) ==
    IF is_terminal_status(t[j].status)
    THEN t
    ELSE update_job_error(update_job_status(t, j, "failed"), j)

(***************************************************************************)
(* The runners report their outputs as a map from name to count;           *)
(* JobResultWrapper parses "outputs" as a list and refuses a map.          *)
(***************************************************************************)
RunnerResult == [outputs |-> "map"]

JobResultParses(result) == result.outputs = "list"

complete_job(t, j, result) ==
    IF JobResultParses(result) /\ t[j].status = "running"
    THEN update_job_status(t, j, "completed")
    ELSE t

-----------------------------------------------------------------------------
(* Tool calls *)

ToolAt(pc) == tool.pc = pc

ToolGoes(pc) == tool' = [tool EXCEPT !.pc = pc]

\* casparian_backtest_start creates the job, then enqueues it.
BacktestStart ==
    /\ ToolAt("idle")
    /\ \E j \in JobIds, o \in {"done", "failed", "lost"} :
          /\ IsNextId(jobs, j)
          /\ Outcome(o)
          /\ jobs' = IF o = "failed" THEN jobs ELSE create_job(jobs, j, NoApproval)
          /\ tool' = IF o = "done" THEN [IdleTool EXCEPT !.pc = "enqueue", !.job = j]
                                   ELSE IdleTool
    /\ UNCHANGED <<approvals, chan, exec, cancels, otherVars>>

\* casparian_run_request: one approval, no job.
RunRequest(a) ==
    /\ ToolAt("idle")
    /\ approvals[a].status = "none"
    /\ \E o \in {"done", "failed", "lost"} :
          /\ Outcome(o)
          /\ approvals' = IF o = "failed" THEN approvals ELSE create_approval(approvals, a)
    /\ UNCHANGED <<jobs, tool, chan, exec, cancels, otherVars>>

\* Mutant: an approval that was decided can be decided again.
decide_read_any(a) ==
    /\ ToolAt("idle")
    /\ approvals[a].status # "none"
    /\ \E pc \in {"approve", "reject"} :
          tool' = [IdleTool EXCEPT !.pc = pc, !.approval = a]
    /\ UNCHANGED <<jobs, approvals, chan, exec, cancels, faults, otherVars>>

\* casparian_approval_decide reads the approval and goes on only if it is pending.
DecideRead(a) ==
    /\ ToolAt("idle")
    /\ approvals[a].status = "pending"
    /\ \E pc \in {"approve", "reject"} :
          tool' = [IdleTool EXCEPT !.pc = pc, !.approval = a]
    /\ UNCHANGED <<jobs, approvals, chan, exec, cancels, faults, otherVars>>

DecideReject ==
    /\ ToolAt("reject")
    /\ \E o \in {"done", "failed", "lost"} :
          /\ Outcome(o)
          /\ approvals' = IF o = "failed" THEN approvals ELSE reject(approvals, tool.approval)
    /\ tool' = IdleTool
    /\ UNCHANGED <<jobs, chan, exec, cancels, otherVars>>

\* core.approve(..)? propagates an error and drops the boolean.
DecideApprove ==
    /\ ToolAt("approve")
    /\ \E o \in {"done", "failed", "lost"} :
          /\ Outcome(o)
          /\ approvals' = IF o = "failed" THEN approvals ELSE approve(approvals, tool.approval)
          /\ tool' = IF o = "done" THEN [tool EXCEPT !.pc = "create"] ELSE IdleTool
    /\ UNCHANGED <<jobs, chan, exec, cancels, otherVars>>

DecideCreateJob ==
    /\ ToolAt("create")
    /\ \E j \in JobIds, o \in {"done", "failed", "lost"} :
          /\ IsNextId(jobs, j)
          /\ Outcome(o)
          /\ jobs' = IF o = "failed" THEN jobs ELSE create_job(jobs, j, tool.approval)
          /\ tool' = IF o = "done" THEN [tool EXCEPT !.pc = "enqueue", !.job = j]
                                   ELSE IdleTool
    /\ UNCHANGED <<approvals, chan, exec, cancels, otherVars>>

\* Mutant: a channel that is not empty refuses the job.
enqueue_when_empty ==
    /\ ToolAt("enqueue")
    /\ chan' = IF chan = <<>> THEN <<tool.job>> ELSE chan
    /\ tool' = IF tool.approval = NoApproval THEN IdleTool ELSE [tool EXCEPT !.pc = "link"]
    /\ UNCHANGED <<jobs, approvals, exec, cancels, faults, otherVars>>

\* executor.enqueue, after which an approved run still has to be linked.
Enqueue ==
    /\ ToolAt("enqueue")
    /\ chan' = Append(chan, tool.job)
    /\ tool' = IF tool.approval = NoApproval THEN IdleTool ELSE [tool EXCEPT !.pc = "link"]
    /\ UNCHANGED <<jobs, approvals, exec, cancels, faults, otherVars>>

LinkApproval ==
    /\ ToolAt("link")
    /\ \E o \in {"done", "failed", "lost"} :
          /\ Outcome(o)
          /\ approvals' = IF o = "failed" THEN approvals
                          ELSE link_approval_to_job(approvals, tool.approval, tool.job)
    /\ tool' = IdleTool
    /\ UNCHANGED <<jobs, chan, exec, cancels, otherVars>>

\* casparian_job_cancel: the job must exist, be readable and not be terminal ...
CancelRead(j) ==
    /\ ToolAt("idle")
    /\ jobs[j].status # "none" /\ Readable(jobs[j])
    /\ ~is_terminal_status(jobs[j].status)
    /\ tool' = [IdleTool EXCEPT !.pc = "signal", !.job = j]
    /\ UNCHANGED <<jobs, approvals, chan, exec, cancels, faults, otherVars>>

\* ... then the executor's token is set, if there is one, ...
CancelSignal ==
    /\ ToolAt("signal")
    /\ exec' = [exec EXCEPT !.cancelled = @ \/ tool.job \in cancels]
    /\ ToolGoes("cancel")
    /\ UNCHANGED <<jobs, approvals, chan, cancels, faults, otherVars>>

\* ... and the row is cancelled.
CancelRow ==
    /\ ToolAt("cancel")
    /\ \E o \in {"done", "failed", "lost"} :
          /\ Outcome(o)
          /\ jobs' = IF o = "failed" THEN jobs ELSE cancel_job(jobs, tool.job)
    /\ tool' = IdleTool
    /\ UNCHANGED <<approvals, chan, exec, cancels, otherVars>>

-----------------------------------------------------------------------------
(* The executor thread: execute_job *)

ExecAt(pc) == exec.pc = pc

ExecGoes(pc) == exec' = [exec EXCEPT !.pc = pc]

\* An answer that fails, or a job that is already terminal, drops the id.
ExecPickUp ==
    /\ ExecAt("idle")
    /\ chan # <<>>
    /\ chan' = Tail(chan)
    /\ \E o \in {"done", "failed"} :
          /\ Outcome(o)
          /\ exec' = IF o = "done" /\ Readable(jobs[Head(chan)])
                           /\ ~is_terminal_status(jobs[Head(chan)].status)
                     THEN [IdleExec EXCEPT !.pc = "start", !.job = Head(chan)]
                     ELSE IdleExec
    /\ UNCHANGED <<jobs, approvals, tool, cancels, otherVars>>

ExecStart ==
    /\ ExecAt("start")
    /\ \E o \in {"done", "failed", "lost"} :
          /\ Outcome(o)
          /\ jobs' = IF o = "failed" THEN jobs ELSE start_job(jobs, exec.job)
          /\ exec' = IF o = "done" /\ jobs[exec.job].status = "queued"
                     THEN [exec EXCEPT !.pc = "register"]
                     ELSE IdleExec
    /\ UNCHANGED <<approvals, tool, chan, cancels, otherVars>>

ExecRegister ==
    /\ ExecAt("register")
    /\ cancels' = cancels \cup {exec.job}
    /\ ExecGoes("resolve")
    /\ UNCHANGED <<jobs, approvals, tool, chan, faults, otherVars>>

\* The parser or the input directory may be missing; no files is a success.
ExecResolve ==
    /\ ExecAt("resolve")
    /\ \/ ExecGoes("failed")
       \/ ExecGoes("ran")
       \/ \E n \in 1 .. MaxFiles : exec' = [exec EXCEPT !.pc = "file", !.files = n]
    /\ UNCHANGED <<jobs, approvals, tool, chan, cancels, faults, otherVars>>

\* Mutant: one file too many.
file_after_last ==
    /\ ExecAt("file")
    /\ ~exec.cancelled
    /\ exec' = [exec EXCEPT !.files = @ - 1,
                            !.pc = IF exec.files = 0 THEN "ran" ELSE "file"]
    /\ UNCHANGED <<jobs, approvals, tool, chan, cancels, faults, otherVars>>

\* The token is read before each file; progress updates are best effort.
ExecFile ==
    /\ ExecAt("file")
    /\ ~exec.cancelled
    /\ exec' = [exec EXCEPT !.files = @ - 1,
                            !.pc = IF exec.files = 1 THEN "ran" ELSE "file"]
    /\ UNCHANGED <<jobs, approvals, tool, chan, cancels, faults, otherVars>>

\* run_file has no time-out of its own: a parser that hangs keeps the thread.
ExecHangs ==
    /\ ExecAt("file")
    /\ ~exec.cancelled
    /\ ExecGoes("hung")
    /\ UNCHANGED <<jobs, approvals, tool, chan, cancels, faults, otherVars>>

ExecSeesCancel ==
    /\ ExecAt("file")
    /\ exec.cancelled
    /\ \E o \in {"done", "failed", "lost"} :
          /\ Outcome(o)
          /\ jobs' = IF o = "failed" THEN jobs ELSE cancel_job(jobs, exec.job)
    /\ ExecGoes("failed")
    /\ UNCHANGED <<approvals, tool, chan, cancels, otherVars>>

\* Mutant: a failed run keeps its token.
unregister_after_success ==
    /\ \/ ExecAt("ran") /\ ExecGoes("settle_ok") /\ cancels' = cancels \ {exec.job}
       \/ ExecAt("failed") /\ ExecGoes("settle_err") /\ UNCHANGED cancels
    /\ UNCHANGED <<jobs, approvals, tool, chan, faults, otherVars>>

ExecUnregister ==
    /\ \/ ExecAt("ran") /\ ExecGoes("settle_ok")
       \/ ExecAt("failed") /\ ExecGoes("settle_err")
    /\ cancels' = cancels \ {exec.job}
    /\ UNCHANGED <<jobs, approvals, tool, chan, faults, otherVars>>

\* The row is read again; a cancelled row, or no answer, ends it here.
ExecSettle ==
    /\ exec.pc \in {"settle_ok", "settle_err"}
    /\ \E o \in {"done", "failed"} :
          /\ Outcome(o)
          /\ exec' = IF o = "failed" \/ jobs[exec.job].status = "cancelled" THEN IdleExec
                     ELSE [exec EXCEPT !.pc = IF @ = "settle_ok" THEN "complete" ELSE "fail"]
    /\ UNCHANGED <<jobs, approvals, tool, chan, cancels, otherVars>>

ExecComplete ==
    /\ ExecAt("complete")
    /\ \E o \in {"done", "failed", "lost"} :
          /\ Outcome(o)
          /\ jobs' = IF o = "failed" THEN jobs ELSE complete_job(jobs, exec.job, RunnerResult)
    /\ exec' = IdleExec
    /\ UNCHANGED <<approvals, tool, chan, cancels, otherVars>>

ExecFail ==
    /\ ExecAt("fail")
    /\ \E o \in {"done", "failed", "lost"} :
          /\ Outcome(o)
          /\ jobs' = IF o = "failed" THEN jobs ELSE fail_job(jobs, exec.job)
    /\ exec' = IdleExec
    /\ UNCHANGED <<approvals, tool, chan, cancels, otherVars>>

-----------------------------------------------------------------------------
(* The process dies: both threads, the channel and the tokens are gone *)

Dies ==
    /\ faults < MaxFaults
    /\ faults' = faults + 1
    /\ tool' = IdleTool
    /\ chan' = <<>>
    /\ exec' = IdleExec
    /\ cancels' = {}
    /\ UNCHANGED <<approvals, otherVars>>

Crash ==
    /\ tool # IdleTool \/ exec # IdleExec \/ chan # <<>>
    /\ UNCHANGED jobs
    /\ Dies

\* Between the status update of fail_job and its error message.
CrashInFail ==
    /\ ExecAt("fail")
    /\ ~is_terminal_status(jobs[exec.job].status)
    /\ jobs' = update_job_status(jobs, exec.job, "failed")
    /\ Dies

\* Between the status update of cancel_job and its event.
CrashInCancel ==
    /\ ToolAt("cancel")
    /\ ~is_terminal_status(jobs[tool.job].status)
    /\ jobs' = update_job_status(jobs, tool.job, "cancelled")
    /\ Dies

-----------------------------------------------------------------------------
(* Everyone else: casparian mcp approve, the terminal and desktop views,   *)
(* the Control API                                                         *)

OutsideApprove(a) ==
    /\ approvals[a].status = "pending"
    /\ approvals' = approve(approvals, a)
    /\ UNCHANGED <<jobs, tool, chan, exec, cancels, faults, otherVars>>

OutsideReject(a) ==
    /\ approvals[a].status = "pending"
    /\ approvals' = reject(approvals, a)
    /\ UNCHANGED <<jobs, tool, chan, exec, cancels, faults, otherVars>>

\* expires_at passes.
TimePasses(a) ==
    /\ approvals[a].status # "none"
    /\ ~approvals[a].overdue
    /\ approvals' = [approvals EXCEPT ![a].overdue = TRUE]
    /\ UNCHANGED <<jobs, tool, chan, exec, cancels, faults, otherVars>>

ExpireApprovals ==
    /\ \E a \in Approvals : approvals[a].status = "pending" /\ approvals[a].overdue
    /\ approvals' = expire_approvals(approvals)
    /\ UNCHANGED <<jobs, tool, chan, exec, cancels, faults, otherVars>>

-----------------------------------------------------------------------------
(* The decide tool of another server: the same four calls, any of which    *)
(* may fail, lose its answer or be its last                                *)

OtherAt(s, pc) == others[s].pc = pc

OtherRead(s, a) ==
    /\ OtherAt(s, "idle")
    /\ approvals[a].status = "pending"
    /\ others' = [others EXCEPT ![s] = [IdleTool EXCEPT !.pc = "approve", !.approval = a]]
    /\ UNCHANGED <<jobs, approvals, tool, chan, exec, cancels, foreign, faults>>

OtherApprove(s) ==
    /\ OtherAt(s, "approve")
    /\ approvals' = approve(approvals, others[s].approval)
    /\ others' = [others EXCEPT ![s].pc = "create"]
    /\ UNCHANGED <<jobs, tool, chan, exec, cancels, foreign, faults>>

OtherCreateJob(s) ==
    /\ OtherAt(s, "create")
    /\ \E j \in JobIds :
          /\ IsNextId(jobs, j)
          /\ jobs' = create_job(jobs, j, others[s].approval)
          /\ foreign' = foreign \cup {j}
          /\ others' = [others EXCEPT ![s].pc = "link", ![s].job = j]
    /\ UNCHANGED <<approvals, tool, chan, exec, cancels, faults>>

OtherLink(s) ==
    /\ OtherAt(s, "link")
    /\ approvals' = link_approval_to_job(approvals, others[s].approval, others[s].job)
    /\ others' = [others EXCEPT ![s] = IdleTool]
    /\ UNCHANGED <<jobs, tool, chan, exec, cancels, foreign, faults>>

OtherStops(s) ==
    /\ ~OtherAt(s, "idle")
    /\ others' = [others EXCEPT ![s] = IdleTool]
    /\ UNCHANGED <<jobs, approvals, tool, chan, exec, cancels, foreign, faults>>

-----------------------------------------------------------------------------
ToolCall ==
    \/ BacktestStart
    \/ \E a \in Approvals : RunRequest(a) \/ DecideRead(a)
    \/ \E j \in JobIds : CancelRead(j)

ToolStep ==
    \/ DecideReject \/ DecideApprove \/ DecideCreateJob
    \/ Enqueue \/ LinkApproval \/ CancelSignal \/ CancelRow

ExecStep ==
    \/ ExecPickUp \/ ExecStart \/ ExecRegister \/ ExecResolve
    \/ ExecFile \/ ExecSeesCancel \/ ExecUnregister
    \/ ExecSettle \/ ExecComplete \/ ExecFail

ProcessDies == Crash \/ CrashInFail \/ CrashInCancel

Outside ==
    \/ \E a \in Approvals : OutsideApprove(a) \/ OutsideReject(a) \/ TimePasses(a)
    \/ ExpireApprovals

OtherStep ==
    \E s \in OtherServers :
        \/ \E a \in Approvals : OtherRead(s, a)
        \/ OtherApprove(s) \/ OtherCreateJob(s) \/ OtherLink(s) \/ OtherStops(s)

Next == ToolCall \/ ToolStep \/ ExecStep \/ ExecHangs \/ ProcessDies \/ Outside \/ OtherStep

Spec == Init /\ [][Next]_vars

(***************************************************************************)
(* Both threads keep running while the process lives: the server thread    *)
(* finishes the call it is serving, and the executor, which waits for its  *)
(* channel, Core and the parser it runs, goes on for as long as the parser *)
(* does not hang.  Nobody has to make a call or decide an approval.        *)
(***************************************************************************)
FairSpec == Spec /\ WF_vars(ToolStep) /\ WF_vars(ExecStep)

-----------------------------------------------------------------------------
(* Properties *)

ServerTypeOK ==
    /\ jobs \in [JobIds -> [status : JobStatuses, approval : Approvals \cup {NoApproval},
                            error : BOOLEAN, finished : Nat]]
    /\ approvals \in [Approvals -> [status : ApprovalStatuses, overdue : BOOLEAN,
                                    job : JobIds \cup {NoJob}]]
    /\ tool \in [pc : {"idle", "enqueue", "reject", "approve", "create", "link",
                       "signal", "cancel"},
                 job : JobIds \cup {NoJob}, approval : Approvals \cup {NoApproval}]
    /\ chan \in Seq(JobIds)
    /\ exec \in [pc : {"idle", "start", "register", "resolve", "file", "hung", "ran",
                       "failed", "settle_ok", "settle_err", "complete", "fail"},
                 job : JobIds \cup {NoJob}, files : 0 .. MaxFiles, cancelled : BOOLEAN]
    /\ cancels \in SUBSET JobIds
    /\ faults \in Nat

OthersTypeOK ==
    /\ others \in [OtherServers ->
                      [pc : {"idle", "approve", "create", "link"},
                       job : JobIds \cup {NoJob}, approval : Approvals \cup {NoApproval}]]
    /\ foreign \in SUBSET JobIds

\* Every variable stays in the range its code keeps it in.
TypeOK == ServerTypeOK /\ OthersTypeOK

JobEdges == {<<"none", "queued">>, <<"queued", "running">>, <<"queued", "cancelled">>,
             <<"running", "completed">>, <<"running", "failed">>, <<"running", "cancelled">>}

ApprovalEdges == {<<"none", "pending">>, <<"pending", "approved">>,
                  <<"pending", "rejected">>, <<"pending", "expired">>}

JobLife == INSTANCE Lifecycle
    WITH Items <- JobIds, States <- JobStatuses, Start <- "none", Edges <- JobEdges,
         st <- [j \in JobIds |-> jobs[j].status]

ApprovalLife == INSTANCE Lifecycle
    WITH Items <- Approvals, States <- ApprovalStatuses, Start <- "none",
         Edges <- ApprovalEdges, st <- [a \in Approvals |-> approvals[a].status]

(***************************************************************************)
(* The job table implements the life cycle of a job: no late start,        *)
(* failure or completion of the executor overwrites the cancellation a     *)
(* tool call wrote meanwhile (update_job_status has no guard of its own).  *)
(***************************************************************************)
JobsKeepLifecycle == JobLife!Spec

(***************************************************************************)
(* The approval table implements the life cycle of an approval: it is      *)
(* decided once, although the tool, the command line, the two UIs and the  *)
(* expiry sweep all decide without a lock.                                 *)
(***************************************************************************)
ApprovalsDecidedOnce == ApprovalLife!Spec

(***************************************************************************)
(* One approval starts at most one run of this server: a decision that is  *)
(* lost, repeated or interrupted by a crash and tried again never creates  *)
(* a second job, however other servers decide the same approval meanwhile. *)
(* They may: decide reads "pending" first and drops the answer of approve, *)
(* so two servers that both read it make a job each, and an approval that  *)
(* was rejected in between gets one.                                       *)
(***************************************************************************)
OneJobPerApproval ==
    \A j, k \in JobIds \ foreign :
        jobs[j].approval # NoApproval /\ jobs[j].approval = jobs[k].approval => j = k

(***************************************************************************)
(* The two halves of the link between an approval and its job agree: the   *)
(* job an approval names exists and carries that approval.                 *)
(***************************************************************************)
LinkAgrees ==
    \A a \in Approvals :
        approvals[a].job # NoJob => jobs[approvals[a].job].approval = a

(***************************************************************************)
(* A job is announced finished at most once, and only as cancelled: the    *)
(* tool's cancel_job and the executor's own one do not both write the      *)
(* event.                                                                  *)
(***************************************************************************)
CancelledOnce ==
    \A j \in JobIds :
        jobs[j].finished <= 1 /\ (jobs[j].finished = 1 => jobs[j].status = "cancelled")

(***************************************************************************)
(* The cancel map holds a token exactly while its job's runner is under    *)
(* way: no path through execute_job leaves one behind for a later cancel.  *)
(***************************************************************************)
TokensAreLive ==
    cancels = IF exec.pc \in {"resolve", "file", "hung", "ran", "failed"} THEN {exec.job} ELSE {}

(***************************************************************************)
(* Without faults no job of this server waits forever: one that is queued  *)
(* is started, or cancelled first, however many jobs are ahead of it in    *)
(* the channel, unless the parser of one of those hangs: the executor      *)
(* ignores its time-out and waits for that parser.                         *)
(***************************************************************************)
QueuedIsPickedUp ==
    \A j \in JobIds :
        (jobs[j].status = "queued" /\ j \notin foreign /\ faults = 0)
            ~> (jobs[j].status # "queued" \/ faults > 0 \/ exec.pc = "hung")
=============================================================================
