-------------------------- MODULE McpServerProofs --------------------------
(***************************************************************************)
(* The safety properties of McpServer for every number of jobs, approvals, *)
(* files and faults, and that its two tables implement their life cycles.  *)
(***************************************************************************)
EXTENDS McpServer, TLAPS

JobRow == [status : JobStatuses, approval : Approvals \cup {NoApproval},
           error : BOOLEAN, finished : Nat]

ApprovalRow == [status : ApprovalStatuses, overdue : BOOLEAN, job : JobIds \cup {NoJob}]

-----------------------------------------------------------------------------
(* The inductive invariant *)

\* A row that does not exist yet carries nothing.
AbsentRowsAreBlank ==
    \A j \in JobIds :
        jobs[j].status = "none" => jobs[j].approval = NoApproval /\ jobs[j].finished = 0

\* What a tool call in progress has already established.
ToolKnows ==
    /\ tool.pc \in {"enqueue", "link", "signal", "cancel"} =>
          tool.job \in JobIds /\ jobs[tool.job].status # "none"
    /\ tool.pc \in {"reject", "approve", "create", "link"} =>
          tool.approval \in Approvals /\ approvals[tool.approval].status # "none"
    /\ tool.pc \in {"approve", "create"} =>
          \A j \in JobIds \ foreign : jobs[j].approval # tool.approval
    /\ tool.pc \in {"create", "link"} => approvals[tool.approval].status # "pending"
    /\ tool.pc \in {"enqueue", "link"} => jobs[tool.job].approval = tool.approval

\* What the executor has already established about the job it holds.
ExecKnows ==
    /\ exec.pc # "idle" => exec.job \in JobIds
    /\ exec.pc \notin {"idle", "start"} => jobs[exec.job].status \notin {"none", "queued"}
    /\ exec.pc = "file" => exec.files # 0

\* An approval nobody has decided has started no job.
UndecidedHasNoJob ==
    \A a \in Approvals :
        approvals[a].status \in {"none", "pending"} => \A j \in JobIds : jobs[j].approval # a

\* What the decide tool of another server has established, given the two tables.
OtherKnows(r, t, p) ==
    /\ r.pc # "idle" => r.approval \in Approvals /\ p[r.approval].status # "none"
    /\ r.pc \in {"create", "link"} => p[r.approval].status # "pending"
    /\ r.pc = "link" => /\ r.job \in JobIds
                        /\ t[r.job].status # "none" /\ t[r.job].approval = r.approval

OthersKnow == \A s \in OtherServers : OtherKnows(others[s], jobs, approvals)

OthersInv == OthersTypeOK /\ OthersKnow

IInv ==
    /\ ServerTypeOK
    /\ AbsentRowsAreBlank
    /\ ToolKnows
    /\ ExecKnows
    /\ UndecidedHasNoJob
    /\ OneJobPerApproval
    /\ LinkAgrees
    /\ CancelledOnce
    /\ TokensAreLive

-----------------------------------------------------------------------------
(* What the statements do to the row of their job *)

\* The table after a statement on row j, and the row it wrote.
LEMMA CreateRow ==
    ASSUME NEW t \in [JobIds -> JobRow], NEW j \in JobIds,
           NEW a \in Approvals \cup {NoApproval}
    PROVE  /\ create_job(t, j, a) \in [JobIds -> JobRow]
           /\ \A k \in JobIds : k # j => create_job(t, j, a)[k] = t[k]
           /\ create_job(t, j, a)[j].status = "queued"
           /\ create_job(t, j, a)[j].approval = a
           /\ create_job(t, j, a)[j].finished = t[j].finished
  BY DEF create_job, JobRow, JobStatuses

LEMMA StatusRow ==
    ASSUME NEW t \in [JobIds -> JobRow], NEW j \in JobIds, NEW s \in JobStatuses
    PROVE  /\ update_job_status(t, j, s) \in [JobIds -> JobRow]
           /\ \A k \in JobIds : k # j => update_job_status(t, j, s)[k] = t[k]
           /\ update_job_status(t, j, s)[j].status = s
           /\ update_job_status(t, j, s)[j].approval = t[j].approval
           /\ update_job_status(t, j, s)[j].finished = t[j].finished
  BY DEF update_job_status, JobRow

\* Nothing in a table changed but the status of j, which moved along an edge,
\* and the event that announces a cancellation.
Moved(t, u, j) ==
    /\ u \in [JobIds -> JobRow]
    /\ \A k \in JobIds : k # j => u[k] = t[k]
    /\ u[j].approval = t[j].approval
    /\ u[j].status # t[j].status => <<t[j].status, u[j].status>> \in JobEdges
    /\ t[j].status # "none" => u[j].status # "none"
    /\ t[j].status = "none" => u[j].status = "none"
    /\ \/ u[j].finished = t[j].finished
       \/ u[j].finished = t[j].finished + 1 /\ u[j].status = "cancelled" /\ t[j].status # "cancelled"

LEMMA CancelMoves ==
    ASSUME NEW t \in [JobIds -> JobRow], NEW j \in JobIds
    PROVE  Moved(t, cancel_job(t, j), j)
  <1> DEFINE u == update_job_status(t, j, "cancelled")
  <1>1. CASE t[j].status = "none" \/ is_terminal_status(t[j].status)
    BY <1>1 DEF cancel_job, Moved
  <1>2. CASE ~(t[j].status = "none" \/ is_terminal_status(t[j].status))
    <2>1. t[j].status \in {"queued", "running"}
      BY <1>2 DEF is_terminal_status, JobRow, JobStatuses
    <2>2. /\ u \in [JobIds -> JobRow]
          /\ \A k \in JobIds : k # j => u[k] = t[k]
          /\ u[j].status = "cancelled"
          /\ u[j].approval = t[j].approval
          /\ u[j].finished = t[j].finished
      BY StatusRow DEF JobStatuses
    <2> HIDE DEF u
    <2>3. /\ insert_job_finished(u, j) \in [JobIds -> JobRow]
          /\ \A k \in JobIds : k # j => insert_job_finished(u, j)[k] = u[k]
          /\ insert_job_finished(u, j)[j].status = u[j].status
          /\ insert_job_finished(u, j)[j].approval = u[j].approval
          /\ insert_job_finished(u, j)[j].finished = u[j].finished + 1
      BY <2>2 DEF insert_job_finished, JobRow
    <2>4. cancel_job(t, j) = insert_job_finished(u, j)
      BY <1>2 DEF cancel_job, u
    <2> QED
      BY <2>1, <2>2, <2>3, <2>4 DEF Moved, JobEdges
  <1> QED
    BY <1>1, <1>2

LEMMA StartMoves ==
    ASSUME NEW t \in [JobIds -> JobRow], NEW j \in JobIds
    PROVE  Moved(t, start_job(t, j), j)
  <1>1. CASE t[j].status = "queued"
    BY <1>1, StatusRow DEF start_job, Moved, JobEdges, JobStatuses
  <1>2. CASE t[j].status # "queued"
    BY <1>2 DEF start_job, Moved
  <1> QED
    BY <1>1, <1>2

LEMMA CompleteMoves ==
    ASSUME NEW t \in [JobIds -> JobRow], NEW j \in JobIds, NEW r
    PROVE  Moved(t, complete_job(t, j, r), j)
  <1>1. CASE JobResultParses(r) /\ t[j].status = "running"
    BY <1>1, StatusRow DEF complete_job, Moved, JobEdges, JobStatuses
  <1>2. CASE ~(JobResultParses(r) /\ t[j].status = "running")
    BY <1>2 DEF complete_job, Moved
  <1> QED
    BY <1>1, <1>2

\* A job that was started can be failed; one that never was is not offered.
LEMMA FailMoves ==
    ASSUME NEW t \in [JobIds -> JobRow], NEW j \in JobIds,
           t[j].status \notin {"none", "queued"}
    PROVE  /\ Moved(t, fail_job(t, j), j)
           /\ ~is_terminal_status(t[j].status) => Moved(t, update_job_status(t, j, "failed"), j)
  <1> DEFINE u == update_job_status(t, j, "failed")
  <1>1. CASE is_terminal_status(t[j].status)
    BY <1>1 DEF fail_job, Moved
  <1>2. CASE ~is_terminal_status(t[j].status)
    <2>1. t[j].status = "running"
      BY <1>2 DEF is_terminal_status, JobRow, JobStatuses
    <2>2. /\ u \in [JobIds -> JobRow]
          /\ \A k \in JobIds : k # j => u[k] = t[k]
          /\ u[j].status = "failed"
          /\ u[j].approval = t[j].approval
          /\ u[j].finished = t[j].finished
      BY StatusRow DEF JobStatuses
    <2> HIDE DEF u
    <2>3. /\ update_job_error(u, j) \in [JobIds -> JobRow]
          /\ \A k \in JobIds : k # j => update_job_error(u, j)[k] = u[k]
          /\ update_job_error(u, j)[j].status = u[j].status
          /\ update_job_error(u, j)[j].approval = u[j].approval
          /\ update_job_error(u, j)[j].finished = u[j].finished
      BY ZenonT(60), <2>2 DEF update_job_error, JobRow
    <2>4. fail_job(t, j) = update_job_error(u, j)
      BY <1>2 DEF fail_job, u
    <2>5. Moved(t, u, j)
      BY <2>1, <2>2 DEF Moved, JobEdges
    <2> QED
      BY <2>1, <2>2, <2>3, <2>4, <2>5 DEF Moved, JobEdges, u
  <1> QED
    BY <1>1, <1>2

-----------------------------------------------------------------------------
(* What a step may do to the tables without disturbing the invariant *)

\* No row is created; every status stays or moves along an edge.
Kept(t, u) ==
    /\ u \in [JobIds -> JobRow]
    /\ \A k \in JobIds :
          /\ u[k].approval = t[k].approval
          /\ u[k].status # t[k].status => <<t[k].status, u[k].status>> \in JobEdges
          /\ t[k].status = "none" <=> u[k].status = "none"
          /\ \/ u[k].finished = t[k].finished
             \/ /\ u[k].finished = t[k].finished + 1
                /\ u[k].status = "cancelled"
                /\ t[k].status # "cancelled"

\* No approval is linked; every status stays or moves along an edge.
KeptApprovals(p, q) ==
    /\ q \in [Approvals -> ApprovalRow]
    /\ \A a \in Approvals :
          /\ q[a].job = p[a].job
          /\ q[a].status # p[a].status => <<p[a].status, q[a].status>> \in ApprovalEdges

LEMMA MovedKept ==
    ASSUME NEW t \in [JobIds -> JobRow], NEW u, NEW j \in JobIds, Moved(t, u, j)
    PROVE  Kept(t, u)
  BY DEF Moved, Kept

LEMMA SameKept ==
    ASSUME NEW t \in [JobIds -> JobRow]
    PROVE  Kept(t, t)
  BY DEF Kept

LEMMA SameApprovalsKept ==
    ASSUME NEW p \in [Approvals -> ApprovalRow]
    PROVE  KeptApprovals(p, p)
  BY DEF KeptApprovals

LEMMA DecideKept ==
    ASSUME NEW p \in [Approvals -> ApprovalRow], NEW a \in Approvals
    PROVE  /\ KeptApprovals(p, approve(p, a)) /\ approve(p, a)[a].status # "pending"
           /\ KeptApprovals(p, reject(p, a))
           /\ p[a].status = "none" => KeptApprovals(p, create_approval(p, a))
           /\ KeptApprovals(p, [p EXCEPT ![a].overdue = TRUE])
  <1>1. \A s \in {"approved", "rejected"} :
           KeptApprovals(p, decide_pending(p, a, s)) /\ decide_pending(p, a, s)[a].status # "pending"
    <2> TAKE s \in {"approved", "rejected"}
    <2>1. CASE p[a].status = "pending"
      BY <2>1 DEF decide_pending, KeptApprovals, ApprovalRow, ApprovalStatuses, ApprovalEdges
    <2>2. CASE p[a].status # "pending"
      BY <2>2 DEF decide_pending, KeptApprovals
    <2> QED
      BY <2>1, <2>2
  <1>2. p[a].status = "none" => KeptApprovals(p, create_approval(p, a))
    BY DEF create_approval, KeptApprovals, ApprovalRow, ApprovalStatuses, ApprovalEdges
  <1>3. KeptApprovals(p, [p EXCEPT ![a].overdue = TRUE])
    BY DEF KeptApprovals, ApprovalRow
  <1> QED
    BY <1>1, <1>2, <1>3 DEF approve, reject

LEMMA ExpireKept ==
    ASSUME NEW p \in [Approvals -> ApprovalRow]
    PROVE  KeptApprovals(p, expire_approvals(p))
  <1>1. \A a \in Approvals : [p[a] EXCEPT !.status = "expired"] \in ApprovalRow
    BY DEF ApprovalRow, ApprovalStatuses
  <1>2. \A a \in Approvals : [p[a] EXCEPT !.status = "expired"].job = p[a].job
                            /\ [p[a] EXCEPT !.status = "expired"].status = "expired"
    BY DEF ApprovalRow
  <1> QED
    BY <1>1, <1>2 DEF expire_approvals, KeptApprovals, ApprovalEdges

\* An approval that is undecided after such a step was undecided before it.
LEMMA StaysDecided ==
    ASSUME NEW p, NEW q, KeptApprovals(p, q), NEW a \in Approvals
    PROVE  /\ q[a].status \in {"none", "pending"} => p[a].status \in {"none", "pending"}
           /\ p[a].status # "none" => q[a].status # "none"
           /\ p[a].status \notin {"none", "pending"} => q[a].status # "pending"
  <1>1. q[a].status # p[a].status => <<p[a].status, q[a].status>> \in ApprovalEdges
    BY DEF KeptApprovals
  <1> QED
    BY <1>1 DEF ApprovalEdges

\* The conjuncts of the invariant about the tables alone survive such a step.
LEMMA TablesKept ==
    ASSUME IInv, foreign' = foreign, Kept(jobs, jobs'), KeptApprovals(approvals, approvals')
    PROVE  /\ AbsentRowsAreBlank'
           /\ UndecidedHasNoJob'
           /\ OneJobPerApproval'
           /\ LinkAgrees'
           /\ CancelledOnce'
  <1>1. AbsentRowsAreBlank'
    BY DEF IInv, AbsentRowsAreBlank, Kept
  <1>2. UndecidedHasNoJob'
    <2> SUFFICES ASSUME NEW a \in Approvals, approvals'[a].status \in {"none", "pending"},
                        NEW j \in JobIds
                 PROVE  jobs'[j].approval # a
      BY DEF UndecidedHasNoJob
    <2>1. approvals[a].status \in {"none", "pending"}
      BY StaysDecided
    <2>2. jobs[j].approval # a
      BY <2>1 DEF IInv, UndecidedHasNoJob
    <2> QED
      BY <2>2 DEF Kept
  <1>3. OneJobPerApproval'
    BY ZenonT(60) DEF IInv, OneJobPerApproval, Kept
  <1>4. LinkAgrees'
    <2> SUFFICES ASSUME NEW a \in Approvals, approvals'[a].job # NoJob
                 PROVE  jobs'[approvals'[a].job].approval = a
      BY DEF LinkAgrees
    <2>1. approvals'[a].job = approvals[a].job /\ approvals[a].job \in JobIds
      BY DEF IInv, ServerTypeOK, KeptApprovals
    <2>2. jobs[approvals[a].job].approval = a
      BY <2>1 DEF IInv, LinkAgrees
    <2> QED
      BY <2>1, <2>2 DEF Kept
  <1>5. CancelledOnce'
    <2>1. \A j \in JobIds : jobs[j].finished \in Nat
      BY DEF IInv, ServerTypeOK
    <2> QED
      BY <2>1 DEF IInv, CancelledOnce, Kept, JobEdges
  <1> QED
    BY <1>1, <1>2, <1>3, <1>4, <1>5

\* So does what a thread that did not move knows.
LEMMA ThreadsKept ==
    ASSUME IInv, foreign' = foreign, Kept(jobs, jobs'), KeptApprovals(approvals, approvals')
    PROVE  /\ tool' = tool => ToolKnows'
           /\ tool' = IdleTool => ToolKnows'
           /\ exec'.pc = exec.pc /\ exec'.job = exec.job /\ exec'.files = exec.files => ExecKnows'
           /\ exec' = IdleExec => ExecKnows'
  <1>1. tool' = tool => ToolKnows'
    <2> SUFFICES ASSUME tool' = tool
                 PROVE  ToolKnows'
      OBVIOUS
    <2>1. tool.pc \in {"reject", "approve", "create", "link"} =>
             /\ tool.approval \in Approvals
             /\ approvals'[tool.approval].status # "none"
             /\ tool.pc \in {"create", "link"} => approvals'[tool.approval].status # "pending"
      BY StaysDecided DEF IInv, ToolKnows
    <2> QED
      BY <2>1 DEF IInv, ToolKnows, Kept
  <1>2. tool' = IdleTool => ToolKnows'
    BY DEF IdleTool, ToolKnows
  <1>3. exec'.pc = exec.pc /\ exec'.job = exec.job /\ exec'.files = exec.files => ExecKnows'
    BY DEF IInv, ExecKnows, Kept, JobEdges
  <1>4. exec' = IdleExec => ExecKnows'
    BY DEF IdleExec, ExecKnows
  <1> QED
    BY <1>1, <1>2, <1>3, <1>4

-----------------------------------------------------------------------------
(* The steps *)

LEMMA InitInv == Init => IInv
  <1> SUFFICES ASSUME Init PROVE IInv
    OBVIOUS
  <1> USE DEF Init
  <1>1. ServerTypeOK
    BY McpAssumption DEF ServerTypeOK, AbsentJob, AbsentApproval, JobStatuses, ApprovalStatuses,
                         NoJob, IdleTool, IdleExec
  <1>2. AbsentRowsAreBlank /\ CancelledOnce /\ OneJobPerApproval
    BY DEF AbsentRowsAreBlank, CancelledOnce, OneJobPerApproval, AbsentJob
  <1>3. UndecidedHasNoJob
    BY McpAssumption DEF UndecidedHasNoJob, AbsentJob
  <1>4. LinkAgrees
    BY DEF LinkAgrees, AbsentApproval
  <1>5. ToolKnows /\ ExecKnows /\ TokensAreLive
    BY DEF ToolKnows, ExecKnows, TokensAreLive, IdleTool, IdleExec
  <1> QED
    BY <1>1, <1>2, <1>3, <1>4, <1>5 DEF IInv

\* ServerTypeOK with the names the lemmas use.
LEMMA Typed ==
    ASSUME ServerTypeOK
    PROVE  /\ jobs \in [JobIds -> JobRow]
           /\ approvals \in [Approvals -> ApprovalRow]
           /\ \A j \in JobIds : jobs[j].status \in JobStatuses
  BY DEF ServerTypeOK, JobRow, ApprovalRow

\* Faults are only counted.
LEMMA OutcomeTyped ==
    ASSUME ServerTypeOK, NEW o, Outcome(o)
    PROVE  faults' \in Nat
  BY DEF ServerTypeOK, Outcome

\* A step that keeps the tables and leaves the threads typed and informed
\* preserves the invariant.
LEMMA KeepingStep ==
    ASSUME IInv, foreign' = foreign, Kept(jobs, jobs'), KeptApprovals(approvals, approvals'),
           ToolKnows', ExecKnows', TokensAreLive',
           tool' \in [pc : {"idle", "enqueue", "reject", "approve", "create", "link",
                           "signal", "cancel"},
                     job : JobIds \cup {NoJob}, approval : Approvals \cup {NoApproval}],
           chan' \in Seq(JobIds),
           exec' \in [pc : {"idle", "start", "register", "resolve", "file", "hung", "ran", "failed",
                           "settle_ok", "settle_err", "complete", "fail"},
                     job : JobIds \cup {NoJob}, files : 0 .. MaxFiles, cancelled : BOOLEAN],
           cancels' \in SUBSET JobIds,
           faults' \in Nat
    PROVE  IInv'
  <1>1. ServerTypeOK'
    BY DEF ServerTypeOK, Kept, KeptApprovals, JobRow, ApprovalRow
  <1> QED
    BY <1>1, TablesKept DEF IInv

\* Tool calls that write no job.
LEMMA ApprovalToolSteps ==
    ASSUME IInv,
           \/ \E a \in Approvals : RunRequest(a) \/ DecideRead(a)
           \/ DecideReject \/ DecideApprove
           \/ \E j \in JobIds : CancelRead(j)
           \/ Enqueue \/ CancelSignal
    PROVE  IInv'
  <1>f. foreign' = foreign
    BY DEF RunRequest, DecideRead, DecideReject, DecideApprove, CancelRead, Enqueue,
           CancelSignal, otherVars
  <1>0. /\ jobs \in [JobIds -> JobRow]
        /\ approvals \in [Approvals -> ApprovalRow]
    BY Typed DEF IInv
  <1> USE <1>0 DEF IInv, ServerTypeOK, IdleTool, ToolAt, ToolGoes
  <1>1. ASSUME NEW a \in Approvals, RunRequest(a) PROVE IInv'
    <2>1. KeptApprovals(approvals, approvals')
      <3>1. \/ approvals' = approvals
            \/ approvals' = create_approval(approvals, a) /\ approvals[a].status = "none"
        BY <1>1 DEF RunRequest
      <3>2. KeptApprovals(approvals, approvals)
        BY ONLY <1>0, SameApprovalsKept
      <3>3. approvals[a].status = "none" => KeptApprovals(approvals, create_approval(approvals, a))
        BY ONLY <1>0, DecideKept
      <3> QED
        BY ONLY <3>1, <3>2, <3>3, Zenon
    <2>2. Kept(jobs, jobs')
      BY <1>1, SameKept DEF RunRequest
    <2>3. faults' \in Nat
      BY <1>1, OutcomeTyped DEF RunRequest
    <2>4. ToolKnows' /\ ExecKnows'
      BY <1>f, <1>1, <2>1, <2>2, ThreadsKept DEF RunRequest
    <2> QED
      BY <1>f, <1>1, <2>1, <2>2, <2>3, <2>4, KeepingStep DEF RunRequest, TokensAreLive
  <1>2. ASSUME NEW a \in Approvals, DecideRead(a) PROVE IInv'
    <2>1. KeptApprovals(approvals, approvals') /\ Kept(jobs, jobs')
      BY <1>2, SameApprovalsKept, SameKept DEF DecideRead
    <2>2. ExecKnows'
      BY <1>f, <1>2, <2>1, ThreadsKept DEF DecideRead
    <2>3. ToolKnows'
      <3>1. /\ tool'.approval = a
            /\ tool'.pc \in {"approve", "reject"}
            /\ approvals' = approvals /\ jobs' = jobs
            /\ approvals[a].status = "pending"
        BY <1>2 DEF DecideRead
      <3>2. \A j \in JobIds : jobs[j].approval # a
        BY <3>1 DEF UndecidedHasNoJob
      <3> QED
        BY <3>1, <3>2 DEF ToolKnows
    <2> QED
      BY <1>f, <1>2, <2>1, <2>2, <2>3, KeepingStep DEF DecideRead, TokensAreLive
  <1>3. ASSUME DecideReject PROVE IInv'
    <2>0. tool.approval \in Approvals
      BY <1>3 DEF DecideReject, ToolKnows
    <2>1. KeptApprovals(approvals, approvals')
      <3>1. approvals' = approvals \/ approvals' = reject(approvals, tool.approval)
        BY <1>3 DEF DecideReject
      <3>2. KeptApprovals(approvals, approvals)
        BY ONLY <1>0, SameApprovalsKept
      <3>3. KeptApprovals(approvals, reject(approvals, tool.approval))
        BY ONLY <1>0, <2>0, DecideKept
      <3> QED
        BY ONLY <3>1, <3>2, <3>3, Zenon
    <2>2. Kept(jobs, jobs')
      BY <1>3, SameKept DEF DecideReject
    <2>3. faults' \in Nat
      BY <1>3, OutcomeTyped DEF DecideReject
    <2>4. ToolKnows' /\ ExecKnows'
      BY <1>f, <1>3, <2>1, <2>2, ThreadsKept DEF DecideReject
    <2> QED
      BY <1>f, <1>3, <2>1, <2>2, <2>3, <2>4, KeepingStep DEF DecideReject, TokensAreLive, NoJob
  <1>4. ASSUME DecideApprove PROVE IInv'
    <2>0. tool.approval \in Approvals /\ approvals[tool.approval].status # "none"
          /\ \A j \in JobIds \ foreign : jobs[j].approval # tool.approval
      BY <1>4 DEF DecideApprove, ToolKnows
    <2>1. KeptApprovals(approvals, approvals')
      <3>1. approvals' = approvals \/ approvals' = approve(approvals, tool.approval)
        BY <1>4 DEF DecideApprove
      <3>2. KeptApprovals(approvals, approvals)
        BY ONLY <1>0, SameApprovalsKept
      <3>3. KeptApprovals(approvals, approve(approvals, tool.approval))
        BY ONLY <1>0, <2>0, DecideKept
      <3> QED
        BY ONLY <3>1, <3>2, <3>3, Zenon
    <2>2. Kept(jobs, jobs') /\ jobs' = jobs
      BY <1>4, SameKept DEF DecideApprove
    <2>3. faults' \in Nat
      BY <1>4, OutcomeTyped DEF DecideApprove
    <2>4. ExecKnows'
      BY <1>f, <1>4, <2>1, <2>2, ThreadsKept DEF DecideApprove
    <2>5. approvals'[tool.approval].status # "none"
      BY <2>0, <2>1, StaysDecided
    <2>6. CASE tool' = IdleTool
      BY <1>f, <1>4, <2>1, <2>2, <2>3, <2>4, <2>6, ThreadsKept, KeepingStep
      DEF DecideApprove, TokensAreLive, NoJob
    <2>7. CASE tool' # IdleTool
      <3>1. /\ approvals' = approve(approvals, tool.approval)
            /\ tool' = [tool EXCEPT !.pc = "create"]
        BY <1>4, <2>7 DEF DecideApprove
      <3>2. approvals'[tool.approval].status # "pending"
        BY <3>1, <2>0, DecideKept
      <3>3. ToolKnows'
        BY <1>f, <3>1, <3>2, <2>0, <2>2, <2>5 DEF ToolKnows
      <3> QED
        BY <1>f, <1>4, <2>1, <2>2, <2>3, <2>4, <3>1, <3>3, KeepingStep
        DEF DecideApprove, TokensAreLive
    <2> QED
      BY <2>6, <2>7
  <1>5. ASSUME NEW j \in JobIds, CancelRead(j) PROVE IInv'
    <2>1. KeptApprovals(approvals, approvals') /\ Kept(jobs, jobs')
      BY <1>5, SameApprovalsKept, SameKept DEF CancelRead
    <2>2. ExecKnows'
      BY <1>f, <1>5, <2>1, ThreadsKept DEF CancelRead
    <2>3. ToolKnows'
      BY <1>5 DEF CancelRead, ToolKnows
    <2> QED
      BY <1>f, <1>5, <2>1, <2>2, <2>3, KeepingStep DEF CancelRead, TokensAreLive
  <1>6. ASSUME Enqueue PROVE IInv'
    <2>1. KeptApprovals(approvals, approvals') /\ Kept(jobs, jobs')
      BY <1>6, SameApprovalsKept, SameKept DEF Enqueue
    <2>2. ExecKnows'
      BY <1>f, <1>6, <2>1, ThreadsKept DEF Enqueue
    <2>3. tool.job \in JobIds /\ jobs[tool.job].approval = tool.approval
          /\ jobs[tool.job].status # "none"
      BY <1>6 DEF Enqueue, ToolKnows
    <2>4. chan' \in Seq(JobIds)
      BY <1>6, <2>3 DEF Enqueue
    <2>5. ToolKnows'
      <3>1. CASE tool.approval = NoApproval
        BY <1>6, <3>1 DEF Enqueue, ToolKnows
      <3>2. CASE tool.approval # NoApproval
        <4>1. tool.approval \in Approvals
          BY <3>2
        <4>2. approvals[tool.approval].status \notin {"none", "pending"}
          BY <4>1, <2>3 DEF UndecidedHasNoJob
        <4> QED
          BY <1>6, <2>3, <3>2, <4>1, <4>2 DEF Enqueue, ToolKnows
      <3> QED
        BY <3>1, <3>2
    <2> QED
      BY <1>f, <1>6, <2>1, <2>2, <2>4, <2>5, KeepingStep DEF Enqueue, TokensAreLive, NoJob
  <1>7. ASSUME CancelSignal PROVE IInv'
    <2>1. KeptApprovals(approvals, approvals') /\ Kept(jobs, jobs')
      BY <1>7, SameApprovalsKept, SameKept DEF CancelSignal
    <2>2. /\ exec'.pc = exec.pc /\ exec'.job = exec.job /\ exec'.files = exec.files
          /\ exec' \in [pc : {"idle", "start", "register", "resolve", "file", "hung", "ran", "failed",
                             "settle_ok", "settle_err", "complete", "fail"},
                        job : JobIds \cup {NoJob}, files : 0 .. MaxFiles, cancelled : BOOLEAN]
      BY <1>7 DEF CancelSignal
    <2>3. ExecKnows'
      BY <1>f, <2>1, <2>2, ThreadsKept
    <2>4. ToolKnows'
      BY <1>7 DEF CancelSignal, ToolKnows
    <2> QED
      BY <1>f, <1>7, <2>1, <2>2, <2>3, <2>4, KeepingStep DEF CancelSignal, TokensAreLive
  <1> QED
    BY <1>1, <1>2, <1>3, <1>4, <1>5, <1>6, <1>7

\* A new row, for nobody or for a decided approval that has no job yet.
LEMMA CreationKeeps ==
    ASSUME IInv, NEW j \in JobIds, jobs[j].status = "none",
           NEW a \in Approvals \cup {NoApproval},
           a \in Approvals => /\ \A k \in JobIds \ foreign : jobs[k].approval # a
                             /\ approvals[a].status \notin {"none", "pending"},
           jobs' = create_job(jobs, j, a), approvals' = approvals, foreign' = foreign
    PROVE  /\ jobs' \in [JobIds -> JobRow]
           /\ AbsentRowsAreBlank' /\ UndecidedHasNoJob' /\ OneJobPerApproval'
           /\ LinkAgrees' /\ CancelledOnce'
           /\ exec' = exec => ExecKnows'
           /\ jobs'[j].status = "queued" /\ jobs'[j].approval = a
  <1>0. /\ jobs \in [JobIds -> JobRow]
        /\ approvals \in [Approvals -> ApprovalRow]
    BY Typed DEF IInv
  <1>1. /\ jobs' \in [JobIds -> JobRow]
        /\ \A k \in JobIds : k # j => jobs'[k] = jobs[k]
        /\ jobs'[j].status = "queued"
        /\ jobs'[j].approval = a
        /\ jobs'[j].finished = jobs[j].finished
    BY <1>0, CreateRow
  <1>2. jobs[j].approval = NoApproval /\ jobs[j].finished = 0
    BY DEF IInv, AbsentRowsAreBlank
  <1>3. AbsentRowsAreBlank'
    BY <1>1 DEF IInv, AbsentRowsAreBlank
  <1>4. UndecidedHasNoJob'
    BY <1>1 DEF IInv, UndecidedHasNoJob
  <1>5. OneJobPerApproval'
    BY <1>1 DEF IInv, OneJobPerApproval
  <1>6. LinkAgrees'
    <2> SUFFICES ASSUME NEW b \in Approvals, approvals[b].job # NoJob
                 PROVE  jobs'[approvals[b].job].approval = b
      BY DEF LinkAgrees
    <2>1. approvals[b].job \in JobIds /\ jobs[approvals[b].job].approval = b
      BY <1>0 DEF IInv, LinkAgrees, ApprovalRow
    <2>2. approvals[b].job # j
      BY <2>1, <1>2, McpAssumption
    <2> QED
      BY <2>1, <2>2, <1>1
  <1>7. CancelledOnce'
    BY <1>1, <1>2 DEF IInv, CancelledOnce
  <1>8. exec' = exec => ExecKnows'
    BY <1>1 DEF IInv, ExecKnows
  <1> QED
    BY <1>1, <1>3, <1>4, <1>5, <1>6, <1>7, <1>8

\* Tool calls that write a job or link one.
LEMMA JobToolSteps ==
    ASSUME IInv, BacktestStart \/ DecideCreateJob \/ LinkApproval \/ CancelRow
    PROVE  IInv'
  <1>f. foreign' = foreign
    BY DEF BacktestStart, DecideCreateJob, LinkApproval, CancelRow, otherVars
  <1>0. /\ jobs \in [JobIds -> JobRow]
        /\ approvals \in [Approvals -> ApprovalRow]
    BY Typed DEF IInv
  <1>1. ASSUME BacktestStart PROVE IInv'
    <2> PICK j \in JobIds, o \in {"done", "failed", "lost"} :
            /\ IsNextId(jobs, j)
            /\ Outcome(o)
            /\ jobs' = IF o = "failed" THEN jobs ELSE create_job(jobs, j, NoApproval)
            /\ tool' = IF o = "done" THEN [IdleTool EXCEPT !.pc = "enqueue", !.job = j]
                                     ELSE IdleTool
      BY <1>1 DEF BacktestStart
    <2>1. faults' \in Nat
      BY OutcomeTyped DEF IInv
    <2>2. approvals' = approvals /\ chan' = chan /\ exec' = exec /\ cancels' = cancels
      BY <1>1 DEF BacktestStart
    <2>3. CASE o = "failed"
      <3>1. Kept(jobs, jobs') /\ KeptApprovals(approvals, approvals') /\ tool' = IdleTool
        BY <1>0, <2>2, <2>3, SameKept, SameApprovalsKept
      <3>2. ToolKnows' /\ ExecKnows'
        BY <1>f, <2>2, <3>1, ThreadsKept
      <3> QED
        BY <1>f, <2>1, <2>2, <3>1, <3>2, KeepingStep DEF IInv, ServerTypeOK, IdleTool, TokensAreLive
    <2>4. CASE o # "failed"
      <3>1. jobs[j].status = "none" /\ jobs' = create_job(jobs, j, NoApproval)
        BY <2>4 DEF IsNextId
      <3>2. /\ jobs' \in [JobIds -> JobRow]
            /\ AbsentRowsAreBlank' /\ UndecidedHasNoJob' /\ OneJobPerApproval'
            /\ LinkAgrees' /\ CancelledOnce' /\ ExecKnows'
            /\ jobs'[j].status = "queued" /\ jobs'[j].approval = NoApproval
        BY <1>f, <2>2, <3>1, CreationKeeps, McpAssumption
      <3>3. ToolKnows'
        BY <3>2, McpAssumption DEF ToolKnows, IdleTool
      <3>4. ServerTypeOK'
        BY <2>1, <2>2, <3>2 DEF IInv, ServerTypeOK, IdleTool, JobRow
      <3>5. TokensAreLive'
        BY <2>2 DEF IInv, TokensAreLive
      <3> QED
        BY <3>2, <3>3, <3>4, <3>5 DEF IInv
    <2> QED
      BY <2>3, <2>4
  <1>2. ASSUME DecideCreateJob PROVE IInv'
    <2> PICK j \in JobIds, o \in {"done", "failed", "lost"} :
            /\ IsNextId(jobs, j)
            /\ Outcome(o)
            /\ jobs' = IF o = "failed" THEN jobs ELSE create_job(jobs, j, tool.approval)
            /\ tool' = IF o = "done" THEN [tool EXCEPT !.pc = "enqueue", !.job = j]
                                     ELSE IdleTool
      BY <1>2 DEF DecideCreateJob
    <2>1. faults' \in Nat
      BY OutcomeTyped DEF IInv
    <2>2. approvals' = approvals /\ chan' = chan /\ exec' = exec /\ cancels' = cancels
      BY <1>2 DEF DecideCreateJob
    <2>3. CASE o = "failed"
      <3>1. Kept(jobs, jobs') /\ KeptApprovals(approvals, approvals') /\ tool' = IdleTool
        BY <1>0, <2>2, <2>3, SameKept, SameApprovalsKept
      <3>2. ToolKnows' /\ ExecKnows'
        BY <1>f, <2>2, <3>1, ThreadsKept
      <3> QED
        BY <1>f, <2>1, <2>2, <3>1, <3>2, KeepingStep DEF IInv, ServerTypeOK, IdleTool, TokensAreLive
    <2>4. CASE o # "failed"
      <3>0. /\ tool.approval \in Approvals
            /\ \A k \in JobIds \ foreign : jobs[k].approval # tool.approval
            /\ approvals[tool.approval].status \notin {"none", "pending"}
        BY <1>2 DEF DecideCreateJob, ToolAt, IInv, ToolKnows
      <3>1. jobs[j].status = "none" /\ jobs' = create_job(jobs, j, tool.approval)
        BY <2>4 DEF IsNextId
      <3>2. /\ jobs' \in [JobIds -> JobRow]
            /\ AbsentRowsAreBlank' /\ UndecidedHasNoJob' /\ OneJobPerApproval'
            /\ LinkAgrees' /\ CancelledOnce' /\ ExecKnows'
            /\ jobs'[j].status = "queued" /\ jobs'[j].approval = tool.approval
        BY <1>f, <2>2, <3>0, <3>1, CreationKeeps
      <3>3. ToolKnows'
        <4>1. tool' = IdleTool \/ (/\ tool'.pc = "enqueue" /\ tool'.job = j
                                   /\ tool'.approval = tool.approval)
          BY DEF IInv, ServerTypeOK
        <4> QED
          BY <3>2, <4>1 DEF ToolKnows, IdleTool
      <3>4. ServerTypeOK'
        BY <2>1, <2>2, <3>2 DEF IInv, ServerTypeOK, IdleTool, JobRow
      <3>5. TokensAreLive'
        BY <2>2 DEF IInv, TokensAreLive
      <3> QED
        BY <3>2, <3>3, <3>4, <3>5 DEF IInv
    <2> QED
      BY <2>3, <2>4
  <1>3. ASSUME LinkApproval PROVE IInv'
    <2>0. /\ tool.approval \in Approvals /\ tool.job \in JobIds
          /\ jobs[tool.job].approval = tool.approval
      BY <1>3 DEF LinkApproval, ToolAt, IInv, ToolKnows
    <2>1. /\ tool' = IdleTool /\ jobs' = jobs /\ chan' = chan
          /\ exec' = exec /\ cancels' = cancels
          /\ \/ approvals' = approvals
             \/ approvals' = link_approval_to_job(approvals, tool.approval, tool.job)
      BY <1>3 DEF LinkApproval
    <2>2. faults' \in Nat
      BY <1>3, OutcomeTyped DEF LinkApproval, IInv
    <2>3. /\ approvals' \in [Approvals -> ApprovalRow]
          /\ \A a \in Approvals :
                /\ approvals'[a].status = approvals[a].status
                /\ \/ approvals'[a].job = approvals[a].job
                   \/ a = tool.approval /\ approvals'[a].job = tool.job
      BY <1>0, <2>0, <2>1 DEF link_approval_to_job, ApprovalRow
    <2>4. ServerTypeOK'
      BY <2>1, <2>2, <2>3 DEF IInv, ServerTypeOK, IdleTool, ApprovalRow
    <2>5. ToolKnows' /\ ExecKnows' /\ TokensAreLive'
      BY <2>1 DEF IInv, ToolKnows, ExecKnows, TokensAreLive, IdleTool
    <2>6. AbsentRowsAreBlank' /\ OneJobPerApproval' /\ CancelledOnce'
      BY <1>f, <2>1 DEF IInv, AbsentRowsAreBlank, OneJobPerApproval, CancelledOnce
    <2>7. UndecidedHasNoJob'
      BY <2>1, <2>3 DEF IInv, UndecidedHasNoJob
    <2>8. LinkAgrees'
      BY <2>0, <2>1, <2>3 DEF IInv, LinkAgrees
    <2> QED
      BY <2>4, <2>5, <2>6, <2>7, <2>8 DEF IInv
  <1>4. ASSUME CancelRow PROVE IInv'
    <2>0. tool.job \in JobIds
      BY <1>4 DEF CancelRow, ToolAt, IInv, ToolKnows
    <2>1. /\ tool' = IdleTool /\ approvals' = approvals /\ chan' = chan
          /\ exec' = exec /\ cancels' = cancels
          /\ jobs' = jobs \/ jobs' = cancel_job(jobs, tool.job)
      BY <1>4 DEF CancelRow
    <2>2. faults' \in Nat
      BY <1>4, OutcomeTyped DEF CancelRow, IInv
    <2>3. Kept(jobs, jobs') /\ KeptApprovals(approvals, approvals')
      BY <1>0, <2>0, <2>1, CancelMoves, MovedKept, SameKept, SameApprovalsKept
    <2>4. ToolKnows' /\ ExecKnows'
      BY <1>f, <2>1, <2>3, ThreadsKept
    <2> QED
      BY <1>f, <2>1, <2>2, <2>3, <2>4, KeepingStep DEF IInv, ServerTypeOK, IdleTool, TokensAreLive
  <1> QED
    BY <1>1, <1>2, <1>3, <1>4

\* A step of the executor alone: the tool call in progress still knows what it knew.
LEMMA ExecutorStep ==
    ASSUME IInv, foreign' = foreign, Kept(jobs, jobs'), approvals' = approvals, tool' = tool,
           ExecKnows', TokensAreLive',
           chan' \in Seq(JobIds),
           exec' \in [pc : {"idle", "start", "register", "resolve", "file", "hung", "ran", "failed",
                           "settle_ok", "settle_err", "complete", "fail"},
                     job : JobIds \cup {NoJob}, files : 0 .. MaxFiles, cancelled : BOOLEAN],
           cancels' \in SUBSET JobIds,
           faults' \in Nat
    PROVE  IInv'
  <1>1. KeptApprovals(approvals, approvals')
    BY Typed, SameApprovalsKept DEF IInv
  <1>2. ToolKnows'
    BY <1>1, ThreadsKept
  <1>3. tool' \in [pc : {"idle", "enqueue", "reject", "approve", "create", "link",
                         "signal", "cancel"},
                   job : JobIds \cup {NoJob}, approval : Approvals \cup {NoApproval}]
    BY DEF IInv, ServerTypeOK
  <1> QED
    BY <1>1, <1>2, <1>3, KeepingStep

\* An idle executor needs no token and knows nothing.
LEMMA IdleExecutor ==
    ASSUME ServerTypeOK, exec' = IdleExec
    PROVE  /\ ExecKnows'
           /\ cancels' = {} => TokensAreLive'
           /\ exec' \in [pc : {"idle", "start", "register", "resolve", "file", "hung", "ran", "failed",
                              "settle_ok", "settle_err", "complete", "fail"},
                        job : JobIds \cup {NoJob}, files : 0 .. MaxFiles, cancelled : BOOLEAN]
  BY McpAssumption DEF IdleExec, ExecKnows, TokensAreLive, NoJob

\* Steps of the executor before and while the runner is under way.
LEMMA RunningSteps ==
    ASSUME IInv,
           ExecPickUp \/ ExecStart \/ ExecRegister \/ ExecResolve \/ ExecFile \/ ExecHangs
    PROVE  IInv'
  <1>f. foreign' = foreign
    BY DEF ExecPickUp, ExecStart, ExecRegister, ExecResolve, ExecFile, ExecHangs, otherVars
  <1>0. jobs \in [JobIds -> JobRow] /\ Kept(jobs, jobs)
    BY Typed, SameKept DEF IInv
  <1>1. ASSUME ExecPickUp PROVE IInv'
    <2>1. /\ Kept(jobs, jobs') /\ approvals' = approvals /\ tool' = tool
          /\ cancels' = cancels /\ cancels = {} /\ chan # <<>> /\ chan' = Tail(chan)
          /\ chan \in Seq(JobIds)
      BY <1>0, <1>1 DEF ExecPickUp, ExecAt, IInv, TokensAreLive, ServerTypeOK
    <2>2. chan' \in Seq(JobIds) /\ Head(chan) \in JobIds
      BY ONLY <2>1
    <2>3. faults' \in Nat
      BY <1>1, OutcomeTyped DEF ExecPickUp, IInv
    <2>4. \/ exec' = IdleExec
          \/ exec' = [IdleExec EXCEPT !.pc = "start", !.job = Head(chan)]
      BY <1>1 DEF ExecPickUp
    <2>5. CASE exec' = IdleExec
      BY <1>f, <2>1, <2>2, <2>3, <2>5, IdleExecutor, ExecutorStep DEF IInv
    <2>6. CASE exec' = [IdleExec EXCEPT !.pc = "start", !.job = Head(chan)]
      <3>1. /\ exec'.pc = "start" /\ exec'.job = Head(chan)
            /\ exec' \in [pc : {"idle", "start", "register", "resolve", "file", "hung", "ran", "failed",
                               "settle_ok", "settle_err", "complete", "fail"},
                         job : JobIds \cup {NoJob}, files : 0 .. MaxFiles, cancelled : BOOLEAN]
        <4>1. exec' = [pc |-> "start", job |-> Head(chan), files |-> 0, cancelled |-> FALSE]
          BY ONLY <2>6 DEF IdleExec
        <4>2. 0 \in 0 .. MaxFiles
          BY ONLY McpAssumption
        <4> QED
          BY ONLY <2>2, <4>1, <4>2
      <3>2. ExecKnows' /\ TokensAreLive'
        BY <2>1, <2>2, <3>1 DEF ExecKnows, TokensAreLive
      <3>3. cancels' \in SUBSET JobIds
        BY <2>1
      <3> QED
        BY <1>f, <2>1, <2>2, <2>3, <3>1, <3>2, <3>3, ExecutorStep
    <2> QED
      BY <2>4, <2>5, <2>6
  <1>2. ASSUME ExecStart PROVE IInv'
    <2> PICK o \in {"done", "failed", "lost"} :
            /\ Outcome(o)
            /\ jobs' = IF o = "failed" THEN jobs ELSE start_job(jobs, exec.job)
            /\ exec' = IF o = "done" /\ jobs[exec.job].status = "queued"
                       THEN [exec EXCEPT !.pc = "register"]
                       ELSE IdleExec
      BY <1>2 DEF ExecStart
    <2>1. /\ exec.pc = "start" /\ exec.job \in JobIds /\ cancels = {}
          /\ approvals' = approvals /\ tool' = tool /\ chan' = chan /\ cancels' = cancels
          /\ chan' \in Seq(JobIds) /\ cancels' \in SUBSET JobIds
      BY <1>2 DEF ExecStart, ExecAt, IInv, ExecKnows, TokensAreLive, ServerTypeOK
    <2>2. Kept(jobs, jobs')
      BY <1>0, <2>1, StartMoves, MovedKept
    <2>3. faults' \in Nat
      BY OutcomeTyped DEF IInv
    <2>4. CASE exec' = IdleExec
      BY <1>f, <2>1, <2>2, <2>3, <2>4, IdleExecutor, ExecutorStep DEF IInv
    <2>5. CASE exec' # IdleExec
      <3>1. /\ jobs' = start_job(jobs, exec.job) /\ jobs[exec.job].status = "queued"
            /\ exec' = [exec EXCEPT !.pc = "register"]
        BY <2>5
      <3>2. jobs'[exec.job].status = "running"
        <4>1. "running" \in JobStatuses
          BY DEF JobStatuses
        <4>2. update_job_status(jobs, exec.job, "running")[exec.job].status = "running"
          BY ONLY <1>0, <2>1, <4>1, StatusRow
        <4> QED
          BY ONLY <3>1, <4>2 DEF start_job
      <3>3. /\ exec'.pc = "register" /\ exec'.job = exec.job
            /\ exec' \in [pc : {"idle", "start", "register", "resolve", "file", "hung", "ran", "failed",
                               "settle_ok", "settle_err", "complete", "fail"},
                         job : JobIds \cup {NoJob}, files : 0 .. MaxFiles, cancelled : BOOLEAN]
        BY <3>1 DEF IInv, ServerTypeOK
      <3>4. ExecKnows' /\ TokensAreLive'
        BY <2>1, <3>2, <3>3 DEF ExecKnows, TokensAreLive
      <3> QED
        BY <1>f, <2>1, <2>2, <2>3, <3>3, <3>4, ExecutorStep
    <2> QED
      BY <2>4, <2>5
  <1>3. ASSUME ExecRegister \/ ExecResolve \/ ExecFile \/ ExecHangs PROVE IInv'
    <2>0. exec \in [pc : {"idle", "start", "register", "resolve", "file", "hung", "ran", "failed",
                          "settle_ok", "settle_err", "complete", "fail"},
                    job : JobIds \cup {NoJob}, files : 0 .. MaxFiles, cancelled : BOOLEAN]
      BY DEF IInv, ServerTypeOK
    <2>1. /\ jobs' = jobs /\ approvals' = approvals /\ tool' = tool /\ chan' = chan
          /\ faults' = faults
      BY <1>3 DEF ExecRegister, ExecResolve, ExecFile, ExecHangs
    <2>2. /\ chan' \in Seq(JobIds) /\ faults' \in Nat /\ Kept(jobs, jobs')
      BY <1>0, <2>1 DEF IInv, ServerTypeOK
    <2>3. exec.pc \in {"register", "resolve", "file"} /\ exec.job \in JobIds
          /\ jobs[exec.job].status \notin {"none", "queued"}
      BY <1>3 DEF ExecRegister, ExecResolve, ExecFile, ExecHangs, ExecAt, IInv, ExecKnows
    <2>4. /\ exec'.job = exec.job /\ exec'.pc \in {"resolve", "file", "hung", "ran", "failed"}
          /\ exec'.pc = "file" => exec'.files # 0
          /\ exec' \in [pc : {"idle", "start", "register", "resolve", "file", "hung", "ran", "failed",
                             "settle_ok", "settle_err", "complete", "fail"},
                       job : JobIds \cup {NoJob}, files : 0 .. MaxFiles, cancelled : BOOLEAN]
      <3>1. CASE ExecRegister
        BY <3>1 DEF ExecRegister, ExecGoes, IInv, ServerTypeOK
      <3>2. CASE ExecResolve
        <4>1. \/ exec' = [exec EXCEPT !.pc = "failed"]
              \/ exec' = [exec EXCEPT !.pc = "ran"]
              \/ \E n \in 1 .. MaxFiles : exec' = [exec EXCEPT !.pc = "file", !.files = n]
          BY ONLY <3>2 DEF ExecResolve, ExecGoes
        <4>2. \A n \in 1 .. MaxFiles : n \in 0 .. MaxFiles /\ n # 0
          BY ONLY McpAssumption
        <4> QED
          BY ONLY <2>0, <4>1, <4>2
      <3>3. CASE ExecFile
        <4>1. /\ exec.files \in 0 .. MaxFiles /\ exec.files # 0
              /\ exec' = [exec EXCEPT !.files = @ - 1,
                                       !.pc = IF exec.files = 1 THEN "ran" ELSE "file"]
          BY <2>0, <3>3 DEF ExecFile, ExecAt, IInv, ExecKnows
        <4>2. exec.files - 1 \in 0 .. MaxFiles /\ (exec.files # 1 => exec.files - 1 # 0)
          BY ONLY <4>1, McpAssumption
        <4>3. CASE exec.files = 1
          BY ONLY <2>0, <4>1, <4>2, <4>3
        <4>4. CASE exec.files # 1
          BY ONLY <2>0, <4>1, <4>2, <4>4
        <4> QED
          BY ONLY <4>3, <4>4
      <3>4. CASE ExecHangs
        BY <2>0, <3>4 DEF ExecHangs, ExecGoes
      <3> QED
        BY <1>3, <3>1, <3>2, <3>3, <3>4
    <2>5. cancels' = {exec.job}
      BY <1>3, <2>3 DEF ExecRegister, ExecResolve, ExecFile, ExecHangs, ExecAt, IInv, TokensAreLive
    <2>6. ExecKnows' /\ TokensAreLive' /\ cancels' \in SUBSET JobIds
      BY <2>1, <2>3, <2>4, <2>5 DEF ExecKnows, TokensAreLive
    <2> QED
      BY <1>f, <2>1, <2>2, <2>4, <2>6, ExecutorStep
  <1> QED
    BY <1>1, <1>2, <1>3

\* Steps of the executor that end a job.
LEMMA EndingSteps ==
    ASSUME IInv,
           ExecSeesCancel \/ ExecUnregister \/ ExecSettle \/ ExecComplete \/ ExecFail
    PROVE  IInv'
  <1>f. foreign' = foreign
    BY DEF ExecSeesCancel, ExecUnregister, ExecSettle, ExecComplete, ExecFail, otherVars
  <1>0. jobs \in [JobIds -> JobRow] /\ Kept(jobs, jobs)
    BY Typed, SameKept DEF IInv
  <1>1. exec.job \in JobIds /\ jobs[exec.job].status \notin {"none", "queued"}
    BY DEF ExecSeesCancel, ExecUnregister, ExecSettle, ExecComplete, ExecFail, ExecAt,
           IInv, ExecKnows
  <1>2. approvals' = approvals /\ tool' = tool /\ chan' = chan /\ chan' \in Seq(JobIds)
    BY DEF ExecSeesCancel, ExecUnregister, ExecSettle, ExecComplete, ExecFail, IInv, ServerTypeOK
  <1>3. faults' \in Nat
    BY OutcomeTyped DEF ExecSeesCancel, ExecUnregister, ExecSettle, ExecComplete, ExecFail,
                        IInv, ServerTypeOK
  <1>4. Kept(jobs, jobs')
    <2>1. \/ jobs' = jobs
          \/ jobs' = cancel_job(jobs, exec.job)
          \/ jobs' = complete_job(jobs, exec.job, RunnerResult)
          \/ jobs' = fail_job(jobs, exec.job)
      BY DEF ExecSeesCancel, ExecUnregister, ExecSettle, ExecComplete, ExecFail
    <2>2. Kept(jobs, cancel_job(jobs, exec.job))
      BY ONLY <1>0, <1>1, CancelMoves, MovedKept
    <2>3. Kept(jobs, complete_job(jobs, exec.job, RunnerResult))
      BY ONLY <1>0, <1>1, CompleteMoves, MovedKept
    <2>4. Kept(jobs, fail_job(jobs, exec.job))
      BY ONLY <1>0, <1>1, FailMoves, MovedKept
    <2> QED
      BY ONLY <1>0, <2>1, <2>2, <2>3, <2>4, Zenon
  <1>5. CASE exec' = IdleExec
    <2>1. cancels' = {}
      BY <1>5 DEF ExecSeesCancel, ExecUnregister, ExecSettle, ExecComplete, ExecFail,
                  ExecAt, ExecGoes, IdleExec, IInv, ServerTypeOK, TokensAreLive
    <2>2. cancels' \in SUBSET JobIds
      BY <2>1
    <2> QED
      BY <1>f, <1>2, <1>3, <1>4, <1>5, <2>1, <2>2, IdleExecutor, ExecutorStep DEF IInv
  <1>6. CASE exec' # IdleExec
    <2>1. /\ exec'.job = exec.job
          /\ exec'.pc \in {"failed", "settle_ok", "settle_err", "complete", "fail"}
          /\ exec' \in [pc : {"idle", "start", "register", "resolve", "file", "hung", "ran", "failed",
                             "settle_ok", "settle_err", "complete", "fail"},
                       job : JobIds \cup {NoJob}, files : 0 .. MaxFiles, cancelled : BOOLEAN]
          /\ cancels' = IF exec'.pc = "failed" THEN {exec.job} ELSE {}
      <3>1. CASE ExecSeesCancel
        BY <3>1 DEF ExecSeesCancel, ExecAt, ExecGoes, IInv, ServerTypeOK, TokensAreLive
      <3>2. CASE ExecUnregister
        BY <3>2 DEF ExecUnregister, ExecAt, ExecGoes, IInv, ServerTypeOK, TokensAreLive
      <3>3. CASE ExecSettle
        BY <3>3, <1>6 DEF ExecSettle, ExecAt, ExecGoes, IInv, ServerTypeOK, TokensAreLive
      <3> QED
        BY <1>6, <3>1, <3>2, <3>3 DEF ExecComplete, ExecFail
    <2>2. jobs'[exec.job].status \notin {"none", "queued"}
      BY <1>1, <1>4 DEF Kept, JobEdges
    <2>3. ExecKnows' /\ TokensAreLive' /\ cancels' \in SUBSET JobIds
      BY <1>1, <2>1, <2>2 DEF ExecKnows, TokensAreLive
    <2> QED
      BY <1>f, <1>2, <1>3, <1>4, <2>1, <2>3, ExecutorStep
  <1> QED
    BY <1>5, <1>6

\* A crash ends both threads; the statement it interrupts moved one job.
LEMMA CrashSteps ==
    ASSUME IInv, ProcessDies
    PROVE  IInv'
  <1>f. foreign' = foreign
    BY DEF ProcessDies, Crash, CrashInFail, CrashInCancel, Dies, otherVars
  <1>0. jobs \in [JobIds -> JobRow] /\ approvals \in [Approvals -> ApprovalRow]
        /\ Kept(jobs, jobs)
    BY Typed, SameKept DEF IInv
  <1>1. Dies
    BY DEF ProcessDies, Crash, CrashInFail, CrashInCancel
  <1>2. Kept(jobs, jobs')
    <2>1. CASE Crash
      BY <1>0, <2>1 DEF Crash
    <2>2. CASE CrashInFail
      BY <1>0, <2>2, FailMoves, MovedKept DEF CrashInFail, ExecAt, IInv, ExecKnows
    <2>3. CASE CrashInCancel
      <3>1. /\ tool.job \in JobIds
            /\ jobs[tool.job].status \notin {"none", "completed", "failed", "cancelled"}
            /\ jobs' = update_job_status(jobs, tool.job, "cancelled")
        BY <2>3 DEF CrashInCancel, ToolAt, is_terminal_status, IInv, ToolKnows
      <3>2. jobs[tool.job].status \in {"queued", "running"}
        BY <1>0, <3>1 DEF JobRow, JobStatuses
      <3>3. Moved(jobs, jobs', tool.job)
        BY <1>0, <3>1, <3>2, StatusRow DEF Moved, JobEdges, JobStatuses
      <3> QED
        BY <1>0, <3>1, <3>3, MovedKept
    <2> QED
      BY <2>1, <2>2, <2>3 DEF ProcessDies
  <1>3. KeptApprovals(approvals, approvals')
    BY <1>0, <1>1, SameApprovalsKept DEF Dies
  <1>4. ToolKnows'
    BY <1>f, <1>1, <1>2, <1>3, ThreadsKept DEF Dies
  <1>5. /\ ExecKnows' /\ TokensAreLive'
        /\ exec' \in [pc : {"idle", "start", "register", "resolve", "file", "hung", "ran", "failed",
                           "settle_ok", "settle_err", "complete", "fail"},
                     job : JobIds \cup {NoJob}, files : 0 .. MaxFiles, cancelled : BOOLEAN]
    BY <1>1, IdleExecutor DEF Dies, IInv
  <1>6. /\ tool' \in [pc : {"idle", "enqueue", "reject", "approve", "create", "link",
                           "signal", "cancel"},
                     job : JobIds \cup {NoJob}, approval : Approvals \cup {NoApproval}]
        /\ chan' \in Seq(JobIds) /\ cancels' \in SUBSET JobIds /\ faults' \in Nat
    BY <1>1 DEF Dies, IdleTool, IInv, ServerTypeOK
  <1> QED
    BY <1>f, <1>2, <1>3, <1>4, <1>5, <1>6, KeepingStep

\* Decisions made elsewhere, and time.
LEMMA OutsideSteps ==
    ASSUME IInv, Outside
    PROVE  IInv'
  <1>f. foreign' = foreign
    BY DEF Outside, OutsideApprove, OutsideReject, TimePasses, ExpireApprovals, otherVars
  <1>0. jobs \in [JobIds -> JobRow] /\ approvals \in [Approvals -> ApprovalRow]
    BY Typed DEF IInv
  <1>1. UNCHANGED <<jobs, tool, chan, exec, cancels, faults>>
    BY DEF Outside, OutsideApprove, OutsideReject, TimePasses, ExpireApprovals
  <1>2. KeptApprovals(approvals, approvals')
    <2>1. ASSUME NEW a \in Approvals, OutsideApprove(a) \/ OutsideReject(a) \/ TimePasses(a)
          PROVE  KeptApprovals(approvals, approvals')
      BY <1>0, <2>1, DecideKept DEF OutsideApprove, OutsideReject, TimePasses
    <2>2. CASE ExpireApprovals
      BY <1>0, <2>2, ExpireKept DEF ExpireApprovals
    <2> QED
      BY <2>1, <2>2 DEF Outside
  <1>3. Kept(jobs, jobs')
    BY <1>0, <1>1, SameKept
  <1>4. ToolKnows' /\ ExecKnows'
    BY <1>f, <1>1, <1>2, <1>3, ThreadsKept
  <1>5. TokensAreLive'
    BY <1>1 DEF IInv, TokensAreLive
  <1> QED
    BY <1>f, <1>1, <1>2, <1>3, <1>4, <1>5, KeepingStep DEF IInv, ServerTypeOK

\* A row keeps the approval it was created for, and its status moves along an edge.
RowMoves(t, u) ==
    \A k \in JobIds :
        /\ u[k].status # t[k].status => <<t[k].status, u[k].status>> \in JobEdges
        /\ t[k].status # "none" => u[k].approval = t[k].approval

\* Every step moves every job along an edge of its life cycle or not at all.
LEMMA JobStep ==
    ASSUME IInv, OthersInv, [Next]_vars
    PROVE  RowMoves(jobs, jobs')
  <1>0. jobs \in [JobIds -> JobRow] /\ \A k \in JobIds : jobs[k].status \in JobStatuses
    BY Typed DEF IInv
  <1>1. ASSUME Kept(jobs, jobs') PROVE RowMoves(jobs, jobs')
    BY <1>1 DEF Kept, RowMoves
  <1>k. Kept(jobs, jobs)
    BY <1>0, SameKept
  <1>2. ASSUME NEW j \in JobIds, NEW a \in Approvals \cup {NoApproval}, jobs[j].status = "none",
               jobs' = create_job(jobs, j, a)
        PROVE  RowMoves(jobs, jobs')
    BY SMTT(30), <1>0, <1>2, CreateRow DEF JobEdges, RowMoves
  <1>3. CASE BacktestStart
    <2>1. jobs' = jobs \/ \E j \in JobIds : /\ jobs[j].status = "none"
                                           /\ jobs' = create_job(jobs, j, NoApproval)
      BY <1>3 DEF BacktestStart, IsNextId
    <2> QED
      BY <1>1, <1>k, <1>2, <2>1
  <1>4. CASE DecideCreateJob
    <2>1. jobs' = jobs \/ \E j \in JobIds : /\ jobs[j].status = "none"
                                           /\ jobs' = create_job(jobs, j, tool.approval)
      BY <1>4 DEF DecideCreateJob, IsNextId
    <2>2. tool.approval \in Approvals \cup {NoApproval}
      BY DEF IInv, ServerTypeOK
    <2> QED
      BY <1>1, <1>k, <1>2, <2>1, <2>2
  <1>o. CASE \E s \in OtherServers : OtherCreateJob(s)
    <2>1. PICK s \in OtherServers : OtherCreateJob(s)
      BY <1>o
    <2>2. \E j \in JobIds : /\ jobs[j].status = "none"
                            /\ jobs' = create_job(jobs, j, others[s].approval)
      BY <2>1 DEF OtherCreateJob, IsNextId
    <2>3. others[s].approval \in Approvals \cup {NoApproval}
      BY DEF OthersInv, OthersTypeOK
    <2> QED
      BY <1>2, <2>2, <2>3
  <1>5. CASE CancelRow
    <2>1. tool.job \in JobIds /\ (jobs' = jobs \/ jobs' = cancel_job(jobs, tool.job))
      BY <1>5 DEF CancelRow, ToolAt, IInv, ToolKnows
    <2> QED
      BY <1>0, <1>k, <1>1, <2>1, CancelMoves, MovedKept
  <1>6. CASE ExecStart
    <2>1. exec.job \in JobIds /\ (jobs' = jobs \/ jobs' = start_job(jobs, exec.job))
      BY <1>6 DEF ExecStart, ExecAt, IInv, ExecKnows
    <2> QED
      BY <1>0, <1>k, <1>1, <2>1, StartMoves, MovedKept
  <1>7. CASE ExecSeesCancel
    <2>1. exec.job \in JobIds /\ (jobs' = jobs \/ jobs' = cancel_job(jobs, exec.job))
      BY <1>7 DEF ExecSeesCancel, ExecAt, IInv, ExecKnows
    <2> QED
      BY <1>0, <1>k, <1>1, <2>1, CancelMoves, MovedKept
  <1>8. CASE ExecComplete
    <2>1. exec.job \in JobIds /\ (jobs' = jobs \/ jobs' = complete_job(jobs, exec.job, RunnerResult))
      BY <1>8 DEF ExecComplete, ExecAt, IInv, ExecKnows
    <2> QED
      BY <1>0, <1>k, <1>1, <2>1, CompleteMoves, MovedKept
  <1>9. CASE ExecFail
    <2>1. /\ exec.job \in JobIds /\ (jobs' = jobs \/ jobs' = fail_job(jobs, exec.job))
          /\ jobs[exec.job].status \notin {"none", "queued"}
      BY <1>9 DEF ExecFail, ExecAt, IInv, ExecKnows
    <2> QED
      BY <1>0, <1>k, <1>1, <2>1, FailMoves, MovedKept
  <1>10. CASE CrashInFail
    <2>1. /\ exec.job \in JobIds /\ jobs' = update_job_status(jobs, exec.job, "failed")
          /\ jobs[exec.job].status \notin {"none", "queued"}
          /\ ~is_terminal_status(jobs[exec.job].status)
      BY <1>10 DEF CrashInFail, ExecAt, IInv, ExecKnows
    <2> QED
      BY <1>0, <1>k, <1>1, <2>1, FailMoves, MovedKept
  <1>11. CASE CrashInCancel
    <2>1. /\ tool.job \in JobIds /\ jobs[tool.job].status # "none"
          /\ ~is_terminal_status(jobs[tool.job].status)
          /\ jobs' = update_job_status(jobs, tool.job, "cancelled")
      BY <1>11 DEF CrashInCancel, ToolAt, IInv, ToolKnows
    <2>2. jobs[tool.job].status \in {"queued", "running"}
      BY <1>0, <2>1 DEF is_terminal_status, JobRow, JobStatuses
    <2>3. "cancelled" \in JobStatuses
      BY DEF JobStatuses
    <2>4. Moved(jobs, jobs', tool.job)
      BY <1>0, <2>1, <2>2, <2>3, StatusRow DEF Moved, JobEdges
    <2> QED
      BY <1>0, <1>1, <2>1, <2>4, MovedKept
  <1>12. \/ BacktestStart \/ DecideCreateJob \/ CancelRow \/ ExecStart \/ ExecSeesCancel
         \/ ExecComplete \/ ExecFail \/ CrashInFail \/ CrashInCancel
         \/ \E s \in OtherServers : OtherCreateJob(s)
         \/ jobs' = jobs
    BY DEF Next, OtherStep, OtherRead, OtherApprove, OtherLink, OtherStops, ExecHangs, ToolCall, ToolStep, ExecStep, ProcessDies, Outside, RunRequest, DecideRead,
           CancelRead, DecideReject, DecideApprove, Enqueue, LinkApproval, CancelSignal,
           ExecPickUp, ExecRegister, ExecResolve, ExecFile, ExecUnregister, ExecSettle, Crash,
           OutsideApprove, OutsideReject, TimePasses, ExpireApprovals, vars
  <1> QED
    BY <1>1, <1>k, <1>o, <1>3, <1>4, <1>5, <1>6, <1>7, <1>8, <1>9, <1>10, <1>11, <1>12

\* Every status stays or moves along an edge.
StatusesMove(p, q) ==
    \A a \in Approvals :
        q[a].status # p[a].status => <<p[a].status, q[a].status>> \in ApprovalEdges

\* Every step moves every approval along an edge of its life cycle or not at all.
LEMMA ApprovalStep ==
    ASSUME IInv, OthersInv, [Next]_vars
    PROVE  StatusesMove(approvals, approvals')
  <1>0. approvals \in [Approvals -> ApprovalRow]
    BY Typed DEF IInv
  <1>k. KeptApprovals(approvals, approvals)
    BY <1>0, SameApprovalsKept
  <1>1. ASSUME KeptApprovals(approvals, approvals')
        PROVE  StatusesMove(approvals, approvals')
    BY <1>1 DEF KeptApprovals, StatusesMove
  <1>2. CASE \E b \in Approvals : RunRequest(b)
    BY <1>0, <1>k, <1>1, <1>2, DecideKept DEF RunRequest
  <1>3. CASE DecideReject
    BY <1>0, <1>k, <1>1, <1>3, DecideKept DEF DecideReject, ToolAt, IInv, ToolKnows
  <1>4. CASE DecideApprove
    BY <1>0, <1>k, <1>1, <1>4, DecideKept DEF DecideApprove, ToolAt, IInv, ToolKnows
  <1>5. CASE LinkApproval
    BY <1>0, <1>5 DEF LinkApproval, link_approval_to_job, ApprovalRow, StatusesMove
  <1>6. CASE \E b \in Approvals : OutsideApprove(b) \/ OutsideReject(b) \/ TimePasses(b)
    BY <1>0, <1>1, <1>6, DecideKept DEF OutsideApprove, OutsideReject, TimePasses
  <1>7. CASE ExpireApprovals
    BY <1>0, <1>1, <1>7, ExpireKept DEF ExpireApprovals
  <1>9. ASSUME NEW s \in OtherServers, OtherApprove(s)
        PROVE  StatusesMove(approvals, approvals')
    <2>1. /\ approvals' = approve(approvals, others[s].approval)
          /\ others[s].approval \in Approvals
      BY <1>9 DEF OtherApprove, OtherAt, OthersInv, OthersKnow, OtherKnows
    <2> QED
      BY <1>0, <1>1, <2>1, DecideKept
  <1>10. ASSUME NEW s \in OtherServers, OtherLink(s)
         PROVE  StatusesMove(approvals, approvals')
    BY <1>0, <1>10 DEF OtherLink, link_approval_to_job, ApprovalRow, StatusesMove
  <1>8. \/ \E b \in Approvals : RunRequest(b)
        \/ DecideReject \/ DecideApprove \/ LinkApproval
        \/ \E b \in Approvals : OutsideApprove(b) \/ OutsideReject(b) \/ TimePasses(b)
        \/ ExpireApprovals
        \/ \E s \in OtherServers : OtherApprove(s) \/ OtherLink(s)
        \/ approvals' = approvals
    BY DEF Next, OtherStep, OtherRead, OtherCreateJob, OtherStops, ExecHangs, ToolCall, ToolStep, ExecStep, ProcessDies, Outside, BacktestStart, DecideRead,
           CancelRead, DecideCreateJob, Enqueue, CancelSignal, CancelRow, ExecStart,
           ExecSeesCancel, ExecComplete, ExecFail, ExecPickUp, ExecRegister, ExecResolve,
           ExecFile, ExecUnregister, ExecSettle, Crash, CrashInFail, CrashInCancel, Dies, vars
  <1> QED
    BY <1>1, <1>k, <1>2, <1>3, <1>4, <1>5, <1>6, <1>7, <1>8, <1>9, <1>10

\* What another server knows of the tables stays true.
LEMMA OtherKnowsStays ==
    ASSUME NEW r, NEW t, NEW u, NEW p, NEW q,
           OtherKnows(r, t, p), RowMoves(t, u), StatusesMove(p, q)
    PROVE  OtherKnows(r, u, q)
  BY DEF OtherKnows, RowMoves, StatusesMove, JobEdges, ApprovalEdges

\* Steps of another server: the tables move as this server's own steps move them, and a
\* job it creates is not one of this server's.
LEMMA OtherSteps ==
    ASSUME IInv, OthersInv, NEW s \in OtherServers,
           \/ \E a \in Approvals : OtherRead(s, a)
           \/ OtherApprove(s) \/ OtherCreateJob(s) \/ OtherLink(s) \/ OtherStops(s)
    PROVE  IInv' /\ OthersInv'
  <1> DEFINE R == [pc : {"idle", "approve", "create", "link"},
                   job : JobIds \cup {NoJob}, approval : Approvals \cup {NoApproval}]
  <1>0. /\ jobs \in [JobIds -> JobRow]
        /\ approvals \in [Approvals -> ApprovalRow]
        /\ others \in [OtherServers -> R] /\ others[s] \in R
        /\ foreign \in SUBSET JobIds
        /\ OtherKnows(others[s], jobs, approvals)
    BY Typed DEF IInv, OthersInv, OthersTypeOK, OthersKnow
  <1>1. RowMoves(jobs, jobs') /\ StatusesMove(approvals, approvals')
    <2>1. [Next]_vars
      BY DEF Next, OtherStep
    <2> QED
      BY <2>1, JobStep, ApprovalStep
  <1>2. UNCHANGED <<tool, chan, exec, cancels, faults>>
    BY DEF OtherRead, OtherApprove, OtherCreateJob, OtherLink, OtherStops
  <1>3. \E r \in R : others' = [others EXCEPT ![s] = r] /\ OtherKnows(r, jobs', approvals')
    <2>1. IdleTool \in R /\ OtherKnows(IdleTool, jobs', approvals')
      BY DEF IdleTool, OtherKnows
    <2>2. ASSUME NEW a \in Approvals, OtherRead(s, a)
          PROVE  \E r \in R : others' = [others EXCEPT ![s] = r] /\ OtherKnows(r, jobs', approvals')
      <3> DEFINE r == [IdleTool EXCEPT !.pc = "approve", !.approval = a]
      <3>1. /\ others' = [others EXCEPT ![s] = r]
            /\ approvals' = approvals /\ approvals[a].status = "pending"
        BY ONLY <2>2 DEF OtherRead
      <3>3. IdleTool \in R /\ IdleTool = [pc |-> "idle", job |-> NoJob, approval |-> NoApproval]
        BY <2>1 DEF IdleTool
      <3>4. r.pc = "approve" /\ r.approval = a /\ r \in R
        BY ONLY <3>3, a \in Approvals
      <3> HIDE DEF r
      <3>2. r \in R /\ OtherKnows(r, jobs', approvals')
        BY <3>1, <3>4 DEF OtherKnows
      <3> QED
        BY <3>1, <3>2
    <2>3. ASSUME OtherApprove(s)
          PROVE  \E r \in R : others' = [others EXCEPT ![s] = r] /\ OtherKnows(r, jobs', approvals')
      <3> DEFINE r == [others[s] EXCEPT !.pc = "create"]
      <3>1. /\ others[s].approval \in Approvals
            /\ approvals[others[s].approval].status # "none"
            /\ approvals' = approve(approvals, others[s].approval)
            /\ others' = [others EXCEPT ![s].pc = "create"]
        BY <1>0, <2>3 DEF OtherApprove, OtherAt, OtherKnows
      <3>2. approvals'[others[s].approval].status \notin {"none", "pending"}
        <4>1. approvals'[others[s].approval].status # "pending"
          BY <1>0, <3>1, DecideKept
        <4> QED
          BY <1>1, <3>1, <4>1 DEF StatusesMove, ApprovalEdges
      <3>3. /\ r \in R /\ r.pc = "create" /\ r.approval = others[s].approval
            /\ others' = [others EXCEPT ![s] = r]
        BY <1>0, <3>1
      <3> HIDE DEF r
      <3>4. OtherKnows(r, jobs', approvals')
        BY <3>1, <3>2, <3>3 DEF OtherKnows
      <3> QED
        BY <3>3, <3>4
    <2>4. ASSUME OtherCreateJob(s)
          PROVE  \E r \in R : others' = [others EXCEPT ![s] = r] /\ OtherKnows(r, jobs', approvals')
      <3>1. PICK j \in JobIds :
              /\ jobs' = create_job(jobs, j, others[s].approval)
              /\ others' = [others EXCEPT ![s].pc = "link", ![s].job = j]
        BY <2>4 DEF OtherCreateJob
      <3>2. /\ others[s].approval \in Approvals /\ approvals' = approvals
            /\ approvals[others[s].approval].status \notin {"none", "pending"}
        BY <1>0, <2>4 DEF OtherCreateJob, OtherAt, OtherKnows
      <3>3. jobs'[j].status = "queued" /\ jobs'[j].approval = others[s].approval
        BY <1>0, <3>1, <3>2, CreateRow
      <3> DEFINE r == [others[s] EXCEPT !.pc = "link", !.job = j]
      <3>4. /\ r \in R /\ r.pc = "link" /\ r.approval = others[s].approval /\ r.job = j
            /\ others' = [others EXCEPT ![s] = r]
        BY <1>0, <3>1
      <3> HIDE DEF r
      <3>5. OtherKnows(r, jobs', approvals')
        BY <3>2, <3>3, <3>4 DEF OtherKnows
      <3> QED
        BY <3>4, <3>5
    <2>5. ASSUME OtherLink(s) \/ OtherStops(s)
          PROVE  \E r \in R : others' = [others EXCEPT ![s] = r] /\ OtherKnows(r, jobs', approvals')
      BY <2>1, <2>5 DEF OtherLink, OtherStops
    <2> QED
      BY <2>2, <2>3, <2>4, <2>5
  <1> HIDE DEF R
  <1>4. OthersInv'
    <2>1. PICK r \in R : others' = [others EXCEPT ![s] = r] /\ OtherKnows(r, jobs', approvals')
      BY <1>3
    <2>2. foreign' \in SUBSET JobIds
      BY <1>0 DEF OtherRead, OtherApprove, OtherCreateJob, OtherLink, OtherStops
    <2>3. others' \in [OtherServers -> R]
      BY <1>0, <2>1
    <2>4. ASSUME NEW o \in OtherServers
          PROVE  OtherKnows(others'[o], jobs', approvals')
      <3>1. CASE o = s
        BY <1>0, <2>1, <3>1
      <3>2. CASE o # s
        <4>1. others'[o] = others[o]
          BY <1>0, <2>1, <3>2
        <4>2. OtherKnows(others[o], jobs, approvals)
          BY DEF OthersInv, OthersKnow
        <4> QED
          BY <1>1, <4>1, <4>2, OtherKnowsStays
      <3> QED
        BY <3>1, <3>2
    <2> QED
      BY <2>2, <2>3, <2>4 DEF OthersInv, OthersTypeOK, OthersKnow, R
  <1>5. IInv'
    <2>1. CASE ~OtherCreateJob(s) /\ ~OtherLink(s)
      <3>1. jobs' = jobs /\ foreign' = foreign
        BY <2>1 DEF OtherRead, OtherApprove, OtherStops
      <3>2. KeptApprovals(approvals, approvals')
        <4>1. CASE OtherApprove(s)
          <5>1. /\ others[s].approval \in Approvals
                /\ approvals' = approve(approvals, others[s].approval)
            BY <1>0, <4>1 DEF OtherApprove, OtherAt, OtherKnows
          <5> QED
            BY <1>0, <5>1, DecideKept
        <4>2. CASE ~OtherApprove(s)
          <5>1. approvals' = approvals
            BY <2>1, <4>2 DEF OtherRead, OtherStops
          <5> QED
            BY <1>0, <5>1, SameApprovalsKept
        <4> QED
          BY <4>1, <4>2
      <3>3. Kept(jobs, jobs')
        BY <1>0, <3>1, SameKept
      <3>4. ToolKnows' /\ ExecKnows'
        BY <1>2, <3>1, <3>2, <3>3, ThreadsKept
      <3>5. TokensAreLive'
        BY <1>2 DEF IInv, TokensAreLive
      <3> QED
        BY <1>2, <3>1, <3>2, <3>3, <3>4, <3>5, KeepingStep DEF IInv, ServerTypeOK
    <2>2. CASE OtherCreateJob(s)
      <3>1. PICK j \in JobIds :
              /\ jobs[j].status = "none"
              /\ jobs' = create_job(jobs, j, others[s].approval)
              /\ foreign' = foreign \cup {j}
              /\ approvals' = approvals
        BY <2>2 DEF OtherCreateJob, IsNextId
      <3> DEFINE a == others[s].approval
      <3>2. a \in Approvals /\ approvals[a].status \notin {"none", "pending"}
        BY <1>0, <2>2 DEF OtherCreateJob, OtherAt, OtherKnows
      <3> HIDE DEF a
      <3>3. /\ jobs' \in [JobIds -> JobRow]
            /\ \A k \in JobIds : k # j => jobs'[k] = jobs[k]
            /\ jobs'[j].status = "queued"
            /\ jobs'[j].approval = a
            /\ jobs'[j].finished = jobs[j].finished
        BY <1>0, <3>1, <3>2, CreateRow DEF a
      <3>4. jobs[j].approval = NoApproval /\ jobs[j].finished = 0
        BY <3>1 DEF IInv, AbsentRowsAreBlank
      <3>5. AbsentRowsAreBlank' /\ CancelledOnce'
        BY <3>3, <3>4 DEF IInv, AbsentRowsAreBlank, CancelledOnce
      <3>6. UndecidedHasNoJob'
        BY <3>1, <3>2, <3>3 DEF IInv, UndecidedHasNoJob
      <3>7. OneJobPerApproval'
        BY <3>1, <3>3 DEF IInv, OneJobPerApproval
      <3>8. LinkAgrees'
        <4> SUFFICES ASSUME NEW b \in Approvals, approvals[b].job # NoJob
                     PROVE  jobs'[approvals[b].job].approval = b
          BY <3>1 DEF LinkAgrees
        <4>1. approvals[b].job \in JobIds /\ jobs[approvals[b].job].approval = b
          BY <1>0 DEF IInv, LinkAgrees, ApprovalRow
        <4>2. approvals[b].job # j
          BY <4>1, <3>4, McpAssumption
        <4> QED
          BY <4>1, <4>2, <3>3
      <3>9. ExecKnows' /\ TokensAreLive'
        BY <1>2, <3>3, <3>1 DEF IInv, ExecKnows, TokensAreLive
      <3>10. ToolKnows'
        BY <1>2, <3>3, <3>1 DEF IInv, ToolKnows
      <3>11. ServerTypeOK'
        BY <1>2, <3>1, <3>3 DEF IInv, ServerTypeOK, JobRow
      <3> QED
        BY <3>5, <3>6, <3>7, <3>8, <3>9, <3>10, <3>11 DEF IInv
    <2>3. CASE OtherLink(s)
      <3> DEFINE a == others[s].approval
                 j == others[s].job
      <3>1. /\ a \in Approvals /\ j \in JobIds /\ jobs[j].approval = a
            /\ jobs' = jobs /\ foreign' = foreign
            /\ approvals' = link_approval_to_job(approvals, a, j)
        BY <1>0, <2>3 DEF OtherLink, OtherAt, OtherKnows
      <3> HIDE DEF a, j
      <3>2. /\ approvals' \in [Approvals -> ApprovalRow]
            /\ \A b \in Approvals :
                  /\ approvals'[b].status = approvals[b].status
                  /\ \/ approvals'[b].job = approvals[b].job
                     \/ b = a /\ approvals'[b].job = j
        BY <1>0, <3>1 DEF link_approval_to_job, ApprovalRow
      <3>3. ServerTypeOK'
        BY <1>2, <3>1, <3>2 DEF IInv, ServerTypeOK, ApprovalRow
      <3>4. ExecKnows' /\ TokensAreLive'
        BY <1>2, <3>1 DEF IInv, ExecKnows, TokensAreLive
      <3>5. ToolKnows'
        BY <1>2, <3>1, <3>2 DEF IInv, ToolKnows
      <3>6. AbsentRowsAreBlank' /\ OneJobPerApproval' /\ CancelledOnce'
        BY <3>1 DEF IInv, AbsentRowsAreBlank, OneJobPerApproval, CancelledOnce
      <3>7. UndecidedHasNoJob'
        BY <3>1, <3>2 DEF IInv, UndecidedHasNoJob
      <3>8. LinkAgrees'
        BY <3>1, <3>2 DEF IInv, LinkAgrees
      <3> QED
        BY <3>3, <3>4, <3>5, <3>6, <3>7, <3>8 DEF IInv
    <2> QED
      BY <2>1, <2>2, <2>3
  <1> QED
    BY <1>4, <1>5

\* The steps of this server, and those that decide approvals elsewhere.
OwnStep == ToolCall \/ ToolStep \/ ExecStep \/ ExecHangs \/ ProcessDies \/ Outside

LEMMA OwnSteps ==
    ASSUME IInv, OwnStep
    PROVE  IInv' /\ UNCHANGED otherVars
  <1>1. CASE ToolCall \/ ToolStep
    BY <1>1, ApprovalToolSteps, JobToolSteps
    DEF ToolCall, ToolStep, BacktestStart, RunRequest, DecideRead, CancelRead, DecideReject,
        DecideApprove, DecideCreateJob, Enqueue, LinkApproval, CancelSignal, CancelRow
  <1>2. CASE ExecStep \/ ExecHangs
    BY <1>2, RunningSteps, EndingSteps
    DEF ExecStep, ExecPickUp, ExecStart, ExecRegister, ExecResolve, ExecFile, ExecHangs,
        ExecSeesCancel, ExecUnregister, ExecSettle, ExecComplete, ExecFail
  <1>3. CASE ProcessDies
    BY <1>3, CrashSteps DEF ProcessDies, Crash, CrashInFail, CrashInCancel, Dies
  <1>4. CASE Outside
    BY <1>4, OutsideSteps DEF Outside, OutsideApprove, OutsideReject, TimePasses, ExpireApprovals
  <1> QED
    BY <1>1, <1>2, <1>3, <1>4 DEF OwnStep

LEMMA NextInv == IInv /\ OthersInv /\ [Next]_vars => IInv' /\ OthersInv'
  <1> SUFFICES ASSUME IInv, OthersInv, [Next]_vars PROVE IInv' /\ OthersInv'
    OBVIOUS
  <1>1. CASE OwnStep
    <2>1. IInv' /\ UNCHANGED otherVars
      BY <1>1, OwnSteps
    <2>2. RowMoves(jobs, jobs') /\ StatusesMove(approvals, approvals')
      BY JobStep, ApprovalStep
    <2>3. OthersKnow'
      BY <2>1, <2>2, OtherKnowsStays DEF OthersInv, OthersKnow, otherVars
    <2>4. OthersTypeOK'
      BY <2>1 DEF OthersInv, OthersTypeOK, otherVars
    <2> QED
      BY <2>1, <2>3, <2>4 DEF OthersInv
  <1>2. CASE OtherStep
    BY <1>2, OtherSteps DEF OtherStep
  <1>3. CASE UNCHANGED vars
    BY <1>3 DEF vars, IInv, ServerTypeOK, AbsentRowsAreBlank, ToolKnows, ExecKnows,
                UndecidedHasNoJob, OneJobPerApproval, LinkAgrees, CancelledOnce, TokensAreLive,
                OthersInv, OthersTypeOK, OthersKnow
  <1> QED
    BY <1>1, <1>2, <1>3 DEF Next, OwnStep

\* The inductive invariant of the server: its threads know what they established, so do
\* the decide tools of the other servers, and the tables agree with each other.
THEOREM McpInvariant == Spec => [](IInv /\ OthersInv)
  <1>1. Init => OthersInv
    BY DEF Init, OthersInv, OthersTypeOK, OthersKnow, OtherKnows, IdleTool, NoJob
  <1> QED
    BY <1>1, InitInv, NextInv, PTL DEF Spec

-----------------------------------------------------------------------------
(* The theorems *)

\* The ranges of the tables and of both threads, for any number of jobs.
THEOREM McpTypeOK == Spec => []TypeOK
  BY McpInvariant, PTL DEF IInv, OthersInv, TypeOK

\* However a decision is lost, repeated or cut short by a crash (casparian_approval_decide
\* run again on the same request), and whatever other servers on the same store decide
\* meanwhile, one approval never starts two runs of one server.
THEOREM McpOneJobPerApproval == Spec => []OneJobPerApproval
  BY McpInvariant, PTL DEF IInv

\* link_approval_to_job only ever names the job create_job gave that approval.
THEOREM McpLinkAgrees == Spec => []LinkAgrees
  BY McpInvariant, PTL DEF IInv

\* The tool's cancel_job and the executor's write at most one job_finished event.
THEOREM McpCancelledOnce == Spec => []CancelledOnce
  BY McpInvariant, PTL DEF IInv

\* execute_job leaves no token in the cancel map behind, on any of its paths.
THEOREM McpTokensAreLive == Spec => []TokensAreLive
  BY McpInvariant, PTL DEF IInv

\* The job table implements its life cycle: no late start, completion or failure of the
\* executor overwrites a cancellation, although update_job_status has no guard.
THEOREM McpJobsKeepLifecycle == Spec => JobsKeepLifecycle
  <1>1. Init => JobLife!Init
    BY DEF Init, JobLife!Init, AbsentJob
  <1>2. IInv /\ OthersInv /\ IInv' /\ [Next]_vars => [JobLife!Next]_([j \in JobIds |-> jobs[j].status])
    <2> SUFFICES ASSUME IInv, OthersInv, IInv', [Next]_vars PROVE JobLife!Next
      OBVIOUS
    <2>1. \A j \in JobIds : jobs'[j].status \in JobStatuses
      BY DEF IInv, ServerTypeOK
    <2>2. \A j \in JobIds : jobs'[j].status # jobs[j].status
                               => <<jobs[j].status, jobs'[j].status>> \in JobEdges
      BY JobStep DEF RowMoves
    <2> QED
      BY <2>1, <2>2 DEF JobLife!Next
  <1> QED
    BY <1>1, <1>2, McpInvariant, PTL DEF Spec, JobsKeepLifecycle, JobLife!Spec

\* The approval table implements its life cycle: whoever decides, and whenever the expiry
\* sweep runs, an approval is decided once and never reopened.
THEOREM McpApprovalsDecidedOnce == Spec => ApprovalsDecidedOnce
  <1>1. Init => ApprovalLife!Init
    BY DEF Init, ApprovalLife!Init, AbsentApproval
  <1>2. IInv /\ OthersInv /\ IInv' /\ [Next]_vars
           => [ApprovalLife!Next]_([a \in Approvals |-> approvals[a].status])
    <2> SUFFICES ASSUME IInv, OthersInv, IInv', [Next]_vars PROVE ApprovalLife!Next
      OBVIOUS
    <2>1. \A a \in Approvals : approvals'[a].status \in ApprovalStatuses
      BY DEF IInv, ServerTypeOK
    <2>2. \A a \in Approvals : approvals'[a].status # approvals[a].status
                                  => <<approvals[a].status, approvals'[a].status>> \in ApprovalEdges
      BY ApprovalStep DEF StatusesMove
    <2> QED
      BY <2>1, <2>2 DEF ApprovalLife!Next
  <1> QED
    BY <1>1, <1>2, McpInvariant, PTL DEF Spec, ApprovalsDecidedOnce, ApprovalLife!Spec
=============================================================================
