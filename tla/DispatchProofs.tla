---------------------------- MODULE DispatchProofs ----------------------------
(***************************************************************************)
(* Dispatch implements JobQueue, and what the tables say of an outcome is  *)
(* what the workers did: for every set of jobs, workers and tokens, every  *)
(* interleaving of reactor, database thread and workers, every loss, crash *)
(* and restart.  The second half follows what is said of a lease in the    *)
(* pipe from its worker and in the queue of the database thread.           *)
(***************************************************************************)
EXTENDS Dispatch, JobQueueProofs

-------------------------------------------------------------------------------
(* Pipes and queues: what the operations on a sequence keep. *)

\* Taking from the front and adding at the back of a FIFO.
LEMMA Fifo ==
    ASSUME NEW S, NEW s \in Seq(S)
    PROVE  /\ \A e \in S : Append(s, e) \in Seq(S)
           /\ s # << >> => Head(s) \in S /\ Tail(s) \in Seq(S)
           /\ << >> \in Seq(S)
           /\ \A i \in DOMAIN s : s[i] \in S
  OBVIOUS

\* What is left of a FIFO of which the oldest or the newest were lost.
LEMMA Remainder ==
    ASSUME NEW S, NEW s \in Seq(S), NEW n \in Nat
    PROVE  /\ SubSeq(s, 1 + n, Len(s)) \in Seq(S)
           /\ n <= Len(s) => SubSeq(s, 1, n) \in Seq(S)
  OBVIOUS

\* A sequence over a set is one over a larger set.
LEMMA Wider ==
    ASSUME NEW S, NEW T, NEW s \in Seq(S), \A x \in S : x \in T
    PROVE  s \in Seq(T)
  <1>1. Len(s) \in Nat /\ DOMAIN s = 1 .. Len(s) /\ \A i \in 1 .. Len(s) : s[i] \in S
    OBVIOUS
  <1>2. s = [i \in 1 .. Len(s) |-> s[i]]
    OBVIOUS
  <1> QED
    BY <1>1, <1>2

-------------------------------------------------------------------------------
(* Where a lease can be that may still be executed.  p is the plan the     *)
(* Sentinel holds for the lease's worker, s the messages on their way to   *)
(* it, k its state and C the tokens under which outputs were committed.    *)

Order(l) == [op |-> "DISPATCH", lease |-> l]

Sent(l, s) == \E i \in DOMAIN s : s[i] = Order(l)

Runs(l, k) == k.stage = "running" /\ k.lease = l

Pending(l, p, s, k) == p = l \/ Sent(l, s) \/ Runs(l, k)

\* Nothing was committed under the lease by a worker that is there, and
\* nothing will be.
Barren(l, p, s, k, C) == ~Pending(l, p, s, k) /\ (l.token \notin C \/ ~k.up)

\* A lease is in one place at a time, and uncommitted until it has run.
OnePlace(l, p, s, k, C) ==
    /\ p = l => ~Sent(l, s) /\ ~Runs(l, k)
    /\ Sent(l, s) => ~Runs(l, k)
    /\ \A i, n \in DOMAIN s : s[i] = Order(l) /\ s[n] = Order(l) => i = n
    /\ Pending(l, p, s, k) => l.token \notin C

\* From one state to the next, the lease did not come back to life.
Settling(l, p, s, k, C, p2, s2, k2, C2) ==
    /\ Pending(l, p2, s2, k2) => Pending(l, p, s, k)
    /\ l.token \in C2 => l.token \in C \/ Pending(l, p, s, k)
    /\ k2.up => k.up
    /\ C \subseteq C2

\* A lease that can no longer commit anything stays so while work only settles.
LEMMA BarrenKept ==
    ASSUME NEW l, NEW p, NEW s, NEW k, NEW C, NEW p2, NEW s2, NEW k2, NEW C2,
           Settling(l, p, s, k, C, p2, s2, k2, C2), Barren(l, p, s, k, C)
    PROVE  Barren(l, p2, s2, k2, C2)
  BY DEF Settling, Barren

Once(l, s) == \A i, n \in DOMAIN s : s[i] = Order(l) /\ s[n] = Order(l) => i = n

\* A message is added to the pipe.
LEMMA SentAppend ==
    ASSUME NEW l, NEW S, NEW s \in Seq(S), NEW e \in S
    PROVE  /\ Sent(l, Append(s, e)) <=> Sent(l, s) \/ e = Order(l)
           /\ Once(l, s) /\ (e # Order(l) \/ ~Sent(l, s)) => Once(l, Append(s, e))
  <1>1. /\ DOMAIN s = 1 .. Len(s) /\ Len(s) \in Nat
        /\ DOMAIN Append(s, e) = 1 .. Len(s) + 1
        /\ \A i \in 1 .. Len(s) : Append(s, e)[i] = s[i]
        /\ Append(s, e)[Len(s) + 1] = e
    OBVIOUS
  <1>2. \A i \in 1 .. Len(s) + 1 : i \in 1 .. Len(s) \/ i = Len(s) + 1
    BY <1>1
  <1>3. \A i \in 1 .. Len(s) : i \in 1 .. Len(s) + 1
    BY <1>1
  <1>4. Len(s) + 1 \in 1 .. Len(s) + 1
    BY <1>1
  <1> QED
    BY <1>1, <1>2, <1>3, <1>4 DEF Sent, Once

\* The oldest message is taken.
LEMMA SentTail ==
    ASSUME NEW l, NEW S, NEW s \in Seq(S), s # << >>
    PROVE  /\ Sent(l, Tail(s)) => Sent(l, s)
           /\ Head(s) = Order(l) => Sent(l, s)
           /\ Once(l, s) => Once(l, Tail(s))
           /\ Once(l, s) /\ Head(s) = Order(l) => ~Sent(l, Tail(s))
  <1>1. /\ DOMAIN s = 1 .. Len(s) /\ Len(s) \in Nat /\ Len(s) # 0
        /\ DOMAIN Tail(s) = 1 .. Len(s) - 1
        /\ \A i \in 1 .. Len(s) - 1 : Tail(s)[i] = s[i + 1]
        /\ Head(s) = s[1]
    OBVIOUS
  <1>2. \A i \in 1 .. Len(s) - 1 : i + 1 \in 1 .. Len(s) /\ i + 1 # 1
    BY <1>1
  <1>3. 1 \in 1 .. Len(s)
    BY <1>1
  <1>4. \A i, n \in 1 .. Len(s) - 1 : i + 1 = n + 1 => i = n
    BY <1>1
  <1> QED
    BY <1>1, <1>2, <1>3, <1>4 DEF Sent, Once

\* The newest messages are lost.
LEMMA SentPrefix ==
    ASSUME NEW l, NEW S, NEW s \in Seq(S), NEW n \in Nat, n <= Len(s)
    PROVE  /\ Sent(l, SubSeq(s, 1, n)) => Sent(l, s)
           /\ Once(l, s) => Once(l, SubSeq(s, 1, n))
  <1>1. /\ DOMAIN s = 1 .. Len(s) /\ Len(s) \in Nat
        /\ DOMAIN SubSeq(s, 1, n) = 1 .. n
        /\ \A i \in 1 .. n : SubSeq(s, 1, n)[i] = s[i] /\ i \in 1 .. Len(s)
    OBVIOUS
  <1> QED
    BY <1>1 DEF Sent, Once

\* The ways in which the places of a worker's leases change.  The pipe to
\* the worker stays as it is: a plan comes or goes, or the worker works.
LEMMA PipeKept ==
    ASSUME NEW l, NEW p, NEW s, NEW k, NEW C, NEW p2, NEW k2, NEW C2,
           OnePlace(l, p, s, k, C),
           p2 = l => p = l,
           Runs(l, k2) => Runs(l, k),
           l.token \in C2 => l.token \in C \/ (Runs(l, k) /\ ~Runs(l, k2)),
           k2.up => k.up,
           C \subseteq C2
    PROVE  OnePlace(l, p2, s, k2, C2) /\ Settling(l, p, s, k, C, p2, s, k2, C2)
  BY DEF OnePlace, Settling, Pending

\* The plan is sent.
LEMMA PlanSent ==
    ASSUME NEW l, NEW p, NEW S, NEW s \in Seq(S), NEW k, NEW C,
           OnePlace(l, p, s, k, C), l # NoLease, Order(p) \in S
    PROVE  /\ OnePlace(l, NoLease, Append(s, Order(p)), k, C)
           /\ Settling(l, p, s, k, C, NoLease, Append(s, Order(p)), k, C)
  <1>1. Order(p) = Order(l) <=> p = l
    BY DEF Order
  <1>2. Sent(l, Append(s, Order(p))) <=> Sent(l, s) \/ p = l
    BY <1>1, SentAppend
  <1>3. Once(l, Append(s, Order(p)))
    BY <1>1, SentAppend DEF OnePlace, Once
  <1> QED
    BY <1>2, <1>3 DEF OnePlace, Settling, Pending, Once

\* An ABORT is sent.
LEMMA OtherSent ==
    ASSUME NEW l, NEW p, NEW S, NEW s \in Seq(S), NEW k, NEW C, NEW e \in S,
           OnePlace(l, p, s, k, C), e # Order(l)
    PROVE  /\ OnePlace(l, p, Append(s, e), k, C)
           /\ Settling(l, p, s, k, C, p, Append(s, e), k, C)
  <1>1. Sent(l, Append(s, e)) <=> Sent(l, s)
    BY SentAppend
  <1>2. Once(l, Append(s, e))
    BY SentAppend DEF OnePlace, Once
  <1> QED
    BY <1>1, <1>2 DEF OnePlace, Settling, Pending, Once

\* The worker takes a message and starts no job for it.
LEMMA MessageTaken ==
    ASSUME NEW l, NEW p, NEW S, NEW s \in Seq(S), s # << >>, NEW k, NEW k2, NEW C,
           OnePlace(l, p, s, k, C), Runs(l, k2) <=> Runs(l, k), k2.up => k.up
    PROVE  /\ OnePlace(l, p, Tail(s), k2, C)
           /\ Settling(l, p, s, k, C, p, Tail(s), k2, C)
  <1>1. Sent(l, Tail(s)) => Sent(l, s)
    BY SentTail
  <1>2. Once(l, Tail(s))
    BY SentTail DEF OnePlace, Once
  <1> QED
    BY <1>1, <1>2 DEF OnePlace, Settling, Pending, Once

\* The worker takes a DISPATCH and starts the job.
LEMMA JobStarted ==
    ASSUME NEW l, NEW p, NEW S, NEW s \in Seq(S), s # << >>, NEW k, NEW k2, NEW C, NEW m,
           OnePlace(l, p, s, k, C), Head(s) = Order(m), ~Runs(l, k),
           Runs(l, k2) <=> l = m, k2.up => k.up
    PROVE  /\ OnePlace(l, p, Tail(s), k2, C)
           /\ Settling(l, p, s, k, C, p, Tail(s), k2, C)
  <1>1. Sent(l, Tail(s)) => Sent(l, s)
    BY SentTail
  <1>2. Once(l, Tail(s))
    BY SentTail DEF OnePlace, Once
  <1>3. l = m => Sent(l, s) /\ ~Sent(l, Tail(s))
    BY SentTail DEF OnePlace, Once
  <1> QED
    BY <1>1, <1>2, <1>3 DEF OnePlace, Settling, Pending, Once

\* The worker is gone, and with it what was on its way to it.
LEMMA PipeGone ==
    ASSUME NEW l, NEW p, NEW s, NEW k, NEW k2, NEW C, NEW C2,
           OnePlace(l, p, s, k, C), ~Runs(l, k2), ~k2.up,
           l.token \in C2 => l.token \in C \/ Runs(l, k),
           C \subseteq C2
    PROVE  /\ OnePlace(l, p, << >>, k2, C2)
           /\ Settling(l, p, s, k, C, p, << >>, k2, C2)
  <1>1. ~Sent(l, << >>) /\ Once(l, << >>)
    BY DEF Sent, Once
  <1> QED
    BY <1>1 DEF OnePlace, Settling, Pending, Once

\* The Sentinel is gone, and with it the plan and what it had not delivered.
LEMMA PlanGone ==
    ASSUME NEW l, NEW p, NEW S, NEW s \in Seq(S), NEW n \in Nat, n <= Len(s), NEW k, NEW C,
           OnePlace(l, p, s, k, C), l # NoLease
    PROVE  /\ OnePlace(l, NoLease, SubSeq(s, 1, n), k, C)
           /\ Settling(l, p, s, k, C, NoLease, SubSeq(s, 1, n), k, C)
  <1>1. Sent(l, SubSeq(s, 1, n)) => Sent(l, s)
    BY SentPrefix
  <1>2. Once(l, SubSeq(s, 1, n))
    BY SentPrefix DEF OnePlace, Once
  <1> QED
    BY <1>1, <1>2 DEF OnePlace, Settling, Pending, Once

\* A job that ended, or was given up with its worker, is barren unless its
\* outputs were committed.
LEMMA EndedIsBarren ==
    ASSUME NEW l, NEW p, NEW s, NEW k, NEW s2, NEW k2, NEW C, NEW C2,
           OnePlace(l, p, s, k, C), Runs(l, k), ~Runs(l, k2),
           Sent(l, s2) => Sent(l, s), C2 = C \/ ~k2.up
    PROVE  Barren(l, p, s2, k2, C2)
  BY DEF OnePlace, Pending, Barren

-------------------------------------------------------------------------------
(* What the tasks make of the rows: only a success receipt completes one   *)
(* and records a materialization, only an abort receipt or a cancellation  *)
(* aborts one.                                                             *)

Final == {"COMPLETED", "ABORTED"}

\* No row became final, and nothing was materialized.
Plain(d, e) ==
    /\ e \in Tables
    /\ e.mats = d.mats
    /\ \A j \in Job : e.jobs[j] = d.jobs[j] \/ e.jobs[j].status \notin Final

\* Two statements that give no row a final status, one after the other.
LEMMA PlainChain ==
    ASSUME NEW d, NEW e, NEW f, Plain(d, e), Plain(e, f)
    PROVE  Plain(d, f)
  BY DEF Plain

\* A statement that does nothing gives no row a final status.
LEMMA PlainSelf ==
    ASSUME NEW d \in Tables
    PROVE  Plain(d, d)
  BY DEF Plain

\* One row is given a status that is not final.
LEMMA PlainRow ==
    ASSUME NEW d \in Tables, NEW j \in Job, NEW r \in ProcessingJob, r.status \notin Final
    PROVE  Plain(d, WithRow(d, j, r))
  <1>1. WithRow(d, j, r) \in Tables /\ WithRow(d, j, r).jobs = [d.jobs EXCEPT ![j] = r]
    BY WithRowFacts
  <1>2. WithRow(d, j, r).mats = d.mats
    BY DEF WithRow, Tables
  <1> QED
    BY <1>1, <1>2, RowTyped DEF Plain

\* Statements on the other tables.
LEMMA PlainSide ==
    ASSUME NEW d \in Tables, NEW j \in Job
    PROVE  /\ Plain(d, update_pipeline_run_status_for_job(d, j))
           /\ Plain(d, insert_job_artifacts(d, j))
           /\ Plain(d, insert_dead_letter(d, j))
           /\ \A r \in Run \cup {NoRun} : Plain(d, set_pipeline_run_running(d, r))
           /\ \A p \in Parser : /\ Plain(d, record_parser_success(d, p))
                                /\ Plain(d, record_parser_failure(d, p))
                                /\ Plain(d, check_circuit_breaker_db(d, p))
  <1>0. \A e : SameRows(d, e) /\ e.mats = d.mats => Plain(d, e)
    BY DEF SameRows, Plain
  <1>1. /\ update_pipeline_run_status_for_job(d, j).mats = d.mats
        /\ insert_job_artifacts(d, j).mats = d.mats
        /\ insert_dead_letter(d, j).mats = d.mats
    BY DEF Tables, update_pipeline_run_status_for_job, update_pipeline_run_status,
           insert_job_artifacts, insert_dead_letter
  <1>2. \A r \in Run \cup {NoRun} : set_pipeline_run_running(d, r).mats = d.mats
    BY DEF Tables, set_pipeline_run_running
  <1>3. \A p, f, b : WithHealth(d, p, f, b).mats = d.mats
    BY DEF Tables, WithHealth
  <1>4. \A p \in Parser : /\ record_parser_success(d, p).mats = d.mats
                          /\ record_parser_failure(d, p).mats = d.mats
                          /\ check_circuit_breaker_db(d, p).mats = d.mats
    BY <1>3 DEF record_parser_success, record_parser_failure, check_circuit_breaker_db
  <1> QED
    BY <1>0, <1>1, <1>2, <1>4, RunStatement, JobStatements, RunRunningStatement,
       HealthStatements

\* Statements on one row that do not make it final.
LEMMA PlainStatements ==
    ASSUME NEW d \in Tables, NEW j \in Job, NEW t
    PROVE  /\ \A s \in {"FAILED", "RUNNING", "QUEUED"} : Plain(d, SetStatus(d, j, s))
           /\ \A b \in BOOLEAN : Plain(d, WithRow(d, j, Requeued(d.jobs[j], b)))
           /\ Plain(d, fail_job_if_token_matches(d, j, t))
           /\ Plain(d, fail_job_if_token_matches_dispatching(d, j, t))
           /\ Plain(d, defer_job(d, j))
           /\ \A b \in BOOLEAN : Plain(d, defer_job_if_token_matches(d, j, t, b))
           /\ \A n \in Nat : Plain(d, schedule_retry(d, j, n))
           /\ \A w \in Worker : Plain(d, ack_dispatch(d, j, t, w))
  <1> DEFINE row == d.jobs[j]
  <1>0. row \in ProcessingJob
    BY RowTyped
  <1>1. \A s \in {"FAILED", "RUNNING", "QUEUED"} : Plain(d, SetStatus(d, j, s))
    <2> TAKE s \in {"FAILED", "RUNNING", "QUEUED"}
    <2>1. [row EXCEPT !.status = s] \in ProcessingJob /\ [row EXCEPT !.status = s].status = s
      BY <1>0 DEF ProcessingJob, ProcessingStatus
    <2> QED
      BY <2>1, PlainRow DEF SetStatus, Final
  <1>2. \A b \in BOOLEAN : Plain(d, WithRow(d, j, Requeued(row, b)))
    <2> TAKE b \in BOOLEAN
    <2>1. Requeued(row, b) \in ProcessingJob
      BY <1>0, RequeuedTyped
    <2>2. Requeued(row, b).status = "QUEUED"
      BY <1>0 DEF Requeued, ProcessingJob
    <2> QED
      BY <2>1, <2>2, PlainRow DEF Final
  <1>3. \A n \in Nat : Plain(d, schedule_retry(d, j, n))
    <2> TAKE n \in Nat
    <2> DEFINE r == [Requeued(row, FALSE) EXCEPT !.retry = n]
    <2>1. Requeued(row, FALSE) \in ProcessingJob
      BY <1>0, RequeuedTyped
    <2>2. Requeued(row, FALSE).status = "QUEUED"
      BY <1>0 DEF Requeued, ProcessingJob
    <2>3. r \in ProcessingJob /\ r.status = "QUEUED"
      BY <2>1, <2>2 DEF ProcessingJob
    <2> QED
      BY <2>3, PlainRow DEF schedule_retry, Final
  <1>4. \A w \in Worker : Plain(d, ack_dispatch(d, j, t, w))
    <2> TAKE w \in Worker
    <2> DEFINE r == [row EXCEPT !.status = "RUNNING", !.owner = w]
    <2>1. r \in ProcessingJob /\ r.status = "RUNNING"
      BY <1>0 DEF ProcessingJob, ProcessingStatus
    <2>2. Plain(d, WithRow(d, j, r))
      BY <2>1, PlainRow DEF Final
    <2> QED
      BY <2>2, PlainSelf DEF ack_dispatch
  <1>5. "FAILED" \in {"FAILED", "RUNNING", "QUEUED"} /\ TRUE \in BOOLEAN
    OBVIOUS
  <1> QED
    BY <1>1, <1>2, <1>3, <1>4, <1>5, PlainSelf, Zenon
    DEF fail_job_if_token_matches, fail_job_if_token_matches_dispatching, defer_job,
        defer_job_if_token_matches

\* A failure receipt, cut anywhere, makes no row final.
LEMMA PlainFailure ==
    ASSUME NEW d \in Tables, NEW j \in Job, NEW t, NEW transient \in BOOLEAN,
           NEW e \in Torn(d, FailureSteps(d, j, t, transient))
    PROVE  Plain(d, e)
  <1> DEFINE p == d.jobs[j].plugin
             n == record_parser_failure(d, p)
             b == check_circuit_breaker_db(n, p)
             f == fail_job_if_token_matches(b, j, t)
             r == schedule_retry(f, j, d.jobs[j].retry + 1)
             i == insert_dead_letter(f, j)
             q == move_to_dead_letter(f, j)
             u == update_pipeline_run_status_for_job(r, j)
             v == update_pipeline_run_status_for_job(q, j)
  <1>0. e \in {d, n, b, f, r, i, q, u, v}
    <2>1. FailureSteps(d, j, t, transient) \in {<< n, b >>, << n, b, f, r, u >>,
                                                << n, b, f, i, q, v >>}
      BY DEF FailureSteps
    <2> HIDE DEF n, b, f, r, i, q, u, v
    <2> QED
      BY <2>1 DEF Torn
  <1>1. p \in Parser /\ d.jobs[j].retry + 1 \in Nat
    BY RowTyped
  <1>2. Plain(d, n)
    BY <1>1, PlainSide
  <1>3. n \in Tables
    BY <1>2 DEF Plain
  <1>4. Plain(n, b)
    BY <1>1, <1>3, PlainSide
  <1> HIDE DEF n
  <1>5. b \in Tables
    BY <1>4 DEF Plain
  <1>6. Plain(b, f)
    BY <1>5, PlainStatements
  <1> HIDE DEF b
  <1>7. f \in Tables
    BY <1>6 DEF Plain
  <1>8. Plain(f, r) /\ Plain(f, i)
    BY <1>1, <1>7, PlainStatements, PlainSide
  <1> HIDE DEF f
  <1>9. r \in Tables /\ i \in Tables
    BY <1>8 DEF Plain
  <1>10. q = SetStatus(i, j, "FAILED")
    BY DEF move_to_dead_letter
  <1> HIDE DEF r, i, q
  <1>11. Plain(i, q)
    BY <1>9, <1>10, PlainStatements
  <1>12. q \in Tables
    BY <1>11 DEF Plain
  <1>13. Plain(r, u) /\ Plain(q, v)
    BY <1>9, <1>12, PlainSide
  <1> HIDE DEF u, v
  <1>14. Plain(d, d) /\ Plain(d, b) /\ Plain(d, f)
    BY <1>2, <1>4, <1>6, PlainChain, PlainSelf
  <1>15. Plain(d, r) /\ Plain(d, i)
    BY <1>8, <1>14, PlainChain
  <1>16. Plain(d, q) /\ Plain(d, u)
    BY <1>11, <1>13, <1>15, PlainChain
  <1>17. Plain(d, v)
    BY <1>13, <1>16, PlainChain
  <1> QED
    BY <1>0, <1>2, <1>14, <1>15, <1>16, <1>17

\* So does the receipt of a worker that was at capacity.
LEMMA PlainRejected ==
    ASSUME NEW d \in Tables, NEW j \in Job, NEW t,
           NEW e \in Torn(d, RejectedSteps(d, j, t))
    PROVE  Plain(d, e)
  <1> DEFINE c == defer_job_if_token_matches(d, j, t, TRUE)
             u == update_pipeline_run_status_for_job(c, j)
  <1>0. e \in {d, c, u}
    <2>1. RejectedSteps(d, j, t) \in {<< c >>, << c, u >>}
      BY DEF RejectedSteps
    <2> HIDE DEF c, u
    <2> QED
      BY <2>1 DEF Torn
  <1>1. Plain(d, c)
    BY PlainStatements
  <1> HIDE DEF c
  <1>2. Plain(c, u)
    BY <1>1, PlainSide DEF Plain
  <1> QED
    BY <1>0, <1>1, <1>2, PlainChain, PlainSelf

\* The row of the job that ran under t became final.
Ended(d, e, j, t, status) ==
    /\ e \in Tables
    /\ TokenMatches(d, j, t, "RUNNING")
    /\ e.jobs = [d.jobs EXCEPT ![j] = [d.jobs[j] EXCEPT !.status = status]]

\* What follows the end of a row and leaves the rows alone does not change it.
LEMMA EndedFrame ==
    ASSUME NEW d, NEW e, NEW f, NEW j, NEW t, NEW status,
           Ended(d, e, j, t, status), SameRows(e, f)
    PROVE  Ended(d, f, j, t, status)
  BY DEF Ended, SameRows

\* A success receipt, cut anywhere: the row is completed if it still runs
\* under the receipt's lease, and only then the job is materialized.
LEMMA SuccessEnds ==
    ASSUME NEW d \in Tables, NEW j \in Job, NEW t,
           NEW e \in Torn(d, SuccessSteps(d, j, t))
    PROVE  \/ Plain(d, e)
           \/ Ended(d, e, j, t, "COMPLETED") /\ e.mats \subseteq d.mats \cup {j}
  <1> DEFINE a == insert_job_artifacts(d, j)
             c == complete_job_if_token_matches(a, j, t)
             m == record_materializations_for_job(c, j)
             h == record_parser_success(m, d.jobs[j].plugin)
             u == update_pipeline_run_status_for_job(h, j)
  <1>1. Plain(d, a) /\ SameRows(d, a) /\ Plain(d, d)
    BY PlainSide, JobStatements, PlainSelf
  <1>2. CASE TokenMatches(d, j, t, "RUNNING")
    <2>0. a \in Tables /\ a.jobs = d.jobs /\ a.mats = d.mats
      BY <1>1 DEF Plain, SameRows
    <2>1. c = SetStatus(a, j, "COMPLETED")
      BY <1>2, <2>0 DEF complete_job_if_token_matches, TokenMatches
    <2>2. SuccessSteps(d, j, t) = << a, c, m, h, u >>
      BY <1>2 DEF SuccessSteps
    <2> HIDE DEF a
    <2>3. Ended(d, c, j, t, "COMPLETED")
      <3>1. "COMPLETED" \in ProcessingStatus
        BY DEF ProcessingStatus
      <3>2. /\ c \in Tables
            /\ c.jobs = [a.jobs EXCEPT ![j] = [a.jobs[j] EXCEPT !.status = "COMPLETED"]]
        BY <2>0, <2>1, <3>1, SetStatusFacts
      <3> QED
        BY <1>2, <2>0, <3>2 DEF Ended
    <2>4. c.mats = d.mats
      BY <2>0, <2>1 DEF SetStatus, WithRow, Tables
    <2> HIDE DEF c
    <2>5. c \in Tables /\ SameRows(c, m)
      BY <2>3, JobStatements DEF Ended
    <2>6. m \in Tables /\ m.mats = d.mats \cup {j}
      BY <2>4, <2>5 DEF record_materializations_for_job, Tables, SameRows
    <2> HIDE DEF m
    <2>7. SameRows(m, h) /\ Plain(m, h)
      BY <2>6, RowTyped, HealthStatements, PlainSide
    <2> HIDE DEF h
    <2>8. h \in Tables
      BY <2>7 DEF Plain
    <2>9. SameRows(h, u) /\ Plain(h, u)
      BY <2>8, RunStatement, PlainSide
    <2> HIDE DEF u
    <2>10. /\ Ended(d, m, j, t, "COMPLETED") /\ Ended(d, h, j, t, "COMPLETED")
           /\ Ended(d, u, j, t, "COMPLETED")
      BY <2>3, <2>5, <2>7, <2>9, EndedFrame
    <2>11. m.mats = d.mats \cup {j} /\ h.mats = d.mats \cup {j} /\ u.mats = d.mats \cup {j}
      BY <2>6, <2>7, <2>9 DEF Plain
    <2>12. e \in {d, a, c, m, h, u}
      BY <2>2 DEF Torn
    <2> QED
      BY <1>1, <2>3, <2>4, <2>10, <2>11, <2>12
  <1>3. CASE ~TokenMatches(d, j, t, "RUNNING")
    <2>1. SuccessSteps(d, j, t) = << a >>
      BY <1>3 DEF SuccessSteps
    <2> HIDE DEF a
    <2>2. e \in {d, a}
      BY <2>1 DEF Torn
    <2> QED
      BY <1>1, <2>2
  <1> QED
    BY <1>2, <1>3

\* An abort receipt, cut anywhere.
LEMMA AbortEnds ==
    ASSUME NEW d \in Tables, NEW j \in Job, NEW t,
           NEW e \in Torn(d, AbortedSteps(d, j, t))
    PROVE  Plain(d, e) \/ (Ended(d, e, j, t, "ABORTED") /\ e.mats = d.mats)
  <1> DEFINE c == abort_job_if_token_matches(d, j, t)
             u == update_pipeline_run_status_for_job(c, j)
  <1>1. CASE TokenMatches(d, j, t, "RUNNING")
    <2>1. c = SetStatus(d, j, "ABORTED") /\ AbortedSteps(d, j, t) = << c, u >>
      BY <1>1 DEF abort_job_if_token_matches, AbortedSteps
    <2>2. Ended(d, c, j, t, "ABORTED")
      <3>1. "ABORTED" \in ProcessingStatus
        BY DEF ProcessingStatus
      <3> QED
        BY <1>1, <2>1, <3>1, SetStatusFacts DEF Ended
    <2>3. c.mats = d.mats
      BY <2>1 DEF SetStatus, WithRow, Tables
    <2> HIDE DEF c
    <2>4. SameRows(c, u) /\ Plain(c, u)
      BY <2>2, RunStatement, PlainSide DEF Ended
    <2> HIDE DEF u
    <2>5. Ended(d, u, j, t, "ABORTED") /\ u.mats = d.mats
      BY <2>2, <2>3, <2>4, EndedFrame DEF Plain
    <2>6. e \in {d, c, u}
      BY <2>1 DEF Torn
    <2> QED
      BY <2>2, <2>3, <2>5, <2>6, PlainSelf
  <1>2. CASE ~TokenMatches(d, j, t, "RUNNING")
    <2>1. AbortedSteps(d, j, t) = << d >>
      BY <1>2 DEF AbortedSteps, abort_job_if_token_matches
    <2>2. e = d
      BY <2>1 DEF Torn
    <2> QED
      BY <2>2, PlainSelf
  <1> QED
    BY <1>1, <1>2

\* process_conclude_db, whatever the receipt and wherever it is cut.
LEMMA ConcludeEnds ==
    ASSUME NEW d \in Tables, NEW j \in Job, NEW t, NEW status \in ReceiptStatus,
           NEW e \in Torn(d, process_conclude_db(d, j, t, status))
    PROVE  \/ Plain(d, e)
           \/ /\ status = "success"
              /\ Ended(d, e, j, t, "COMPLETED") /\ e.mats \subseteq d.mats \cup {j}
           \/ /\ status = "aborted"
              /\ Ended(d, e, j, t, "ABORTED") /\ e.mats = d.mats
  BY SuccessEnds, PlainFailure, PlainRejected, AbortEnds
  DEF process_conclude_db, ReceiptStatus

\* prepare_dispatch_plan, cut anywhere: a plan, a failure or a deferral.
LEMMA PlainPrepare ==
    ASSUME NEW d \in Tables, NEW j \in Job, NEW t \in Token, NEW w \in Worker
    PROVE  /\ Plain(d, lease_jobs_for_dispatch(d, j))
           /\ Plain(d, Leased(d, j, t, w))
           /\ \A k \in 3 .. 4 : /\ Plain(d, FailDispatchSteps(d, j, t, w)[k])
                                /\ Plain(d, DeferDispatchSteps(d, j, t, w)[k])
  <1> DEFINE c == lease_jobs_for_dispatch(d, j)
             l == Leased(d, j, t, w)
             f == fail_job_if_token_matches_dispatching(l, j, t)
             r == defer_job_if_token_matches(l, j, t, FALSE)
             u == update_pipeline_run_status_for_job(f, j)
             v == update_pipeline_run_status_for_job(r, j)
  <1>1. Plain(d, c)
    <2> DEFINE row == [d.jobs[j] EXCEPT !.status = "DISPATCHING", !.token = NoToken,
                                        !.owner = NoWorker]
    <2>1. row \in ProcessingJob /\ row.status = "DISPATCHING"
      BY RowTyped DEF ProcessingJob, ProcessingStatus
    <2> QED
      BY <2>1, PlainRow DEF lease_jobs_for_dispatch, Final
  <1>2. c \in Tables
    BY <1>1 DEF Plain
  <1>3. l = c \/ (c.jobs[j].status = "DISPATCHING"
                    /\ l = WithRow(c, j, [c.jobs[j] EXCEPT !.token = t, !.owner = w]))
    BY DEF Leased, set_dispatch_lease
  <1>4. FailDispatchSteps(d, j, t, w) = << c, l, f, u >>
    BY DEF FailDispatchSteps
  <1>5. DeferDispatchSteps(d, j, t, w) = << c, l, r, v >>
    BY DEF DeferDispatchSteps
  <1> HIDE DEF c, l
  <1>6. Plain(c, l)
    <2> DEFINE row == [c.jobs[j] EXCEPT !.token = t, !.owner = w]
    <2>1. CASE c.jobs[j].status = "DISPATCHING"
      <3>1. row \in ProcessingJob /\ row.status = "DISPATCHING"
        BY <1>2, <2>1, RowTyped DEF ProcessingJob
      <3>2. Plain(c, WithRow(c, j, row))
        BY <1>2, <3>1, PlainRow DEF Final
      <3> QED
        BY <1>2, <1>3, <3>2, PlainSelf
    <2>2. CASE c.jobs[j].status # "DISPATCHING"
      BY <1>2, <1>3, <2>2, PlainSelf
    <2> QED
      BY <2>1, <2>2
  <1>7. l \in Tables
    BY <1>6 DEF Plain
  <1>8. Plain(l, f) /\ Plain(l, r)
    BY <1>7, PlainStatements
  <1> HIDE DEF f, r
  <1>9. f \in Tables /\ r \in Tables
    BY <1>8 DEF Plain
  <1>10. Plain(f, u) /\ Plain(r, v)
    BY <1>9, PlainSide
  <1> HIDE DEF u, v
  <1>11. Plain(d, l)
    BY <1>1, <1>6, PlainChain
  <1>12. Plain(d, f) /\ Plain(d, r)
    BY <1>8, <1>11, PlainChain
  <1>13. Plain(d, u) /\ Plain(d, v)
    BY <1>10, <1>12, PlainChain
  <1>14. \A k \in 3 .. 4 : << c, l, f, u >>[k] \in {f, u} /\ << c, l, r, v >>[k] \in {r, v}
    OBVIOUS
  <1> QED
    BY <1>1, <1>4, <1>5, <1>11, <1>12, <1>13, <1>14 DEF c, l

\* Sweeps and reconciliations requeue rows.
LEMMA PlainRequeues ==
    ASSUME NEW d \in Tables, NEW S
    PROVE  Plain(d, DeferAll(d, S)) /\ Plain(d, requeue_expired_dispatches(d, S))
  <1>1. ASSUME NEW X, NEW b \in [Job -> BOOLEAN],
               NEW e, e = [d EXCEPT !.jobs = [j \in Job |->
                             IF j \in X THEN Requeued(d.jobs[j], b[j]) ELSE d.jobs[j]]]
        PROVE  Plain(d, e)
    <2> DEFINE f == [j \in Job |-> IF j \in X THEN Requeued(d.jobs[j], b[j]) ELSE d.jobs[j]]
    <2>1. [d EXCEPT !.jobs = f] \in Tables /\ [d EXCEPT !.jobs = f].jobs = f
      BY DeferAllFacts
    <2>2. \A j \in Job : f[j] = d.jobs[j] \/ f[j].status \notin Final
      <3> TAKE j \in Job
      <3>1. Requeued(d.jobs[j], b[j]).status = "QUEUED"
        BY RowTyped DEF Requeued, ProcessingJob
      <3> QED
        BY <3>1 DEF Final
    <2>3. e = [d EXCEPT !.jobs = f]
      BY <1>1
    <2> HIDE DEF f
    <2>4. [d EXCEPT !.jobs = f].mats = d.mats
      BY DEF Tables
    <2> QED
      BY <2>1, <2>2, <2>3, <2>4 DEF Plain
  <1>2. Plain(d, DeferAll(d, S))
    <2> DEFINE b == [j \in Job |-> TRUE]
    <2>1. b \in [Job -> BOOLEAN]
      OBVIOUS
    <2>2. DeferAll(d, S) = [d EXCEPT !.jobs = [j \in Job |->
                             IF j \in S THEN Requeued(d.jobs[j], b[j]) ELSE d.jobs[j]]]
      BY DEF DeferAll
    <2> HIDE DEF b
    <2> QED
      BY <1>1, <2>1, <2>2
  <1>3. Plain(d, requeue_expired_dispatches(d, S))
    <2> DEFINE b == [j \in Job |-> d.jobs[j].due]
               X == S \cap Dispatching(d)
    <2>1. b \in [Job -> BOOLEAN]
      BY DEF Tables, ProcessingJob
    <2>2. requeue_expired_dispatches(d, S) = [d EXCEPT !.jobs = [j \in Job |->
                             IF j \in X THEN Requeued(d.jobs[j], b[j]) ELSE d.jobs[j]]]
      BY DEF requeue_expired_dispatches
    <2> HIDE DEF b, X
    <2> QED
      BY <1>1, <2>1, <2>2
  <1> QED
    BY <1>2, <1>3

\* Clients of the queue.
LEMMA PlainClients ==
    ASSUME NEW d \in Tables, NEW j \in Job
    PROVE  /\ \A p \in Parser, r \in Run \cup {NoRun} : Plain(d, enqueue_job(d, j, p, r))
           /\ d.jobs[j].status = "QUEUED" =>
                 Plain(d, WithRow(d, j, [d.jobs[j] EXCEPT !.due = TRUE]))
  <1>1. \A p \in Parser, r \in Run \cup {NoRun} : Plain(d, enqueue_job(d, j, p, r))
    <2> TAKE p \in Parser, r \in Run \cup {NoRun}
    <2> DEFINE row == [status |-> "QUEUED", token |-> NoToken, owner |-> NoWorker,
                       retry |-> 0, due |-> TRUE, plugin |-> p, run |-> r]
    <2>1. row \in ProcessingJob /\ row.status = "QUEUED"
      BY DEF ProcessingJob, ProcessingStatus
    <2> QED
      BY <2>1, PlainRow DEF enqueue_job, Final
  <1>2. ASSUME d.jobs[j].status = "QUEUED"
        PROVE  Plain(d, WithRow(d, j, [d.jobs[j] EXCEPT !.due = TRUE]))
    <2> DEFINE row == [d.jobs[j] EXCEPT !.due = TRUE]
    <2>1. row \in ProcessingJob /\ row.status = "QUEUED"
      BY <1>2, RowTyped DEF ProcessingJob
    <2> QED
      BY <2>1, PlainRow DEF Final
  <1> QED
    BY <1>1, <1>2

\* A cancellation aborts the row of a job nobody works on yet.
Stopped(d, e, j) ==
    /\ e \in Tables
    /\ d.jobs[j].status \in Cancellable
    /\ e.jobs = [d.jobs EXCEPT ![j] = [d.jobs[j] EXCEPT !.status = "ABORTED"]]
    /\ e.mats = d.mats

\* cancel_job (queue.rs) aborts a row that can be cancelled, or does nothing.
LEMMA CancelStops ==
    ASSUME NEW d \in Tables, NEW j \in Job
    PROVE  Plain(d, cancel_job(d, j)) \/ Stopped(d, cancel_job(d, j), j)
  <1>1. "ABORTED" \in ProcessingStatus
    BY DEF ProcessingStatus
  <1>2. SetStatus(d, j, "ABORTED").mats = d.mats
    BY DEF SetStatus, WithRow, Tables
  <1> QED
    BY <1>1, <1>2, SetStatusFacts, PlainSelf DEF cancel_job, Stopped

-------------------------------------------------------------------------------
(* The invariant.  Whatever is queued, on its way or remembered names a    *)
(* lease that was issued, to the worker it names; a receipt of success     *)
(* says that outputs were committed, one of an abort that not all were.    *)

Plan(w) == mem.plans[w].lease

IssuedTo(w) == {l \in issued : l.worker = w}

Own(w) == IssuedTo(w) \cup {NoLease}

IsBarren(l) == Barren(l, Plan(l.worker), toWorker[l.worker], wk[l.worker], committed)

HasOnePlace(l) ==
    OnePlace(l, Plan(l.worker), toWorker[l.worker], wk[l.worker], committed)

Credible(l, status) ==
    /\ status = "success" => l.token \in committed
    /\ status = "aborted" => IsBarren(l)

GoodMessage(m) ==
    /\ m.op \in {"IDENTIFY", "HEARTBEAT", "DISPATCH_ACK", "CONCLUDE"}
    /\ m.op \in {"DISPATCH_ACK", "CONCLUDE"} => m.lease \in issued
    /\ m.op = "CONCLUDE" => Credible(m.lease, m.status)

Mail == {m \in Message : GoodMessage(m)}

GoodTask(x) ==
    /\ x.op \in {"ack", "orphan", "running", "conclude"} => x.lease \in issued
    /\ x.op = "conclude" => Credible(x.lease, x.status)
    /\ x.op = "defer" => \E l \in issued : l.job = x.job

Work == {x \in Task : GoodTask(x)}

Orders(w) == {Order(l) : l \in IssuedTo(w)} \cup [op : {"ABORT"}, job : Job]

Memory ==
    [up : BOOLEAN, starts : Nat,
     workers : [Worker -> [known : BOOLEAN, status : WorkerStatus, lease : LeaseOrNone]],
     plans : [Worker -> [asked : BOOLEAN, lease : LeaseOrNone]],
     grace : BOOLEAN, seen : SUBSET Worker, reconciled : SUBSET Worker,
     cancels : [Job -> {"none", "asked", "cancelled", "notCancelled", "closed"}]]

WorkerState ==
    [up : BOOLEAN, stage : {"idle", "running", "finished", "sent"},
     lease : LeaseOrNone, cancelled : BOOLEAN, result : ReceiptStatus \cup {"none"}]

SentinelInv ==
    /\ mem \in Memory
    /\ \A w \in Worker : Plan(w) \in Own(w) /\ mem.workers[w].lease \in Own(w)

WorkInv == tasks \in Seq(Work)

MailInv == toSentinel \in [Worker -> Seq(Mail)]

OrdersInv ==
    /\ toWorker \in [Worker -> Seq(Message)]
    /\ \A w \in Worker : toWorker[w] \in Seq(Orders(w))

WorkerOK(w, k) ==
    /\ k \in WorkerState
    /\ k.stage # "idle" => k.lease \in IssuedTo(w)
    /\ k.stage = "finished" => k.result \in ReceiptStatus /\ Credible(k.lease, k.result)

WorkersInv ==
    /\ wk \in [Worker -> WorkerState]
    /\ \A w \in Worker : WorkerOK(w, wk[w])

PlacesInv ==
    /\ committed \subseteq Token
    /\ \A t \in committed : ~Unused(t)
    /\ \A l \in issued : HasOnePlace(l)

SystemInv ==
    /\ QueueTypeOK /\ LeaseInv
    /\ SentinelInv /\ WorkInv /\ MailInv /\ OrdersInv /\ WorkersInv /\ PlacesInv

\* The lease did not come back to life in this step.
Moved(l) ==
    Settling(l, Plan(l.worker), toWorker[l.worker], wk[l.worker], committed,
             Plan(l.worker)', toWorker'[l.worker], wk'[l.worker], committed')

Advance == issued \subseteq issued' /\ \A l \in issued : Moved(l)

-------------------------------------------------------------------------------
(* What was credible stays so. *)

\* What a receipt says of its lease stays true when nothing comes back to life.
LEMMA CredibleKept ==
    ASSUME NEW l \in issued, NEW status, Moved(l), Credible(l, status)
    PROVE  Credible(l, status)'
  <1>1. committed \subseteq committed'
    BY DEF Moved, Settling
  <1>2. IsBarren(l) => IsBarren(l)'
    BY BarrenKept DEF Moved, IsBarren
  <1> QED
    BY <1>1, <1>2 DEF Credible

\* Leases are only ever added, so whatever was well formed by the leases issued
\* before a step is so after it.
LEMMA SetsGrow ==
    ASSUME Advance
    PROVE  /\ \A m \in Mail : m \in Mail'
           /\ \A x \in Work : x \in Work'
           /\ \A w : \A l \in IssuedTo(w) : l \in IssuedTo(w)'
           /\ \A w : \A l \in Own(w) : l \in Own(w)'
           /\ \A w : \A m \in Orders(w) : m \in Orders(w)'
           /\ \A w, k : WorkerOK(w, k) => WorkerOK(w, k)'
  <1>0. issued \subseteq issued'
    BY DEF Advance
  <1>1. \A l \in issued : \A s : Credible(l, s) => Credible(l, s)'
    BY CredibleKept DEF Advance
  <1>2. \A m : GoodMessage(m) => GoodMessage(m)'
    BY <1>0, <1>1 DEF GoodMessage
  <1>3. \A x : GoodTask(x) => GoodTask(x)'
    BY <1>0, <1>1 DEF GoodTask
  <1>4. \A w : \A l \in IssuedTo(w) : l \in IssuedTo(w)'
    BY <1>0 DEF IssuedTo
  <1>5. \A w : \A l \in Own(w) : l \in Own(w)'
    BY <1>4 DEF Own
  <1>6. \A w : \A m \in Orders(w) : m \in Orders(w)'
    BY <1>4 DEF Orders
  <1>7. \A w, k : WorkerOK(w, k) => WorkerOK(w, k)'
    BY <1>1, <1>4 DEF WorkerOK, IssuedTo
  <1> QED
    BY <1>2, <1>3, <1>4, <1>5, <1>6, <1>7 DEF Mail, Work

\* The queue of tasks: one is taken or added, or all are lost.
LEMMA WorkKept ==
    ASSUME WorkInv, Advance,
           \/ tasks' = tasks
           \/ tasks # << >> /\ tasks' = Tail(tasks)
           \/ tasks' = << >>
           \/ \E x \in Work' : tasks' = Append(tasks, x)
    PROVE  WorkInv'
  <1>1. tasks \in Seq(Work')
    BY SetsGrow, Wider DEF WorkInv
  <1> HIDE DEF Work
  <1> QED
    BY <1>1, Fifo DEF WorkInv

\* The pipe from a worker: a message is taken or added, or some are lost.
LEMMA MailKept ==
    ASSUME MailInv, Advance,
           \/ toSentinel' = toSentinel
           \/ \E w \in Worker : /\ toSentinel[w] # << >>
                                /\ toSentinel' = [toSentinel EXCEPT ![w] = Tail(toSentinel[w])]
           \/ \E w \in Worker : \E m \in Mail' :
                 toSentinel' = [toSentinel EXCEPT ![w] = Append(toSentinel[w], m)]
           \/ \E w \in Worker : \E n \in 0 .. Len(toSentinel[w]) :
                 toSentinel' = [toSentinel EXCEPT ![w] = SubSeq(toSentinel[w], 1, n)]
           \/ \E f \in [Worker -> Nat] :
                 toSentinel' = [w \in Worker |->
                                  SubSeq(toSentinel[w], 1 + f[w], Len(toSentinel[w]))]
    PROVE  MailInv'
  <1>1. \A w \in Worker : toSentinel[w] \in Seq(Mail')
    BY SetsGrow, Wider DEF MailInv
  <1>2. toSentinel = [w \in Worker |-> toSentinel[w]]
    BY DEF MailInv
  <1> DEFINE S == Mail'
  <1> HIDE DEF Mail, S
  <1>3. toSentinel \in [Worker -> Seq(S)]
    BY <1>1, <1>2 DEF S
  <1>4. \A w \in Worker : /\ toSentinel[w] # << >> => Tail(toSentinel[w]) \in Seq(S)
                          /\ \A m \in S : Append(toSentinel[w], m) \in Seq(S)
                          /\ \A n \in Nat : /\ SubSeq(toSentinel[w], 1 + n, Len(toSentinel[w])) \in Seq(S)
                                            /\ n <= Len(toSentinel[w]) =>
                                                 SubSeq(toSentinel[w], 1, n) \in Seq(S)
    BY <1>3, Fifo, Remainder
  <1>5. \A w \in Worker : \A n \in 0 .. Len(toSentinel[w]) : n \in Nat /\ n <= Len(toSentinel[w])
    BY <1>3
  <1>6. toSentinel' = toSentinel => toSentinel' \in [Worker -> Seq(S)]
    BY <1>3
  <1>7. ASSUME NEW w \in Worker, toSentinel[w] # << >>,
               toSentinel' = [toSentinel EXCEPT ![w] = Tail(toSentinel[w])]
        PROVE  toSentinel' \in [Worker -> Seq(S)]
    BY <1>3, <1>4, <1>7
  <1>8. ASSUME NEW w \in Worker, NEW m \in S,
               toSentinel' = [toSentinel EXCEPT ![w] = Append(toSentinel[w], m)]
        PROVE  toSentinel' \in [Worker -> Seq(S)]
    BY <1>3, <1>4, <1>8
  <1>9. ASSUME NEW w \in Worker, NEW n \in 0 .. Len(toSentinel[w]),
               toSentinel' = [toSentinel EXCEPT ![w] = SubSeq(toSentinel[w], 1, n)]
        PROVE  toSentinel' \in [Worker -> Seq(S)]
    BY <1>3, <1>4, <1>5, <1>9
  <1>10. ASSUME NEW f \in [Worker -> Nat],
                toSentinel' = [w \in Worker |->
                                 SubSeq(toSentinel[w], 1 + f[w], Len(toSentinel[w]))]
         PROVE  toSentinel' \in [Worker -> Seq(S)]
    BY <1>3, <1>4, <1>10
  <1>11. toSentinel' \in [Worker -> Seq(S)]
    BY <1>6, <1>7, <1>8, <1>9, <1>10, <1>3 DEF S
  <1> QED
    BY <1>11 DEF MailInv, S

\* An order, or an ABORT, is a message.
LEMMA OrdersAreMessages ==
    ASSUME issued \subseteq Lease, NEW w
    PROVE  \A m \in Orders(w) : m \in Message
  <1>1. \A l \in Lease : Order(l) \in Message
    BY DEF Order, Message
  <1>2. \A m \in [op : {"ABORT"}, job : Job] : m \in Message
    BY DEF Message
  <1> QED
    BY <1>1, <1>2 DEF Orders, IssuedTo

\* The pipe to a worker.
LEMMA OrdersKept ==
    ASSUME OrdersInv, Advance, issued' \subseteq Lease,
           \/ toWorker' = toWorker
           \/ \E w \in Worker : /\ toWorker[w] # << >>
                                /\ toWorker' = [toWorker EXCEPT ![w] = Tail(toWorker[w])]
           \/ \E w \in Worker : \E m \in Orders(w)' :
                 toWorker' = [toWorker EXCEPT ![w] = Append(toWorker[w], m)]
           \/ \E w \in Worker : toWorker' = [toWorker EXCEPT ![w] = << >>]
           \/ \E f \in [Worker -> Nat] :
                 /\ \A w \in Worker : f[w] <= Len(toWorker[w])
                 /\ toWorker' = [w \in Worker |-> SubSeq(toWorker[w], 1, f[w])]
    PROVE  OrdersInv'
  <1>1. \A w \in Worker : \A m \in Orders(w) : m \in Orders(w)'
    BY SetsGrow
  <1>2. \A w \in Worker : toWorker[w] \in Seq(Orders(w)')
    BY <1>1, Wider DEF OrdersInv
  <1>3. \A w \in Worker : \A m \in Orders(w)' : m \in Message
    <2> TAKE w \in Worker
    <2>1. issued' \subseteq Lease
      OBVIOUS
    <2> QED
      BY <2>1, DispatchAssumption DEF Orders, IssuedTo, Order, Message
  <1>4. DOMAIN toWorker = Worker /\ toWorker = [w \in Worker |-> toWorker[w]]
    BY DEF OrdersInv
  <1> DEFINE S(w) == Orders(w)'
  <1> HIDE DEF Orders
  <1>5. \A w \in Worker : toWorker[w] \in Seq(S(w))
    BY <1>2
  <1> SUFFICES /\ toWorker' = [w \in Worker |-> toWorker'[w]]
               /\ \A w \in Worker : toWorker'[w] \in Seq(S(w))
    <2>1. ASSUME NEW w \in Worker, toWorker'[w] \in Seq(S(w))
          PROVE  toWorker'[w] \in Seq(Message)
      BY <1>3, <2>1, Wider
    <2> QED
      BY <2>1 DEF OrdersInv
  <1> HIDE DEF S
  <1>6. \A w \in Worker : /\ toWorker[w] # << >> => Tail(toWorker[w]) \in Seq(S(w))
                          /\ \A m \in S(w) : Append(toWorker[w], m) \in Seq(S(w))
                          /\ << >> \in Seq(S(w))
                          /\ \A n \in Nat : n <= Len(toWorker[w]) =>
                                              SubSeq(toWorker[w], 1, n) \in Seq(S(w))
    BY <1>5, Fifo, Remainder
  <1>7. CASE toWorker' = toWorker
    BY <1>4, <1>5, <1>7
  <1>8. ASSUME NEW w \in Worker, NEW s \in Seq(S(w)),
               toWorker' = [toWorker EXCEPT ![w] = s]
        PROVE  /\ toWorker' = [v \in Worker |-> toWorker'[v]]
               /\ \A v \in Worker : toWorker'[v] \in Seq(S(v))
    <2>1. \A v \in Worker : toWorker'[v] = IF v = w THEN s ELSE toWorker[v]
      BY <1>4, <1>8
    <2>2. DOMAIN toWorker' = Worker /\ toWorker' = [v \in Worker |-> toWorker'[v]]
      BY <1>4, <1>8
    <2> QED
      BY <2>1, <2>2, <1>5, <1>8
  <1>9. ASSUME NEW f \in [Worker -> Nat], \A w \in Worker : f[w] <= Len(toWorker[w]),
               toWorker' = [w \in Worker |-> SubSeq(toWorker[w], 1, f[w])]
        PROVE  /\ toWorker' = [v \in Worker |-> toWorker'[v]]
               /\ \A v \in Worker : toWorker'[v] \in Seq(S(v))
    BY <1>6, <1>9
  <1> QED
    BY <1>6, <1>7, <1>8, <1>9 DEF S

\* The workers: one of them changes.
LEMMA WorkersKept ==
    ASSUME WorkersInv, Advance,
           \/ wk' = wk
           \/ \E w \in Worker : \E k : WorkerOK(w, k)' /\ wk' = [wk EXCEPT ![w] = k]
    PROVE  WorkersInv'
  <1>2. CASE wk' = wk
    BY <1>2, SetsGrow DEF WorkersInv
  <1>3. ASSUME NEW w \in Worker, NEW k, WorkerOK(w, k)', wk' = [wk EXCEPT ![w] = k]
        PROVE  WorkersInv'
    <2>1. \A v \in Worker : wk'[v] = IF v = w THEN k ELSE wk[v]
      BY <1>3 DEF WorkersInv
    <2>2. k \in WorkerState
      BY <1>3 DEF WorkerOK
    <2>3. wk' \in [Worker -> WorkerState]
      BY <1>3, <2>2 DEF WorkersInv
    <2>4. \A v \in Worker : WorkerOK(v, wk[v]) => \A x : x = wk[v] => WorkerOK(v, x)'
      BY SetsGrow
    <2>5. ASSUME NEW v \in Worker
          PROVE  WorkerOK(v, wk[v])'
      BY <1>3, <2>1, <2>4 DEF WorkersInv, WorkerOK
    <2> QED
      BY <2>3, <2>5 DEF WorkersInv
  <1> QED
    BY <1>2, <1>3

\* A lease is a lease to one of the workers, and is not NoLease.
LEMMA LeaseFacts ==
    ASSUME QueueTypeOK, NEW l \in issued
    PROVE  /\ l \in Lease /\ l # NoLease
           /\ l.token \in Token /\ l.job \in Job /\ l.worker \in Worker
  BY DispatchAssumption DEF QueueTypeOK, Lease

\* Only the leases of worker v may have moved.
LEMMA OneWorkerMoves ==
    ASSUME QueueTypeOK, LeaseInv, PlacesInv, UNCHANGED issued, NEW v \in Worker,
           \A w \in Worker \ {v} : /\ Plan(w)' = Plan(w)
                                   /\ toWorker'[w] = toWorker[w]
                                   /\ wk'[w] = wk[w],
           \A l \in IssuedTo(v) : HasOnePlace(l)' /\ Moved(l),
           committed \subseteq committed', committed' \subseteq Token,
           \A t \in committed' : t \in committed \/ \E l \in IssuedTo(v) : l.token = t
    PROVE  Advance /\ PlacesInv'
  <1>1. ASSUME NEW l \in issued
        PROVE  HasOnePlace(l)' /\ Moved(l)
    <2>0. l.worker \in Worker
      BY LeaseFacts
    <2>1. CASE l.worker = v
      BY <2>1 DEF IssuedTo
    <2>2. CASE l.worker # v
      <3>1. l.token \in committed' => l.token \in committed
        BY <2>2 DEF LeaseInv, TokensUnique, IssuedTo
      <3>2. HasOnePlace(l)
        BY DEF PlacesInv
      <3>3. /\ Plan(l.worker)' = Plan(l.worker)
            /\ toWorker'[l.worker] = toWorker[l.worker]
            /\ wk'[l.worker] = wk[l.worker]
        BY <2>0, <2>2
      <3> QED
        BY <3>1, <3>2, <3>3, PipeKept DEF HasOnePlace, Moved
    <2> QED
      BY <2>1, <2>2
  <1>2. \A t \in committed' : ~Unused(t)'
    BY DEF PlacesInv, Unused, IssuedTo
  <1> QED
    BY <1>1, <1>2 DEF Advance, PlacesInv

\* Nothing moved, but plans may have been dropped.
LEMMA NothingMoves ==
    ASSUME QueueTypeOK, LeaseInv, PlacesInv, UNCHANGED << issued, committed, wk, toWorker >>,
           \A w \in Worker : Plan(w)' = Plan(w) \/ Plan(w)' = NoLease
    PROVE  Advance /\ PlacesInv'
  <1>1. ASSUME NEW l \in issued
        PROVE  HasOnePlace(l)' /\ Moved(l)
    <2>0. l.worker \in Worker /\ l # NoLease
      BY LeaseFacts
    <2>1. Plan(l.worker)' = l => Plan(l.worker) = l
      BY <2>0
    <2>2. HasOnePlace(l)
      BY DEF PlacesInv
    <2> QED
      BY <2>1, <2>2, PipeKept DEF HasOnePlace, Moved
  <1>2. \A t \in committed' : ~Unused(t)'
    BY DEF PlacesInv, Unused
  <1> QED
    BY <1>1, <1>2 DEF Advance, PlacesInv

\* What a step of the reactor that sends nothing leaves to be shown.
LEMMA ReactorKept ==
    ASSUME SystemInv, UNCHANGED << db, issued, settled, committed, wk, toWorker >>,
           mem' \in Memory,
           \A w \in Worker : /\ Plan(w)' = Plan(w) \/ Plan(w)' = NoLease
                             /\ mem'.workers[w].lease = mem.workers[w].lease
                                  \/ mem'.workers[w].lease = NoLease,
           \/ tasks' = tasks
           \/ \E x \in Task : GoodTask(x) /\ tasks' = Append(tasks, x),
           \/ toSentinel' = toSentinel
           \/ \E w \in Worker : /\ toSentinel[w] # << >>
                                /\ toSentinel' = [toSentinel EXCEPT ![w] = Tail(toSentinel[w])]
    PROVE  SystemInv' /\ Advance
  <1>1. Advance /\ PlacesInv'
    BY NothingMoves DEF SystemInv
  <1>2. QueueTypeOK' /\ LeaseInv'
    BY DEF SystemInv, QueueTypeOK, LeaseInv, AtMostOneOutcome, RunningIsOwned, TokensUnique,
           RowTokenIssued, QueuedIsUnleased, SettledIsInactive, SettledWasIssued, Unused
  <1>3. WorkInv'
    <2>1. \A x \in Task : GoodTask(x) => x \in Work'
      BY <1>1, SetsGrow DEF Work
    <2> QED
      BY <1>1, <2>1, WorkKept DEF SystemInv
  <1>4. MailInv'
    BY <1>1, MailKept DEF SystemInv
  <1>5. OrdersInv'
    BY <1>1, <1>2, OrdersKept DEF SystemInv, QueueTypeOK
  <1>6. WorkersInv'
    BY <1>1, WorkersKept DEF SystemInv
  <1>7. SentinelInv'
    <2>1. \A w \in Worker : NoLease \in Own(w)' /\ \A l \in Own(w) : l \in Own(w)'
      BY <1>1, SetsGrow DEF Own
    <2> QED
      BY <2>1 DEF SystemInv, SentinelInv
  <1> QED
    BY <1>1, <1>2, <1>3, <1>4, <1>5, <1>6, <1>7 DEF SystemInv

-------------------------------------------------------------------------------
(* The reactor. *)

Entry == [known : BOOLEAN, status : WorkerStatus, lease : LeaseOrNone]

\* The message at the head of a pipe is one a worker may have sent.
LEMMA HeadIsMail ==
    ASSUME SystemInv, NEW w \in Worker, toSentinel[w] # << >>
    PROVE  Head(toSentinel[w]) \in Message /\ GoodMessage(Head(toSentinel[w]))
  <1>1. toSentinel[w] \in Seq(Mail)
    BY DEF SystemInv, MailInv
  <1>2. Head(toSentinel[w]) \in Mail
    BY <1>1, Fifo
  <1> QED
    BY <1>2 DEF Mail

PlanEntry == [asked : BOOLEAN, lease : LeaseOrNone]

\* The Sentinel's memory after one entry of it was changed.
LEMMA MemWorkers ==
    ASSUME NEW m \in Memory, NEW w \in Worker, NEW e \in Entry
    PROVE  LET n == [m EXCEPT !.workers[w] = e]
           IN  /\ n \in Memory
               /\ n.plans = m.plans
               /\ n.workers = [m.workers EXCEPT ![w] = e]
  <1> DEFINE f == [m.workers EXCEPT ![w] = e]
  <1>1. f \in [Worker -> Entry]
    BY DEF Memory, Entry
  <1>2. [m EXCEPT !.workers[w] = e] = [m EXCEPT !.workers = f]
    BY DEF Memory
  <1> HIDE DEF f
  <1>3. LET n == [m EXCEPT !.workers = f]
        IN  n \in Memory /\ n.plans = m.plans /\ n.workers = f
    BY <1>1 DEF Memory, Entry
  <1> QED
    BY <1>2, <1>3 DEF f

\* Replacing one worker's pending plan in the Sentinel's memory.
LEMMA MemPlans ==
    ASSUME NEW m \in Memory, NEW w \in Worker, NEW e \in PlanEntry
    PROVE  LET n == [m EXCEPT !.plans[w] = e]
           IN  /\ n \in Memory
               /\ n.plans = [m.plans EXCEPT ![w] = e]
               /\ n.workers = m.workers
  <1> DEFINE f == [m.plans EXCEPT ![w] = e]
  <1>1. f \in [Worker -> PlanEntry]
    BY DEF Memory, PlanEntry
  <1>2. [m EXCEPT !.plans[w] = e] = [m EXCEPT !.plans = f]
    BY DEF Memory
  <1> HIDE DEF f
  <1>3. /\ [m EXCEPT !.plans = f] \in Memory
        /\ [m EXCEPT !.plans = f].workers = m.workers /\ [m EXCEPT !.plans = f].plans = f
    BY <1>1 DEF Memory, PlanEntry
  <1> QED
    BY <1>2, <1>3 DEF f

\* Handling one message of a worker: IDENTIFY, DISPATCH_ACK, HEARTBEAT, CONCLUDE.
LEMMA ReceiveSteps ==
    ASSUME SystemInv, NEW w \in Worker,
           \/ register_worker(w) \/ handle_dispatch_ack(w)
           \/ handle_heartbeat(w) \/ handle_conclude(w)
    PROVE  SystemInv' /\ Advance
  <1>0. mem \in Memory /\ w \in Worker
    BY DEF SystemInv, SentinelInv
  <1>1. /\ toSentinel[w] # << >>
        /\ toSentinel' = [toSentinel EXCEPT ![w] = Tail(toSentinel[w])]
        /\ UNCHANGED << db, issued, settled, committed, wk, toWorker >>
    BY DEF register_worker, handle_dispatch_ack, handle_heartbeat, handle_conclude,
           Receive, SentinelOnly
  <1> DEFINE m == Head(toSentinel[w])
  <1>2. m \in Message /\ GoodMessage(m)
    BY <1>1, HeadIsMail
  <1>3. CASE register_worker(w)
    <2> DEFINE n == [NotRegistered EXCEPT !.known = TRUE]
    <2>0. n \in Entry /\ n.lease = NoLease
      BY DEF NotRegistered, Entry, WorkerStatus, LeaseOrNone
    <2>1. \/ mem' = mem
          \/ mem' = [mem EXCEPT !.seen = mem.seen \cup {w}]
          \/ mem' = [mem EXCEPT !.seen = mem.seen \cup {w}, !.workers[w] = n]
      BY <1>3 DEF register_worker
    <2> DEFINE S == mem.seen \cup {w}
    <2>5. S \in SUBSET Worker
      BY <1>0 DEF Memory
    <2> DEFINE a == [mem EXCEPT !.seen = S]
               b == [mem EXCEPT !.seen = S, !.workers[w] = n]
    <2> HIDE DEF n, S
    <2>6. a \in Memory /\ a.plans = mem.plans /\ a.workers = mem.workers
      BY <1>0, <2>5 DEF Memory
    <2>7. b \in Memory /\ b.plans = mem.plans /\ b.workers = [mem.workers EXCEPT ![w] = n]
      <3> DEFINE f == [mem.workers EXCEPT ![w] = n]
                 c == [mem EXCEPT !.seen = S, !.workers = f]
      <3>1. f \in [Worker -> Entry]
        BY <1>0, <2>0 DEF Memory, Entry
      <3>2. b = c
        BY <1>0 DEF Memory
      <3> HIDE DEF f
      <3>3. c \in Memory /\ c.plans = mem.plans /\ c.workers = f
        BY <1>0, <2>5, <3>1 DEF Memory, Entry
      <3> QED
        BY <3>2, <3>3 DEF f
    <2>8. mem' = mem \/ mem' = a \/ mem' = b
      BY <2>1 DEF S
    <2> HIDE DEF a, b
    <2>2. mem' \in Memory
      BY <1>0, <2>6, <2>7, <2>8
    <2>9. mem.workers \in [Worker -> Entry]
      BY <1>0 DEF Memory, Entry
    <2>3. \A v \in Worker : /\ Plan(v)' = Plan(v)
                            /\ mem'.workers[v].lease = mem.workers[v].lease
                                 \/ mem'.workers[v].lease = NoLease
      BY <2>0, <2>6, <2>7, <2>8, <2>9 DEF Plan
    <2>4. tasks' = tasks
      BY <1>3 DEF register_worker
    <2> QED
      BY <1>1, <2>2, <2>3, <2>4, ReactorKept
  <1>4. CASE handle_dispatch_ack(w)
    <2> DEFINE x == [op |-> "ack", lease |-> m.lease]
    <2>1. m.op = "DISPATCH_ACK" /\ mem' = mem
      BY <1>4 DEF handle_dispatch_ack, Receive
    <2>2. m.lease \in issued
      BY <1>2, <2>1 DEF GoodMessage
    <2>3. x \in Task /\ GoodTask(x)
      BY <2>2, LeaseFacts DEF SystemInv, Task, GoodTask
    <2>4. tasks' = tasks \/ tasks' = Append(tasks, x)
      BY <1>4 DEF handle_dispatch_ack, Submit
    <2>5. \A v \in Worker : Plan(v)' = Plan(v) /\ mem'.workers[v].lease = mem.workers[v].lease
      BY <2>1 DEF Plan
    <2> QED
      BY <1>0, <1>1, <2>1, <2>3, <2>4, <2>5, ReactorKept
  <1>5. CASE handle_heartbeat(w)
    <2> DEFINE s == IF m.active = {} THEN "Idle" ELSE "Busy"
               e == [mem.workers[w] EXCEPT !.status = s]
               first == mem.grace /\ w \notin mem.reconciled
               R == IF first THEN mem.reconciled \cup {w} ELSE mem.reconciled
               x == [op |-> "reconcile", worker |-> w, active |-> m.active]
    <2>1. m.op = "HEARTBEAT"
      BY <1>5 DEF handle_heartbeat, Receive
    <2>2. m.active \subseteq Job
      BY <1>2, <2>1 DEF Message
    <2>3. x \in Task /\ GoodTask(x)
      BY <2>2 DEF Task, GoodTask
    <2>4. tasks' = tasks \/ tasks' = Append(tasks, x)
      BY <1>5 DEF handle_heartbeat, Submit
    <2>5. \/ mem' = mem
          \/ mem' = [mem EXCEPT !.workers[w] = e, !.seen = mem.seen \cup {w}, !.reconciled = R]
      BY <1>5 DEF handle_heartbeat
    <2>6. e \in Entry /\ e.lease = mem.workers[w].lease /\ R \subseteq Worker
      BY <1>0 DEF Memory, Entry, WorkerStatus
    <2> DEFINE S == mem.seen \cup {w}
               b == [mem EXCEPT !.workers[w] = e, !.seen = S, !.reconciled = R]
    <2>9. S \in SUBSET Worker /\ R \in SUBSET Worker
      BY <1>0, <2>6 DEF Memory
    <2> HIDE DEF e, R, S
    <2>10. b \in Memory /\ b.plans = mem.plans /\ b.workers = [mem.workers EXCEPT ![w] = e]
      <3> DEFINE f == [mem.workers EXCEPT ![w] = e]
                 c == [mem EXCEPT !.workers = f, !.seen = S, !.reconciled = R]
      <3>1. f \in [Worker -> Entry]
        BY <1>0, <2>6 DEF Memory, Entry
      <3>2. b = c
        BY <1>0 DEF Memory
      <3> HIDE DEF f
      <3>3. c \in Memory /\ c.plans = mem.plans /\ c.workers = f
        BY <1>0, <2>9, <3>1 DEF Memory, Entry
      <3> QED
        BY <3>2, <3>3 DEF f
    <2>11. mem' = mem \/ mem' = b
      BY <2>5 DEF S
    <2> HIDE DEF b
    <2>7. mem' \in Memory
      BY <1>0, <2>10, <2>11
    <2>12. mem.workers \in [Worker -> Entry]
      BY <1>0 DEF Memory, Entry
    <2>8. \A v \in Worker : Plan(v)' = Plan(v) /\ mem'.workers[v].lease = mem.workers[v].lease
      BY <2>6, <2>10, <2>11, <2>12 DEF Plan
    <2> QED
      BY <1>1, <2>3, <2>4, <2>7, <2>8, ReactorKept
  <1>6. CASE handle_conclude(w)
    <2> DEFINE x == [op |-> "conclude", lease |-> m.lease, status |-> m.status]
               n == [NotRegistered EXCEPT !.known = TRUE]
    <2>1. m.op = "CONCLUDE"
      BY <1>6 DEF handle_conclude, Receive
    <2>2. m.lease \in issued /\ m.status \in ReceiptStatus /\ Credible(m.lease, m.status)
      BY <1>2, <2>1 DEF GoodMessage, Message
    <2>3. x \in Task /\ GoodTask(x)
      BY <2>2, LeaseFacts DEF SystemInv, Task, GoodTask
    <2>4. tasks' = Append(tasks, x)
      BY <1>6 DEF handle_conclude, Submit
    <2>5. mem' = mem \/ mem' = [mem EXCEPT !.workers[w] = n]
      BY <1>6 DEF handle_conclude, Register
    <2>6. n \in Entry /\ n.lease = NoLease
      BY DEF NotRegistered, Entry, WorkerStatus, LeaseOrNone
    <2> HIDE DEF n
    <2> DEFINE b == [mem EXCEPT !.workers[w] = n]
    <2>9. b \in Memory /\ b.plans = mem.plans /\ b.workers = [mem.workers EXCEPT ![w] = n]
      BY <1>0, <2>6, MemWorkers
    <2> HIDE DEF b
    <2>7. mem' \in Memory
      BY <1>0, <2>5, <2>9 DEF b
    <2>10. mem.workers \in [Worker -> Entry]
      BY <1>0 DEF Memory, Entry
    <2>8. \A v \in Worker : /\ Plan(v)' = Plan(v)
                            /\ mem'.workers[v].lease = mem.workers[v].lease
                                 \/ mem'.workers[v].lease = NoLease
      BY <2>5, <2>6, <2>9, <2>10 DEF Plan, b
    <2> QED
      BY <1>1, <2>3, <2>4, <2>7, <2>8, ReactorKept
  <1> QED
    BY <1>3, <1>4, <1>5, <1>6

\* Control requests, timers and the dispatch loop.
LEMMA TimerSteps ==
    ASSUME SystemInv,
           \/ \E j \in Job : handle_control_request(j)
           \/ \E w \in Worker : dispatch_loop(w) \/ cleanup_stale_workers(w)
           \/ sweep_expired_dispatches
           \/ GraceEnds
    PROVE  SystemInv' /\ Advance
  <1>0. mem \in Memory
    BY DEF SystemInv, SentinelInv
  <1>1. ASSUME NEW j \in Job, handle_control_request(j)
        PROVE  SystemInv' /\ Advance
    <2> DEFINE x == [op |-> "cancel", job |-> j]
    <2>1. /\ UNCHANGED << db, issued, settled, committed, wk, toWorker, toSentinel >>
          /\ tasks' = Append(tasks, x)
          /\ mem' = [mem EXCEPT !.cancels[j] = "asked"]
      BY <1>1 DEF handle_control_request, SentinelOnly, Submit, net
    <2>2. x \in Task /\ GoodTask(x)
      BY DEF Task, GoodTask
    <2>3. mem' \in Memory
      BY <1>0, <2>1 DEF Memory
    <2>4. \A v \in Worker : Plan(v)' = Plan(v) /\ mem'.workers[v].lease = mem.workers[v].lease
      BY <1>0, <2>1 DEF Memory, Plan
    <2> QED
      BY <2>1, <2>2, <2>3, <2>4, ReactorKept
  <1>2. ASSUME NEW w \in Worker, dispatch_loop(w)
        PROVE  SystemInv' /\ Advance
    <2> DEFINE x == [op |-> "prepare", worker |-> w]
    <2>1. /\ UNCHANGED << db, issued, settled, committed, wk, toWorker, toSentinel >>
          /\ tasks' = Append(tasks, x)
          /\ mem' = [mem EXCEPT !.plans[w].asked = TRUE]
      BY <1>2 DEF dispatch_loop, SentinelOnly, Submit, net
    <2>2. x \in Task /\ GoodTask(x)
      BY DEF Task, GoodTask
    <2> DEFINE e == [mem.plans[w] EXCEPT !.asked = TRUE]
    <2>5. e \in PlanEntry /\ e.lease = mem.plans[w].lease
      BY <1>0 DEF Memory, PlanEntry
    <2>6. mem' = [mem EXCEPT !.plans[w] = e]
      BY <1>0, <2>1 DEF Memory
    <2> HIDE DEF e
    <2>7. /\ mem' \in Memory /\ mem'.workers = mem.workers
          /\ mem'.plans = [mem.plans EXCEPT ![w] = e]
      BY <1>0, <2>5, <2>6, MemPlans
    <2>3. mem' \in Memory
      BY <2>7
    <2>8. mem.plans \in [Worker -> PlanEntry]
      BY <1>0 DEF Memory, PlanEntry
    <2>4. \A v \in Worker : Plan(v)' = Plan(v) /\ mem'.workers[v].lease = mem.workers[v].lease
      BY <2>5, <2>7, <2>8 DEF Plan
    <2> QED
      BY <2>1, <2>2, <2>3, <2>4, ReactorKept
  <1>3. ASSUME NEW w \in Worker, cleanup_stale_workers(w)
        PROVE  SystemInv' /\ Advance
    <2> DEFINE l == mem.workers[w].lease
               x == [op |-> "orphan", lease |-> l]
    <2>1. /\ UNCHANGED << db, issued, settled, committed, wk, toWorker, toSentinel >>
          /\ tasks' = tasks \/ (l # NoLease /\ tasks' = Append(tasks, x))
          /\ mem' = [mem EXCEPT !.workers[w] = NotRegistered]
      BY <1>3 DEF cleanup_stale_workers, SentinelOnly, Submit, net, Register
    <2>2. l # NoLease => x \in Task /\ GoodTask(x)
      <3>1. l # NoLease => l \in issued
        BY DEF SystemInv, SentinelInv, Own, IssuedTo
      <3> QED
        BY <3>1, LeaseFacts DEF SystemInv, Task, GoodTask
    <2>3. NotRegistered \in Entry /\ NotRegistered.lease = NoLease
      BY DEF NotRegistered, Entry, WorkerStatus, LeaseOrNone
    <2>6. /\ mem' \in Memory /\ mem'.plans = mem.plans
          /\ mem'.workers = [mem.workers EXCEPT ![w] = NotRegistered]
      BY <1>0, <2>1, <2>3, MemWorkers
    <2>4. mem' \in Memory
      BY <2>6
    <2>7. mem.workers \in [Worker -> Entry]
      BY <1>0 DEF Memory, Entry
    <2>5. \A v \in Worker : /\ Plan(v)' = Plan(v)
                            /\ mem'.workers[v].lease = mem.workers[v].lease
                                 \/ mem'.workers[v].lease = NoLease
      BY <2>3, <2>6, <2>7 DEF Plan
    <2> QED
      BY <2>1, <2>2, <2>4, <2>5, ReactorKept
  <1>4. CASE sweep_expired_dispatches
    <2> DEFINE x == [op |-> "sweep"]
    <2>1. /\ UNCHANGED << db, issued, settled, committed, wk, toWorker, toSentinel, mem >>
          /\ tasks' = Append(tasks, x)
      BY <1>4 DEF sweep_expired_dispatches, SentinelOnly, Submit, net
    <2>2. x \in Task /\ GoodTask(x)
      BY DEF Task, GoodTask
    <2>3. \A v \in Worker : Plan(v)' = Plan(v) /\ mem'.workers[v].lease = mem.workers[v].lease
      BY <2>1 DEF Plan
    <2> QED
      BY <1>0, <2>1, <2>2, <2>3, ReactorKept
  <1>5. CASE GraceEnds
    <2> DEFINE x == [op |-> "missing", seen |-> mem.seen]
    <2>1. /\ UNCHANGED << db, issued, settled, committed, wk, toWorker, toSentinel >>
          /\ tasks' = Append(tasks, x)
          /\ mem' = [mem EXCEPT !.grace = FALSE]
      BY <1>5 DEF GraceEnds, SentinelOnly, Submit, net
    <2>2. x \in Task /\ GoodTask(x)
      BY <1>0 DEF Task, GoodTask, Memory
    <2>3. mem' \in Memory
      BY <1>0, <2>1 DEF Memory
    <2>4. \A v \in Worker : Plan(v)' = Plan(v) /\ mem'.workers[v].lease = mem.workers[v].lease
      BY <1>0, <2>1 DEF Memory, Plan
    <2> QED
      BY <2>1, <2>2, <2>3, <2>4, ReactorKept
  <1> QED
    BY <1>1, <1>2, <1>3, <1>4, <1>5

-------------------------------------------------------------------------------
(* Every step is a step of the queue, or none of its business. *)

\* What a task of one statement leaves.
LEMMA TornOne ==
    ASSUME NEW d, NEW e
    PROVE  Torn(d, << e >>) = {d, e} /\ Done(<< e >>) = e
  <1>1. Len(<< e >>) = 1 /\ << e >>[1] = e /\ 1 .. 1 = {1}
    OBVIOUS
  <1> QED
    BY <1>1 DEF Torn, Done

\* A receipt that is applied to its end is one of the ways to apply it.
LEMMA DoneIsTorn ==
    ASSUME NEW d, NEW j, NEW t, NEW status \in ReceiptStatus
    PROVE  Done(process_conclude_db(d, j, t, status))
             \in Torn(d, process_conclude_db(d, j, t, status))
  <1> DEFINE s == process_conclude_db(d, j, t, status)
             Short(z) == \/ \E a : z = << a >>
                         \/ \E a, b : z = << a, b >>
                         \/ \E a, b, c, e, f : z = << a, b, c, e, f >>
                         \/ \E a, b, c, e, f, g : z = << a, b, c, e, f, g >>
  <1>1. Short(s)
    <2>1. \A transient : Short(FailureSteps(d, j, t, transient))
      BY Zenon DEF FailureSteps
    <2>2. Short(SuccessSteps(d, j, t))
      BY Zenon DEF SuccessSteps
    <2>3. Short(RejectedSteps(d, j, t))
      BY Zenon DEF RejectedSteps
    <2>4. Short(AbortedSteps(d, j, t))
      BY Zenon DEF AbortedSteps
    <2>5. \/ s = SuccessSteps(d, j, t) \/ s = FailureSteps(d, j, t, TRUE)
          \/ s = RejectedSteps(d, j, t) \/ s = FailureSteps(d, j, t, FALSE)
          \/ s = AbortedSteps(d, j, t)
      BY DEF process_conclude_db, ReceiptStatus
    <2> HIDE DEF s, Short
    <2> QED
      BY <2>1, <2>2, <2>3, <2>4, <2>5
  <1> HIDE DEF s
  <1>2. Len(s) \in 1 .. Len(s)
    <2>1. CASE \E a : s = << a >>
      BY <2>1
    <2>2. CASE \E a, b : s = << a, b >>
      BY <2>2
    <2>3. CASE \E a, b, c, e, f : s = << a, b, c, e, f >>
      BY <2>3
    <2>4. CASE \E a, b, c, e, f, g : s = << a, b, c, e, f, g >>
      BY <2>4
    <2> QED
      BY <1>1, <2>1, <2>2, <2>3, <2>4
  <1>3. Done(s) \in Torn(d, s)
    BY <1>2 DEF Done, Torn
  <1> QED
    BY <1>3 DEF s

\* Whatever a task leaves, run to its end or cut, a step of JobQueue leaves
\* too.
LEMMA TaskRefines ==
    ASSUME QueueTypeOK, NEW x \in Task, GoodTask(x), x.op # "prepare",
           NEW steps \in Steps(x), db' \in Torn(db, steps), SettleTask(x),
           UNCHANGED issued
    PROVE  [QueueNext]_queue
  <1>0. issued \subseteq Lease
    BY DEF QueueTypeOK
  <1>1. x.op \notin {"conclude", "orphan"} => settled' = settled
    BY DEF SettleTask
  <1>2. x.op \in {"conclude", "orphan"} => SettleRow(x.lease.job, x.lease.token)
    BY DEF SettleTask, SettleRow
  <1>3. db' = db => settled' = settled
    BY DEF SettleTask
  <1>4. db' = db => [QueueNext]_queue
    BY <1>3 DEF queue
  <1>5. CASE x.op = "ack"
    <2> DEFINE l == x.lease
    <2>1. Steps(x) = {<< ack_dispatch(db, l.job, l.token, l.worker) >>}
      BY <1>5 DEF Steps
    <2>2. db' = db \/ db' = ack_dispatch(db, l.job, l.token, l.worker)
      BY <2>1, TornOne
    <2>3. db' = db \/ AckDispatch(l)
      BY <1>1, <1>5, <2>2 DEF AckDispatch
    <2>4. l \in issued
      BY <1>5 DEF GoodTask
    <2> QED
      BY <1>4, <2>3, <2>4 DEF QueueNext
  <1>6. CASE x.op = "conclude"
    <2> DEFINE l == x.lease
    <2>1. Steps(x) = {process_conclude_db(db, l.job, l.token, x.status)}
      BY <1>6 DEF Steps
    <2>2. Conclude(l, x.status)
      BY <1>2, <1>6, <2>1 DEF Conclude
    <2>3. l \in issued /\ x.status \in ReceiptStatus
      BY <1>6 DEF GoodTask, Task
    <2> QED
      BY <2>2, <2>3 DEF QueueNext
  <1>7. CASE x.op = "orphan"
    <2> DEFINE l == x.lease
    <2>1. Steps(x) = {<< fail_job_if_token_matches(db, l.job, l.token) >>}
      BY <1>7 DEF Steps, fail_orphan
    <2>2. db' = db \/ db' = fail_job_if_token_matches(db, l.job, l.token)
      BY <2>1, TornOne
    <2>3. db' = db \/ FailOrphan(l)
      BY <1>2, <1>7, <2>2 DEF FailOrphan
    <2>4. l \in issued
      BY <1>7 DEF GoodTask
    <2> QED
      BY <1>4, <2>3, <2>4 DEF QueueNext
  <1>8. CASE x.op = "defer"
    <2>1. Steps(x) = {<< defer_job(db, x.job) >>}
      BY <1>8 DEF Steps
    <2>2. db' = db \/ db' = defer_job(db, x.job)
      BY <2>1, TornOne
    <2>3. PICK l \in issued : l.job = x.job
      BY <1>8 DEF GoodTask
    <2>4. db' = db \/ DeferPlan(l)
      BY <1>1, <1>8, <2>2, <2>3 DEF DeferPlan
    <2> QED
      BY <1>4, <2>4 DEF QueueNext
  <1>9. CASE x.op = "cancel"
    <2>1. Steps(x) = {<< cancel_job(db, x.job) >>}
      BY <1>9 DEF Steps
    <2>2. db' = db \/ db' = cancel_job(db, x.job)
      BY <2>1, TornOne
    <2>3. x.job \in Job
      BY <1>9 DEF Task
    <2>4. db.jobs[x.job].status = "ABSENT" => cancel_job(db, x.job) = db
      BY DEF cancel_job, Cancellable
    <2>5. db' = db \/ CancelJob(x.job)
      BY <1>1, <1>9, <2>2, <2>4 DEF CancelJob
    <2> QED
      BY <1>4, <2>3, <2>5 DEF QueueNext
  <1>10. CASE x.op = "running"
    <2> DEFINE l == x.lease
    <2>1. Steps(x) = {<< set_pipeline_run_running(db, db.jobs[l.job].run) >>}
      BY <1>10 DEF Steps
    <2>2. db' = db \/ db' = set_pipeline_run_running(db, db.jobs[l.job].run)
      BY <2>1, TornOne
    <2>3. db' = db \/ SetRunRunning(l)
      BY <1>1, <1>10, <2>2 DEF SetRunRunning
    <2>4. l \in issued
      BY <1>10 DEF GoodTask
    <2> QED
      BY <1>4, <2>3, <2>4 DEF QueueNext
  <1>11. CASE x.op = "sweep"
    <2>1. Steps(x) = {<< requeue_expired_dispatches(db, expired) >> :
                         expired \in SUBSET Dispatching(db)}
      BY <1>11 DEF Steps
    <2>2. PICK expired \in SUBSET Dispatching(db) :
                 steps = << requeue_expired_dispatches(db, expired) >>
      BY <2>1
    <2>3. db' = db \/ db' = requeue_expired_dispatches(db, expired)
      BY <2>2, TornOne
    <2>4. expired \in SUBSET Job
      BY DEF Dispatching
    <2>5. db' = db \/ SweepExpired(expired)
      BY <1>1, <1>11, <2>3 DEF SweepExpired
    <2> QED
      BY <1>4, <2>4, <2>5 DEF QueueNext
  <1>12. ASSUME NEW lost, lost \subseteq Job,
                \A j \in lost : db.jobs[j].status = "RUNNING",
                steps = << DeferAll(db, lost) >>, x.op \in {"reconcile", "missing"}
         PROVE  [QueueNext]_queue
    <2>1. db' = db \/ db' = DeferAll(db, lost)
      BY <1>12, TornOne
    <2>2. db' = db \/ Reconcile(lost)
      BY <1>1, <1>12, <2>1 DEF Reconcile
    <2>3. lost \in SUBSET Job
      BY <1>12
    <2> QED
      BY <1>4, <2>2, <2>3 DEF QueueNext
  <1>13. CASE x.op = "reconcile"
    <2> DEFINE lost == list_running_jobs_by_owner(db, x.worker) \ x.active
    <2>1. steps = << DeferAll(db, lost) >>
      BY <1>13 DEF Steps, reconcile_running_jobs_for_worker
    <2>2. lost \subseteq Job /\ \A j \in lost : db.jobs[j].status = "RUNNING"
      BY DEF list_running_jobs_by_owner
    <2> QED
      BY <1>12, <1>13, <2>1, <2>2
  <1>14. CASE x.op = "missing"
    <2> DEFINE lost == MissingJobs(db, x.seen)
    <2>1. steps = << DeferAll(db, lost) >>
      BY <1>14 DEF Steps, reconcile_missing_workers_after_grace
    <2>2. lost \subseteq Job /\ \A j \in lost : db.jobs[j].status = "RUNNING"
      BY DEF MissingJobs
    <2> QED
      BY <1>12, <1>14, <2>1, <2>2
  <1>15. x.op \in {"ack", "conclude", "orphan", "defer", "cancel", "running", "sweep",
                   "reconcile", "missing"}
    BY DEF Task
  <1> QED
    BY <1>5, <1>6, <1>7, <1>8, <1>9, <1>10, <1>11, <1>13, <1>14, <1>15

\* The three outcomes of prepare_dispatch_plan.
LEMMA PreparedSteps ==
    ASSUME NEW j, NEW t, NEW w, NEW steps \in Prepared(j, t, w)
    PROVE  \/ steps = PlanSteps(db, j, t, w)
           \/ steps = FailDispatchSteps(db, j, t, w)
           \/ steps = DeferDispatchSteps(db, j, t, w)
  BY DEF Prepared

\* prepare_dispatch_plan, cut after statement k or run to its end.
LEMMA PrepareRefines ==
    ASSUME NEW j \in Job, NEW t \in Token, NEW w \in Worker,
           FirstLeasable(db, j), Unused(t),
           NEW steps \in Prepared(j, t, w), NEW k \in DOMAIN steps, db' = steps[k],
           issued' = IF k = 1 THEN issued
                     ELSE issued \cup {[token |-> t, job |-> j, worker |-> w]},
           settled' = IF k <= 2 THEN settled ELSE [settled EXCEPT ![t] = @ + 1]
    PROVE  QueueNext
  <1> DEFINE c == lease_jobs_for_dispatch(db, j)
             l == Leased(db, j, t, w)
             f == fail_job_if_token_matches_dispatching(l, j, t)
             r == defer_job_if_token_matches(l, j, t, FALSE)
             u == update_pipeline_run_status_for_job(f, j)
             v == update_pipeline_run_status_for_job(r, j)
             P == PlanSteps(db, j, t, w)
             F == FailDispatchSteps(db, j, t, w)
             D == DeferDispatchSteps(db, j, t, w)
  <1>1. P = << c, l >> /\ F = << c, l, f, u >> /\ D = << c, l, r, v >>
    BY DEF PlanSteps, FailDispatchSteps, DeferDispatchSteps
  <1>2. steps = P \/ steps = F \/ steps = D
    BY PreparedSteps
  <1> HIDE DEF c, l, f, r, u, v, P, F, D
  <1>3. /\ k \in 1 .. 4 /\ steps[1] = c /\ steps[2] = l
        /\ k \in 3 .. 4 => steps = F \/ steps = D
    BY <1>1, <1>2
  <1>4. Done(P) = l
    BY <1>1 DEF Done
  <1>5. k \in {1, 2, 3, 4}
    BY <1>3
  <1>6. CASE k = 1
    <2>1. LeaseCut(j)
      BY <1>3, <1>6 DEF LeaseCut, c
    <2> QED
      BY <2>1 DEF QueueNext
  <1>7. CASE k = 2
    <2>1. db' = Done(PlanSteps(db, j, t, w)) /\ settled' = settled
      BY <1>3, <1>4, <1>7 DEF P
    <2>2. issued' = issued \cup {[token |-> t, job |-> j, worker |-> w]}
      BY <1>7
    <2>3. PrepareDispatch(j, t, w)
      BY <2>1, <2>2 DEF PrepareDispatch
    <2> QED
      BY <2>3 DEF QueueNext
  <1>8. CASE k \in 3 .. 4
    <2>1. /\ issued' = issued \cup {[token |-> t, job |-> j, worker |-> w]}
          /\ settled' = [settled EXCEPT ![t] = @ + 1]
      BY <1>8
    <2>2. \/ db' \in {FailDispatchSteps(db, j, t, w)[i] : i \in 3 .. 4}
          \/ db' \in {DeferDispatchSteps(db, j, t, w)[i] : i \in 3 .. 4}
      BY <1>3, <1>8 DEF F, D
    <2>3. PrepareDispatch(j, t, w)
      BY <2>1, <2>2 DEF PrepareDispatch
    <2> QED
      BY <2>3 DEF QueueNext
  <1> QED
    BY <1>5, <1>6, <1>7, <1>8

\* The task at the head of the executor's queue.
LEMMA HeadIsWork ==
    ASSUME WorkInv, tasks # << >>
    PROVE  Head(tasks) \in Task /\ GoodTask(Head(tasks))
  <1>1. Head(tasks) \in Work
    BY Fifo DEF WorkInv
  <1> QED
    BY <1>1 DEF Work

\* Every task of one statement or a receipt can also be cut at its end.
LEMMA DoneOfTask ==
    ASSUME NEW x \in Task, x.op # "prepare", NEW steps \in Steps(x)
    PROVE  Done(steps) \in Torn(db, steps)
  <1>1. CASE x.op = "conclude"
    <2>1. steps = process_conclude_db(db, x.lease.job, x.lease.token, x.status)
      BY <1>1 DEF Steps
    <2>2. x.status \in ReceiptStatus
      BY <1>1 DEF Task
    <2> QED
      BY <2>1, <2>2, DoneIsTorn
  <1>2. CASE x.op # "conclude"
    <2>1. \E e : steps = << e >>
      <3>1. x.op \in {"ack", "orphan", "defer", "cancel", "running", "sweep",
                      "reconcile", "missing"}
        BY <1>2 DEF Task
      <3> QED
        BY <3>1 DEF Steps
    <2> QED
      BY <2>1, TornOne
  <1> QED
    BY <1>1, <1>2

\* The database thread takes a task.
LEMMA RunTaskRefines ==
    ASSUME QueueTypeOK, WorkInv, RunTask
    PROVE  [QueueNext]_queue
  <1> DEFINE x == Head(tasks)
  <1>1. x \in Task /\ GoodTask(x)
    BY HeadIsWork DEF RunTask
  <1>2. PICK steps \in Steps(x) : db' = Done(steps)
    BY DEF RunTask
  <1>3. x.op # "prepare" /\ SettleTask(x) /\ UNCHANGED issued
    BY DEF RunTask
  <1> HIDE DEF x
  <1>4. db' \in Torn(db, steps)
    BY <1>1, <1>2, <1>3, DoneOfTask
  <1> QED
    BY <1>1, <1>2, <1>3, <1>4, TaskRefines

\* prepare_dispatch_plan to its end.
LEMMA RunPrepareRefines ==
    ASSUME NEW w \in Worker, RunPrepare(w)
    PROVE  [QueueNext]_queue
  <1>1. CASE UNCHANGED queue
    BY <1>1
  <1>2. ASSUME NEW j \in Job, NEW t \in Token,
               FirstLeasable(db, j), Unused(t),
               issued' = issued \cup {[token |-> t, job |-> j, worker |-> w]},
               NEW steps \in Prepared(j, t, w), db' = Done(steps),
               settled' = IF steps = PlanSteps(db, j, t, w) THEN settled
                          ELSE [settled EXCEPT ![t] = @ + 1]
        PROVE  QueueNext
    <2>1. CASE steps = PlanSteps(db, j, t, w)
      <3>1. Len(steps) = 2 /\ DOMAIN steps = 1 .. 2
        BY <2>1 DEF PlanSteps
      <3> QED
        BY <1>2, <2>1, <3>1, PrepareRefines DEF Done
    <2>2. CASE steps # PlanSteps(db, j, t, w)
      <3>1. steps = FailDispatchSteps(db, j, t, w) \/ steps = DeferDispatchSteps(db, j, t, w)
        BY <2>2, PreparedSteps
      <3>2. \E a, b, c, d : steps = << a, b, c, d >>
        BY <3>1, Zenon DEF FailDispatchSteps, DeferDispatchSteps
      <3>3. Len(steps) = 4 /\ 4 \in DOMAIN steps
        BY <3>2
      <3>4. db' = steps[4]
        BY <1>2, <3>3 DEF Done
      <3>5. settled' = [settled EXCEPT ![t] = @ + 1]
        BY <1>2, <2>2
      <3>6. /\ issued' = IF 4 = 1 THEN issued
                         ELSE issued \cup {[token |-> t, job |-> j, worker |-> w]}
            /\ settled' = IF 4 <= 2 THEN settled ELSE [settled EXCEPT ![t] = @ + 1]
        <4>1. 4 # 1 /\ ~(4 <= 2)
          OBVIOUS
        <4> QED
          BY <1>2, <3>5, <4>1, Zenon
      <3> QED
        BY <1>2, <3>3, <3>4, <3>6, PrepareRefines
    <2> QED
      BY <2>1, <2>2
  <1>3. \/ UNCHANGED queue
        \/ \E j \in Job, t \in Token :
             /\ FirstLeasable(db, j) /\ Unused(t)
             /\ issued' = issued \cup {[token |-> t, job |-> j, worker |-> w]}
             /\ \E steps \in Prepared(j, t, w) :
                  /\ db' = Done(steps)
                  /\ settled' = IF steps = PlanSteps(db, j, t, w) THEN settled
                                ELSE [settled EXCEPT ![t] = @ + 1]
    BY DEF RunPrepare
  <1> QED
    BY <1>1, <1>2, <1>3

\* A task is cut by a crash.
LEMMA CrashRefines ==
    ASSUME QueueTypeOK, WorkInv, CrashInTask \/ CrashInPrepare
    PROVE  [QueueNext]_queue
  <1> DEFINE x == Head(tasks)
  <1>1. x \in Task /\ GoodTask(x)
    BY HeadIsWork DEF CrashInTask, CrashInPrepare
  <1>2. CASE CrashInTask
    <2>1. x.op # "prepare" /\ SettleTask(x) /\ UNCHANGED issued
      BY <1>2 DEF CrashInTask
    <2>2. CASE x.op \in {"reconcile", "missing"}
      <3>1. PICK some \in SUBSET Lost(x) : db' = DeferAll(db, some)
        BY <1>2, <2>2 DEF CrashInTask
      <3>2. Lost(x) \subseteq Job /\ \A j \in Lost(x) : db.jobs[j].status = "RUNNING"
        BY DEF Lost, list_running_jobs_by_owner, MissingJobs
      <3>3. settled' = settled
        BY <2>1, <2>2 DEF SettleTask
      <3>4. Reconcile(some) /\ some \in SUBSET Job
        BY <2>1, <3>1, <3>2, <3>3 DEF Reconcile
      <3> QED
        BY <3>4 DEF QueueNext
    <2>3. CASE x.op \notin {"reconcile", "missing"}
      <3>1. PICK steps \in Steps(x) : db' \in Torn(db, steps)
        BY <1>2, <2>3 DEF CrashInTask
      <3> HIDE DEF x
      <3> QED
        BY <1>1, <2>1, <3>1, TaskRefines
    <2> QED
      BY <2>2, <2>3
  <1>3. CASE CrashInPrepare
    <2> DEFINE w == x.worker
    <2>1. w \in Worker
      BY <1>1, <1>3 DEF CrashInPrepare, Task
    <2>2. PICK j \in Job, t \in Token :
            /\ FirstLeasable(db, j) /\ Unused(t)
            /\ \E steps \in Prepared(j, t, w) : \E k \in DOMAIN steps :
                 /\ db' = steps[k]
                 /\ issued' = IF k = 1 THEN issued
                              ELSE issued \cup {[token |-> t, job |-> j, worker |-> w]}
                 /\ settled' = IF k <= 2 THEN settled ELSE [settled EXCEPT ![t] = @ + 1]
      BY <1>3 DEF CrashInPrepare
    <2> HIDE DEF w
    <2>3. PICK steps \in Prepared(j, t, w) : \E k \in DOMAIN steps :
                 /\ db' = steps[k]
                 /\ issued' = IF k = 1 THEN issued
                              ELSE issued \cup {[token |-> t, job |-> j, worker |-> w]}
                 /\ settled' = IF k <= 2 THEN settled ELSE [settled EXCEPT ![t] = @ + 1]
      BY <2>2
    <2>4. QueueNext
      BY <2>1, <2>2, <2>3, PrepareRefines
    <2> QED
      BY <2>4
  <1> QED
    BY <1>2, <1>3

\* Only these steps work on the tables.
LEMMA OffTheTables ==
    ASSUME [Next]_vars
    PROVE  \/ UNCHANGED queue
           \/ RunTask \/ CrashInTask \/ CrashInPrepare \/ Restart
           \/ \E w \in Worker : RunPrepare(w)
           \/ \E j \in Job : enqueue_jobs(j) \/ ClockPasses(j)
  <1>1. UNCHANGED vars => UNCHANGED queue
    BY DEF vars, queue
  <1>2. ASSUME NEW w \in Worker, Reactor(w) \/ cleanup_stale_workers(w)
        PROVE  UNCHANGED queue
    BY <1>2 DEF Reactor, register_worker, handle_dispatch_ack, handle_heartbeat,
                handle_conclude, dispatch_loop, drain_pending_dispatches,
                cleanup_stale_workers, Receive, SentinelOnly, queue
  <1>3. ASSUME NEW w \in Worker,
               \/ WorkerStep(w) \/ send_identify(w) \/ SendHeartbeat(w)
               \/ wait_for_all_jobs(w) \/ WorkerDies(w)
        PROVE  UNCHANGED queue
    BY <1>3 DEF WorkerStep, handle_dispatch, handle_abort, write_outputs_grouped, execute_job, DrainResult,
                reap_completed_jobs, send_identify, SendHeartbeat, wait_for_all_jobs,
                WorkerDies, WorkerReceive, WorkerOnly, queue
  <1>4. ASSUME NEW j \in Job, handle_control_request(j) \/ drain_pending_cancel_jobs(j)
        PROVE  UNCHANGED queue
    BY <1>4 DEF handle_control_request, drain_pending_cancel_jobs, SentinelOnly, queue
  <1>5. CASE sweep_expired_dispatches \/ GraceEnds \/ CrashIdle
    BY <1>5 DEF sweep_expired_dispatches, GraceEnds, CrashIdle, SentinelOnly, queue
  <1> QED
    BY <1>1, <1>2, <1>3, <1>4, <1>5 DEF Next

\* Every step of the system.
LEMMA StepRefines ==
    ASSUME QueueTypeOK, WorkInv, [Next]_vars
    PROVE  [QueueNext]_queue
  <1>1. ASSUME NEW j \in Job, enqueue_jobs(j) \/ ClockPasses(j)
        PROVE  QueueNext
    BY <1>1 DEF enqueue_jobs, ClockPasses, QueueNext
  <1>2. CASE Restart
    <2>1. PICK expired \in SUBSET Dispatching(db) : SweepExpired(expired)
      BY <1>2 DEF Restart, SweepExpired
    <2>2. expired \in SUBSET Job
      BY DEF Dispatching
    <2> QED
      BY <2>1, <2>2 DEF QueueNext
  <1> QED
    BY <1>1, <1>2, OffTheTables, RunTaskRefines, RunPrepareRefines, CrashRefines

\* So the invariant of the queue holds of its tables.
LEMMA QueueKept ==
    ASSUME QueueTypeOK, LeaseInv, WorkInv, [Next]_vars
    PROVE  QueueTypeOK' /\ LeaseInv'
  BY StepRefines, NextInv

\* A step that leaves the tables alone keeps what is true of them.
LEMMA QueueStill ==
    ASSUME QueueTypeOK, LeaseInv, UNCHANGED << db, issued, settled >>
    PROVE  QueueTypeOK' /\ LeaseInv'
  BY NextInv DEF queue

-------------------------------------------------------------------------------
(* The reactor sends: a plan to the worker it was made for, an ABORT to    *)
(* the worker that is believed to have the job.                            *)

\* What a step of the reactor that sends a message to w leaves to be shown.
LEMMA SenderKept ==
    ASSUME SystemInv, NEW w \in Worker, NEW m \in Orders(w),
           UNCHANGED << db, issued, settled, committed, wk, toSentinel >>,
           toWorker' = [toWorker EXCEPT ![w] = Append(toWorker[w], m)],
           mem' \in Memory,
           \A v \in Worker \ {w} : Plan(v)' = Plan(v),
           \A v \in Worker : Plan(v)' \in Own(v) /\ mem'.workers[v].lease \in Own(v),
           \/ tasks' = tasks
           \/ \E x \in Task : GoodTask(x) /\ tasks' = Append(tasks, x),
           \A l \in IssuedTo(w) :
               LET s == toWorker[w]
                   k == wk[w]
               IN  /\ OnePlace(l, Plan(w)', Append(s, m), k, committed)
                   /\ Settling(l, Plan(w), s, k, committed,
                               Plan(w)', Append(s, m), k, committed)
    PROVE  SystemInv' /\ Advance
  <1>1. QueueTypeOK' /\ LeaseInv'
    BY QueueStill DEF SystemInv
  <1>2. Advance /\ PlacesInv'
    <2>1. \A v \in Worker : toWorker'[v] = IF v = w THEN Append(toWorker[w], m) ELSE toWorker[v]
      BY DEF SystemInv, OrdersInv
    <2>2. \A l \in IssuedTo(w) : l.worker = w
      BY DEF IssuedTo
    <2>3. \A l \in IssuedTo(w) : HasOnePlace(l)' /\ Moved(l)
      BY <2>1, <2>2 DEF HasOnePlace, Moved
    <2>4. committed \subseteq Token
      BY DEF SystemInv, PlacesInv
    <2> QED
      BY <2>1, <2>3, <2>4, OneWorkerMoves DEF SystemInv
  <1>3. WorkInv'
    <2>1. \A x \in Task : GoodTask(x) => x \in Work'
      BY <1>2, SetsGrow DEF Work
    <2> QED
      BY <1>2, <2>1, WorkKept DEF SystemInv
  <1>4. MailInv'
    BY <1>2, MailKept DEF SystemInv
  <1>5. OrdersInv'
    <2>1. m \in Orders(w)'
      BY <1>2, SetsGrow
    <2> QED
      BY <1>1, <1>2, <2>1, OrdersKept DEF SystemInv, QueueTypeOK
  <1>6. WorkersInv'
    BY <1>2, WorkersKept DEF SystemInv
  <1>7. SentinelInv'
    BY <1>2, SetsGrow DEF SentinelInv
  <1> QED
    BY <1>1, <1>2, <1>3, <1>4, <1>5, <1>6, <1>7 DEF SystemInv

\* A plan is sent, or dropped because its worker is busy or gone.
LEMMA DrainSteps ==
    ASSUME SystemInv, NEW w \in Worker, drain_pending_dispatches(w)
    PROVE  SystemInv' /\ Advance
  <1> DEFINE l == Plan(w)
             old == mem.workers[w]
             sent == [known |-> TRUE, status |-> "Busy", lease |-> l]
             gone == [old EXCEPT !.lease = NoLease]
             x == [op |-> "defer", job |-> l.job]
             y == [op |-> "running", lease |-> l]
  <1>0. mem \in Memory /\ old \in Entry
    BY DEF SystemInv, SentinelInv, Memory, Entry
  <1>1. l \in IssuedTo(w) /\ l \in issued /\ l \in Lease /\ l \in LeaseOrNone
    <2>1. l # NoLease /\ l \in Own(w)
      BY DEF drain_pending_dispatches, SystemInv, SentinelInv, Plan
    <2> QED
      BY <2>1, LeaseFacts DEF SystemInv, Own, IssuedTo, LeaseOrNone
  <1>2. sent \in Entry /\ gone \in Entry /\ gone.lease = NoLease /\ sent.lease = l
    BY <1>0, <1>1 DEF Entry, WorkerStatus, LeaseOrNone
  <1>3. /\ UNCHANGED << db, issued, settled, committed, wk, toSentinel >>
        /\ \E e \in {old, sent, gone} :
             /\ mem' = [mem EXCEPT !.plans[w] = NoPlan, !.workers[w] = e]
             /\ \/ e = sent /\ toWorker' = Dispatched(w, Order(l))
                            /\ (tasks' = tasks \/ tasks' = Append(tasks, y))
                \/ /\ e \in {old, gone}
                   /\ toWorker' = toWorker /\ tasks' = Append(tasks, x)
    <2>1. UNCHANGED << db, issued, settled, committed, wk, toSentinel >>
      BY DEF drain_pending_dispatches, SentinelOnly
    <2>2. CASE DropPlan(w, l, old)
      BY <2>1, <2>2 DEF DropPlan, Submit
    <2>3. CASE SendPlan(w, l)
      BY <2>1, <2>3 DEF SendPlan, Submit, Order
    <2>4. CASE DropPlan(w, l, gone)
      BY <2>1, <2>4 DEF DropPlan, Submit
    <2> QED
      BY <2>2, <2>3, <2>4 DEF drain_pending_dispatches, Plan
  <1>4. x \in Task /\ GoodTask(x) /\ y \in Task /\ GoodTask(y)
    BY <1>1, LeaseFacts DEF SystemInv, Task, GoodTask
  <1>5. PICK e \in {old, sent, gone} :
             /\ mem' = [mem EXCEPT !.plans[w] = NoPlan, !.workers[w] = e]
             /\ \/ e = sent /\ toWorker' = Dispatched(w, Order(l))
                            /\ (tasks' = tasks \/ tasks' = Append(tasks, y))
                \/ /\ e \in {old, gone}
                   /\ toWorker' = toWorker /\ tasks' = Append(tasks, x)
    BY <1>3
  <1>6. e \in Entry
    BY <1>0, <1>2
  <1>7. /\ mem' \in Memory
        /\ mem'.plans = [mem.plans EXCEPT ![w] = NoPlan]
        /\ mem'.workers = [mem.workers EXCEPT ![w] = e]
    <2> DEFINE f == [mem.workers EXCEPT ![w] = e]
               p == [mem.plans EXCEPT ![w] = NoPlan]
    <2>1. f \in [Worker -> Entry] /\ p \in [Worker -> PlanEntry]
      BY <1>0, <1>6 DEF Memory, Entry, PlanEntry, NoPlan, LeaseOrNone
    <2>2. mem' = [mem EXCEPT !.plans = p, !.workers = f]
      BY <1>0, <1>5 DEF Memory
    <2> HIDE DEF f, p
    <2>3. mem' \in Memory /\ mem'.plans = p /\ mem'.workers = f
      BY <1>0, <2>1, <2>2 DEF Memory, Entry, PlanEntry
    <2> QED
      BY <2>3 DEF f, p
  <1>8. mem.plans \in [Worker -> PlanEntry] /\ mem.workers \in [Worker -> Entry]
    BY <1>0 DEF Memory, PlanEntry, Entry
  <1>9. /\ Plan(w)' = NoLease /\ mem'.workers[w] = e
        /\ \A v \in Worker \ {w} : Plan(v)' = Plan(v) /\ mem'.workers[v] = mem.workers[v]
    BY <1>7, <1>8 DEF Plan, NoPlan
  <1> HIDE DEF sent, gone, old, x, y
  <1>10. CASE toWorker' = toWorker /\ tasks' = Append(tasks, x) /\ e \in {old, gone}
    <2>1. \A v \in Worker : /\ Plan(v)' = Plan(v) \/ Plan(v)' = NoLease
                            /\ mem'.workers[v].lease = mem.workers[v].lease
                                 \/ mem'.workers[v].lease = NoLease
      BY <1>2, <1>9, <1>10 DEF old
    <2> QED
      BY <1>3, <1>4, <1>7, <1>10, <2>1, ReactorKept
  <1>11. CASE /\ e = sent /\ toWorker' = Dispatched(w, Order(l))
              /\ (tasks' = tasks \/ tasks' = Append(tasks, y))
    <2>1. Order(l) \in Orders(w)
      BY <1>1 DEF Orders
    <2>2. toWorker' = [toWorker EXCEPT ![w] = Append(toWorker[w], Order(l))]
      BY <1>11 DEF Dispatched
    <2>3. \A v \in Worker : Plan(v)' \in Own(v) /\ mem'.workers[v].lease \in Own(v)
      BY <1>1, <1>2, <1>9, <1>11 DEF SystemInv, SentinelInv, Own
    <2>4. toWorker[w] \in Seq(Orders(w))
      BY DEF SystemInv, OrdersInv
    <2>5. ASSUME NEW m \in IssuedTo(w)
          PROVE  /\ OnePlace(m, NoLease, Append(toWorker[w], Order(l)), wk[w], committed)
                 /\ Settling(m, l, toWorker[w], wk[w], committed,
                             NoLease, Append(toWorker[w], Order(l)), wk[w], committed)
      <3>1. OnePlace(m, l, toWorker[w], wk[w], committed)
        BY DEF SystemInv, PlacesInv, HasOnePlace, IssuedTo
      <3>2. m # NoLease
        BY LeaseFacts DEF SystemInv, IssuedTo
      <3> QED
        BY <2>1, <2>4, <3>1, <3>2, PlanSent
    <2> QED
      BY <1>3, <1>4, <1>7, <1>9, <1>11, <2>1, <2>2, <2>3, <2>5, SenderKept
  <1> QED
    BY <1>5, <1>10, <1>11

\* An answered cancel request is closed; an ABORT may be sent.
LEMMA CancelSteps ==
    ASSUME SystemInv, NEW j \in Job, drain_pending_cancel_jobs(j)
    PROVE  SystemInv' /\ Advance
  <1> DEFINE m == [op |-> "ABORT", job |-> j]
  <1>0. mem \in Memory
    BY DEF SystemInv, SentinelInv
  <1>1. /\ UNCHANGED << db, issued, settled, committed, wk, toSentinel, tasks >>
        /\ mem' = [mem EXCEPT !.cancels[j] = "closed"]
        /\ toWorker' = toWorker \/ \E w \in Worker : toWorker' = Dispatched(w, m)
    BY DEF drain_pending_cancel_jobs, SentinelOnly, Holders, KnownWorkers
  <1>2. mem' \in Memory
    BY <1>0, <1>1 DEF Memory
  <1>3. \A v \in Worker : Plan(v)' = Plan(v) /\ mem'.workers[v].lease = mem.workers[v].lease
    BY <1>0, <1>1 DEF Memory, Plan
  <1>4. CASE toWorker' = toWorker
    BY <1>1, <1>2, <1>3, <1>4, ReactorKept
  <1>5. ASSUME NEW w \in Worker, toWorker' = Dispatched(w, m)
        PROVE  SystemInv' /\ Advance
    <2>1. m \in Orders(w)
      BY DEF Orders
    <2>2. toWorker' = [toWorker EXCEPT ![w] = Append(toWorker[w], m)]
      BY <1>5 DEF Dispatched
    <2>3. \A v \in Worker : Plan(v)' \in Own(v) /\ mem'.workers[v].lease \in Own(v)
      BY <1>3 DEF SystemInv, SentinelInv
    <2>4. toWorker[w] \in Seq(Orders(w))
      BY DEF SystemInv, OrdersInv
    <2>5. ASSUME NEW l \in IssuedTo(w)
          PROVE  /\ OnePlace(l, Plan(w), Append(toWorker[w], m), wk[w], committed)
                 /\ Settling(l, Plan(w), toWorker[w], wk[w], committed,
                             Plan(w), Append(toWorker[w], m), wk[w], committed)
      <3>1. OnePlace(l, Plan(w), toWorker[w], wk[w], committed)
        BY DEF SystemInv, PlacesInv, HasOnePlace, IssuedTo
      <3>2. m # Order(l)
        BY DEF Order
      <3> HIDE DEF m
      <3> QED
        BY <2>1, <2>4, <3>1, <3>2, OtherSent
    <2> HIDE DEF m
    <2> QED
      BY ZenonT(60), <1>1, <1>2, <1>3, <2>1, <2>2, <2>3, <2>5, SenderKept
  <1> QED
    BY <1>1, <1>4, <1>5

-------------------------------------------------------------------------------
(* The workers. *)

\* What a step of worker w leaves to be shown.  The pipe to it becomes s,
\* its state k, and what was committed C.
LEMMA WorkerKept ==
    ASSUME SystemInv, NEW w \in Worker, NEW s, NEW k,
           UNCHANGED << db, tasks, mem, issued, settled >>,
           committed \subseteq committed',
           \A t \in committed' : t \in committed \/ \E l \in IssuedTo(w) : l.token = t,
           \/ toSentinel' = toSentinel
           \/ \E m \in Message : /\ toSentinel' = [toSentinel EXCEPT ![w] = Append(toSentinel[w], m)]
                                 /\ GoodMessage(m) \/ GoodMessage(m)'
           \/ \E n \in 0 .. Len(toSentinel[w]) :
                 toSentinel' = [toSentinel EXCEPT ![w] = SubSeq(toSentinel[w], 1, n)],
           toWorker' = [toWorker EXCEPT ![w] = s],
           \/ s = toWorker[w]
           \/ toWorker[w] # << >> /\ s = Tail(toWorker[w])
           \/ s = << >>,
           wk' = [wk EXCEPT ![w] = k],
           WorkerOK(w, k) \/ WorkerOK(w, k)',
           \A l \in IssuedTo(w) :
               /\ OnePlace(l, Plan(w), s, k, committed')
               /\ Settling(l, Plan(w), toWorker[w], wk[w], committed,
                           Plan(w), s, k, committed')
    PROVE  SystemInv' /\ Advance
  <1>1. QueueTypeOK' /\ LeaseInv'
    BY QueueStill DEF SystemInv
  <1>2. Advance /\ PlacesInv'
    <2>1. /\ \A v \in Worker : toWorker'[v] = IF v = w THEN s ELSE toWorker[v]
          /\ \A v \in Worker : wk'[v] = IF v = w THEN k ELSE wk[v]
      BY DEF SystemInv, OrdersInv, WorkersInv
    <2>2. \A l \in IssuedTo(w) : l.worker = w
      BY DEF IssuedTo
    <2>3. \A v \in Worker : Plan(v)' = Plan(v)
      BY DEF Plan
    <2>4. \A l \in IssuedTo(w) : HasOnePlace(l)' /\ Moved(l)
      BY <2>1, <2>2, <2>3 DEF HasOnePlace, Moved
    <2>5. committed' \subseteq Token
      BY LeaseFacts DEF SystemInv, PlacesInv, IssuedTo
    <2>6. \A v \in Worker \ {w} : /\ Plan(v)' = Plan(v)
                                  /\ toWorker'[v] = toWorker[v]
                                  /\ wk'[v] = wk[v]
      BY <2>1, <2>3
    <2> QED
      BY <2>4, <2>5, <2>6, OneWorkerMoves DEF SystemInv
  <1>3. WorkInv'
    BY <1>2, WorkKept DEF SystemInv
  <1>4. MailInv'
    <2>1. \A m \in Message : GoodMessage(m) \/ GoodMessage(m)' => m \in Mail'
      BY <1>2, SetsGrow DEF Mail
    <2> QED
      BY <1>2, <2>1, MailKept DEF SystemInv
  <1>5. OrdersInv'
    <2>1. s = toWorker[w] => toWorker' = toWorker
      BY DEF SystemInv, OrdersInv
    <2> QED
      BY <1>1, <1>2, <2>1, OrdersKept DEF SystemInv, QueueTypeOK
  <1>6. WorkersInv'
    <2>1. WorkerOK(w, k)'
      BY <1>2, SetsGrow
    <2> QED
      BY <1>2, <2>1, WorkersKept DEF SystemInv
  <1>7. SentinelInv'
    <2>1. \A v \in Worker : Plan(v)' = Plan(v)
      BY DEF Plan
    <2> QED
      BY <1>2, <2>1, SetsGrow DEF SystemInv, SentinelInv
  <1> QED
    BY <1>1, <1>2, <1>3, <1>4, <1>5, <1>6, <1>7 DEF SystemInv

\* A worker and the pipe to it, as the invariant describes them.
LEMMA WorkerFacts ==
    ASSUME SystemInv, NEW w \in Worker
    PROVE  /\ WorkerOK(w, wk[w]) /\ wk[w] \in WorkerState
           /\ toWorker[w] \in Seq(Orders(w))
           /\ wk = [wk EXCEPT ![w] = wk[w]]
           /\ toWorker = [toWorker EXCEPT ![w] = toWorker[w]]
           /\ \A l \in IssuedTo(w) :
                 /\ OnePlace(l, Plan(w), toWorker[w], wk[w], committed)
                 /\ l \in issued /\ l \in Lease /\ l.job \in Job /\ l.token \in Token
  <1>1. \A l \in IssuedTo(w) : l \in issued /\ l.worker = w
    BY DEF IssuedTo
  <1>2. \A l \in issued : l \in Lease /\ l.job \in Job /\ l.token \in Token
    BY LeaseFacts DEF SystemInv
  <1>3. \A l \in IssuedTo(w) : OnePlace(l, Plan(w), toWorker[w], wk[w], committed)
    BY <1>1 DEF SystemInv, PlacesInv, HasOnePlace
  <1> QED
    BY <1>1, <1>2, <1>3 DEF SystemInv, WorkersInv, OrdersInv

\* The timers of the worker's event loop.
LEMMA TimerMessages ==
    ASSUME SystemInv, NEW w \in Worker, send_identify(w) \/ SendHeartbeat(w)
    PROVE  SystemInv' /\ Advance
  <1> DEFINE a == [op |-> "IDENTIFY"]
             b == [op |-> "HEARTBEAT", active |-> ActiveJobs(w)]
  <1>1. UNCHANGED << db, tasks, mem, issued, settled, toWorker, wk, committed >>
    BY DEF send_identify, SendHeartbeat, WorkerOnly
  <1>2. ActiveJobs(w) \subseteq Job
    BY WorkerFacts DEF WorkerOK, ActiveJobs
  <1>3. a \in Message /\ GoodMessage(a) /\ b \in Message /\ GoodMessage(b)
    BY <1>2 DEF Message, GoodMessage
  <1>4. \E m \in {a, b} : toSentinel' = [toSentinel EXCEPT ![w] = Append(toSentinel[w], m)]
    BY DEF send_identify, SendHeartbeat, Send
  <1> HIDE DEF a, b
  <1>5. \A l \in IssuedTo(w) :
          /\ OnePlace(l, Plan(w), toWorker[w], wk[w], committed')
          /\ Settling(l, Plan(w), toWorker[w], wk[w], committed,
                      Plan(w), toWorker[w], wk[w], committed')
    BY <1>1, WorkerFacts, PipeKept
  <1>6. toWorker' = [toWorker EXCEPT ![w] = toWorker[w]] /\ wk' = [wk EXCEPT ![w] = wk[w]]
    BY <1>1, WorkerFacts
  <1>7. WorkerOK(w, wk[w])
    BY WorkerFacts
  <1> QED
    BY <1>1, <1>3, <1>4, <1>5, <1>6, <1>7, WorkerKept

\* The worker takes a DISPATCH: it starts the job, or is at capacity.
LEMMA DispatchTaken ==
    ASSUME SystemInv, NEW w \in Worker, handle_dispatch(w)
    PROVE  SystemInv' /\ Advance
  <1> DEFINE l == Head(toWorker[w]).lease
             a == [op |-> "DISPATCH_ACK", lease |-> l]
             b == Conclusion(l, "rejected")
             k == [IdleWorker EXCEPT !.stage = "running", !.lease = l]
             s == Tail(toWorker[w])
  <1>1. /\ UNCHANGED << db, tasks, mem, issued, settled, committed >>
        /\ toWorker[w] # << >> /\ toWorker' = [toWorker EXCEPT ![w] = s]
        /\ Head(toWorker[w]).op = "DISPATCH" /\ wk[w].up
    BY DEF handle_dispatch, WorkerReceive, WorkerOnly, Alive
  <1>2. l \in IssuedTo(w) /\ Head(toWorker[w]) = Order(l)
    <2>1. Head(toWorker[w]) \in Orders(w)
      BY <1>1, WorkerFacts, Fifo
    <2> QED
      BY <1>1, <2>1 DEF Orders, Order
  <1>3. l \in issued /\ l \in Lease
    BY <1>2, WorkerFacts
  <1>4. a \in Message /\ GoodMessage(a) /\ b \in Message /\ GoodMessage(b)
    BY <1>3 DEF Message, GoodMessage, Conclusion, ReceiptStatus, Credible
  <1>5. CASE wk[w].stage = "idle"
    <2>1. toSentinel' = [toSentinel EXCEPT ![w] = Append(toSentinel[w], a)]
      BY <1>5 DEF handle_dispatch, Send
    <2>2. wk' = [wk EXCEPT ![w] = k]
      BY <1>5 DEF handle_dispatch
    <2>3. k.stage = "running" /\ k.lease = l /\ k.up
      BY DEF IdleWorker
    <2>4. WorkerOK(w, k)
      BY <1>2, <1>3 DEF WorkerOK, WorkerState, IdleWorker, LeaseOrNone
    <2>5. ASSUME NEW m \in IssuedTo(w)
          PROVE  /\ OnePlace(m, Plan(w), s, k, committed)
                 /\ Settling(m, Plan(w), toWorker[w], wk[w], committed,
                             Plan(w), s, k, committed)
      <3>1. ~Runs(m, wk[w]) /\ (Runs(m, k) <=> m = l)
        BY <1>5, <2>3 DEF Runs
      <3> HIDE DEF k
      <3> QED
        BY <1>1, <1>2, <2>3, <3>1, WorkerFacts, JobStarted
    <2> HIDE DEF k, a, s
    <2> QED
      BY <1>1, <1>4, <2>1, <2>2, <2>4, <2>5, WorkerKept DEF s
  <1>6. CASE wk[w].stage # "idle"
    <2>1. toSentinel' = [toSentinel EXCEPT ![w] = Append(toSentinel[w], b)]
      BY <1>6 DEF handle_dispatch, Send
    <2>2. wk' = [wk EXCEPT ![w] = wk[w]] /\ WorkerOK(w, wk[w])
      BY <1>6, WorkerFacts DEF handle_dispatch
    <2>3. \A m \in IssuedTo(w) :
            /\ OnePlace(m, Plan(w), s, wk[w], committed)
            /\ Settling(m, Plan(w), toWorker[w], wk[w], committed,
                        Plan(w), s, wk[w], committed)
      BY <1>1, WorkerFacts, MessageTaken
    <2> HIDE DEF b, s
    <2> QED
      BY <1>1, <1>4, <2>1, <2>2, <2>3, WorkerKept DEF s
  <1> QED
    BY <1>5, <1>6

\* The worker takes an ABORT.
LEMMA AbortTaken ==
    ASSUME SystemInv, NEW w \in Worker, handle_abort(w)
    PROVE  SystemInv' /\ Advance
  <1> DEFINE s == Tail(toWorker[w])
             c == [wk[w] EXCEPT !.cancelled = TRUE]
  <1>1. /\ UNCHANGED << db, tasks, mem, issued, settled, committed, toSentinel >>
        /\ toWorker[w] # << >> /\ toWorker' = [toWorker EXCEPT ![w] = s]
    BY DEF handle_abort, WorkerReceive, WorkerOnly
  <1>2. wk[w] \in WorkerState /\ WorkerOK(w, wk[w])
    BY WorkerFacts
  <1>3. wk' = [wk EXCEPT ![w] = wk[w]]
          \/ (wk[w].stage = "running" /\ wk' = [wk EXCEPT ![w] = c])
    <2>1. wk' = wk \/ (wk[w].stage = "running" /\ wk' = [wk EXCEPT ![w].cancelled = TRUE])
      BY DEF handle_abort
    <2>2. [wk EXCEPT ![w].cancelled = TRUE] = [wk EXCEPT ![w] = c]
      BY DEF SystemInv, WorkersInv
    <2> QED
      BY <2>1, <2>2, WorkerFacts
  <1>4. \E k \in {wk[w], c} : wk' = [wk EXCEPT ![w] = k] /\ WorkerOK(w, k)
    <2>1. wk[w].stage = "running" => WorkerOK(w, c)
      BY <1>2 DEF WorkerOK, WorkerState
    <2> QED
      BY <1>2, <1>3, <2>1
  <1>5. c.stage = wk[w].stage /\ c.lease = wk[w].lease /\ c.up = wk[w].up
    BY <1>2 DEF WorkerState
  <1> HIDE DEF c
  <1>6. PICK k \in {wk[w], c} : wk' = [wk EXCEPT ![w] = k] /\ WorkerOK(w, k)
    BY <1>4
  <1>7. k.stage = wk[w].stage /\ k.lease = wk[w].lease /\ k.up = wk[w].up
    BY <1>5, <1>6
  <1>8. ASSUME NEW m \in IssuedTo(w)
        PROVE  /\ OnePlace(m, Plan(w), s, k, committed)
               /\ Settling(m, Plan(w), toWorker[w], wk[w], committed,
                           Plan(w), s, k, committed)
    <2>1. Runs(m, k) <=> Runs(m, wk[w])
      BY <1>7 DEF Runs
    <2> QED
      BY <1>1, <1>7, <2>1, WorkerFacts, MessageTaken
  <1> HIDE DEF s
  <1> QED
    BY <1>1, <1>6, <1>8, WorkerKept DEF s

\* Leases that share their token are the same lease.
LEMMA SameToken ==
    ASSUME SystemInv, NEW w, NEW l \in IssuedTo(w), NEW m \in IssuedTo(w),
           l.token = m.token
    PROVE  l = m
  BY DEF SystemInv, LeaseInv, TokensUnique, IssuedTo

\* The job's thread ends.
LEMMA JobEnds ==
    ASSUME SystemInv, NEW w \in Worker, execute_job(w)
    PROVE  SystemInv' /\ Advance
  <1>0. PICK l : l = wk[w].lease
    OBVIOUS
  <1> DEFINE s == toWorker[w]
  <1>1. /\ UNCHANGED << db, tasks, mem, issued, settled, toSentinel, toWorker >>
        /\ wk[w].stage = "running"
    BY DEF execute_job, WorkerOnly, net
  <1>2. PICK status \in JobOutcome(w, wk[w].cancelled) :
          /\ wk' = [wk EXCEPT ![w].stage = "finished", ![w].result = status]
          /\ committed' = IF status = "success" THEN committed \cup {l.token} ELSE committed
    BY <1>0 DEF execute_job
  <1>3. status \in ReceiptStatus /\ status \in {"success", "aborted", "transient", "permanent"}
    BY <1>2 DEF JobOutcome, ReceiptStatus
  <1>10. PICK k : k = [wk[w] EXCEPT !.stage = "finished", !.result = status]
    OBVIOUS
  <1>4. wk' = [wk EXCEPT ![w] = k]
    BY <1>2, <1>10 DEF SystemInv, WorkersInv
  <1>5. wk[w] \in WorkerState /\ WorkerOK(w, wk[w]) /\ l \in IssuedTo(w)
    BY <1>0, <1>1, WorkerFacts DEF WorkerOK
  <1>6. k \in WorkerState /\ k.stage = "finished" /\ k.lease = l /\ k.result = status
          /\ k.up = wk[w].up
    BY <1>0, <1>3, <1>5, <1>10 DEF WorkerState
  <1>7. ASSUME NEW m \in IssuedTo(w)
        PROVE  /\ OnePlace(m, Plan(w), s, k, committed')
               /\ Settling(m, Plan(w), s, wk[w], committed, Plan(w), s, k, committed')
    <2>1. ~Runs(m, k)
      BY <1>6 DEF Runs
    <2>2. m.token \in committed' => m.token \in committed \/ Runs(m, wk[w])
      BY <1>0, <1>1, <1>2, <1>5, SameToken DEF Runs
    <2>3. committed \subseteq committed'
      BY <1>2
    <2> QED
      BY <1>6, <2>1, <2>2, <2>3, WorkerFacts, PipeKept
  <1>8. WorkerOK(w, k)'
    <2>1. status = "success" => l.token \in committed'
      BY <1>2
    <2>2. status = "aborted" => IsBarren(l)'
      <3>1. status = "aborted" => committed' = committed
        BY <1>2
      <3>2. Runs(l, wk[w]) /\ ~Runs(l, k)
        BY <1>0, <1>1, <1>6 DEF Runs
      <3>3. status = "aborted" => Barren(l, Plan(w), s, k, committed')
        BY <1>5, <3>1, <3>2, WorkerFacts, EndedIsBarren
      <3>4. l.worker = w /\ wk'[w] = k /\ Plan(w)' = Plan(w)
        BY <1>1, <1>4, <1>5 DEF IssuedTo, SystemInv, WorkersInv, Plan
      <3> QED
        BY <1>1, <3>3, <3>4 DEF IsBarren
    <2>3. l \in IssuedTo(w)'
      BY <1>1, <1>5 DEF IssuedTo
    <2> QED
      BY <1>3, <1>6, <2>1, <2>2, <2>3 DEF WorkerOK, Credible
  <1>9. /\ toWorker' = [toWorker EXCEPT ![w] = s]
        /\ committed \subseteq committed'
        /\ \A t \in committed' : t \in committed \/ \E m \in IssuedTo(w) : m.token = t
    BY <1>1, <1>2, <1>5, WorkerFacts
  <1> QED
    BY <1>1, <1>4, <1>7, <1>8, <1>9, WorkerKept

\* The result is sent, and the thread reaped.
LEMMA ResultSent ==
    ASSUME SystemInv, NEW w \in Worker, DrainResult(w) \/ reap_completed_jobs(w)
    PROVE  SystemInv' /\ Advance
  <1> DEFINE l == wk[w].lease
             s == toWorker[w]
             m == Conclusion(l, wk[w].result)
             f == [wk[w] EXCEPT !.stage = "sent", !.result = "none"]
  <1>1. /\ UNCHANGED << db, tasks, mem, issued, settled, toWorker, committed >>
        /\ wk[w].stage \in {"finished", "sent"} /\ wk[w].up
    BY DEF DrainResult, reap_completed_jobs, WorkerOnly, net, Alive
  <1>2. \E k \in {f, IdleWorker} : wk' = [wk EXCEPT ![w] = k]
    <2>1. [wk EXCEPT ![w].stage = "sent", ![w].result = "none"] = [wk EXCEPT ![w] = f]
      BY DEF SystemInv, WorkersInv
    <2> QED
      BY <2>1 DEF DrainResult, reap_completed_jobs
  <1>3. wk[w] \in WorkerState /\ WorkerOK(w, wk[w]) /\ l \in IssuedTo(w)
    BY <1>1, WorkerFacts DEF WorkerOK
  <1>4. /\ f \in WorkerState /\ f.stage = "sent" /\ f.lease = l /\ f.up
        /\ IdleWorker \in WorkerState /\ IdleWorker.stage = "idle" /\ IdleWorker.up
    BY <1>1, <1>3 DEF WorkerState, IdleWorker, LeaseOrNone
  <1>5. \/ toSentinel' = toSentinel
        \/ /\ wk[w].stage = "finished"
           /\ toSentinel' = [toSentinel EXCEPT ![w] = Append(toSentinel[w], m)]
    BY DEF DrainResult, reap_completed_jobs, Send, net
  <1>6. wk[w].stage = "finished" => m \in Message /\ GoodMessage(m)
    <2>1. l \in issued /\ l \in Lease
      BY <1>3, WorkerFacts
    <2>2. wk[w].stage = "finished" => wk[w].result \in ReceiptStatus /\ Credible(l, wk[w].result)
      BY <1>3 DEF WorkerOK
    <2> QED
      BY <2>1, <2>2 DEF Message, GoodMessage, Conclusion
  <1> HIDE DEF f, m
  <1>7. PICK k \in {f, IdleWorker} : wk' = [wk EXCEPT ![w] = k]
    BY <1>2
  <1>8. k \in WorkerState /\ k.stage \in {"idle", "sent"} /\ k.up /\ WorkerOK(w, k)
    BY <1>3, <1>4, <1>7 DEF WorkerOK
  <1>9. ASSUME NEW n \in IssuedTo(w)
        PROVE  /\ OnePlace(n, Plan(w), s, k, committed')
               /\ Settling(n, Plan(w), s, wk[w], committed, Plan(w), s, k, committed')
    <2>1. ~Runs(n, k)
      BY <1>8 DEF Runs
    <2> QED
      BY <1>1, <1>8, <2>1, WorkerFacts, PipeKept
  <1>10. toWorker' = [toWorker EXCEPT ![w] = s]
    BY <1>1, WorkerFacts
  <1> QED
    BY <1>1, <1>5, <1>6, <1>7, <1>8, <1>9, <1>10, WorkerKept

\* The worker is gone: it was shut down and said what became of its job, or
\* it died.
LEMMA WorkerEnds ==
    ASSUME SystemInv, NEW w \in Worker, wait_for_all_jobs(w) \/ WorkerDies(w)
    PROVE  SystemInv' /\ Advance
  <1>0. PICK l : l = wk[w].lease
    OBVIOUS
  <1> DEFINE k == GoneWorker
  <1>1. /\ UNCHANGED << db, tasks, mem, issued, settled >>
        /\ wk' = [wk EXCEPT ![w] = k]
        /\ toWorker' = [toWorker EXCEPT ![w] = << >>]
    BY DEF wait_for_all_jobs, WorkerDies, WorkerOnly
  <1>2. k \in WorkerState /\ k.stage = "idle" /\ ~k.up /\ WorkerOK(w, k)
    BY DEF GoneWorker, IdleWorker, WorkerState, WorkerOK, LeaseOrNone
  <1>3. \/ /\ committed' = committed
           /\ \/ toSentinel' = toSentinel
              \/ \E n \in 0 .. Len(toSentinel[w]) :
                   toSentinel' = [toSentinel EXCEPT ![w] = SubSeq(toSentinel[w], 1, n)]
              \/ /\ wk[w].stage = "finished"
                 /\ toSentinel' = [toSentinel EXCEPT ![w] =
                                     Append(toSentinel[w], Conclusion(l, wk[w].result))]
        \/ /\ wk[w].stage = "running"
           /\ \E status \in JobOutcome(w, TRUE) :
                toSentinel' = [toSentinel EXCEPT ![w] =
                                 Append(toSentinel[w], Conclusion(l, status))]
           /\ committed' = committed \/ committed' = committed \cup {l.token}
    <2>1. CASE WorkerDies(w)
      BY <2>1 DEF WorkerDies
    <2>2. CASE wait_for_all_jobs(w)
      <3>1. CASE wk[w].stage \in {"idle", "sent"} /\ UNCHANGED << toSentinel, promoted, committed >>
        BY <3>1
      <3>2. CASE /\ wk[w].stage = "finished"
                 /\ Send(w, Conclusion(wk[w].lease, wk[w].result))
                 /\ UNCHANGED << promoted, committed >>
        BY <1>0, <3>2 DEF Send
      <3>3. CASE /\ wk[w].stage = "running"
                 /\ \E status \in JobOutcome(w, TRUE) :
                      /\ Send(w, Conclusion(wk[w].lease, status))
                      /\ \/ UNCHANGED << promoted, committed >>
                         \/ /\ status = "aborted"
                            /\ promoted' = promoted \cup {wk[w].lease.token}
                            /\ committed' \in {committed, committed \cup {wk[w].lease.token}}
        BY <1>0, <3>3 DEF Send
      <3> QED
        BY <2>2, <3>1, <3>2, <3>3 DEF wait_for_all_jobs
    <2> QED
      BY <2>1, <2>2
  <1>4. wk[w] \in WorkerState /\ WorkerOK(w, wk[w])
    BY WorkerFacts
  <1>5. wk[w].stage # "idle" => l \in IssuedTo(w) /\ l \in issued /\ l \in Lease
    BY <1>0, <1>4, WorkerFacts DEF WorkerOK
  <1> HIDE DEF k
  <1>6. /\ committed \subseteq committed'
        /\ \A t \in committed' : t \in committed \/ \E m \in IssuedTo(w) : m.token = t
    BY <1>3, <1>5
  <1>7. ASSUME NEW m \in IssuedTo(w)
        PROVE  /\ OnePlace(m, Plan(w), << >>, k, committed')
               /\ Settling(m, Plan(w), toWorker[w], wk[w], committed,
                           Plan(w), << >>, k, committed')
    <2>1. ~Runs(m, k)
      BY <1>2 DEF Runs
    <2>2. m.token \in committed' => m.token \in committed \/ Runs(m, wk[w])
      BY <1>0, <1>3, <1>5, SameToken DEF Runs
    <2> QED
      BY <1>2, <1>6, <2>1, <2>2, WorkerFacts, PipeGone
  <1>8. \/ toSentinel' = toSentinel
        \/ \E m \in Message : /\ toSentinel' = [toSentinel EXCEPT ![w] = Append(toSentinel[w], m)]
                              /\ GoodMessage(m) \/ GoodMessage(m)'
        \/ \E n \in 0 .. Len(toSentinel[w]) :
              toSentinel' = [toSentinel EXCEPT ![w] = SubSeq(toSentinel[w], 1, n)]
    <2>1. wk[w].stage = "finished" =>
            LET m == Conclusion(l, wk[w].result) IN m \in Message /\ GoodMessage(m)
      <3>1. wk[w].stage = "finished" =>
              wk[w].result \in ReceiptStatus /\ Credible(l, wk[w].result)
        BY <1>0, <1>4 DEF WorkerOK
      <3> QED
        BY <1>5, <3>1 DEF Message, GoodMessage, Conclusion
    <2>2. ASSUME wk[w].stage = "running", NEW status \in JobOutcome(w, TRUE)
          PROVE  Conclusion(l, status) \in Message /\ GoodMessage(Conclusion(l, status))'
      <3>1. status \in ReceiptStatus /\ status # "success"
        BY DEF JobOutcome, ReceiptStatus
      <3>2. Runs(l, wk[w]) /\ ~Runs(l, k) /\ l \in IssuedTo(w)
        BY <1>0, <1>2, <1>5, <2>2 DEF Runs
      <3>3. ~Sent(l, << >>)
        BY DEF Sent
      <3>4. Barren(l, Plan(w), << >>, k, committed')
        BY <1>2, <3>2, <3>3, WorkerFacts, EndedIsBarren
      <3>5. l.worker = w /\ wk'[w] = k /\ toWorker'[w] = << >> /\ Plan(w)' = Plan(w)
        BY <1>1, <3>2 DEF IssuedTo, SystemInv, WorkersInv, OrdersInv, Plan
      <3>6. IsBarren(l)'
        BY <3>4, <3>5 DEF IsBarren
      <3>7. Conclusion(l, status) = [op |-> "CONCLUDE", lease |-> l, status |-> status]
        BY DEF Conclusion
      <3>8. Conclusion(l, status) \in Message
        BY <1>5, <2>2, <3>1, <3>7 DEF Message
      <3>9. l \in issued'
        BY <1>1, <1>5, <2>2
      <3> QED
        BY <3>1, <3>6, <3>7, <3>8, <3>9 DEF GoodMessage, Credible
    <2> QED
      BY <1>3, <2>1, <2>2
  <1> QED
    BY <1>1, <1>2, <1>6, <1>7, <1>8, WorkerKept

-------------------------------------------------------------------------------
(* The database thread, crashes and restarts. *)

\* What a step that works on the tables leaves to be shown.
LEMMA TablesKept ==
    ASSUME SystemInv, QueueTypeOK', LeaseInv',
           UNCHANGED << issued, committed, wk, toWorker, toSentinel >>,
           mem' \in Memory,
           \A w \in Worker : /\ Plan(w)' = Plan(w) \/ Plan(w)' = NoLease
                             /\ mem'.workers[w].lease = mem.workers[w].lease
                                  \/ mem'.workers[w].lease = NoLease,
           tasks' = tasks \/ (tasks # << >> /\ tasks' = Tail(tasks))
    PROVE  SystemInv' /\ Advance
  <1>1. Advance /\ PlacesInv'
    BY NothingMoves DEF SystemInv
  <1>2. WorkInv'
    BY <1>1, WorkKept DEF SystemInv
  <1>3. MailInv'
    BY <1>1, MailKept DEF SystemInv
  <1>4. OrdersInv'
    BY <1>1, OrdersKept DEF SystemInv, QueueTypeOK
  <1>5. WorkersInv'
    BY <1>1, WorkersKept DEF SystemInv
  <1>6. SentinelInv'
    <2>1. \A w \in Worker : NoLease \in Own(w)' /\ \A l \in Own(w) : l \in Own(w)'
      BY <1>1, SetsGrow DEF Own
    <2> QED
      BY <2>1 DEF SystemInv, SentinelInv
  <1> QED
    BY <1>1, <1>2, <1>3, <1>4, <1>5, <1>6 DEF SystemInv

\* A task other than prepare, the clients of the queue and the clock.
LEMMA TableSteps ==
    ASSUME SystemInv, [Next]_vars,
           RunTask \/ \E j \in Job : enqueue_jobs(j) \/ ClockPasses(j)
    PROVE  SystemInv' /\ Advance
  <1>0. mem \in Memory
    BY DEF SystemInv, SentinelInv
  <1>1. QueueTypeOK' /\ LeaseInv'
    BY QueueKept DEF SystemInv
  <1>2. CASE RunTask
    <2> DEFINE x == Head(tasks)
    <2>1. /\ UNCHANGED << issued, committed, wk, toWorker, toSentinel >>
          /\ tasks # << >> /\ tasks' = Tail(tasks)
      BY <1>2 DEF RunTask, net
    <2>2. x.op = "cancel" => x.job \in Job
      BY <2>1, HeadIsWork DEF SystemInv, Task
    <2>3. \/ mem' = mem
          \/ \E a \in {"notCancelled", "cancelled"} :
               x.op = "cancel" /\ mem' = [mem EXCEPT !.cancels[x.job] = a]
      BY <1>2 DEF RunTask, CancelReply
    <2> HIDE DEF x
    <2>4. mem' \in Memory /\ mem'.plans = mem.plans /\ mem'.workers = mem.workers
      BY <1>0, <2>2, <2>3 DEF Memory
    <2>5. \A w \in Worker : Plan(w)' = Plan(w) /\ mem'.workers[w].lease = mem.workers[w].lease
      BY <2>4 DEF Plan
    <2> QED
      BY <1>1, <2>1, <2>4, <2>5, TablesKept
  <1>3. CASE \E j \in Job : enqueue_jobs(j) \/ ClockPasses(j)
    <2>1. UNCHANGED << issued, committed, wk, toWorker, toSentinel, mem, tasks >>
      BY <1>3 DEF enqueue_jobs, ClockPasses, Enqueue, BackoffElapses, Outside, net
    <2>2. \A w \in Worker : Plan(w)' = Plan(w) /\ mem'.workers[w].lease = mem.workers[w].lease
      BY <2>1 DEF Plan
    <2> QED
      BY <1>0, <1>1, <2>1, <2>2, TablesKept
  <1> QED
    BY <1>2, <1>3

\* The memory of a Sentinel that was just started.
LEMMA FreshTyped ==
    ASSUME NEW n \in Nat
    PROVE  /\ FreshMemory(n) \in Memory
           /\ \A w \in Worker : /\ FreshMemory(n).plans[w].lease = NoLease
                                 /\ FreshMemory(n).workers[w].lease = NoLease
  <1> DEFINE W == [w \in Worker |-> NotRegistered]
             P == [w \in Worker |-> NoPlan]
             N == [j \in Job |-> "none"]
             M == [up |-> TRUE, starts |-> n, workers |-> W, plans |-> P, grace |-> TRUE,
                   seen |-> {}, reconciled |-> {}, cancels |-> N]
  <1>1. /\ W \in [Worker -> Entry] /\ P \in [Worker -> PlanEntry]
        /\ \A w \in Worker : P[w].lease = NoLease /\ W[w].lease = NoLease
        /\ N \in [Job -> {"none", "asked", "cancelled", "notCancelled", "closed"}]
    BY DEF NotRegistered, NoPlan, Entry, PlanEntry, WorkerStatus, LeaseOrNone
  <1>2. FreshMemory(n) = M
    BY Zenon DEF FreshMemory
  <1> HIDE DEF W, P, N
  <1>3. M \in Memory /\ M.plans = P /\ M.workers = W
    BY <1>1 DEF Memory, Entry, PlanEntry
  <1> HIDE DEF M
  <1> QED
    BY <1>1, <1>2, <1>3

\* It keeps which requests to cancel were made.
LEMMA FreshFacts ==
    ASSUME NEW n \in Nat,
           NEW c \in [Job -> {"none", "asked", "cancelled", "notCancelled", "closed"}]
    PROVE  /\ [FreshMemory(n) EXCEPT !.cancels = c] \in Memory
           /\ [FreshMemory(n) EXCEPT !.up = FALSE, !.cancels = c] \in Memory
           /\ \A w \in Worker :
                 /\ [FreshMemory(n) EXCEPT !.cancels = c].plans[w].lease = NoLease
                 /\ [FreshMemory(n) EXCEPT !.cancels = c].workers[w].lease = NoLease
                 /\ [FreshMemory(n) EXCEPT !.up = FALSE, !.cancels = c].plans[w].lease = NoLease
                 /\ [FreshMemory(n) EXCEPT !.up = FALSE, !.cancels = c].workers[w].lease = NoLease
  <1> DEFINE F == FreshMemory(n)
  <1>1. /\ F \in Memory
        /\ \A w \in Worker : F.plans[w].lease = NoLease /\ F.workers[w].lease = NoLease
    BY FreshTyped
  <1> HIDE DEF F
  <1>2. /\ [F EXCEPT !.cancels = c] \in Memory
        /\ [F EXCEPT !.cancels = c].plans = F.plans
        /\ [F EXCEPT !.cancels = c].workers = F.workers
    BY <1>1 DEF Memory
  <1>3. /\ [F EXCEPT !.up = FALSE, !.cancels = c] \in Memory
        /\ [F EXCEPT !.up = FALSE, !.cancels = c].plans = F.plans
        /\ [F EXCEPT !.up = FALSE, !.cancels = c].workers = F.workers
    BY <1>1 DEF Memory
  <1> QED
    BY <1>1, <1>2, <1>3 DEF F

\* The Sentinel comes back.
LEMMA RestartStep ==
    ASSUME SystemInv, [Next]_vars, Restart
    PROVE  SystemInv' /\ Advance
  <1>0. mem \in Memory
    BY DEF SystemInv, SentinelInv
  <1>1. QueueTypeOK' /\ LeaseInv'
    BY QueueKept DEF SystemInv
  <1>2. /\ UNCHANGED << issued, committed, wk, toWorker, toSentinel, tasks >>
        /\ mem' = [FreshMemory(mem.starts + 1) EXCEPT !.cancels = mem.cancels]
    BY DEF Restart, net
  <1>4. /\ mem.starts + 1 \in Nat
        /\ mem.cancels \in [Job -> {"none", "asked", "cancelled", "notCancelled", "closed"}]
    BY <1>0 DEF Memory
  <1>5. /\ mem' \in Memory
        /\ \A w \in Worker : mem'.plans[w].lease = NoLease /\ mem'.workers[w].lease = NoLease
    BY <1>2, <1>4, FreshFacts
  <1> QED
    BY <1>1, <1>2, <1>5, TablesKept DEF Plan

\* A lease that was never handed out is nowhere.
LEMMA NowhereYet ==
    ASSUME SystemInv, NEW l \in Lease, Unused(l.token)
    PROVE  /\ l \notin issued /\ l.token \notin committed
           /\ ~Sent(l, toWorker[l.worker]) /\ ~Runs(l, wk[l.worker])
  <1>1. l \notin issued /\ l.token \notin committed
    BY DEF Unused, SystemInv, PlacesInv
  <1>2. l.worker \in Worker
    BY DEF Lease
  <1>3. ~Sent(l, toWorker[l.worker])
    <2>1. Order(l) \notin Orders(l.worker)
      BY <1>1 DEF Orders, Order, IssuedTo
    <2>2. \A i \in DOMAIN toWorker[l.worker] : toWorker[l.worker][i] \in Orders(l.worker)
      BY <1>2, WorkerFacts, Fifo
    <2> QED
      BY <2>1, <2>2 DEF Sent
  <1>4. ~Runs(l, wk[l.worker])
    BY <1>1, <1>2, WorkerFacts DEF Runs, WorkerOK
  <1> QED
    BY <1>1, <1>3, <1>4

\* Leases may have been handed out.  Those that were there before did not
\* come back to life, and the new ones are in at most one place.
LEMMA LeaseAdded ==
    ASSUME SystemInv, NEW new \in SUBSET Lease, \A l \in new : Unused(l.token),
           issued' = issued \cup new, UNCHANGED << committed, wk >>,
           \A l \in issued :
              /\ OnePlace(l, Plan(l.worker)', toWorker'[l.worker], wk[l.worker], committed)
              /\ Settling(l, Plan(l.worker), toWorker[l.worker], wk[l.worker], committed,
                          Plan(l.worker)', toWorker'[l.worker], wk[l.worker], committed),
           \A l \in new : Sent(l, toWorker'[l.worker]) => Sent(l, toWorker[l.worker])
    PROVE  Advance /\ PlacesInv'
  <1>1. \A l \in issued : HasOnePlace(l)' /\ Moved(l)
    BY DEF HasOnePlace, Moved
  <1>2. ASSUME NEW l \in new
        PROVE  HasOnePlace(l)'
    <2>1. l.token \notin committed /\ ~Sent(l, toWorker'[l.worker]) /\ ~Runs(l, wk[l.worker])
      BY NowhereYet
    <2> QED
      BY <2>1 DEF HasOnePlace, OnePlace, Pending, Sent
  <1>3. \A t \in committed' : ~Unused(t)'
    BY DEF SystemInv, PlacesInv, Unused
  <1>4. committed' \subseteq Token
    BY DEF SystemInv, PlacesInv
  <1> QED
    BY <1>1, <1>2, <1>3, <1>4 DEF Advance, PlacesInv

\* prepare_dispatch_plan: nothing to lease, a plan, or a lease that ended at
\* once.
LEMMA PrepareSteps ==
    ASSUME SystemInv, [Next]_vars, NEW w \in Worker, RunPrepare(w)
    PROVE  SystemInv' /\ Advance
  <1>0. mem \in Memory
    BY DEF SystemInv, SentinelInv
  <1>1. QueueTypeOK' /\ LeaseInv'
    BY QueueKept DEF SystemInv
  <1>2. /\ UNCHANGED << committed, wk, toWorker, toSentinel >>
        /\ tasks # << >> /\ tasks' = Tail(tasks)
    BY DEF RunPrepare, net
  <1>3. mem.plans \in [Worker -> PlanEntry] /\ NoPlan \in PlanEntry
    BY <1>0 DEF Memory, PlanEntry, NoPlan, LeaseOrNone
  <1>4. ASSUME mem' = [mem EXCEPT !.plans[w] = NoPlan]
        PROVE  /\ mem' \in Memory /\ mem'.workers = mem.workers
               /\ \A v \in Worker : Plan(v)' = IF v = w THEN NoLease ELSE Plan(v)
    <2>1. /\ mem' \in Memory /\ mem'.workers = mem.workers
          /\ mem'.plans = [mem.plans EXCEPT ![w] = NoPlan]
      BY <1>0, <1>3, <1>4, MemPlans
    <2> QED
      BY <1>3, <2>1 DEF Plan, NoPlan
  <1>5. CASE issued' = issued /\ mem' = [mem EXCEPT !.plans[w] = NoPlan]
    BY <1>1, <1>2, <1>4, <1>5, TablesKept
  <1>6. ASSUME NEW l \in Lease, l.worker = w, Unused(l.token), issued' = issued \cup {l},
               \/ mem' = [mem EXCEPT !.plans[w] = NoPlan]
               \/ mem' = [mem EXCEPT !.plans[w].lease = l]
        PROVE  SystemInv' /\ Advance
    <2>1. /\ mem' \in Memory /\ mem'.workers = mem.workers
          /\ Plan(w)' \in {NoLease, l}
          /\ \A v \in Worker \ {w} : Plan(v)' = Plan(v)
      <3>1. CASE mem' = [mem EXCEPT !.plans[w] = NoPlan]
        BY <1>4, <3>1
      <3>2. CASE mem' = [mem EXCEPT !.plans[w].lease = l]
        <4> DEFINE e == [mem.plans[w] EXCEPT !.lease = l]
        <4>1. e \in PlanEntry /\ e.lease = l
          BY <1>3, <1>6 DEF PlanEntry, LeaseOrNone
        <4>2. mem' = [mem EXCEPT !.plans[w] = e]
          BY <1>0, <3>2 DEF Memory
        <4> HIDE DEF e
        <4>3. /\ mem' \in Memory /\ mem'.workers = mem.workers
              /\ mem'.plans = [mem.plans EXCEPT ![w] = e]
          BY <1>0, <4>1, <4>2, MemPlans
        <4> QED
          BY <1>3, <4>1, <4>3 DEF Plan
      <3> QED
        BY <1>6, <3>1, <3>2
    <2>2. ASSUME NEW m \in issued
          PROVE  /\ OnePlace(m, Plan(m.worker)', toWorker'[m.worker], wk[m.worker], committed)
                 /\ Settling(m, Plan(m.worker), toWorker[m.worker], wk[m.worker], committed,
                             Plan(m.worker)', toWorker'[m.worker], wk[m.worker], committed)
      <3>1. m.worker \in Worker /\ m # NoLease /\ m # l
        BY <1>6, LeaseFacts, NowhereYet DEF SystemInv
      <3>2. Plan(m.worker)' = m => Plan(m.worker) = m
        BY <2>1, <3>1
      <3>3. OnePlace(m, Plan(m.worker), toWorker[m.worker], wk[m.worker], committed)
        BY DEF SystemInv, PlacesInv, HasOnePlace
      <3> QED
        BY <1>2, <3>2, <3>3, PipeKept
    <2>3. Advance /\ PlacesInv'
      <3>1. {l} \in SUBSET Lease
        OBVIOUS
      <3> QED
        BY <1>2, <1>6, <2>2, <3>1, LeaseAdded
    <2>4. WorkInv'
      BY <1>2, <2>3, WorkKept DEF SystemInv
    <2>5. MailInv'
      BY <1>2, <2>3, MailKept DEF SystemInv
    <2>6. OrdersInv'
      BY <1>1, <1>2, <2>3, OrdersKept DEF SystemInv, QueueTypeOK
    <2>7. WorkersInv'
      BY <1>2, <2>3, WorkersKept DEF SystemInv
    <2>8. SentinelInv'
      <3>1. NoLease \in Own(w)' /\ l \in Own(w)'
        BY <1>6 DEF Own, IssuedTo
      <3>2. \A v \in Worker : \A m \in Own(v) : m \in Own(v)'
        BY <2>3, SetsGrow
      <3>3. \A v \in Worker : Plan(v)' \in Own(v)'
        BY <2>1, <3>1, <3>2 DEF SystemInv, SentinelInv
      <3> QED
        BY <2>1, <3>2, <3>3 DEF SystemInv, SentinelInv
    <2> QED
      BY <1>1, <2>3, <2>4, <2>5, <2>6, <2>7, <2>8 DEF SystemInv
  <1>7. \/ issued' = issued /\ mem' = [mem EXCEPT !.plans[w] = NoPlan]
        \/ \E j \in Job, t \in Token :
             LET l == [token |-> t, job |-> j, worker |-> w]
             IN  /\ Unused(t) /\ issued' = issued \cup {l}
                 /\ \/ mem' = [mem EXCEPT !.plans[w] = NoPlan]
                    \/ mem' = [mem EXCEPT !.plans[w].lease = l]
    BY DEF RunPrepare, queue
  <1>8. \A j \in Job, t \in Token :
          LET l == [token |-> t, job |-> j, worker |-> w]
          IN  l \in Lease /\ l.worker = w /\ l.token = t
    BY DEF Lease
  <1> QED
    BY <1>5, <1>6, <1>7, <1>8

\* The Sentinel crashes, in a task or between two.
LEMMA CrashSteps ==
    ASSUME SystemInv, [Next]_vars, CrashIdle \/ CrashInTask \/ CrashInPrepare
    PROVE  SystemInv' /\ Advance
  <1>0. mem \in Memory
    BY DEF SystemInv, SentinelInv
  <1>1. QueueTypeOK' /\ LeaseInv'
    BY QueueKept DEF SystemInv
  <1>2. Crashed
    BY DEF CrashIdle, CrashInTask, CrashInPrepare
  <1>3. UNCHANGED << committed, wk >> /\ tasks' = << >>
    BY <1>2 DEF Crashed
  <1>4. \E new \in SUBSET Lease : /\ issued' = issued \cup new
                                  /\ \A l \in new : Unused(l.token)
    <2>1. CASE issued' = issued
      <3>1. {} \in SUBSET Lease /\ issued' = issued \cup {}
        BY <2>1
      <3> QED
        BY <3>1
    <2>2. ASSUME NEW j \in Job, NEW t \in Token, NEW w \in Worker, Unused(t),
                 issued' = issued \cup {[token |-> t, job |-> j, worker |-> w]}
          PROVE  \E new \in SUBSET Lease : /\ issued' = issued \cup new
                                           /\ \A l \in new : Unused(l.token)
      <3> DEFINE l == [token |-> t, job |-> j, worker |-> w]
      <3>1. l \in Lease /\ l.token = t
        BY DEF Lease
      <3> HIDE DEF l
      <3>2. {l} \in SUBSET Lease /\ \A m \in {l} : Unused(m.token)
        BY <2>2, <3>1
      <3> QED
        BY <2>2, <3>2 DEF l
    <2>3. CASE CrashInPrepare
      <3> DEFINE w == Head(tasks).worker
      <3>1. w \in Worker
        BY <2>3, HeadIsWork DEF CrashInPrepare, SystemInv, Task
      <3>2. \E j \in Job, t \in Token :
              /\ Unused(t)
              /\ issued' = issued \/ issued' = issued \cup {[token |-> t, job |-> j, worker |-> w]}
        BY <2>3 DEF CrashInPrepare
      <3> HIDE DEF w
      <3> QED
        BY <2>1, <2>2, <3>1, <3>2
    <2>4. CASE CrashIdle \/ CrashInTask
      BY <2>1, <2>4 DEF CrashIdle, CrashInTask, queue
    <2> QED
      BY <2>3, <2>4
  <1>5. /\ mem' \in Memory
        /\ \A w \in Worker : mem'.plans[w].lease = NoLease /\ mem'.workers[w].lease = NoLease
    <2> DEFINE c == [j \in Job |-> IF mem.cancels[j] = "none" THEN "none" ELSE "closed"]
    <2>1. /\ c \in [Job -> {"none", "asked", "cancelled", "notCancelled", "closed"}]
          /\ mem.starts \in Nat
      BY <1>0 DEF Memory
    <2>2. mem' = [FreshMemory(mem.starts) EXCEPT !.up = FALSE, !.cancels = c]
      BY <1>2 DEF Crashed
    <2> HIDE DEF c
    <2> QED
      BY <2>1, <2>2, FreshFacts
  <1>6. \E f \in [Worker -> Nat] :
          toSentinel' = [w \in Worker |-> SubSeq(toSentinel[w], 1 + f[w], Len(toSentinel[w]))]
    <2> DEFINE top == Max({Len(toSentinel[w]) : w \in Worker} \cup {0})
    <2>1. PICK f \in [Worker -> 0 .. top] :
            toSentinel' = [w \in Worker |-> SubSeq(toSentinel[w], 1 + f[w], Len(toSentinel[w]))]
      BY <1>2 DEF Crashed
    <2> HIDE DEF top
    <2>2. f \in [Worker -> Nat]
      OBVIOUS
    <2> QED
      BY <2>1, <2>2
  <1>7. \E f \in [Worker -> Nat] :
          /\ \A w \in Worker : f[w] <= Len(toWorker[w])
          /\ toWorker' = [w \in Worker |-> SubSeq(toWorker[w], 1, f[w])]
    <2> DEFINE top == Max({Len(toWorker[w]) : w \in Worker} \cup {0})
    <2>1. PICK f \in [Worker -> 0 .. top] :
            /\ \A w \in Worker : f[w] <= Len(toWorker[w])
            /\ toWorker' = [w \in Worker |-> SubSeq(toWorker[w], 1, f[w])]
      BY <1>2 DEF Crashed
    <2> HIDE DEF top
    <2>2. f \in [Worker -> Nat]
      OBVIOUS
    <2> QED
      BY <2>1, <2>2
  <1>8. PICK g \in [Worker -> Nat] :
          /\ \A w \in Worker : g[w] <= Len(toWorker[w])
          /\ toWorker' = [w \in Worker |-> SubSeq(toWorker[w], 1, g[w])]
    BY <1>7
  <1>9. \A w \in Worker : /\ g[w] \in Nat /\ g[w] <= Len(toWorker[w])
                          /\ toWorker'[w] = SubSeq(toWorker[w], 1, g[w])
                          /\ toWorker[w] \in Seq(Orders(w))
    BY <1>8, WorkerFacts
  <1>10. ASSUME NEW l \in issued
         PROVE  /\ OnePlace(l, Plan(l.worker)', toWorker'[l.worker], wk[l.worker], committed)
                /\ Settling(l, Plan(l.worker), toWorker[l.worker], wk[l.worker], committed,
                            Plan(l.worker)', toWorker'[l.worker], wk[l.worker], committed)
    <2>1. l.worker \in Worker /\ l # NoLease
      BY LeaseFacts DEF SystemInv
    <2>2. Plan(l.worker)' = NoLease
      BY <1>5, <2>1 DEF Plan
    <2>3. OnePlace(l, Plan(l.worker), toWorker[l.worker], wk[l.worker], committed)
      BY DEF SystemInv, PlacesInv, HasOnePlace
    <2> QED
      <3> DEFINE s == toWorker[l.worker]
                 n == g[l.worker]
                 S == Orders(l.worker)
      <3>1. n \in Nat /\ n <= Len(s) /\ toWorker'[l.worker] = SubSeq(s, 1, n) /\ s \in Seq(S)
        BY <1>9, <2>1
      <3> HIDE DEF n, S
      <3>2. /\ OnePlace(l, NoLease, SubSeq(s, 1, n), wk[l.worker], committed)
            /\ Settling(l, Plan(l.worker), s, wk[l.worker], committed,
                        NoLease, SubSeq(s, 1, n), wk[l.worker], committed)
        BY <2>1, <2>3, <3>1, PlanGone
      <3> QED
        BY <2>2, <3>1, <3>2
  <1>11. Advance /\ PlacesInv'
    <2>1. PICK new \in SUBSET Lease : issued' = issued \cup new /\ \A l \in new : Unused(l.token)
      BY <1>4
    <2>2. ASSUME NEW l \in new
          PROVE  Sent(l, toWorker'[l.worker]) => Sent(l, toWorker[l.worker])
      <3>1. l.worker \in Worker
        BY DEF Lease
      <3> QED
        <4> DEFINE s == toWorker[l.worker]
                   n == g[l.worker]
                   S == Orders(l.worker)
        <4>1. n \in Nat /\ n <= Len(s) /\ toWorker'[l.worker] = SubSeq(s, 1, n) /\ s \in Seq(S)
          BY <1>9, <3>1
        <4> HIDE DEF n, s, S
        <4>2. Sent(l, SubSeq(s, 1, n)) => Sent(l, s)
          BY <4>1, SentPrefix
        <4> QED
          BY <4>1, <4>2 DEF s
    <2> QED
      BY <1>3, <1>10, <2>1, <2>2, LeaseAdded
  <1>12. WorkInv'
    BY <1>3, <1>11, WorkKept DEF SystemInv
  <1>13. MailInv'
    BY <1>6, <1>11, MailKept DEF SystemInv
  <1>14. OrdersInv'
    BY <1>1, <1>7, <1>11, OrdersKept DEF SystemInv, QueueTypeOK
  <1>15. WorkersInv'
    BY <1>3, <1>11, WorkersKept DEF SystemInv
  <1>16. SentinelInv'
    BY <1>5 DEF SentinelInv, Own, Plan
  <1> QED
    BY <1>1, <1>11, <1>12, <1>13, <1>14, <1>15, <1>16 DEF SystemInv

-------------------------------------------------------------------------------
(* The invariant holds. *)

\* Initially nothing was leased, and every worker has said IDENTIFY.
LEMMA SystemStarts == Init => SystemInv
  <1> SUFFICES ASSUME Init PROVE SystemInv
    OBVIOUS
  <1>1. QueueTypeOK /\ LeaseInv /\ issued = {}
    BY InitInv DEF Init, QueueInit
  <1>2. SentinelInv
    <2>1. mem = FreshMemory(1) /\ 1 \in Nat
      BY DEF Init
    <2>2. /\ mem \in Memory
          /\ \A w \in Worker : mem.plans[w].lease = NoLease /\ mem.workers[w].lease = NoLease
      BY <2>1, FreshTyped
    <2> QED
      BY <2>2 DEF SentinelInv, Plan, Own
  <1>3. WorkInv
    BY Fifo DEF Init, WorkInv
  <1>4. MailInv
    <2> DEFINE a == [op |-> "IDENTIFY"]
    <2>1. a \in Mail
      BY DEF Mail, Message, GoodMessage
    <2>2. << a >> \in Seq(Mail)
      BY <2>1
    <2> QED
      BY <2>2 DEF Init, MailInv
  <1>5. OrdersInv
    <2>1. \A w \in Worker : << >> \in Seq(Orders(w)) /\ << >> \in Seq(Message)
      OBVIOUS
    <2> QED
      BY <2>1 DEF Init, OrdersInv
  <1>6. WorkersInv
    <2>1. IdleWorker \in WorkerState /\ \A w : WorkerOK(w, IdleWorker)
      BY DEF IdleWorker, WorkerOK, WorkerState, LeaseOrNone
    <2> QED
      BY <2>1 DEF Init, WorkersInv
  <1>7. PlacesInv
    BY <1>1 DEF Init, PlacesInv
  <1> QED
    BY <1>1, <1>2, <1>3, <1>4, <1>5, <1>6, <1>7 DEF SystemInv

\* Every step keeps it.
LEMMA SystemKept == SystemInv /\ [Next]_vars => SystemInv' /\ Advance
  <1> SUFFICES ASSUME SystemInv, [Next]_vars PROVE SystemInv' /\ Advance
    OBVIOUS
  <1>1. CASE UNCHANGED vars \/ \E w \in Worker : write_outputs_grouped(w)
    <2>1. /\ UNCHANGED << db, issued, settled, committed, wk, toWorker, toSentinel, mem >>
          /\ tasks' = tasks
      BY <1>1 DEF vars, write_outputs_grouped, WorkerOnly, net
    <2>2. \A w \in Worker : Plan(w)' = Plan(w) /\ mem'.workers[w].lease = mem.workers[w].lease
      BY <2>1 DEF Plan
    <2>3. mem' \in Memory
      BY <2>1 DEF SystemInv, SentinelInv
    <2> QED
      BY <2>1, <2>2, <2>3, ReactorKept
  <1>2. ASSUME NEW w \in Worker,
               Reactor(w) \/ cleanup_stale_workers(w) \/ RunPrepare(w)
        PROVE  SystemInv' /\ Advance
    BY <1>2, ReceiveSteps, TimerSteps, DrainSteps, PrepareSteps DEF Reactor
  <1>3. ASSUME NEW w \in Worker,
               \/ WorkerStep(w) \/ send_identify(w) \/ SendHeartbeat(w)
               \/ wait_for_all_jobs(w) \/ WorkerDies(w)
        PROVE  SystemInv' /\ Advance
    BY <1>1, <1>3, TimerMessages, DispatchTaken, AbortTaken, JobEnds, ResultSent, WorkerEnds
    DEF WorkerStep
  <1>4. ASSUME NEW j \in Job, \/ handle_control_request(j) \/ drain_pending_cancel_jobs(j)
                              \/ enqueue_jobs(j) \/ ClockPasses(j)
        PROVE  SystemInv' /\ Advance
    BY <1>4, TimerSteps, CancelSteps, TableSteps
  <1>5. CASE sweep_expired_dispatches \/ GraceEnds \/ RunTask \/ Restart
    BY <1>5, TimerSteps, TableSteps, RestartStep
  <1>6. CASE CrashIdle \/ CrashInTask \/ CrashInPrepare
    BY <1>6, CrashSteps
  <1> QED
    BY <1>1, <1>2, <1>3, <1>4, <1>5, <1>6 DEF Next

-------------------------------------------------------------------------------
(* What the rows say is what the workers did. *)

\* A row aborted by the receipt of its lease names a lease that is barren.
AbortedIsBarren ==
    \A j \in Job : LET row == db.jobs[j] IN
        (row.status = "ABORTED" /\ row.token \in Token /\ settled[row.token] > 0) =>
            \E l \in issued : l.token = row.token /\ l.worker = row.owner /\ IsBarren(l)

RowsInv == CompletedWasCommitted /\ MaterializedWasCommitted /\ AbortedIsBarren

\* What a step makes of the rows.
Fate ==
    \/ Plain(db, db')
    \/ \E l \in issued : /\ Ended(db, db', l.job, l.token, "COMPLETED")
                         /\ db'.mats \subseteq db.mats \cup {l.job}
                         /\ l.token \in committed
    \/ \E l \in issued : /\ Ended(db, db', l.job, l.token, "ABORTED")
                         /\ db'.mats = db.mats
                         /\ IsBarren(l)
    \/ \E j \in Job : Stopped(db, db', j) /\ settled' = settled

\* A lease is settled only by a step that changed its job's row.
Tally ==
    \A l \in issued : settled'[l.token] > settled[l.token] => db'.jobs[l.job] # db.jobs[l.job]

\* A task that was run to its end or cut.
LEMMA TaskFate ==
    ASSUME QueueTypeOK, NEW x \in Task, GoodTask(x), x.op # "prepare",
           NEW steps \in Steps(x), db' \in Torn(db, steps), SettleTask(x)
    PROVE  Fate
  <1>0. db \in Tables /\ Plain(db, db) /\ issued \subseteq Lease
    BY PlainSelf DEF QueueTypeOK
  <1>1. ASSUME NEW e, steps = << e >>, Plain(db, e)
        PROVE  Fate
    BY <1>0, <1>1, TornOne DEF Fate
  <1>2. x.op \in {"ack", "orphan", "running", "conclude"} =>
          /\ x.lease \in issued
          /\ x.lease.job \in Job /\ x.lease.token \in Token /\ x.lease.worker \in Worker
    BY LeaseFacts DEF GoodTask
  <1>3. CASE x.op = "ack"
    <2> DEFINE e == ack_dispatch(db, x.lease.job, x.lease.token, x.lease.worker)
    <2>1. steps = << e >>
      BY <1>3 DEF Steps
    <2>2. Plain(db, e)
      BY <1>0, <1>2, <1>3, PlainStatements
    <2> QED
      BY <1>1, <2>1, <2>2
  <1>4. CASE x.op = "conclude"
    <2> DEFINE l == x.lease
    <2>1. steps = process_conclude_db(db, l.job, l.token, x.status)
      BY <1>4 DEF Steps
    <2>2. x.status \in ReceiptStatus /\ Credible(l, x.status) /\ l \in issued /\ l.job \in Job
      BY <1>2, <1>4 DEF GoodTask, Task
    <2>3. \/ Plain(db, db')
          \/ /\ x.status = "success"
             /\ Ended(db, db', l.job, l.token, "COMPLETED")
             /\ db'.mats \subseteq db.mats \cup {l.job}
          \/ /\ x.status = "aborted"
             /\ Ended(db, db', l.job, l.token, "ABORTED") /\ db'.mats = db.mats
      BY <1>0, <2>1, <2>2, ConcludeEnds
    <2> QED
      BY <2>2, <2>3 DEF Fate, Credible
  <1>5. CASE x.op = "orphan"
    <2> DEFINE e == fail_job_if_token_matches(db, x.lease.job, x.lease.token)
    <2>1. steps = << e >>
      BY <1>5 DEF Steps, fail_orphan
    <2>2. Plain(db, e)
      BY <1>0, <1>2, <1>5, PlainStatements
    <2> QED
      BY <1>1, <2>1, <2>2
  <1>6. CASE x.op = "defer"
    <2> DEFINE e == defer_job(db, x.job)
    <2>1. steps = << e >> /\ x.job \in Job
      BY <1>6 DEF Steps, Task
    <2>2. Plain(db, e)
      BY <1>0, <2>1, PlainStatements
    <2> QED
      BY <1>1, <2>1, <2>2
  <1>7. CASE x.op = "cancel"
    <2> DEFINE e == cancel_job(db, x.job)
    <2>1. steps = << e >> /\ x.job \in Job
      BY <1>7 DEF Steps, Task
    <2>2. Plain(db, e) \/ Stopped(db, e, x.job)
      BY <1>0, <2>1, CancelStops
    <2>3. settled' = settled
      BY <1>7 DEF SettleTask
    <2>4. db' = db \/ db' = e
      BY <2>1, TornOne
    <2> HIDE DEF e
    <2> QED
      BY <1>0, <2>1, <2>2, <2>3, <2>4 DEF Fate
  <1>8. CASE x.op = "running"
    <2> DEFINE r == db.jobs[x.lease.job].run
               e == set_pipeline_run_running(db, r)
    <2>1. steps = << e >>
      BY <1>8 DEF Steps
    <2>2. r \in Run \cup {NoRun}
      BY <1>0, <1>2, <1>8, RowTyped DEF ProcessingJob
    <2> HIDE DEF r
    <2>3. Plain(db, e)
      BY <1>0, <1>2, <1>8, <2>2, PlainSide
    <2> QED
      BY <1>1, <2>1, <2>3
  <1>9. CASE x.op = "sweep"
    <2>1. PICK S : steps = << requeue_expired_dispatches(db, S) >>
      BY <1>9 DEF Steps
    <2> QED
      BY <1>0, <1>1, <2>1, PlainRequeues
  <1>10. CASE x.op \in {"reconcile", "missing"}
    <2>1. PICK S : steps = << DeferAll(db, S) >>
      BY <1>10 DEF Steps, reconcile_running_jobs_for_worker,
                   reconcile_missing_workers_after_grace
    <2> QED
      BY <1>0, <1>1, <2>1, PlainRequeues
  <1>11. x.op \in {"ack", "conclude", "orphan", "defer", "cancel", "running", "sweep",
                   "reconcile", "missing"}
    BY DEF Task
  <1> QED
    BY <1>3, <1>4, <1>5, <1>6, <1>7, <1>8, <1>9, <1>10, <1>11

\* The lease of a receipt or of an orphan, and no other, is settled.
LEMMA TaskTally ==
    ASSUME QueueTypeOK, LeaseInv, NEW x \in Task, GoodTask(x), SettleTask(x)
    PROVE  Tally
  <1> SUFFICES ASSUME NEW l \in issued, settled'[l.token] > settled[l.token]
               PROVE  db'.jobs[l.job] # db.jobs[l.job]
    BY DEF Tally
  <1>0. settled \in [Token -> Nat] /\ l.token \in Token
    BY LeaseFacts DEF QueueTypeOK
  <1>1. /\ x.op \in {"conclude", "orphan"}
        /\ db'.jobs[x.lease.job] # db.jobs[x.lease.job]
        /\ settled' = [settled EXCEPT ![x.lease.token] = @ + 1]
    BY <1>0 DEF SettleTask
  <1>2. x.lease \in issued
    BY <1>1 DEF GoodTask
  <1>3. l.token = x.lease.token
    BY <1>0, <1>1
  <1> QED
    BY <1>1, <1>2, <1>3 DEF LeaseInv, TokensUnique

\* prepare_dispatch_plan settles at most the lease it has just made.
LEMMA PrepareFate ==
    ASSUME QueueTypeOK, NEW j \in Job, NEW t \in Token, NEW w \in Worker, Unused(t),
           NEW steps \in Prepared(j, t, w), NEW k \in DOMAIN steps, db' = steps[k],
           settled' = settled \/ settled' = [settled EXCEPT ![t] = @ + 1]
    PROVE  Fate /\ Tally
  <1>0. db \in Tables /\ settled \in [Token -> Nat]
    BY DEF QueueTypeOK
  <1>1. Plain(db, db')
    <2> DEFINE c == lease_jobs_for_dispatch(db, j)
               l == Leased(db, j, t, w)
               F == FailDispatchSteps(db, j, t, w)
               D == DeferDispatchSteps(db, j, t, w)
    <2>1. steps = << c, l >> \/ steps = F \/ steps = D
      BY PreparedSteps DEF PlanSteps
    <2>2. /\ \E a, b : F = << c, l, a, b >>
          /\ \E a, b : D = << c, l, a, b >>
      BY Zenon DEF FailDispatchSteps, DeferDispatchSteps
    <2>3. /\ Plain(db, c) /\ Plain(db, l)
          /\ \A i \in 3 .. 4 : Plain(db, F[i]) /\ Plain(db, D[i])
      BY <1>0, PlainPrepare
    <2> HIDE DEF c, l, F, D
    <2>4. CASE steps = << c, l >>
      BY <2>3, <2>4
    <2>5. CASE steps = F
      <3>1. PICK a, b : F = << c, l, a, b >>
        BY <2>2
      <3>2. k \in 1 .. 4 /\ steps[1] = c /\ steps[2] = l
        BY <2>5, <3>1
      <3>3. k = 1 \/ k = 2 \/ k \in 3 .. 4
        BY <3>2
      <3> QED
        BY <2>3, <2>5, <3>2, <3>3
    <2>6. CASE steps = D
      <3>1. PICK a, b : D = << c, l, a, b >>
        BY <2>2
      <3>2. k \in 1 .. 4 /\ steps[1] = c /\ steps[2] = l
        BY <2>6, <3>1
      <3>3. k = 1 \/ k = 2 \/ k \in 3 .. 4
        BY <3>2
      <3> QED
        BY <2>3, <2>6, <3>2, <3>3
    <2> QED
      BY <2>1, <2>4, <2>5, <2>6
  <1>2. ASSUME NEW l \in issued
        PROVE  ~(settled'[l.token] > settled[l.token])
    <2>1. l.token # t /\ l.token \in Token
      BY LeaseFacts DEF Unused
    <2> QED
      BY <1>0, <2>1
  <1> QED
    BY <1>1, <1>2 DEF Fate, Tally

\* Every step.
LEMMA StepFate ==
    ASSUME SystemInv, [Next]_vars
    PROVE  Fate /\ Tally
  <1>0. db \in Tables /\ QueueTypeOK /\ LeaseInv /\ WorkInv
    BY DEF SystemInv, QueueTypeOK
  <1>1. ASSUME Plain(db, db'), settled' = settled
        PROVE  Fate /\ Tally
    <2>1. \A l \in issued : settled[l.token] \in Nat
      BY <1>0, LeaseFacts DEF QueueTypeOK
    <2>2. \A l \in issued : ~(settled'[l.token] > settled[l.token])
      BY <1>1, <2>1
    <2> QED
      BY <1>1, <2>2 DEF Fate, Tally
  <1>2. CASE UNCHANGED queue
    BY <1>0, <1>1, <1>2, PlainSelf DEF queue
  <1>3. CASE RunTask
    <2> DEFINE x == Head(tasks)
    <2>1. x \in Task /\ GoodTask(x)
      BY <1>0, <1>3, HeadIsWork DEF RunTask
    <2>2. x.op # "prepare" /\ SettleTask(x)
      BY <1>3 DEF RunTask
    <2>3. PICK steps \in Steps(x) : db' = Done(steps)
      BY <1>3 DEF RunTask
    <2> HIDE DEF x
    <2>4. db' \in Torn(db, steps)
      BY <2>1, <2>2, <2>3, DoneOfTask
    <2> QED
      BY <1>0, <2>1, <2>2, <2>3, <2>4, TaskFate, TaskTally
  <1>4. CASE CrashInTask
    <2> DEFINE x == Head(tasks)
    <2>1. x \in Task /\ GoodTask(x)
      BY <1>0, <1>4, HeadIsWork DEF CrashInTask
    <2>2. x.op # "prepare" /\ SettleTask(x)
      BY <1>4 DEF CrashInTask
    <2>3. CASE x.op \in {"reconcile", "missing"}
      <3>1. PICK some : db' = DeferAll(db, some)
        BY <1>4, <2>3 DEF CrashInTask
      <3>2. settled' = settled
        BY <2>2, <2>3 DEF SettleTask
      <3> QED
        BY <1>0, <1>1, <3>1, <3>2, PlainRequeues
    <2>4. CASE x.op \notin {"reconcile", "missing"}
      <3>1. PICK steps \in Steps(x) : db' \in Torn(db, steps)
        BY <1>4, <2>4 DEF CrashInTask
      <3> HIDE DEF x
      <3> QED
        BY <1>0, <2>1, <2>2, <3>1, TaskFate, TaskTally
    <2> QED
      BY <2>3, <2>4
  <1>5. ASSUME NEW w \in Worker, RunPrepare(w)
        PROVE  Fate /\ Tally
    <2>1. CASE ~UNCHANGED queue
      <3>1. PICK j \in Job, t \in Token :
              /\ Unused(t)
              /\ \E steps \in Prepared(j, t, w) :
                   /\ db' = Done(steps)
                   /\ settled' = settled \/ settled' = [settled EXCEPT ![t] = @ + 1]
        BY <1>5, <2>1 DEF RunPrepare
      <3>2. PICK steps \in Prepared(j, t, w) :
                   /\ db' = Done(steps)
                   /\ settled' = settled \/ settled' = [settled EXCEPT ![t] = @ + 1]
        BY <3>1
      <3>3. Len(steps) \in DOMAIN steps
        <4>1. \/ \E a, b : steps = << a, b >>
              \/ \E a, b, c, d : steps = << a, b, c, d >>
          BY PreparedSteps, Zenon DEF PlanSteps, FailDispatchSteps, DeferDispatchSteps
        <4>2. CASE \E a, b : steps = << a, b >>
          BY <4>2
        <4>3. CASE \E a, b, c, d : steps = << a, b, c, d >>
          BY <4>3
        <4> QED
          BY <4>1, <4>2, <4>3
      <3> QED
        BY <1>0, <3>1, <3>2, <3>3, PrepareFate DEF Done
    <2> QED
      BY <1>2, <2>1
  <1>6. CASE CrashInPrepare
    <2> DEFINE w == Head(tasks).worker
    <2>1. w \in Worker
      BY <1>0, <1>6, HeadIsWork DEF CrashInPrepare, Task
    <2>2. PICK j \in Job, t \in Token :
            /\ Unused(t)
            /\ \E steps \in Prepared(j, t, w) : \E k \in DOMAIN steps :
                 /\ db' = steps[k]
                 /\ settled' = settled \/ settled' = [settled EXCEPT ![t] = @ + 1]
      BY <1>6 DEF CrashInPrepare
    <2> HIDE DEF w
    <2>3. PICK steps \in Prepared(j, t, w) : \E k \in DOMAIN steps :
                 /\ db' = steps[k]
                 /\ settled' = settled \/ settled' = [settled EXCEPT ![t] = @ + 1]
      BY <2>2
    <2> QED
      BY <1>0, <2>1, <2>2, <2>3, PrepareFate
  <1>7. CASE Restart
    <2>1. /\ settled' = settled
          /\ \E S : db' = requeue_expired_dispatches(db, S)
      BY <1>7 DEF Restart
    <2> QED
      BY <1>0, <1>1, <2>1, PlainRequeues
  <1>8. ASSUME NEW j \in Job, enqueue_jobs(j) \/ ClockPasses(j)
        PROVE  Fate /\ Tally
    <2>1. CASE enqueue_jobs(j)
      <3>1. PICK p \in Parser, r \in Run : db' = enqueue_job(db, j, p, r) /\ settled' = settled
        BY <2>1 DEF enqueue_jobs, Enqueue
      <3> QED
        BY <1>0, <1>1, <3>1, PlainClients
    <2>2. CASE ClockPasses(j)
      <3>1. /\ db.jobs[j].status = "QUEUED" /\ settled' = settled
            /\ db' = WithRow(db, j, [db.jobs[j] EXCEPT !.due = TRUE])
        BY <2>2 DEF ClockPasses, BackoffElapses
      <3> QED
        BY <1>0, <1>1, <3>1, PlainClients
    <2> QED
      BY <1>8, <2>1, <2>2
  <1> QED
    BY <1>2, <1>3, <1>4, <1>5, <1>6, <1>7, <1>8, OffTheTables

\* What the rows say stays true.
LEMMA RowsKept ==
    ASSUME SystemInv, SystemInv', RowsInv, Advance, Fate, Tally
    PROVE  RowsInv'
  <1>0. /\ db \in Tables /\ db' \in Tables
        /\ settled \in [Token -> Nat] /\ settled' \in [Token -> Nat]
        /\ issued \subseteq issued'
    BY DEF SystemInv, QueueTypeOK, Advance
  <1>1. committed \subseteq committed'
    BY DEF Advance, Moved, Settling, SystemInv, PlacesInv, Unused
  <1>2. \A l \in issued : IsBarren(l) => IsBarren(l)'
    BY BarrenKept DEF Advance, Moved, IsBarren
  <1> DEFINE Right(j) ==
        LET row == db.jobs[j]
        IN  /\ row.status = "COMPLETED" => row.token \in committed
            /\ (row.status = "ABORTED" /\ row.token \in Token /\ settled[row.token] > 0) =>
                  \E l \in issued : l.token = row.token /\ l.worker = row.owner /\ IsBarren(l)
  <1>3. \A j \in Job : Right(j)
    BY DEF RowsInv, CompletedWasCommitted, AbortedIsBarren
  <1>4. ASSUME NEW j \in Job, db'.jobs[j] = db.jobs[j]
        PROVE  Right(j)'
    <2> DEFINE row == db.jobs[j]
    <2>1. row.token \in Token /\ settled'[row.token] > 0 => settled[row.token] > 0
      <3>1. row.token \in Token => \E l \in issued : l.token = row.token /\ l.job = j
        BY StoreAssumption DEF SystemInv, LeaseInv, RowTokenIssued
      <3>2. row.token \in Token => ~(settled'[row.token] > settled[row.token])
        BY <1>4, <3>1 DEF Tally
      <3> QED
        BY <1>0, <3>2
    <2> QED
      BY <1>0, <1>1, <1>2, <1>3, <1>4, <2>1
  <1>5. ASSUME NEW j \in Job, db'.jobs[j].status \notin Final
        PROVE  Right(j)'
    BY <1>5 DEF Final
  <1>6. \A j \in db.mats : \E l \in issued' : l.job = j /\ l.token \in committed'
    BY <1>0, <1>1 DEF RowsInv, MaterializedWasCommitted
  <1> SUFFICES /\ \A j \in Job : Right(j)'
               /\ \A j \in db'.mats : \E l \in issued' : l.job = j /\ l.token \in committed'
    BY DEF RowsInv, CompletedWasCommitted, MaterializedWasCommitted, AbortedIsBarren
  <1>7. CASE Plain(db, db')
    BY <1>4, <1>5, <1>6, <1>7 DEF Plain
  <1>8. ASSUME NEW l \in issued, Ended(db, db', l.job, l.token, "COMPLETED"),
               db'.mats \subseteq db.mats \cup {l.job}, l.token \in committed
        PROVE  /\ \A j \in Job : Right(j)'
               /\ \A j \in db'.mats : \E m \in issued' : m.job = j /\ m.token \in committed'
    <2>1. l.job \in Job
      BY LeaseFacts DEF SystemInv
    <2>2. \A j \in Job : j # l.job => db'.jobs[j] = db.jobs[j]
      BY <1>0, <1>8 DEF Ended, Tables
    <2>3. db'.jobs[l.job].status = "COMPLETED" /\ db'.jobs[l.job].token = l.token
      BY <1>0, <1>8, <2>1, RowTyped DEF Ended, Tables, TokenMatches, ProcessingJob
    <2>4. Right(l.job)'
      BY <1>1, <1>8, <2>3
    <2>5. \A j \in Job : Right(j)'
      BY <1>4, <2>2, <2>4
    <2> HIDE DEF Right
    <2> QED
      BY <1>0, <1>1, <1>6, <1>8, <2>5
  <1>9. ASSUME NEW l \in issued, Ended(db, db', l.job, l.token, "ABORTED"),
               db'.mats = db.mats, IsBarren(l)
        PROVE  /\ \A j \in Job : Right(j)'
               /\ \A j \in db'.mats : \E m \in issued' : m.job = j /\ m.token \in committed'
    <2>1. l.job \in Job
      BY LeaseFacts DEF SystemInv
    <2>2. \A j \in Job : j # l.job => db'.jobs[j] = db.jobs[j]
      BY <1>0, <1>9 DEF Ended, Tables
    <2>3. /\ db'.jobs[l.job].status = "ABORTED" /\ db'.jobs[l.job].token = l.token
          /\ db'.jobs[l.job].owner = db.jobs[l.job].owner
      BY <1>0, <1>9, <2>1, RowTyped DEF Ended, Tables, TokenMatches, ProcessingJob
    <2>4. l.worker = db.jobs[l.job].owner
      BY <1>9, <2>1 DEF Ended, TokenMatches, SystemInv, LeaseInv, RunningIsOwned, TokensUnique
    <2>5. l \in issued' /\ IsBarren(l)'
      BY <1>0, <1>2, <1>9
    <2>6. Right(l.job)'
      BY <2>3, <2>4, <2>5
    <2>7. \A j \in Job : Right(j)'
      BY <1>4, <2>2, <2>6
    <2> HIDE DEF Right
    <2> QED
      BY <1>6, <1>9, <2>7
  <1>10. ASSUME NEW k \in Job, Stopped(db, db', k), settled' = settled
        PROVE  /\ \A j \in Job : Right(j)'
               /\ \A j \in db'.mats : \E m \in issued' : m.job = j /\ m.token \in committed'
    <2>1. \A j \in Job : j # k => db'.jobs[j] = db.jobs[j]
      BY <1>0, <1>10 DEF Stopped, Tables
    <2>2. /\ db'.jobs[k].status = "ABORTED" /\ db'.jobs[k].token = db.jobs[k].token
          /\ db.jobs[k].status \in Cancellable
      BY <1>0, <1>10, RowTyped DEF Stopped, Tables, ProcessingJob
    <2>3. db.jobs[k].token \in Token => settled[db.jobs[k].token] = 0
      BY <2>2, StoreAssumption
      DEF Cancellable, Active, SystemInv, LeaseInv, QueuedIsUnleased, SettledIsInactive
    <2>4. Right(k)'
      BY <1>10, <2>2, <2>3
    <2>5. \A j \in Job : Right(j)'
      BY <1>4, <2>1, <2>4
    <2>6. db'.mats = db.mats
      BY <1>10 DEF Stopped
    <2> HIDE DEF Right
    <2> QED
      BY <1>6, <2>5, <2>6
  <1> HIDE DEF Right
  <1> QED
    BY <1>7, <1>8, <1>9, <1>10 DEF Fate

-------------------------------------------------------------------------------
(* The theorems. *)

\* The invariant of the whole system: whatever is queued, on its way or
\* remembered names a lease that was handed out to the worker it is with, a
\* lease is in one place only, and receipts and rows say what was done.
THEOREM SystemInvariant == Spec => [](SystemInv /\ RowsInv)
  <1>1. Init => SystemInv /\ RowsInv
    <2> SUFFICES ASSUME Init PROVE SystemInv /\ RowsInv
      OBVIOUS
    <2>1. db = EmptyTables
      BY DEF Init, QueueInit
    <2>2. db.mats = {} /\ \A j \in Job : db.jobs[j].status = "ABSENT"
      BY <2>1 DEF EmptyTables, NoRow
    <2> QED
      BY <2>2, SystemStarts
      DEF RowsInv, CompletedWasCommitted, MaterializedWasCommitted, AbortedIsBarren
  <1>2. SystemInv /\ RowsInv /\ [Next]_vars => SystemInv' /\ RowsInv'
    BY SystemKept, StepFate, RowsKept
  <1> QED
    BY <1>1, <1>2, PTL DEF Spec

\* Whatever the Sentinel, its database thread and the workers do, however
\* messages are lost and wherever the Sentinel crashes, the tables go only
\* through steps of the queue specification.
THEOREM DispatchImplementsJobQueue == Spec => ImplementsJobQueue
  <1>1. Init => QueueInit
    BY DEF Init
  <1>2. SystemInv /\ [Next]_vars => [QueueNext]_queue
    BY StepRefines DEF SystemInv
  <1> QED
    BY <1>1, <1>2, SystemInvariant, PTL DEF Spec, ImplementsJobQueue, QueueSpec

\* A job is COMPLETED only if outputs were committed under the lease its row
\* names.
THEOREM CompletedWasCommittedAlways == Spec => []CompletedWasCommitted
  <1>1. RowsInv => CompletedWasCommitted
    BY DEF RowsInv
  <1> QED
    BY <1>1, SystemInvariant, PTL

\* A materialization is recorded only for a job whose outputs were committed.
THEOREM MaterializedWasCommittedAlways == Spec => []MaterializedWasCommitted
  <1>1. RowsInv => MaterializedWasCommitted
    BY DEF RowsInv
  <1> QED
    BY <1>1, SystemInvariant, PTL

\* Under the lease whose receipt made a row ABORTED not all outputs were
\* committed, unless its worker was shut down.
THEOREM AbortedDidNotFinishAlways == Spec => []AbortedDidNotFinish
  <1>1. RowsInv => AbortedDidNotFinish
    BY DEF RowsInv, AbortedIsBarren, AbortedDidNotFinish, IsBarren, Barren
  <1> QED
    BY <1>1, SystemInvariant, PTL

\* A worker that was reconciled was seen since the Sentinel started.
ReconciledWasSeen == mem.reconciled \subseteq mem.seen

\* Every step keeps it.
LEMMA ReconciledKept ==
    ASSUME SystemInv, ReconciledWasSeen, [Next]_vars
    PROVE  ReconciledWasSeen'
  <1>0. mem \in Memory
    BY DEF SystemInv, SentinelInv
  <1> USE DEF ReconciledWasSeen
  <1>1. CASE UNCHANGED mem
    BY <1>1
  <1>2. ASSUME NEW w \in Worker, register_worker(w) \/ handle_heartbeat(w)
        PROVE  ReconciledWasSeen'
    <2>1. CASE register_worker(w)
      BY <1>0, <2>1 DEF register_worker, Memory
    <2>2. CASE handle_heartbeat(w)
      <3>1. \/ mem' = mem
            \/ \E e : \E R \in {mem.reconciled, mem.reconciled \cup {w}} :
                 mem' = [mem EXCEPT !.workers[w] = e, !.seen = mem.seen \cup {w},
                                    !.reconciled = R]
        BY <2>2 DEF handle_heartbeat
      <3>2. ASSUME NEW e, NEW R \in {mem.reconciled, mem.reconciled \cup {w}},
                   mem' = [mem EXCEPT !.workers[w] = e, !.seen = mem.seen \cup {w},
                                      !.reconciled = R]
            PROVE  ReconciledWasSeen'
        <4> DEFINE f == [mem.workers EXCEPT ![w] = e]
                   S == mem.seen \cup {w}
        <4>1. mem' = [mem EXCEPT !.workers = f, !.seen = S, !.reconciled = R]
          BY <1>0, <3>2 DEF Memory
        <4> HIDE DEF f, S
        <4>2. mem'.seen = S /\ mem'.reconciled = R
          BY <1>0, <4>1 DEF Memory
        <4> QED
          BY <4>2 DEF S
      <3> QED
        BY <1>1, <3>1, <3>2
    <2> QED
      BY <1>2, <2>1, <2>2
  <1>3. ASSUME mem'.seen = mem.seen, mem'.reconciled = mem.reconciled
        PROVE  ReconciledWasSeen'
    BY <1>3
  <1>4. ASSUME NEW w \in Worker,
               \/ handle_dispatch_ack(w) \/ handle_conclude(w) \/ dispatch_loop(w)
               \/ drain_pending_dispatches(w) \/ cleanup_stale_workers(w) \/ RunPrepare(w)
        PROVE  mem'.seen = mem.seen /\ mem'.reconciled = mem.reconciled
    <2>1. CASE handle_dispatch_ack(w) \/ handle_conclude(w)
      BY <1>0, <2>1 DEF handle_dispatch_ack, handle_conclude, Register, Memory
    <2>2. CASE dispatch_loop(w) \/ cleanup_stale_workers(w)
      BY <1>0, <2>2 DEF dispatch_loop, cleanup_stale_workers, Register, Memory
    <2>3. CASE drain_pending_dispatches(w)
      <3>1. \E e : mem' = [mem EXCEPT !.plans[w] = NoPlan, !.workers[w] = e]
        BY <2>3 DEF drain_pending_dispatches, DropPlan, SendPlan
      <3> QED
        BY <1>0, <3>1 DEF Memory
    <2>4. CASE RunPrepare(w)
      <3>1. \/ mem' = [mem EXCEPT !.plans[w] = NoPlan]
            \/ \E l : mem' = [mem EXCEPT !.plans[w].lease = l]
        BY <2>4 DEF RunPrepare
      <3> QED
        BY <1>0, <3>1 DEF Memory
    <2> QED
      BY <1>4, <2>1, <2>2, <2>3, <2>4
  <1>5. ASSUME NEW w \in Worker,
               \/ WorkerStep(w) \/ send_identify(w) \/ SendHeartbeat(w)
               \/ wait_for_all_jobs(w) \/ WorkerDies(w)
        PROVE  UNCHANGED mem
    BY <1>5 DEF WorkerStep, handle_dispatch, handle_abort, write_outputs_grouped, execute_job, DrainResult,
                reap_completed_jobs, send_identify, SendHeartbeat, wait_for_all_jobs,
                WorkerDies, WorkerReceive, WorkerOnly
  <1>6. ASSUME NEW j \in Job, \/ handle_control_request(j) \/ drain_pending_cancel_jobs(j)
                              \/ enqueue_jobs(j) \/ ClockPasses(j)
        PROVE  mem'.seen = mem.seen /\ mem'.reconciled = mem.reconciled
    BY <1>0, <1>6 DEF handle_control_request, drain_pending_cancel_jobs, enqueue_jobs,
                      ClockPasses, Outside, Memory
  <1>7. CASE sweep_expired_dispatches \/ GraceEnds
    BY <1>0, <1>7 DEF sweep_expired_dispatches, GraceEnds, Memory
  <1>8. CASE RunTask
    BY <1>0, <1>8 DEF RunTask, CancelReply, Memory
  <1>9. CASE CrashIdle \/ CrashInTask \/ CrashInPrepare \/ Restart
    <2>1. mem'.seen = {} /\ mem'.reconciled = {}
      BY <1>9 DEF CrashIdle, CrashInTask, CrashInPrepare, Crashed, Restart, FreshMemory
    <2> QED
      BY <2>1
  <1>10. UNCHANGED vars => UNCHANGED mem
    BY DEF vars
  <1> HIDE DEF ReconciledWasSeen
  <1> QED
    BY <1>1, <1>2, <1>3, <1>4, <1>5, <1>6, <1>7, <1>8, <1>9, <1>10 DEF Next, Reactor

\* What was committed was promoted, under tokens.
PromotedInv == committed \subseteq promoted /\ promoted \subseteq Token

\* Every step keeps it.
LEMMA PromotedKept ==
    ASSUME SystemInv, PromotedInv, [Next]_vars
    PROVE  PromotedInv'
  <1>1. CASE UNCHANGED << promoted, committed >>
    BY <1>1 DEF PromotedInv
  <1>2. ASSUME NEW w \in Worker, write_outputs_grouped(w) \/ execute_job(w) \/ wait_for_all_jobs(w)
        PROVE  PromotedInv'
    <2>0. PICK t : t = wk[w].lease.token
      OBVIOUS
    <2>1. wk[w].stage = "running" => t \in Token
      BY <2>0, WorkerFacts DEF WorkerOK, Lease
    <2>2. \/ UNCHANGED << promoted, committed >>
          \/ /\ wk[w].stage = "running" /\ promoted' = promoted \cup {t}
             /\ committed' \in {committed, committed \cup {t}}
      <3>1. CASE write_outputs_grouped(w)
        BY <2>0, <3>1 DEF write_outputs_grouped
      <3>2. CASE execute_job(w)
        BY <2>0, <3>2 DEF execute_job
      <3>3. CASE wait_for_all_jobs(w)
        BY <2>0, <3>3 DEF wait_for_all_jobs
      <3> QED
        BY <1>2, <3>1, <3>2, <3>3
    <2> QED
      BY <1>1, <2>1, <2>2 DEF PromotedInv
  <1>3. ASSUME NEW w \in Worker, Reactor(w) \/ cleanup_stale_workers(w) \/ RunPrepare(w)
        PROVE  UNCHANGED << promoted, committed >>
    BY <1>3 DEF Reactor, register_worker, handle_dispatch_ack, handle_heartbeat,
                handle_conclude, dispatch_loop, drain_pending_dispatches,
                cleanup_stale_workers, Receive, SentinelOnly, RunPrepare
  <1>4. ASSUME NEW w \in Worker,
               \/ handle_dispatch(w) \/ handle_abort(w) \/ DrainResult(w)
               \/ reap_completed_jobs(w) \/ send_identify(w) \/ SendHeartbeat(w)
               \/ WorkerDies(w)
        PROVE  UNCHANGED << promoted, committed >>
    BY <1>4 DEF handle_dispatch, handle_abort, DrainResult, reap_completed_jobs,
                send_identify, SendHeartbeat, WorkerDies, WorkerReceive
  <1>5. ASSUME NEW j \in Job, \/ handle_control_request(j) \/ drain_pending_cancel_jobs(j)
                              \/ enqueue_jobs(j) \/ ClockPasses(j)
        PROVE  UNCHANGED << promoted, committed >>
    BY <1>5 DEF handle_control_request, drain_pending_cancel_jobs, enqueue_jobs,
                ClockPasses, Outside, SentinelOnly
  <1>6. CASE \/ sweep_expired_dispatches \/ GraceEnds \/ RunTask
             \/ CrashIdle \/ CrashInTask \/ CrashInPrepare \/ Restart
    <2>1. UNCHANGED << promoted, committed >>
      BY <1>6 DEF sweep_expired_dispatches, GraceEnds, SentinelOnly, RunTask, CrashIdle,
                  CrashInTask, CrashInPrepare, Crashed, Restart
    <2> QED
      BY <1>1, <2>1
  <1>7. UNCHANGED vars => UNCHANGED << promoted, committed >>
    BY DEF vars
  <1> QED
    BY <1>1, <1>2, <1>3, <1>4, <1>5, <1>6, <1>7 DEF Next, WorkerStep

\* The types of the tables, the tasks, the memories and the messages.
THEOREM DispatchTypeCorrect == Spec => []TypeOK
  <1>1. Init => ReconciledWasSeen /\ PromotedInv
    BY DEF Init, FreshMemory, ReconciledWasSeen, PromotedInv
  <1>2. SystemInv /\ ReconciledWasSeen /\ PromotedInv /\ [Next]_vars
          => ReconciledWasSeen' /\ PromotedInv'
    BY ReconciledKept, PromotedKept
  <1>3. SystemInv /\ ReconciledWasSeen /\ PromotedInv => TypeOK
    <2> SUFFICES ASSUME SystemInv, ReconciledWasSeen, PromotedInv PROVE TypeOK
      OBVIOUS
    <2>1. \A i \in DOMAIN tasks : tasks[i] \in Task
      <3>1. \A i \in DOMAIN tasks : tasks[i] \in Work
        BY Fifo DEF SystemInv, WorkInv
      <3> QED
        BY <3>1 DEF Work
    <2>2. \A w \in Worker : \A i \in DOMAIN toSentinel[w] : toSentinel[w][i] \in Message
      <3>1. \A w \in Worker : \A i \in DOMAIN toSentinel[w] : toSentinel[w][i] \in Mail
        BY Fifo DEF SystemInv, MailInv
      <3> QED
        BY <3>1 DEF Mail
    <2>3. \A w \in Worker : \A i \in DOMAIN toWorker[w] : toWorker[w][i] \in Message
      BY Fifo DEF SystemInv, OrdersInv
    <2>4. /\ mem.workers \in [Worker -> [known : BOOLEAN, status : WorkerStatus,
                                         lease : LeaseOrNone]]
          /\ mem.plans \in [Worker -> [asked : BOOLEAN, lease : LeaseOrNone]]
          /\ mem.cancels \in [Job -> {"none", "asked", "cancelled", "notCancelled", "closed"}]
          /\ mem.seen \subseteq Worker
      BY DEF SystemInv, SentinelInv, Memory
    <2>5. wk \in [Worker -> [up : BOOLEAN, stage : {"idle", "running", "finished", "sent"},
                             lease : LeaseOrNone, cancelled : BOOLEAN,
                             result : ReceiptStatus \cup {"none"}]]
      BY DEF SystemInv, WorkersInv, WorkerState
    <2> QED
      BY <2>1, <2>2, <2>3, <2>4, <2>5 DEF TypeOK, SystemInv, ReconciledWasSeen, PromotedInv
  <1> QED
    BY <1>1, <1>2, <1>3, SystemInvariant, PTL DEF Spec

-------------------------------------------------------------------------------
(* What is said of a lease.  The Sentinel hears of a lease in one line: the *)
(* tasks of its database thread, and behind them the messages that are on   *)
(* their way from the lease's worker.  Three things are said in it: that    *)
(* the job was started, that it ended, and that the worker has other jobs.  *)

IsAck(l, x) == x.op \in {"DISPATCH_ACK", "ack"} /\ x.lease = l

IsEnd(l, x) == x.op \in {"CONCLUDE", "conclude"} /\ x.lease = l

\* The end of a job that was started.
IsReport(l, x) == IsEnd(l, x) /\ x.status # "rejected"

\* A heartbeat of the lease's worker that does not name its job.
Misses(l, x) ==
    \/ x.op = "HEARTBEAT" /\ l.job \notin x.active
    \/ x.op = "reconcile" /\ x.worker = l.worker /\ l.job \notin x.active

Foreign(l, x) == ~IsAck(l, x) /\ ~IsEnd(l, x) /\ ~Misses(l, x)

\* The worker will still report how the job ended.
Works(l, k) == k.stage \in {"running", "finished"} /\ k.lease = l

\* The parameters of the operators below: u says that the DISPATCH was not
\* taken yet, r that the job's row is RUNNING under the lease, q are the
\* tasks, s the messages on their way from the worker and k is its state.
\*
\* What the line says when a heartbeat misses the job: either the heartbeat
\* was sent before the job was started, and it is before the DISPATCH_ACK, or
\* it was sent after the job ended, and it is behind the CONCLUDE.
Unheard(l, r, q, s) ==
    /\ ~r
    /\ \A i \in DOMAIN q : ~IsAck(l, q[i])
    /\ \A i \in DOMAIN s : ~IsAck(l, s[i])

MissedInTasks(l, r, q, s, k) ==
    \A i \in DOMAIN q : Misses(l, q[i]) =>
       \/ ~r /\ \A n \in DOMAIN q : IsAck(l, q[n]) => i < n
       \/ /\ ~Works(l, k)
          /\ \A n \in DOMAIN q : IsEnd(l, q[n]) => n < i
          /\ \A n \in DOMAIN s : ~IsEnd(l, s[n])

MissedInMail(l, r, q, s, k) ==
    \A i \in DOMAIN s : Misses(l, s[i]) =>
       \/ /\ ~r
          /\ \A n \in DOMAIN q : ~IsAck(l, q[n])
          /\ \A n \in DOMAIN s : IsAck(l, s[n]) => i < n
       \/ ~Works(l, k) /\ \A n \in DOMAIN s : IsEnd(l, s[n]) => n < i

Spared(l, u, r, q, s, k) ==
    /\ u => Unheard(l, r, q, s)
    /\ MissedInTasks(l, r, q, s, k)
    /\ MissedInMail(l, r, q, s, k)

\* While nothing is lost: what was started is reported behind its start.
Awaited(l, r, q, s, k) ==
    /\ r => \/ Works(l, k)
            \/ \E n \in DOMAIN q : IsReport(l, q[n])
            \/ \E n \in DOMAIN s : IsReport(l, s[n])
    /\ \A i \in DOMAIN q : IsAck(l, q[i]) =>
            \/ Works(l, k)
            \/ \E n \in DOMAIN q : i < n /\ IsReport(l, q[n])
            \/ \E n \in DOMAIN s : IsReport(l, s[n])
    /\ \A i \in DOMAIN s : IsAck(l, s[i]) =>
            Works(l, k) \/ \E n \in DOMAIN s : i < n /\ IsReport(l, s[n])

\* What a step does to the line.  Quiet: nothing, but a task about something
\* else may be added and the worker may go.
Quiet(l, r, q, s, k, r2, q2, s2, k2) ==
    /\ r2 => r
    /\ q2 = q \/ \E x \in Task : Foreign(l, x) /\ q2 = Append(q, x)
    /\ s2 = s
    /\ Works(l, k2) => Works(l, k)
    /\ Works(l, k) => Works(l, k2) \/ ~k2.up

\* The reactor takes a message and may make it a task.
Heard(l, r, q, s, k, r2, q2, s2, k2) ==
    /\ s # << >> /\ s2 = Tail(s)
    /\ \/ q2 = q /\ ~IsReport(l, Head(s))
       \/ \E x \in Task :
            /\ q2 = Append(q, x)
            /\ IsAck(l, x) => IsAck(l, Head(s))
            /\ IsEnd(l, x) => IsEnd(l, Head(s))
            /\ Misses(l, x) => Misses(l, Head(s))
            /\ IsReport(l, Head(s)) => IsReport(l, x)
    /\ (r2 => r) /\ k2 = k

\* The database thread runs a task.
Ran(l, r, q, s, k, r2, q2, s2, k2) ==
    /\ q # << >> /\ q2 = Tail(q)
    /\ r2 => r \/ IsAck(l, Head(q))
    /\ IsReport(l, Head(q)) => ~r2
    /\ s2 = s /\ k2 = k

\* The worker sends a message.
Told(l, u, r, q, s, k, u2, r2, q2, s2, k2) ==
    /\ \E m \in Message :
         /\ s2 = Append(s, m)
         /\ IsAck(l, m) => ~u2 /\ Works(l, k2)
         /\ IsEnd(l, m) => Works(l, k) \/ u
         /\ Misses(l, m) => ~Works(l, k2)
         /\ Works(l, k) => Works(l, k2) \/ IsReport(l, m)
    /\ Works(l, k2) => Works(l, k) \/ u
    /\ q2 = q /\ (r2 => r)

\* The Sentinel crashes.
Cut(l, r, q, s, k, r2, q2, s2, k2) ==
    /\ q2 = << >>
    /\ \E n \in Nat : s2 = SubSeq(s, 1 + n, Len(s))
    /\ r2 => r \/ (q # << >> /\ IsAck(l, Head(q)))
    /\ k2 = k

\* The worker dies.
Died(l, r, q, s, k, r2, q2, s2, k2) ==
    /\ \E n \in Nat : n <= Len(s) /\ s2 = SubSeq(s, 1, n)
    /\ Works(l, k2) => Works(l, k)
    /\ q2 = q /\ (r2 => r)

\* An element says one thing of a lease.
LEMMA SaysOneThing ==
    ASSUME NEW l, NEW x
    PROVE  /\ Misses(l, x) => ~IsAck(l, x) /\ ~IsEnd(l, x)
           /\ IsAck(l, x) => ~IsEnd(l, x)
           /\ IsReport(l, x) => IsEnd(l, x)
  BY DEF Misses, IsAck, IsEnd, IsReport

\* The elements of a FIFO after one is added or taken.
LEMMA Appended ==
    ASSUME NEW S, NEW s \in Seq(S), NEW e \in S
    PROVE  /\ DOMAIN s = 1 .. Len(s) /\ Len(s) \in Nat
           /\ DOMAIN Append(s, e) = 1 .. Len(s) + 1
           /\ \A i \in 1 .. Len(s) : Append(s, e)[i] = s[i] /\ i \in 1 .. Len(s) + 1
           /\ Append(s, e)[Len(s) + 1] = e
           /\ Len(s) + 1 \in 1 .. Len(s) + 1
           /\ \A i \in 1 .. Len(s) + 1 : i \in 1 .. Len(s) \/ i = Len(s) + 1
           /\ \A i \in 1 .. Len(s) : i < Len(s) + 1 /\ ~(Len(s) + 1 < i)
  <1>1. /\ DOMAIN s = 1 .. Len(s) /\ Len(s) \in Nat
        /\ DOMAIN Append(s, e) = 1 .. Len(s) + 1
        /\ \A i \in 1 .. Len(s) : Append(s, e)[i] = s[i]
        /\ Append(s, e)[Len(s) + 1] = e
    OBVIOUS
  <1> QED
    BY <1>1

\* The elements of a FIFO after its oldest is taken.
LEMMA Taken ==
    ASSUME NEW S, NEW s \in Seq(S), s # << >>
    PROVE  /\ DOMAIN s = 1 .. Len(s) /\ Len(s) \in Nat
           /\ DOMAIN Tail(s) = 1 .. Len(s) - 1
           /\ \A i \in 1 .. Len(s) - 1 : Tail(s)[i] = s[i + 1] /\ i + 1 \in 1 .. Len(s)
           /\ Head(s) = s[1] /\ 1 \in 1 .. Len(s)
           /\ \A i \in 1 .. Len(s) : i = 1 \/ (i - 1 \in 1 .. Len(s) - 1 /\ (i - 1) + 1 = i)
           /\ \A i, n \in 1 .. Len(s) - 1 : i + 1 < n + 1 <=> i < n
           /\ \A i \in 1 .. Len(s) - 1 : 1 < i + 1 /\ ~(i + 1 < 1)
           /\ \A i \in 1 .. Len(s) : ~(i < 1) /\ ~(i < i)
  <1>1. /\ DOMAIN s = 1 .. Len(s) /\ Len(s) \in Nat /\ Len(s) # 0
        /\ DOMAIN Tail(s) = 1 .. Len(s) - 1
        /\ \A i \in 1 .. Len(s) - 1 : Tail(s)[i] = s[i + 1]
        /\ Head(s) = s[1]
    OBVIOUS
  <1> QED
    BY <1>1

\* Each kind of step keeps what is said of heartbeats that miss the job.
LEMMA QuietSpares ==
    ASSUME NEW l, NEW u, NEW r, NEW q \in Seq(Task), NEW s \in Seq(Message), NEW k,
           NEW u2, NEW r2, NEW q2, NEW s2, NEW k2,
           Spared(l, u, r, q, s, k), u2 => u, Quiet(l, r, q, s, k, r2, q2, s2, k2)
    PROVE  Spared(l, u2, r2, q2, s2, k2)
  <1>0. s2 = s /\ (r2 => r) /\ (Works(l, k2) => Works(l, k))
    BY DEF Quiet
  <1>1. CASE q2 = q
    BY <1>0, <1>1 DEF Spared, Unheard, MissedInTasks, MissedInMail
  <1>2. ASSUME NEW x \in Task, Foreign(l, x), q2 = Append(q, x)
        PROVE  Spared(l, u2, r2, q2, s2, k2)
    <2>1. Unheard(l, r, q, s) => Unheard(l, r2, q2, s2)
      BY <1>0, <1>2, Appended DEF Unheard, Foreign
    <2>2. MissedInTasks(l, r2, q2, s2, k2)
      BY <1>0, <1>2, Appended DEF Spared, MissedInTasks, Foreign
    <2>3. MissedInMail(l, r2, q2, s2, k2)
      BY <1>0, <1>2, Appended DEF Spared, MissedInMail, Foreign
    <2> QED
      BY <2>1, <2>2, <2>3 DEF Spared
  <1> QED
    BY <1>1, <1>2 DEF Quiet

\* The reactor takes a message: what misses the job keeps its place between the
\* DISPATCH_ACK and the CONCLUDE, wherever the line is cut into pipe and queue.
LEMMA HeardSpares ==
    ASSUME NEW l, NEW u, NEW r, NEW q \in Seq(Task), NEW s \in Seq(Message), NEW k,
           NEW u2, NEW r2, NEW q2, NEW s2, NEW k2,
           Spared(l, u, r, q, s, k), u2 => u, Heard(l, r, q, s, k, r2, q2, s2, k2)
    PROVE  Spared(l, u2, r2, q2, s2, k2)
  <1>0. s # << >> /\ s2 = Tail(s) /\ (r2 => r) /\ k2 = k
    BY DEF Heard
  <1>1. CASE q2 = q
    <2>1. Unheard(l, r, q, s) => Unheard(l, r2, q2, s2)
      BY <1>0, <1>1, Taken DEF Unheard
    <2>2. MissedInTasks(l, r2, q2, s2, k2)
      BY <1>0, <1>1, Taken DEF Spared, MissedInTasks
    <2>3. MissedInMail(l, r2, q2, s2, k2)
      BY <1>0, <1>1, Taken DEF Spared, MissedInMail
    <2> QED
      BY <2>1, <2>2, <2>3 DEF Spared
  <1>2. ASSUME NEW x \in Task, q2 = Append(q, x),
               IsAck(l, x) => IsAck(l, Head(s)),
               IsEnd(l, x) => IsEnd(l, Head(s)),
               Misses(l, x) => Misses(l, Head(s))
        PROVE  Spared(l, u2, r2, q2, s2, k2)
    <2>1. Unheard(l, r, q, s) => Unheard(l, r2, q2, s2)
      BY <1>0, <1>2, Taken, Appended DEF Unheard
    <2>2. MissedInTasks(l, r2, q2, s2, k2)
      <3>1. ASSUME NEW i \in 1 .. Len(q), Misses(l, q[i])
            PROVE  \/ ~r2 /\ \A n \in DOMAIN q2 : IsAck(l, q2[n]) => i < n
                   \/ /\ ~Works(l, k2)
                      /\ \A n \in DOMAIN q2 : IsEnd(l, q2[n]) => n < i
                      /\ \A n \in DOMAIN s2 : ~IsEnd(l, s2[n])
        BY <1>0, <1>2, <3>1, Taken, Appended DEF Spared, MissedInTasks
      <3>2. ASSUME Misses(l, x)
            PROVE  \/ ~r2 /\ \A n \in DOMAIN q2 : IsAck(l, q2[n]) => Len(q) + 1 < n
                   \/ /\ ~Works(l, k2)
                      /\ \A n \in DOMAIN q2 : IsEnd(l, q2[n]) => n < Len(q) + 1
                      /\ \A n \in DOMAIN s2 : ~IsEnd(l, s2[n])
        <4>1. ~IsAck(l, x) /\ ~IsEnd(l, x)
          BY <3>2, SaysOneThing
        <4>2. \/ ~r /\ \A n \in DOMAIN q : ~IsAck(l, q[n])
              \/ ~Works(l, k) /\ \A n \in DOMAIN s : ~IsEnd(l, s[n])
          BY <1>0, <1>2, <3>2, Taken DEF Spared, MissedInMail
        <4> QED
          BY <1>0, <1>2, <4>1, <4>2, Taken, Appended
      <3> QED
        BY <1>2, <3>1, <3>2, Appended DEF MissedInTasks
    <2>3. MissedInMail(l, r2, q2, s2, k2)
      <3>1. ASSUME NEW i \in DOMAIN s2, Misses(l, s2[i])
            PROVE  \/ /\ ~r2
                      /\ \A n \in DOMAIN q2 : ~IsAck(l, q2[n])
                      /\ \A n \in DOMAIN s2 : IsAck(l, s2[n]) => i < n
                   \/ ~Works(l, k2) /\ \A n \in DOMAIN s2 : IsEnd(l, s2[n]) => n < i
        <4>1. i \in 1 .. Len(s) - 1 /\ i + 1 \in DOMAIN s /\ Misses(l, s[i + 1])
          BY <1>0, <3>1, Taken
        <4>2. CASE /\ ~r
                   /\ \A n \in DOMAIN q : ~IsAck(l, q[n])
                   /\ \A n \in DOMAIN s : IsAck(l, s[n]) => i + 1 < n
          <5>1. ~IsAck(l, Head(s))
            BY <1>0, <4>1, <4>2, Taken
          <5>2. \A n \in DOMAIN q2 : ~IsAck(l, q2[n])
            BY <1>2, <4>2, <5>1, Appended
          <5>3. \A n \in DOMAIN s2 : IsAck(l, s2[n]) => i < n
            BY <1>0, <4>1, <4>2, Taken
          <5> QED
            BY <1>0, <4>2, <5>2, <5>3
        <4>3. CASE ~Works(l, k) /\ \A n \in DOMAIN s : IsEnd(l, s[n]) => n < i + 1
          <5>1. \A n \in DOMAIN s2 : IsEnd(l, s2[n]) => n < i
            BY <1>0, <4>1, <4>3, Taken
          <5> QED
            BY <1>0, <4>3, <5>1
        <4> QED
          BY <4>1, <4>2, <4>3 DEF Spared, MissedInMail
      <3> QED
        BY <3>1 DEF MissedInMail
    <2> QED
      BY <2>1, <2>2, <2>3 DEF Spared
  <1> QED
    BY <1>1, <1>2 DEF Heard

\* The database thread runs the oldest task: a heartbeat that is before the
\* DISPATCH_ACK is run before it.
LEMMA RanSpares ==
    ASSUME NEW l, NEW u, NEW r, NEW q \in Seq(Task), NEW s \in Seq(Message), NEW k,
           NEW u2, NEW r2, NEW q2, NEW s2, NEW k2,
           Spared(l, u, r, q, s, k), u2 => u, Ran(l, r, q, s, k, r2, q2, s2, k2)
    PROVE  Spared(l, u2, r2, q2, s2, k2)
  <1>0. /\ q # << >> /\ q2 = Tail(q) /\ s2 = s /\ k2 = k
        /\ r2 => r \/ IsAck(l, Head(q))
    BY DEF Ran
  <1>1. Unheard(l, r, q, s) => Unheard(l, r2, q2, s2)
    BY <1>0, Taken DEF Unheard
  <1>2. MissedInTasks(l, r2, q2, s2, k2)
    BY <1>0, Taken DEF Spared, MissedInTasks
  <1>3. MissedInMail(l, r2, q2, s2, k2)
    BY <1>0, Taken DEF Spared, MissedInMail
  <1> QED
    BY <1>1, <1>2, <1>3 DEF Spared

\* The worker sends: a heartbeat misses the job only while it does not have it.
LEMMA ToldSpares ==
    ASSUME NEW l, NEW u, NEW r, NEW q \in Seq(Task), NEW s \in Seq(Message), NEW k,
           NEW u2, NEW r2, NEW q2, NEW s2, NEW k2,
           Spared(l, u, r, q, s, k), u2 => u, Told(l, u, r, q, s, k, u2, r2, q2, s2, k2)
    PROVE  Spared(l, u2, r2, q2, s2, k2)
  <1>0. PICK m \in Message :
         /\ s2 = Append(s, m)
         /\ IsAck(l, m) => ~u2 /\ Works(l, k2)
         /\ IsEnd(l, m) => Works(l, k) \/ u
         /\ Misses(l, m) => ~Works(l, k2)
    BY DEF Told
  <1>1. q2 = q /\ (r2 => r) /\ (Works(l, k2) => Works(l, k) \/ u)
    BY DEF Told
  <1>2. u2 => Unheard(l, r2, q2, s2)
    BY <1>0, <1>1, Appended DEF Spared, Unheard
  <1>3. CASE u
    <2>1. Unheard(l, r, q, s)
      BY <1>3 DEF Spared
    <2>2. MissedInTasks(l, r2, q2, s2, k2)
      BY <1>0, <1>1, <2>1 DEF MissedInTasks, Unheard
    <2>3. MissedInMail(l, r2, q2, s2, k2)
      <3>1. Misses(l, m) => ~IsAck(l, m) /\ ~IsEnd(l, m)
        BY SaysOneThing
      <3> QED
        BY <1>0, <1>1, <2>1, <3>1, Appended DEF MissedInMail, Unheard
    <2> QED
      BY <1>2, <2>2, <2>3 DEF Spared
  <1>4. CASE ~u
    <2>2. MissedInTasks(l, r2, q2, s2, k2)
      <3>1. ASSUME NEW i \in DOMAIN q, Misses(l, q[i])
            PROVE  \/ ~r2 /\ \A n \in DOMAIN q : IsAck(l, q[n]) => i < n
                   \/ /\ ~Works(l, k2)
                      /\ \A n \in DOMAIN q : IsEnd(l, q[n]) => n < i
                      /\ \A n \in DOMAIN s2 : ~IsEnd(l, s2[n])
        <4>1. CASE ~r /\ \A n \in DOMAIN q : IsAck(l, q[n]) => i < n
          BY <1>1, <4>1
        <4>2. CASE /\ ~Works(l, k)
                   /\ \A n \in DOMAIN q : IsEnd(l, q[n]) => n < i
                   /\ \A n \in DOMAIN s : ~IsEnd(l, s[n])
          <5>1. \A n \in DOMAIN s2 : ~IsEnd(l, s2[n])
            BY <1>0, <1>4, <4>2, Appended
          <5> QED
            BY <1>1, <1>4, <4>2, <5>1
        <4> QED
          BY <3>1, <4>1, <4>2 DEF Spared, MissedInTasks
      <3> QED
        BY <1>1, <3>1 DEF MissedInTasks
    <2>3. MissedInMail(l, r2, q2, s2, k2)
      <3>1. Misses(l, m) => ~IsAck(l, m) /\ ~IsEnd(l, m)
        BY SaysOneThing
      <3> QED
        <4>1. ASSUME NEW i \in 1 .. Len(s), Misses(l, s[i])
              PROVE  \/ /\ ~r2
                        /\ \A n \in DOMAIN q : ~IsAck(l, q[n])
                        /\ \A n \in DOMAIN s2 : IsAck(l, s2[n]) => i < n
                     \/ ~Works(l, k2) /\ \A n \in DOMAIN s2 : IsEnd(l, s2[n]) => n < i
          <5>1. CASE /\ ~r
                     /\ \A n \in DOMAIN q : ~IsAck(l, q[n])
                     /\ \A n \in DOMAIN s : IsAck(l, s[n]) => i < n
            BY <1>0, <1>1, <4>1, <5>1, Appended
          <5>2. CASE ~Works(l, k) /\ \A n \in DOMAIN s : IsEnd(l, s[n]) => n < i
            BY <1>0, <1>1, <1>4, <4>1, <5>2, Appended
          <5> QED
            BY <4>1, <5>1, <5>2, Appended DEF Spared, MissedInMail
        <4>2. Misses(l, m) =>
                ~Works(l, k2) /\ \A n \in DOMAIN s2 : IsEnd(l, s2[n]) => n < Len(s) + 1
          BY <1>0, <3>1, Appended
        <4> QED
          BY <1>0, <1>1, <4>1, <4>2, Appended DEF MissedInMail
    <2> QED
      BY <1>2, <2>2, <2>3 DEF Spared
  <1> QED
    BY <1>3, <1>4

\* The Sentinel crashes: the tasks and the oldest messages are lost.
LEMMA CutSpares ==
    ASSUME NEW l, NEW u, NEW r, NEW q \in Seq(Task), NEW s \in Seq(Message), NEW k,
           NEW u2, NEW r2, NEW q2, NEW s2, NEW k2,
           Spared(l, u, r, q, s, k), u2 => u, Cut(l, r, q, s, k, r2, q2, s2, k2)
    PROVE  Spared(l, u2, r2, q2, s2, k2)
  <1>0. /\ q2 = << >> /\ k2 = k
        /\ r2 => r \/ (q # << >> /\ IsAck(l, Head(q)))
    BY DEF Cut
  <1>1. PICK n \in Nat : s2 = SubSeq(s, 1 + n, Len(s))
    BY DEF Cut
  <1>2. r2 => r \/ \E i \in DOMAIN q : IsAck(l, q[i])
    BY <1>0, Taken
  <1>3. DOMAIN q2 = {}
    BY <1>0
  <1>4. /\ \A i \in DOMAIN s2 : s2[i] = s[i + n] /\ i + n \in DOMAIN s
        /\ \A i, j \in DOMAIN s2 : i + n < j + n <=> i < j
    <2>1. /\ DOMAIN s = 1 .. Len(s) /\ Len(s) \in Nat
          /\ DOMAIN s2 = 1 .. Len(s) - n
          /\ \A i \in 1 .. Len(s) - n : s2[i] = s[i + n]
      BY <1>1
    <2> QED
      BY <2>1
  <1>5. Unheard(l, r, q, s) => Unheard(l, r2, q2, s2)
    BY <1>2, <1>3, <1>4 DEF Unheard
  <1>6. MissedInTasks(l, r2, q2, s2, k2)
    BY <1>3 DEF MissedInTasks
  <1>7. MissedInMail(l, r2, q2, s2, k2)
    BY <1>0, <1>2, <1>3, <1>4 DEF Spared, MissedInMail
  <1> QED
    BY <1>5, <1>6, <1>7 DEF Spared

\* The worker dies: the newest messages are lost.
LEMMA DiedSpares ==
    ASSUME NEW l, NEW u, NEW r, NEW q \in Seq(Task), NEW s \in Seq(Message), NEW k,
           NEW u2, NEW r2, NEW q2, NEW s2, NEW k2,
           Spared(l, u, r, q, s, k), u2 => u, Died(l, r, q, s, k, r2, q2, s2, k2)
    PROVE  Spared(l, u2, r2, q2, s2, k2)
  <1>0. q2 = q /\ (r2 => r) /\ (Works(l, k2) => Works(l, k))
    BY DEF Died
  <1>1. PICK n \in Nat : n <= Len(s) /\ s2 = SubSeq(s, 1, n)
    BY DEF Died
  <1>2. \A i \in DOMAIN s2 : s2[i] = s[i] /\ i \in DOMAIN s
    <2>1. /\ DOMAIN s = 1 .. Len(s) /\ Len(s) \in Nat
          /\ DOMAIN s2 = 1 .. n
          /\ \A i \in 1 .. n : s2[i] = s[i] /\ i \in 1 .. Len(s)
      BY <1>1
    <2> QED
      BY <2>1
  <1>5. Unheard(l, r, q, s) => Unheard(l, r2, q2, s2)
    BY <1>0, <1>2 DEF Unheard
  <1>6. MissedInTasks(l, r2, q2, s2, k2)
    BY <1>0, <1>2 DEF Spared, MissedInTasks
  <1>7. MissedInMail(l, r2, q2, s2, k2)
    BY <1>0, <1>2 DEF Spared, MissedInMail
  <1> QED
    BY <1>5, <1>6, <1>7 DEF Spared

\* Each kind of step that loses nothing keeps that a report is under way.
LEMMA QuietAwaits ==
    ASSUME NEW l, NEW r, NEW q \in Seq(Task), NEW s \in Seq(Message), NEW k,
           NEW r2, NEW q2, NEW s2, NEW k2, k2.up,
           Awaited(l, r, q, s, k), Quiet(l, r, q, s, k, r2, q2, s2, k2)
    PROVE  Awaited(l, r2, q2, s2, k2)
  <1>0. s2 = s /\ (r2 => r) /\ (Works(l, k) => Works(l, k2))
    BY DEF Quiet
  <1>1. CASE q2 = q
    BY <1>0, <1>1 DEF Awaited
  <1>2. ASSUME NEW x \in Task, ~IsAck(l, x), q2 = Append(q, x)
        PROVE  Awaited(l, r2, q2, s2, k2)
    <2>1. \A i \in DOMAIN q : i \in DOMAIN q2 /\ q2[i] = q[i]
      BY <1>2, Appended
    <2>2. \A i \in DOMAIN q2 : IsAck(l, q2[i]) => i \in DOMAIN q
      BY <1>2, Appended
    <2> QED
      BY <1>0, <2>1, <2>2 DEF Awaited
  <1> QED
    BY <1>1, <1>2 DEF Quiet, Foreign

\* The reactor takes a message: reports become tasks, in their order.
LEMMA HeardAwaits ==
    ASSUME NEW l, NEW r, NEW q \in Seq(Task), NEW s \in Seq(Message), NEW k,
           NEW r2, NEW q2, NEW s2, NEW k2,
           Awaited(l, r, q, s, k), Heard(l, r, q, s, k, r2, q2, s2, k2)
    PROVE  Awaited(l, r2, q2, s2, k2)
  <1>0. s # << >> /\ s2 = Tail(s) /\ (r2 => r) /\ k2 = k
    BY DEF Heard
  <1> DEFINE Later(i) == \E n \in DOMAIN s : i < n /\ IsReport(l, s[n])
  <1>1. \A n \in DOMAIN s : n = 1 \/ (n - 1 \in DOMAIN s2 /\ s2[n - 1] = s[n] /\ 1 < n)
    <2>1. \A n \in 1 .. Len(s) : n = 1 \/ 1 < n
      BY Taken
    <2> QED
      BY <1>0, <2>1, Taken
  <1>2. \A i \in DOMAIN s2 : s2[i] = s[i + 1] /\ i + 1 \in DOMAIN s
    BY <1>0, Taken
  <1>3. \A i \in DOMAIN s2 : \A n \in DOMAIN s : i + 1 < n => i < n - 1 /\ n # 1
    BY <1>0, Taken
  <1>4. \A i \in DOMAIN s2 : IsAck(l, s2[i]) =>
            Works(l, k2) \/ \E n \in DOMAIN s2 : i < n /\ IsReport(l, s2[n])
    <2> SUFFICES ASSUME NEW i \in DOMAIN s2, IsAck(l, s2[i]), ~Works(l, k2)
                 PROVE  \E n \in DOMAIN s2 : i < n /\ IsReport(l, s2[n])
      OBVIOUS
    <2>1. PICK n \in DOMAIN s : i + 1 < n /\ IsReport(l, s[n])
      BY <1>0, <1>2 DEF Awaited
    <2> QED
      BY <1>1, <1>3, <2>1
  <1>5. Head(s) = s[1]
    BY <1>0, Taken
  <1>6. (\E n \in DOMAIN s : IsReport(l, s[n])) =>
            \/ IsReport(l, Head(s))
            \/ \E n \in DOMAIN s2 : IsReport(l, s2[n])
    BY <1>1, <1>5
  <1>7. CASE q2 = q /\ ~IsReport(l, Head(s))
    BY <1>0, <1>4, <1>6, <1>7 DEF Awaited
  <1>8. ASSUME NEW x \in Task, q2 = Append(q, x),
               IsAck(l, x) => IsAck(l, Head(s)),
               IsReport(l, Head(s)) => IsReport(l, x)
        PROVE  Awaited(l, r2, q2, s2, k2)
    <2>1. /\ \A i \in DOMAIN q : i \in DOMAIN q2 /\ q2[i] = q[i] /\ i < Len(q) + 1
          /\ Len(q) + 1 \in DOMAIN q2 /\ q2[Len(q) + 1] = x
          /\ \A i \in DOMAIN q2 : i \in DOMAIN q \/ i = Len(q) + 1
      BY <1>8, Appended
    <2>2. r2 => \/ Works(l, k2)
                \/ \E n \in DOMAIN q2 : IsReport(l, q2[n])
                \/ \E n \in DOMAIN s2 : IsReport(l, s2[n])
      BY <1>0, <1>6, <1>8, <2>1 DEF Awaited
    <2>3. ASSUME NEW i \in DOMAIN q, IsAck(l, q[i])
          PROVE  \/ Works(l, k2)
                 \/ \E n \in DOMAIN q2 : i < n /\ IsReport(l, q2[n])
                 \/ \E n \in DOMAIN s2 : IsReport(l, s2[n])
      BY <1>0, <1>6, <1>8, <2>1, <2>3 DEF Awaited
    <2>4. ASSUME IsAck(l, x)
          PROVE  Works(l, k2) \/ \E n \in DOMAIN s2 : IsReport(l, s2[n])
      <3>1. Works(l, k) \/ \E n \in DOMAIN s : 1 < n /\ IsReport(l, s[n])
        BY <1>0, <1>5, <1>8, <2>4, Taken DEF Awaited
      <3>2. \A n \in DOMAIN s : 1 < n => n # 1
        BY Taken, <1>0
      <3> QED
        BY <1>0, <1>1, <3>1, <3>2
    <2> QED
      BY <1>4, <2>1, <2>2, <2>3, <2>4 DEF Awaited
  <1> QED
    BY <1>7, <1>8 DEF Heard

\* The database thread runs the oldest task: a report stops the job it ends.
LEMMA RanAwaits ==
    ASSUME NEW l, NEW r, NEW q \in Seq(Task), NEW s \in Seq(Message), NEW k,
           NEW r2, NEW q2, NEW s2, NEW k2,
           Awaited(l, r, q, s, k), Ran(l, r, q, s, k, r2, q2, s2, k2)
    PROVE  Awaited(l, r2, q2, s2, k2)
  <1>0. /\ q # << >> /\ q2 = Tail(q) /\ s2 = s /\ k2 = k
        /\ r2 => r \/ IsAck(l, Head(q))
        /\ IsReport(l, Head(q)) => ~r2
    BY DEF Ran
  <1>1. \A n \in DOMAIN q : n = 1 \/ (n - 1 \in DOMAIN q2 /\ q2[n - 1] = q[n])
    BY <1>0, Taken
  <1>2. \A i \in DOMAIN q2 : q2[i] = q[i + 1] /\ i + 1 \in DOMAIN q
    BY <1>0, Taken
  <1>3. /\ \A i \in DOMAIN q2 : \A n \in DOMAIN q : i + 1 < n => i < n - 1 /\ n # 1
        /\ \A n \in DOMAIN q : 1 < n => n # 1
    BY <1>0, Taken
  <1>5. Head(q) = q[1] /\ 1 \in DOMAIN q
    BY <1>0, Taken
  <1>4. r2 => \/ Works(l, k2)
              \/ \E n \in DOMAIN q2 : IsReport(l, q2[n])
              \/ \E n \in DOMAIN s2 : IsReport(l, s2[n])
    <2> SUFFICES ASSUME r2, ~Works(l, k), ~\E n \in DOMAIN s : IsReport(l, s[n])
                 PROVE  \E n \in DOMAIN q2 : IsReport(l, q2[n])
      BY <1>0
    <2>1. \E n \in DOMAIN q : n # 1 /\ IsReport(l, q[n])
      <3>1. CASE r
        <4>1. PICK n \in DOMAIN q : IsReport(l, q[n])
          BY <3>1 DEF Awaited
        <4> QED
          BY <1>0, <1>5, <4>1
      <3>2. CASE IsAck(l, Head(q))
        BY <1>3, <1>5, <3>2 DEF Awaited
      <3> QED
        BY <1>0, <3>1, <3>2
    <2> QED
      BY <1>1, <2>1
  <1>6. ASSUME NEW i \in DOMAIN q2, IsAck(l, q2[i]), ~Works(l, k2),
               ~\E n \in DOMAIN s2 : IsReport(l, s2[n])
        PROVE  \E n \in DOMAIN q2 : i < n /\ IsReport(l, q2[n])
    <2>1. PICK n \in DOMAIN q : i + 1 < n /\ IsReport(l, q[n])
      BY <1>0, <1>2, <1>6 DEF Awaited
    <2> QED
      BY <1>1, <1>3, <2>1
  <1> QED
    BY <1>0, <1>4, <1>6 DEF Awaited

\* The worker sends: a job leaves the worker only with its report.
LEMMA ToldAwaits ==
    ASSUME NEW l, NEW u, NEW r, NEW q \in Seq(Task), NEW s \in Seq(Message), NEW k,
           NEW u2, NEW r2, NEW q2, NEW s2, NEW k2,
           Awaited(l, r, q, s, k), Told(l, u, r, q, s, k, u2, r2, q2, s2, k2)
    PROVE  Awaited(l, r2, q2, s2, k2)
  <1>0. PICK m \in Message :
         /\ s2 = Append(s, m)
         /\ IsAck(l, m) => Works(l, k2)
         /\ Works(l, k) => Works(l, k2) \/ IsReport(l, m)
    BY DEF Told
  <1>1. q2 = q /\ (r2 => r)
    BY DEF Told
  <1>2. /\ \A i \in DOMAIN s : i \in DOMAIN s2 /\ s2[i] = s[i] /\ i < Len(s) + 1
        /\ Len(s) + 1 \in DOMAIN s2 /\ s2[Len(s) + 1] = m
        /\ \A i \in DOMAIN s2 : i \in DOMAIN s \/ i = Len(s) + 1
    BY <1>0, Appended
  <1>3. (Works(l, k) \/ \E n \in DOMAIN s : IsReport(l, s[n])) =>
            Works(l, k2) \/ \E n \in DOMAIN s2 : IsReport(l, s2[n])
    BY <1>0, <1>2
  <1>4. ASSUME NEW i \in DOMAIN s2, IsAck(l, s2[i])
        PROVE  Works(l, k2) \/ \E n \in DOMAIN s2 : i < n /\ IsReport(l, s2[n])
    <2>1. CASE i = Len(s) + 1
      BY <1>0, <1>2, <1>4, <2>1
    <2>2. CASE i \in DOMAIN s
      <3>1. Works(l, k) \/ \E n \in DOMAIN s : i < n /\ IsReport(l, s[n])
        BY <1>2, <1>4, <2>2 DEF Awaited
      <3> QED
        BY <1>0, <1>2, <2>2, <3>1
    <2> QED
      BY <1>2, <2>1, <2>2
  <1> QED
    BY <1>1, <1>3, <1>4 DEF Awaited

-------------------------------------------------------------------------------
(* Only a DISPATCH_ACK starts a job, and the receipt of its lease ends it. *)

\* No job runs after a step under a lease it did not run under before it.
NoneStarts(d, e) ==
    \A j \in Job : e.jobs[j].status = "RUNNING" =>
        d.jobs[j].status = "RUNNING" /\ e.jobs[j].token = d.jobs[j].token

\* Rows whose leases are kept or dropped (sweeps, deferrals, failures) start no job.
LEMMA BenignStarts ==
    ASSUME NEW d, NEW e, \A j \in Job : Benign(d.jobs[j], e.jobs[j])
    PROVE  NoneStarts(d, e)
  BY DEF Benign, NoneStarts, Terminal

\* A statement on another table starts no job.
LEMMA SameStarts ==
    ASSUME NEW d, NEW e, e.jobs = d.jobs
    PROVE  NoneStarts(d, e)
  BY DEF NoneStarts

\* One row is changed.
LEMMA RowStarts ==
    ASSUME NEW d \in Tables, NEW j \in Job, NEW r, NEW e, e.jobs = [d.jobs EXCEPT ![j] = r],
           r.status = "RUNNING" => d.jobs[j].status = "RUNNING" /\ r.token = d.jobs[j].token
    PROVE  NoneStarts(d, e)
  BY DEF NoneStarts, Tables

\* A receipt, wherever it is cut (process_conclude_db), starts no job.
LEMMA AppliedStarts ==
    ASSUME NEW d \in Tables, NEW j \in Job, NEW e, NEW t, Applied(d, e, j, t)
    PROVE  NoneStarts(d, e)
  <1>1. CASE e.jobs = d.jobs
    BY <1>1, SameStarts
  <1>2. ASSUME NEW r \in ProcessingJob, e.jobs = [d.jobs EXCEPT ![j] = r], r.status \notin Active
        PROVE  NoneStarts(d, e)
    BY <1>2, RowStarts DEF Active
  <1> QED
    BY <1>1, <1>2 DEF Applied

\* One row is written with a status other than RUNNING.
LEMMA WrittenStarts ==
    ASSUME NEW d \in Tables, NEW j \in Job, NEW r \in ProcessingJob, r.status # "RUNNING"
    PROVE  NoneStarts(d, WithRow(d, j, r))
  <1>1. WithRow(d, j, r).jobs = [d.jobs EXCEPT ![j] = r]
    BY WithRowFacts
  <1> QED
    BY <1>1, RowStarts

\* defer_job and cancel_job (queue.rs) start no job.
LEMMA StopsStart ==
    ASSUME NEW d \in Tables, NEW j \in Job
    PROVE  NoneStarts(d, defer_job(d, j)) /\ NoneStarts(d, cancel_job(d, j))
  <1>1. NoneStarts(d, defer_job(d, j))
    <2> DEFINE r == Requeued(d.jobs[j], TRUE)
    <2>1. r \in ProcessingJob
      BY RowTyped, RequeuedTyped
    <2>2. r.status = "QUEUED"
      BY RowTyped DEF Requeued, ProcessingJob
    <2>3. defer_job(d, j) = WithRow(d, j, r)
      BY DEF defer_job
    <2> HIDE DEF r
    <2> QED
      BY <2>1, <2>2, <2>3, WrittenStarts
  <1>2. NoneStarts(d, cancel_job(d, j))
    <2> DEFINE r == [d.jobs[j] EXCEPT !.status = "ABORTED"]
    <2>1. r \in ProcessingJob /\ r.status = "ABORTED"
      BY RowTyped DEF ProcessingStatus, ProcessingJob
    <2>2. cancel_job(d, j) = d \/ cancel_job(d, j) = WithRow(d, j, r)
      BY DEF cancel_job, SetStatus
    <2> HIDE DEF r
    <2> QED
      BY <2>1, <2>2, WrittenStarts, SameStarts
  <1> QED
    BY <1>1, <1>2

\* Rows of a set are queued again.
LEMMA SetStarts ==
    ASSUME NEW d \in Tables, NEW S, NEW b \in [Job -> BOOLEAN], NEW e,
           e = [d EXCEPT !.jobs = [j \in Job |->
                   IF j \in S THEN Requeued(d.jobs[j], b[j]) ELSE d.jobs[j]]]
    PROVE  NoneStarts(d, e)
  <1> DEFINE f == [j \in Job |-> IF j \in S THEN Requeued(d.jobs[j], b[j]) ELSE d.jobs[j]]
  <1>1. [d EXCEPT !.jobs = f].jobs = f /\ \A j \in Job : Benign(d.jobs[j], f[j])
    BY DeferAllFacts
  <1>2. e = [d EXCEPT !.jobs = f]
    OBVIOUS
  <1> HIDE DEF f
  <1> QED
    BY <1>1, <1>2, BenignStarts

\* Sweeps and reconciliations start no job.
LEMMA RequeuesStart ==
    ASSUME NEW d \in Tables, NEW S
    PROVE  NoneStarts(d, DeferAll(d, S)) /\ NoneStarts(d, requeue_expired_dispatches(d, S))
  <1>1. NoneStarts(d, DeferAll(d, S))
    <2> DEFINE b == [j \in Job |-> TRUE]
    <2>1. b \in [Job -> BOOLEAN]
      OBVIOUS
    <2>2. DeferAll(d, S) = [d EXCEPT !.jobs = [j \in Job |->
                             IF j \in S THEN Requeued(d.jobs[j], b[j]) ELSE d.jobs[j]]]
      BY DEF DeferAll
    <2> HIDE DEF b
    <2> QED
      BY <2>1, <2>2, SetStarts
  <1>2. NoneStarts(d, requeue_expired_dispatches(d, S))
    <2> DEFINE b == [j \in Job |-> d.jobs[j].due]
               X == S \cap Dispatching(d)
    <2>1. b \in [Job -> BOOLEAN]
      BY DEF Tables, ProcessingJob
    <2>2. requeue_expired_dispatches(d, S) = [d EXCEPT !.jobs = [j \in Job |->
                             IF j \in X THEN Requeued(d.jobs[j], b[j]) ELSE d.jobs[j]]]
      BY DEF requeue_expired_dispatches
    <2> HIDE DEF b, X
    <2> QED
      BY <2>1, <2>2, SetStarts
  <1> QED
    BY <1>1, <1>2

\* A DISPATCH_ACK starts the job of its lease, if the row still has that lease.
Begun(d, e, l) ==
    /\ d.jobs[l.job].token = l.token
    /\ \A j \in Job : e.jobs[j].status = "RUNNING" /\ e.jobs[j].token # l.token =>
           d.jobs[j].status = "RUNNING" /\ e.jobs[j].token = d.jobs[j].token

\* Whatever a task leaves, run to its end or cut.
LEMMA TaskStarts ==
    ASSUME QueueTypeOK, NEW x \in Task, GoodTask(x), x.op # "prepare",
           NEW steps \in Steps(x), NEW e \in Torn(db, steps)
    PROVE  NoneStarts(db, e) \/ (x.op = "ack" /\ Begun(db, e, x.lease))
  <1>0. db \in Tables /\ issued \subseteq Lease
    BY DEF QueueTypeOK
  <1>1. NoneStarts(db, db)
    BY SameStarts
  <1>2. x.op \in {"ack", "orphan", "running", "conclude"} =>
          /\ x.lease \in issued /\ x.lease.job \in Job
          /\ x.lease.token \in Token /\ x.lease.worker \in Worker
    BY LeaseFacts DEF GoodTask
  <1>3. CASE x.op = "ack"
    <2> DEFINE l == x.lease
               r == [db.jobs[l.job] EXCEPT !.status = "RUNNING", !.owner = l.worker]
    <2>1. e = db \/ e = ack_dispatch(db, l.job, l.token, l.worker)
      BY <1>3, TornOne DEF Steps
    <2>2. ASSUME TokenMatches(db, l.job, l.token, "DISPATCHING"), e = WithRow(db, l.job, r)
          PROVE  Begun(db, e, l)
      <3>1. r \in ProcessingJob /\ r.token = db.jobs[l.job].token
        <4>1. /\ db.jobs[l.job] \in ProcessingJob /\ l.worker \in Worker
              /\ "RUNNING" \in ProcessingStatus
          BY <1>0, <1>2, <1>3, RowTyped DEF ProcessingStatus
        <4> QED
          BY <4>1 DEF ProcessingJob
      <3> HIDE DEF r
      <3>2. e.jobs = [db.jobs EXCEPT ![l.job] = r]
        BY <1>0, <1>2, <1>3, <2>2, <3>1, WithRowFacts
      <3> QED
        BY <1>0, <1>2, <1>3, <2>2, <3>1, <3>2, RowTyped DEF Begun, TokenMatches
    <2> QED
      BY <1>1, <1>3, <2>1, <2>2 DEF ack_dispatch
  <1>4. CASE x.op = "conclude"
    <2>1. e \in Torn(db, process_conclude_db(db, x.lease.job, x.lease.token, x.status))
      BY <1>4 DEF Steps
    <2>2. x.status \in ReceiptStatus
      BY <1>4 DEF Task
    <2> QED
      BY <1>0, <1>2, <1>4, <2>1, <2>2, ConcludeApplied, AppliedStarts
  <1>5. CASE x.op = "orphan"
    <2>1. e = db \/ e = fail_job_if_token_matches(db, x.lease.job, x.lease.token)
      BY <1>5, TornOne DEF Steps, fail_orphan
    <2>2. "FAILED" \in Terminal
      BY DEF Terminal
    <2>3. TokenMatches(db, x.lease.job, x.lease.token, "RUNNING") =>
            NoneStarts(db, SetStatus(db, x.lease.job, "FAILED"))
      BY <1>0, <1>2, <1>5, <2>2, SetStatusApplied, AppliedStarts DEF TokenMatches, Active
    <2> QED
      BY <1>1, <2>1, <2>3 DEF fail_job_if_token_matches
  <1>6. CASE x.op = "defer"
    <2>1. e = db \/ e = defer_job(db, x.job)
      BY <1>6, TornOne DEF Steps
    <2>2. x.job \in Job
      BY <1>6 DEF Task
    <2> QED
      BY <1>0, <1>1, <2>1, <2>2, StopsStart
  <1>7. CASE x.op = "cancel"
    <2>1. e = db \/ e = cancel_job(db, x.job)
      BY <1>7, TornOne DEF Steps
    <2>2. x.job \in Job
      BY <1>7 DEF Task
    <2> QED
      BY <1>0, <1>1, <2>1, <2>2, StopsStart
  <1>8. CASE x.op = "running"
    <2>1. e = db \/ e = set_pipeline_run_running(db, db.jobs[x.lease.job].run)
      BY <1>8, TornOne DEF Steps
    <2>2. set_pipeline_run_running(db, db.jobs[x.lease.job].run).jobs = db.jobs
      BY <1>0 DEF set_pipeline_run_running, Tables
    <2> QED
      BY <1>1, <2>1, <2>2, SameStarts
  <1>9. CASE x.op = "sweep"
    <2>1. PICK expired : steps = << requeue_expired_dispatches(db, expired) >>
      BY <1>9 DEF Steps
    <2> QED
      BY <1>0, <1>1, <2>1, TornOne, RequeuesStart
  <1>10. CASE x.op \in {"reconcile", "missing"}
    <2>1. PICK lost : steps = << DeferAll(db, lost) >>
      BY <1>10 DEF Steps, reconcile_running_jobs_for_worker, reconcile_missing_workers_after_grace
    <2> QED
      BY <1>0, <1>1, <2>1, TornOne, RequeuesStart
  <1>11. x.op \in {"ack", "conclude", "orphan", "defer", "cancel", "running", "sweep",
                   "reconcile", "missing"}
    BY DEF Task
  <1> QED
    BY <1>3, <1>4, <1>5, <1>6, <1>7, <1>8, <1>9, <1>10, <1>11

\* prepare_dispatch_plan, cut anywhere or run to its end, starts no job.
LEMMA PrepareStarts ==
    ASSUME QueueTypeOK, NEW j \in Job, NEW t \in Token, NEW w \in Worker,
           NEW steps \in Prepared(j, t, w), NEW k \in DOMAIN steps
    PROVE  NoneStarts(db, steps[k])
  <1> DEFINE c == lease_jobs_for_dispatch(db, j)
             l == Leased(db, j, t, w)
             P == PlanSteps(db, j, t, w)
             F == FailDispatchSteps(db, j, t, w)
             D == DeferDispatchSteps(db, j, t, w)
  <1>0. db \in Tables
    BY DEF QueueTypeOK
  <1>1. \E f, u, r, v : P = << c, l >> /\ F = << c, l, f, u >> /\ D = << c, l, r, v >>
    BY Zenon DEF PlanSteps, FailDispatchSteps, DeferDispatchSteps
  <1>2. steps = P \/ steps = F \/ steps = D
    BY PreparedSteps
  <1>3. NoneStarts(db, c)
    <2> DEFINE r == LeasedRow(db.jobs[j], NoToken, NoWorker)
    <2>1. r.status = "DISPATCHING"
      BY <1>0, RowTyped DEF LeasedRow, ProcessingJob
    <2>2. c.jobs = [db.jobs EXCEPT ![j] = r]
      BY <1>0, LeaseCutFacts
    <2> QED
      BY <1>0, <2>1, <2>2, RowStarts
  <1> DEFINE q == LeasedRow(db.jobs[j], t, w)
  <1>4. l.jobs = [db.jobs EXCEPT ![j] = q] /\ q.status = "DISPATCHING" /\ l \in Tables
    <2>1. q.status = "DISPATCHING"
      BY <1>0, RowTyped DEF LeasedRow, ProcessingJob
    <2>2. l.jobs = [db.jobs EXCEPT ![j] = q] /\ l \in Tables
      BY <1>0, LeasedFacts
    <2> QED
      BY <2>1, <2>2
  <1>5. NoneStarts(db, l)
    BY <1>0, <1>4, RowStarts
  <1>6. \A i \in 3 .. 4 : NoneStarts(l, F[i]) /\ NoneStarts(l, D[i])
    <2> TAKE i \in 3 .. 4
    <2>1. Applied(l, F[i], j, t)
      BY <1>0, FailDispatchApplied
    <2>2. Applied(l, D[i], j, t)
      BY <1>0, DeferDispatchApplied
    <2> QED
      BY <1>4, <2>1, <2>2, AppliedStarts
  <1>7. \A e : NoneStarts(l, e) => NoneStarts(db, e)
    BY <1>5 DEF NoneStarts
  <1> HIDE DEF c, l, P, F, D
  <1>8. \/ k \in DOMAIN steps /\ k = 1 /\ steps[k] = c
        \/ k \in DOMAIN steps /\ k = 2 /\ steps[k] = l
        \/ k \in 3 .. 4 /\ (steps = F \/ steps = D)
    BY <1>1, <1>2
  <1> QED
    BY <1>3, <1>5, <1>6, <1>7, <1>8

\* A receipt that is applied to its end stops the job of its lease: success.
LEMMA SuccessStops ==
    ASSUME NEW d \in Tables, NEW j \in Job, NEW t \in Token, TokenMatches(d, j, t, "RUNNING")
    PROVE  Done(SuccessSteps(d, j, t)).jobs[j].status # "RUNNING"
  <1> DEFINE a == insert_job_artifacts(d, j)
             c == complete_job_if_token_matches(a, j, t)
             m == record_materializations_for_job(c, j)
             h == record_parser_success(m, d.jobs[j].plugin)
             u == update_pipeline_run_status_for_job(h, j)
  <1>1. SameRows(d, a)
    BY JobStatements
  <1>2. c = SetStatus(a, j, "COMPLETED")
    BY <1>1 DEF complete_job_if_token_matches, TokenMatches, SameRows
  <1>3. c \in Tables /\ c.jobs[j].status = "COMPLETED"
    <2>1. "COMPLETED" \in ProcessingStatus
      BY DEF ProcessingStatus
    <2>2. /\ SetStatus(a, j, "COMPLETED") \in Tables
          /\ SetStatus(a, j, "COMPLETED").jobs =
                [a.jobs EXCEPT ![j] = [a.jobs[j] EXCEPT !.status = "COMPLETED"]]
      BY <1>1, <2>1, SetStatusFacts DEF SameRows
    <2> QED
      BY <1>1, <1>2, <2>2, RowTyped DEF SameRows, ProcessingJob
  <1>4. SuccessSteps(d, j, t) = << a, c, m, h, u >>
    BY DEF SuccessSteps
  <1> HIDE DEF c
  <1>5. SameRows(c, m)
    BY <1>3, JobStatements
  <1> HIDE DEF m
  <1>6. SameRows(m, h)
    BY <1>5, HealthStatements, RowTyped DEF SameRows
  <1> HIDE DEF h
  <1>7. SameRows(h, u)
    BY <1>6, RunStatement DEF SameRows
  <1> HIDE DEF u, a
  <1>8. Done(SuccessSteps(d, j, t)) = u
    BY <1>4 DEF Done
  <1> QED
    BY <1>3, <1>5, <1>6, <1>7, <1>8 DEF SameRows

\* A failure: the row is queued again or dead.
LEMMA FailureStops ==
    ASSUME NEW d \in Tables, NEW j \in Job, NEW t \in Token, NEW transient \in BOOLEAN,
           TokenMatches(d, j, t, "RUNNING")
    PROVE  Done(FailureSteps(d, j, t, transient)).jobs[j].status # "RUNNING"
  <1> DEFINE p == d.jobs[j].plugin
             n == record_parser_failure(d, p)
             b == check_circuit_breaker_db(n, p)
             f == fail_job_if_token_matches(b, j, t)
             r == schedule_retry(f, j, d.jobs[j].retry + 1)
             i == insert_dead_letter(f, j)
             q == move_to_dead_letter(f, j)
             u == update_pipeline_run_status_for_job(r, j)
             v == update_pipeline_run_status_for_job(q, j)
  <1>0. p \in Parser
    BY RowTyped
  <1>1. SameRows(d, n)
    BY <1>0, HealthStatements
  <1>9. \/ RetriesLeft(d, j, transient) /\ FailureSteps(d, j, t, transient) = << n, b, f, r, u >>
        \/ FailureSteps(d, j, t, transient) = << n, b, f, i, q, v >>
    BY DEF FailureSteps
  <1> HIDE DEF n
  <1>2. SameRows(d, b)
    BY <1>0, <1>1, HealthStatements DEF SameRows
  <1> HIDE DEF b
  <1>3. f = SetStatus(b, j, "FAILED")
    BY <1>2 DEF fail_job_if_token_matches, TokenMatches, SameRows
  <1> HIDE DEF f
  <1>4. "FAILED" \in ProcessingStatus
    BY DEF ProcessingStatus
  <1>5. f \in Tables
    BY <1>2, <1>3, <1>4, SetStatusFacts DEF SameRows
  <1>6. r \in Tables /\ r.jobs[j].status = "QUEUED"
    <2> DEFINE row == [Requeued(f.jobs[j], FALSE) EXCEPT !.retry = d.jobs[j].retry + 1]
    <2>1. row \in ProcessingJob
      <3>1. Requeued(f.jobs[j], FALSE) \in ProcessingJob
        BY <1>5, RowTyped, RequeuedTyped
      <3>2. d.jobs[j].retry + 1 \in Nat
        BY RowTyped
      <3> QED
        BY <3>1, <3>2 DEF ProcessingJob
    <2>2. row.status = "QUEUED"
      BY <1>5, RowTyped DEF Requeued, ProcessingJob
    <2>3. r = WithRow(f, j, row)
      BY DEF schedule_retry
    <2> HIDE DEF row, r
    <2>4. r \in Tables /\ r.jobs = [f.jobs EXCEPT ![j] = row]
      BY <1>5, <2>1, <2>3, WithRowFacts
    <2> QED
      BY <1>5, <2>2, <2>4, RowTyped
  <1>7. q \in Tables /\ q.jobs[j].status = "FAILED"
    <2>1. i \in Tables
      BY <1>5, JobStatements DEF SameRows
    <2>2. q = SetStatus(i, j, "FAILED")
      BY DEF move_to_dead_letter
    <2> HIDE DEF i, q
    <2>3. q \in Tables /\ q.jobs = [i.jobs EXCEPT ![j] = [i.jobs[j] EXCEPT !.status = "FAILED"]]
      BY <1>4, <2>1, <2>2, SetStatusFacts
    <2> QED
      BY <2>1, <2>3, RowTyped DEF ProcessingJob
  <1> HIDE DEF r, q, i
  <1>8. SameRows(r, u) /\ SameRows(q, v)
    BY <1>6, <1>7, RunStatement
  <1> HIDE DEF u, v
  <1>10. Done(FailureSteps(d, j, t, transient)) \in {u, v}
    <2>1. Done(<< n, b, f, r, u >>) = u /\ Done(<< n, b, f, i, q, v >>) = v
      BY DEF Done
    <2> QED
      BY <1>9, <2>1
  <1> QED
    BY <1>6, <1>7, <1>8, <1>10 DEF SameRows

\* An abort.
LEMMA AbortStops ==
    ASSUME NEW d \in Tables, NEW j \in Job, NEW t \in Token, TokenMatches(d, j, t, "RUNNING")
    PROVE  Done(AbortedSteps(d, j, t)).jobs[j].status # "RUNNING"
  <1> DEFINE c == abort_job_if_token_matches(d, j, t)
             u == update_pipeline_run_status_for_job(c, j)
  <1>1. c = SetStatus(d, j, "ABORTED") /\ AbortedSteps(d, j, t) = << c, u >>
    BY DEF abort_job_if_token_matches, AbortedSteps
  <1> HIDE DEF c
  <1>2. c \in Tables /\ c.jobs[j].status = "ABORTED"
    <2>1. "ABORTED" \in ProcessingStatus
      BY DEF ProcessingStatus
    <2>2. c \in Tables /\ c.jobs = [d.jobs EXCEPT ![j] = [d.jobs[j] EXCEPT !.status = "ABORTED"]]
      BY <1>1, <2>1, SetStatusFacts
    <2> QED
      BY <2>2, RowTyped DEF ProcessingJob
  <1>3. SameRows(c, u)
    BY <1>2, RunStatement
  <1> HIDE DEF u
  <1>4. Done(AbortedSteps(d, j, t)) = u
    BY <1>1 DEF Done
  <1> QED
    BY <1>2, <1>3, <1>4 DEF SameRows

\* Every receipt of a job that was started.
LEMMA ReportStops ==
    ASSUME NEW d \in Tables, NEW j \in Job, NEW t \in Token,
           NEW status \in ReceiptStatus, status # "rejected"
    PROVE  ~TokenMatches(Done(process_conclude_db(d, j, t, status)), j, t, "RUNNING")
  <1> DEFINE steps == process_conclude_db(d, j, t, status)
             e == Done(steps)
  <1>1. NoneStarts(d, e)
    <2>1. e \in Torn(d, steps)
      BY DoneIsTorn
    <2> HIDE DEF e
    <2> QED
      BY <2>1, ConcludeApplied, AppliedStarts
  <1>2. TokenMatches(d, j, t, "RUNNING") => e.jobs[j].status # "RUNNING"
    <2> HAVE TokenMatches(d, j, t, "RUNNING")
    <2>1. \/ steps = SuccessSteps(d, j, t)
          \/ \E transient \in BOOLEAN : steps = FailureSteps(d, j, t, transient)
          \/ steps = AbortedSteps(d, j, t)
      BY DEF process_conclude_db, ReceiptStatus
    <2> HIDE DEF steps
    <2> QED
      BY <2>1, SuccessStops, FailureStops, AbortStops
  <1> HIDE DEF e
  <1>3. ~TokenMatches(e, j, t, "RUNNING")
    BY <1>1, <1>2 DEF NoneStarts, TokenMatches
  <1> QED
    BY <1>3 DEF e

-------------------------------------------------------------------------------
(* The line of every lease that was issued. *)

\* The DISPATCH was not taken yet.
Waiting(l) == Plan(l.worker) = l \/ Sent(l, toWorker[l.worker])

\* The job's row is RUNNING under the lease.
Underway(l) == TokenMatches(db, l.job, l.token, "RUNNING")

LineInv ==
    \A l \in issued :
        Spared(l, Waiting(l), Underway(l), tasks, toSentinel[l.worker], wk[l.worker])

AwaitInv ==
    \A l \in issued :
        Awaited(l, Underway(l), tasks, toSentinel[l.worker], wk[l.worker])

\* A worker speaks of its own leases only.
Signed(w, m) == m.op \in {"DISPATCH_ACK", "CONCLUDE"} => m.lease.worker = w

PostInv == \A w \in Worker : \A i \in DOMAIN toSentinel[w] : Signed(w, toSentinel[w][i])

\* A job that was started is not rejected.
ResultsInv == \A w \in Worker : wk[w].stage = "finished" => wk[w].result # "rejected"

\* What a step does to the line of a lease.
Quiets(l) ==
    Quiet(l, Underway(l), tasks, toSentinel[l.worker], wk[l.worker],
          Underway(l)', tasks', toSentinel'[l.worker], wk'[l.worker])

Hears(l) ==
    Heard(l, Underway(l), tasks, toSentinel[l.worker], wk[l.worker],
          Underway(l)', tasks', toSentinel'[l.worker], wk'[l.worker])

Executes(l) ==
    Ran(l, Underway(l), tasks, toSentinel[l.worker], wk[l.worker],
        Underway(l)', tasks', toSentinel'[l.worker], wk'[l.worker])

Tells(l) ==
    Told(l, Waiting(l), Underway(l), tasks, toSentinel[l.worker], wk[l.worker],
         Waiting(l)', Underway(l)', tasks', toSentinel'[l.worker], wk'[l.worker])

Cuts(l) ==
    Cut(l, Underway(l), tasks, toSentinel[l.worker], wk[l.worker],
        Underway(l)', tasks', toSentinel'[l.worker], wk'[l.worker])

Dies(l) ==
    Died(l, Underway(l), tasks, toSentinel[l.worker], wk[l.worker],
         Underway(l)', tasks', toSentinel'[l.worker], wk'[l.worker])

LineMoves(l) ==
    /\ Waiting(l)' => Waiting(l)
    /\ \/ Quiets(l) \/ Hears(l) \/ Executes(l) \/ Tells(l)
       \/ ~mem'.up /\ Cuts(l)
       \/ ~wk'[l.worker].up /\ Dies(l)

\* Nothing is said yet of a lease that was just issued.
Unsaid(l) ==
    /\ ~Underway(l)
    /\ \A i \in DOMAIN tasks : ~IsAck(l, tasks[i])
    /\ \A i \in DOMAIN toSentinel[l.worker] : ~IsAck(l, toSentinel[l.worker][i])

LinesMove ==
    /\ \A l \in issued : LineMoves(l)
    /\ \A l \in issued' : l \in issued \/ Unsaid(l)'

\* The line is a FIFO of tasks and one of messages.
LEMMA LineTyped ==
    ASSUME SystemInv, NEW l \in issued
    PROVE  /\ tasks \in Seq(Task)
           /\ toSentinel[l.worker] \in Seq(Message)
           /\ l.worker \in Worker /\ l.job \in Job /\ l.token \in Token
  <1>1. l.worker \in Worker /\ l.job \in Job /\ l.token \in Token
    BY LeaseFacts DEF SystemInv
  <1>2. tasks \in Seq(Task)
    <2>1. \A x \in Work : x \in Task
      BY DEF Work
    <2> QED
      BY <2>1, Wider DEF SystemInv, WorkInv
  <1>3. toSentinel[l.worker] \in Seq(Message)
    <2>1. \A m \in Mail : m \in Message
      BY DEF Mail
    <2>2. toSentinel[l.worker] \in Seq(Mail)
      BY <1>1 DEF SystemInv, MailInv
    <2> QED
      BY <2>1, <2>2, Wider
  <1> QED
    BY <1>1, <1>2, <1>3

\* Every step keeps what is said of heartbeats that miss a job.
LEMMA LineKept ==
    ASSUME SystemInv, LineInv, LinesMove
    PROVE  LineInv'
  <1>1. ASSUME NEW l \in issued
        PROVE  Spared(l, Waiting(l)', Underway(l)', tasks', toSentinel'[l.worker], wk'[l.worker])
    <2>1. Spared(l, Waiting(l), Underway(l), tasks, toSentinel[l.worker], wk[l.worker])
      BY DEF LineInv
    <2>2. LineMoves(l)
      BY DEF LinesMove
    <2>3. tasks \in Seq(Task) /\ toSentinel[l.worker] \in Seq(Message)
      BY LineTyped
    <2>4. Waiting(l)' => Waiting(l)
      BY <2>2 DEF LineMoves
    <2>5. CASE Quiets(l)
      BY <2>1, <2>3, <2>4, <2>5, QuietSpares DEF Quiets
    <2>6. CASE Hears(l)
      BY <2>1, <2>3, <2>4, <2>6, HeardSpares DEF Hears
    <2>7. CASE Executes(l)
      BY <2>1, <2>3, <2>4, <2>7, RanSpares DEF Executes
    <2>8. CASE Tells(l)
      BY <2>1, <2>3, <2>4, <2>8, ToldSpares DEF Tells
    <2>9. CASE Cuts(l)
      BY <2>1, <2>3, <2>4, <2>9, CutSpares DEF Cuts
    <2>10. CASE Dies(l)
      BY <2>1, <2>3, <2>4, <2>10, DiedSpares DEF Dies
    <2> QED
      BY <2>2, <2>5, <2>6, <2>7, <2>8, <2>9, <2>10 DEF LineMoves
  <1>2. ASSUME NEW l \in issued', Unsaid(l)'
        PROVE  Spared(l, Waiting(l), Underway(l), tasks, toSentinel[l.worker], wk[l.worker])'
    BY <1>2 DEF Unsaid, Spared, Unheard, MissedInTasks, MissedInMail
  <1> QED
    BY <1>1, <1>2 DEF LineInv, LinesMove

\* While nothing is lost, every step keeps that the end of what was started
\* is reported.
LEMMA AwaitKept ==
    ASSUME SystemInv, AwaitInv, LinesMove, mem'.up, \A w \in Worker : wk'[w].up
    PROVE  AwaitInv'
  <1>1. ASSUME NEW l \in issued
        PROVE  Awaited(l, Underway(l)', tasks', toSentinel'[l.worker], wk'[l.worker])
    <2>1. Awaited(l, Underway(l), tasks, toSentinel[l.worker], wk[l.worker])
      BY DEF AwaitInv
    <2>2. LineMoves(l)
      BY DEF LinesMove
    <2>3. /\ tasks \in Seq(Task) /\ toSentinel[l.worker] \in Seq(Message)
          /\ wk'[l.worker].up
      BY LineTyped
    <2>5. CASE Quiets(l)
      BY <2>1, <2>3, <2>5, QuietAwaits DEF Quiets
    <2>6. CASE Hears(l)
      BY <2>1, <2>3, <2>6, HeardAwaits DEF Hears
    <2>7. CASE Executes(l)
      BY <2>1, <2>3, <2>7, RanAwaits DEF Executes
    <2>8. CASE Tells(l)
      BY <2>1, <2>3, <2>8, ToldAwaits DEF Tells
    <2> QED
      BY <2>2, <2>3, <2>5, <2>6, <2>7, <2>8 DEF LineMoves
  <1>2. ASSUME NEW l \in issued', Unsaid(l)'
        PROVE  Awaited(l, Underway(l), tasks, toSentinel[l.worker], wk[l.worker])'
    BY <1>2 DEF Unsaid, Awaited
  <1> QED
    BY <1>1, <1>2 DEF AwaitInv, LinesMove

\* The messages on their way to the Sentinel: one is taken or added, or some
\* are lost.
LEMMA PostKept ==
    ASSUME SystemInv, PostInv,
           \/ toSentinel' = toSentinel
           \/ \E w \in Worker : /\ toSentinel[w] # << >>
                                /\ toSentinel' = [toSentinel EXCEPT ![w] = Tail(toSentinel[w])]
           \/ \E w \in Worker : \E m \in Message : Signed(w, m) /\
                 toSentinel' = [toSentinel EXCEPT ![w] = Append(toSentinel[w], m)]
           \/ \E w \in Worker : \E n \in 0 .. Len(toSentinel[w]) :
                 toSentinel' = [toSentinel EXCEPT ![w] = SubSeq(toSentinel[w], 1, n)]
           \/ \E f \in [Worker -> Nat] :
                 toSentinel' = [w \in Worker |->
                                  SubSeq(toSentinel[w], 1 + f[w], Len(toSentinel[w]))]
    PROVE  PostInv'
  <1> DEFINE S(w) == {m \in Message : Signed(w, m)}
  <1>1. \A w \in Worker : toSentinel[w] \in Seq(S(w))
    <2> TAKE w \in Worker
    <2>1. \A m \in Mail : m \in Message
      BY DEF Mail
    <2>2. toSentinel[w] \in Seq(Mail)
      BY DEF SystemInv, MailInv
    <2>3. toSentinel[w] \in Seq(Message)
      BY <2>1, <2>2, Wider
    <2>4. \A i \in 1 .. Len(toSentinel[w]) : toSentinel[w][i] \in S(w)
      BY <2>3 DEF PostInv
    <2> HIDE DEF S
    <2> QED
      BY <2>3, <2>4
  <1>2. \A w \in Worker : \A m \in S(w) : Signed(w, m)
    OBVIOUS
  <1>3. \A w \in Worker : \A m \in Message : Signed(w, m) => m \in S(w)
    OBVIOUS
  <1>4. DOMAIN toSentinel = Worker
    BY DEF SystemInv, MailInv
  <1> HIDE DEF S
  <1>5. \A w \in Worker : /\ toSentinel[w] # << >> => Tail(toSentinel[w]) \in Seq(S(w))
                          /\ \A m \in S(w) : Append(toSentinel[w], m) \in Seq(S(w))
                          /\ \A n \in Nat :
                               /\ SubSeq(toSentinel[w], 1 + n, Len(toSentinel[w])) \in Seq(S(w))
                               /\ n <= Len(toSentinel[w]) =>
                                    SubSeq(toSentinel[w], 1, n) \in Seq(S(w))
    BY <1>1, Fifo, Remainder
  <1>6. ASSUME NEW w \in Worker, NEW s \in Seq(S(w)), toSentinel' = [toSentinel EXCEPT ![w] = s]
        PROVE  \A v \in Worker : toSentinel'[v] \in Seq(S(v))
    BY <1>1, <1>4, <1>6
  <1>7. ASSUME NEW f \in [Worker -> Nat],
               toSentinel' = [w \in Worker |->
                                SubSeq(toSentinel[w], 1 + f[w], Len(toSentinel[w]))]
        PROVE  \A v \in Worker : toSentinel'[v] \in Seq(S(v))
    BY <1>5, <1>7
  <1>8. \A w \in Worker : \A n \in 0 .. Len(toSentinel[w]) : n \in Nat /\ n <= Len(toSentinel[w])
    BY <1>1
  <1>9. \A v \in Worker : toSentinel'[v] \in Seq(S(v))
    BY <1>1, <1>3, <1>5, <1>6, <1>7, <1>8
  <1>10. \A v \in Worker : \A i \in DOMAIN toSentinel'[v] : toSentinel'[v][i] \in S(v)
    BY <1>9, Fifo
  <1> QED
    BY <1>2, <1>10 DEF PostInv, Signed

-------------------------------------------------------------------------------
(* Each step moves the lines. *)

\* What a step leaves of the lines of the leases there were, of the messages
\* to the Sentinel and of the results of jobs.
Spoken == (\A l \in issued : LineMoves(l)) /\ PostInv' /\ ResultsInv'

\* A DISPATCH that was taken stays taken, unless its job stops running.
LEMMA WaitingFalls ==
    ASSUME SystemInv', Advance, NEW l \in issued,
           Runs(l, wk[l.worker]) => Runs(l, wk'[l.worker])
    PROVE  Waiting(l)' => Waiting(l)
  <1>1. l \in issued' /\ Moved(l)
    BY DEF Advance
  <1>2. Waiting(l)' => Waiting(l) \/ Runs(l, wk[l.worker])
    BY <1>1 DEF Moved, Settling, Waiting, Pending
  <1>3. HasOnePlace(l)'
    BY <1>1 DEF SystemInv, PlacesInv
  <1>4. Waiting(l)' => ~Runs(l, wk'[l.worker])
    BY <1>3 DEF HasOnePlace, OnePlace, Waiting
  <1> QED
    BY <1>2, <1>4

\* A row that is not made RUNNING by a step does not become so under a lease.
LEMMA UnderwayFalls ==
    ASSUME SystemInv, NEW l \in issued, NoneStarts(db, db')
    PROVE  Underway(l)' => Underway(l)
  <1>1. l.job \in Job
    BY LineTyped
  <1> QED
    BY <1>1 DEF NoneStarts, Underway, TokenMatches

\* Tasks that say nothing of any lease.
LEMMA OtherTask ==
    ASSUME NEW l, NEW x \in Task, x.op \notin {"ack", "conclude", "reconcile"}
    PROVE  Foreign(l, x)
  BY DEF Task, Foreign, IsAck, IsEnd, Misses

\* A step that says nothing of the lease.
LEMMA QuietLine ==
    ASSUME SystemInv, NEW l \in issued, Waiting(l)' => Waiting(l),
           Works(l, wk'[l.worker]) <=> Works(l, wk[l.worker]),
           toSentinel'[l.worker] = toSentinel[l.worker], NoneStarts(db, db'),
           \/ tasks' = tasks
           \/ \E x \in Task : Foreign(l, x) /\ tasks' = Append(tasks, x)
    PROVE  LineMoves(l)
  <1>1. Underway(l)' => Underway(l)
    BY UnderwayFalls
  <1>2. Quiets(l)
    BY <1>1 DEF Quiets, Quiet
  <1> QED
    BY <1>2 DEF LineMoves

\* A step of the Sentinel that tells its database thread nothing of a lease,
\* and hears of none.
LEMMA StillLines ==
    ASSUME SystemInv, SystemInv', Advance, PostInv, ResultsInv, NoneStarts(db, db'),
           wk' = wk, toSentinel' = toSentinel,
           \/ tasks' = tasks
           \/ \E x \in Task : /\ x.op \notin {"ack", "conclude", "reconcile"}
                              /\ tasks' = Append(tasks, x)
    PROVE  Spoken
  <1>1. ASSUME NEW l \in issued
        PROVE  LineMoves(l)
    <2>1. Waiting(l)' => Waiting(l)
      BY WaitingFalls
    <2>2. \/ tasks' = tasks
          \/ \E x \in Task : Foreign(l, x) /\ tasks' = Append(tasks, x)
      BY OtherTask
    <2> QED
      BY <2>1, <2>2, QuietLine
  <1>2. PostInv'
    BY PostKept
  <1>3. ResultsInv'
    BY DEF ResultsInv
  <1> QED
    BY <1>1, <1>2, <1>3 DEF Spoken

\* Steps of the reactor that hear of no lease: requests, plans and timers.
LEMMA ReactorLines ==
    ASSUME SystemInv, SystemInv', Advance, PostInv, ResultsInv,
           \/ \E j \in Job : handle_control_request(j) \/ drain_pending_cancel_jobs(j)
           \/ \E w \in Worker : \/ dispatch_loop(w) \/ drain_pending_dispatches(w)
                                \/ cleanup_stale_workers(w)
           \/ sweep_expired_dispatches \/ GraceEnds
    PROVE  Spoken
  <1>1. /\ db' = db /\ wk' = wk /\ toSentinel' = toSentinel
        /\ \/ tasks' = tasks
           \/ \E x : /\ x.op \in {"cancel", "prepare", "running", "defer", "sweep",
                                 "orphan", "missing"}
                     /\ tasks' = Append(tasks, x)
    <2>1. CASE \E j \in Job : handle_control_request(j) \/ drain_pending_cancel_jobs(j)
      BY <2>1 DEF handle_control_request, drain_pending_cancel_jobs, SentinelOnly, net, Submit
    <2>2. CASE \E w \in Worker : dispatch_loop(w) \/ cleanup_stale_workers(w)
      BY <2>2 DEF dispatch_loop, cleanup_stale_workers, SentinelOnly, net, Submit
    <2>3. ASSUME NEW w \in Worker, drain_pending_dispatches(w)
          PROVE  /\ db' = db /\ wk' = wk /\ toSentinel' = toSentinel
                 /\ \/ tasks' = tasks
                    \/ \E x : /\ x.op \in {"running", "defer"}
                              /\ tasks' = Append(tasks, x)
      <3>1. \/ \E l : SendPlan(w, l)
            \/ \E l, entry : DropPlan(w, l, entry)
        BY <2>3, Zenon DEF drain_pending_dispatches
      <3>2. /\ db' = db /\ wk' = wk /\ toSentinel' = toSentinel
        BY <2>3 DEF drain_pending_dispatches, SentinelOnly
      <3>3. ASSUME NEW l, NEW entry, DropPlan(w, l, entry)
            PROVE  \E x : x.op \in {"running", "defer"} /\ tasks' = Append(tasks, x)
        <4>1. tasks' = Append(tasks, [op |-> "defer", job |-> l.job])
          BY <3>3 DEF DropPlan, Submit
        <4> QED
          BY <4>1
      <3>4. ASSUME NEW l, SendPlan(w, l), tasks' # tasks
            PROVE  \E x : x.op \in {"running", "defer"} /\ tasks' = Append(tasks, x)
        <4>1. tasks' = Append(tasks, [op |-> "running", lease |-> l])
          BY <3>4, Zenon DEF SendPlan, Submit
        <4> QED
          BY <4>1
      <3> QED
        BY <3>1, <3>2, <3>3, <3>4
    <2>4. CASE sweep_expired_dispatches \/ GraceEnds
      BY <2>4 DEF sweep_expired_dispatches, GraceEnds, SentinelOnly, net, Submit
    <2> QED
      BY <2>1, <2>2, <2>3, <2>4
  <1>2. \/ tasks' = tasks
        \/ \E x \in Task : /\ x.op \notin {"ack", "conclude", "reconcile"}
                           /\ tasks' = Append(tasks, x)
    <2>1. ASSUME NEW x,
                 x.op \in {"cancel", "prepare", "running", "defer", "sweep", "orphan", "missing"},
                 tasks' = Append(tasks, x)
          PROVE  x \in Task
      <3>1. tasks \in Seq(Work) /\ tasks' \in Seq(Work')
        BY DEF SystemInv, WorkInv
      <3> DEFINE S == Work \cup {x}
      <3>2. tasks \in Seq(S) /\ x \in S
        BY <3>1, Wider
      <3>3. \E i \in DOMAIN tasks' : tasks'[i] = x
        BY <2>1, <3>2, Appended
      <3>4. x \in Work'
        BY <3>1, <3>3, Fifo
      <3> QED
        BY <3>4 DEF Work
    <2> QED
      BY <1>1, <2>1
  <1>3. NoneStarts(db, db')
    BY <1>1, SameStarts
  <1> QED
    BY <1>1, <1>2, <1>3, StillLines

\* The clients of the queue, the clock and a restart start no job.
LEMMA ClientLines ==
    ASSUME SystemInv, SystemInv', Advance, PostInv, ResultsInv,
           Restart \/ \E j \in Job : enqueue_jobs(j) \/ ClockPasses(j)
    PROVE  Spoken
  <1>0. db \in Tables
    BY DEF SystemInv, QueueTypeOK
  <1>1. wk' = wk /\ toSentinel' = toSentinel /\ tasks' = tasks
    BY DEF Restart, enqueue_jobs, ClockPasses, Outside, net
  <1>2. NoneStarts(db, db')
    <2>1. CASE Restart
      BY <1>0, <2>1, RequeuesStart DEF Restart
    <2>2. ASSUME NEW j \in Job, enqueue_jobs(j)
          PROVE  NoneStarts(db, db')
      <3>1. PICK p \in Parser, r \in Run : db' = enqueue_job(db, j, p, r)
        BY <2>2 DEF enqueue_jobs, Enqueue
      <3> DEFINE row == [status |-> "QUEUED", token |-> NoToken,
                         owner |-> NoWorker, retry |-> 0, due |-> TRUE,
                         plugin |-> p, run |-> r]
      <3>2. row \in ProcessingJob /\ row.status # "RUNNING"
        BY DEF ProcessingJob, ProcessingStatus
      <3>3. db' = WithRow(db, j, row)
        BY <3>1 DEF enqueue_job
      <3> HIDE DEF row
      <3> QED
        BY <1>0, <3>2, <3>3, WrittenStarts
    <2>3. ASSUME NEW j \in Job, ClockPasses(j)
          PROVE  NoneStarts(db, db')
      <3> DEFINE row == [db.jobs[j] EXCEPT !.due = TRUE]
      <3>1. db' = WithRow(db, j, row) /\ db.jobs[j].status = "QUEUED"
        BY <2>3 DEF ClockPasses, BackoffElapses
      <3>2. row \in ProcessingJob /\ row.status # "RUNNING"
        BY <1>0, <3>1, RowTyped DEF ProcessingJob
      <3> HIDE DEF row
      <3> QED
        BY <1>0, <3>1, <3>2, WrittenStarts
    <2> QED
      BY <2>1, <2>2, <2>3
  <1> QED
    BY <1>1, <1>2, StillLines

\* What a task leaves of the job of a lease: it is RUNNING under the lease only
\* if it was, or if the task is the DISPATCH_ACK of the lease.
LEMMA TaskUnderway ==
    ASSUME SystemInv, NEW x \in Task, GoodTask(x), x.op # "prepare",
           NEW steps \in Steps(x), db' \in Torn(db, steps), NEW l \in issued
    PROVE  Underway(l)' => Underway(l) \/ IsAck(l, x)
  <1>1. QueueTypeOK /\ LeaseInv
    BY DEF SystemInv
  <1>2. NoneStarts(db, db') \/ (x.op = "ack" /\ Begun(db, db', x.lease))
    BY <1>1, TaskStarts
  <1>3. CASE NoneStarts(db, db')
    BY <1>3, UnderwayFalls
  <1>4. CASE x.op = "ack" /\ Begun(db, db', x.lease)
    <2>1. x.lease \in issued
      BY <1>4 DEF GoodTask
    <2>2. l.job \in Job
      BY LineTyped
    <2>3. CASE l.token = x.lease.token
      <3>1. l = x.lease
        BY <1>1, <2>1, <2>3 DEF LeaseInv, TokensUnique
      <3> QED
        BY <1>4, <3>1 DEF IsAck
    <2>4. CASE l.token # x.lease.token
      BY <1>4, <2>2, <2>4 DEF Begun, Underway, TokenMatches
    <2> QED
      BY <2>3, <2>4
  <1> QED
    BY <1>2, <1>3, <1>4

\* The database thread runs a task to its end.
LEMMA TaskLines ==
    ASSUME SystemInv, SystemInv', Advance, PostInv, ResultsInv, RunTask
    PROVE  Spoken
  <1> DEFINE x == Head(tasks)
  <1>1. /\ tasks # << >> /\ tasks' = Tail(tasks) /\ x.op # "prepare"
        /\ wk' = wk /\ toSentinel' = toSentinel
    BY DEF RunTask, net
  <1>2. x \in Task /\ GoodTask(x)
    BY <1>1, HeadIsWork DEF SystemInv
  <1>3. PICK steps \in Steps(x) : db' = Done(steps)
    BY DEF RunTask
  <1>4. db' \in Torn(db, steps)
    BY <1>1, <1>2, <1>3, DoneOfTask
  <1>5. ASSUME NEW l \in issued
        PROVE  LineMoves(l)
    <2>1. Waiting(l)' => Waiting(l)
      BY <1>1, WaitingFalls
    <2>2. Underway(l)' => Underway(l) \/ IsAck(l, x)
      BY <1>1, <1>2, <1>4, TaskUnderway
    <2>3. IsReport(l, x) => ~Underway(l)'
      <3> HAVE IsReport(l, x)
      <3>1. x.op = "conclude" /\ x.lease = l /\ x.status # "rejected"
        BY <1>2 DEF IsReport, IsEnd, Task
      <3>2. x.status \in ReceiptStatus
        BY <1>2, <3>1 DEF Task
      <3>3. db' = Done(process_conclude_db(db, l.job, l.token, x.status))
        BY <1>3, <3>1 DEF Steps
      <3>4. db \in Tables /\ l.job \in Job /\ l.token \in Token
        BY LineTyped DEF SystemInv, QueueTypeOK
      <3> HIDE DEF x
      <3> QED
        BY <3>1, <3>2, <3>3, <3>4, ReportStops DEF Underway
    <2> HIDE DEF x
    <2>4. Executes(l)
      BY <1>1, <2>2, <2>3 DEF Executes, Ran, x
    <2> QED
      BY <2>1, <2>4 DEF LineMoves
  <1>6. PostInv'
    BY <1>1, PostKept
  <1>7. ResultsInv'
    BY <1>1 DEF ResultsInv
  <1> QED
    BY <1>5, <1>6, <1>7 DEF Spoken

\* prepare_dispatch_plan runs to its end.
LEMMA PrepareLines ==
    ASSUME SystemInv, SystemInv', Advance, PostInv, ResultsInv, NEW w \in Worker, RunPrepare(w)
    PROVE  Spoken /\ NoneStarts(db, db')
  <1> DEFINE x == Head(tasks)
  <1>1. /\ tasks # << >> /\ tasks' = Tail(tasks) /\ x.op = "prepare"
        /\ wk' = wk /\ toSentinel' = toSentinel
    BY DEF RunPrepare, net
  <1>2. NoneStarts(db, db')
    <2>1. CASE UNCHANGED queue
      BY <2>1, SameStarts DEF queue
    <2>2. ASSUME NEW j \in Job, NEW t \in Token, NEW steps \in Prepared(j, t, w),
                 db' = Done(steps)
          PROVE  NoneStarts(db, db')
      <3>1. Len(steps) \in DOMAIN steps
        <4>1. \E a, b, c, d : steps = << a, b >> \/ steps = << a, b, c, d >>
          <5>1. /\ \E a, b : PlanSteps(db, j, t, w) = << a, b >>
                /\ \E a, b, c, d : FailDispatchSteps(db, j, t, w) = << a, b, c, d >>
                /\ \E a, b, c, d : DeferDispatchSteps(db, j, t, w) = << a, b, c, d >>
            BY Zenon DEF PlanSteps, FailDispatchSteps, DeferDispatchSteps
          <5> QED
            BY <5>1, PreparedSteps
        <4> QED
          BY <4>1
      <3> QED
        BY <2>2, <3>1, PrepareStarts DEF SystemInv, Done
    <2> QED
      BY <2>1, <2>2 DEF RunPrepare
  <1>3. ASSUME NEW l \in issued
        PROVE  LineMoves(l)
    <2>1. Waiting(l)' => Waiting(l)
      BY <1>1, WaitingFalls
    <2>2. Underway(l)' => Underway(l)
      BY <1>2, UnderwayFalls
    <2>3. ~IsReport(l, x)
      BY <1>1 DEF IsReport, IsEnd
    <2> HIDE DEF x
    <2>4. Executes(l)
      BY <1>1, <2>2, <2>3 DEF Executes, Ran, x
    <2> QED
      BY <2>1, <2>4 DEF LineMoves
  <1>6. PostInv'
    BY <1>1, PostKept
  <1>7. ResultsInv'
    BY <1>1 DEF ResultsInv
  <1> QED
    BY <1>2, <1>3, <1>6, <1>7 DEF Spoken

\* The reactor takes the next message of worker w, and may make it a task.
LEMMA HearLines ==
    ASSUME SystemInv, SystemInv', Advance, PostInv, ResultsInv, NEW w \in Worker, NEW m,
           toSentinel[w] # << >>, m = Head(toSentinel[w]),
           toSentinel' = [toSentinel EXCEPT ![w] = Tail(toSentinel[w])],
           db' = db, wk' = wk,
           \/ tasks' = tasks /\ m.op # "CONCLUDE"
           \/ \E x \in Task :
                /\ tasks' = Append(tasks, x)
                /\ \/ m.op = "DISPATCH_ACK" /\ x = [op |-> "ack", lease |-> m.lease]
                   \/ m.op = "HEARTBEAT"
                        /\ x = [op |-> "reconcile", worker |-> w, active |-> m.active]
                   \/ m.op = "CONCLUDE"
                        /\ x = [op |-> "conclude", lease |-> m.lease, status |-> m.status]
    PROVE  Spoken
  <1>1. m \in Message /\ Signed(w, m)
    <2>1. toSentinel[w] \in Seq(Mail)
      BY DEF SystemInv, MailInv
    <2>2. m = toSentinel[w][1] /\ 1 \in DOMAIN toSentinel[w] /\ m \in Mail
      BY <2>1
    <2> QED
      BY <2>2 DEF PostInv, Mail
  <1>2. DOMAIN toSentinel = Worker
    BY DEF SystemInv, MailInv
  <1>3. ASSUME NEW l \in issued
        PROVE  LineMoves(l)
    <2>1. Waiting(l)' => Waiting(l)
      BY WaitingFalls
    <2>2. Underway(l)' => Underway(l)
      BY SameStarts, UnderwayFalls
    <2>3. l.worker \in Worker
      BY LineTyped
    <2>4. CASE l.worker = w
      <3>1. \/ tasks' = tasks /\ ~IsReport(l, m)
            \/ \E x \in Task :
                 /\ tasks' = Append(tasks, x)
                 /\ IsAck(l, x) => IsAck(l, m)
                 /\ IsEnd(l, x) => IsEnd(l, m)
                 /\ Misses(l, x) => Misses(l, m)
                 /\ IsReport(l, m) => IsReport(l, x)
        <4>1. CASE tasks' = tasks /\ m.op # "CONCLUDE"
          BY <1>1, <4>1 DEF IsReport, IsEnd, Message
        <4>2. ASSUME NEW x \in Task, tasks' = Append(tasks, x),
                     m.op = "DISPATCH_ACK", x = [op |-> "ack", lease |-> m.lease]
              PROVE  /\ IsAck(l, x) => IsAck(l, m)
                     /\ ~IsEnd(l, x) /\ ~Misses(l, x) /\ ~IsReport(l, m)
          BY <4>2 DEF IsAck, IsEnd, Misses, IsReport
        <4>3. ASSUME NEW x \in Task, tasks' = Append(tasks, x), m.op = "HEARTBEAT",
                     x = [op |-> "reconcile", worker |-> w, active |-> m.active]
              PROVE  /\ ~IsAck(l, x) /\ ~IsEnd(l, x) /\ ~IsReport(l, m)
                     /\ Misses(l, x) => Misses(l, m)
          BY <4>3 DEF IsAck, IsEnd, Misses, IsReport
        <4>4. ASSUME NEW x \in Task, tasks' = Append(tasks, x), m.op = "CONCLUDE",
                     x = [op |-> "conclude", lease |-> m.lease, status |-> m.status]
              PROVE  /\ ~IsAck(l, x) /\ ~Misses(l, x)
                     /\ IsEnd(l, x) => IsEnd(l, m)
                     /\ IsReport(l, m) => IsReport(l, x)
          BY <4>4 DEF IsAck, IsEnd, Misses, IsReport
        <4> QED
          BY <4>1, <4>2, <4>3, <4>4
      <3>2. toSentinel'[l.worker] = Tail(toSentinel[l.worker])
        BY <1>2, <2>4
      <3>3. Hears(l)
        BY <2>2, <2>4, <3>1, <3>2 DEF Hears, Heard
      <3> QED
        BY <2>1, <3>3 DEF LineMoves
    <2>5. CASE l.worker # w
      <3>1. ASSUME NEW x \in Task,
                   \/ m.op = "DISPATCH_ACK" /\ x = [op |-> "ack", lease |-> m.lease]
                   \/ m.op = "HEARTBEAT"
                        /\ x = [op |-> "reconcile", worker |-> w, active |-> m.active]
                   \/ m.op = "CONCLUDE"
                        /\ x = [op |-> "conclude", lease |-> m.lease, status |-> m.status]
            PROVE  Foreign(l, x)
        BY <1>1, <2>5, <3>1 DEF Signed, Foreign, IsAck, IsEnd, Misses
      <3>2. toSentinel'[l.worker] = toSentinel[l.worker]
        BY <2>3, <2>5
      <3>3. Quiets(l)
        BY <2>2, <3>1, <3>2 DEF Quiets, Quiet
      <3> QED
        BY <2>1, <3>3 DEF LineMoves
    <2> QED
      BY <2>4, <2>5
  <1>4. PostInv'
    BY PostKept
  <1>5. ResultsInv'
    BY DEF ResultsInv
  <1> QED
    BY <1>3, <1>4, <1>5 DEF Spoken

\* The four messages of a worker.
LEMMA ReceiveLines ==
    ASSUME SystemInv, SystemInv', Advance, PostInv, ResultsInv, NEW w \in Worker,
           \/ register_worker(w) \/ handle_dispatch_ack(w)
           \/ handle_heartbeat(w) \/ handle_conclude(w)
    PROVE  Spoken
  <1>0. PICK m : m = Head(toSentinel[w])
    OBVIOUS
  <1>1. /\ toSentinel[w] # << >>
        /\ toSentinel' = [toSentinel EXCEPT ![w] = Tail(toSentinel[w])]
        /\ db' = db /\ wk' = wk
    BY DEF register_worker, handle_dispatch_ack, handle_heartbeat, handle_conclude,
           Receive, SentinelOnly
  <1>2. m \in Message
    BY <1>0, <1>1, HeadIsMail
  <1>3. CASE register_worker(w)
    <2>1. tasks' = tasks /\ m.op = "IDENTIFY"
      BY <1>0, <1>3 DEF register_worker, Receive
    <2> QED
      BY <1>0, <1>1, <2>1, HearLines
  <1>4. CASE handle_dispatch_ack(w)
    <2> DEFINE x == [op |-> "ack", lease |-> m.lease]
    <2>1. m.op = "DISPATCH_ACK" /\ (tasks' = tasks \/ tasks' = Append(tasks, x))
      BY <1>0, <1>4 DEF handle_dispatch_ack, Receive, Submit
    <2>2. x \in Task
      BY <1>2, <2>1 DEF Message, Task
    <2> QED
      BY <1>0, <1>1, <2>1, <2>2, HearLines
  <1>5. CASE handle_heartbeat(w)
    <2> DEFINE x == [op |-> "reconcile", worker |-> w, active |-> m.active]
    <2>1. m.op = "HEARTBEAT" /\ (tasks' = tasks \/ tasks' = Append(tasks, x))
      BY <1>0, <1>5 DEF handle_heartbeat, Receive, Submit
    <2>2. x \in Task
      BY <1>2, <2>1 DEF Message, Task
    <2> QED
      BY <1>0, <1>1, <2>1, <2>2, HearLines
  <1>6. CASE handle_conclude(w)
    <2> DEFINE x == [op |-> "conclude", lease |-> m.lease, status |-> m.status]
    <2>1. m.op = "CONCLUDE" /\ tasks' = Append(tasks, x)
      BY <1>0, <1>6 DEF handle_conclude, Receive, Submit
    <2>2. x \in Task
      BY <1>2, <2>1 DEF Message, Task
    <2> QED
      BY <1>0, <1>1, <2>1, <2>2, HearLines
  <1> QED
    BY <1>3, <1>4, <1>5, <1>6

\* The results of jobs, when the state of worker w becomes k.
LEMMA ResultsKept ==
    ASSUME SystemInv, ResultsInv, NEW w \in Worker, NEW k, wk' = [wk EXCEPT ![w] = k],
           k.stage = "finished" => k.result # "rejected"
    PROVE  /\ ResultsInv'
           /\ wk'[w] = k /\ \A v \in Worker \ {w} : wk'[v] = wk[v]
  <1>1. DOMAIN wk = Worker
    BY DEF SystemInv, WorkersInv
  <1>2. wk'[w] = k /\ \A v \in Worker \ {w} : wk'[v] = wk[v]
    BY <1>1
  <1> QED
    BY <1>2 DEF ResultsInv

\* Worker w sends a message about its own leases.  Its state becomes k.
LEMMA TellLines ==
    ASSUME SystemInv, PostInv, ResultsInv,
           NEW w \in Worker, NEW m \in Message, Signed(w, m), NEW k,
           db' = db, tasks' = tasks,
           toSentinel' = [toSentinel EXCEPT ![w] = Append(toSentinel[w], m)],
           wk' = [wk EXCEPT ![w] = k], k.stage = "finished" => k.result # "rejected",
           \A l \in issued : Waiting(l)' => Waiting(l),
           \A l \in IssuedTo(w) :
              /\ IsAck(l, m) => ~Waiting(l)' /\ Works(l, k)
              /\ IsEnd(l, m) => Works(l, wk[w]) \/ Waiting(l)
              /\ Misses(l, m) => ~Works(l, k)
              /\ Works(l, wk[w]) => Works(l, k) \/ IsReport(l, m)
              /\ Works(l, k) => Works(l, wk[w]) \/ Waiting(l)
    PROVE  Spoken
  <1>1. ResultsInv' /\ wk'[w] = k /\ \A v \in Worker \ {w} : wk'[v] = wk[v]
    BY ResultsKept
  <1>2. DOMAIN toSentinel = Worker
    BY DEF SystemInv, MailInv
  <1>3. ASSUME NEW l \in issued
        PROVE  LineMoves(l)
    <2>1. l.worker \in Worker
      BY LineTyped
    <2>2. NoneStarts(db, db')
      BY SameStarts
    <2>3. CASE l.worker = w
      <3>1. l \in IssuedTo(w)
        BY <2>3 DEF IssuedTo
      <3>2. toSentinel'[l.worker] = Append(toSentinel[l.worker], m)
        BY <1>2, <2>3
      <3>3. Underway(l)' => Underway(l)
        BY <2>2, UnderwayFalls
      <3>4. Tells(l)
        BY <1>1, <2>3, <3>1, <3>2, <3>3 DEF Tells, Told
      <3> QED
        BY <3>4 DEF LineMoves
    <2>4. CASE l.worker # w
      <3>1. toSentinel'[l.worker] = toSentinel[l.worker] /\ wk'[l.worker] = wk[l.worker]
        BY <1>1, <2>1, <2>4
      <3> QED
        BY <2>2, <3>1, QuietLine
    <2> QED
      BY <2>3, <2>4
  <1>4. PostInv'
    BY PostKept
  <1> QED
    BY <1>1, <1>3, <1>4 DEF Spoken

\* Worker w goes on without a message.  Its state becomes k.
LEMMA WorkLines ==
    ASSUME SystemInv, PostInv, ResultsInv, NEW w \in Worker, NEW k,
           db' = db, tasks' = tasks, toSentinel' = toSentinel,
           wk' = [wk EXCEPT ![w] = k], k.stage = "finished" => k.result # "rejected",
           \A l \in issued : Waiting(l)' => Waiting(l),
           \A l \in IssuedTo(w) : Works(l, k) <=> Works(l, wk[w])
    PROVE  Spoken
  <1>1. ResultsInv' /\ wk'[w] = k /\ \A v \in Worker \ {w} : wk'[v] = wk[v]
    BY ResultsKept
  <1>2. ASSUME NEW l \in issued
        PROVE  LineMoves(l)
    <2>1. l.worker \in Worker
      BY LineTyped
    <2>2. Works(l, wk'[l.worker]) <=> Works(l, wk[l.worker])
      BY <1>1, <2>1 DEF IssuedTo
    <2> QED
      BY <2>2, SameStarts, QuietLine
  <1>3. PostInv'
    BY PostKept
  <1> QED
    BY <1>1, <1>2, <1>3 DEF Spoken

\* The timers of the event loop: a heartbeat names the job the worker has.
LEMMA TimerLines ==
    ASSUME SystemInv, SystemInv', Advance, PostInv, ResultsInv, NEW w \in Worker,
           send_identify(w) \/ SendHeartbeat(w)
    PROVE  Spoken
  <1> DEFINE a == [op |-> "IDENTIFY"]
             b == [op |-> "HEARTBEAT", active |-> ActiveJobs(w)]
  <1>1. db' = db /\ tasks' = tasks /\ wk' = wk
    BY DEF send_identify, SendHeartbeat, WorkerOnly
  <1>2. ActiveJobs(w) \subseteq Job
    BY WorkerFacts DEF WorkerOK, ActiveJobs
  <1>3. a \in Message /\ b \in Message /\ Signed(w, a) /\ Signed(w, b)
    BY <1>2 DEF Message, Signed
  <1>4. \E m \in {a, b} : toSentinel' = [toSentinel EXCEPT ![w] = Append(toSentinel[w], m)]
    BY DEF send_identify, SendHeartbeat, Send
  <1>5. \A m \in {a, b} : \A l \in IssuedTo(w) :
          /\ ~IsAck(l, m) /\ ~IsEnd(l, m)
          /\ Misses(l, m) => ~Works(l, wk[w])
    BY DEF IsAck, IsEnd, Misses, Works, ActiveJobs
  <1>6. wk' = [wk EXCEPT ![w] = wk[w]]
    BY <1>1, WorkerFacts
  <1>7. \A l \in issued : Waiting(l)' => Waiting(l)
    BY <1>1, WaitingFalls
  <1>8. wk[w].stage = "finished" => wk[w].result # "rejected"
    BY DEF ResultsInv
  <1> HIDE DEF a, b
  <1>9. PICK m \in {a, b} : toSentinel' = [toSentinel EXCEPT ![w] = Append(toSentinel[w], m)]
    BY <1>4
  <1>10. m \in Message /\ Signed(w, m)
    BY <1>3, <1>9
  <1>11. \A l \in IssuedTo(w) :
            /\ IsAck(l, m) => ~Waiting(l)' /\ Works(l, wk[w])
            /\ IsEnd(l, m) => Works(l, wk[w]) \/ Waiting(l)
            /\ Misses(l, m) => ~Works(l, wk[w])
            /\ Works(l, wk[w]) => Works(l, wk[w]) \/ IsReport(l, m)
            /\ Works(l, wk[w]) => Works(l, wk[w]) \/ Waiting(l)
    BY <1>5, <1>9
  <1> QED
    BY <1>1, <1>6, <1>7, <1>8, <1>9, <1>10, <1>11, TellLines

\* The worker takes a DISPATCH: it says that it starts the job, or that it is
\* at capacity.
LEMMA DispatchLines ==
    ASSUME SystemInv, SystemInv', Advance, PostInv, ResultsInv, NEW w \in Worker,
           handle_dispatch(w)
    PROVE  Spoken
  <1>0. PICK o : o = Head(toWorker[w]).lease
    OBVIOUS
  <1> DEFINE a == [op |-> "DISPATCH_ACK", lease |-> o]
             b == Conclusion(o, "rejected")
             k == [IdleWorker EXCEPT !.stage = "running", !.lease = o]
  <1>1. /\ db' = db /\ tasks' = tasks
        /\ toWorker[w] # << >> /\ Head(toWorker[w]).op = "DISPATCH"
    BY DEF handle_dispatch, WorkerReceive, WorkerOnly
  <1>2. o \in IssuedTo(w) /\ Head(toWorker[w]) = Order(o)
    <2>1. Head(toWorker[w]) \in Orders(w)
      BY <1>1, WorkerFacts, Fifo
    <2> QED
      BY <1>0, <1>1, <2>1 DEF Orders, Order
  <1>3. o \in issued /\ o \in Lease /\ o.worker = w
    BY <1>2, WorkerFacts DEF IssuedTo
  <1>4. /\ a \in Message /\ b \in Message /\ Signed(w, a) /\ Signed(w, b)
    BY <1>3 DEF Message, Conclusion, ReceiptStatus, Signed
  <1>5. Waiting(o)
    <2>1. Sent(o, toWorker[w])
      BY <1>1, <1>2, WorkerFacts, SentTail
    <2> QED
      BY <1>3, <2>1 DEF Waiting
  <1>6. CASE wk[w].stage = "idle"
    <2>1. toSentinel' = [toSentinel EXCEPT ![w] = Append(toSentinel[w], a)]
      BY <1>0, <1>6 DEF handle_dispatch, Send
    <2>2. wk' = [wk EXCEPT ![w] = k]
      BY <1>0, <1>6 DEF handle_dispatch
    <2>3. k.stage = "running" /\ k.lease = o
      BY DEF IdleWorker
    <2>4. /\ \A l : ~Works(l, wk[w]) /\ ~Runs(l, wk[w])
          /\ \A l : /\ Works(l, k) <=> l = o
                    /\ IsAck(l, a) <=> l = o
                    /\ ~IsEnd(l, a) /\ ~Misses(l, a)
      BY <1>6, <2>3 DEF Works, Runs, IsAck, IsEnd, Misses
    <2> HIDE DEF a, k
    <2>5. wk'[w] = k /\ \A v \in Worker \ {w} : wk'[v] = wk[v]
      BY <2>2 DEF SystemInv, WorkersInv
    <2>6. \A l \in issued : Waiting(l)' => Waiting(l)
      <3>1. \A l \in issued : Runs(l, wk[l.worker]) => Runs(l, wk'[l.worker])
        BY <2>4, <2>5, LineTyped
      <3> QED
        BY <3>1, WaitingFalls
    <2>7. ~Waiting(o)'
      <3>1. HasOnePlace(o)'
        BY <1>3 DEF SystemInv, PlacesInv, Advance
      <3>2. Runs(o, wk'[o.worker])
        BY <1>3, <2>3, <2>5 DEF Runs
      <3> QED
        BY <3>1, <3>2 DEF HasOnePlace, OnePlace, Waiting
    <2>8. \A l \in IssuedTo(w) :
            /\ IsAck(l, a) => ~Waiting(l)' /\ Works(l, k)
            /\ IsEnd(l, a) => Works(l, wk[w]) \/ Waiting(l)
            /\ Misses(l, a) => ~Works(l, k)
            /\ Works(l, wk[w]) => Works(l, k) \/ IsReport(l, a)
            /\ Works(l, k) => Works(l, wk[w]) \/ Waiting(l)
      BY <1>5, <2>4, <2>7
    <2> QED
      BY <1>1, <1>4, <2>1, <2>2, <2>3, <2>6, <2>8, TellLines
  <1>7. CASE wk[w].stage # "idle"
    <2>1. toSentinel' = [toSentinel EXCEPT ![w] = Append(toSentinel[w], b)]
      BY <1>0, <1>7 DEF handle_dispatch, Send
    <2>2. wk' = wk /\ wk' = [wk EXCEPT ![w] = wk[w]]
      BY <1>7, WorkerFacts DEF handle_dispatch
    <2>3. \A l \in issued : Waiting(l)' => Waiting(l)
      BY <2>2, WaitingFalls
    <2>4. \A l : ~IsAck(l, b) /\ ~Misses(l, b) /\ (IsEnd(l, b) => l = o)
      BY DEF IsAck, IsEnd, Misses, Conclusion
    <2>5. wk[w].stage = "finished" => wk[w].result # "rejected"
      BY DEF ResultsInv
    <2> HIDE DEF b
    <2> QED
      BY <1>1, <1>4, <1>5, <2>1, <2>2, <2>3, <2>4, <2>5, TellLines
  <1> QED
    BY <1>6, <1>7

\* No job ends with "rejected".
LEMMA OutcomeNotRejected ==
    ASSUME NEW v, NEW c, NEW status \in JobOutcome(v, c)
    PROVE  status \in ReceiptStatus /\ status # "rejected"
  BY DEF JobOutcome, ReceiptStatus

\* The worker takes an ABORT, or the job's thread ends.
LEMMA JobLines ==
    ASSUME SystemInv, SystemInv', Advance, PostInv, ResultsInv, NEW w \in Worker,
           handle_abort(w) \/ execute_job(w)
    PROVE  Spoken
  <1>0. wk \in [Worker -> WorkerState] /\ wk[w] \in WorkerState
    BY WorkerFacts DEF SystemInv, WorkersInv
  <1>1. db' = db /\ tasks' = tasks /\ toSentinel' = toSentinel
    BY DEF handle_abort, execute_job, WorkerReceive, WorkerOnly, net
  <1>2. CASE handle_abort(w)
    <2>1. \E k \in {wk[w], [wk[w] EXCEPT !.cancelled = TRUE]} : wk' = [wk EXCEPT ![w] = k]
      BY <1>0, <1>2 DEF handle_abort
    <2>2. PICK k : /\ wk' = [wk EXCEPT ![w] = k]
                   /\ k.stage = wk[w].stage /\ k.lease = wk[w].lease /\ k.result = wk[w].result
      BY <1>0, <2>1 DEF WorkerState
    <2>3. wk'[w] = k /\ \A v \in Worker \ {w} : wk'[v] = wk[v]
      BY <1>0, <2>2
    <2>4. \A l \in issued : Waiting(l)' => Waiting(l)
      <3>1. \A l \in issued : Runs(l, wk[l.worker]) => Runs(l, wk'[l.worker])
        BY <2>2, <2>3, LineTyped DEF Runs
      <3> QED
        BY <3>1, WaitingFalls
    <2>5. /\ k.stage = "finished" => k.result # "rejected"
          /\ \A l \in IssuedTo(w) : Works(l, k) <=> Works(l, wk[w])
      BY <2>2 DEF ResultsInv, Works
    <2> QED
      BY <1>1, <2>2, <2>4, <2>5, WorkLines
  <1>3. CASE execute_job(w)
    <2>1. PICK status \in JobOutcome(w, wk[w].cancelled) :
            wk' = [wk EXCEPT ![w].stage = "finished", ![w].result = status]
      BY <1>3 DEF execute_job
    <2> DEFINE k == [wk[w] EXCEPT !.stage = "finished", !.result = status]
    <2>2. wk' = [wk EXCEPT ![w] = k]
      BY <1>0, <2>1
    <2>3. k.stage = "finished" /\ k.lease = wk[w].lease /\ k.result = status
      BY <1>0 DEF WorkerState
    <2>4. \A l \in issued : Waiting(l)' => Waiting(l)
      BY <1>3 DEF execute_job, net, WorkerOnly, Waiting, Plan
    <2>5. wk[w].stage = "running" /\ status # "rejected"
      BY <1>3, <2>1, OutcomeNotRejected DEF execute_job
    <2> HIDE DEF k
    <2>6. \A l \in IssuedTo(w) : Works(l, k) <=> Works(l, wk[w])
      BY <2>3, <2>5 DEF Works
    <2> QED
      BY <1>1, <2>2, <2>3, <2>4, <2>5, <2>6, WorkLines
  <1> QED
    BY <1>2, <1>3

\* What the end of a job leaves to be shown: worker w, which had lease o, says
\* how the job ended and has it no more.
LEMMA EndLines ==
    ASSUME SystemInv, PostInv, ResultsInv, NEW w \in Worker, NEW k, NEW status \in ReceiptStatus,
           wk[w].stage \in {"running", "finished"}, status # "rejected",
           db' = db, tasks' = tasks,
           toSentinel' = [toSentinel EXCEPT ![w] =
                            Append(toSentinel[w], Conclusion(wk[w].lease, status))],
           wk' = [wk EXCEPT ![w] = k], k.stage \in {"idle", "sent"},
           \A l \in issued : Waiting(l)' => Waiting(l)
    PROVE  Spoken
  <1>0. PICK o : o = wk[w].lease
    OBVIOUS
  <1> DEFINE m == Conclusion(o, status)
  <1>1. o \in IssuedTo(w) /\ o \in issued /\ o \in Lease /\ o.worker = w
    BY <1>0, WorkerFacts DEF WorkerOK, IssuedTo
  <1>2. m \in Message /\ Signed(w, m)
    BY <1>1 DEF Message, Conclusion, Signed
  <1>3. \A l \in IssuedTo(w) :
          /\ ~IsAck(l, m) /\ ~Misses(l, m)
          /\ ~Works(l, k)
          /\ IsEnd(l, m) => Works(l, wk[w])
          /\ Works(l, wk[w]) => IsReport(l, m)
    BY <1>0 DEF IsAck, IsEnd, IsReport, Misses, Works, Conclusion
  <1>4. toSentinel' = [toSentinel EXCEPT ![w] = Append(toSentinel[w], m)]
    BY <1>0
  <1> HIDE DEF m
  <1> QED
    BY <1>2, <1>3, <1>4, TellLines

\* The result is sent, and the thread reaped.
LEMMA ResultLines ==
    ASSUME SystemInv, SystemInv', Advance, PostInv, ResultsInv, NEW w \in Worker,
           DrainResult(w) \/ reap_completed_jobs(w)
    PROVE  Spoken
  <1> DEFINE f == [wk[w] EXCEPT !.stage = "sent", !.result = "none"]
  <1>0. wk \in [Worker -> WorkerState] /\ wk[w] \in WorkerState
    BY WorkerFacts DEF SystemInv, WorkersInv
  <1>1. db' = db /\ tasks' = tasks
    BY DEF DrainResult, reap_completed_jobs, WorkerOnly
  <1>2. \E k \in {f, IdleWorker} : wk' = [wk EXCEPT ![w] = k]
    BY <1>0 DEF DrainResult, reap_completed_jobs
  <1>3. f.stage = "sent" /\ IdleWorker.stage = "idle"
    BY <1>0 DEF WorkerState, IdleWorker
  <1> HIDE DEF f
  <1>4. PICK k \in {f, IdleWorker} : wk' = [wk EXCEPT ![w] = k]
    BY <1>2
  <1>5. k.stage \in {"idle", "sent"}
    BY <1>3, <1>4
  <1>6. \A l \in issued : Waiting(l)' => Waiting(l)
    BY DEF DrainResult, reap_completed_jobs, WorkerOnly, net, Waiting, Plan
  <1>7. CASE DrainResult(w)
    <2>1. /\ wk[w].stage = "finished"
          /\ toSentinel' = [toSentinel EXCEPT ![w] =
                              Append(toSentinel[w], Conclusion(wk[w].lease, wk[w].result))]
      BY <1>7 DEF DrainResult, Send
    <2>2. wk[w].result \in ReceiptStatus /\ wk[w].result # "rejected"
      BY <2>1, WorkerFacts DEF WorkerOK, ResultsInv
    <2> QED
      BY <1>1, <1>4, <1>5, <1>6, <2>1, <2>2, EndLines
  <1>8. CASE reap_completed_jobs(w)
    <2>1. toSentinel' = toSentinel /\ wk[w].stage = "sent"
      BY <1>8 DEF reap_completed_jobs, net
    <2>2. \A l \in IssuedTo(w) : Works(l, k) <=> Works(l, wk[w])
      BY <1>5, <2>1 DEF Works
    <2> QED
      BY <1>1, <1>4, <1>5, <1>6, <2>1, <2>2, WorkLines
  <1> QED
    BY <1>7, <1>8

\* The worker is shut down, and says what became of its job.
LEMMA ShutdownLines ==
    ASSUME SystemInv, PostInv, ResultsInv, NEW w \in Worker, wait_for_all_jobs(w)
    PROVE  Spoken
  <1>1. /\ db' = db /\ tasks' = tasks /\ mem' = mem
        /\ wk' = [wk EXCEPT ![w] = GoneWorker]
        /\ toWorker' = [toWorker EXCEPT ![w] = << >>]
    BY DEF wait_for_all_jobs, WorkerOnly
  <1>2. GoneWorker.stage = "idle"
    BY DEF GoneWorker, IdleWorker
  <1>3. \A l \in issued : Waiting(l)' => Waiting(l)
    <2>1. \A l : ~Sent(l, << >>)
      BY DEF Sent
    <2>2. \A v \in Worker : toWorker'[v] = << >> \/ toWorker'[v] = toWorker[v]
      BY <1>1 DEF SystemInv, OrdersInv
    <2> QED
      BY <1>1, <2>1, <2>2, LineTyped DEF Waiting, Plan
  <1>4. CASE wk[w].stage \in {"idle", "sent"} /\ UNCHANGED << toSentinel, promoted, committed >>
    <2>1. \A l \in IssuedTo(w) : Works(l, GoneWorker) <=> Works(l, wk[w])
      BY <1>2, <1>4 DEF Works
    <2> QED
      BY <1>1, <1>2, <1>3, <1>4, <2>1, WorkLines
  <1>5. CASE wk[w].stage = "finished" /\ Send(w, Conclusion(wk[w].lease, wk[w].result))
    <2>1. wk[w].result \in ReceiptStatus /\ wk[w].result # "rejected"
      BY <1>5, WorkerFacts DEF WorkerOK, ResultsInv
    <2> QED
      BY <1>1, <1>2, <1>3, <1>5, <2>1, EndLines DEF Send
  <1>6. CASE /\ wk[w].stage = "running"
             /\ \E status \in JobOutcome(w, TRUE) : Send(w, Conclusion(wk[w].lease, status))
    <2>1. PICK status \in JobOutcome(w, TRUE) : Send(w, Conclusion(wk[w].lease, status))
      BY <1>6
    <2>2. status \in ReceiptStatus /\ status # "rejected"
      BY OutcomeNotRejected
    <2> QED
      BY <1>1, <1>2, <1>3, <1>6, <2>1, <2>2, EndLines DEF Send
  <1> QED
    BY <1>4, <1>5, <1>6 DEF wait_for_all_jobs

\* The worker is killed, and with it what had not left the process.
LEMMA DeathLines ==
    ASSUME SystemInv, PostInv, ResultsInv, NEW w \in Worker, WorkerDies(w)
    PROVE  Spoken
  <1>1. /\ db' = db /\ tasks' = tasks /\ mem' = mem
        /\ wk' = [wk EXCEPT ![w] = GoneWorker]
        /\ toWorker' = [toWorker EXCEPT ![w] = << >>]
    BY DEF WorkerDies, WorkerOnly
  <1>2. GoneWorker.stage = "idle" /\ ~GoneWorker.up
    BY DEF GoneWorker, IdleWorker
  <1>3. PICK n \in 0 .. Len(toSentinel[w]) :
          toSentinel' = [toSentinel EXCEPT ![w] = SubSeq(toSentinel[w], 1, n)]
    BY DEF WorkerDies
  <1>4. ResultsInv' /\ wk'[w] = GoneWorker /\ \A v \in Worker \ {w} : wk'[v] = wk[v]
    BY <1>1, <1>2, ResultsKept
  <1>5. \A l \in issued : Waiting(l)' => Waiting(l)
    <2>1. \A l : ~Sent(l, << >>)
      BY DEF Sent
    <2>2. \A v \in Worker : toWorker'[v] = << >> \/ toWorker'[v] = toWorker[v]
      BY <1>1 DEF SystemInv, OrdersInv
    <2> QED
      BY <1>1, <2>1, <2>2, LineTyped DEF Waiting, Plan
  <1>6. DOMAIN toSentinel = Worker /\ Len(toSentinel[w]) \in Nat
    BY DEF SystemInv, MailInv
  <1>7. ASSUME NEW l \in issued
        PROVE  LineMoves(l)
    <2>1. l.worker \in Worker
      BY LineTyped
    <2>2. NoneStarts(db, db')
      BY <1>1, SameStarts
    <2>3. CASE l.worker = w
      <3>1. ~Works(l, GoneWorker)
        BY <1>2 DEF Works
      <3>2. Underway(l)' => Underway(l)
        BY <2>2, UnderwayFalls
      <3>3. /\ toSentinel'[l.worker] = SubSeq(toSentinel[l.worker], 1, n)
            /\ n \in Nat /\ n <= Len(toSentinel[l.worker])
        BY <1>3, <1>6, <2>3
      <3>4. Dies(l)
        BY <1>1, <1>4, <2>3, <3>1, <3>2, <3>3 DEF Dies, Died
      <3> QED
        BY <1>2, <1>4, <1>5, <2>3, <3>4 DEF LineMoves
    <2>4. CASE l.worker # w
      <3>1. toSentinel'[l.worker] = toSentinel[l.worker] /\ wk'[l.worker] = wk[l.worker]
        BY <1>3, <1>4, <2>1, <2>4
      <3> QED
        BY <1>1, <1>5, <2>2, <3>1, QuietLine
    <2> QED
      BY <2>3, <2>4
  <1>8. PostInv'
    BY <1>3, PostKept
  <1> QED
    BY <1>4, <1>7, <1>8 DEF Spoken

\* The Sentinel crashes, in a task or between two.
LEMMA CrashLines ==
    ASSUME SystemInv, SystemInv', Advance, PostInv, ResultsInv,
           CrashIdle \/ CrashInTask \/ CrashInPrepare
    PROVE  /\ Spoken /\ tasks' = << >>
           /\ \E f \in [Worker -> Nat] :
                toSentinel' = [w \in Worker |->
                                 SubSeq(toSentinel[w], 1 + f[w], Len(toSentinel[w]))]
           /\ CrashInPrepare => NoneStarts(db, db')
  <1>0. db \in Tables
    BY DEF SystemInv, QueueTypeOK
  <1>1. Crashed
    BY DEF CrashIdle, CrashInTask, CrashInPrepare
  <1>2. tasks' = << >> /\ wk' = wk
    BY <1>1 DEF Crashed
  <1>3. ~mem'.up
    <2> DEFINE c == [j \in Job |-> IF mem.cancels[j] = "none" THEN "none" ELSE "closed"]
    <2>1. mem' = [FreshMemory(mem.starts) EXCEPT !.up = FALSE, !.cancels = c]
      BY <1>1 DEF Crashed
    <2> HIDE DEF c
    <2> QED
      BY <2>1 DEF FreshMemory
  <1>4. PICK f \in [Worker -> Nat] :
          toSentinel' = [w \in Worker |-> SubSeq(toSentinel[w], 1 + f[w], Len(toSentinel[w]))]
    <2> DEFINE top == Max({Len(toSentinel[w]) : w \in Worker} \cup {0})
    <2>1. PICK f \in [Worker -> 0 .. top] :
            toSentinel' = [w \in Worker |-> SubSeq(toSentinel[w], 1 + f[w], Len(toSentinel[w]))]
      BY <1>1 DEF Crashed
    <2> HIDE DEF top
    <2>2. f \in [Worker -> Nat]
      OBVIOUS
    <2> QED
      BY <2>1, <2>2
  <1>5. CrashInPrepare => NoneStarts(db, db')
    <2> HAVE CrashInPrepare
    <2> DEFINE w == Head(tasks).worker
    <2>1. w \in Worker
      BY HeadIsWork DEF CrashInPrepare, SystemInv, Task
    <2>2. \E j \in Job, t \in Token : \E steps \in Prepared(j, t, w) : \E k \in DOMAIN steps :
            db' = steps[k]
      BY DEF CrashInPrepare
    <2> HIDE DEF w
    <2> QED
      BY <2>1, <2>2, PrepareStarts DEF SystemInv
  <1>6. ASSUME NEW l \in issued
        PROVE  Underway(l)' => Underway(l) \/ (tasks # << >> /\ IsAck(l, Head(tasks)))
    <2>1. CASE NoneStarts(db, db')
      BY <2>1, UnderwayFalls
    <2>2. CASE CrashIdle
      BY <2>1, <2>2, SameStarts DEF CrashIdle, queue
    <2>3. CASE CrashInTask
      <3>1. tasks # << >> /\ Head(tasks) \in Task /\ GoodTask(Head(tasks))
        BY <2>3, HeadIsWork DEF CrashInTask, SystemInv
      <3>2. CASE Head(tasks).op \in {"reconcile", "missing"}
        <4>1. \E some : db' = DeferAll(db, some)
          BY <2>3, <3>2 DEF CrashInTask
        <4> QED
          BY <1>0, <2>1, <4>1, RequeuesStart
      <3>3. CASE Head(tasks).op \notin {"reconcile", "missing"}
        <4>1. /\ \E steps \in Steps(Head(tasks)) : db' \in Torn(db, steps)
              /\ Head(tasks).op # "prepare"
          BY <2>3, <3>3 DEF CrashInTask
        <4> QED
          BY <3>1, <4>1, TaskUnderway
      <3> QED
        BY <3>2, <3>3
    <2> QED
      BY <1>5, <2>1, <2>2, <2>3
  <1>7. ASSUME NEW l \in issued
        PROVE  LineMoves(l)
    <2>1. Waiting(l)' => Waiting(l)
      BY <1>2, WaitingFalls
    <2>2. l.worker \in Worker
      BY LineTyped
    <2>3. /\ f[l.worker] \in Nat
          /\ toSentinel'[l.worker] =
               SubSeq(toSentinel[l.worker], 1 + f[l.worker], Len(toSentinel[l.worker]))
      BY <1>4, <2>2
    <2>4. Cuts(l)
      BY <1>2, <1>6, <2>3 DEF Cuts, Cut
    <2> QED
      BY <1>3, <2>1, <2>4 DEF LineMoves
  <1>8. PostInv'
    BY <1>4, PostKept
  <1>9. ResultsInv'
    BY <1>2 DEF ResultsInv
  <1> QED
    BY <1>2, <1>4, <1>5, <1>7, <1>8, <1>9 DEF Spoken

\* Nothing is said of a lease whose token was never handed out.
LEMMA NewLine ==
    ASSUME SystemInv, NoneStarts(db, db'), tasks' \in Seq(Work),
           toSentinel' \in [Worker -> Seq(Mail)], NEW l \in Lease, Unused(l.token)
    PROVE  Unsaid(l)'
  <1>1. l \notin issued
    BY DEF Unused
  <1>2. l.token \in Token /\ l.token # NoToken /\ l.job \in Job /\ l.worker \in Worker
    BY StoreAssumption DEF Lease
  <1>3. ~Underway(l)'
    <2>1. db.jobs[l.job].token # l.token
      BY <1>2 DEF SystemInv, LeaseInv, RowTokenIssued, Unused
    <2> QED
      BY <1>2, <2>1 DEF NoneStarts, Underway, TokenMatches
  <1>4. \A x \in Work : ~IsAck(l, x)
    BY <1>1 DEF Work, GoodTask, IsAck, Task
  <1>5. \A m \in Mail : ~IsAck(l, m)
    BY <1>1 DEF Mail, GoodMessage, IsAck, Message
  <1>6. \A i \in DOMAIN tasks' : tasks'[i] \in Work
    BY Fifo
  <1>7. \A i \in DOMAIN toSentinel'[l.worker] : toSentinel'[l.worker][i] \in Mail
    BY <1>2, Fifo
  <1> QED
    BY <1>3, <1>4, <1>5, <1>6, <1>7 DEF Unsaid

\* prepare_dispatch_plan may hand out a lease, of which nothing is said yet.
LEMMA PreparedUnsaid ==
    ASSUME SystemInv, SystemInv', Advance, PostInv, ResultsInv,
           CrashInPrepare \/ \E w \in Worker : RunPrepare(w)
    PROVE  Spoken /\ \A l \in issued' : l \in issued \/ Unsaid(l)'
  <1>0. tasks \in Seq(Work) /\ toSentinel \in [Worker -> Seq(Mail)]
    BY DEF SystemInv, WorkInv, MailInv
  <1>1. CASE CrashInPrepare
    <2> DEFINE w == Head(tasks).worker
    <2>1. Spoken /\ tasks' = << >> /\ NoneStarts(db, db')
      BY <1>1, CrashLines
    <2>2. PICK f \in [Worker -> Nat] :
            toSentinel' = [v \in Worker |-> SubSeq(toSentinel[v], 1 + f[v], Len(toSentinel[v]))]
      BY <1>1, CrashLines
    <2>3. tasks' \in Seq(Work)
      BY <2>1
    <2>4. toSentinel' \in [Worker -> Seq(Mail)]
      <3>1. \A v \in Worker : SubSeq(toSentinel[v], 1 + f[v], Len(toSentinel[v])) \in Seq(Mail)
        BY <1>0, Remainder
      <3> QED
        BY <2>2, <3>1
    <2>5. w \in Worker
      BY <1>1, HeadIsWork DEF CrashInPrepare, SystemInv, Task
    <2>6. ASSUME NEW l \in issued', l \notin issued
          PROVE  l \in Lease /\ Unused(l.token)
      <3>1. PICK j \in Job, t \in Token : /\ Unused(t)
                                          /\ issued' = issued
                                             \/ issued' = issued \cup {[token |-> t, job |-> j,
                                                                        worker |-> w]}
        BY <1>1 DEF CrashInPrepare
      <3>2. l = [token |-> t, job |-> j, worker |-> w]
        BY <2>6, <3>1
      <3> HIDE DEF w
      <3> QED
        BY <2>5, <3>1, <3>2 DEF Lease
    <2> QED
      BY <2>1, <2>3, <2>4, <2>6, NewLine
  <1>2. ASSUME NEW w \in Worker, RunPrepare(w)
        PROVE  Spoken /\ \A l \in issued' : l \in issued \/ Unsaid(l)'
    <2>1. Spoken /\ NoneStarts(db, db')
      BY <1>2, PrepareLines
    <2>2. tasks' \in Seq(Work) /\ toSentinel' \in [Worker -> Seq(Mail)]
      BY <1>0, <1>2, Fifo DEF RunPrepare, net
    <2>3. ASSUME NEW l \in issued', l \notin issued
          PROVE  l \in Lease /\ Unused(l.token)
      <3>1. PICK j \in Job, t \in Token : /\ Unused(t)
                                          /\ issued' = issued \cup {[token |-> t, job |-> j,
                                                                     worker |-> w]}
        BY <1>2, <2>3 DEF RunPrepare, queue
      <3>2. l = [token |-> t, job |-> j, worker |-> w]
        BY <2>3, <3>1
      <3> QED
        BY <3>1, <3>2 DEF Lease
    <2> QED
      BY <2>1, <2>2, <2>3, NewLine
  <1> QED
    BY <1>1, <1>2

\* Every step moves the line of every lease.
LEMMA LinesKept ==
    ASSUME SystemInv, SystemInv', Advance, PostInv, ResultsInv, [Next]_vars
    PROVE  LinesMove /\ PostInv' /\ ResultsInv'
  <1>1. CASE CrashInPrepare \/ \E w \in Worker : RunPrepare(w)
    BY <1>1, PreparedUnsaid DEF Spoken, LinesMove
  <1>2. CASE ~(CrashInPrepare \/ \E w \in Worker : RunPrepare(w))
    <2>1. issued' = issued
      <3>1. \/ UNCHANGED queue
            \/ RunTask \/ CrashInTask \/ Restart
            \/ \E j \in Job : enqueue_jobs(j) \/ ClockPasses(j)
        BY <1>2, OffTheTables
      <3> QED
        BY <3>1 DEF queue, RunTask, CrashInTask, Restart, enqueue_jobs, Enqueue,
                    ClockPasses, BackoffElapses
    <2>2. Spoken
      <3>1. CASE UNCHANGED vars \/ \E w \in Worker : write_outputs_grouped(w)
        BY <3>1, SameStarts, StillLines DEF vars, write_outputs_grouped, WorkerOnly, net
      <3>2. ASSUME NEW w \in Worker,
                   \/ Reactor(w) \/ cleanup_stale_workers(w)
                   \/ WorkerStep(w) \/ send_identify(w) \/ SendHeartbeat(w)
                   \/ wait_for_all_jobs(w) \/ WorkerDies(w)
            PROVE  Spoken
        BY <3>1, <3>2, ReactorLines, ReceiveLines, DispatchLines, JobLines, ResultLines,
           TimerLines, ShutdownLines, DeathLines DEF Reactor, WorkerStep
      <3>3. ASSUME NEW j \in Job,
                   \/ handle_control_request(j) \/ drain_pending_cancel_jobs(j)
                   \/ enqueue_jobs(j) \/ ClockPasses(j)
            PROVE  Spoken
        BY <3>3, ReactorLines, ClientLines
      <3>4. CASE \/ sweep_expired_dispatches \/ GraceEnds \/ RunTask
                 \/ CrashIdle \/ CrashInTask \/ Restart
        BY <3>4, ReactorLines, ClientLines, TaskLines, CrashLines
      <3> QED
        BY <1>2, <3>1, <3>2, <3>3, <3>4 DEF Next
    <2> QED
      BY <2>1, <2>2 DEF Spoken, LinesMove
  <1> QED
    BY <1>1, <1>2

\* Initially there is no lease, and the workers have said IDENTIFY.
LEMMA LinesStart == Init => LineInv /\ AwaitInv /\ PostInv /\ ResultsInv
  <1> HAVE Init
  <1>1. issued = {}
    BY DEF Init, QueueInit
  <1>2. PostInv
    <2> SUFFICES ASSUME NEW w \in Worker, NEW i \in DOMAIN toSentinel[w]
                 PROVE  Signed(w, toSentinel[w][i])
      BY DEF PostInv
    <2>1. toSentinel[w] = << [op |-> "IDENTIFY"] >>
      BY DEF Init
    <2>2. toSentinel[w][i] = [op |-> "IDENTIFY"]
      BY <2>1
    <2> QED
      BY <2>2 DEF Signed
  <1>3. ResultsInv
    BY DEF Init, ResultsInv, IdleWorker
  <1> QED
    BY <1>1, <1>2, <1>3 DEF LineInv, AwaitInv

\* The lease under which a job is RUNNING.
LEMMA RunningLease ==
    ASSUME SystemInv, NEW j \in Job, db.jobs[j].status = "RUNNING"
    PROVE  \E l \in issued : /\ l.token = db.jobs[j].token /\ l.job = j
                             /\ l.worker = db.jobs[j].owner
                             /\ Underway(l)
  BY DEF SystemInv, LeaseInv, RunningIsOwned, Underway, TokenMatches

\* What is on its way of a lease is with its worker, in the pipe from it or
\* with the database thread.
LEMMA ConcludingIsSaid ==
    ASSUME SystemInv, PostInv, NEW l \in issued
    PROVE  Concluding(l.token) <=>
              \/ Works(l, wk[l.worker])
              \/ \E n \in DOMAIN tasks : IsEnd(l, tasks[n])
              \/ \E n \in DOMAIN toSentinel[l.worker] : IsEnd(l, toSentinel[l.worker][n])
  <1>1. \A m \in issued : m.token = l.token => m = l
    BY DEF SystemInv, LeaseInv, TokensUnique
  <1>2. l.worker \in Worker
    BY LineTyped
  <1>3. \A w \in Worker : wk[w].stage \in {"running", "finished"} =>
          wk[w].lease \in issued /\ wk[w].lease.worker = w
    BY WorkerFacts DEF WorkerOK, IssuedTo
  <1>4. \A n \in DOMAIN tasks : /\ tasks[n].op = "conclude" => tasks[n].lease \in issued
                                /\ tasks[n].op # "CONCLUDE"
    <2>1. \A n \in DOMAIN tasks : tasks[n] \in Work
      BY Fifo DEF SystemInv, WorkInv
    <2>2. \A x \in Work : (x.op = "conclude" => x.lease \in issued) /\ x.op # "CONCLUDE"
      BY DEF Work, GoodTask, Task
    <2> QED
      BY <2>1, <2>2
  <1>5. \A w \in Worker : \A n \in DOMAIN toSentinel[w] :
          /\ toSentinel[w][n].op = "CONCLUDE" =>
               toSentinel[w][n].lease \in issued /\ toSentinel[w][n].lease.worker = w
          /\ toSentinel[w][n].op # "conclude"
    <2>1. \A w \in Worker : \A n \in DOMAIN toSentinel[w] : toSentinel[w][n] \in Mail
      BY Fifo DEF SystemInv, MailInv
    <2>2. \A m \in Mail : (m.op = "CONCLUDE" => m.lease \in issued) /\ m.op # "conclude"
      BY DEF Mail, GoodMessage
    <2> QED
      BY <2>1, <2>2 DEF PostInv, Signed
  <1>6. Concluding(l.token) =>
              \/ Works(l, wk[l.worker])
              \/ \E n \in DOMAIN tasks : IsEnd(l, tasks[n])
              \/ \E n \in DOMAIN toSentinel[l.worker] : IsEnd(l, toSentinel[l.worker][n])
    <2>1. ASSUME NEW w \in Worker, wk[w].stage \in {"running", "finished"},
                 wk[w].lease.token = l.token
          PROVE  Works(l, wk[l.worker])
      BY <1>1, <1>3, <2>1 DEF Works
    <2>2. ASSUME NEW w \in Worker, NEW n \in DOMAIN toSentinel[w],
                 toSentinel[w][n].op = "CONCLUDE", toSentinel[w][n].lease.token = l.token
          PROVE  w = l.worker /\ IsEnd(l, toSentinel[w][n])
      BY <1>1, <1>5, <2>2 DEF IsEnd
    <2>3. ASSUME NEW n \in DOMAIN tasks,
                 tasks[n].op = "conclude", tasks[n].lease.token = l.token
          PROVE  IsEnd(l, tasks[n])
      BY <1>1, <1>4, <2>3 DEF IsEnd
    <2> QED
      BY <2>1, <2>2, <2>3 DEF Concluding
  <1>7. ASSUME Works(l, wk[l.worker])
        PROVE  Concluding(l.token)
    BY <1>2, <1>7 DEF Works, Concluding
  <1>8. ASSUME NEW n \in DOMAIN tasks, IsEnd(l, tasks[n])
        PROVE  Concluding(l.token)
    BY <1>4, <1>8 DEF IsEnd, Concluding
  <1>9. ASSUME NEW n \in DOMAIN toSentinel[l.worker], IsEnd(l, toSentinel[l.worker][n])
        PROVE  Concluding(l.token)
    BY <1>2, <1>5, <1>9 DEF IsEnd, Concluding
  <1> QED
    BY <1>6, <1>7, <1>8, <1>9

\* The jobs a reconciliation requeues are not being executed or concluded.
LEMMA SparesLive ==
    ASSUME SystemInv, LineInv, PostInv
    PROVE  ReconcileSparesLiveJobs
  <1> DEFINE x == Head(tasks)
  <1> SUFFICES ASSUME tasks # << >>, x.op = "reconcile", NEW j \in Lost(x)
               PROVE  ~Concluding(db.jobs[j].token)
    BY DEF ReconcileSparesLiveJobs
  <1>1. /\ j \in Job /\ db.jobs[j].status = "RUNNING"
        /\ db.jobs[j].owner = x.worker /\ j \notin x.active
    BY DEF Lost, list_running_jobs_by_owner
  <1>2. PICK l \in issued : /\ l.token = db.jobs[j].token /\ l.job = j
                            /\ l.worker = db.jobs[j].owner
                            /\ Underway(l)
    BY <1>1, RunningLease
  <1>3. Misses(l, x)
    BY <1>1, <1>2 DEF Misses
  <1>4. DOMAIN tasks = 1 .. Len(tasks) /\ 1 \in DOMAIN tasks /\ x = tasks[1]
    BY LineTyped, Taken
  <1> HIDE DEF x
  <1>5. /\ ~Works(l, wk[l.worker])
        /\ \A n \in DOMAIN tasks : IsEnd(l, tasks[n]) => n < 1
        /\ \A n \in DOMAIN toSentinel[l.worker] : ~IsEnd(l, toSentinel[l.worker][n])
    BY <1>2, <1>3, <1>4 DEF LineInv, Spared, MissedInTasks
  <1>6. \A n \in DOMAIN tasks : ~IsEnd(l, tasks[n])
    BY <1>4, <1>5
  <1> QED
    BY <1>2, <1>5, <1>6, ConcludingIsSaid

\* While nothing is lost, the outcome of a RUNNING job is on its way.
LEMMA AwaitedComes ==
    ASSUME SystemInv, AwaitInv, PostInv
    PROVE  OutcomeOnItsWay
  <1> SUFFICES ASSUME NEW j \in Job, db.jobs[j].status = "RUNNING"
               PROVE  Concluding(db.jobs[j].token)
    BY DEF OutcomeOnItsWay
  <1>1. PICK l \in issued : l.token = db.jobs[j].token /\ Underway(l)
    BY RunningLease
  <1>2. \/ Works(l, wk[l.worker])
        \/ \E n \in DOMAIN tasks : IsEnd(l, tasks[n])
        \/ \E n \in DOMAIN toSentinel[l.worker] : IsEnd(l, toSentinel[l.worker][n])
    BY <1>1 DEF AwaitInv, Awaited, IsReport
  <1> QED
    BY <1>1, <1>2, ConcludingIsSaid

\* A reconciliation after a restart requeues no job that its worker executes,
\* or whose outcome is behind the heartbeat: however heartbeats, DISPATCH_ACKs
\* and CONCLUDEs cross, and whatever crashed or died before.
THEOREM ReconcileSparesLiveJobsAlways == Spec => []ReconcileSparesLiveJobs
  <1> DEFINE Inv == SystemInv /\ LineInv /\ PostInv /\ ResultsInv
  <1>1. Init => Inv
    BY SystemStarts, LinesStart
  <1>2. Inv /\ [Next]_vars => Inv'
    BY SystemKept, LinesKept, LineKept
  <1>3. Inv => ReconcileSparesLiveJobs
    BY SparesLive
  <1> HIDE DEF Inv
  <1> QED
    BY <1>1, <1>2, <1>3, PTL DEF Spec

\* Neither the Sentinel nor a worker is down.
AllUp == mem.up /\ \A w \in Worker : wk[w].up

\* As long as neither the Sentinel nor a worker has gone down, the outcome of
\* every RUNNING job is on its way to its row.
THEOREM OutcomeOnItsWayWhileUp == Spec /\ []AllUp => []OutcomeOnItsWay
  <1> DEFINE Inv == SystemInv /\ AwaitInv /\ PostInv /\ ResultsInv
  <1>1. Init => Inv
    BY SystemStarts, LinesStart
  <1>2. Inv /\ AllUp' /\ [Next]_vars => Inv'
    BY SystemKept, LinesKept, AwaitKept DEF AllUp
  <1>3. Inv => OutcomeOnItsWay
    BY AwaitedComes
  <1> HIDE DEF Inv, AllUp
  <1> QED
    BY <1>1, <1>2, <1>3, PTL DEF Spec

\* Where no worker may die and the Sentinel is started once, everything stays up.
CalmInv == AllUp /\ mem.starts = 1

\* A Sentinel that is started only once does not go down.
LEMMA SentinelStaysUp ==
    ASSUME SystemInv, mem.up, mem.starts = 1, MaxStarts = 1, [Next]_vars
    PROVE  mem'.up /\ mem'.starts = 1
  <1>0. mem \in Memory
    BY DEF SystemInv, SentinelInv
  <1>1. ~Crashed /\ ~Restart
    BY DEF Crashed, Restart
  <1>2. CASE mem' = mem
    BY <1>2
  <1>3. ASSUME NEW w \in Worker, Reactor(w) \/ cleanup_stale_workers(w)
        PROVE  mem'.up /\ mem'.starts = 1
    <2>1. CASE register_worker(w)
      BY <1>0, <2>1 DEF register_worker, Memory
    <2>2. CASE handle_dispatch_ack(w)
      BY <2>2 DEF handle_dispatch_ack
    <2>3. CASE handle_heartbeat(w)
      BY <1>0, <2>3 DEF handle_heartbeat, Memory
    <2>4. CASE handle_conclude(w)
      BY <1>0, <2>4 DEF handle_conclude, Register, Memory
    <2>5. CASE dispatch_loop(w)
      BY <1>0, <2>5 DEF dispatch_loop, Memory
    <2>6. CASE drain_pending_dispatches(w)
      <3>1. \/ \E l : SendPlan(w, l)
            \/ \E l, entry : DropPlan(w, l, entry)
        BY <2>6, Zenon DEF drain_pending_dispatches
      <3>2. \E e : mem' = [mem EXCEPT !.plans[w] = NoPlan, !.workers[w] = e]
        BY <3>1, Zenon DEF SendPlan, DropPlan
      <3> QED
        BY <1>0, <3>2 DEF Memory
    <2>7. CASE cleanup_stale_workers(w)
      BY <1>0, <2>7 DEF cleanup_stale_workers, Register, Memory
    <2> QED
      BY <1>3, <2>1, <2>2, <2>3, <2>4, <2>5, <2>6, <2>7 DEF Reactor
  <1>4. ASSUME NEW w \in Worker, RunPrepare(w)
        PROVE  mem'.up /\ mem'.starts = 1
    <2>1. \/ mem' = [mem EXCEPT !.plans[w] = NoPlan]
          \/ \E l : mem' = [mem EXCEPT !.plans[w].lease = l]
      BY <1>4, Zenon DEF RunPrepare
    <2> QED
      BY <1>0, <2>1 DEF Memory
  <1>5. ASSUME NEW j \in Job, handle_control_request(j) \/ drain_pending_cancel_jobs(j)
        PROVE  mem'.up /\ mem'.starts = 1
    BY <1>0, <1>5 DEF handle_control_request, drain_pending_cancel_jobs, Memory
  <1>6. CASE GraceEnds
    BY <1>0, <1>6 DEF GraceEnds, Memory
  <1>7. CASE RunTask
    <2>1. mem' = mem \/ \E j, a : mem' = [mem EXCEPT !.cancels[j] = a]
      BY <1>7 DEF RunTask, CancelReply
    <2> QED
      BY <1>0, <2>1 DEF Memory
  <1>8. ASSUME NEW w \in Worker,
               \/ WorkerStep(w) \/ send_identify(w) \/ SendHeartbeat(w)
               \/ wait_for_all_jobs(w) \/ WorkerDies(w)
        PROVE  mem' = mem
    BY <1>8 DEF WorkerStep, handle_dispatch, handle_abort, write_outputs_grouped, execute_job, DrainResult,
                reap_completed_jobs, send_identify, SendHeartbeat, wait_for_all_jobs,
                WorkerDies, WorkerReceive, WorkerOnly
  <1>9. ASSUME NEW j \in Job, enqueue_jobs(j) \/ ClockPasses(j)
        PROVE  mem' = mem
    BY <1>9 DEF enqueue_jobs, ClockPasses, Outside
  <1>10. sweep_expired_dispatches => mem' = mem
    BY DEF sweep_expired_dispatches
  <1>11. UNCHANGED vars => mem' = mem
    BY DEF vars
  <1> QED
    BY <1>1, <1>2, <1>3, <1>4, <1>5, <1>6, <1>7, <1>8, <1>9, <1>10, <1>11
    DEF Next, CrashIdle, CrashInTask, CrashInPrepare

\* Workers that are not mortal do not go down.
LEMMA WorkersStayUp ==
    ASSUME SystemInv, \A w \in Worker : wk[w].up, Mortal = {}, [Next]_vars
    PROVE  \A w \in Worker : wk'[w].up
  <1>0. wk \in [Worker -> WorkerState]
    BY DEF SystemInv, WorkersInv
  <1>1. CASE wk' = wk
    BY <1>1
  <1>2. ASSUME NEW w \in Worker, WorkerStep(w)
        PROVE  \A v \in Worker : wk'[v].up
    <2>1. IdleWorker.up /\ \A l : [IdleWorker EXCEPT !.stage = "running", !.lease = l].up
      BY DEF IdleWorker
    <2>2. CASE handle_dispatch(w)
      <3>1. wk' = wk \/ \E l : wk' = [wk EXCEPT ![w] =
                                        [IdleWorker EXCEPT !.stage = "running", !.lease = l]]
        BY <2>2, Zenon DEF handle_dispatch
      <3> QED
        BY <1>0, <1>1, <2>1, <3>1
    <2>3. CASE handle_abort(w)
      BY <1>0, <2>3 DEF handle_abort, WorkerState
    <2>4. CASE execute_job(w)
      BY <1>0, <2>4 DEF execute_job, WorkerState
    <2>5. CASE DrainResult(w) \/ reap_completed_jobs(w)
      BY <1>0, <2>1, <2>5 DEF DrainResult, reap_completed_jobs, WorkerState
    <2>6. CASE write_outputs_grouped(w)
      BY <1>1, <2>6 DEF write_outputs_grouped
    <2> QED
      BY <1>2, <2>2, <2>3, <2>4, <2>5, <2>6 DEF WorkerStep
  <1>3. ASSUME NEW w \in Worker, wait_for_all_jobs(w) \/ WorkerDies(w)
        PROVE  FALSE
    BY <1>3 DEF wait_for_all_jobs, WorkerDies
  <1>4. ASSUME NEW w \in Worker, \/ Reactor(w) \/ cleanup_stale_workers(w)
        PROVE  wk' = wk
    BY <1>4 DEF Reactor, register_worker, handle_dispatch_ack, handle_heartbeat,
                handle_conclude, Receive, dispatch_loop, drain_pending_dispatches,
                cleanup_stale_workers, SentinelOnly
  <1>5. ASSUME NEW w \in Worker, \/ RunPrepare(w) \/ send_identify(w) \/ SendHeartbeat(w)
        PROVE  wk' = wk
    BY <1>5 DEF RunPrepare, send_identify, SendHeartbeat
  <1>6. ASSUME NEW j \in Job, \/ handle_control_request(j) \/ drain_pending_cancel_jobs(j)
                              \/ enqueue_jobs(j) \/ ClockPasses(j)
        PROVE  wk' = wk
    BY <1>6 DEF handle_control_request, drain_pending_cancel_jobs, SentinelOnly,
                enqueue_jobs, ClockPasses, Outside
  <1>7. sweep_expired_dispatches \/ GraceEnds => wk' = wk
    BY DEF sweep_expired_dispatches, GraceEnds, SentinelOnly
  <1>8. RunTask \/ CrashIdle \/ CrashInTask \/ CrashInPrepare \/ Restart => wk' = wk
    BY DEF RunTask, CrashIdle, CrashInTask, CrashInPrepare, Crashed, Restart
  <1>9. UNCHANGED vars => wk' = wk
    BY DEF vars
  <1> QED
    BY <1>1, <1>2, <1>3, <1>4, <1>5, <1>6, <1>7, <1>8, <1>9 DEF Next

\* In the setting of the run: no worker may die and the Sentinel is started only
\* once, so the outcome of every RUNNING job is always on its way.
THEOREM OutcomeOnItsWayWhenCalm ==
    ASSUME Mortal = {}, MaxStarts = 1
    PROVE  Spec => []OutcomeOnItsWay
  <1>1. Init => CalmInv
    BY DEF Init, CalmInv, AllUp, FreshMemory, IdleWorker
  <1>2. SystemInv /\ CalmInv /\ [Next]_vars => CalmInv'
    BY SentinelStaysUp, WorkersStayUp DEF CalmInv, AllUp
  <1>3. CalmInv => AllUp
    BY DEF CalmInv
  <1> HIDE DEF CalmInv, AllUp
  <1>4. Spec => []AllUp
    BY <1>1, <1>2, <1>3, SystemInvariant, PTL DEF Spec
  <1> QED
    BY <1>4, OutcomeOnItsWayWhileUp, PTL

===============================================================================
