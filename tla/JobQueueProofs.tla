---------------------------- MODULE JobQueueProofs ----------------------------
(***************************************************************************)
(* Type correctness, the lease invariant and the retry bound of JobQueue,  *)
(* for every set of jobs, workers, parsers, runs and tokens and every      *)
(* retry limit.                                                            *)
(***************************************************************************)
EXTENDS JobQueue, TLAPS

-------------------------------------------------------------------------------
(* What the statements do to the rows, and that they keep the tables typed. *)

\* An UPDATE of one row changes that row and keeps the tables typed.
LEMMA WithRowFacts ==
    ASSUME NEW d \in Tables, NEW j \in Job, NEW r \in ProcessingJob
    PROVE  /\ WithRow(d, j, r) \in Tables
           /\ WithRow(d, j, r).jobs = [d.jobs EXCEPT ![j] = r]
           /\ WithRow(d, j, r).health = d.health
  <1> DEFINE f == [d.jobs EXCEPT ![j] = r]
  <1>1. f \in [Job -> ProcessingJob]
    BY DEF Tables
  <1> HIDE DEF f
  <1>2. /\ [d EXCEPT !.jobs = f] \in Tables
        /\ [d EXCEPT !.jobs = f].jobs = f
        /\ [d EXCEPT !.jobs = f].health = d.health
    BY <1>1 DEF Tables
  <1> QED
    BY <1>2 DEF WithRow, f

\* The columns of a row of typed tables are typed.
LEMMA RowTyped ==
    ASSUME NEW d \in Tables, NEW j \in Job
    PROVE  /\ d.jobs \in [Job -> ProcessingJob]
           /\ d.jobs[j] \in ProcessingJob
           /\ d.jobs[j].plugin \in Parser
           /\ d.jobs[j].retry \in Nat
           /\ d.jobs[j].run \in Run \cup {NoRun}
  BY DEF Tables, ProcessingJob

\* A row put back to QUEUED (defer_job, the sweep, retries) is a row.
LEMMA RequeuedTyped ==
    ASSUME NEW r \in ProcessingJob, NEW b \in BOOLEAN
    PROVE  Requeued(r, b) \in ProcessingJob
  BY DEF Requeued, ProcessingJob, ProcessingStatus

\* A change of status keeps the lease columns of the row.
LEMMA SetStatusFacts ==
    ASSUME NEW d \in Tables, NEW j \in Job, NEW s \in ProcessingStatus
    PROVE  /\ SetStatus(d, j, s) \in Tables
           /\ SetStatus(d, j, s).jobs =
                 [d.jobs EXCEPT ![j] = [d.jobs[j] EXCEPT !.status = s]]
  <1>1. [d.jobs[j] EXCEPT !.status = s] \in ProcessingJob
    BY RowTyped DEF ProcessingJob
  <1> QED
    BY <1>1, WithRowFacts DEF SetStatus

\* Statements that leave cf_processing_queue alone.
SameRows(d, e) == e \in Tables /\ e.jobs = d.jobs

\* update_pipeline_run_status touches no job.
LEMMA RunStatement ==
    ASSUME NEW d \in Tables, NEW j \in Job
    PROVE  SameRows(d, update_pipeline_run_status_for_job(d, j))
  <1>1. \A q \in Run, s \in PipelineRunStatus : SameRows(d, [d EXCEPT !.runs[q] = s])
    BY DEF Tables, SameRows
  <1>2. \A q \in Run : d.runs[q] \in PipelineRunStatus
    BY DEF Tables
  <1>3. CASE d.jobs[j].run = NoRun
    BY <1>3 DEF update_pipeline_run_status_for_job, SameRows
  <1>4. CASE d.jobs[j].run # NoRun
    <2>1. d.jobs[j].run \in Run
      BY <1>4, RowTyped
    <2> QED
      BY <1>4, <2>1, <1>1, <1>2
      DEF update_pipeline_run_status_for_job, update_pipeline_run_status,
          PipelineRunStatus
  <1> QED
    BY <1>3, <1>4

\* set_pipeline_run_running touches no job.
LEMMA RunRunningStatement ==
    ASSUME NEW d \in Tables, NEW r \in Run \cup {NoRun}
    PROVE  SameRows(d, set_pipeline_run_running(d, r))
  <1>1. \A q \in Run, s \in PipelineRunStatus : SameRows(d, [d EXCEPT !.runs[q] = s])
    BY DEF Tables, SameRows
  <1> QED
    BY <1>1 DEF set_pipeline_run_running, PipelineRunStatus, SameRows

\* The statements on cf_parser_health touch no job.
LEMMA HealthStatements ==
    ASSUME NEW d \in Tables, NEW p \in Parser
    PROVE  /\ SameRows(d, record_parser_success(d, p))
           /\ SameRows(d, record_parser_failure(d, p))
           /\ SameRows(d, check_circuit_breaker_db(d, p))
           /\ SameRows(d, resume_parser(d, p))
  <1> DEFINE f == d.health[p].fails
             b == d.health[p].paused
  <1>1. \A g \in Nat, c \in BOOLEAN : SameRows(d, WithHealth(d, p, g, c))
    BY DEF WithHealth, Tables, SameRows
  <1>2. f \in Nat /\ f + 1 \in Nat /\ 0 \in Nat
    BY DEF Tables
  <1>3. b \in BOOLEAN /\ TRUE \in BOOLEAN /\ FALSE \in BOOLEAN
    BY DEF Tables
  <1>4. \A g \in {0, f, f + 1}, c \in {b, TRUE, FALSE} :
           SameRows(d, WithHealth(d, p, g, c))
    BY <1>1, <1>2, <1>3
  <1>5. SameRows(d, d)
    BY DEF SameRows
  <1> QED
    BY <1>4, <1>5, Zenon DEF record_parser_success, record_parser_failure,
                             check_circuit_breaker_db, resume_parser

\* Dead letters, materializations and artifacts touch no job.
LEMMA JobStatements ==
    ASSUME NEW d \in Tables, NEW j \in Job
    PROVE  /\ SameRows(d, insert_job_artifacts(d, j))
           /\ SameRows(d, record_materializations_for_job(d, j))
           /\ SameRows(d, insert_dead_letter(d, j))
           /\ \A n \in Nat : SameRows(d, [d EXCEPT !.dead[j] = n])
  <1>1. \A n \in Nat : SameRows(d, [d EXCEPT !.dead[j] = n])
    BY DEF Tables, SameRows
  <1>2. d.dead[j] + 1 \in Nat
    BY DEF Tables
  <1>3. SameRows(d, insert_job_artifacts(d, j))
    BY DEF insert_job_artifacts, Tables, SameRows
  <1>4. SameRows(d, record_materializations_for_job(d, j))
    BY DEF record_materializations_for_job, Tables, SameRows
  <1> QED
    BY <1>1, <1>2, <1>3, <1>4 DEF insert_dead_letter

-------------------------------------------------------------------------------
(* What the tasks do to the row of their job. *)

\* A change of a row that cannot start a lease: the lease is dropped, or it
\* is kept while the status stays or becomes final.
Benign(old, new) ==
    \/ new.token = NoToken /\ new.owner = NoWorker /\ new.status # "RUNNING"
    \/ /\ new.token = old.token
       /\ new.owner = old.owner
       /\ new.status \in Terminal \cup {old.status}

\* From d to e nothing changed in the rows, or the outcome of the active
\* lease t of job j was applied to j's row.
Applied(d, e, j, t) ==
    /\ e \in Tables
    /\ \/ e.jobs = d.jobs
       \/ /\ d.jobs[j].status \in Active
          /\ d.jobs[j].token = t
          /\ \E r \in ProcessingJob : /\ e.jobs = [d.jobs EXCEPT ![j] = r]
                                       /\ Benign(d.jobs[j], r)
                                       /\ r.status \notin Active

\* Statements on the other tables do not matter.
LEMMA AppliedFrame ==
    ASSUME NEW d, NEW e, NEW f, NEW j, NEW t,
           Applied(d, e, j, t), SameRows(e, f)
    PROVE  Applied(d, f, j, t)
  BY DEF Applied, SameRows

\* Applying an outcome keeps the tables typed.
LEMMA AppliedTyped ==
    ASSUME NEW d, NEW e, NEW j, NEW t, Applied(d, e, j, t)
    PROVE  e \in Tables
  BY DEF Applied

\* A terminal status set under the token guard is an outcome of t.
LEMMA SetStatusApplied ==
    ASSUME NEW d \in Tables, NEW b \in Tables, NEW j \in Job, NEW t,
           NEW s \in Terminal, b.jobs = d.jobs,
           d.jobs[j].status \in Active, d.jobs[j].token = t
    PROVE  Applied(d, SetStatus(b, j, s), j, t)
  <1> DEFINE r == [b.jobs[j] EXCEPT !.status = s]
  <1>1. s \in ProcessingStatus
    BY DEF Terminal, ProcessingStatus
  <1>2. /\ r \in ProcessingJob
        /\ r.token = d.jobs[j].token
        /\ r.owner = d.jobs[j].owner
        /\ r.status = s
    BY <1>1, RowTyped DEF ProcessingJob
  <1>3. Benign(d.jobs[j], r) /\ r.status \notin Active
    BY <1>2 DEF Benign, Terminal, Active
  <1>4. /\ SetStatus(b, j, s) \in Tables
        /\ SetStatus(b, j, s).jobs = [d.jobs EXCEPT ![j] = r]
    BY <1>1, SetStatusFacts
  <1> QED
    BY <1>2, <1>3, <1>4 DEF Applied

\* A requeue under the token guard is an outcome of t.
LEMMA RequeuedApplied ==
    ASSUME NEW d \in Tables, NEW j \in Job, NEW t, NEW b \in BOOLEAN,
           d.jobs[j].status \in Active, d.jobs[j].token = t
    PROVE  Applied(d, WithRow(d, j, Requeued(d.jobs[j], b)), j, t)
  <1> DEFINE r == Requeued(d.jobs[j], b)
  <1>1. r \in ProcessingJob
    BY RowTyped, RequeuedTyped
  <1>2. Benign(d.jobs[j], r) /\ r.status \notin Active
    BY RowTyped DEF Benign, Requeued, Active, ProcessingJob
  <1> QED
    BY <1>1, <1>2, WithRowFacts DEF Applied

\* Statements on other tables only.
LEMMA UntouchedApplied ==
    ASSUME NEW d, NEW e, NEW j, NEW t, SameRows(d, e)
    PROVE  Applied(d, e, j, t)
  BY DEF Applied, SameRows

\* Each prefix of a success receipt's statements, cut anywhere.
LEMMA SuccessApplied ==
    ASSUME NEW d \in Tables, NEW j \in Job, NEW t \in Token,
           NEW e \in Torn(d, SuccessSteps(d, j, t))
    PROVE  Applied(d, e, j, t)
  <1> DEFINE a == insert_job_artifacts(d, j)
             c == complete_job_if_token_matches(a, j, t)
             m == record_materializations_for_job(c, j)
             h == record_parser_success(m, d.jobs[j].plugin)
             u == update_pipeline_run_status_for_job(h, j)
  <1>0. SameRows(d, d)
    BY DEF SameRows
  <1>1. SameRows(d, a)
    BY JobStatements
  <1>2. CASE TokenMatches(d, j, t, "RUNNING")
    <2>1. c = SetStatus(a, j, "COMPLETED")
      BY <1>1, <1>2 DEF complete_job_if_token_matches, TokenMatches, SameRows
    <2>2. Applied(d, c, j, t)
      BY <1>1, <1>2, <2>1, SetStatusApplied DEF TokenMatches, Terminal, Active, SameRows
    <2>3. c \in Tables
      BY <2>2, AppliedTyped
    <2> HIDE DEF c
    <2>4. SameRows(c, m)
      BY <2>3, JobStatements
    <2> HIDE DEF m
    <2>5. SameRows(m, h)
      BY <2>4, HealthStatements, RowTyped DEF SameRows
    <2> HIDE DEF h
    <2>6. SameRows(h, u)
      BY <2>5, RunStatement DEF SameRows
    <2> HIDE DEF u
    <2>7. e \in {d, a, c, m, h, u}
      BY <1>2 DEF SuccessSteps, Torn, c, m, h, u
    <2> HIDE DEF a
    <2> QED
      BY <1>0, <1>1, <2>2, <2>4, <2>5, <2>6, <2>7, AppliedFrame, UntouchedApplied, Zenon
  <1>3. CASE ~TokenMatches(d, j, t, "RUNNING")
    <2>1. e \in {d, a}
      BY <1>3 DEF SuccessSteps, Torn
    <2> QED
      BY <1>0, <1>1, <2>1, UntouchedApplied, Zenon
  <1> QED
    BY <1>2, <1>3

\* Each prefix of a failure receipt's: retry or dead letter.
LEMMA FailureApplied ==
    ASSUME NEW d \in Tables, NEW j \in Job, NEW t \in Token,
           NEW transient \in BOOLEAN,
           NEW e \in Torn(d, FailureSteps(d, j, t, transient))
    PROVE  Applied(d, e, j, t)
  <1> DEFINE p == d.jobs[j].plugin
             n == record_parser_failure(d, p)
             b == check_circuit_breaker_db(n, p)
             f == fail_job_if_token_matches(b, j, t)
             r == schedule_retry(f, j, d.jobs[j].retry + 1)
             i == insert_dead_letter(f, j)
             q == move_to_dead_letter(f, j)
             u == update_pipeline_run_status_for_job(r, j)
             v == update_pipeline_run_status_for_job(q, j)
  <1>0. p \in Parser /\ SameRows(d, d)
    BY RowTyped DEF SameRows
  <1>1. SameRows(d, n)
    BY <1>0, HealthStatements
  <1> HIDE DEF n
  <1>2. SameRows(d, b)
    BY <1>0, <1>1, HealthStatements DEF SameRows
  <1> HIDE DEF b
  <1>3. CASE ~TokenMatches(d, j, t, "RUNNING")
    <2>1. e \in {d, n, b}
      BY <1>3 DEF FailureSteps, Torn, n, b
    <2> QED
      BY <1>0, <1>1, <1>2, <2>1, UntouchedApplied, Zenon
  <1>4. CASE TokenMatches(d, j, t, "RUNNING")
    <2>0. d.jobs[j].status \in Active /\ d.jobs[j].token = t
      BY <1>4 DEF TokenMatches, Active
    <2>1. f = SetStatus(b, j, "FAILED")
      BY <1>2, <1>4 DEF fail_job_if_token_matches, TokenMatches, SameRows
    <2> HIDE DEF f
    <2>2. Applied(d, f, j, t)
      <3>1. "FAILED" \in Terminal
        BY DEF Terminal
      <3> QED
        BY <1>2, <2>0, <2>1, <3>1, SetStatusApplied DEF SameRows
    <2>3. f \in Tables
      BY <2>2, AppliedTyped
    <2>4. f.jobs = [d.jobs EXCEPT ![j] = [d.jobs[j] EXCEPT !.status = "FAILED"]]
      <3>1. "FAILED" \in ProcessingStatus
        BY DEF ProcessingStatus
      <3> QED
        BY <1>2, <2>1, <3>1, SetStatusFacts DEF SameRows
    <2>5. CASE RetriesLeft(d, j, transient)
      <3> DEFINE row == [Requeued(f.jobs[j], FALSE) EXCEPT !.retry = d.jobs[j].retry + 1]
      <3>1. row \in ProcessingJob
        <4>1. Requeued(f.jobs[j], FALSE) \in ProcessingJob
          BY <2>3, RowTyped, RequeuedTyped
        <4>2. d.jobs[j].retry + 1 \in Nat
          BY RowTyped
        <4> QED
          BY <4>1, <4>2 DEF ProcessingJob
      <3>2. row.token = NoToken /\ row.owner = NoWorker /\ row.status = "QUEUED"
        BY <2>3, RowTyped DEF Requeued, ProcessingJob
      <3>3. r = WithRow(f, j, row)
        BY DEF schedule_retry
      <3> HIDE DEF row, r
      <3>4. r \in Tables /\ r.jobs = [f.jobs EXCEPT ![j] = row]
        BY <2>3, <3>1, <3>3, WithRowFacts
      <3>5. r.jobs = [d.jobs EXCEPT ![j] = row]
        BY <2>4, <3>4, RowTyped
      <3>6. Applied(d, r, j, t)
        BY <2>0, <3>1, <3>2, <3>4, <3>5 DEF Applied, Benign, Active
      <3>7. SameRows(r, u)
        BY <3>4, RunStatement
      <3> HIDE DEF u
      <3>8. e \in {d, n, b, f, r, u}
        BY <1>4, <2>5 DEF FailureSteps, Torn, n, b, f, r, u
      <3> QED
        BY <1>0, <1>1, <1>2, <2>2, <3>6, <3>7, <3>8, AppliedFrame, UntouchedApplied, Zenon
    <2>6. CASE ~RetriesLeft(d, j, transient)
      <3>1. SameRows(f, i)
        BY <2>3, JobStatements
      <3>2. q = SetStatus(i, j, "FAILED")
        BY DEF move_to_dead_letter
      <3> HIDE DEF i, q
      <3>3. SameRows(f, q)
        <4>1. i.jobs[j].status = "FAILED" /\ i.jobs[j] \in ProcessingJob
          BY <2>4, <3>1, RowTyped DEF ProcessingJob, SameRows
        <4>2. [i.jobs[j] EXCEPT !.status = "FAILED"] = i.jobs[j]
          BY <4>1 DEF ProcessingJob
        <4>3. [i.jobs EXCEPT ![j] = i.jobs[j]] = i.jobs
          BY <3>1, RowTyped DEF SameRows
        <4>4. "FAILED" \in ProcessingStatus
          BY DEF ProcessingStatus
        <4> QED
          BY <3>1, <3>2, <4>2, <4>3, <4>4, SetStatusFacts DEF SameRows
      <3>4. SameRows(q, v)
        BY <3>3, RunStatement DEF SameRows
      <3> HIDE DEF v
      <3>5. e \in {d, n, b, f, i, q, v}
        BY <1>4, <2>6 DEF FailureSteps, Torn, n, b, f, i, q, v
      <3> QED
        BY <1>0, <1>1, <1>2, <2>2, <3>1, <3>3, <3>4, <3>5, AppliedFrame,
           UntouchedApplied, Zenon
    <2> QED
      BY <2>5, <2>6
  <1> QED
    BY <1>3, <1>4

\* Each prefix of a capacity rejection's statements.
LEMMA RejectedApplied ==
    ASSUME NEW d \in Tables, NEW j \in Job, NEW t \in Token,
           NEW e \in Torn(d, RejectedSteps(d, j, t))
    PROVE  Applied(d, e, j, t)
  <1> DEFINE c == defer_job_if_token_matches(d, j, t, TRUE)
             u == update_pipeline_run_status_for_job(c, j)
  <1>0. SameRows(d, d)
    BY DEF SameRows
  <1>1. CASE TokenMatches(d, j, t, "DISPATCHING")
    <2>1. Applied(d, c, j, t)
      BY <1>1, RequeuedApplied
      DEF defer_job_if_token_matches, TokenMatches, Active
    <2>2. c \in Tables
      BY <2>1, AppliedTyped
    <2>3. RejectedSteps(d, j, t) = << c, u >>
      BY <1>1 DEF RejectedSteps
    <2> HIDE DEF c
    <2>4. SameRows(c, u)
      BY <2>2, RunStatement
    <2> HIDE DEF u
    <2>5. e \in {d, c, u}
      BY <2>3 DEF Torn
    <2> QED
      BY <1>0, <2>1, <2>4, <2>5, AppliedFrame, UntouchedApplied, Zenon
  <1>2. CASE ~TokenMatches(d, j, t, "DISPATCHING")
    <2>1. RejectedSteps(d, j, t) = << d >>
      BY <1>2 DEF RejectedSteps, defer_job_if_token_matches
    <2>2. e = d
      BY <2>1 DEF Torn
    <2> QED
      BY <1>0, <2>2, UntouchedApplied
  <1> QED
    BY <1>1, <1>2

\* Each prefix of an abort receipt's statements.
LEMMA AbortedApplied ==
    ASSUME NEW d \in Tables, NEW j \in Job, NEW t \in Token,
           NEW e \in Torn(d, AbortedSteps(d, j, t))
    PROVE  Applied(d, e, j, t)
  <1> DEFINE c == abort_job_if_token_matches(d, j, t)
             u == update_pipeline_run_status_for_job(c, j)
  <1>0. SameRows(d, d)
    BY DEF SameRows
  <1>1. CASE TokenMatches(d, j, t, "RUNNING")
    <2>0. "ABORTED" \in Terminal
      BY DEF Terminal
    <2>1. Applied(d, c, j, t)
      BY <1>1, <2>0, SetStatusApplied
      DEF abort_job_if_token_matches, TokenMatches, Active
    <2>2. c \in Tables
      BY <2>1, AppliedTyped
    <2>3. AbortedSteps(d, j, t) = << c, u >>
      BY <1>1 DEF AbortedSteps
    <2> HIDE DEF c
    <2>4. SameRows(c, u)
      BY <2>2, RunStatement
    <2> HIDE DEF u
    <2>5. e \in {d, c, u}
      BY <2>3 DEF Torn
    <2> QED
      BY <1>0, <2>1, <2>4, <2>5, AppliedFrame, UntouchedApplied, Zenon
  <1>2. CASE ~TokenMatches(d, j, t, "RUNNING")
    <2>1. AbortedSteps(d, j, t) = << d >>
      BY <1>2 DEF AbortedSteps, abort_job_if_token_matches
    <2>2. e = d
      BY <2>1 DEF Torn
    <2> QED
      BY <1>0, <2>2, UntouchedApplied
  <1> QED
    BY <1>1, <1>2

\* process_conclude_db, whatever the receipt and wherever it is cut.
LEMMA ConcludeApplied ==
    ASSUME NEW d \in Tables, NEW j \in Job, NEW t \in Token,
           NEW status \in ReceiptStatus,
           NEW e \in Torn(d, process_conclude_db(d, j, t, status))
    PROVE  Applied(d, e, j, t)
  BY SuccessApplied, FailureApplied, RejectedApplied, AbortedApplied
  DEF process_conclude_db, ReceiptStatus

-------------------------------------------------------------------------------
(* Steps that cannot start a lease preserve the lease invariant. *)

\* A step whose rows keep or lose their lease preserves LeaseInv.
LEMMA BenignStep ==
    ASSUME QueueTypeOK, QueueTypeOK', LeaseInv, UNCHANGED << issued, settled >>,
           \A j \in Job : Benign(db.jobs[j], db'.jobs[j])
    PROVE  LeaseInv'
  <1> USE DEF LeaseInv
  <1>1. AtMostOneOutcome' /\ TokensUnique' /\ SettledWasIssued'
    BY DEF AtMostOneOutcome, TokensUnique, SettledWasIssued, Unused
  <1>2. RunningIsOwned' /\ RowTokenIssued'
    BY DEF RunningIsOwned, RowTokenIssued, Benign, Terminal
  <1>3. QueuedIsUnleased'
    BY DEF QueuedIsUnleased, Benign, Terminal
  <1>4. SettledIsInactive'
    BY StoreAssumption DEF SettledIsInactive, Benign, Terminal, Active
  <1> QED
    BY <1>1, <1>2, <1>3, <1>4

\* A step that applies an outcome of one lease preserves LeaseInv.
LEMMA SettlingStep ==
    ASSUME QueueTypeOK, QueueTypeOK', LeaseInv, UNCHANGED issued,
           NEW l \in issued, Applied(db, db', l.job, l.token),
           SettleRow(l.job, l.token)
    PROVE  LeaseInv'
  <1> DEFINE j == l.job
             t == l.token
  <1>0. j \in Job /\ t \in Token
    BY DEF QueueTypeOK, Lease
  <1>1. CASE db'.jobs = db.jobs
    <2>1. settled' = settled
      BY <1>1 DEF SettleRow
    <2>2. \A k \in Job : Benign(db.jobs[k], db'.jobs[k])
      BY <1>1 DEF Benign
    <2> QED
      BY <2>1, <2>2, BenignStep
  <1>2. CASE db'.jobs # db.jobs
    <2>1. /\ db.jobs[j].status \in Active
          /\ db.jobs[j].token = t
      BY <1>2 DEF Applied
    <2>2. PICK r \in ProcessingJob : /\ db'.jobs = [db.jobs EXCEPT ![j] = r]
                                     /\ Benign(db.jobs[j], r)
                                     /\ r.status \notin Active
      BY <1>2 DEF Applied
    <2>3. /\ db'.jobs[j] = r
          /\ \A k \in Job : k # j => db'.jobs[k] = db.jobs[k]
      BY <1>0, <2>2 DEF QueueTypeOK, Tables
    <2>4. settled' = [settled EXCEPT ![t] = @ + 1]
      BY <1>0, <2>1, <2>2, <2>3 DEF SettleRow
    <2>5. \A k \in Job : Benign(db.jobs[k], db'.jobs[k])
      BY <2>2, <2>3 DEF Benign
    <2>6. settled[t] = 0
      BY <1>0, <2>1 DEF LeaseInv, SettledIsInactive
    <2>7. \A u \in Token : settled'[u] = IF u = t THEN 1 ELSE settled[u]
      BY <1>0, <2>4, <2>6 DEF QueueTypeOK
    <2>8. AtMostOneOutcome' /\ TokensUnique' /\ SettledWasIssued'
      BY <2>7 DEF LeaseInv, AtMostOneOutcome, TokensUnique, SettledWasIssued, Unused
    <2>9. RunningIsOwned' /\ RowTokenIssued'
      BY <2>5 DEF LeaseInv, RunningIsOwned, RowTokenIssued, Benign, Terminal
    <2>10. QueuedIsUnleased'
      BY <2>5 DEF LeaseInv, QueuedIsUnleased, Benign, Terminal
    <2>11. SettledIsInactive'
      <3> SUFFICES ASSUME NEW k \in Job, db'.jobs[k].status \in Active,
                          db'.jobs[k].token \in Token
                   PROVE  settled'[db'.jobs[k].token] = 0
        BY DEF SettledIsInactive
      <3>1. k # j
        BY <2>2, <2>3
      <3>2. db'.jobs[k] = db.jobs[k]
        BY <2>3, <3>1
      <3>3. settled[db.jobs[k].token] = 0
        BY <3>2 DEF LeaseInv, SettledIsInactive
      <3>4. db.jobs[k].token # t
        <4>1. db.jobs[k].token # NoToken
          BY <3>2, StoreAssumption
        <4>2. PICK m \in issued : m.token = db.jobs[k].token /\ m.job = k
          BY <4>1 DEF LeaseInv, RowTokenIssued
        <4> QED
          BY <3>1, <4>2 DEF LeaseInv, TokensUnique
      <3> QED
        BY <2>7, <3>2, <3>3, <3>4
    <2> QED
      BY <2>8, <2>9, <2>10, <2>11 DEF LeaseInv
  <1> QED
    BY <1>1, <1>2

-------------------------------------------------------------------------------
(* prepare_dispatch_plan: the one task that starts a lease. *)

\* The row of a job that has just been leased.
LeasedRow(row, t, w) ==
    [row EXCEPT !.status = "DISPATCHING", !.token = t, !.owner = w]

\* lease_jobs_for_dispatch leaves a row nobody holds a lease on.
LEMMA LeaseCutFacts ==
    ASSUME NEW d \in Tables, NEW j \in Job
    PROVE  LET r == LeasedRow(d.jobs[j], NoToken, NoWorker)
           IN  /\ r \in ProcessingJob
               /\ lease_jobs_for_dispatch(d, j) \in Tables
               /\ lease_jobs_for_dispatch(d, j).jobs = [d.jobs EXCEPT ![j] = r]
  <1> DEFINE r == LeasedRow(d.jobs[j], NoToken, NoWorker)
  <1>1. r \in ProcessingJob
    BY ZenonT(60), RowTyped DEF LeasedRow, ProcessingJob, ProcessingStatus
  <1>2. lease_jobs_for_dispatch(d, j) = WithRow(d, j, r)
    BY DEF lease_jobs_for_dispatch, LeasedRow
  <1> QED
    BY <1>1, <1>2, WithRowFacts

\* A lease handed out is exactly the row's new token and owner.
LEMMA LeasedFacts ==
    ASSUME NEW d \in Tables, NEW j \in Job, NEW t \in Token, NEW w \in Worker
    PROVE  LET r == LeasedRow(d.jobs[j], t, w)
           IN  /\ r \in ProcessingJob
               /\ Leased(d, j, t, w) \in Tables
               /\ Leased(d, j, t, w).jobs = [d.jobs EXCEPT ![j] = r]
               /\ Leased(d, j, t, w).jobs[j] = r
  <1> DEFINE r == LeasedRow(d.jobs[j], t, w)
             c == lease_jobs_for_dispatch(d, j)
  <1>1. r \in ProcessingJob
    BY ZenonT(60), RowTyped DEF LeasedRow, ProcessingJob, ProcessingStatus
  <1>2. /\ c \in Tables
        /\ c.jobs = [d.jobs EXCEPT ![j] = LeasedRow(d.jobs[j], NoToken, NoWorker)]
    BY LeaseCutFacts
  <1>3. c.jobs[j] = LeasedRow(d.jobs[j], NoToken, NoWorker)
    BY <1>2, RowTyped
  <1>4. /\ c.jobs[j].status = "DISPATCHING"
        /\ [c.jobs[j] EXCEPT !.token = t, !.owner = w] = r
    BY <1>3, RowTyped DEF LeasedRow, ProcessingJob
  <1>5. Leased(d, j, t, w) = WithRow(c, j, r)
    BY <1>4 DEF Leased, set_dispatch_lease
  <1> HIDE DEF c, r
  <1>6. Leased(d, j, t, w) \in Tables /\ Leased(d, j, t, w).jobs = [c.jobs EXCEPT ![j] = r]
    BY <1>1, <1>2, <1>5, WithRowFacts
  <1>7. [c.jobs EXCEPT ![j] = r] = [d.jobs EXCEPT ![j] = r]
    BY <1>2, RowTyped
  <1>8. [d.jobs EXCEPT ![j] = r][j] = r
    BY RowTyped
  <1> QED
    BY <1>1, <1>6, <1>7, <1>8 DEF r

\* The two preparations that give the lease back in the same task: with the
\* lease of t in place, the outcome is applied to it.
LEMMA FailDispatchApplied ==
    ASSUME NEW d \in Tables, NEW j \in Job, NEW t \in Token, NEW w \in Worker,
           NEW k \in 3 .. 4
    PROVE  LET e == FailDispatchSteps(d, j, t, w)[k]
               c == Leased(d, j, t, w)
           IN  Applied(c, e, j, t) /\ e.jobs[j].status = "FAILED" /\ e.jobs # c.jobs
  <1> DEFINE c == Leased(d, j, t, w)
             f == fail_job_if_token_matches_dispatching(c, j, t)
             u == update_pipeline_run_status_for_job(f, j)
             e == FailDispatchSteps(d, j, t, w)[k]
  <1>1. c \in Tables /\ c.jobs[j] = LeasedRow(d.jobs[j], t, w)
    <2>1. c \in Tables
      BY LeasedFacts
    <2>2. c.jobs = [d.jobs EXCEPT ![j] = LeasedRow(d.jobs[j], t, w)]
      BY LeasedFacts
    <2>3. d.jobs \in [Job -> ProcessingJob]
      BY RowTyped
    <2> HIDE DEF c
    <2> QED
      BY <2>1, <2>2, <2>3
  <1>2. c.jobs[j].status = "DISPATCHING" /\ c.jobs[j].token = t
    BY <1>1, RowTyped DEF LeasedRow, ProcessingJob
  <1>3. f = SetStatus(c, j, "FAILED")
    BY <1>2 DEF fail_job_if_token_matches_dispatching, TokenMatches
  <1>4. e \in {f, u}
    <2>1. FailDispatchSteps(d, j, t, w) = << lease_jobs_for_dispatch(d, j), c, f, u >>
      BY DEF FailDispatchSteps
    <2> HIDE DEF c, f, u
    <2> QED
      BY <2>1
  <1> HIDE DEF c, f
  <1>5. Applied(c, f, j, t)
    BY <1>1, <1>2, <1>3, SetStatusApplied DEF Active, Terminal
  <1>6. f \in Tables
    BY <1>5, AppliedTyped
  <1>7. f.jobs[j].status = "FAILED"
    <2>1. "FAILED" \in ProcessingStatus
      BY DEF ProcessingStatus
    <2>2. f.jobs = [c.jobs EXCEPT ![j] = [c.jobs[j] EXCEPT !.status = "FAILED"]]
      BY <1>1, <1>3, <2>1, SetStatusFacts
    <2> QED
      BY <1>1, <2>2, RowTyped DEF ProcessingJob
  <1>8. SameRows(f, u)
    BY <1>6, RunStatement
  <1> HIDE DEF u, e
  <1>9. Applied(c, e, j, t)
    BY <1>4, <1>5, <1>8, AppliedFrame, Zenon
  <1>10. e.jobs[j].status = "FAILED"
    BY <1>4, <1>7, <1>8 DEF SameRows
  <1> QED
    BY <1>2, <1>9, <1>10 DEF e, c

\* The same for a deferred preparation.
LEMMA DeferDispatchApplied ==
    ASSUME NEW d \in Tables, NEW j \in Job, NEW t \in Token, NEW w \in Worker,
           NEW k \in 3 .. 4
    PROVE  LET e == DeferDispatchSteps(d, j, t, w)[k]
               c == Leased(d, j, t, w)
           IN  Applied(c, e, j, t) /\ e.jobs[j].status = "QUEUED" /\ e.jobs # c.jobs
  <1> DEFINE c == Leased(d, j, t, w)
             f == defer_job_if_token_matches(c, j, t, FALSE)
             u == update_pipeline_run_status_for_job(f, j)
             e == DeferDispatchSteps(d, j, t, w)[k]
  <1>1. c \in Tables /\ c.jobs[j] = LeasedRow(d.jobs[j], t, w)
    <2>1. c \in Tables
      BY LeasedFacts
    <2>2. c.jobs = [d.jobs EXCEPT ![j] = LeasedRow(d.jobs[j], t, w)]
      BY LeasedFacts
    <2>3. d.jobs \in [Job -> ProcessingJob]
      BY RowTyped
    <2> HIDE DEF c
    <2> QED
      BY <2>1, <2>2, <2>3
  <1>2. c.jobs[j].status = "DISPATCHING" /\ c.jobs[j].token = t
    BY <1>1, RowTyped DEF LeasedRow, ProcessingJob
  <1>3. f = WithRow(c, j, Requeued(c.jobs[j], FALSE))
    BY <1>2 DEF defer_job_if_token_matches, TokenMatches
  <1>4. e \in {f, u}
    <2>1. DeferDispatchSteps(d, j, t, w) = << lease_jobs_for_dispatch(d, j), c, f, u >>
      BY DEF DeferDispatchSteps
    <2> HIDE DEF c, f, u
    <2> QED
      BY <2>1
  <1> HIDE DEF c, f
  <1>5. Applied(c, f, j, t)
    BY <1>1, <1>2, <1>3, RequeuedApplied DEF Active
  <1>6. f \in Tables
    BY <1>5, AppliedTyped
  <1>7. f.jobs[j].status = "QUEUED"
    <2>1. Requeued(c.jobs[j], FALSE) \in ProcessingJob
      BY <1>1, RowTyped, RequeuedTyped
    <2>2. f.jobs = [c.jobs EXCEPT ![j] = Requeued(c.jobs[j], FALSE)]
      BY <1>1, <1>3, <2>1, WithRowFacts
    <2> QED
      BY <1>1, <2>2, RowTyped DEF ProcessingJob, Requeued
  <1>8. SameRows(f, u)
    BY <1>6, RunStatement
  <1> HIDE DEF u, e
  <1>9. Applied(c, e, j, t)
    BY <1>4, <1>5, <1>8, AppliedFrame, Zenon
  <1>10. e.jobs[j].status = "QUEUED"
    BY <1>4, <1>7, <1>8 DEF SameRows
  <1> QED
    BY <1>2, <1>9, <1>10 DEF e, c

\* The state in between, with t leased for j, satisfies the invariant; a
\* preparation that fails or defers then applies its outcome to t.
LEMMA PrepareStep ==
    ASSUME QueueTypeOK, LeaseInv, NEW j \in Job, NEW t \in Token, NEW w \in Worker,
           PrepareDispatch(j, t, w)
    PROVE  QueueTypeOK' /\ LeaseInv'
  <1> DEFINE c == Leased(db, j, t, w)
             n == [token |-> t, job |-> j, worker |-> w]
  <1>1. db \in Tables /\ issued \subseteq Lease /\ settled \in [Token -> Nat]
    BY DEF QueueTypeOK
  <1>2. /\ c \in Tables
        /\ c.jobs = [db.jobs EXCEPT ![j] = LeasedRow(db.jobs[j], t, w)]
    <2>1. c \in Tables
      BY <1>1, LeasedFacts
    <2>2. c.jobs = [db.jobs EXCEPT ![j] = LeasedRow(db.jobs[j], t, w)]
      BY <1>1, LeasedFacts
    <2> QED
      BY <2>1, <2>2
  <1>3. /\ c.jobs[j].status = "DISPATCHING"
        /\ c.jobs[j].token = t
        /\ c.jobs[j].owner = w
        /\ \A k \in Job : k # j => c.jobs[k] = db.jobs[k]
    <2>1. db.jobs \in [Job -> ProcessingJob] /\ db.jobs[j] \in ProcessingJob
      BY <1>1, RowTyped
    <2>2. c.jobs[j] = LeasedRow(db.jobs[j], t, w)
      BY <1>2, <2>1
    <2>3. \A k \in Job : k # j => c.jobs[k] = db.jobs[k]
      BY <1>2, <2>1
    <2> QED
      BY <2>1, <2>2, <2>3 DEF LeasedRow, ProcessingJob
  <1> HIDE DEF c
  <1>4. issued' = issued \cup {n} /\ issued' \subseteq Lease
    BY <1>1 DEF PrepareDispatch, Lease
  <1>5. /\ Unused(t)
        /\ settled[t] = 0
        /\ \A k \in Job : db.jobs[k].token # t
    BY <1>1, StoreAssumption
    DEF PrepareDispatch, LeaseInv, SettledWasIssued, RowTokenIssued, Unused
  <1>6. TokensUnique'
    BY <1>4, <1>5 DEF LeaseInv, TokensUnique, Unused
  <1>7. \A k \in Job : db.jobs[k].token # NoToken =>
           \E l \in issued' : l.token = db.jobs[k].token /\ l.job = k
    BY <1>4 DEF LeaseInv, RowTokenIssued
  <1>8. \A k \in Job : db.jobs[k].status = "RUNNING" =>
           \E l \in issued' : /\ l.token = db.jobs[k].token
                              /\ l.job = k
                              /\ l.worker = db.jobs[k].owner
    BY <1>4 DEF LeaseInv, RunningIsOwned
  <1>9. n \in issued' /\ n.token = t /\ n.job = j /\ n.worker = w
    BY <1>4
  <1>10. CASE db' = Done(PlanSteps(db, j, t, w)) /\ UNCHANGED settled
    <2>1. db' = c
      BY <1>10 DEF Done, PlanSteps, c
    <2>2. QueueTypeOK'
      BY <1>1, <1>2, <1>4, <1>10, <2>1 DEF QueueTypeOK
    <2>3. AtMostOneOutcome'
      BY <1>10 DEF LeaseInv, AtMostOneOutcome
    <2>4. SettledWasIssued'
      BY <1>4, <1>10 DEF LeaseInv, SettledWasIssued, Unused
    <2>5. RunningIsOwned'
      BY <1>3, <1>8, <2>1 DEF RunningIsOwned
    <2>6. RowTokenIssued'
      BY <1>3, <1>7, <1>9, <2>1 DEF RowTokenIssued
    <2>7. QueuedIsUnleased'
      BY <1>3, <2>1 DEF LeaseInv, QueuedIsUnleased
    <2>8. SettledIsInactive'
      BY <1>3, <1>5, <1>10, <2>1 DEF LeaseInv, SettledIsInactive
    <2> QED
      BY <1>6, <2>2, <2>3, <2>4, <2>5, <2>6, <2>7, <2>8 DEF LeaseInv
  <1>11. CASE /\ Applied(c, db', j, t) /\ db'.jobs # c.jobs
              /\ settled' = [settled EXCEPT ![t] = @ + 1]
    <2>1. PICK r \in ProcessingJob : /\ db'.jobs = [c.jobs EXCEPT ![j] = r]
                                     /\ Benign(c.jobs[j], r)
                                     /\ r.status \notin Active
      BY <1>11 DEF Applied
    <2>2. /\ db'.jobs[j] = r
          /\ \A k \in Job : k # j => db'.jobs[k] = db.jobs[k]
      <3>1. c.jobs \in [Job -> ProcessingJob]
        BY <1>2, RowTyped
      <3> QED
        BY <1>3, <2>1, <3>1
    <2>3. \A u \in Token : settled'[u] = IF u = t THEN 1 ELSE settled[u]
      BY <1>1, <1>5, <1>11
    <2>4. QueueTypeOK'
      <3>1. settled' \in [Token -> Nat]
        BY <1>1, <1>11
      <3>2. db' \in Tables
        BY <1>11, AppliedTyped
      <3> QED
        BY <1>4, <3>1, <3>2 DEF QueueTypeOK
    <2>5. AtMostOneOutcome'
      BY <2>3 DEF LeaseInv, AtMostOneOutcome
    <2>6. SettledWasIssued'
      BY <1>4, <1>9, <2>3 DEF LeaseInv, SettledWasIssued, Unused
    <2>7. r.status # "RUNNING" /\ (r.token # NoToken => r.token = t)
      BY <1>3, <2>1 DEF Active, Benign
    <2>8. RunningIsOwned'
      BY <1>8, <2>2, <2>7 DEF RunningIsOwned
    <2>9. RowTokenIssued'
      BY <1>7, <1>9, <2>2, <2>7 DEF RowTokenIssued
    <2>10. QueuedIsUnleased'
      <3>1. r.status \in {"ABSENT", "QUEUED"} => r.token = NoToken /\ r.owner = NoWorker
        BY <1>3, <2>1 DEF Benign, Terminal
      <3> QED
        BY <2>2, <3>1 DEF LeaseInv, QueuedIsUnleased
    <2>11. SettledIsInactive'
      BY <1>5, <2>1, <2>2, <2>3 DEF LeaseInv, SettledIsInactive
    <2> QED
      BY <1>6, <2>4, <2>5, <2>6, <2>8, <2>9, <2>10, <2>11 DEF LeaseInv
  <1>12. CASE /\ db' \in {FailDispatchSteps(db, j, t, w)[k] : k \in 3 .. 4}
              /\ settled' = [settled EXCEPT ![t] = @ + 1]
    BY <1>1, <1>11, <1>12, FailDispatchApplied DEF c
  <1>13. CASE /\ db' \in {DeferDispatchSteps(db, j, t, w)[k] : k \in 3 .. 4}
              /\ settled' = [settled EXCEPT ![t] = @ + 1]
    BY <1>1, <1>11, <1>13, DeferDispatchApplied DEF c
  <1> QED
    BY <1>10, <1>12, <1>13 DEF PrepareDispatch

\* A DISPATCH_ACK, stale or not, preserves LeaseInv.
LEMMA AckStep ==
    ASSUME QueueTypeOK, LeaseInv, NEW l \in issued, AckDispatch(l)
    PROVE  QueueTypeOK' /\ LeaseInv'
  <1> DEFINE r == [db.jobs[l.job] EXCEPT !.status = "RUNNING", !.owner = l.worker]
  <1>1. /\ db \in Tables /\ issued \subseteq Lease /\ settled \in [Token -> Nat]
        /\ l.job \in Job /\ l.token \in Token /\ l.worker \in Worker
    BY DEF QueueTypeOK, Lease
  <1>2. CASE ~TokenMatches(db, l.job, l.token, "DISPATCHING")
    <2>1. db' = db
      BY <1>2 DEF AckDispatch, ack_dispatch
    <2>2. QueueTypeOK' /\ \A k \in Job : Benign(db.jobs[k], db'.jobs[k])
      BY <2>1 DEF AckDispatch, QueueTypeOK, Benign
    <2> QED
      BY <2>2, BenignStep DEF AckDispatch
  <1>3. CASE TokenMatches(db, l.job, l.token, "DISPATCHING")
    <2>1. /\ db.jobs \in [Job -> ProcessingJob]
          /\ r \in ProcessingJob
          /\ r.status = "RUNNING" /\ r.token = l.token /\ r.owner = l.worker
      <3>1. db.jobs \in [Job -> ProcessingJob] /\ db.jobs[l.job] \in ProcessingJob
        BY <1>1, RowTyped
      <3>2. db.jobs[l.job].token = l.token
        BY <1>3 DEF TokenMatches
      <3> QED
        BY <1>1, <3>1, <3>2 DEF ProcessingJob, ProcessingStatus
    <2>2. db' = WithRow(db, l.job, r)
      BY <1>3 DEF AckDispatch, ack_dispatch
    <2> HIDE DEF r
    <2>3. db' \in Tables /\ db'.jobs = [db.jobs EXCEPT ![l.job] = r]
      BY <1>1, <2>1, <2>2, WithRowFacts
    <2>4. /\ db'.jobs[l.job] = r
          /\ \A k \in Job : k # l.job => db'.jobs[k] = db.jobs[k]
      BY <1>1, <2>1, <2>3
    <2>5. issued' = issued /\ settled' = settled /\ QueueTypeOK'
      BY <1>1, <2>3 DEF AckDispatch, QueueTypeOK
    <2>6. AtMostOneOutcome' /\ TokensUnique' /\ SettledWasIssued'
      BY <2>5 DEF LeaseInv, AtMostOneOutcome, TokensUnique, SettledWasIssued, Unused
    <2>7. RunningIsOwned'
      BY <2>1, <2>4, <2>5 DEF LeaseInv, RunningIsOwned
    <2>8. RowTokenIssued'
      BY <2>1, <2>4, <2>5 DEF LeaseInv, RowTokenIssued
    <2>9. QueuedIsUnleased'
      BY <2>1, <2>4 DEF LeaseInv, QueuedIsUnleased
    <2>10. SettledIsInactive'
      <3>1. settled[l.token] = 0
        BY <1>1, <1>3 DEF LeaseInv, SettledIsInactive, TokenMatches, Active
      <3> QED
        BY <2>1, <2>4, <2>5, <3>1 DEF LeaseInv, SettledIsInactive, Active
    <2> QED
      BY <2>5, <2>6, <2>7, <2>8, <2>9, <2>10 DEF LeaseInv
  <1> QED
    BY <1>2, <1>3

\* A statement that changes one row benignly, other tables at will.
LEMMA OneRowStep ==
    ASSUME QueueTypeOK, LeaseInv, UNCHANGED << issued, settled >>, db' \in Tables,
           NEW j \in Job, NEW r, Benign(db.jobs[j], r),
           db'.jobs = [db.jobs EXCEPT ![j] = r]
    PROVE  QueueTypeOK' /\ LeaseInv'
  <1>1. QueueTypeOK'
    BY DEF QueueTypeOK
  <1>2. db.jobs \in [Job -> ProcessingJob]
    BY DEF QueueTypeOK, Tables
  <1>3. \A k \in Job : Benign(db.jobs[k], db'.jobs[k])
    BY <1>2 DEF Benign
  <1> QED
    BY <1>1, <1>3, BenignStep

\* A statement that changes no row of the queue.
LEMMA NoRowStep ==
    ASSUME QueueTypeOK, LeaseInv, UNCHANGED << issued, settled >>, SameRows(db, db')
    PROVE  QueueTypeOK' /\ LeaseInv'
  <1>1. QueueTypeOK'
    BY DEF QueueTypeOK, SameRows
  <1>2. \A k \in Job : Benign(db.jobs[k], db'.jobs[k])
    BY DEF Benign, SameRows
  <1> QED
    BY <1>1, <1>2, BenignStep

\* Statements that requeue a set of rows.
LEMMA DeferAllFacts ==
    ASSUME NEW d \in Tables, NEW S, NEW b \in [Job -> BOOLEAN]
    PROVE  LET f == [j \in Job |-> IF j \in S THEN Requeued(d.jobs[j], b[j])
                                   ELSE d.jobs[j]]
           IN  /\ [d EXCEPT !.jobs = f] \in Tables
               /\ [d EXCEPT !.jobs = f].jobs = f
               /\ \A j \in Job : Benign(d.jobs[j], f[j])
  <1> DEFINE f == [j \in Job |-> IF j \in S THEN Requeued(d.jobs[j], b[j])
                                 ELSE d.jobs[j]]
  <1>1. \A j \in Job : /\ Requeued(d.jobs[j], b[j]) \in ProcessingJob
                       /\ Benign(d.jobs[j], Requeued(d.jobs[j], b[j]))
    <2> SUFFICES ASSUME NEW j \in Job
                 PROVE  /\ Requeued(d.jobs[j], b[j]) \in ProcessingJob
                        /\ Benign(d.jobs[j], Requeued(d.jobs[j], b[j]))
      OBVIOUS
    <2>1. d.jobs[j] \in ProcessingJob /\ b[j] \in BOOLEAN
      BY RowTyped
    <2>2. Requeued(d.jobs[j], b[j]) \in ProcessingJob
      BY <2>1, RequeuedTyped
    <2>3. LET r == Requeued(d.jobs[j], b[j])
          IN  r.token = NoToken /\ r.owner = NoWorker /\ r.status = "QUEUED"
      BY <2>1 DEF Requeued, ProcessingJob
    <2> QED
      BY <2>2, <2>3 DEF Benign
  <1>2. f \in [Job -> ProcessingJob]
    BY <1>1, RowTyped
  <1>3. \A j \in Job : Benign(d.jobs[j], f[j])
    BY <1>1 DEF Benign
  <1> HIDE DEF f
  <1>4. [d EXCEPT !.jobs = f] \in Tables /\ [d EXCEPT !.jobs = f].jobs = f
    BY <1>2 DEF Tables
  <1> QED
    BY <1>3, <1>4 DEF f

\* Sweeps and reconciliations preserve LeaseInv.
LEMMA RequeueSetStep ==
    ASSUME QueueTypeOK, LeaseInv, UNCHANGED << issued, settled >>,
           NEW S, NEW b \in [Job -> BOOLEAN],
           db' = [db EXCEPT !.jobs = [j \in Job |->
                     IF j \in S THEN Requeued(db.jobs[j], b[j]) ELSE db.jobs[j]]]
    PROVE  QueueTypeOK' /\ LeaseInv'
  <1>1. db \in Tables
    BY DEF QueueTypeOK
  <1>2. db' \in Tables /\ \A j \in Job : Benign(db.jobs[j], db'.jobs[j])
    BY <1>1, DeferAllFacts
  <1>3. QueueTypeOK'
    BY <1>2 DEF QueueTypeOK
  <1> QED
    BY <1>2, <1>3, BenignStep

-------------------------------------------------------------------------------
\* The empty tables satisfy the invariant.
LEMMA InitInv == QueueInit => QueueTypeOK /\ LeaseInv
  <1> SUFFICES ASSUME QueueInit PROVE QueueTypeOK /\ LeaseInv
    OBVIOUS
  <1>1. NoRow \in ProcessingJob
    <2>1. (CHOOSE p \in Parser : TRUE) \in Parser
      BY StoreAssumption
    <2> QED
      BY <2>1 DEF NoRow, ProcessingJob, ProcessingStatus
  <1>2. \A j \in Job : db.jobs[j] = NoRow
    BY DEF QueueInit, EmptyTables
  <1>3. NoRow.status = "ABSENT" /\ NoRow.token = NoToken /\ NoRow.owner = NoWorker
    BY DEF NoRow
  <1>4. db \in Tables
    BY <1>1 DEF QueueInit, EmptyTables, Tables, PipelineRunStatus
  <1>5. QueueTypeOK
    BY <1>4 DEF QueueInit, QueueTypeOK
  <1>6. AtMostOneOutcome /\ TokensUnique /\ SettledWasIssued
    BY DEF QueueInit, AtMostOneOutcome, TokensUnique, SettledWasIssued
  <1>7. RunningIsOwned /\ RowTokenIssued /\ QueuedIsUnleased /\ SettledIsInactive
    BY <1>2, <1>3 DEF RunningIsOwned, RowTokenIssued, QueuedIsUnleased,
                      SettledIsInactive, Active
  <1> QED
    BY <1>5, <1>6, <1>7 DEF LeaseInv

\* Every task of the Sentinel, and every client, preserves the invariant.
LEMMA NextInv == QueueTypeOK /\ LeaseInv /\ [QueueNext]_queue => QueueTypeOK' /\ LeaseInv'
  <1> SUFFICES ASSUME QueueTypeOK, LeaseInv, [QueueNext]_queue PROVE QueueTypeOK' /\ LeaseInv'
    OBVIOUS
  <1>0. db \in Tables /\ issued \subseteq Lease
    BY DEF QueueTypeOK
  <1>1. ASSUME NEW j \in Job, NEW p \in Parser, NEW r \in Run \cup {NoRun},
               Enqueue(j, p, r)
        PROVE  QueueTypeOK' /\ LeaseInv'
    <2> DEFINE row == [status |-> "QUEUED", token |-> NoToken, owner |-> NoWorker,
                       retry |-> 0, due |-> TRUE, plugin |-> p, run |-> r]
    <2>1. row \in ProcessingJob
      BY DEF ProcessingJob, ProcessingStatus
    <2>2. Benign(db.jobs[j], row)
      BY DEF Benign
    <2>3. db' = WithRow(db, j, row)
      BY <1>1 DEF Enqueue, enqueue_job
    <2> HIDE DEF row
    <2>4. db' \in Tables /\ db'.jobs = [db.jobs EXCEPT ![j] = row]
      BY <1>0, <2>1, <2>3, WithRowFacts
    <2>5. UNCHANGED << issued, settled >>
      BY <1>1 DEF Enqueue
    <2> QED
      BY <2>2, <2>4, <2>5, OneRowStep
  <1>2. ASSUME NEW j \in Job, CancelJob(j)
        PROVE  QueueTypeOK' /\ LeaseInv'
    <2> DEFINE row == [db.jobs[j] EXCEPT !.status = "ABORTED"]
    <2>0. UNCHANGED << issued, settled >>
      BY <1>2 DEF CancelJob
    <2>1. CASE db.jobs[j].status \in Cancellable
      <3>1. "ABORTED" \in ProcessingStatus
        BY DEF ProcessingStatus
      <3>2. db' = SetStatus(db, j, "ABORTED")
        BY <1>2, <2>1 DEF CancelJob, cancel_job
      <3>3. db' \in Tables /\ db'.jobs = [db.jobs EXCEPT ![j] = row]
        BY <1>0, <3>1, <3>2, SetStatusFacts
      <3>4. Benign(db.jobs[j], row)
        <4>1. db.jobs[j] \in ProcessingJob
          BY <1>0, RowTyped
        <4> QED
          BY <4>1 DEF Benign, Terminal, ProcessingJob
      <3> HIDE DEF row
      <3> QED
        BY <2>0, <3>3, <3>4, OneRowStep
    <2>2. CASE db.jobs[j].status \notin Cancellable
      BY <1>0, <1>2, <2>0, <2>2, NoRowStep DEF CancelJob, cancel_job, SameRows
    <2> QED
      BY <2>1, <2>2
  <1>3. ASSUME NEW p \in Parser, ResumeParser(p)
        PROVE  QueueTypeOK' /\ LeaseInv'
    BY <1>0, <1>3, HealthStatements, NoRowStep DEF ResumeParser
  <1>4. ASSUME NEW j \in Job, NEW k \in Job, ReplayDeadLetter(j, k)
        PROVE  QueueTypeOK' /\ LeaseInv'
    <2> DEFINE row == [status |-> "QUEUED", token |-> NoToken, owner |-> NoWorker,
                       retry |-> 0, due |-> TRUE, plugin |-> db.jobs[j].plugin,
                       run |-> NoRun]
               e == WithRow(db, k, row)
    <2>1. row \in ProcessingJob
      BY <1>0, RowTyped DEF ProcessingJob, ProcessingStatus
    <2>2. Benign(db.jobs[k], row)
      BY DEF Benign
    <2>3. db' \in {e, [e EXCEPT !.dead[j] = @ - 1]}
      BY <1>4 DEF ReplayDeadLetter, enqueue_job
    <2> HIDE DEF row
    <2>4. e \in Tables /\ e.jobs = [db.jobs EXCEPT ![k] = row]
      BY <1>0, <2>1, WithRowFacts
    <2>5. e.dead[j] - 1 \in Nat
      <3>1. e.dead[j] = db.dead[j]
        BY <1>0 DEF WithRow, Tables
      <3>2. db.dead[j] \in Nat /\ db.dead[j] > 0
        BY <1>0, <1>4 DEF ReplayDeadLetter, Tables
      <3> QED
        BY <3>1, <3>2
    <2> HIDE DEF e
    <2>6. SameRows(e, [e EXCEPT !.dead[j] = @ - 1])
      BY <2>4, <2>5, JobStatements
    <2>7. db' \in Tables /\ db'.jobs = [db.jobs EXCEPT ![k] = row]
      BY <2>3, <2>4, <2>6 DEF SameRows
    <2>8. UNCHANGED << issued, settled >>
      BY <1>4 DEF ReplayDeadLetter
    <2> QED
      BY <2>2, <2>7, <2>8, OneRowStep
  <1>5. ASSUME NEW j \in Job, BackoffElapses(j)
        PROVE  QueueTypeOK' /\ LeaseInv'
    <2> DEFINE row == [db.jobs[j] EXCEPT !.due = TRUE]
    <2>1. db.jobs[j] \in ProcessingJob
      BY <1>0, RowTyped
    <2>2. row \in ProcessingJob /\ Benign(db.jobs[j], row)
      BY <2>1 DEF ProcessingJob, Benign
    <2>3. db' = WithRow(db, j, row) /\ UNCHANGED << issued, settled >>
      BY <1>5 DEF BackoffElapses
    <2> HIDE DEF row
    <2>4. db' \in Tables /\ db'.jobs = [db.jobs EXCEPT ![j] = row]
      BY <1>0, <2>2, <2>3, WithRowFacts
    <2> QED
      BY <2>2, <2>3, <2>4, OneRowStep
  <1>6. ASSUME NEW j \in Job, LeaseCut(j)
        PROVE  QueueTypeOK' /\ LeaseInv'
    <2> DEFINE row == LeasedRow(db.jobs[j], NoToken, NoWorker)
    <2>1. db' \in Tables
      BY <1>0, <1>6, LeaseCutFacts DEF LeaseCut
    <2>2. db'.jobs = [db.jobs EXCEPT ![j] = row]
      BY <1>0, <1>6, LeaseCutFacts DEF LeaseCut
    <2>3. Benign(db.jobs[j], row)
      <3>1. db.jobs[j] \in ProcessingJob
        BY <1>0, RowTyped
      <3> QED
        BY <3>1 DEF LeasedRow, Benign, ProcessingJob
    <2>4. UNCHANGED << issued, settled >>
      BY <1>6 DEF LeaseCut
    <2> HIDE DEF row
    <2> QED
      BY <2>1, <2>2, <2>3, <2>4, OneRowStep
  <1>7. ASSUME NEW j \in Job, NEW t \in Token, NEW w \in Worker,
               PrepareDispatch(j, t, w)
        PROVE  QueueTypeOK' /\ LeaseInv'
    BY <1>7, PrepareStep
  <1>8. ASSUME NEW l \in issued, AckDispatch(l)
        PROVE  QueueTypeOK' /\ LeaseInv'
    BY <1>8, AckStep
  <1>9. ASSUME NEW S \in SUBSET Job, SweepExpired(S)
        PROVE  QueueTypeOK' /\ LeaseInv'
    <2> DEFINE b == [j \in Job |-> db.jobs[j].due]
               X == S \cap Dispatching(db)
    <2>1. b \in [Job -> BOOLEAN]
      BY <1>0 DEF Tables, ProcessingJob
    <2>2. db' = [db EXCEPT !.jobs = [j \in Job |->
                    IF j \in X THEN Requeued(db.jobs[j], b[j]) ELSE db.jobs[j]]]
      BY <1>9 DEF SweepExpired, requeue_expired_dispatches
    <2>3. UNCHANGED << issued, settled >>
      BY <1>9 DEF SweepExpired
    <2> HIDE DEF b, X
    <2> QED
      BY <2>1, <2>2, <2>3, RequeueSetStep
  <1>10. ASSUME NEW S \in SUBSET Job, Reconcile(S)
         PROVE  QueueTypeOK' /\ LeaseInv'
    <2> DEFINE b == [j \in Job |-> TRUE]
    <2>1. b \in [Job -> BOOLEAN]
      OBVIOUS
    <2>2. db' = [db EXCEPT !.jobs = [j \in Job |->
                    IF j \in S THEN Requeued(db.jobs[j], b[j]) ELSE db.jobs[j]]]
      BY <1>10 DEF Reconcile, DeferAll
    <2>3. UNCHANGED << issued, settled >>
      BY <1>10 DEF Reconcile
    <2> HIDE DEF b
    <2> QED
      BY <2>1, <2>2, <2>3, RequeueSetStep
  <1>11. ASSUME NEW l \in issued, NEW status \in ReceiptStatus, Conclude(l, status)
         PROVE  QueueTypeOK' /\ LeaseInv'
    <2>1. l.job \in Job /\ l.token \in Token
      BY <1>0 DEF Lease
    <2>2. Applied(db, db', l.job, l.token)
      BY <1>0, <1>11, <2>1, ConcludeApplied DEF Conclude
    <2>3. issued' = issued /\ SettleRow(l.job, l.token)
      BY <1>11 DEF Conclude
    <2>4. QueueTypeOK'
      BY <2>1, <2>2, <2>3, AppliedTyped DEF QueueTypeOK, SettleRow
    <2> QED
      BY <2>2, <2>3, <2>4, SettlingStep
  <1>12. ASSUME NEW l \in issued, FailOrphan(l)
         PROVE  QueueTypeOK' /\ LeaseInv'
    <2>1. l.job \in Job /\ l.token \in Token
      BY <1>0 DEF Lease
    <2>2. Applied(db, db', l.job, l.token)
      <3>1. CASE TokenMatches(db, l.job, l.token, "RUNNING")
        <4>1. db' = SetStatus(db, l.job, "FAILED")
          BY <1>12, <3>1 DEF FailOrphan, fail_job_if_token_matches
        <4> QED
          BY <1>0, <2>1, <3>1, <4>1, SetStatusApplied DEF TokenMatches, Active, Terminal
      <3>2. CASE ~TokenMatches(db, l.job, l.token, "RUNNING")
        <4>1. SameRows(db, db')
          BY <1>0, <1>12, <3>2 DEF FailOrphan, fail_job_if_token_matches, SameRows
        <4> QED
          BY <4>1, UntouchedApplied
      <3> QED
        BY <3>1, <3>2
    <2>3. issued' = issued /\ SettleRow(l.job, l.token)
      BY <1>12 DEF FailOrphan
    <2>4. QueueTypeOK'
      BY <2>1, <2>2, <2>3, AppliedTyped DEF QueueTypeOK, SettleRow
    <2> QED
      BY <2>2, <2>3, <2>4, SettlingStep
  <1>13. ASSUME NEW l \in issued, DeferPlan(l)
         PROVE  QueueTypeOK' /\ LeaseInv'
    <2> DEFINE row == Requeued(db.jobs[l.job], TRUE)
    <2>1. l.job \in Job /\ db.jobs[l.job] \in ProcessingJob
      BY <1>0, RowTyped DEF Lease
    <2>2. row \in ProcessingJob /\ Benign(db.jobs[l.job], row)
      BY <2>1, RequeuedTyped DEF Requeued, Benign, ProcessingJob
    <2>3. db' = WithRow(db, l.job, row) /\ UNCHANGED << issued, settled >>
      BY <1>13 DEF DeferPlan, defer_job
    <2> HIDE DEF row
    <2>4. db' \in Tables /\ db'.jobs = [db.jobs EXCEPT ![l.job] = row]
      BY <1>0, <2>1, <2>2, <2>3, WithRowFacts
    <2> QED
      BY <2>1, <2>2, <2>3, <2>4, OneRowStep
  <1>14. ASSUME NEW l \in issued, SetRunRunning(l)
         PROVE  QueueTypeOK' /\ LeaseInv'
    <2>1. db.jobs[l.job].run \in Run \cup {NoRun}
      BY <1>0, RowTyped DEF Lease
    <2> QED
      BY <1>0, <1>14, <2>1, RunRunningStatement, NoRowStep DEF SetRunRunning
  <1>15. CASE UNCHANGED queue
    BY <1>0, <1>15, NoRowStep DEF queue, SameRows
  <1> QED
    BY <1>1, <1>2, <1>3, <1>4, <1>5, <1>6, <1>7, <1>8, <1>9, <1>10, <1>11,
       <1>12, <1>13, <1>14, <1>15 DEF QueueNext

(* Every reachable state is typed and satisfies the lease invariant,       *)
(* whatever the numbers of jobs, workers and tokens: the tables of the     *)
(* queue stay well formed under every task of the Sentinel cut anywhere.   *)
THEOREM QueueInvariant == QueueSpec => [](QueueTypeOK /\ LeaseInv)
  <1>1. QueueInit => QueueTypeOK /\ LeaseInv
    BY InitInv
  <1>2. QueueTypeOK /\ LeaseInv /\ [QueueNext]_queue => (QueueTypeOK /\ LeaseInv)'
    BY NextInv
  <1> QED
    BY <1>1, <1>2, PTL DEF QueueSpec

(* No lease of any execution gets two outcomes: the guard "status = ? AND  *)
(* lease_token = ?" of the *_if_token_matches statements is a fence.       *)
THEOREM OutcomesAreFenced == QueueSpec => []AtMostOneOutcome
  <1>1. LeaseInv => AtMostOneOutcome
    BY DEF LeaseInv
  <1> QED
    BY <1>1, QueueInvariant, PTL

(* A RUNNING row is always owned by the worker its lease was handed to.    *)
THEOREM RunningRowsAreOwned == QueueSpec => []RunningIsOwned
  <1>1. LeaseInv => RunningIsOwned
    BY DEF LeaseInv
  <1> QED
    BY <1>1, QueueInvariant, PTL

-------------------------------------------------------------------------------
(* Retries. *)

Bounded(d) == d \in Tables /\ \A j \in Job : d.jobs[j].retry <= MAX_RETRY_COUNT

\* A row that is written with a bounded count.
LEMMA BoundedRow ==
    ASSUME NEW d, Bounded(d), NEW j \in Job, NEW r \in ProcessingJob, r.retry <= MAX_RETRY_COUNT
    PROVE  Bounded(WithRow(d, j, r))
  <1>1. WithRow(d, j, r) \in Tables /\ WithRow(d, j, r).jobs = [d.jobs EXCEPT ![j] = r]
    BY WithRowFacts DEF Bounded
  <1>2. d.jobs \in [Job -> ProcessingJob]
    BY RowTyped DEF Bounded, Tables
  <1> QED
    BY <1>1, <1>2 DEF Bounded

LEMMA BoundedSame ==
    ASSUME NEW d, NEW e, Bounded(d), SameRows(d, e)
    PROVE  Bounded(e)
  BY DEF Bounded, SameRows

\* A change of status, of the lease or of the due time keeps the count.
LEMMA BoundedColumns ==
    ASSUME NEW d, Bounded(d), NEW j \in Job
    PROVE  /\ \A s \in ProcessingStatus : Bounded(SetStatus(d, j, s))
           /\ \A b \in BOOLEAN : Bounded(WithRow(d, j, Requeued(d.jobs[j], b)))
           /\ \A t \in Token \cup {NoToken}, w \in Worker \cup {NoWorker} :
                /\ Bounded(WithRow(d, j, [d.jobs[j] EXCEPT !.token = t, !.owner = w]))
                /\ Bounded(WithRow(d, j, [d.jobs[j] EXCEPT !.status = "DISPATCHING",
                                                           !.token = t, !.owner = w]))
                /\ Bounded(WithRow(d, j, [d.jobs[j] EXCEPT !.status = "RUNNING", !.owner = w]))
           /\ Bounded(WithRow(d, j, [d.jobs[j] EXCEPT !.due = TRUE]))
  <1> DEFINE r == d.jobs[j]
  <1>1. r \in ProcessingJob /\ r.retry <= MAX_RETRY_COUNT
    BY RowTyped DEF Bounded
  <1>2. \A s \in ProcessingStatus : /\ [r EXCEPT !.status = s] \in ProcessingJob
                                    /\ [r EXCEPT !.status = s].retry = r.retry
    BY <1>1 DEF ProcessingJob
  <1>3. \A b \in BOOLEAN : Requeued(r, b) \in ProcessingJob /\ Requeued(r, b).retry = r.retry
    BY <1>1, RequeuedTyped DEF Requeued, ProcessingJob
  <1>4. ASSUME NEW t \in Token \cup {NoToken}, NEW w \in Worker \cup {NoWorker}
        PROVE  /\ [r EXCEPT !.token = t, !.owner = w] \in ProcessingJob
               /\ [r EXCEPT !.token = t, !.owner = w].retry = r.retry
               /\ [r EXCEPT !.status = "DISPATCHING", !.token = t, !.owner = w] \in ProcessingJob
               /\ [r EXCEPT !.status = "DISPATCHING", !.token = t, !.owner = w].retry = r.retry
               /\ [r EXCEPT !.status = "RUNNING", !.owner = w] \in ProcessingJob
               /\ [r EXCEPT !.status = "RUNNING", !.owner = w].retry = r.retry
    BY <1>1 DEF ProcessingJob, ProcessingStatus
  <1>5. [r EXCEPT !.due = TRUE] \in ProcessingJob /\ [r EXCEPT !.due = TRUE].retry = r.retry
    BY <1>1 DEF ProcessingJob
  <1>6. \A s \in ProcessingStatus : Bounded(SetStatus(d, j, s))
    BY <1>1, <1>2, BoundedRow DEF SetStatus
  <1>7. \A b \in BOOLEAN : Bounded(WithRow(d, j, Requeued(r, b)))
    BY <1>1, <1>3, BoundedRow
  <1>8. ASSUME NEW t \in Token \cup {NoToken}, NEW w \in Worker \cup {NoWorker}
        PROVE  /\ Bounded(WithRow(d, j, [r EXCEPT !.token = t, !.owner = w]))
               /\ Bounded(WithRow(d, j, [r EXCEPT !.status = "DISPATCHING", !.token = t, !.owner = w]))
               /\ Bounded(WithRow(d, j, [r EXCEPT !.status = "RUNNING", !.owner = w]))
    BY <1>1, <1>4, BoundedRow
  <1>9. Bounded(WithRow(d, j, [r EXCEPT !.due = TRUE]))
    BY <1>1, <1>5, BoundedRow
  <1> QED
    BY <1>6, <1>7, <1>8, <1>9

\* A set of rows is requeued.
LEMMA BoundedSet ==
    ASSUME NEW d, Bounded(d), NEW S, NEW b \in [Job -> BOOLEAN]
    PROVE  Bounded([d EXCEPT !.jobs = [j \in Job |->
                      IF j \in S THEN Requeued(d.jobs[j], b[j]) ELSE d.jobs[j]]])
  <1> DEFINE f == [j \in Job |-> IF j \in S THEN Requeued(d.jobs[j], b[j]) ELSE d.jobs[j]]
             e == [d EXCEPT !.jobs = f]
  <1>1. e \in Tables /\ e.jobs = f
    BY DeferAllFacts DEF Bounded
  <1>2. \A j \in Job : Requeued(d.jobs[j], b[j]).retry = d.jobs[j].retry
    BY RowTyped DEF Bounded, Requeued, ProcessingJob
  <1>3. \A j \in Job : f[j].retry <= MAX_RETRY_COUNT
    BY <1>2 DEF Bounded
  <1> HIDE DEF f
  <1>4. Bounded(e)
    BY <1>1, <1>3 DEF Bounded
  <1> QED
    BY <1>4 DEF f

\* The statements that end a lease, and the ones that follow them.
LEMMA BoundedStatements ==
    ASSUME NEW d, Bounded(d), NEW j \in Job, NEW t
    PROVE  /\ Bounded(complete_job_if_token_matches(d, j, t))
           /\ Bounded(fail_job_if_token_matches(d, j, t))
           /\ Bounded(abort_job_if_token_matches(d, j, t))
           /\ Bounded(fail_job_if_token_matches_dispatching(d, j, t))
           /\ \A b \in BOOLEAN : Bounded(defer_job_if_token_matches(d, j, t, b))
           /\ Bounded(update_pipeline_run_status_for_job(d, j))
           /\ Bounded(insert_job_artifacts(d, j))
           /\ Bounded(record_materializations_for_job(d, j))
           /\ Bounded(insert_dead_letter(d, j))
  <1>0. d \in Tables
    BY DEF Bounded
  <1>1. {"COMPLETED", "FAILED", "ABORTED"} \subseteq ProcessingStatus
    BY DEF ProcessingStatus
  <1>2. \A s \in {"COMPLETED", "FAILED", "ABORTED"} : Bounded(SetStatus(d, j, s))
    BY <1>1, BoundedColumns
  <1>3. \A b \in BOOLEAN : Bounded(WithRow(d, j, Requeued(d.jobs[j], b)))
    BY BoundedColumns
  <1>4. /\ Bounded(complete_job_if_token_matches(d, j, t))
        /\ Bounded(fail_job_if_token_matches(d, j, t))
        /\ Bounded(abort_job_if_token_matches(d, j, t))
        /\ Bounded(fail_job_if_token_matches_dispatching(d, j, t))
    BY <1>2 DEF complete_job_if_token_matches, fail_job_if_token_matches,
                abort_job_if_token_matches, fail_job_if_token_matches_dispatching
  <1>5. \A b \in BOOLEAN : Bounded(defer_job_if_token_matches(d, j, t, b))
    BY <1>3 DEF defer_job_if_token_matches
  <1>6. /\ SameRows(d, update_pipeline_run_status_for_job(d, j))
        /\ SameRows(d, insert_job_artifacts(d, j))
        /\ SameRows(d, record_materializations_for_job(d, j))
        /\ SameRows(d, insert_dead_letter(d, j))
    BY <1>0, RunStatement, JobStatements
  <1> QED
    BY <1>4, <1>5, <1>6, BoundedSame

LEMMA BoundedHealth ==
    ASSUME NEW d, Bounded(d), NEW p \in Parser
    PROVE  /\ Bounded(record_parser_success(d, p)) /\ Bounded(record_parser_failure(d, p))
           /\ Bounded(check_circuit_breaker_db(d, p)) /\ Bounded(resume_parser(d, p))
  <1>1. d \in Tables
    BY DEF Bounded
  <1> QED
    BY <1>1, HealthStatements, BoundedSame

\* handle_job_failure_db schedules a retry only while the count is below the
\* limit; nothing in between raises it.
LEMMA BoundedFailure ==
    ASSUME NEW d, Bounded(d), NEW j \in Job, NEW t, NEW transient \in BOOLEAN
    PROVE  \A k \in 1 .. Len(FailureSteps(d, j, t, transient)) :
              Bounded(FailureSteps(d, j, t, transient)[k])
  <1> DEFINE p == d.jobs[j].plugin
             n == record_parser_failure(d, p)
             b == check_circuit_breaker_db(n, p)
             f == fail_job_if_token_matches(b, j, t)
             r == schedule_retry(f, j, d.jobs[j].retry + 1)
             x == insert_dead_letter(f, j)
             m == move_to_dead_letter(f, j)
  <1>0. p \in Parser /\ d.jobs[j].retry \in Nat /\ MAX_RETRY_COUNT \in Nat
    BY RowTyped, StoreAssumption DEF Bounded
  <1>1. Bounded(n) /\ Bounded(b)
    BY <1>0, BoundedHealth
  <1> HIDE DEF n, b
  <1>2. Bounded(f) /\ Bounded(x)
    BY <1>1, BoundedStatements
  <1> HIDE DEF x, p
  <1>3. Bounded(m)
    <2>1. "FAILED" \in ProcessingStatus
      BY DEF ProcessingStatus
    <2> QED
      BY <1>2, <2>1, BoundedColumns DEF move_to_dead_letter, x
  <1> HIDE DEF f, m
  <1>4. Bounded(update_pipeline_run_status_for_job(m, j))
    BY <1>3, BoundedStatements
  <1>5. CASE ~TokenMatches(d, j, t, "RUNNING")
    <2>1. FailureSteps(d, j, t, transient) = << n, b >>
      BY <1>5 DEF FailureSteps, n, b, p
    <2> QED
      BY <1>1, <2>1
  <1>6. CASE TokenMatches(d, j, t, "RUNNING") /\ RetriesLeft(d, j, transient)
    <2>1. d.jobs[j].retry + 1 <= MAX_RETRY_COUNT
      BY <1>0, <1>6 DEF RetriesLeft
    <2>2. Bounded(r)
      <3> DEFINE row == [Requeued(f.jobs[j], FALSE) EXCEPT !.retry = d.jobs[j].retry + 1]
      <3>1. f.jobs[j] \in ProcessingJob
        BY <1>2, RowTyped DEF Bounded
      <3>2. Requeued(f.jobs[j], FALSE) \in ProcessingJob
        BY <3>1, RequeuedTyped
      <3>3. row \in ProcessingJob /\ row.retry = d.jobs[j].retry + 1
        <4>1. \A o \in ProcessingJob, c \in Nat : /\ [o EXCEPT !.retry = c] \in ProcessingJob
                                                 /\ [o EXCEPT !.retry = c].retry = c
          BY DEF ProcessingJob
        <4>2. d.jobs[j].retry + 1 \in Nat
          BY <1>0
        <4> QED
          BY <3>2, <4>1, <4>2
      <3>4. r = WithRow(f, j, row)
        BY DEF schedule_retry
      <3> HIDE DEF row
      <3> QED
        BY <1>2, <2>1, <3>3, <3>4, BoundedRow
    <2> HIDE DEF r
    <2>3. Bounded(update_pipeline_run_status_for_job(r, j))
      BY <2>2, BoundedStatements
    <2>4. FailureSteps(d, j, t, transient) = << n, b, f, r, update_pipeline_run_status_for_job(r, j) >>
      BY <1>6 DEF FailureSteps, n, b, f, r, p
    <2> QED
      BY <1>1, <1>2, <2>2, <2>3, <2>4
  <1>7. CASE TokenMatches(d, j, t, "RUNNING") /\ ~RetriesLeft(d, j, transient)
    <2>1. FailureSteps(d, j, t, transient) =
             << n, b, f, x, m, update_pipeline_run_status_for_job(m, j) >>
      BY <1>7 DEF FailureSteps, n, b, f, x, m, p
    <2> QED
      BY <1>1, <1>2, <1>3, <1>4, <2>1
  <1> QED
    BY <1>5, <1>6, <1>7

LEMMA BoundedConclude ==
    ASSUME NEW d, Bounded(d), NEW j \in Job, NEW t, NEW status \in ReceiptStatus
    PROVE  \A e \in Torn(d, process_conclude_db(d, j, t, status)) : Bounded(e)
  <1> DEFINE steps == process_conclude_db(d, j, t, status)
  <1>1. SUFFICES \A k \in 1 .. Len(steps) : Bounded(steps[k])
    BY DEF Torn
  <1>2. CASE status = "success"
    <2> DEFINE a == insert_job_artifacts(d, j)
               c == complete_job_if_token_matches(a, j, t)
               m == record_materializations_for_job(c, j)
               h == record_parser_success(m, d.jobs[j].plugin)
               u == update_pipeline_run_status_for_job(h, j)
    <2>0. d.jobs[j].plugin \in Parser
      BY RowTyped DEF Bounded
    <2>1. Bounded(a)
      BY BoundedStatements
    <2> HIDE DEF a
    <2>2. Bounded(c)
      BY <2>1, BoundedStatements
    <2> HIDE DEF c
    <2>3. Bounded(m)
      BY <2>2, BoundedStatements
    <2> HIDE DEF m
    <2>4. Bounded(h)
      BY <2>0, <2>3, BoundedHealth
    <2> HIDE DEF h
    <2>5. Bounded(u)
      BY <2>4, BoundedStatements
    <2> HIDE DEF u
    <2>6. steps = SuccessSteps(d, j, t)
      BY <1>2 DEF process_conclude_db
    <2>7. steps = << a, c, m, h, u >> \/ steps = << a >>
      BY <2>6 DEF SuccessSteps, a, c, m, h, u
    <2> HIDE DEF steps
    <2> QED
      BY <2>1, <2>2, <2>3, <2>4, <2>5, <2>7
  <1>3. CASE status = "transient" \/ status = "permanent"
    <2>1. \E b \in BOOLEAN : steps = FailureSteps(d, j, t, b)
      BY <1>3 DEF process_conclude_db
    <2> QED
      BY <2>1, BoundedFailure
  <1>4. CASE status = "rejected"
    <2> DEFINE e == defer_job_if_token_matches(d, j, t, TRUE)
               u == update_pipeline_run_status_for_job(e, j)
    <2>1. Bounded(e)
      BY BoundedStatements
    <2> HIDE DEF e
    <2>2. Bounded(u)
      BY <2>1, BoundedStatements
    <2> HIDE DEF u
    <2>3. steps = << e, u >> \/ steps = << e >>
      BY <1>4 DEF process_conclude_db, RejectedSteps, e, u
    <2> HIDE DEF steps
    <2> QED
      BY <2>1, <2>2, <2>3
  <1>5. CASE status = "aborted"
    <2> DEFINE e == abort_job_if_token_matches(d, j, t)
               u == update_pipeline_run_status_for_job(e, j)
    <2>1. Bounded(e)
      BY BoundedStatements
    <2> HIDE DEF e
    <2>2. Bounded(u)
      BY <2>1, BoundedStatements
    <2> HIDE DEF u
    <2>3. steps = << e, u >> \/ steps = << e >>
      BY <1>5 DEF process_conclude_db, AbortedSteps, e, u
    <2> HIDE DEF steps
    <2> QED
      BY <2>1, <2>2, <2>3
  <1> QED
    BY <1>2, <1>3, <1>4, <1>5 DEF ReceiptStatus

LEMMA BoundedPrepare ==
    ASSUME Bounded(db), NEW j \in Job, NEW t \in Token, NEW w \in Worker, PrepareDispatch(j, t, w)
    PROVE  Bounded(db')
  <1> DEFINE c == lease_jobs_for_dispatch(db, j)
             l == Leased(db, j, t, w)
             f == fail_job_if_token_matches_dispatching(l, j, t)
             e == defer_job_if_token_matches(l, j, t, FALSE)
  <1>1. Bounded(c)
    BY BoundedColumns DEF lease_jobs_for_dispatch
  <1> HIDE DEF c
  <1>2. l = set_dispatch_lease(c, j, t, w)
    BY DEF Leased, c
  <1> HIDE DEF l
  <1>3. Bounded(l)
    BY <1>1, <1>2, BoundedColumns DEF set_dispatch_lease
  <1>4. Bounded(f) /\ Bounded(e)
    BY <1>3, BoundedStatements
  <1> HIDE DEF f, e
  <1>5. Bounded(update_pipeline_run_status_for_job(f, j)) /\ Bounded(update_pipeline_run_status_for_job(e, j))
    BY <1>4, BoundedStatements
  <1>6. /\ PlanSteps(db, j, t, w) = << c, l >>
        /\ FailDispatchSteps(db, j, t, w) = << c, l, f, update_pipeline_run_status_for_job(f, j) >>
        /\ DeferDispatchSteps(db, j, t, w) = << c, l, e, update_pipeline_run_status_for_job(e, j) >>
    BY DEF PlanSteps, FailDispatchSteps, DeferDispatchSteps, c, l, f, e
  <1>7. \/ db' = Done(PlanSteps(db, j, t, w))
        \/ db' \in {FailDispatchSteps(db, j, t, w)[k] : k \in 3 .. 4}
        \/ db' \in {DeferDispatchSteps(db, j, t, w)[k] : k \in 3 .. 4}
    BY DEF PrepareDispatch
  <1>8. \/ db' = l \/ db' = f \/ db' = e
        \/ db' = update_pipeline_run_status_for_job(f, j)
        \/ db' = update_pipeline_run_status_for_job(e, j)
    BY <1>6, <1>7 DEF Done
  <1> QED
    BY <1>3, <1>4, <1>5, <1>8

LEMMA BoundedNext ==
    ASSUME QueueTypeOK, Bounded(db), [QueueNext]_queue
    PROVE  Bounded(db')
  <1>0. db \in Tables /\ issued \subseteq Lease /\ MAX_RETRY_COUNT \in Nat
    BY StoreAssumption DEF QueueTypeOK
  <1>1. ASSUME NEW d, Bounded(d), NEW j \in Job, NEW p \in Parser, NEW r \in Run \cup {NoRun}
        PROVE  Bounded(enqueue_job(d, j, p, r))
    <2> DEFINE row == [status |-> "QUEUED", token |-> NoToken, owner |-> NoWorker,
                       retry |-> 0, due |-> TRUE, plugin |-> p, run |-> r]
    <2>1. row \in ProcessingJob /\ row.retry <= MAX_RETRY_COUNT
      BY <1>0 DEF ProcessingJob, ProcessingStatus
    <2> HIDE DEF row
    <2>2. enqueue_job(d, j, p, r) = WithRow(d, j, row)
      BY DEF enqueue_job, row
    <2> QED
      BY <1>1, <2>1, <2>2, BoundedRow
  <1>2. ASSUME NEW j \in Job, NEW p \in Parser, NEW r \in Run \cup {NoRun}, Enqueue(j, p, r)
        PROVE  Bounded(db')
    BY <1>1, <1>2 DEF Enqueue
  <1>3. ASSUME NEW j \in Job, CancelJob(j) \/ BackoffElapses(j) \/ LeaseCut(j)
        PROVE  Bounded(db')
    <2>1. "ABORTED" \in ProcessingStatus
      BY DEF ProcessingStatus
    <2>2. /\ Bounded(SetStatus(db, j, "ABORTED"))
          /\ Bounded(WithRow(db, j, [db.jobs[j] EXCEPT !.due = TRUE]))
          /\ Bounded(lease_jobs_for_dispatch(db, j))
      BY <2>1, BoundedColumns DEF lease_jobs_for_dispatch
    <2>3. Bounded(cancel_job(db, j))
      BY <2>2 DEF cancel_job
    <2> QED
      BY <1>3, <2>2, <2>3 DEF CancelJob, BackoffElapses, LeaseCut
  <1>4. ASSUME NEW p \in Parser, ResumeParser(p)
        PROVE  Bounded(db')
    BY <1>4, BoundedHealth DEF ResumeParser
  <1>5. ASSUME NEW j \in Job, NEW k \in Job, ReplayDeadLetter(j, k)
        PROVE  Bounded(db')
    <2> DEFINE e == enqueue_job(db, k, db.jobs[j].plugin, NoRun)
    <2>1. db.jobs[j].plugin \in Parser
      BY <1>0, RowTyped
    <2>2. Bounded(e)
      BY <1>1, <2>1
    <2>3. e.dead[j] - 1 \in Nat
      <3>1. e.dead[j] = db.dead[j]
        BY <1>0 DEF enqueue_job, WithRow, Tables
      <3>2. db.dead[j] \in Nat /\ db.dead[j] > 0
        BY <1>0, <1>5 DEF ReplayDeadLetter, Tables
      <3> QED
        BY <3>1, <3>2
    <2>4. db' \in {e, [e EXCEPT !.dead[j] = @ - 1]}
      BY <1>5 DEF ReplayDeadLetter
    <2> HIDE DEF e
    <2>5. SameRows(e, [e EXCEPT !.dead[j] = @ - 1])
      BY <2>2, <2>3, JobStatements DEF Bounded
    <2> QED
      BY <2>2, <2>4, <2>5, BoundedSame
  <1>6. ASSUME NEW S \in SUBSET Job, SweepExpired(S)
        PROVE  Bounded(db')
    <2> DEFINE b == [j \in Job |-> db.jobs[j].due]
               X == S \cap Dispatching(db)
    <2>1. b \in [Job -> BOOLEAN]
      BY <1>0 DEF Tables, ProcessingJob
    <2>2. db' = [db EXCEPT !.jobs = [j \in Job |->
                    IF j \in X THEN Requeued(db.jobs[j], b[j]) ELSE db.jobs[j]]]
      BY <1>6 DEF SweepExpired, requeue_expired_dispatches
    <2> HIDE DEF b, X
    <2> QED
      BY <2>1, <2>2, BoundedSet
  <1>7. ASSUME NEW S \in SUBSET Job, Reconcile(S)
        PROVE  Bounded(db')
    <2> DEFINE b == [j \in Job |-> TRUE]
    <2>1. b \in [Job -> BOOLEAN]
      OBVIOUS
    <2>2. db' = [db EXCEPT !.jobs = [j \in Job |->
                    IF j \in S THEN Requeued(db.jobs[j], b[j]) ELSE db.jobs[j]]]
      BY <1>7 DEF Reconcile, DeferAll
    <2> HIDE DEF b
    <2> QED
      BY <2>1, <2>2, BoundedSet
  <1>8. ASSUME NEW l \in issued,
               AckDispatch(l) \/ FailOrphan(l) \/ DeferPlan(l) \/ SetRunRunning(l)
        PROVE  Bounded(db')
    <2>1. l.job \in Job /\ l.token \in Token /\ l.worker \in Worker
      BY <1>0 DEF Lease
    <2>2. Bounded(ack_dispatch(db, l.job, l.token, l.worker))
      BY <2>1, BoundedColumns DEF ack_dispatch
    <2>3. Bounded(fail_job_if_token_matches(db, l.job, l.token))
      BY <2>1, BoundedStatements
    <2>4. Bounded(defer_job(db, l.job))
      BY <2>1, BoundedColumns DEF defer_job
    <2>5. Bounded(set_pipeline_run_running(db, db.jobs[l.job].run))
      BY <1>0, <2>1, RowTyped, RunRunningStatement, BoundedSame
    <2> QED
      BY <1>8, <2>2, <2>3, <2>4, <2>5 DEF AckDispatch, FailOrphan, DeferPlan, SetRunRunning
  <1>9. ASSUME NEW l \in issued, NEW status \in ReceiptStatus, Conclude(l, status)
        PROVE  Bounded(db')
    <2>1. l.job \in Job
      BY <1>0 DEF Lease
    <2> QED
      BY <1>9, <2>1, BoundedConclude DEF Conclude
  <1>10. CASE UNCHANGED queue
    BY <1>10 DEF queue
  <1> QED
    BY <1>2, <1>3, <1>4, <1>5, <1>6, <1>7, <1>8, <1>9, <1>10, BoundedPrepare DEF QueueNext

(* The tables of the queue keep their types under every task of the        *)
(* Sentinel, cut anywhere.                                                 *)
THEOREM QueueTypesKept == QueueSpec => []QueueTypeOK
  <1> QED
    BY QueueInvariant, PTL

(* No job is retried more than MAX_RETRY_COUNT times, however failures,    *)
(* requeues, reconciliations and stale receipts interleave                 *)
(* (handle_job_failure_db is the only statement sequence that counts).     *)
THEOREM RetriesAreBounded == QueueSpec => []RetriesBounded
  <1>1. QueueInit => Bounded(db)
    <2> SUFFICES ASSUME QueueInit PROVE Bounded(db)
      OBVIOUS
    <2>1. db \in Tables
      BY InitInv DEF QueueTypeOK
    <2>2. \A j \in Job : db.jobs[j] = NoRow
      BY DEF QueueInit, EmptyTables
    <2>3. NoRow.retry = 0 /\ MAX_RETRY_COUNT \in Nat
      BY StoreAssumption DEF NoRow
    <2> QED
      BY <2>1, <2>2, <2>3 DEF Bounded
  <1>2. QueueTypeOK /\ Bounded(db) /\ [QueueNext]_queue => Bounded(db)'
    BY BoundedNext DEF Bounded
  <1>3. Bounded(db) => RetriesBounded
    BY DEF Bounded, RetriesBounded
  <1> QED
    BY <1>1, <1>2, <1>3, QueueTypesKept, PTL DEF QueueSpec
===============================================================================
