------------------------------ MODULE SinkCommit ------------------------------
(***************************************************************************)
(* How the outputs of a job reach their sinks.  execute_job_inner          *)
(* (worker.rs) splits the rows of every output into valid and quarantined  *)
(* ones, rejects the job when an output exceeds its quarantine policy, and *)
(* hands what is left to write_outputs_grouped: for each sink URI, in      *)
(* turn, write_output_plan and SinkRegistry (casparian_sinks) create the   *)
(* sinks, stage, prepare, and commit or roll back.                         *)
(*                                                                         *)
(* Parquet and CSV sinks write a temporary file and rename it.  Both names *)
(* are made of the output's name and the job id (output_filename), so all  *)
(* attempts at one job use the same two names.  A file is an inode: who    *)
(* has it open for writing, whether it was closed after everything was     *)
(* written, and whether two attempts wrote into it.  Creating a name that  *)
(* exists truncates the inode it stands for; renaming moves the inode,     *)
(* open or not.                                                            *)
(*                                                                         *)
(* A DuckDB sink holds an exclusive lock on its database from its creation *)
(* on, stages into a table named after job and output, and moves the rows  *)
(* to the destination in one transaction.  A table is the set of attempts  *)
(* whose rows it has; each of its statements is durable at once.           *)
(***************************************************************************)
EXTENDS Integers, FiniteSets, FiniteSetsExt

CONSTANTS
    Attempt,        \* executions of the job, one after another or at once
    Output,         \* its outputs, numbered in the order of their names
    Uri,            \* the position of each output's sink URI
    QuarantineUri,  \* the same for its quarantined rows (quarantine_dir)
    Database,       \* the URIs of DuckDB sinks
    Mode,           \* the sink mode of each output
    Policy,         \* the quarantine policy of each output
    MaxValid,       \* bound: valid rows of an output
    MaxBad,         \* bound: quarantined rows of an output
    Overlap,        \* whether two attempts may run at the same time
    NoFile, Free, Other, None

(* sink_uri_for_quarantine refuses a quarantine_dir for a DuckDB sink, and  *)
(* create_sink_from_uri any mode but Append for a file sink.                *)
ASSUME SinkAssumption ==
    /\ Attempt # {} /\ Output # {} /\ Output \subseteq Nat /\ MaxValid \in Nat /\ MaxBad \in Nat
    /\ Uri \in [Output -> Nat] /\ QuarantineUri \in [Output -> Nat]
    /\ Mode \in [Output -> {"Append", "Replace", "Error"}]
    /\ \A o \in Output : IF Uri[o] \in Database THEN QuarantineUri[o] = Uri[o]
                         ELSE Mode[o] = "Append" /\ QuarantineUri[o] \notin Database
    /\ \A o \in Output : /\ Policy[o].max_pct \in 0..100
                         /\ Policy[o].max_count = None \/ Policy[o].max_count \in Nat
    /\ Overlap \in BOOLEAN
    /\ Free \notin Attempt /\ Other \notin Attempt /\ None \notin {"disabled", "count", "pct"}

VARIABLES
    temp,       \* the temporary file of each item
    final,      \* the final file of each item
    stage,      \* the stage table of each item
    table,      \* the destination table of each item
    lock,       \* who has each database locked
    at          \* the attempts

files == <<temp, final>>
tables == <<stage, table>>
vars == <<files, tables, lock, at>>

Inode == [by : Attempt, writers : SUBSET Attempt, mixed : BOOLEAN, full : BOOLEAN]

ASSUME NoFileIsNoInode == NoFile \notin Inode

Phase == {"waiting", "create", "init", "prepare", "guard", "commit", "rollback", "drop", "ended"}

(* What is written (OwnedOutput): the valid rows of an output, and under a  *)
(* name of their own, which sorts behind it, the quarantined ones.          *)
Valid(o) == 2 * o
Quarantine(o) == 2 * o + 1
Item == {Valid(o) : o \in Output} \cup {Quarantine(o) : o \in Output}
Owner(i) == i \div 2
IsQuarantine(i) == i % 2 = 1

Place(i) == IF IsQuarantine(i) THEN QuarantineUri[Owner(i)] ELSE Uri[Owner(i)]
InDatabase(i) == Place(i) \in Database
SinkMode(i) == IF IsQuarantine(i) THEN "Append" ELSE Mode[Owner(i)]

(* The rows of an output after split_output_batches.  A batch without error *)
(* column is written even if it is empty.                                   *)
Rows == {r \in [valid : 0..MaxValid, bad : 0..MaxBad, plain : BOOLEAN] :
            r.plain => r.valid = 0 /\ r.bad = 0}

NoAttempt == [phase |-> "waiting", rows |-> None, items |-> {}, group |-> 0, todo |-> {},
              opened |-> {}, committed |-> {}, cancelled |-> FALSE, unsaved |-> FALSE,
              result |-> "none"]

Init ==
    /\ temp = [i \in Item |-> NoFile]
    /\ final = [i \in Item |-> NoFile]
    /\ stage = [i \in Item |-> {}]
    /\ table = [i \in Item |-> {}]
    /\ lock = [u \in Database |-> Free]
    /\ at = [a \in Attempt |-> NoAttempt]

-------------------------------------------------------------------------------
(* Planning *)

\* check_quarantine_policy: why the rows of output o are refused, or not.
check_quarantine_policy(o, r) ==
    IF r.bad = 0 THEN None
    ELSE IF ~Policy[o].allow THEN "disabled"
    ELSE IF Policy[o].max_count # None /\ r.bad > Policy[o].max_count THEN "count"
    ELSE IF 100 * r.bad > Policy[o].max_pct * (r.valid + r.bad) THEN "pct"
    ELSE None

OwnedOutputs(rows) ==
    {Valid(o) : o \in {p \in Output : rows[p].valid > 0 \/ rows[p].plain}}
        \cup {Quarantine(o) : o \in {p \in Output : rows[p].bad > 0}}

aggregate_job_status(rows) ==
    IF \E o \in Output : rows[o].bad > 0 THEN "partial" ELSE "success"

Groups(items) == {Place(i) : i \in items}

Members(attempt) == {i \in attempt.items : Place(i) = attempt.group}

\* A registry for the sink URI g; no sink exists yet.
StartGroup(attempt, g) ==
    LET b == [attempt EXCEPT !.phase = "create", !.group = g, !.opened = {}, !.committed = {}]
    IN  [b EXCEPT !.todo = Members(b)]

Ended(attempt, result) ==
    [attempt EXCEPT !.phase = "ended", !.result = result, !.todo = {}, !.opened = {}]

Running(a) == at[a].phase \notin {"waiting", "ended"}

\* Mutant: the last output decides.
begin_checking_last(a) ==
    /\ at[a].phase = "waiting"
    /\ Overlap \/ \A b \in Attempt : ~Running(b)
    /\ \E rows \in [Output -> Rows] :
         LET planned == [at[a] EXCEPT !.rows = rows, !.items = OwnedOutputs(rows)]
             last == Max(Output)
         IN  at' = [at EXCEPT ![a] =
                IF check_quarantine_policy(last, rows[last]) # None THEN Ended(planned, "rejected")
                ELSE IF planned.items = {} THEN Ended(planned, aggregate_job_status(rows))
                ELSE StartGroup(planned, Min(Groups(planned.items)))]
    /\ UNCHANGED <<files, tables, lock>>

(* execute_job_inner, up to the writing: nothing is written if any output   *)
(* exceeds its policy.                                                      *)
Begin(a) ==
    /\ at[a].phase = "waiting"
    /\ Overlap \/ \A b \in Attempt : ~Running(b)
    /\ \E rows \in [Output -> Rows] :
         LET planned == [at[a] EXCEPT !.rows = rows, !.items = OwnedOutputs(rows)]
         IN  at' = [at EXCEPT ![a] =
                IF \E o \in Output : check_quarantine_policy(o, rows[o]) # None
                THEN Ended(planned, "rejected")
                ELSE IF planned.items = {} THEN Ended(planned, aggregate_job_status(rows))
                ELSE StartGroup(planned, Min(Groups(planned.items)))]
    /\ UNCHANGED <<files, tables, lock>>

-------------------------------------------------------------------------------
(* Writing *)

\* Attempt a is in this phase, and i is the next sink of its loop.
AtSink(a, i, phase) ==
    /\ at[a].phase = phase
    /\ i \in at[a].todo
    /\ \A k \in at[a].todo : i <= k

\* The attempt record after sink i, which was the last one of the loop if
\* nothing else is left to do: the next phase then looks at every sink again.
Advance(attempt, i, next) ==
    IF attempt.todo = {i}
    THEN [attempt EXCEPT !.phase = next, !.todo = Members(attempt)]
    ELSE [attempt EXCEPT !.todo = @ \ {i}]

Dropping(attempt) == [attempt EXCEPT !.phase = "drop", !.todo = Members(attempt)]

\* create_sink_from_uri.  A DuckDB sink takes the exclusive lock of its database
\* (try_lock_exclusive, one file handle per sink), so it is locked out by another
\* program and just as well by another sink of its own group.
create(a, i) ==
    /\ AtSink(a, i, "create")
    /\ IF ~InDatabase(i)
       THEN at' = [at EXCEPT ![a] = Advance(@, i, "init")] /\ UNCHANGED lock
       ELSE IF lock[Place(i)] = Free
       THEN /\ at' = [at EXCEPT ![a] = Advance(@, i, "init")]
            /\ lock' = [lock EXCEPT ![Place(i)] = a]
       ELSE /\ at' = [at EXCEPT ![a] = Dropping(@)]
            /\ UNCHANGED lock
    /\ UNCHANGED <<files, tables>>

\* Mutant: CREATE TABLE IF NOT EXISTS, without the DROP.
init_keeping_stage(a, i) ==
    /\ AtSink(a, i, "init")
    /\ stage' = IF InDatabase(i) THEN [stage EXCEPT ![i] = @ \cup {a}] ELSE stage
    /\ temp' = IF InDatabase(i) THEN temp
               ELSE [temp EXCEPT ![i] = [by |-> a, writers |-> {a}, mixed |-> FALSE, full |-> FALSE]]
    /\ at' = [at EXCEPT ![a] = Advance([at[a] EXCEPT !.opened = @ \cup {i}], i, "prepare")]
    /\ UNCHANGED <<final, table, lock>>

\* The temporary file is created, or the stage table dropped and created, and
\* all batches are written to it.
init(a, i) ==
    /\ AtSink(a, i, "init")
    /\ IF InDatabase(i)
       THEN stage' = [stage EXCEPT ![i] = {a}] /\ UNCHANGED temp
       ELSE LET others == IF temp[i] = NoFile THEN {} ELSE temp[i].writers
            IN  /\ temp' = [temp EXCEPT ![i] = [by |-> a, writers |-> others \cup {a},
                                                mixed |-> others # {}, full |-> FALSE]]
                /\ UNCHANGED stage
    /\ at' = [at EXCEPT ![a] = Advance([at[a] EXCEPT !.opened = @ \cup {i}], i, "prepare")]
    /\ UNCHANGED <<final, table, lock>>

\* An error within init: ArrowWriter::try_new fails when the file has been created
\* but temp_path is not set, so that neither rollback nor Drop knows of it; or the
\* CREATE of a stage table fails behind the DROP.
OpenFails(a, i) ==
    /\ AtSink(a, i, "init")
    /\ IF InDatabase(i)
       THEN stage' = [stage EXCEPT ![i] = {}] /\ UNCHANGED temp
       ELSE LET others == IF temp[i] = NoFile THEN {} ELSE temp[i].writers
            IN  /\ temp' = [temp EXCEPT ![i] = [by |-> a, writers |-> others,
                                                mixed |-> others # {}, full |-> FALSE]]
                /\ UNCHANGED stage
    /\ at' = [at EXCEPT ![a] = Dropping(@)]
    /\ UNCHANGED <<final, table, lock>>

Closed(file, a) ==
    IF file = NoFile THEN NoFile
    ELSE IF a \in file.writers
    THEN [file EXCEPT !.writers = @ \ {a}, !.full = (file.by = a)]
    ELSE file

\* Mutant: the footer and the buffered rows are not written out.
prepare_nothing(a, i) ==
    /\ AtSink(a, i, "prepare")
    /\ at' = [at EXCEPT ![a] = Advance(@, i, "guard")]
    /\ UNCHANGED <<files, tables, lock>>

\* The writer is closed; the inode may have been renamed by another attempt.
\* A DuckDB sink has nothing to prepare.
prepare(a, i) ==
    /\ AtSink(a, i, "prepare")
    /\ temp' = [temp EXCEPT ![i] = Closed(@, a)]
    /\ final' = [final EXCEPT ![i] = Closed(@, a)]
    /\ at' = [at EXCEPT ![a] = Advance(@, i, "guard")]
    /\ UNCHANGED <<tables, lock>>

\* should_commit: has the job been cancelled?
guard(a) ==
    /\ at[a].phase = "guard"
    /\ at' = [at EXCEPT ![a].phase = IF at[a].cancelled THEN "rollback" ELSE "commit"]
    /\ UNCHANGED <<files, tables, lock>>

\* The registry is dropped, and with it the locks of its sinks.
Unlocked(a) == [u \in Database |-> IF lock[u] = a THEN Free ELSE lock[u]]

LaterGroups(attempt) == {g \in Groups(attempt.items) : g > attempt.group}

\* After the last sink of the group: the next sink URI, or the receipt.
CommitDone(attempt) ==
    IF LaterGroups(attempt) = {} THEN Ended(attempt, aggregate_job_status(attempt.rows))
    ELSE StartGroup(attempt, Min(LaterGroups(attempt)))

Committed(a, i, done) ==
    /\ at' = [at EXCEPT ![a] = IF done.todo = {i} THEN CommitDone(done)
                               ELSE Advance(done, i, "commit")]
    /\ lock' = IF done.todo = {i} THEN Unlocked(a) ELSE lock

\* The destination after the transaction of a DuckDB sink.
Promoted(i) == IF SinkMode(i) = "Append" THEN table[i] \cup stage[i] ELSE stage[i]

\* Mutant: the rename's error is only logged.
commit_ignoring_error(a, i) ==
    /\ AtSink(a, i, "commit")
    /\ temp' = [temp EXCEPT ![i] = NoFile]
    /\ Committed(a, i, [at[a] EXCEPT !.committed = @ \cup {i}, !.opened = @ \ {i}])
    /\ UNCHANGED <<final, tables>>

\* fs::rename, which fails if the temporary file is no longer there; or the
\* transaction, which in Error mode fails if the destination exists.
commit(a, i) ==
    /\ AtSink(a, i, "commit")
    /\ IF InDatabase(i)
       THEN /\ SinkMode(i) = "Error" => table[i] = {}
            /\ table' = [table EXCEPT ![i] = Promoted(i)]
            /\ stage' = [stage EXCEPT ![i] = {}]
            /\ UNCHANGED files
       ELSE /\ temp[i] # NoFile
            /\ final' = [final EXCEPT ![i] = temp[i]]
            /\ temp' = [temp EXCEPT ![i] = NoFile]
            /\ UNCHANGED tables
    /\ Committed(a, i, [at[a] EXCEPT !.committed = @ \cup {i}, !.opened = @ \ {i}])

RollingBack(attempt) == [attempt EXCEPT !.phase = "rollback", !.todo = Members(attempt)]

\* An error in a commit rolls every sink of the group back ...
CommitFails(a) ==
    /\ at[a].phase = "commit"
    /\ at' = [at EXCEPT ![a] = RollingBack(@)]
    /\ UNCHANGED <<files, tables, lock>>

\* ... also the error of the CHECKPOINT that follows the transaction.
CheckpointFails(a, i) ==
    /\ AtSink(a, i, "commit") /\ InDatabase(i)
    /\ SinkMode(i) = "Error" => table[i] = {}
    /\ table' = [table EXCEPT ![i] = Promoted(i)]
    /\ stage' = [stage EXCEPT ![i] = {}]
    /\ at' = [at EXCEPT ![a] = RollingBack([@ EXCEPT !.unsaved = TRUE])]
    /\ UNCHANGED <<files, lock>>

\* An error while creating, staging or preparing returns at once: the sinks
\* are dropped.
StagingFails(a) ==
    /\ at[a].phase \in {"create", "init", "prepare"}
    /\ at' = [at EXCEPT ![a] = Dropping(@)]
    /\ UNCHANGED <<files, tables, lock>>

\* execute_job_inner reports a failed write as a cancellation if there was one.
Failed(attempt) == Ended(attempt, IF attempt.cancelled THEN "aborted" ELSE "transient")

\* The loop over the sinks goes on, or the write has failed.
Undone(a, i) ==
    /\ at' = [at EXCEPT ![a] = IF at[a].todo = {i} THEN Failed(at[a])
                               ELSE [at[a] EXCEPT !.todo = @ \ {i}]]
    /\ lock' = IF at[a].todo = {i} THEN Unlocked(a) ELSE lock

Removed(file, i, gone) == IF gone THEN [file EXCEPT ![i] = NoFile] ELSE file

\* Mutant: only temporary files are removed.
rollback_temp_only(a, i) ==
    /\ AtSink(a, i, "rollback")
    /\ temp' = Removed(temp, i, i \in at[a].opened)
    /\ Undone(a, i)
    /\ UNCHANGED <<final, tables>>

\* The final file if it was promoted, and the temporary one; of a DuckDB sink
\* the stage table only.
rollback(a, i) ==
    /\ AtSink(a, i, "rollback")
    /\ IF InDatabase(i)
       THEN stage' = [stage EXCEPT ![i] = {}] /\ UNCHANGED files
       ELSE /\ final' = Removed(final, i, i \in at[a].committed)
            /\ temp' = Removed(temp, i, i \in at[a].opened)
            /\ UNCHANGED stage
    /\ Undone(a, i)
    /\ UNCHANGED table

\* Drop of a file sink removes the temporary file by its name, whoever made
\* it; a DuckDB sink leaves its stage table behind.
drop(a, i) ==
    /\ AtSink(a, i, "drop")
    /\ temp' = IF InDatabase(i) THEN temp ELSE Removed(temp, i, i \in at[a].opened)
    /\ Undone(a, i)
    /\ UNCHANGED <<final, tables>>

\* ABORT, at any moment of the attempt.
Cancel(a) ==
    /\ Running(a)
    /\ ~at[a].cancelled
    /\ at' = [at EXCEPT ![a].cancelled = TRUE]
    /\ UNCHANGED <<files, tables, lock>>

\* The worker process dies: its files and tables stay as they are.
Crash(a) ==
    /\ Running(a)
    /\ at' = [at EXCEPT ![a] = Ended(@, "crashed")]
    /\ LET Orphaned(file) == IF file = NoFile THEN NoFile
                             ELSE [file EXCEPT !.writers = @ \ {a}]
       IN  /\ temp' = [i \in Item |-> Orphaned(temp[i])]
           /\ final' = [i \in Item |-> Orphaned(final[i])]
    /\ lock' = Unlocked(a)
    /\ UNCHANGED tables

\* Another job, or another program, has the database.
OtherLocks(u) ==
    /\ lock[u] = Free
    /\ lock' = [lock EXCEPT ![u] = Other]
    /\ UNCHANGED <<files, tables, at>>

OtherUnlocks(u) ==
    /\ lock[u] = Other
    /\ lock' = [lock EXCEPT ![u] = Free]
    /\ UNCHANGED <<files, tables, at>>

Next ==
    \/ \E a \in Attempt :
        \/ Begin(a) \/ guard(a) \/ CommitFails(a) \/ StagingFails(a)
        \/ Cancel(a) \/ Crash(a)
        \/ \E i \in Item : \/ create(a, i) \/ init(a, i) \/ OpenFails(a, i)
                           \/ prepare(a, i) \/ commit(a, i)
                           \/ CheckpointFails(a, i) \/ rollback(a, i) \/ drop(a, i)
    \/ \E u \in Database : OtherLocks(u) \/ OtherUnlocks(u)

Spec == Init /\ [][Next]_vars

-------------------------------------------------------------------------------
(* Types; a sink that has committed has given up its temporary file, and   *)
(* an attempt that has ended holds no lock.                                *)
TypeOK ==
    /\ temp \in [Item -> Inode \cup {NoFile}]
    /\ final \in [Item -> Inode \cup {NoFile}]
    /\ stage \in [Item -> SUBSET Attempt] /\ table \in [Item -> SUBSET Attempt]
    /\ lock \in [Database -> Attempt \cup {Free, Other}]
    /\ \A a \in Attempt :
         /\ at[a].phase \in Phase
         /\ at[a].items \subseteq Item /\ at[a].todo \subseteq at[a].items
         /\ at[a].opened \subseteq Item /\ at[a].committed \subseteq Item
         /\ at[a].opened \cap at[a].committed = {}
         /\ ~Running(a) => \A u \in Database : lock[u] # a
         /\ at[a].result \in {"none", "success", "partial", "rejected", "transient",
                              "aborted", "crashed"}

Whole(file) == file # NoFile /\ file.full /\ ~file.mixed

(* "Write to temp file first for atomic rename" (ParquetSink::init): a     *)
(* file under its final name is whole, no matter where the attempt that    *)
(* wrote it was cancelled, failed or died.                                 *)
FilesAreWhole == \A i \in Item : final[i] # NoFile => Whole(final[i])

(* As long as nothing was attempted since, an attempt that reported        *)
(* success, whole or partial, left each of its items promoted: files whole *)
(* and its own, tables with its rows, and no stage table that was          *)
(* forgotten.                                                              *)
SuccessIsComplete ==
    \A a \in Attempt :
        /\ at[a].result \in {"success", "partial"}
        /\ \A b \in Attempt \ {a} : at[b].phase = "waiting"
        => \A i \in at[a].items :
              IF InDatabase(i) THEN a \in table[i] /\ stage[i] = {}
              ELSE Whole(final[i]) /\ final[i].by = a /\ temp[i] = NoFile

(* The items of which attempt a left rows or a file under its final name,  *)
(* and those of which it left a temporary file.                             *)
Published(a) == {i \in Item : a \in table[i] \/ (final[i] # NoFile /\ final[i].by = a)}
Unfinished(a) == {i \in Item : temp[i] # NoFile /\ temp[i].by = a}
Traces(a) == Published(a) \cup Unfinished(a)

(* ARCHITECTURE.md, core invariants 2 and 3, "Staged output is promoted    *)
(* only on success" and "Aborted job cannot commit outputs", as far as the *)
(* code keeps them: an attempt that reported failure or abort published    *)
(* nothing under the sink URI it was writing or under later ones (what was *)
(* promoted under an earlier URI stays, write_outputs_grouped), but for    *)
(* the rows of a DuckDB transaction whose CHECKPOINT failed, because       *)
(* DuckDbSink::rollback drops the stage table only.  It left no temporary  *)
(* file either, but for an empty one under that URI, of a sink whose       *)
(* writer could not be made (ParquetSink::init).  No database stays        *)
(* locked.                                                                 *)
FailedGroupPublishesNothing ==
    \A a \in Attempt : at[a].result \in {"transient", "aborted"} =>
        /\ \A i \in Published(a) : Place(i) < at[a].group \/ (InDatabase(i) /\ at[a].unsaved)
        /\ \A i \in Unfinished(a) : /\ Place(i) = at[a].group
                                    /\ temp[i].writers = {} /\ ~temp[i].full
        /\ \A u \in Database : lock[u] # a

(* Rows get into a destination table only by the commit of the attempt     *)
(* that wrote them, whatever stage tables crashes and failures leave       *)
(* behind (DuckDbSink::init drops the stage table first).                  *)
TablesHoldCommittedRows ==
    \A i \in Item : \A a \in table[i] :
        \/ i \in at[a].committed \/ at[a].unsaved
        \/ Place(i) < at[a].group

(* The quarantine policy of a job is one for all its outputs: an attempt   *)
(* that found more bad rows than one output allows leaves no trace of any  *)
(* of them (check_quarantine_policy, ExecutionOutcome::QuarantineRejected).*)
QuarantineWithinPolicy ==
    \A a \in Attempt : Traces(a) # {} =>
        \A o \in Output : LET r == at[a].rows[o] IN r.bad > 0 =>
            /\ Policy[o].allow
            /\ Policy[o].max_count = None \/ r.bad <= Policy[o].max_count
            /\ 100 * r.bad <= Policy[o].max_pct * (r.valid + r.bad)

===============================================================================
