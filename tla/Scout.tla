------------------------------- MODULE Scout -------------------------------
(***************************************************************************)
(* Scout's catalog of one source: the scanner                              *)
(* (casparian_scout/src/scanner.rs), the tables scout_files, scout_sources *)
(* and scout_folders it writes (db.rs), the scan jobs of the sentinel that *)
(* run it in a thread, and the removal of the source.  Nothing locks a     *)
(* source, so scans started by the sentinel, the terminal UI and the       *)
(* command line overlap, while the files on disk change.                   *)
(*                                                                         *)
(* A scan is a walk that reads directory entries and a loop that persists  *)
(* what was read, a batch per transaction; an entry waits in a thread's    *)
(* buffer or in the channel between the two, so a batch is any few of the  *)
(* entries found and not yet written.                                      *)
(***************************************************************************)
EXTENDS Naturals, Sequences, FiniteSets, SequencesExt

CONSTANTS Paths,       \* the paths below the source
          Uids,        \* file identities (device and inode)
          Versions,    \* the pairs of size and mtime a file may have
          Jobs,        \* the scans the sentinel is asked for
          CliScans,    \* the scans of the command line and the terminal UI
          MaxBatch,    \* bound: entries of one transaction
          MaxTroubles  \* bound: changes on disk, and reads, rows, transactions and
                       \* threads that fail

ASSUME ScoutAssumption ==
    /\ MaxBatch \in Nat \ {0} /\ MaxTroubles \in Nat
    /\ IsFiniteSet(Paths)
    /\ "none" \notin Uids /\ "none" \notin Versions

VARIABLES disk,      \* what is at each path
          files,     \* scout_files: the row of each path (UNIQUE(source_id, path))
          source,    \* the source's row exists
          count,     \* its file_count
          folders,   \* scout_folders: the paths counted in the folder cache
          clock,     \* the clock of first_seen_at, last_seen_at and scan_start
          scan,      \* each scan: where it is and what it holds
          job,       \* the sentinel's ScanJobState.state, "none" for other scans
          events,    \* scan_event_tx: what scan threads told the sentinel
          remover,   \* where delete_source is
          troubles,  \* the changes and faults so far
          missed,    \* history: the paths that changed during each scan
          quiet      \* history: the scans during which nothing else happened

Scans == Jobs \cup CliScans

vars == <<disk, files, source, count, folders, clock, scan, job, events, remover,
          troubles, missed, quiet>>

NoFile == [uid |-> "none", ver |-> "none"]

Entries == [uid : Uids, ver : Versions]

NoRow == [uid |-> "none", ver |-> "none", status |-> "none", seen |-> 0]

OnDisk == {p \in Paths : disk[p] # NoFile}

HardLinks == \E p, q \in OnDisk : p # q /\ disk[p].uid = disk[q].uid

Rows(t) == {p \in Paths : t[p] # NoRow}

IdleScan == [pc |-> "idle", start |-> 0, todo |-> {}, found |-> {}, errors |-> {},
             lost |-> {}, ok |-> TRUE, token |-> FALSE, agg |-> {}]

Running == {s \in Scans : scan[s].pc \notin {"idle", "done", "failed", "cancelled"}}

Init ==
    /\ disk \in [Paths -> Entries \cup {NoFile}]
    /\ files = [p \in Paths |-> NoRow]
    /\ source = TRUE
    /\ count = 0
    /\ folders = {}
    /\ clock = 0
    /\ scan = [s \in Scans |-> IdleScan]
    /\ job = [s \in Scans |-> "none"]
    /\ events = <<>>
    /\ remover = "idle"
    /\ troubles = 0
    /\ missed = [s \in Scans |-> {}]
    /\ quiet = {}

-----------------------------------------------------------------------------
(* The statements of one batch *)

\* The UPDATE of apply_rename_updates_tx: every row with the entry's uid takes its
\* path, which UNIQUE(source_id, path) refuses for two rows or for a path that is
\* taken.
rename_row(t, e) ==
    LET from == {p \in Paths : t[p].uid = e.uid}
        taken == e.path \notin from /\ t[e.path] # NoRow
    IN  IF from = {} THEN [ok |-> TRUE, t |-> t]
        ELSE IF taken \/ \E p, q \in from : p # q THEN [ok |-> FALSE, t |-> t]
        ELSE LET row == t[CHOOSE p \in from : TRUE]
             IN  [ok |-> TRUE,
                  t  |-> [p \in Paths |-> IF p = e.path THEN [row EXCEPT !.seen = clock]
                                         ELSE IF p \in from THEN NoRow ELSE t[p]]]

\* The paths query_existing_files_by_uid_tx may have kept for a uid: the last row wins.
ExistingPaths(t, uid) == {p \in Paths : t[p].uid = uid}

\* The loop over the batch: an entry whose uid was known under another path is
\* renamed, and the first UPDATE that fails ends it.
apply_rename_updates(t, batch, known) ==
    LET after[n \in 0 .. Len(batch)] ==
            IF n = 0 THEN [ok |-> TRUE, t |-> t]
            ELSE LET acc == after[n - 1]
                     e == batch[n]
                 IN  IF acc.ok /\ ExistingPaths(t, e.uid) # {} /\ known[e.uid] # e.path
                     THEN rename_row(acc.t, e) ELSE acc
    IN  after[Len(batch)]

\* Mutant: the update leaves file_uid out.
upsert_keeping_uid(row, e) ==
    [uid |-> IF row = NoRow THEN e.uid ELSE row.uid, ver |-> e.ver, seen |-> clock,
     status |-> IF row.ver = e.ver THEN row.status ELSE "pending"]

\* INSERT ... ON CONFLICT(source_id, path) DO UPDATE: the status survives an
\* unchanged size and mtime.
upsert_row(row, e) ==
    [uid |-> e.uid, ver |-> e.ver, seen |-> clock,
     status |-> IF row.ver = e.ver THEN row.status ELSE "pending"]

\* The entries the database takes, whose paths are distinct.  A statement that fails
\* for a chunk is repeated row by row (insert_rows_individually_tx), where an error is
\* only counted: the transaction commits without the rows that were refused.  A source
\* that is gone fails the foreign key of every row.
bulk_insert(t, entries) ==
    IF ~source THEN t
    ELSE [p \in Paths |-> IF \E e \in entries : e.path = p
                         THEN upsert_row(t[p], CHOOSE e \in entries : e.path = p) ELSE t[p]]

batch_upsert_files(t, batch, known, refused) ==
    LET renamed == apply_rename_updates(t, batch, known)
    IN  IF renamed.ok THEN [ok |-> TRUE, t |-> bulk_insert(renamed.t, Range(batch) \ refused)]
                      ELSE [ok |-> FALSE, t |-> t]

mark_deleted_files(t, before) ==
    [p \in Paths |-> IF t[p] # NoRow /\ t[p].seen < before
                     THEN [t[p] EXCEPT !.status = "deleted"] ELSE t[p]]

-----------------------------------------------------------------------------
(* A scan: Scanner::scan_with_cancel *)

Trouble == troubles < MaxTroubles /\ troubles' = troubles + 1

Goes(s, pc) == scan' = [scan EXCEPT ![s].pc = pc]

\* The thread is over; only whether its batches all succeeded is still known.
Ends(s, pc) ==
    /\ scan' = [scan EXCEPT ![s] = [IdleScan EXCEPT !.pc = pc, !.ok = scan[s].ok]]
    /\ missed' = [missed EXCEPT ![s] = {}]

Tell(s, event) == IF job[s] = "none" THEN events ELSE Append(events, <<s, event>>)

\* The command line or the terminal UI scans: there is no job.
ScanBegins(s) ==
    /\ source
    /\ clock' = clock + 1
    /\ scan' = [scan EXCEPT ![s] = [@ EXCEPT !.pc = "walk", !.start = clock + 1, !.todo = Paths]]
    /\ missed' = [missed EXCEPT ![s] = {}]
    /\ quiet' = IF Running \ {s} = {} /\ remover = "idle" /\ ~HardLinks THEN {s} ELSE {}

CliScan(s) ==
    /\ s \in CliScans /\ scan[s].pc = "idle"
    /\ ScanBegins(s)
    /\ UNCHANGED <<disk, files, source, count, folders, job, events, remover, troubles>>

\* handle_start_scan records the job and spawns the thread.
StartScan(s) ==
    /\ s \in Jobs /\ scan[s].pc = "idle"
    /\ Goes(s, "spawned")
    /\ job' = [job EXCEPT ![s] = "pending"]
    /\ UNCHANGED <<disk, files, source, count, folders, clock, events, remover,
                   troubles, missed, quiet>>

\* The thread opens its session and finds the source, or reports that it cannot.  When
\* the source was removed it makes a new one of the same path, unless a name or an
\* overlap forbids that: what it scans then is no part of this source.
ThreadStarts(s) ==
    /\ scan[s].pc = "spawned"
    /\ \/ /\ ScanBegins(s)
          /\ events' = Tell(s, "started")
          /\ UNCHANGED troubles
       \/ /\ IF source THEN Trouble ELSE UNCHANGED troubles
          /\ Ends(s, "failed")
          /\ events' = Tell(s, "failed")
          /\ UNCHANGED <<clock, quiet>>
       \/ /\ ~source
          /\ Goes(s, "elsewhere")
          /\ events' = Tell(s, "started")
          /\ UNCHANGED <<clock, quiet, troubles, missed>>
    /\ UNCHANGED <<disk, files, source, count, folders, job, remover>>

\* The walker reads one directory entry; a token that is set ends the walk.
Visit(s, p) ==
    /\ scan[s].pc = "walk"
    /\ ~scan[s].token
    /\ p \in scan[s].todo
    /\ scan' = [scan EXCEPT ![s].todo = @ \ {p},
                            ![s].found = IF disk[p] = NoFile THEN @
                                         ELSE @ \cup {[path |-> p, uid |-> disk[p].uid,
                                                       ver |-> disk[p].ver]}]
    /\ UNCHANGED <<disk, files, source, count, folders, clock, job, events, remover,
                   troubles, missed, quiet>>

\* An entry that cannot be read is reported among the errors and left out.
VisitError(s, p) ==
    /\ scan[s].pc = "walk"
    /\ ~scan[s].token
    /\ p \in scan[s].todo
    /\ disk[p] # NoFile
    /\ Trouble
    /\ scan' = [scan EXCEPT ![s].todo = @ \ {p}, ![s].errors = @ \cup {p}]
    /\ quiet' = quiet \ {s}
    /\ UNCHANGED <<disk, files, source, count, folders, clock, job, events, remover, missed>>

\* One transaction over a few entries.  One that fails clears scan_ok and loses them;
\* one that commits without some rows succeeds (persist_batch_streaming is Ok, and its
\* caller drops the count of the errors).
PersistBatch(s, batch) ==
    LET entries == Range(batch)
    IN
    /\ scan[s].pc = "walk"
    /\ batch # <<>> /\ entries \subseteq scan[s].found
    /\ clock' = clock
    /\ \/ \E known \in [Uids -> Paths], refused \in SUBSET entries :
             /\ \A u \in Uids : ExistingPaths(files, u) # {} => known[u] \in ExistingPaths(files, u)
             /\ \A u \in Uids : ExistingPaths(files, u) = {} => known[u] = CHOOSE p \in Paths : TRUE
             /\ LET result == batch_upsert_files(files, batch, known, refused)
                IN  /\ files' = result.t
                    /\ scan' = [scan EXCEPT ![s].found = @ \ entries,
                                            ![s].lost = @ \cup {e.path : e \in refused},
                                            ![s].ok = @ /\ result.ok,
                                            ![s].agg = IF result.ok
                                                       THEN @ \cup {e.path : e \in entries} ELSE @]
             /\ IF refused = {} THEN UNCHANGED <<troubles, quiet>>
                               ELSE Trouble /\ quiet' = quiet \ {s}
       \/ /\ Trouble
          /\ scan' = [scan EXCEPT ![s].found = @ \ entries, ![s].ok = FALSE]
          /\ quiet' = quiet \ {s}
          /\ UNCHANGED files
    /\ UNCHANGED <<disk, source, count, folders, job, events, remover, missed>>

\* Mutant: GAP-SCAN-001, a failed batch does not keep mark_deleted_files from running.
join_ignoring_failures(s) ==
    /\ scan[s].pc = "walk"
    /\ scan[s].found = {}
    /\ scan[s].todo = {} \/ scan[s].token
    /\ IF scan[s].token
       THEN Ends(s, "cancelled") /\ events' = Tell(s, "cancelled")
       ELSE Goes(s, "mark") /\ UNCHANGED <<events, missed>>
    /\ UNCHANGED <<disk, files, source, count, folders, clock, job, remover, troubles,
                   quiet>>

\* The walk is over (or was told to stop), every batch was taken, and the token is read.
JoinWalk(s) ==
    /\ scan[s].pc = "walk"
    /\ scan[s].found = {}
    /\ scan[s].todo = {} \/ scan[s].token
    /\ IF scan[s].token
       THEN Ends(s, "cancelled") /\ events' = Tell(s, "cancelled")
       ELSE Goes(s, IF scan[s].ok THEN "mark" ELSE "count") /\ UNCHANGED <<events, missed>>
    /\ UNCHANGED <<disk, files, source, count, folders, clock, job, remover, troubles,
                   quiet>>

\* The walk thread panics, or the scan subprocess exits with an error.
WalkDies(s) ==
    /\ scan[s].pc = "walk"
    /\ Trouble
    /\ Ends(s, "failed")
    /\ events' = Tell(s, "failed")
    /\ quiet' = quiet \ {s}
    /\ UNCHANGED <<disk, files, source, count, folders, clock, job, remover>>

MarkDeleted(s) ==
    /\ scan[s].pc = "mark"
    /\ \/ /\ files' = mark_deleted_files(files, scan[s].start)
          /\ Goes(s, "count")
          /\ UNCHANGED <<events, troubles, missed, quiet>>
       \/ /\ Trouble
          /\ Ends(s, "failed")
          /\ events' = Tell(s, "failed")
          /\ quiet' = quiet \ {s}
          /\ UNCHANGED files
    /\ UNCHANGED <<disk, source, count, folders, clock, job, remover>>

\* update_source_file_count; an error is only logged.
UpdateCount(s) ==
    /\ scan[s].pc = "count"
    /\ \/ count' = (IF source THEN Cardinality(scan[s].agg) ELSE count) /\ UNCHANGED <<troubles, quiet>>
       \/ Trouble /\ quiet' = quiet \ {s} /\ UNCHANGED count
    /\ Goes(s, "clear")
    /\ UNCHANGED <<disk, files, source, folders, clock, job, events, remover, missed>>

\* The scan returns and its thread tells so; nothing of it is shared after this, and
\* the token is no longer read, so it is one step with the last write before it.
Report(s) == Ends(s, "done") /\ events' = Tell(s, "completed")

\* Both ways to fill the folder cache first delete what it holds ...
ClearFolders(s) ==
    /\ scan[s].pc = "clear"
    /\ \/ /\ folders' = {}
          /\ IF source THEN Goes(s, "fill") /\ UNCHANGED <<events, missed>> ELSE Report(s)
          /\ UNCHANGED <<troubles, quiet>>
       \/ Trouble /\ Report(s) /\ quiet' = quiet \ {s} /\ UNCHANGED folders
    /\ UNCHANGED <<disk, files, source, count, clock, job, remover>>

\* ... and insert the scan's own counts, or after a failed batch the table's;
\* a row that is already there, or a source that is gone, fails the insert.
FillFolders(s) ==
    /\ scan[s].pc = "fill"
    /\ LET new == IF scan[s].ok THEN scan[s].agg ELSE Rows(files)
       IN  folders' = IF source /\ new \cap folders = {} THEN folders \cup new ELSE folders
    /\ Report(s)
    /\ UNCHANGED <<disk, files, source, count, clock, job, remover, troubles, quiet>>

\* The end of a scan of the new source.
ScanElsewhere(s) ==
    /\ scan[s].pc = "elsewhere"
    /\ \/ Report(s)
       \/ Ends(s, "failed") /\ events' = Tell(s, "failed")
       \/ scan[s].token /\ Ends(s, "cancelled") /\ events' = Tell(s, "cancelled")
    /\ UNCHANGED <<disk, files, source, count, folders, clock, job, remover, troubles, quiet>>

-----------------------------------------------------------------------------
(* The sentinel's scan jobs *)

\* Mutant: a failure is not passed on.
job_ignoring_failure(event) == IF event \in {"started", "failed"} THEN "running" ELSE event

JobAfter(event) == IF event = "started" THEN "running" ELSE event

\* drain_scan_events, one event.
DrainScanEvent ==
    /\ events # <<>>
    /\ job' = [job EXCEPT ![Head(events)[1]] = JobAfter(Head(events)[2])]
    /\ events' = Tail(events)
    /\ UNCHANGED <<disk, files, source, count, folders, clock, scan, remover, troubles,
                   missed, quiet>>

\* handle_cancel_scan, whatever state the job is in.
CancelScan(s) ==
    /\ job[s] # "none"
    /\ scan' = [scan EXCEPT ![s].token = @ \/ s \in Running]
    /\ job' = [job EXCEPT ![s] = "cancelled"]
    /\ UNCHANGED <<disk, files, source, count, folders, clock, events, remover, troubles,
                   missed, quiet>>

-----------------------------------------------------------------------------
(* delete_source: files, then the source, without a transaction *)

DeleteFiles ==
    /\ remover = "idle"
    /\ source
    /\ remover' = "files"
    /\ files' = [p \in Paths |-> NoRow]
    /\ quiet' = {}
    /\ UNCHANGED <<disk, source, count, folders, clock, scan, job, events, troubles, missed>>

\* Mutant: the foreign key is not enforced.
delete_unchecked ==
    /\ remover = "files"
    /\ source' = FALSE /\ folders' = {} /\ remover' = "done"
    /\ quiet' = {}
    /\ UNCHANGED <<disk, files, count, clock, scan, job, events, troubles, missed>>

\* The foreign key of scout_files refuses it when a scan has added rows meanwhile.
DeleteSourceRow ==
    /\ remover = "files"
    /\ IF Rows(files) = {}
       THEN source' = FALSE /\ folders' = {} /\ remover' = "done"
       ELSE remover' = "idle" /\ UNCHANGED <<source, folders>>
    /\ quiet' = {}
    /\ UNCHANGED <<disk, files, count, clock, scan, job, events, troubles, missed>>

-----------------------------------------------------------------------------
(* The files on disk *)

Edited(P) ==
    /\ Trouble
    /\ missed' = [s \in Scans |-> IF s \in Running THEN missed[s] \cup P ELSE {}]
    /\ quiet' = {}
    /\ UNCHANGED <<files, source, count, folders, clock, scan, job, events, remover>>

\* A file appears, changes, is replaced, comes back or goes away.
Edit(p, e) ==
    /\ disk[p] # e
    /\ disk' = [disk EXCEPT ![p] = e]
    /\ Edited({p})

\* mv p q
Move(p, q) ==
    /\ p # q /\ disk[p] # NoFile
    /\ disk' = [disk EXCEPT ![q] = disk[p], ![p] = NoFile]
    /\ Edited({p, q})

-----------------------------------------------------------------------------
Batches(S) ==
    {b \in UNION {[1 .. n -> S] : n \in 1 .. MaxBatch} :
        \A m, n \in DOMAIN b : b[m] = b[n] => m = n}

ScanStep(s) ==
    \/ ThreadStarts(s)
    \/ \E p \in Paths : Visit(s, p) \/ VisitError(s, p)
    \/ \E batch \in Batches(scan[s].found) : PersistBatch(s, batch)
    \/ JoinWalk(s) \/ WalkDies(s) \/ MarkDeleted(s)
    \/ UpdateCount(s) \/ ClearFolders(s) \/ FillFolders(s) \/ ScanElsewhere(s)

ScanRequest(s) == CliScan(s) \/ StartScan(s) \/ CancelScan(s)

DeleteSource == DeleteFiles \/ DeleteSourceRow

DiskChange ==
    \/ \E p \in Paths, e \in Entries \cup {NoFile} : Edit(p, e)
    \/ \E p, q \in Paths : Move(p, q)

Next ==
    \/ \E s \in Scans : ScanRequest(s) \/ ScanStep(s)
    \/ DrainScanEvent
    \/ DeleteSource
    \/ DiskChange

Spec == Init /\ [][Next]_vars

-----------------------------------------------------------------------------
(* Properties *)

\* Every variable stays in the range its code keeps it in.
TypeOK ==
    /\ disk \in [Paths -> Entries \cup {NoFile}]
    /\ \A p \in Paths : files[p] # NoRow =>
          /\ files[p].uid \in Uids /\ files[p].ver \in Versions
          /\ files[p].status \in {"pending", "deleted"}
          /\ files[p].seen \in 1 .. clock
    /\ source \in BOOLEAN /\ count \in 0 .. Cardinality(Paths) /\ folders \subseteq Paths
    /\ \A s \in Scans :
          /\ scan[s].pc \in {"idle", "spawned", "walk", "mark", "count", "clear", "fill",
                             "elsewhere", "done", "failed", "cancelled"}
          /\ scan[s].start \in 0 .. clock
          /\ {e.path : e \in scan[s].found} \cap scan[s].todo = {}
          /\ job[s] \in {"none", "pending", "running", "completed", "failed", "cancelled"}
    /\ remover \in {"idle", "files", "done"}

\* A file on disk that the scan s declares deleted in this step.
DeclaresDeleted(s, p) ==
    /\ scan[s].pc = "mark" /\ scan'[s].pc = "count"
    /\ files[p].status # "deleted" /\ files'[p].status = "deleted"
    /\ p \in OnDisk

(***************************************************************************)
(* What keeps a file on disk from being declared deleted: not a batch that *)
(* failed, not a walk that was cancelled half way, not another scan of the *)
(* same source.  Only a path that was edited, whose entry the walk could   *)
(* not read, or whose row the database refused in a batch that committed,  *)
(* may be lost: the comment on mark_deleted_files (scanner.rs:739, "only   *)
(* ... if ALL batches were persisted") does not hold of single rows.       *)
(***************************************************************************)
DeletedWasMissing ==
    [][\A s \in Scans, p \in Paths :
          DeclaresDeleted(s, p) => p \in missed[s] \cup scan[s].errors \cup scan[s].lost]_vars

\* The catalog shows the disk: identity and version of every file, and nothing else alive.
CatalogAgrees ==
    /\ \A p \in OnDisk : files[p].uid = disk[p].uid /\ files[p].ver = disk[p].ver
    /\ \A p \in Rows(files) \ OnDisk : files[p].status = "deleted"

(***************************************************************************)
(* After a scan that had the source to itself, saw no error and met no     *)
(* change, the catalog agrees with the disk whatever it held before:       *)
(* through renames, replaced and recycled inodes, and any order of the     *)
(* batches.  The file count and the folder cache agree with it too.        *)
(***************************************************************************)
QuietScanAgrees ==
    \A s \in quiet :
        /\ scan[s].ok /\ scan[s].pc \in {"count", "clear", "fill", "done"}
              => CatalogAgrees
        /\ scan[s].ok /\ scan[s].pc = "done"
              => count = Cardinality(OnDisk) /\ folders = OnDisk

(***************************************************************************)
(* Removing the source leaves nothing behind, however its three statements *)
(* interleave with the batches and the cache of a scan still under way.    *)
(***************************************************************************)
RemovedLeavesNothing == ~source => Rows(files) = {} /\ folders = {}

(***************************************************************************)
(* A scan job tells what became of its thread: when the thread has ended   *)
(* and the sentinel has drained its events, the job is over, in the state  *)
(* the thread ended in or the one a cancellation set, in whatever order    *)
(* the cancellation and the events were applied.                           *)
(***************************************************************************)
JobsTellTheOutcome ==
    \A s \in Jobs :
        events = <<>> /\ s \notin Running /\ job[s] # "none"
            => job[s] \in {scan[s].pc, "cancelled"} \cup (IF scan[s].pc = "done" THEN {"completed"} ELSE {})
=============================================================================
