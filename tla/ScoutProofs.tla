---------------------------- MODULE ScoutProofs ----------------------------
(***************************************************************************)
(* Theorems about Scout, for any paths, identities, versions, scans, batch *)
(* sizes and numbers of troubles.                                          *)
(***************************************************************************)
EXTENDS Scout, WellFoundedInduction, FiniteSetTheorems, TLAPS

(* Every non-empty set of numbers has a least one: what stands in for      *)
(* induction below.                                                        *)
LEMMA Least ==
    ASSUME NEW S \in SUBSET Nat, S # {}
    PROVE  \E x \in S : \A y \in S : x <= y
<1>1. \E x \in S : \A y \in S : ~(<<y, x>> \in OpToRel(<, Nat))
  BY NatLessThanWellFounded, WFMin
<1>2. PICK x \in S : \A y \in S : ~(<<y, x>> \in OpToRel(<, Nat))
  BY <1>1
<1>3. \A y \in S : ~(y < x)
  BY <1>2 DEF OpToRel
<1> QED BY <1>3

-----------------------------------------------------------------------------
(* The loop of apply_rename_updates_tx. *)

Row == [uid : Uids, ver : Versions, status : {"pending", "deleted"}, seen : Nat]

Table == [Paths -> Row \cup {NoRow}]

Entry == [path : Paths, uid : Uids, ver : Versions]

RenameBase(t) == [ok |-> TRUE, t |-> t]

RenameStep(t, acc, e, known) ==
    IF acc.ok /\ ExistingPaths(t, e.uid) # {} /\ known[e.uid] # e.path
    THEN rename_row(acc.t, e) ELSE acc

IsRenameFold(g, t, batch, known, N) ==
    g = [n \in 0 .. N |-> IF n = 0 THEN RenameBase(t)
                          ELSE RenameStep(t, g[n - 1], batch[n], known)]

LEMMA RenameFoldExists ==
    ASSUME NEW t, NEW batch, NEW known, NEW N \in Nat
    PROVE  \E g : IsRenameFold(g, t, batch, known, N)
<1> DEFINE Bad == {n \in Nat : ~\E g : IsRenameFold(g, t, batch, known, n)}
<1> SUFFICES ASSUME N \in Bad PROVE FALSE
  OBVIOUS
<1>1. PICK n \in Bad : \A m \in Bad : n <= m
  <2>1. Bad \in SUBSET Nat /\ Bad # {}
    OBVIOUS
  <2> HIDE DEF Bad
  <2> QED BY <2>1, Least
<1>2. n \in Nat
  OBVIOUS
<1>3. CASE n = 0
  <2> DEFINE g == [m \in 0 .. 0 |-> RenameBase(t)]
  <2>1. g = [m \in 0 .. 0 |-> IF m = 0 THEN RenameBase(t) ELSE RenameStep(t, g[m - 1], batch[m], known)]
    OBVIOUS
  <2>2. IsRenameFold(g, t, batch, known, 0)
    BY <2>1 DEF IsRenameFold
  <2> QED BY <1>3, <2>2
<1>4. CASE n # 0
  <2>1. n - 1 \in Nat /\ ~(n <= n - 1)
    BY <1>2, <1>4
  <2>2. n - 1 \notin Bad
    BY <1>1, <2>1
  <2>3. PICK g : IsRenameFold(g, t, batch, known, n - 1)
    BY <2>1, <2>2
  <2> DEFINE h == [m \in 0 .. n |-> IF m = n THEN RenameStep(t, g[n - 1], batch[n], known) ELSE g[m]]
  <2>4. \A m \in 0 .. n - 1 : g[m] = IF m = 0 THEN RenameBase(t)
                                      ELSE RenameStep(t, g[m - 1], batch[m], known)
    BY <2>3 DEF IsRenameFold
  <2>5. \A m \in 0 .. n : h[m] = IF m = 0 THEN RenameBase(t)
                                  ELSE RenameStep(t, h[m - 1], batch[m], known)
    <3> SUFFICES ASSUME NEW m \in 0 .. n
                 PROVE  h[m] = IF m = 0 THEN RenameBase(t) ELSE RenameStep(t, h[m - 1], batch[m], known)
      OBVIOUS
    <3>1. CASE m = n
      <4>1. h[m] = RenameStep(t, g[n - 1], batch[n], known) /\ h[m - 1] = g[n - 1]
        BY <1>2, <1>4, <3>1
      <4> QED BY <1>4, <3>1, <4>1
    <3>2. CASE m # n
      <4>1. m \in 0 .. n - 1 /\ h[m] = g[m]
        BY <1>2, <3>2
      <4>2. m # 0 => h[m - 1] = g[m - 1]
        BY <1>2, <3>2
      <4> QED BY <2>4, <4>1, <4>2
    <3> QED BY <3>1, <3>2
  <2>6. IsRenameFold(h, t, batch, known, n)
    <3>1. h = [m \in 0 .. n |-> h[m]]
      OBVIOUS
    <3> HIDE DEF h
    <3> QED BY <2>5, <3>1 DEF IsRenameFold
  <2> QED BY <2>6
<1> QED BY <1>3, <1>4

LEMMA RenameFold ==
    ASSUME NEW t, NEW batch, NEW known, Len(batch) \in Nat
    PROVE  \E g : /\ IsRenameFold(g, t, batch, known, Len(batch))
                  /\ apply_rename_updates(t, batch, known) = g[Len(batch)]
<1> DEFINE f == CHOOSE g : IsRenameFold(g, t, batch, known, Len(batch))
<1>1. IsRenameFold(f, t, batch, known, Len(batch))
  BY RenameFoldExists
<1>2. apply_rename_updates(t, batch, known) = f[Len(batch)]
  BY DEF apply_rename_updates, IsRenameFold, RenameBase, RenameStep
<1> QED BY <1>1, <1>2

-----------------------------------------------------------------------------
(* The inductive invariant. *)

PC == {"idle", "spawned", "walk", "mark", "count", "clear", "fill", "elsewhere", "done",
       "failed", "cancelled"}

Ended == {"done", "failed", "cancelled"}

\* Where a scan writes to the catalog.
Active == {"walk", "mark", "count", "clear", "fill"}

ScanRec == [pc : PC, start : Nat, todo : SUBSET Paths, found : SUBSET Entry,
            errors : SUBSET Paths, lost : SUBSET Paths, ok : BOOLEAN, token : BOOLEAN, agg : SUBSET Paths]

Event == {"started", "completed", "failed", "cancelled"}

JobState == {"none", "pending", "running", "completed", "failed", "cancelled"}

FoundAt(s, p) == \E e \in scan[s].found : e.path = p

\* The ranges of the variables.
TypeInv ==
    /\ disk \in [Paths -> Entries \cup {NoFile}]
    /\ files \in Table
    /\ source \in BOOLEAN
    /\ folders \in SUBSET Paths
    /\ clock \in Nat
    /\ scan \in [Scans -> ScanRec]
    /\ job \in [Scans -> JobState]
    /\ events \in Seq(Scans \X Event)
    /\ remover \in {"idle", "files", "done"}
    /\ missed \in [Scans -> SUBSET Paths]
    /\ quiet \in SUBSET Scans

\* Nothing is dated after the clock, a row only after the first scan began; a path
\* is not found before it is visited, nor anything before the walk.
DatedRows == \A p \in Paths : files[p] # NoRow => files[p].seen \in 1 .. clock

DatedScan(s) ==
    /\ scan[s].start <= clock
    /\ scan[s].pc \in Active => scan[s].start >= 1
    /\ \A e \in scan[s].found : e.path \notin scan[s].todo
    /\ scan[s].pc \in {"idle", "spawned"} => scan[s].found = {} /\ scan[s].agg = {}

DatesInv == DatedRows /\ \A s \in Scans : DatedScan(s)

\* Only jobs are told anything; the last thing an ended thread said is still queued,
\* or the job has heard it.
Outcome(s) == IF scan[s].pc = "done" THEN "completed" ELSE scan[s].pc

SaidLast(s) ==
    \E n \in 1 .. Len(events) : /\ events[n] = <<s, Outcome(s)>>
                                /\ \A m \in n + 1 .. Len(events) : events[m][1] # s

SaidNothing(s) == \A m \in 1 .. Len(events) : events[m][1] # s

ToldJob(s) ==
    /\ job[s] = "none" => SaidNothing(s)
    /\ job[s] # "none" =>
          /\ scan[s].pc # "idle"
          /\ scan[s].pc \in Ended =>
                SaidLast(s) \/ (SaidNothing(s) /\ job[s] \in {Outcome(s), "cancelled"})

JobsInv == \A s \in Scans : ToldJob(s)

\* While every batch succeeded, a file that the walk has passed undisturbed waits in
\* a batch, has no row, or has a row seen since the scan began.
SeenBy(s) ==
    /\ scan[s].pc \in {"walk", "mark"} /\ scan[s].ok =>
          \A p \in OnDisk \ (missed[s] \cup scan[s].errors \cup scan[s].lost \cup scan[s].todo) :
              FoundAt(s, p) \/ files[p] = NoRow \/ files[p].seen >= scan[s].start
    /\ scan[s].pc = "mark" => scan[s].ok /\ scan[s].todo = {} /\ scan[s].found = {}

SeenInv == \A s \in Scans : SeenBy(s)

Settled(s, p) ==
    files[p].uid = disk[p].uid /\ files[p].ver = disk[p].ver /\ files[p].seen >= scan[s].start

\* What a scan that has the source to itself knows while it walks.
QuietWalk(s) ==
    /\ \A e \in scan[s].found : e.uid = disk[e.path].uid /\ e.ver = disk[e.path].ver
    /\ \A p \in OnDisk : p \in scan[s].todo \/ FoundAt(s, p) \/ Settled(s, p)
    /\ \A p \in Paths : files[p] # NoRow /\ files[p].seen >= scan[s].start => p \in OnDisk
    /\ \A p \in Paths : p \in scan[s].agg <=> p \in OnDisk /\ p \notin scan[s].todo /\ ~FoundAt(s, p)

\* And afterwards.
QuietEnd(s) ==
    /\ scan[s].pc \in {"count", "clear", "fill", "done"} => CatalogAgrees
    /\ scan[s].pc \in {"count", "clear", "fill"} => scan[s].agg = OnDisk
    /\ scan[s].pc \in {"clear", "fill", "done"} => count = Cardinality(OnDisk)
    /\ scan[s].pc = "fill" => folders = {}
    /\ scan[s].pc = "done" => folders = OnDisk

QuietScan(s) ==
    /\ source /\ remover = "idle" /\ ~HardLinks
    /\ scan[s].pc \notin {"idle", "spawned", "elsewhere"}
    /\ \A t \in Scans \ {s} : scan[t].pc \notin Active
    /\ scan[s].ok => /\ scan[s].pc \in {"walk", "mark"} => QuietWalk(s)
                     /\ QuietEnd(s)

QuietInv == \A s \in quiet : QuietScan(s)

Inv == TypeInv /\ DatesInv /\ RemovedLeavesNothing /\ JobsInv /\ SeenInv /\ QuietInv

-----------------------------------------------------------------------------
(* What the statements of a batch do to the table. *)

LEMMA RowFacts ==
    /\ NoRow \notin Row
    /\ \A u \in Uids : u # "none"
    /\ \A r \in Row \cup {NoRow} : /\ r = NoRow <=> r.uid = "none"
                                   /\ r = NoRow \/ r \in Row
  BY ScoutAssumption DEF Row, NoRow

LEMMA RenameRowShape ==
    ASSUME NEW t \in Table, NEW e \in Entry, clock \in Nat
    PROVE  LET r == rename_row(t, e)
           IN  /\ r.ok \in BOOLEAN /\ r.t \in Table
               /\ \A p \in Paths : r.t[p] = t[p] \/ r.t[p] = NoRow \/ (p = e.path /\ r.t[p].seen = clock)
               /\ \A p \in Paths : p # e.path /\ t[p].uid # e.uid => r.t[p] = t[p]
<1> DEFINE from == {p \in Paths : t[p].uid = e.uid}
           taken == e.path \notin from /\ t[e.path] # NoRow
           r == rename_row(t, e)
           row == t[CHOOSE p \in from : TRUE]
           new == [p \in Paths |-> IF p = e.path THEN [row EXCEPT !.seen = clock]
                                   ELSE IF p \in from THEN NoRow ELSE t[p]]
<1>1. CASE from = {} \/ taken \/ \E p, q \in from : p # q
  <2>1. r.ok \in BOOLEAN /\ r.t = t
    BY <1>1 DEF rename_row
  <2> QED BY <2>1
<1>2. CASE ~(from = {} \/ taken \/ \E p, q \in from : p # q)
  <2>1. r = [ok |-> TRUE, t |-> new]
    BY <1>2 DEF rename_row
  <2>2. row \in Row
    <3>1. (CHOOSE p \in from : TRUE) \in from
      BY <1>2
    <3>2. row \in Row \cup {NoRow} /\ row.uid = e.uid /\ e.uid \in Uids
      BY <3>1 DEF Table, Entry
    <3> QED BY <3>2, RowFacts
  <2>3. [row EXCEPT !.seen = clock] \in Row /\ [row EXCEPT !.seen = clock].seen = clock
    BY <2>2 DEF Row
  <2> HIDE DEF row
  <2>4. new \in Table
    BY <2>3 DEF Table
  <2>5. r.ok \in BOOLEAN /\ r.t = new
    BY <2>1
  <2> QED BY <2>3, <2>4, <2>5
<1> QED BY <1>1, <1>2

\* What every prefix of the loop over a batch keeps of the table t.
RenameKeeps(acc, t, batch, N) ==
    /\ acc.ok \in BOOLEAN /\ acc.t \in Table
    /\ \A p \in Paths : \/ acc.t[p] = t[p] \/ acc.t[p] = NoRow
                        \/ acc.t[p].seen = clock /\ \E i \in 1 .. N : batch[i].path = p
    /\ \A p \in Paths : (\A i \in 1 .. N : batch[i].path # p /\ batch[i].uid # t[p].uid)
                           => acc.t[p] = t[p]
    /\ (\A i \in 1 .. N : ExistingPaths(t, batch[i].uid) = {}) => acc = RenameBase(t)

LEMMA RenameStepKeeps ==
    ASSUME NEW t \in Table, NEW N \in Nat, NEW batch \in [1 .. N -> Entry], NEW known, clock \in Nat,
           NEW acc, RenameKeeps(acc, t, batch, N), NEW i \in 1 .. N
    PROVE  RenameKeeps(RenameStep(t, acc, batch[i], known), t, batch, N)
<1> DEFINE e == batch[i]
           r == rename_row(acc.t, e)
           new == RenameStep(t, acc, e, known)
<1>1. CASE ~(acc.ok /\ ExistingPaths(t, e.uid) # {} /\ known[e.uid] # e.path)
  <2>1. new = acc
    BY <1>1 DEF RenameStep
  <2> QED BY <2>1
<1>2. CASE acc.ok /\ ExistingPaths(t, e.uid) # {} /\ known[e.uid] # e.path
  <2>1. new = r
    BY <1>2 DEF RenameStep
  <2>2. e \in Entry /\ acc.t \in Table
    BY DEF RenameKeeps
  <2>3. /\ r.ok \in BOOLEAN /\ r.t \in Table
        /\ \A p \in Paths : r.t[p] = acc.t[p] \/ r.t[p] = NoRow \/ (p = e.path /\ r.t[p].seen = clock)
        /\ \A p \in Paths : p # e.path /\ acc.t[p].uid # e.uid => r.t[p] = acc.t[p]
    BY <2>2, RenameRowShape
  <2> HIDE DEF r, new
  <2>4. \A p \in Paths : \/ r.t[p] = t[p] \/ r.t[p] = NoRow
                         \/ r.t[p].seen = clock /\ \E j \in 1 .. N : batch[j].path = p
    <3> TAKE p \in Paths
    <3>1. CASE r.t[p] = NoRow
      BY <3>1
    <3>2. CASE r.t[p] = acc.t[p]
      BY <3>2 DEF RenameKeeps
    <3>3. CASE p = e.path /\ r.t[p].seen = clock
      BY <3>3
    <3> QED BY <2>3, <3>1, <3>2, <3>3
  <2>5. ASSUME NEW p \in Paths, \A j \in 1 .. N : batch[j].path # p /\ batch[j].uid # t[p].uid
        PROVE  r.t[p] = t[p]
    <3>1. acc.t[p] = t[p]
      BY <2>5 DEF RenameKeeps
    <3>2. p # e.path /\ e.uid # acc.t[p].uid
      BY <2>5, <3>1
    <3> QED BY <2>3, <3>1, <3>2
  <2>6. ~\A j \in 1 .. N : ExistingPaths(t, batch[j].uid) = {}
    BY <1>2
  <2>7. \A p \in Paths : (\A j \in 1 .. N : batch[j].path # p /\ batch[j].uid # t[p].uid)
                             => r.t[p] = t[p]
    BY <2>5
  <2>8. r.ok \in BOOLEAN /\ r.t \in Table
    BY <2>3
  <2>9. RenameKeeps(r, t, batch, N)
    BY ONLY <2>4, <2>6, <2>7, <2>8 DEF RenameKeeps
  <2> QED BY <2>1, <2>9 DEF new
<1> QED BY <1>1, <1>2

LEMMA RenameFoldKeeps ==
    ASSUME NEW t \in Table, NEW N \in Nat, NEW batch \in [1 .. N -> Entry], NEW known, clock \in Nat,
           NEW g, IsRenameFold(g, t, batch, known, N)
    PROVE  \A n \in 0 .. N : RenameKeeps(g[n], t, batch, N)
<1> DEFINE Bad == {n \in 0 .. N : ~RenameKeeps(g[n], t, batch, N)}
<1> SUFFICES ASSUME Bad # {} PROVE FALSE
  OBVIOUS
<1>1. PICK n \in Bad : \A m \in Bad : n <= m
  <2>1. Bad \in SUBSET Nat /\ Bad # {}
    OBVIOUS
  <2> HIDE DEF Bad
  <2> QED BY <2>1, Least
<1>2. n \in 0 .. N /\ ~RenameKeeps(g[n], t, batch, N)
  OBVIOUS
<1>3. g[n] = IF n = 0 THEN RenameBase(t) ELSE RenameStep(t, g[n - 1], batch[n], known)
  BY <1>2 DEF IsRenameFold
<1>4. n # 0
  <2>1. RenameKeeps(RenameBase(t), t, batch, N)
    BY DEF RenameKeeps, RenameBase
  <2> QED BY <1>2, <1>3, <2>1
<1>5. n - 1 \in 0 .. N /\ ~(n <= n - 1) /\ n \in 1 .. N
  BY <1>2, <1>4
<1>6. RenameKeeps(g[n - 1], t, batch, N)
  BY <1>1, <1>5
<1>7. RenameKeeps(RenameStep(t, g[n - 1], batch[n], known), t, batch, N)
  BY <1>5, <1>6, RenameStepKeeps
<1> QED BY <1>2, <1>3, <1>4, <1>7

LEMMA BatchIsSequence ==
    ASSUME NEW S, NEW batch \in Batches(S)
    PROVE  /\ Len(batch) \in Nat
           /\ batch \in [1 .. Len(batch) -> S]
           /\ Range(batch) = {batch[i] : i \in 1 .. Len(batch)}
           /\ Range(batch) \in SUBSET S
<1>1. PICK n \in 1 .. MaxBatch : batch \in [1 .. n -> S]
  BY DEF Batches
<1>2. n \in Nat
  BY ScoutAssumption
<1>3. Len(batch) = n
  BY <1>1, <1>2
<1>4. DOMAIN batch = 1 .. n
  BY <1>1
<1> QED BY <1>1, <1>2, <1>3, <1>4 DEF Range

LEMMA UpsertRowShape ==
    ASSUME NEW row \in Row \cup {NoRow}, NEW e \in Entry, clock \in Nat
    PROVE  LET r == upsert_row(row, e)
           IN  r \in Row /\ r.uid = e.uid /\ r.ver = e.ver /\ r.seen = clock
<1>1. e.uid \in Uids /\ e.ver \in Versions /\ e.ver # "none"
  BY ScoutAssumption DEF Entry
<1>2. row.ver = e.ver => row.status \in {"pending", "deleted"}
  BY <1>1 DEF Row, NoRow
<1> QED BY <1>1, <1>2 DEF upsert_row, Row

\* What one transaction over a batch makes of the table.
LEMMA BatchShape ==
    ASSUME NEW t \in Table, NEW S \in SUBSET Entry, NEW batch \in Batches(S), NEW known,
           NEW refused, clock \in Nat
    PROVE  LET r == batch_upsert_files(t, batch, known, refused)
               E == Range(batch)
               W == E \ refused
           IN  /\ r.ok \in BOOLEAN /\ r.t \in Table
               /\ \A p \in Paths : \/ r.t[p] = t[p] \/ r.t[p] = NoRow
                                   \/ r.t[p].seen = clock /\ \E e \in E : e.path = p
               /\ r.ok /\ source => \A p \in Paths : (\E e \in W : e.path = p) =>
                     \E e \in W : /\ e.path = p /\ r.t[p].uid = e.uid /\ r.t[p].ver = e.ver
                                  /\ r.t[p].seen = clock
               /\ \A p \in Paths : (\A e \in E : e.path # p /\ e.uid # t[p].uid) => r.t[p] = t[p]
               /\ ~source /\ (\A p \in Paths : t[p] = NoRow) => r.t = t
<1> DEFINE N == Len(batch)
           E == Range(batch)
           W == E \ refused
           a == apply_rename_updates(t, batch, known)
           r == batch_upsert_files(t, batch, known, refused)
           new == bulk_insert(a.t, W)
<1>1. /\ N \in Nat /\ batch \in [1 .. N -> Entry]
      /\ E = {batch[i] : i \in 1 .. N} /\ E \in SUBSET Entry
  BY BatchIsSequence
<1>2. RenameKeeps(a, t, batch, N)
  <2>1. PICK g : IsRenameFold(g, t, batch, known, N) /\ a = g[N]
    BY <1>1, RenameFold
  <2>2. \A n \in 0 .. N : RenameKeeps(g[n], t, batch, N)
    BY <1>1, <2>1, RenameFoldKeeps
  <2> QED BY <1>1, <2>1, <2>2
<1> HIDE DEF a, E, N
<1>3. /\ a.ok \in BOOLEAN /\ a.t \in Table
      /\ \A p \in Paths : \/ a.t[p] = t[p] \/ a.t[p] = NoRow
                          \/ a.t[p].seen = clock /\ \E e \in E : e.path = p
      /\ \A p \in Paths : (\A e \in E : e.path # p /\ e.uid # t[p].uid) => a.t[p] = t[p]
      /\ (\A e \in E : ExistingPaths(t, e.uid) = {}) => a.t = t
  <2>1. a.ok \in BOOLEAN /\ a.t \in Table
    BY <1>2 DEF RenameKeeps
  <2>2. \A i \in 1 .. N : batch[i] \in E
    BY <1>1
  <2>3. \A p \in Paths : \/ a.t[p] = t[p] \/ a.t[p] = NoRow
                         \/ a.t[p].seen = clock /\ \E e \in E : e.path = p
    <3> TAKE p \in Paths
    <3>1. \/ a.t[p] = t[p] \/ a.t[p] = NoRow
          \/ a.t[p].seen = clock /\ \E i \in 1 .. N : batch[i].path = p
      BY <1>2 DEF RenameKeeps
    <3>2. (\E i \in 1 .. N : batch[i].path = p) => \E e \in E : e.path = p
      BY <2>2
    <3> QED BY <3>1, <3>2
  <2>4. \A p \in Paths : (\A e \in E : e.path # p /\ e.uid # t[p].uid) => a.t[p] = t[p]
    <3> TAKE p \in Paths
    <3>1. (\A i \in 1 .. N : batch[i].path # p /\ batch[i].uid # t[p].uid) => a.t[p] = t[p]
      BY <1>2 DEF RenameKeeps
    <3> QED BY <2>2, <3>1
  <2>5. (\A e \in E : ExistingPaths(t, e.uid) = {}) => a.t = t
    <3>1. (\A i \in 1 .. N : ExistingPaths(t, batch[i].uid) = {}) => a.t = t
      BY <1>2 DEF RenameKeeps, RenameBase
    <3> QED BY <2>2, <3>1
  <2> QED BY <2>1, <2>3, <2>4, <2>5
<1>w. W \in SUBSET E /\ W \in SUBSET Entry
  BY <1>1
<1> HIDE DEF W
<1>4. /\ new \in Table
      /\ \A p \in Paths : new[p] = a.t[p] \/ (new[p].seen = clock /\ \E e \in W : e.path = p)
      /\ \A p \in Paths : (\A e \in W : e.path # p) => new[p] = a.t[p]
      /\ source => \A p \in Paths : (\E e \in W : e.path = p) =>
            \E e \in W : e.path = p /\ new[p].uid = e.uid /\ new[p].ver = e.ver /\ new[p].seen = clock
      /\ ~source => new = a.t
  <2>1. CASE ~source
    BY <1>3, <2>1 DEF bulk_insert
  <2>2. CASE source
    <3> DEFINE At(p) == CHOOSE e \in W : e.path = p
    <3>1. new = [p \in Paths |-> IF \E e \in W : e.path = p
                                 THEN upsert_row(a.t[p], At(p)) ELSE a.t[p]]
      BY <2>2 DEF bulk_insert
    <3>2. ASSUME NEW p \in Paths, \E e \in W : e.path = p
          PROVE  /\ At(p) \in W /\ At(p).path = p /\ new[p] \in Row
                 /\ new[p].uid = At(p).uid /\ new[p].ver = At(p).ver /\ new[p].seen = clock
      <4>1. At(p) \in W /\ At(p).path = p
        BY <3>2
      <4>2. At(p) \in Entry /\ a.t[p] \in Row \cup {NoRow}
        BY <1>3, <1>w, <4>1 DEF Table
      <4>3. new[p] = upsert_row(a.t[p], At(p))
        BY <3>1, <3>2
      <4> HIDE DEF At, new
      <4> QED BY <4>1, <4>2, <4>3, UpsertRowShape
    <3>3. \A p \in Paths : (\A e \in W : e.path # p) => new[p] = a.t[p]
      BY <3>1
    <3>4. \A p \in Paths : (\E e \in W : e.path = p) =>
              /\ At(p) \in W /\ At(p).path = p /\ new[p] \in Row
              /\ new[p].uid = At(p).uid /\ new[p].ver = At(p).ver /\ new[p].seen = clock
      BY <3>2
    <3>5. new = [p \in Paths |-> new[p]]
      BY <3>1
    <3> HIDE DEF At, new
    <3>6. \A p \in Paths : new[p] \in Row \cup {NoRow}
      BY <1>3, <3>3, <3>4 DEF Table
    <3>7. new \in Table
      BY <3>5, <3>6 DEF Table
    <3>8. \A p \in Paths : new[p] = a.t[p] \/ (new[p].seen = clock /\ \E e \in W : e.path = p)
      BY <3>3, <3>4
    <3>9. \A p \in Paths : (\E e \in W : e.path = p) =>
            \E e \in W : e.path = p /\ new[p].uid = e.uid /\ new[p].ver = e.ver /\ new[p].seen = clock
      BY <3>4
    <3> QED BY <2>2, <3>3, <3>7, <3>8, <3>9
  <2> QED BY <2>1, <2>2
<1>5. r = IF a.ok THEN [ok |-> TRUE, t |-> new] ELSE [ok |-> FALSE, t |-> t]
  BY DEF batch_upsert_files, a, E, W
<1> HIDE DEF new, r
<1>6. CASE ~a.ok
  <2>1. r.ok = FALSE /\ r.t = t
    BY <1>5, <1>6
  <2> QED BY <2>1 DEF r, E, W
<1>7. CASE a.ok
  <2>1. r.ok = TRUE /\ r.t = new
    BY <1>5, <1>7
  <2>2. \A p \in Paths : \/ new[p] = t[p] \/ new[p] = NoRow
                         \/ new[p].seen = clock /\ \E e \in E : e.path = p
    BY <1>3, <1>4, <1>w
  <2>3. \A p \in Paths : (\A e \in E : e.path # p /\ e.uid # t[p].uid) => new[p] = t[p]
    BY <1>3, <1>4, <1>w
  <2>4. ASSUME ~source, \A p \in Paths : t[p] = NoRow
        PROVE  new = t
    <3>1. \A e \in E : ExistingPaths(t, e.uid) = {}
      BY <1>1, <2>4, RowFacts DEF ExistingPaths, Entry, NoRow
    <3> QED BY <1>3, <1>4, <2>4, <3>1
  <2> QED BY ZenonT(60), <1>4, <2>1, <2>2, <2>3, <2>4 DEF r, E, W
<1> QED BY <1>3, <1>6, <1>7

-----------------------------------------------------------------------------
(* What each step of a scan does to its record. *)

\* The other scans are where they were.
Others(s) == \A t \in Scans \ {s} : scan'[t] = scan[t]

LEMMA GoesShape ==
    ASSUME TypeInv, NEW s \in Scans, NEW pc \in PC, Goes(s, pc)
    PROVE  /\ scan' \in [Scans -> ScanRec] /\ Others(s)
           /\ scan'[s].pc = pc /\ scan'[s].start = scan[s].start
           /\ scan'[s].todo = scan[s].todo /\ scan'[s].found = scan[s].found
           /\ scan'[s].errors = scan[s].errors /\ scan'[s].lost = scan[s].lost /\ scan'[s].ok = scan[s].ok
           /\ scan'[s].token = scan[s].token /\ scan'[s].agg = scan[s].agg
  BY ZenonT(60) DEF TypeInv, ScanRec, PC, Others, Goes

LEMMA EndsShape ==
    ASSUME TypeInv, NEW s \in Scans, NEW pc \in Ended, Ends(s, pc)
    PROVE  /\ scan' \in [Scans -> ScanRec] /\ Others(s)
           /\ scan'[s].pc = pc /\ scan'[s].start = 0
           /\ scan'[s].todo = {} /\ scan'[s].found = {}
           /\ scan'[s].errors = {} /\ scan'[s].lost = {} /\ scan'[s].ok = scan[s].ok
           /\ scan'[s].token = FALSE /\ scan'[s].agg = {}
           /\ missed' \in [Scans -> SUBSET Paths]
           /\ \A t \in Scans \ {s} : missed'[t] = missed[t]
  BY DEF TypeInv, ScanRec, PC, Others, Ends, IdleScan, Ended

LEMMA BeginsShape ==
    ASSUME TypeInv, NEW s \in Scans, ScanBegins(s)
    PROVE  /\ scan' \in [Scans -> ScanRec] /\ Others(s)
           /\ scan'[s].pc = "walk" /\ scan'[s].start = clock + 1
           /\ scan'[s].todo = Paths /\ scan'[s].found = scan[s].found
           /\ scan'[s].errors = scan[s].errors /\ scan'[s].lost = scan[s].lost /\ scan'[s].ok = scan[s].ok
           /\ scan'[s].token = scan[s].token /\ scan'[s].agg = scan[s].agg
           /\ missed' \in [Scans -> SUBSET Paths]
           /\ \A t \in Scans \ {s} : missed'[t] = missed[t]
           /\ clock' = clock + 1 /\ source
           /\ quiet' \in SUBSET Scans /\ quiet' \in SUBSET {s}
<1> DEFINE r == [scan[s] EXCEPT !.pc = "walk", !.start = clock + 1, !.todo = Paths]
<1>1. /\ r \in ScanRec /\ r.pc = "walk" /\ r.start = clock + 1 /\ r.todo = Paths
      /\ r.found = scan[s].found /\ r.errors = scan[s].errors /\ r.lost = scan[s].lost /\ r.ok = scan[s].ok
      /\ r.token = scan[s].token /\ r.agg = scan[s].agg
  <2>1. scan[s] \in ScanRec /\ "walk" \in PC /\ clock + 1 \in Nat
    BY DEF TypeInv, PC
  <2> QED BY ONLY <2>1 DEF ScanRec
<1>2. scan' = [scan EXCEPT ![s] = r]
  BY DEF ScanBegins
<1> HIDE DEF r
<1>3. scan' \in [Scans -> ScanRec] /\ Others(s) /\ scan'[s] = r
  BY <1>1, <1>2 DEF TypeInv, Others
<1>4. /\ missed' \in [Scans -> SUBSET Paths]
      /\ \A t \in Scans \ {s} : missed'[t] = missed[t]
  BY DEF TypeInv, ScanBegins
<1>5. clock' = clock + 1 /\ source /\ (quiet' = {} \/ quiet' = {s})
  BY DEF ScanBegins
<1> QED BY <1>1, <1>3, <1>4, <1>5

LEMMA VisitShape ==
    ASSUME TypeInv, NEW s \in Scans, NEW p \in Paths, Visit(s, p)
    PROVE  /\ scan' \in [Scans -> ScanRec] /\ Others(s)
           /\ scan'[s].pc = scan[s].pc /\ scan'[s].start = scan[s].start
           /\ scan'[s].todo = scan[s].todo \ {p} /\ scan'[s].errors = scan[s].errors
           /\ scan'[s].lost = scan[s].lost
           /\ scan'[s].ok = scan[s].ok /\ scan'[s].token = scan[s].token
           /\ scan'[s].agg = scan[s].agg
           /\ disk[p] = NoFile => scan'[s].found = scan[s].found
           /\ disk[p] # NoFile =>
                 scan'[s].found = scan[s].found
                     \cup {[path |-> p, uid |-> disk[p].uid, ver |-> disk[p].ver]}
           /\ disk[p] # NoFile => [path |-> p, uid |-> disk[p].uid, ver |-> disk[p].ver] \in Entry
<1>1. disk[p] # NoFile => [path |-> p, uid |-> disk[p].uid, ver |-> disk[p].ver] \in Entry
  BY DEF TypeInv, Entries, Entry
<1> DEFINE F == IF disk[p] = NoFile THEN scan[s].found
                ELSE scan[s].found
                       \cup {[path |-> p, uid |-> disk[p].uid, ver |-> disk[p].ver]}
<1>2. F \in SUBSET Entry
  BY <1>1 DEF TypeInv, ScanRec
<1>3. /\ disk[p] = NoFile => F = scan[s].found
      /\ disk[p] # NoFile => F = scan[s].found
             \cup {[path |-> p, uid |-> disk[p].uid, ver |-> disk[p].ver]}
  OBVIOUS
<1>4. scan' = [scan EXCEPT ![s].todo = @ \ {p}, ![s].found = F]
  BY DEF Visit, TypeInv
<1> HIDE DEF F
<1>5. /\ scan' \in [Scans -> ScanRec] /\ Others(s)
      /\ scan'[s].pc = scan[s].pc /\ scan'[s].start = scan[s].start
      /\ scan'[s].todo = scan[s].todo \ {p} /\ scan'[s].found = F
      /\ scan'[s].errors = scan[s].errors /\ scan'[s].lost = scan[s].lost /\ scan'[s].ok = scan[s].ok
      /\ scan'[s].token = scan[s].token /\ scan'[s].agg = scan[s].agg
  BY ZenonT(60), <1>2, <1>4 DEF TypeInv, ScanRec, Others
<1> QED BY <1>1, <1>3, <1>5

LEMMA VisitErrorShape ==
    ASSUME TypeInv, NEW s \in Scans, NEW p \in Paths, VisitError(s, p)
    PROVE  /\ scan' \in [Scans -> ScanRec] /\ Others(s)
           /\ scan'[s].pc = scan[s].pc /\ scan'[s].start = scan[s].start
           /\ scan'[s].todo = scan[s].todo \ {p} /\ scan'[s].found = scan[s].found
           /\ scan'[s].errors = scan[s].errors \cup {p} /\ scan'[s].lost = scan[s].lost
           /\ scan'[s].ok = scan[s].ok
           /\ scan'[s].token = scan[s].token /\ scan'[s].agg = scan[s].agg
  BY ZenonT(60) DEF TypeInv, ScanRec, PC, Others, VisitError

\* The two outcomes of a batch.
Persists(s, batch, refused) ==
    \E known \in [Uids -> Paths] :
        LET result == batch_upsert_files(files, batch, known, refused)
        IN  /\ files' = result.t
            /\ scan' = [scan EXCEPT ![s].found = @ \ Range(batch),
                                    ![s].lost = @ \cup {e.path : e \in refused},
                                    ![s].ok = @ /\ result.ok,
                                    ![s].agg = IF result.ok
                                               THEN @ \cup {e.path : e \in Range(batch)} ELSE @]

PersistFails(s, batch) ==
    /\ scan' = [scan EXCEPT ![s].found = @ \ Range(batch), ![s].ok = FALSE]
    /\ quiet' = quiet \ {s} /\ files' = files

LEMMA PersistFailsShape ==
    ASSUME TypeInv, NEW s \in Scans, NEW batch, PersistFails(s, batch)
    PROVE  /\ scan' \in [Scans -> ScanRec] /\ Others(s)
           /\ scan'[s].pc = scan[s].pc /\ scan'[s].start = scan[s].start
           /\ scan'[s].todo = scan[s].todo /\ scan'[s].found = scan[s].found \ Range(batch)
           /\ scan'[s].errors = scan[s].errors /\ scan'[s].lost = scan[s].lost /\ scan'[s].ok = FALSE
           /\ scan'[s].agg = scan[s].agg
  BY ZenonT(60) DEF TypeInv, ScanRec, Others, PersistFails

LEMMA PersistsShape ==
    ASSUME TypeInv, NEW s \in Scans, NEW batch \in Batches(scan[s].found),
           NEW refused \in SUBSET Range(batch), Persists(s, batch, refused)
    PROVE  LET E == Range(batch)
               W == E \ refused
           IN
           /\ E \in SUBSET scan[s].found /\ E \in SUBSET Entry
           /\ scan' \in [Scans -> ScanRec] /\ Others(s)
           /\ scan'[s].pc = scan[s].pc /\ scan'[s].start = scan[s].start
           /\ scan'[s].todo = scan[s].todo /\ scan'[s].found = scan[s].found \ E
           /\ scan'[s].errors = scan[s].errors
           /\ scan'[s].lost = scan[s].lost \cup {e.path : e \in refused}
           /\ scan'[s].ok => scan[s].ok
           /\ scan'[s].ok => scan'[s].agg = scan[s].agg \cup {e.path : e \in E}
           /\ files' \in Table
           /\ \A p \in Paths : \/ files'[p] = files[p] \/ files'[p] = NoRow
                               \/ files'[p].seen = clock /\ \E e \in E : e.path = p
           /\ scan'[s].ok /\ source => \A p \in Paths : (\E e \in W : e.path = p) =>
                 \E e \in W : /\ e.path = p /\ files'[p].uid = e.uid /\ files'[p].ver = e.ver
                              /\ files'[p].seen = clock
           /\ \A p \in Paths : (\A e \in E : e.path # p /\ e.uid # files[p].uid)
                                  => files'[p] = files[p]
           /\ ~source /\ (\A p \in Paths : files[p] = NoRow) => files' = files
<1> DEFINE E == Range(batch)
           W == E \ refused
<1>1. PICK known \in [Uids -> Paths] :
        LET result == batch_upsert_files(files, batch, known, refused)
        IN  /\ files' = result.t
            /\ scan' = [scan EXCEPT ![s].found = @ \ E,
                                    ![s].lost = @ \cup {e.path : e \in refused},
                                    ![s].ok = @ /\ result.ok,
                                    ![s].agg = IF result.ok
                                               THEN @ \cup {e.path : e \in E} ELSE @]
  BY DEF Persists
<1> DEFINE r == batch_upsert_files(files, batch, known, refused)
<1>2. scan[s].found \in SUBSET Entry /\ files \in Table /\ clock \in Nat
  BY DEF TypeInv, ScanRec
<1>3. /\ r.ok \in BOOLEAN /\ r.t \in Table
      /\ \A p \in Paths : \/ r.t[p] = files[p] \/ r.t[p] = NoRow
                          \/ r.t[p].seen = clock /\ \E e \in E : e.path = p
      /\ r.ok /\ source => \A p \in Paths : (\E e \in W : e.path = p) =>
            \E e \in W : /\ e.path = p /\ r.t[p].uid = e.uid /\ r.t[p].ver = e.ver
                         /\ r.t[p].seen = clock
      /\ \A p \in Paths : (\A e \in E : e.path # p /\ e.uid # files[p].uid) => r.t[p] = files[p]
      /\ ~source /\ (\A p \in Paths : files[p] = NoRow) => r.t = files
  BY <1>2, BatchShape
<1>4. E \in SUBSET scan[s].found /\ E \in SUBSET Entry
  BY <1>2, BatchIsSequence
<1>5. {e.path : e \in E} \in SUBSET Paths /\ {e.path : e \in refused} \in SUBSET Paths
  BY <1>4 DEF Entry
<1> HIDE DEF r, E, W
<1>6. files' = r.t /\ scan' = [scan EXCEPT ![s].found = @ \ E,
                                    ![s].lost = @ \cup {e.path : e \in refused},
                                    ![s].ok = @ /\ r.ok,
                                    ![s].agg = IF r.ok THEN @ \cup {e.path : e \in E} ELSE @]
  BY <1>1 DEF r, E
<1> DEFINE P == {e.path : e \in E}
           L == {e.path : e \in refused}
<1>7. /\ scan' \in [Scans -> ScanRec] /\ Others(s)
      /\ scan'[s].pc = scan[s].pc /\ scan'[s].start = scan[s].start
      /\ scan'[s].todo = scan[s].todo /\ scan'[s].found = scan[s].found \ E
      /\ scan'[s].errors = scan[s].errors /\ scan'[s].lost = scan[s].lost \cup L
      /\ scan'[s].ok = (scan[s].ok /\ r.ok)
      /\ r.ok => scan'[s].agg = scan[s].agg \cup P
  <2> HIDE DEF P, L
  <2>1. scan' = [scan EXCEPT ![s].found = @ \ E, ![s].lost = @ \cup L,
                             ![s].ok = @ /\ r.ok, ![s].agg = IF r.ok THEN @ \cup P ELSE @]
    BY <1>6 DEF P, L
  <2>2. P \in SUBSET Paths /\ L \in SUBSET Paths
    BY <1>5 DEF P, L
  <2>3. scan \in [Scans -> ScanRec] /\ scan[s].ok \in BOOLEAN /\ r.ok \in BOOLEAN
    BY <1>3 DEF TypeInv, ScanRec
  <2> DEFINE k == scan[s].ok /\ r.ok
             M == scan[s].lost \cup L
             A == IF r.ok THEN scan[s].agg \cup P ELSE scan[s].agg
  <2>4. k \in BOOLEAN /\ M \in SUBSET Paths /\ A \in SUBSET Paths /\ (r.ok => A = scan[s].agg \cup P)
    BY <2>2, <2>3 DEF ScanRec
  <2>5. scan' = [scan EXCEPT ![s].found = @ \ E, ![s].lost = M, ![s].ok = k, ![s].agg = A]
    BY <2>1, <2>3
  <2> HIDE DEF k, A, M
  <2>6. /\ scan' \in [Scans -> ScanRec] /\ Others(s)
        /\ scan'[s].pc = scan[s].pc /\ scan'[s].start = scan[s].start
        /\ scan'[s].todo = scan[s].todo /\ scan'[s].found = scan[s].found \ E
        /\ scan'[s].errors = scan[s].errors /\ scan'[s].lost = M
        /\ scan'[s].ok = k /\ scan'[s].agg = A
    BY ZenonT(60), <2>3, <2>4, <2>5 DEF ScanRec, Others
  <2> QED BY <2>4, <2>6 DEF k, M
<1> QED BY <1>3, <1>4, <1>6, <1>7 DEF E, W

LEMMA CancelShape ==
    ASSUME TypeInv, NEW s \in Scans, CancelScan(s)
    PROVE  /\ scan' \in [Scans -> ScanRec] /\ Others(s)
           /\ scan'[s].pc = scan[s].pc /\ scan'[s].start = scan[s].start
           /\ scan'[s].todo = scan[s].todo /\ scan'[s].found = scan[s].found
           /\ scan'[s].errors = scan[s].errors /\ scan'[s].lost = scan[s].lost /\ scan'[s].ok = scan[s].ok
           /\ scan'[s].agg = scan[s].agg
           /\ scan'[s].token \in BOOLEAN
<1> DEFINE k == scan[s].token \/ s \in Running
<1>1. k \in BOOLEAN
  OBVIOUS
<1>2. scan' = [scan EXCEPT ![s].token = k]
  BY DEF CancelScan, TypeInv
<1> HIDE DEF k
<1> QED BY <1>1, <1>2 DEF TypeInv, ScanRec, Others

LEMMA PersistCases ==
    ASSUME NEW s \in Scans, NEW batch, PersistBatch(s, batch)
    PROVE  /\ scan[s].pc = "walk"
           /\ \/ PersistFails(s, batch)
              \/ \E refused \in SUBSET Range(batch) :
                    /\ Persists(s, batch, refused)
                    /\ (refused = {} /\ quiet' = quiet) \/ quiet' = quiet \ {s}
           /\ UNCHANGED <<disk, source, count, folders, clock, job, events, remover, missed>>
  BY DEF PersistBatch, Persists, PersistFails

LEMMA TellShape ==
    ASSUME TypeInv, NEW s \in Scans, NEW event \in Event
    PROVE  Tell(s, event) \in Seq(Scans \X Event)
<1>1. <<s, event>> \in Scans \X Event
  OBVIOUS
<1> QED BY <1>1 DEF Tell, TypeInv

-----------------------------------------------------------------------------
(* The variables keep their ranges. *)

LEMMA TypeInitially == Init => TypeInv
<1> SUFFICES ASSUME Init PROVE TypeInv
  OBVIOUS
<1>1. IdleScan \in ScanRec
  BY DEF IdleScan, ScanRec, PC
<1> QED BY <1>1 DEF Init, TypeInv, Table, JobState

LEMMA TypeScanStep ==
    ASSUME TypeInv, NEW s \in Scans, ScanRequest(s) \/ ScanStep(s)
    PROVE  TypeInv'
<1>1. CASE CliScan(s)
  BY <1>1, BeginsShape DEF CliScan, TypeInv
<1>2. CASE StartScan(s)
  <2>1. "spawned" \in PC /\ "pending" \in JobState
    BY DEF PC, JobState
  <2>2. scan' \in [Scans -> ScanRec]
    BY <1>2, <2>1, GoesShape DEF StartScan
  <2> QED BY <1>2, <2>1, <2>2 DEF StartScan, TypeInv
<1>3. CASE CancelScan(s)
  <2>1. "cancelled" \in JobState
    BY DEF JobState
  <2>2. scan' \in [Scans -> ScanRec]
    BY <1>3, CancelShape
  <2> QED BY <1>3, <2>1, <2>2 DEF CancelScan, TypeInv
<1>4. CASE ThreadStarts(s)
  <2>1. CASE ScanBegins(s) /\ events' = Tell(s, "started")
    <3>1. events' \in Seq(Scans \X Event)
      BY <2>1, TellShape DEF Event
    <3> QED BY <1>4, <2>1, <3>1, BeginsShape DEF ThreadStarts, TypeInv
  <2>2. CASE Ends(s, "failed") /\ events' = Tell(s, "failed") /\ UNCHANGED <<clock, quiet>>
    <3>1. events' \in Seq(Scans \X Event)
      BY <2>2, TellShape DEF Event
    <3>2. scan' \in [Scans -> ScanRec] /\ missed' \in [Scans -> SUBSET Paths]
      BY <2>2, EndsShape DEF Ended
    <3> QED BY <1>4, <2>2, <3>1, <3>2 DEF ThreadStarts, TypeInv
  <2>3. CASE Goes(s, "elsewhere") /\ events' = Tell(s, "started") /\ UNCHANGED <<clock, quiet, missed>>
    <3>1. events' \in Seq(Scans \X Event)
      BY <2>3, TellShape DEF Event
    <3>2. scan' \in [Scans -> ScanRec]
      BY <2>3, GoesShape DEF PC
    <3> QED BY <1>4, <2>3, <3>1, <3>2 DEF ThreadStarts, TypeInv
  <2> QED BY <1>4, <2>1, <2>2, <2>3 DEF ThreadStarts
<1>5. ASSUME NEW p \in Paths, Visit(s, p) PROVE TypeInv'
  <2>1. scan' \in [Scans -> ScanRec]
    BY <1>5, VisitShape
  <2> QED BY <1>5, <2>1 DEF Visit, TypeInv
<1>6. ASSUME NEW p \in Paths, VisitError(s, p) PROVE TypeInv'
  <2>1. scan' \in [Scans -> ScanRec]
    BY <1>6, VisitErrorShape
  <2> QED BY <1>6, <2>1 DEF VisitError, TypeInv
<1>7. ASSUME NEW batch \in Batches(scan[s].found), PersistBatch(s, batch) PROVE TypeInv'
  <2>1. UNCHANGED <<disk, source, count, folders, clock, job, events, remover, missed>>
    BY <1>7, PersistCases
  <2>2. ASSUME NEW refused \in SUBSET Range(batch), Persists(s, batch, refused),
               quiet' = quiet \/ quiet' = quiet \ {s}
        PROVE  TypeInv'
    <3>1. scan' \in [Scans -> ScanRec] /\ files' \in Table
      BY <2>2, PersistsShape
    <3> QED BY <2>1, <2>2, <3>1 DEF TypeInv
  <2>3. CASE PersistFails(s, batch)
    <3>1. scan' \in [Scans -> ScanRec]
      BY <2>3, PersistFailsShape
    <3> QED BY <2>1, <2>3, <3>1 DEF TypeInv, PersistFails
  <2> QED BY <1>7, <2>2, <2>3, PersistCases
<1>8. CASE JoinWalk(s)
  <2>1. CASE scan[s].token
    <3>1. Ends(s, "cancelled") /\ events' = Tell(s, "cancelled")
      BY <1>8, <2>1 DEF JoinWalk
    <3>2. events' \in Seq(Scans \X Event)
      BY <3>1, TellShape DEF Event
    <3>3. scan' \in [Scans -> ScanRec] /\ missed' \in [Scans -> SUBSET Paths]
      BY <3>1, EndsShape DEF Ended
    <3> QED BY <1>8, <3>2, <3>3 DEF JoinWalk, TypeInv
  <2>2. CASE ~scan[s].token
    <3>1. Goes(s, IF scan[s].ok THEN "mark" ELSE "count") /\ UNCHANGED <<events, missed>>
      BY <1>8, <2>2 DEF JoinWalk
    <3>2. scan' \in [Scans -> ScanRec]
      BY <3>1, GoesShape DEF PC
    <3> QED BY <1>8, <3>1, <3>2 DEF JoinWalk, TypeInv
  <2> QED BY <2>1, <2>2
<1>9. CASE WalkDies(s)
  <2>1. Ends(s, "failed") /\ events' = Tell(s, "failed")
    BY <1>9 DEF WalkDies
  <2>2. events' \in Seq(Scans \X Event)
    BY <2>1, TellShape DEF Event
  <2>3. scan' \in [Scans -> ScanRec] /\ missed' \in [Scans -> SUBSET Paths]
    BY <2>1, EndsShape DEF Ended
  <2> QED BY <1>9, <2>2, <2>3 DEF WalkDies, TypeInv
<1>10. CASE MarkDeleted(s)
  <2>1. CASE files' = mark_deleted_files(files, scan[s].start) /\ Goes(s, "count")
               /\ UNCHANGED <<events, troubles, missed, quiet>>
    <3>1. scan' \in [Scans -> ScanRec]
      BY <2>1, GoesShape DEF PC
    <3>2. files' \in Table
      BY <2>1 DEF TypeInv, Table, Row, NoRow, mark_deleted_files
    <3> QED BY <1>10, <2>1, <3>1, <3>2 DEF MarkDeleted, TypeInv
  <2>2. CASE Ends(s, "failed") /\ events' = Tell(s, "failed") /\ quiet' = quiet \ {s}
               /\ UNCHANGED files
    <3>1. events' \in Seq(Scans \X Event)
      BY <2>2, TellShape DEF Event
    <3>2. scan' \in [Scans -> ScanRec] /\ missed' \in [Scans -> SUBSET Paths]
      BY <2>2, EndsShape DEF Ended
    <3> QED BY <1>10, <2>2, <3>1, <3>2 DEF MarkDeleted, TypeInv
  <2> QED BY <1>10, <2>1, <2>2 DEF MarkDeleted
<1>11. CASE UpdateCount(s)
  <2>1. scan' \in [Scans -> ScanRec]
    BY <1>11, GoesShape DEF UpdateCount, PC
  <2>2. quiet' \in SUBSET Scans
    BY <1>11 DEF UpdateCount, TypeInv
  <2> QED BY <1>11, <2>1, <2>2 DEF UpdateCount, TypeInv
<1>12. CASE ClearFolders(s)
  <2>1. CASE Goes(s, "fill") /\ UNCHANGED <<events, missed>>
    <3>1. scan' \in [Scans -> ScanRec]
      BY <2>1, GoesShape DEF PC
    <3> QED BY <1>12, <2>1, <3>1 DEF ClearFolders, TypeInv
  <2>2. CASE Report(s)
    <3>1. events' \in Seq(Scans \X Event)
      BY <2>2, TellShape DEF Event, Report
    <3>2. scan' \in [Scans -> ScanRec] /\ missed' \in [Scans -> SUBSET Paths]
      BY <2>2, EndsShape DEF Ended, Report
    <3> QED BY <1>12, <2>2, <3>1, <3>2 DEF ClearFolders, TypeInv
  <2> QED BY <1>12, <2>1, <2>2 DEF ClearFolders
<1>13. CASE FillFolders(s)
  <2>1. events' \in Seq(Scans \X Event)
    BY <1>13, TellShape DEF Event, Report, FillFolders
  <2>2. scan' \in [Scans -> ScanRec] /\ missed' \in [Scans -> SUBSET Paths]
    BY <1>13, EndsShape DEF Ended, Report, FillFolders
  <2>3. folders' \in SUBSET Paths
    BY <1>13 DEF FillFolders, TypeInv, ScanRec, Rows
  <2> QED BY <1>13, <2>1, <2>2, <2>3 DEF FillFolders, TypeInv
<1>14. CASE ScanElsewhere(s)
  <2>1. PICK pc \in Ended, event \in Event : Ends(s, pc) /\ events' = Tell(s, event)
    BY <1>14 DEF ScanElsewhere, Report, Ended, Event
  <2>2. events' \in Seq(Scans \X Event)
    BY <2>1, TellShape
  <2>3. scan' \in [Scans -> ScanRec] /\ missed' \in [Scans -> SUBSET Paths]
    BY <2>1, EndsShape
  <2> QED BY <1>14, <2>2, <2>3 DEF ScanElsewhere, TypeInv
<1> QED BY <1>1, <1>2, <1>3, <1>4, <1>5, <1>6, <1>7, <1>8, <1>9, <1>10, <1>11, <1>12, <1>13, <1>14
        DEF ScanRequest, ScanStep

LEMMA TypeOtherStep ==
    ASSUME TypeInv, DrainScanEvent \/ DeleteSource \/ DiskChange
    PROVE  TypeInv'
<1>1. CASE DrainScanEvent
  <2>1. Head(events) \in Scans \X Event /\ Tail(events) \in Seq(Scans \X Event)
    BY <1>1 DEF TypeInv, DrainScanEvent
  <2>2. Head(events)[1] \in Scans /\ Head(events)[2] \in Event
    BY <2>1
  <2>3. JobAfter(Head(events)[2]) \in JobState
    BY <2>2 DEF JobAfter, Event, JobState
  <2>4. job' \in [Scans -> JobState]
    BY <1>1, <2>2, <2>3 DEF DrainScanEvent, TypeInv
  <2> QED BY <1>1, <2>1, <2>4 DEF DrainScanEvent, TypeInv
<1>2. CASE DeleteFiles
  <2>1. files' \in Table
    BY <1>2 DEF DeleteFiles, Table
  <2> QED BY <1>2, <2>1 DEF DeleteFiles, TypeInv
<1>3. CASE DeleteSourceRow
  BY <1>3 DEF DeleteSourceRow, TypeInv
<1>4. ASSUME NEW P \in SUBSET Paths, Edited(P), disk' \in [Paths -> Entries \cup {NoFile}]
      PROVE  TypeInv'
  <2>1. missed' \in [Scans -> SUBSET Paths]
    BY <1>4 DEF Edited, TypeInv
  <2> QED BY <1>4, <2>1 DEF Edited, TypeInv
<1>5. ASSUME NEW p \in Paths, NEW e \in Entries \cup {NoFile}, Edit(p, e)
      PROVE  TypeInv'
  <2>1. disk' \in [Paths -> Entries \cup {NoFile}] /\ Edited({p})
    BY <1>5 DEF Edit, TypeInv
  <2> QED BY <1>4, <2>1
<1>6. ASSUME NEW p \in Paths, NEW q \in Paths, Move(p, q)
      PROVE  TypeInv'
  <2>1. disk' \in [Paths -> Entries \cup {NoFile}] /\ Edited({p, q})
    BY <1>6 DEF Move, TypeInv
  <2> QED BY <1>4, <2>1
<1> QED BY <1>1, <1>2, <1>3, <1>5, <1>6 DEF DeleteSource, DiskChange

LEMMA TypeNext == TypeInv /\ [Next]_vars => TypeInv'
<1> SUFFICES ASSUME TypeInv, [Next]_vars PROVE TypeInv'
  OBVIOUS
<1>1. CASE Next
  BY <1>1, TypeScanStep, TypeOtherStep DEF Next
<1>2. CASE UNCHANGED vars
  BY <1>2 DEF vars, TypeInv
<1> QED BY <1>1, <1>2

-----------------------------------------------------------------------------
(* The dates. *)

LEMMA DatesScanStep ==
    ASSUME TypeInv, TypeInv', DatesInv, NEW s \in Scans, ScanRequest(s) \/ ScanStep(s)
    PROVE  DatesInv'
<1> USE DEF Active, Ended
<1>0. /\ scan[s].found \in SUBSET Entry /\ scan[s].start \in Nat /\ clock \in Nat
      /\ DatedRows /\ DatedScan(s)
  BY DEF TypeInv, ScanRec, DatesInv
<1>a. ASSUME Others(s), clock' = clock \/ clock' = clock + 1, DatedRows', DatedScan(s)'
      PROVE  DatesInv'
  <2>1. ASSUME NEW t \in Scans PROVE DatedScan(t)'
    <3>1. DatedScan(t) /\ scan[t].start \in Nat /\ clock <= clock'
      BY <1>a, <1>0 DEF DatesInv, TypeInv, ScanRec
    <3>2. CASE t # s
      BY <1>a, <1>0, <3>1, <3>2 DEF Others, DatedScan
    <3> QED BY <1>a, <3>2
  <2> QED BY <1>a, <2>1 DEF DatesInv
<1>b. ASSUME UNCHANGED files, clock' = clock \/ clock' = clock + 1
      PROVE  DatedRows'
  BY <1>b, <1>0 DEF DatedRows, TypeInv, Table, Row, NoRow
<1>1. ASSUME ScanBegins(s), UNCHANGED files, scan[s].pc \in {"idle", "spawned"}
      PROVE  DatesInv'
  <2>1. /\ Others(s) /\ scan'[s].pc = "walk" /\ scan'[s].start = clock + 1
        /\ scan'[s].found = scan[s].found /\ scan'[s].todo = Paths /\ clock' = clock + 1
    BY <1>1, BeginsShape
  <2>2. scan'[s].found = {}
    BY <1>0, <1>1, <2>1 DEF DatedScan
  <2>3. DatedScan(s)'
    BY <1>0, <2>1, <2>2 DEF DatedScan
  <2> QED BY <1>a, <1>b, <1>1, <2>1, <2>3
<1>2. ASSUME NEW pc \in Ended, Ends(s, pc), UNCHANGED <<files, clock>>
      PROVE  DatesInv'
  <2>1. /\ Others(s) /\ scan'[s].pc = pc /\ scan'[s].start = 0
        /\ scan'[s].found = {} /\ scan'[s].todo = {}
    BY <1>2, EndsShape
  <2>2. DatedScan(s)'
    BY <1>0, <1>2, <2>1 DEF DatedScan
  <2> QED BY <1>a, <1>b, <1>2, <2>1, <2>2
<1>3. ASSUME NEW pc \in PC, Goes(s, pc), UNCHANGED clock, DatedRows',
             pc \in Active => scan[s].pc \in Active, pc = "spawned" => scan[s].pc = "idle", pc # "idle"
      PROVE  DatesInv'
  <2>1. /\ Others(s) /\ scan'[s].pc = pc /\ scan'[s].start = scan[s].start
        /\ scan'[s].found = scan[s].found /\ scan'[s].todo = scan[s].todo
        /\ scan'[s].agg = scan[s].agg
    BY <1>3, GoesShape
  <2>2. DatedScan(s)'
    BY <1>0, <1>3, <2>1 DEF DatedScan
  <2> QED BY <1>a, <1>3, <2>1, <2>2
<1>4. CASE CliScan(s)
  BY <1>1, <1>4 DEF CliScan
<1>5. CASE StartScan(s)
  <2>1. Goes(s, "spawned") /\ UNCHANGED <<files, clock>> /\ scan[s].pc = "idle"
    BY <1>5 DEF StartScan
  <2> QED BY <1>3, <1>b, <2>1 DEF PC
<1>6. CASE CancelScan(s)
  <2>1. /\ Others(s) /\ scan'[s].pc = scan[s].pc /\ scan'[s].start = scan[s].start
        /\ scan'[s].found = scan[s].found /\ scan'[s].todo = scan[s].todo
        /\ scan'[s].agg = scan[s].agg
    BY <1>6, CancelShape
  <2>2. UNCHANGED <<files, clock>>
    BY <1>6 DEF CancelScan
  <2>3. DatedScan(s)'
    BY <1>0, <2>1, <2>2 DEF DatedScan
  <2> QED BY <1>a, <1>b, <2>1, <2>2, <2>3
<1>7. CASE ThreadStarts(s)
  <2>1. CASE ScanBegins(s)
    BY <1>1, <1>7, <2>1 DEF ThreadStarts
  <2>2. CASE Ends(s, "failed") /\ UNCHANGED clock
    BY <1>2, <1>7, <2>2 DEF ThreadStarts
  <2>3. CASE Goes(s, "elsewhere") /\ UNCHANGED clock
    BY <1>3, <1>b, <1>7, <2>3 DEF ThreadStarts, PC
  <2> QED BY <1>7, <2>1, <2>2, <2>3 DEF ThreadStarts
<1>8. ASSUME NEW p \in Paths, Visit(s, p) PROVE DatesInv'
  <2>1. /\ Others(s) /\ scan'[s].pc = scan[s].pc /\ scan'[s].start = scan[s].start
        /\ scan'[s].todo = scan[s].todo \ {p}
        /\ scan'[s].found \subseteq scan[s].found
              \cup {[path |-> p, uid |-> disk[p].uid, ver |-> disk[p].ver]}
    BY <1>8, VisitShape
  <2>2. UNCHANGED <<files, clock>> /\ scan[s].pc = "walk" /\ p \in scan[s].todo
    BY <1>8 DEF Visit
  <2>3. \A e \in scan'[s].found : e.path \notin scan'[s].todo
    BY <1>0, <2>1 DEF DatedScan
  <2>4. DatedScan(s)'
    BY <1>0, <2>1, <2>2, <2>3 DEF DatedScan
  <2> QED BY <1>a, <1>b, <2>1, <2>2, <2>4
<1>9. ASSUME NEW p \in Paths, VisitError(s, p) PROVE DatesInv'
  <2>1. /\ Others(s) /\ scan'[s].pc = scan[s].pc /\ scan'[s].start = scan[s].start
        /\ scan'[s].todo = scan[s].todo \ {p} /\ scan'[s].found = scan[s].found
    BY <1>9, VisitErrorShape
  <2>2. UNCHANGED <<files, clock>> /\ scan[s].pc = "walk"
    BY <1>9 DEF VisitError
  <2>3. DatedScan(s)'
    BY <1>0, <2>1, <2>2 DEF DatedScan
  <2> QED BY <1>a, <1>b, <2>1, <2>2, <2>3
<1>10. ASSUME NEW batch \in Batches(scan[s].found), PersistBatch(s, batch) PROVE DatesInv'
  <2>1. UNCHANGED clock /\ scan[s].pc = "walk"
    BY <1>10, PersistCases
  <2>2. ASSUME NEW refused \in SUBSET Range(batch), Persists(s, batch, refused)
        PROVE  DatesInv'
    <3>1. /\ Others(s) /\ scan'[s].pc = scan[s].pc /\ scan'[s].start = scan[s].start
          /\ scan'[s].todo = scan[s].todo /\ scan'[s].found = scan[s].found \ Range(batch)
          /\ \A p \in Paths : files'[p] = files[p] \/ files'[p] = NoRow \/ files'[p].seen = clock
      BY <2>2, PersistsShape
    <3>2. clock >= 1
      BY <1>0, <2>1 DEF DatedScan
    <3>3. DatedRows'
      BY <1>0, <2>1, <3>1, <3>2 DEF DatedRows
    <3>4. DatedScan(s)'
      BY <1>0, <2>1, <3>1 DEF DatedScan
    <3> QED BY <1>a, <2>1, <3>1, <3>3, <3>4
  <2>3. CASE PersistFails(s, batch)
    <3>1. /\ Others(s) /\ scan'[s].pc = scan[s].pc /\ scan'[s].start = scan[s].start
          /\ scan'[s].todo = scan[s].todo /\ scan'[s].found = scan[s].found \ Range(batch)
      BY <2>3, PersistFailsShape
    <3>2. DatedScan(s)'
      BY <1>0, <2>1, <3>1 DEF DatedScan
    <3> QED BY <1>a, <1>b, <2>1, <2>3, <3>1, <3>2 DEF PersistFails
  <2> QED BY <1>10, <2>2, <2>3, PersistCases
<1>11. CASE JoinWalk(s)
  <2>1. UNCHANGED <<files, clock>> /\ scan[s].pc = "walk"
        /\ (Ends(s, "cancelled") \/ Goes(s, "mark") \/ Goes(s, "count"))
    BY <1>11 DEF JoinWalk
  <2> QED BY <1>2, <1>3, <1>b, <2>1 DEF PC
<1>12. CASE WalkDies(s)
  BY <1>2, <1>12 DEF WalkDies
<1>13. CASE MarkDeleted(s)
  <2>1. CASE Ends(s, "failed") /\ UNCHANGED files
    BY <1>2, <1>13, <2>1 DEF MarkDeleted
  <2>2. CASE files' = mark_deleted_files(files, scan[s].start) /\ Goes(s, "count")
    <3>1. UNCHANGED clock /\ scan[s].pc = "mark"
      BY <1>13 DEF MarkDeleted
    <3>2. DatedRows'
      BY <1>0, <2>2, <3>1 DEF DatedRows, mark_deleted_files, TypeInv, Table, Row, NoRow
    <3> QED BY <1>3, <2>2, <3>1, <3>2 DEF PC
  <2> QED BY <1>13, <2>1, <2>2 DEF MarkDeleted
<1>14. CASE UpdateCount(s)
  <2>1. UNCHANGED <<files, clock>> /\ scan[s].pc = "count" /\ Goes(s, "clear")
    BY <1>14 DEF UpdateCount
  <2> QED BY <1>3, <1>b, <2>1 DEF PC
<1>15. CASE ClearFolders(s)
  <2>1. UNCHANGED <<files, clock>> /\ scan[s].pc = "clear" /\ (Goes(s, "fill") \/ Ends(s, "done"))
    BY <1>15 DEF ClearFolders, Report
  <2> QED BY <1>2, <1>3, <1>b, <2>1 DEF PC
<1>16. CASE FillFolders(s)
  BY <1>2, <1>16 DEF FillFolders, Report
<1>17. CASE ScanElsewhere(s)
  BY <1>2, <1>17 DEF ScanElsewhere, Report
<1> QED BY <1>4, <1>5, <1>6, <1>7, <1>8, <1>9, <1>10, <1>11, <1>12, <1>13, <1>14, <1>15, <1>16, <1>17
        DEF ScanRequest, ScanStep

LEMMA DatesNext == TypeInv /\ DatesInv /\ [Next]_vars => DatesInv'
<1> SUFFICES ASSUME TypeInv, DatesInv, [Next]_vars PROVE DatesInv'
  OBVIOUS
<1>1. TypeInv'
  BY TypeNext
<1>2. ASSUME NEW s \in Scans, ScanRequest(s) \/ ScanStep(s) PROVE DatesInv'
  BY <1>1, <1>2, DatesScanStep
<1>3. ASSUME UNCHANGED <<clock, scan>>, UNCHANGED files \/ \A p \in Paths : files'[p] = NoRow
      PROVE  DatesInv'
  BY <1>3 DEF DatesInv, DatedRows, DatedScan
<1>4. CASE DrainScanEvent
  BY <1>3, <1>4 DEF DrainScanEvent
<1>5. CASE DeleteFiles
  BY <1>3, <1>5 DEF DeleteFiles
<1>6. CASE DeleteSourceRow
  BY <1>3, <1>6 DEF DeleteSourceRow
<1>7. CASE DiskChange
  BY <1>3, <1>7 DEF DiskChange, Edit, Move, Edited
<1>8. CASE UNCHANGED vars
  BY <1>3, <1>8 DEF vars
<1> QED BY <1>2, <1>4, <1>5, <1>6, <1>7, <1>8 DEF Next, DeleteSource

-----------------------------------------------------------------------------
(* The removal of the source. *)

LEMMA RemovedNext == TypeInv /\ RemovedLeavesNothing /\ [Next]_vars => RemovedLeavesNothing'
<1> SUFFICES ASSUME TypeInv, RemovedLeavesNothing, [Next]_vars PROVE RemovedLeavesNothing'
  OBVIOUS
<1> DEFINE Empty == \A p \in Paths : files[p] = NoRow
<1>0. ~source => Empty /\ folders = {}
  BY DEF RemovedLeavesNothing, Rows
<1>a. ASSUME source' = source, source \/ folders' = {}, source \/ files' = files
      PROVE  RemovedLeavesNothing'
  BY <1>0, <1>a DEF RemovedLeavesNothing, Rows
<1>1. ASSUME NEW s \in Scans, ScanRequest(s) \/ ScanStep(s) PROVE RemovedLeavesNothing'
  <2>1. CASE CliScan(s) \/ StartScan(s) \/ CancelScan(s) \/ ThreadStarts(s)
    BY <1>0, <1>a, <2>1 DEF CliScan, StartScan, CancelScan, ThreadStarts
  <2>2. CASE \E p \in Paths : Visit(s, p) \/ VisitError(s, p)
    BY <1>0, <1>a, <2>2 DEF Visit, VisitError
  <2>3. ASSUME NEW batch \in Batches(scan[s].found), PersistBatch(s, batch)
        PROVE  RemovedLeavesNothing'
    <3>1. UNCHANGED <<source, folders>>
          /\ (files' = files \/ \E refused \in SUBSET Range(batch) : Persists(s, batch, refused))
      BY <2>3, PersistCases DEF PersistFails
    <3>2. (\E refused \in SUBSET Range(batch) : Persists(s, batch, refused)) => (~source /\ Empty => files' = files)
      BY PersistsShape
    <3> QED BY <1>0, <1>a, <3>1, <3>2
  <2>4. CASE JoinWalk(s) \/ WalkDies(s) \/ UpdateCount(s)
    BY <1>0, <1>a, <2>4 DEF JoinWalk, WalkDies, UpdateCount
  <2>5. CASE MarkDeleted(s)
    <3>1. Empty /\ files' = mark_deleted_files(files, scan[s].start) => files' = files
      BY DEF mark_deleted_files, TypeInv, Table
    <3> QED BY <1>0, <1>a, <2>5, <3>1 DEF MarkDeleted
  <2>6. CASE ClearFolders(s) \/ FillFolders(s)
    BY <1>0, <1>a, <2>6 DEF ClearFolders, FillFolders
  <2>7. CASE ScanElsewhere(s)
    BY <1>0, <1>a, <2>7 DEF ScanElsewhere
  <2> QED BY <1>1, <2>1, <2>2, <2>3, <2>4, <2>5, <2>6, <2>7 DEF ScanRequest, ScanStep
<1>2. CASE DrainScanEvent
  BY <1>0, <1>a, <1>2 DEF DrainScanEvent
<1>3. CASE DeleteFiles
  BY <1>3 DEF DeleteFiles, RemovedLeavesNothing
<1>4. CASE DeleteSourceRow
  BY <1>0, <1>4 DEF DeleteSourceRow, RemovedLeavesNothing, Rows
<1>5. CASE DiskChange
  BY <1>0, <1>a, <1>5 DEF DiskChange, Edit, Move, Edited
<1>6. CASE UNCHANGED vars
  BY <1>0, <1>a, <1>6 DEF vars
<1> QED BY <1>1, <1>2, <1>3, <1>4, <1>5, <1>6 DEF Next, DeleteSource

-----------------------------------------------------------------------------
(* What the threads say and what the jobs hear. *)

\* A thread of s that tells something as it moves on.
LEMMA JobsTold ==
    ASSUME TypeInv, TypeInv', JobsInv, NEW s \in Scans, Others(s), NEW event \in Event,
           events' = events \/ (events' = Tell(s, event) /\ event = Outcome(s)')
                            \/ (events' = Tell(s, event) /\ scan'[s].pc \notin Ended),
           scan'[s].pc \in Ended => events' = Tell(s, event),
           scan'[s].pc # "idle", job' = job
    PROVE  JobsInv'
<1> DEFINE L == Len(events)
<1>0. /\ events \in Seq(Scans \X Event) /\ L \in Nat
      /\ \A n \in 1 .. L : events[n] \in Scans \X Event
  BY DEF TypeInv
<1>1. CASE job[s] = "none"
  <2>1. events' = events
    BY <1>1 DEF Tell
  <2>2. ASSUME NEW t \in Scans PROVE ToldJob(t)'
    <3>1. CASE t = s
      BY <1>1, <2>1, <3>1 DEF ToldJob, JobsInv, SaidNothing
    <3>2. CASE t # s
      <4>1. scan'[t] = scan[t] /\ ToldJob(t)
        BY <3>2 DEF Others, JobsInv
      <4> QED BY <2>1, <4>1 DEF ToldJob, SaidLast, SaidNothing, Outcome
    <3> QED BY <3>1, <3>2
  <2> QED BY <2>2 DEF JobsInv
<1>2. CASE job[s] # "none" /\ events' # events
  <2>1. events' = Append(events, <<s, event>>)
    BY <1>2 DEF Tell
  <2>2. /\ Len(events') = L + 1 /\ events'[L + 1] = <<s, event>>
        /\ \A n \in 1 .. L : events'[n] = events[n]
    BY <1>0, <2>1
  <2>3. ASSUME NEW t \in Scans PROVE ToldJob(t)'
    <3>1. CASE t = s
      <4>1. CASE scan'[s].pc \in Ended
        <5>1. event = Outcome(s)'
          BY <1>2, <4>1
        <5>2. L + 1 \in 1 .. Len(events') /\ \A m \in (L + 1) + 1 .. Len(events') : FALSE
          BY <1>0, <2>2
        <5>3. SaidLast(s)'
          BY <2>2, <5>1, <5>2 DEF SaidLast
        <5> QED BY <1>2, <3>1, <5>3 DEF ToldJob
      <4>2. CASE scan'[s].pc \notin Ended
        BY <1>2, <3>1, <4>2 DEF ToldJob
      <4> QED BY <4>1, <4>2
    <3>2. CASE t # s
      <4>1. scan'[t] = scan[t] /\ ToldJob(t) /\ Outcome(t)' = Outcome(t)
        BY <3>2 DEF Others, JobsInv, Outcome
      <4>2. SaidLast(t) => SaidLast(t)'
        <5> SUFFICES ASSUME SaidLast(t) PROVE SaidLast(t)'
          OBVIOUS
        <5>1. PICK n \in 1 .. L : /\ events[n] = <<t, Outcome(t)>>
                                  /\ \A m \in n + 1 .. L : events[m][1] # t
          BY DEF SaidLast
        <5>2. n \in 1 .. Len(events') /\ events'[n] = <<t, Outcome(t)>>
          BY <1>0, <2>2, <5>1
        <5>3. \A m \in n + 1 .. Len(events') : events'[m][1] # t
          <6> TAKE m \in n + 1 .. Len(events')
          <6>1. CASE m = L + 1
            BY <2>2, <3>2, <6>1
          <6>2. CASE m # L + 1
            <7>1. m \in n + 1 .. L /\ m \in 1 .. L
              BY <1>0, <2>2, <6>2
            <7> QED BY <2>2, <5>1, <7>1
          <6> QED BY <6>1, <6>2
        <5> QED BY <4>1, <5>2, <5>3 DEF SaidLast
      <4>3. SaidNothing(t) => SaidNothing(t)'
        <5> SUFFICES ASSUME SaidNothing(t), NEW m \in 1 .. Len(events')
                     PROVE  events'[m][1] # t
          BY DEF SaidNothing
        <5>1. CASE m = L + 1
          BY <2>2, <3>2, <5>1
        <5>2. CASE m # L + 1
          <6>1. m \in 1 .. L
            BY <1>0, <2>2, <5>2
          <6> QED BY <2>2, <6>1 DEF SaidNothing
        <5> QED BY <5>1, <5>2
      <4> QED BY <4>1, <4>2, <4>3 DEF ToldJob
    <3> QED BY <3>1, <3>2
  <2> QED BY <2>3 DEF JobsInv
<1>3. CASE events' = events /\ scan'[s].pc \notin Ended
  <2>1. ASSUME NEW t \in Scans PROVE ToldJob(t)'
    <3>1. CASE t = s
      BY <1>3, <3>1 DEF ToldJob, JobsInv, SaidNothing
    <3>2. CASE t # s
      <4>1. scan'[t] = scan[t] /\ ToldJob(t)
        BY <3>2 DEF Others, JobsInv
      <4> QED BY <1>3, <4>1 DEF ToldJob, SaidLast, SaidNothing, Outcome
    <3> QED BY <3>1, <3>2
  <2> QED BY <2>1 DEF JobsInv
<1>4. CASE events' = events /\ scan'[s].pc \in Ended /\ job[s] # "none"
  <2>1. events' = Append(events, <<s, event>>)
    BY <1>4 DEF Tell
  <2>2. Len(events') = L + 1
    BY <1>0, <2>1
  <2> QED BY <1>0, <1>4, <2>2
<1> QED BY <1>1, <1>2, <1>3, <1>4

LEMMA JobsDrained ==
    ASSUME TypeInv, JobsInv, DrainScanEvent
    PROVE  JobsInv'
<1> DEFINE L == Len(events)
           h == Head(events)
<1>0. /\ events \in Seq(Scans \X Event) /\ L \in Nat \ {0}
      /\ \A n \in 1 .. L : events[n] \in Scans \X Event
  BY DEF TypeInv, DrainScanEvent
<1>1. /\ events' = Tail(events) /\ Len(events') = L - 1 /\ h = events[1]
      /\ \A n \in 1 .. L - 1 : events'[n] = events[n + 1]
  BY <1>0 DEF DrainScanEvent
<1>2. /\ h[1] \in Scans /\ UNCHANGED scan
      /\ \A t \in Scans : job'[t] = IF t = h[1] THEN JobAfter(h[2]) ELSE job[t]
  BY <1>0, <1>1 DEF DrainScanEvent, TypeInv
<1> SUFFICES ASSUME NEW t \in Scans PROVE ToldJob(t)'
  BY DEF JobsInv
<1>3. ToldJob(t) /\ Outcome(t)' = Outcome(t)
  BY <1>2 DEF JobsInv, Outcome
<1>4. SaidNothing(t) => SaidNothing(t)' /\ h[1] # t
  <2> SUFFICES ASSUME SaidNothing(t) PROVE SaidNothing(t)' /\ h[1] # t
    OBVIOUS
  <2>1. 1 \in 1 .. L
    BY <1>0
  <2>2. ASSUME NEW m \in 1 .. Len(events') PROVE events'[m][1] # t
    <3>1. m \in 1 .. L - 1 /\ m + 1 \in 1 .. L
      BY <1>0, <1>1
    <3> QED BY <1>1, <3>1 DEF SaidNothing
  <2> QED BY <1>1, <2>1, <2>2 DEF SaidNothing
<1>5. ASSUME SaidLast(t), scan[t].pc \in Ended
      PROVE  SaidLast(t)' \/ (SaidNothing(t)' /\ job'[t] = Outcome(t)')
  <2>1. PICK n \in 1 .. L : /\ events[n] = <<t, Outcome(t)>>
                            /\ \A m \in n + 1 .. L : events[m][1] # t
    BY <1>5 DEF SaidLast
  <2>2. CASE n = 1
    <3>1. h = <<t, Outcome(t)>>
      BY <1>1, <2>1, <2>2
    <3>2. job'[t] = Outcome(t)
      BY <1>2, <1>5, <3>1 DEF JobAfter, Outcome, Ended
    <3>3. ASSUME NEW m \in 1 .. Len(events') PROVE events'[m][1] # t
      <4>1. m \in 1 .. L - 1 /\ m + 1 \in n + 1 .. L
        BY <1>0, <1>1, <2>2
      <4> QED BY <1>1, <2>1, <4>1
    <3> QED BY <1>3, <3>2, <3>3 DEF SaidNothing
  <2>3. CASE n # 1
    <3>1. n - 1 \in 1 .. Len(events') /\ n - 1 \in 1 .. L - 1 /\ (n - 1) + 1 = n
      BY <1>0, <1>1, <2>3
    <3>2. events'[n - 1] = <<t, Outcome(t)>>
      BY <1>1, <2>1, <3>1
    <3>3. ASSUME NEW m \in (n - 1) + 1 .. Len(events') PROVE events'[m][1] # t
      <4>1. m \in 1 .. L - 1 /\ m + 1 \in n + 1 .. L
        BY <1>0, <1>1, <2>3
      <4> QED BY <1>1, <2>1, <4>1
    <3>4. SaidLast(t)'
      BY <1>3, <3>1, <3>2, <3>3 DEF SaidLast
    <3> QED BY <3>4
  <2> QED BY <2>2, <2>3
<1>6. CASE job[t] = "none"
  <2>1. SaidNothing(t)' /\ job'[t] = "none"
    BY <1>2, <1>3, <1>4, <1>6 DEF ToldJob
  <2> QED BY <2>1 DEF ToldJob
<1>7. CASE job[t] # "none"
  <2>1. job'[t] # "none" /\ scan'[t] = scan[t] /\ scan[t].pc # "idle"
    BY <1>0, <1>1, <1>2, <1>3, <1>7 DEF ToldJob, JobAfter, Event
  <2>2. CASE scan[t].pc \in Ended /\ SaidLast(t)
    BY <1>5, <2>1, <2>2 DEF ToldJob
  <2>3. CASE scan[t].pc \in Ended /\ ~SaidLast(t)
    <3>1. SaidNothing(t) /\ job[t] \in {Outcome(t), "cancelled"}
      BY <1>3, <1>7, <2>3 DEF ToldJob
    <3>2. SaidNothing(t)' /\ job'[t] = job[t]
      BY <1>2, <1>4, <3>1
    <3> QED BY <1>3, <2>1, <3>1, <3>2 DEF ToldJob
  <2>4. CASE scan[t].pc \notin Ended
    BY <2>1, <2>4 DEF ToldJob
  <2> QED BY <2>2, <2>3, <2>4
<1> QED BY <1>6, <1>7

LEMMA SaidSame ==
    ASSUME NEW t \in Scans, scan'[t].pc = scan[t].pc, events' = events
    PROVE  /\ Outcome(t)' = Outcome(t) /\ SaidNothing(t)' <=> SaidNothing(t)
           /\ SaidLast(t)' <=> SaidLast(t)
<1>1. Outcome(t)' = Outcome(t)
  BY DEF Outcome
<1>2. SaidNothing(t)' <=> SaidNothing(t)
  BY DEF SaidNothing
<1>3. SaidLast(t)' <=> SaidLast(t)
  BY <1>1 DEF SaidLast
<1> QED BY <1>1, <1>2, <1>3

LEMMA JobsScanStep ==
    ASSUME TypeInv, TypeInv', JobsInv, NEW s \in Scans, ScanRequest(s) \/ ScanStep(s)
    PROVE  JobsInv'
<1> USE DEF Event, Ended
<1>1. ASSUME Others(s), events' = events, scan'[s].pc \notin Ended, scan'[s].pc # "idle", job' = job
      PROVE  JobsInv'
  BY <1>1, JobsTold
<1>2. ASSUME NEW pc \in Ended, Ends(s, pc), job' = job,
             events' = Tell(s, IF pc = "done" THEN "completed" ELSE pc)
      PROVE  JobsInv'
  <2>1. Others(s) /\ scan'[s].pc = pc
    BY <1>2, EndsShape
  <2>2. Outcome(s)' = IF pc = "done" THEN "completed" ELSE pc
    BY <2>1 DEF Outcome
  <2> DEFINE event == IF pc = "done" THEN "completed" ELSE pc
  <2>3. event \in Event
    BY <1>2
  <2> QED BY <1>2, <2>1, <2>2, <2>3, JobsTold
<1>3. ASSUME ScanBegins(s), job' = job, events' = events \/ events' = Tell(s, "started")
      PROVE  JobsInv'
  <2>1. Others(s) /\ scan'[s].pc = "walk"
    BY <1>3, BeginsShape
  <2>2. "started" \in Event
    OBVIOUS
  <2> QED BY <1>3, <2>1, <2>2, JobsTold
<1>4. ASSUME NEW pc \in PC \ Ended, pc # "idle", Goes(s, pc), job' = job, events' = events
      PROVE  JobsInv'
  <2>1. Others(s) /\ scan'[s].pc = pc
    BY <1>4, GoesShape
  <2> QED BY <1>1, <1>4, <2>1
<1>5. CASE CliScan(s)
  BY <1>3, <1>5 DEF CliScan
<1>6. CASE StartScan(s)
  <2>1. Others(s) /\ scan'[s].pc = "spawned" /\ events' = events
    BY <1>6, GoesShape DEF StartScan, PC
  <2>2. job'[s] = "pending" /\ \A t \in Scans \ {s} : job'[t] = job[t]
    BY <1>6 DEF StartScan, TypeInv
  <2>3. ASSUME NEW t \in Scans PROVE ToldJob(t)'
    <3>1. CASE t = s
      BY <2>1, <2>2, <3>1 DEF ToldJob
    <3>2. CASE t # s
      <4>1. ToldJob(t) /\ scan'[t] = scan[t] /\ job'[t] = job[t]
        BY <2>1, <2>2, <3>2 DEF JobsInv, Others
      <4> QED BY <2>1, <4>1, SaidSame DEF ToldJob
    <3> QED BY <3>1, <3>2
  <2> QED BY <2>3 DEF JobsInv
<1>7. CASE CancelScan(s)
  <2>1. Others(s) /\ scan'[s].pc = scan[s].pc /\ events' = events
    BY <1>7, CancelShape DEF CancelScan
  <2>2. /\ job'[s] = "cancelled" /\ job[s] # "none"
        /\ \A t \in Scans \ {s} : job'[t] = job[t]
    BY <1>7 DEF CancelScan, TypeInv
  <2>3. ASSUME NEW t \in Scans PROVE ToldJob(t)'
    <3>1. CASE t = s
      <4>1. ToldJob(s)
        BY DEF JobsInv
      <4> QED BY <2>1, <2>2, <3>1, <4>1, SaidSame DEF ToldJob
    <3>2. CASE t # s
      <4>1. ToldJob(t) /\ scan'[t] = scan[t] /\ job'[t] = job[t]
        BY <2>1, <2>2, <3>2 DEF JobsInv, Others
      <4> QED BY <2>1, <4>1, SaidSame DEF ToldJob
    <3> QED BY <3>1, <3>2
  <2> QED BY <2>3 DEF JobsInv
<1>8. CASE ThreadStarts(s)
  <2>1. CASE ScanBegins(s) /\ events' = Tell(s, "started")
    BY <1>3, <1>8, <2>1 DEF ThreadStarts
  <2>2. CASE Ends(s, "failed") /\ events' = Tell(s, "failed")
    BY <1>2, <1>8, <2>2 DEF ThreadStarts
  <2>3. CASE Goes(s, "elsewhere") /\ events' = Tell(s, "started")
    <3>1. Others(s) /\ scan'[s].pc = "elsewhere"
      BY <2>3, GoesShape DEF PC
    <3>2. "started" \in Event /\ job' = job
      BY <1>8 DEF ThreadStarts
    <3> QED BY <2>3, <3>1, <3>2, JobsTold
  <2> QED BY <1>8, <2>1, <2>2, <2>3 DEF ThreadStarts
<1>9. ASSUME NEW p \in Paths, Visit(s, p) PROVE JobsInv'
  <2>1. Others(s) /\ scan'[s].pc = "walk"
    BY <1>9, VisitShape DEF Visit
  <2> QED BY <1>1, <1>9, <2>1 DEF Visit
<1>10. ASSUME NEW p \in Paths, VisitError(s, p) PROVE JobsInv'
  <2>1. Others(s) /\ scan'[s].pc = "walk"
    BY <1>10, VisitErrorShape DEF VisitError
  <2> QED BY <1>1, <1>10, <2>1 DEF VisitError
<1>11. ASSUME NEW batch \in Batches(scan[s].found), PersistBatch(s, batch) PROVE JobsInv'
  <2>1. scan[s].pc = "walk" /\ events' = events /\ job' = job
    BY <1>11, PersistCases
  <2>2. Others(s) /\ scan'[s].pc = scan[s].pc
    BY <1>11, PersistCases, PersistsShape, PersistFailsShape
  <2> QED BY <1>1, <2>1, <2>2
<1>12. CASE JoinWalk(s)
  <2>1. CASE scan[s].token
    BY <1>2, <1>12, <2>1 DEF JoinWalk
  <2>2. CASE ~scan[s].token
    <3>1. /\ Goes(s, "mark") \/ Goes(s, "count")
          /\ job' = job /\ events' = events
      BY <1>12, <2>2 DEF JoinWalk
    <3> QED BY <1>4, <3>1 DEF PC
  <2> QED BY <2>1, <2>2
<1>13. CASE WalkDies(s)
  BY <1>2, <1>13 DEF WalkDies
<1>14. CASE MarkDeleted(s)
  <2>1. CASE Goes(s, "count") /\ UNCHANGED events
    BY <1>4, <1>14, <2>1 DEF MarkDeleted, PC
  <2>2. CASE Ends(s, "failed") /\ events' = Tell(s, "failed")
    BY <1>2, <1>14, <2>2 DEF MarkDeleted
  <2> QED BY <1>14, <2>1, <2>2 DEF MarkDeleted
<1>15. CASE UpdateCount(s)
  BY <1>4, <1>15 DEF UpdateCount, PC
<1>16. CASE ClearFolders(s)
  <2>1. CASE Goes(s, "fill") /\ UNCHANGED events
    BY <1>4, <1>16, <2>1 DEF ClearFolders, PC
  <2>2. CASE Report(s)
    BY <1>2, <1>16, <2>2 DEF ClearFolders, Report
  <2> QED BY <1>16, <2>1, <2>2 DEF ClearFolders
<1>17. CASE FillFolders(s)
  BY <1>2, <1>17 DEF FillFolders, Report
<1>18. CASE ScanElsewhere(s)
  BY <1>2, <1>18 DEF ScanElsewhere, Report
<1> QED BY <1>5, <1>6, <1>7, <1>8, <1>9, <1>10, <1>11, <1>12, <1>13, <1>14, <1>15, <1>16, <1>17,
           <1>18
        DEF ScanRequest, ScanStep

LEMMA JobsNext == TypeInv /\ JobsInv /\ [Next]_vars => JobsInv'
<1> SUFFICES ASSUME TypeInv, JobsInv, [Next]_vars PROVE JobsInv'
  OBVIOUS
<1>1. TypeInv'
  BY TypeNext
<1>2. ASSUME NEW s \in Scans, ScanRequest(s) \/ ScanStep(s) PROVE JobsInv'
  BY <1>1, <1>2, JobsScanStep
<1>3. ASSUME UNCHANGED <<scan, job, events>> PROVE JobsInv'
  <2>1. ASSUME NEW t \in Scans PROVE ToldJob(t)'
    <3>1. ToldJob(t)
      BY DEF JobsInv
    <3> QED BY <1>3, <3>1, SaidSame DEF ToldJob
  <2> QED BY <2>1 DEF JobsInv
<1>4. CASE DrainScanEvent
  BY <1>4, JobsDrained
<1>5. CASE DeleteFiles \/ DeleteSourceRow
  BY <1>3, <1>5 DEF DeleteFiles, DeleteSourceRow
<1>6. CASE DiskChange
  BY <1>3, <1>6 DEF DiskChange, Edit, Move, Edited
<1>7. CASE UNCHANGED vars
  BY <1>3, <1>7 DEF vars
<1> QED BY <1>2, <1>4, <1>5, <1>6, <1>7 DEF Next, DeleteSource

-----------------------------------------------------------------------------
(* What a walk has seen. *)

\* No step dates a row back.
Aged == \A p \in Paths : \/ files'[p] = NoRow \/ files'[p].seen = clock
                         \/ files[p] # NoRow /\ files'[p].seen = files[p].seen

\* A step that leaves the walk of t alone, and hides from it no change on disk.
LEMMA SeenSame ==
    ASSUME TypeInv, DatesInv, NEW t \in Scans, SeenBy(t), Aged,
           scan'[t].pc = scan[t].pc, scan'[t].start = scan[t].start, scan'[t].todo = scan[t].todo,
           scan'[t].found = scan[t].found, scan'[t].errors = scan[t].errors,
           scan'[t].lost = scan[t].lost,
           scan'[t].ok = scan[t].ok,
           scan[t].pc \in {"walk", "mark"} =>
               \A p \in Paths : p \notin missed'[t] => p \notin missed[t] /\ disk'[p] = disk[p]
    PROVE  SeenBy(t)'
<1>0. scan[t].start \in Nat /\ clock \in Nat /\ scan[t].start <= clock
  BY DEF TypeInv, ScanRec, DatesInv, DatedScan
<1>1. ASSUME scan'[t].pc \in {"walk", "mark"}, scan'[t].ok,
             NEW p \in OnDisk' \ (missed'[t] \cup scan'[t].errors \cup scan'[t].lost \cup scan'[t].todo)
      PROVE  FoundAt(t, p)' \/ files'[p] = NoRow \/ files'[p].seen >= scan'[t].start
  <2>1. p \in OnDisk \ (missed[t] \cup scan[t].errors \cup scan[t].lost \cup scan[t].todo)
    BY <1>1 DEF OnDisk
  <2>2. FoundAt(t, p) \/ files[p] = NoRow \/ files[p].seen >= scan[t].start
    BY <1>1, <2>1 DEF SeenBy
  <2>3. FoundAt(t, p) => FoundAt(t, p)'
    BY DEF FoundAt
  <2>4. p \in Paths
    BY <2>1 DEF OnDisk
  <2> QED BY <1>0, <2>2, <2>3, <2>4 DEF Aged
<1>2. scan'[t].pc = "mark" => scan'[t].ok /\ scan'[t].todo = {} /\ scan'[t].found = {}
  BY DEF SeenBy
<1> QED BY <1>1, <1>2 DEF SeenBy

\* A scan that is not walking has nothing to have seen.
LEMMA SeenElsewhere ==
    ASSUME NEW t \in Scans, scan'[t].pc \notin {"walk", "mark"}
    PROVE  SeenBy(t)'
  BY DEF SeenBy

LEMMA SeenPersists ==
    ASSUME TypeInv, DatesInv, RemovedLeavesNothing, NEW s \in Scans, SeenBy(s),
           NEW batch \in Batches(scan[s].found), NEW refused \in SUBSET Range(batch),
           Persists(s, batch, refused), scan[s].pc = "walk",
           UNCHANGED <<disk, missed>>
    PROVE  SeenBy(s)' /\ Aged
<1> DEFINE E == Range(batch)
           W == E \ refused
<1>0. scan[s].start \in Nat /\ clock \in Nat /\ scan[s].start <= clock
  BY DEF TypeInv, ScanRec, DatesInv, DatedScan
<1>1. /\ scan'[s].pc = scan[s].pc /\ scan'[s].start = scan[s].start
      /\ scan'[s].todo = scan[s].todo /\ scan'[s].found = scan[s].found \ E
      /\ scan'[s].errors = scan[s].errors
      /\ scan'[s].lost = scan[s].lost \cup {e.path : e \in refused} /\ (scan'[s].ok => scan[s].ok)
      /\ \A p \in Paths : files'[p] = files[p] \/ files'[p] = NoRow \/ files'[p].seen = clock
      /\ scan'[s].ok /\ source =>
            \A p \in Paths : (\E e \in W : e.path = p) => files'[p].seen = clock
      /\ ~source /\ (\A p \in Paths : files[p] = NoRow) => files' = files
  BY PersistsShape
<1> HIDE DEF E, W
<1>2. Aged
  BY <1>1 DEF Aged
<1>3. ASSUME scan'[s].ok,
             NEW p \in OnDisk' \ (missed'[s] \cup scan'[s].errors \cup scan'[s].lost \cup scan'[s].todo)
      PROVE  FoundAt(s, p)' \/ files'[p] = NoRow \/ files'[p].seen >= scan'[s].start
  <2>1. p \in OnDisk \ (missed[s] \cup scan[s].errors \cup scan[s].lost \cup scan[s].todo) /\ p \in Paths
    BY <1>1, <1>3 DEF OnDisk
  <2>2. FoundAt(s, p) \/ files[p] = NoRow \/ files[p].seen >= scan[s].start
    BY <1>1, <1>3, <2>1 DEF SeenBy
  <2>3. CASE \E e \in E : e.path = p
    <3>1. CASE source
      <4>1. \A e \in refused : e.path # p
        BY <1>1, <1>3
      <4>2. \E e \in W : e.path = p
        BY <2>3, <4>1 DEF W
      <4> QED BY <1>0, <1>1, <1>3, <2>1, <3>1, <4>2
    <3>2. CASE ~source
      <4>1. \A q \in Paths : files[q] = NoRow
        BY <3>2 DEF RemovedLeavesNothing, Rows
      <4> QED BY <1>1, <2>1, <3>2, <4>1
    <3> QED BY <3>1, <3>2
  <2>4. CASE FoundAt(s, p) /\ ~\E e \in E : e.path = p
    BY <1>1, <2>4 DEF FoundAt
  <2>5. CASE files[p] = NoRow \/ files[p].seen >= scan[s].start
    BY <1>0, <1>1, <2>1, <2>5
  <2> QED BY <2>2, <2>3, <2>4, <2>5
<1> QED BY <1>1, <1>2, <1>3 DEF SeenBy

LEMMA SeenScanStep ==
    ASSUME TypeInv, DatesInv, RemovedLeavesNothing, SeenInv,
           NEW s \in Scans, ScanRequest(s) \/ ScanStep(s)
    PROVE  SeenInv'
<1> USE DEF Ended
<1>0. SeenBy(s)
  BY DEF SeenInv
<1>a. ASSUME Others(s), UNCHANGED disk, Aged, SeenBy(s)',
             \A t \in Scans \ {s} : missed'[t] = missed[t]
      PROVE  SeenInv'
  <2>1. ASSUME NEW t \in Scans, t # s PROVE SeenBy(t)'
    <3>1. scan'[t] = scan[t] /\ SeenBy(t) /\ missed'[t] = missed[t]
      BY <1>a, <2>1 DEF Others, SeenInv
    <3> QED BY <1>a, <3>1, SeenSame
  <2> QED BY <1>a, <2>1 DEF SeenInv
<1>b. UNCHANGED files => Aged
  BY DEF Aged
<1>1. ASSUME ScanBegins(s), UNCHANGED <<disk, files>>
      PROVE  SeenInv'
  <2>1. /\ Others(s) /\ scan'[s].pc = "walk" /\ scan'[s].todo = Paths
        /\ \A t \in Scans \ {s} : missed'[t] = missed[t]
    BY <1>1, BeginsShape
  <2>2. SeenBy(s)'
    BY <2>1 DEF SeenBy, OnDisk
  <2> QED BY <1>a, <1>b, <1>1, <2>1, <2>2
<1>2. ASSUME NEW pc \in Ended, Ends(s, pc), UNCHANGED <<disk, files>>
      PROVE  SeenInv'
  <2>1. /\ Others(s) /\ scan'[s].pc = pc
        /\ \A t \in Scans \ {s} : missed'[t] = missed[t]
    BY <1>2, EndsShape
  <2>2. SeenBy(s)'
    BY <1>2, <2>1, SeenElsewhere
  <2> QED BY <1>a, <1>b, <1>2, <2>1, <2>2
<1>3. ASSUME NEW pc \in PC, Goes(s, pc), UNCHANGED <<disk, missed>>, Aged, pc \notin {"walk", "mark"}
      PROVE  SeenInv'
  <2>1. Others(s) /\ scan'[s].pc = pc
    BY <1>3, GoesShape
  <2>2. SeenBy(s)'
    BY <1>3, <2>1, SeenElsewhere
  <2> QED BY <1>a, <1>3, <2>1, <2>2
<1>4. CASE CliScan(s)
  BY <1>1, <1>4 DEF CliScan
<1>5. CASE StartScan(s)
  BY <1>3, <1>b, <1>5 DEF StartScan, PC
<1>6. CASE CancelScan(s)
  <2>1. /\ Others(s) /\ scan'[s].pc = scan[s].pc /\ scan'[s].start = scan[s].start
        /\ scan'[s].todo = scan[s].todo /\ scan'[s].found = scan[s].found
        /\ scan'[s].errors = scan[s].errors /\ scan'[s].lost = scan[s].lost /\ scan'[s].ok = scan[s].ok
    BY <1>6, CancelShape
  <2>2. UNCHANGED <<disk, files, missed>>
    BY <1>6 DEF CancelScan
  <2>3. SeenBy(s)'
    BY <1>0, <1>b, <2>1, <2>2, SeenSame
  <2> QED BY <1>a, <1>b, <2>1, <2>2, <2>3
<1>7. CASE ThreadStarts(s)
  <2>1. CASE ScanBegins(s) \/ Ends(s, "failed")
    BY <1>1, <1>2, <1>7, <2>1 DEF ThreadStarts
  <2>2. CASE Goes(s, "elsewhere") /\ UNCHANGED missed
    BY <1>3, <1>b, <1>7, <2>2 DEF ThreadStarts, PC
  <2> QED BY <1>7, <2>1, <2>2 DEF ThreadStarts
<1>8. ASSUME NEW p \in Paths, Visit(s, p) PROVE SeenInv'
  <2> DEFINE new == [path |-> p, uid |-> disk[p].uid, ver |-> disk[p].ver]
  <2>1. /\ Others(s) /\ scan'[s].pc = scan[s].pc /\ scan'[s].start = scan[s].start
        /\ scan'[s].todo = scan[s].todo \ {p} /\ scan'[s].errors = scan[s].errors
        /\ scan'[s].lost = scan[s].lost
        /\ scan'[s].ok = scan[s].ok /\ scan[s].found \subseteq scan'[s].found
        /\ disk[p] # NoFile => new \in scan'[s].found
    BY <1>8, VisitShape
  <2>2. UNCHANGED <<disk, files, missed>> /\ scan[s].pc = "walk" /\ new.path = p
    BY <1>8 DEF Visit
  <2>3. ASSUME scan'[s].ok,
               NEW q \in OnDisk' \ (missed'[s] \cup scan'[s].errors \cup scan'[s].lost \cup scan'[s].todo)
        PROVE  FoundAt(s, q)' \/ files'[q] = NoRow \/ files'[q].seen >= scan'[s].start
    <3>1. CASE q = p
      BY <2>1, <2>2, <2>3, <3>1 DEF FoundAt, OnDisk
    <3>2. CASE q # p
      <4>1. q \in OnDisk \ (missed[s] \cup scan[s].errors \cup scan[s].lost \cup scan[s].todo)
        BY <2>1, <2>2, <2>3, <3>2 DEF OnDisk
      <4>2. FoundAt(s, q) \/ files[q] = NoRow \/ files[q].seen >= scan[s].start
        BY <1>0, <2>1, <2>2, <2>3, <4>1 DEF SeenBy
      <4>3. FoundAt(s, q) => FoundAt(s, q)'
        BY <2>1 DEF FoundAt
      <4> QED BY <2>1, <2>2, <4>2, <4>3
    <3> QED BY <3>1, <3>2
  <2>4. SeenBy(s)'
    BY <2>1, <2>2, <2>3 DEF SeenBy
  <2> QED BY <1>a, <1>b, <2>1, <2>2, <2>4
<1>9. ASSUME NEW p \in Paths, VisitError(s, p) PROVE SeenInv'
  <2>1. /\ Others(s) /\ scan'[s].pc = scan[s].pc /\ scan'[s].start = scan[s].start
        /\ scan'[s].todo = scan[s].todo \ {p} /\ scan'[s].found = scan[s].found
        /\ scan'[s].errors = scan[s].errors \cup {p} /\ scan'[s].lost = scan[s].lost
        /\ scan'[s].ok = scan[s].ok
    BY <1>9, VisitErrorShape
  <2>2. UNCHANGED <<disk, files, missed>> /\ scan[s].pc = "walk"
    BY <1>9 DEF VisitError
  <2>3. SeenBy(s)'
    BY <1>0, <2>1, <2>2 DEF SeenBy, FoundAt, OnDisk
  <2> QED BY <1>a, <1>b, <2>1, <2>2, <2>3
<1>10. ASSUME NEW batch \in Batches(scan[s].found), PersistBatch(s, batch) PROVE SeenInv'
  <2>1. UNCHANGED <<disk, missed>> /\ scan[s].pc = "walk"
    BY <1>10, PersistCases
  <2>2. ASSUME NEW refused \in SUBSET Range(batch), Persists(s, batch, refused)
        PROVE  SeenInv'
    <3>1. SeenBy(s)' /\ Aged
      BY <1>0, <2>1, <2>2, SeenPersists
    <3>2. Others(s)
      BY <2>2, PersistsShape
    <3> QED BY <1>a, <2>1, <3>1, <3>2
  <2>3. CASE PersistFails(s, batch)
    <3>1. Others(s) /\ scan'[s].ok = FALSE /\ scan'[s].pc = scan[s].pc
      BY <2>3, PersistFailsShape
    <3>2. SeenBy(s)'
      BY <2>1, <3>1 DEF SeenBy
    <3> QED BY <1>a, <1>b, <2>1, <2>3, <3>1, <3>2 DEF PersistFails
  <2> QED BY <1>10, <2>2, <2>3, PersistCases
<1>11. CASE JoinWalk(s)
  <2>1. UNCHANGED <<files, disk>> /\ scan[s].pc = "walk" /\ scan[s].found = {}
    BY <1>11 DEF JoinWalk
  <2>2. CASE scan[s].token
    BY <1>2, <1>11, <2>2 DEF JoinWalk
  <2>3. CASE ~scan[s].token /\ ~scan[s].ok
    BY <1>3, <1>b, <1>11, <2>3 DEF JoinWalk, PC
  <2>4. CASE ~scan[s].token /\ scan[s].ok
    <3>1. Goes(s, "mark") /\ UNCHANGED missed /\ scan[s].todo = {}
      BY <1>11, <2>4 DEF JoinWalk
    <3>2. /\ Others(s) /\ scan'[s].pc = "mark" /\ scan'[s].start = scan[s].start
          /\ scan'[s].todo = scan[s].todo /\ scan'[s].found = scan[s].found
          /\ scan'[s].errors = scan[s].errors /\ scan'[s].lost = scan[s].lost /\ scan'[s].ok = scan[s].ok
      BY <3>1, GoesShape DEF PC
    <3>3. SeenBy(s)'
      BY <1>0, <2>1, <2>4, <3>1, <3>2 DEF SeenBy, FoundAt, OnDisk
    <3> QED BY <1>a, <1>b, <2>1, <3>1, <3>2, <3>3
  <2> QED BY <2>2, <2>3, <2>4
<1>12. CASE WalkDies(s)
  BY <1>2, <1>12 DEF WalkDies
<1>13. CASE MarkDeleted(s)
  <2>1. CASE Ends(s, "failed") /\ UNCHANGED files
    BY <1>2, <1>13, <2>1 DEF MarkDeleted
  <2>2. CASE files' = mark_deleted_files(files, scan[s].start) /\ Goes(s, "count") /\ UNCHANGED missed
    <3>1. Aged
      BY <2>2 DEF Aged, mark_deleted_files, TypeInv, Table, Row, NoRow
    <3> QED BY <1>3, <1>13, <2>2, <3>1 DEF MarkDeleted, PC
  <2> QED BY <1>13, <2>1, <2>2 DEF MarkDeleted
<1>14. CASE UpdateCount(s)
  BY <1>3, <1>b, <1>14 DEF UpdateCount, PC
<1>15. CASE ClearFolders(s)
  <2>1. UNCHANGED <<disk, files>> /\ ((Goes(s, "fill") /\ UNCHANGED missed) \/ Ends(s, "done"))
    BY <1>15 DEF ClearFolders, Report
  <2> QED BY <1>2, <1>3, <1>b, <2>1 DEF PC
<1>16. CASE FillFolders(s)
  BY <1>2, <1>16 DEF FillFolders, Report
<1>17. CASE ScanElsewhere(s)
  BY <1>2, <1>17 DEF ScanElsewhere, Report
<1> QED BY <1>4, <1>5, <1>6, <1>7, <1>8, <1>9, <1>10, <1>11, <1>12, <1>13, <1>14, <1>15, <1>16, <1>17
        DEF ScanRequest, ScanStep

LEMMA SeenNext ==
    TypeInv /\ DatesInv /\ RemovedLeavesNothing /\ SeenInv /\ [Next]_vars => SeenInv'
<1> SUFFICES ASSUME TypeInv, DatesInv, RemovedLeavesNothing, SeenInv, [Next]_vars PROVE SeenInv'
  OBVIOUS
<1>1. ASSUME NEW s \in Scans, ScanRequest(s) \/ ScanStep(s) PROVE SeenInv'
  BY <1>1, SeenScanStep
<1>2. ASSUME UNCHANGED scan, UNCHANGED files \/ \A p \in Paths : files'[p] = NoRow,
             \A t \in Scans : scan[t].pc \in {"walk", "mark"} =>
               \A p \in Paths : p \notin missed'[t] => p \notin missed[t] /\ disk'[p] = disk[p]
      PROVE  SeenInv'
  <2>1. Aged
    BY <1>2 DEF Aged
  <2>2. ASSUME NEW t \in Scans PROVE SeenBy(t)'
    BY <1>2, <2>1, SeenSame DEF SeenInv
  <2> QED BY <2>2 DEF SeenInv
<1>3. CASE DrainScanEvent
  BY <1>2, <1>3 DEF DrainScanEvent
<1>4. CASE DeleteFiles \/ DeleteSourceRow
  BY <1>2, <1>4 DEF DeleteFiles, DeleteSourceRow
<1>5. ASSUME NEW P \in SUBSET Paths, Edited(P), \A p \in Paths \ P : disk'[p] = disk[p]
      PROVE  SeenInv'
  <2>1. \A t \in Scans : scan[t].pc \in {"walk", "mark"} => missed'[t] = missed[t] \cup P
    BY <1>5 DEF Edited, Running
  <2> QED BY <1>2, <1>5, <2>1 DEF Edited
<1>6. CASE DiskChange
  <2>1. ASSUME NEW p \in Paths, NEW e \in Entries \cup {NoFile}, Edit(p, e)
        PROVE  SeenInv'
    <3>1. Edited({p}) /\ \A q \in Paths \ {p} : disk'[q] = disk[q]
      BY <2>1 DEF Edit, TypeInv
    <3> QED BY <1>5, <3>1
  <2>2. ASSUME NEW p \in Paths, NEW q \in Paths, Move(p, q)
        PROVE  SeenInv'
    <3>1. Edited({p, q}) /\ \A r \in Paths \ {p, q} : disk'[r] = disk[r]
      BY <2>2 DEF Move, TypeInv
    <3> QED BY <1>5, <3>1
  <2> QED BY <1>6, <2>1, <2>2 DEF DiskChange
<1>7. CASE UNCHANGED vars
  BY <1>2, <1>7 DEF vars
<1> QED BY <1>1, <1>3, <1>4, <1>6, <1>7 DEF Next, DeleteSource

-----------------------------------------------------------------------------
(* A scan that has the source to itself. *)

LEMMA QuietFrame ==
    ASSUME NEW q \in Scans, QuietScan(q),
           UNCHANGED <<disk, files, source, count, folders, remover>>,
           scan'[q].pc = scan[q].pc, scan'[q].start = scan[q].start, scan'[q].todo = scan[q].todo,
           scan'[q].found = scan[q].found, scan'[q].ok = scan[q].ok, scan'[q].agg = scan[q].agg,
           \A t \in Scans \ {q} : scan'[t].pc \notin Active
    PROVE  QuietScan(q)'
<1>1. OnDisk' = OnDisk /\ (HardLinks' <=> HardLinks)
  BY DEF OnDisk, HardLinks
<1>2. CatalogAgrees => CatalogAgrees'
  BY <1>1 DEF CatalogAgrees, Rows
<1>3. \A p \in Paths : /\ FoundAt(q, p)' <=> FoundAt(q, p)
                       /\ Settled(q, p)' <=> Settled(q, p)
  BY DEF FoundAt, Settled
<1>4. QuietWalk(q) => QuietWalk(q)'
  <2> SUFFICES ASSUME QuietWalk(q) PROVE QuietWalk(q)'
    OBVIOUS
  <2>1. \A e \in scan'[q].found : e.uid = disk'[e.path].uid /\ e.ver = disk'[e.path].ver
    BY DEF QuietWalk
  <2>2. \A p \in OnDisk' : p \in scan'[q].todo \/ FoundAt(q, p)' \/ Settled(q, p)'
    BY <1>1, <1>3 DEF QuietWalk, OnDisk
  <2>3. \A p \in Paths : files'[p] # NoRow /\ files'[p].seen >= scan'[q].start => p \in OnDisk'
    BY <1>1 DEF QuietWalk
  <2>4. \A p \in Paths : p \in scan'[q].agg <=> p \in OnDisk' /\ p \notin scan'[q].todo /\ ~FoundAt(q, p)'
    BY <1>1, <1>3 DEF QuietWalk
  <2> QED BY <2>1, <2>2, <2>3, <2>4 DEF QuietWalk
<1>5. QuietEnd(q) => QuietEnd(q)'
  BY <1>1, <1>2 DEF QuietEnd
<1> QED BY <1>1, <1>4, <1>5 DEF QuietScan

LEMMA QuietBegins ==
    ASSUME TypeInv, DatesInv, NEW s \in Scans, ScanBegins(s), scan[s].pc \in {"idle", "spawned"},
           UNCHANGED <<disk, files, source, remover>>
    PROVE  QuietInv'
<1> SUFFICES ASSUME NEW q \in quiet' PROVE QuietScan(q)'
  BY DEF QuietInv
<1>1. /\ scan' \in [Scans -> ScanRec] /\ Others(s) /\ scan'[s].pc = "walk"
      /\ scan'[s].start = clock + 1 /\ scan'[s].todo = Paths
      /\ scan'[s].found = scan[s].found /\ scan'[s].agg = scan[s].agg
      /\ source /\ quiet' \in SUBSET {s}
  BY BeginsShape
<1>2. q = s /\ Running \ {s} = {} /\ remover = "idle" /\ ~HardLinks
  BY <1>1 DEF ScanBegins
<1>3. scan[s].found = {} /\ scan[s].agg = {} /\ clock \in Nat
  BY DEF DatesInv, DatedScan, TypeInv
<1>4. \A t \in Scans \ {s} : scan'[t].pc \notin Active
  BY <1>1, <1>2 DEF Others, Running, Active
<1>5. ~HardLinks'
  BY <1>2 DEF HardLinks, OnDisk
<1>6. \A p \in Paths : files'[p] # NoRow => ~(files'[p].seen >= scan'[s].start)
  BY <1>1, <1>3 DEF DatesInv, DatedRows
<1>7. QuietWalk(s)'
  BY <1>1, <1>3, <1>6 DEF QuietWalk, OnDisk, FoundAt
<1>8. QuietEnd(s)'
  BY <1>1 DEF QuietEnd
<1> QED BY <1>1, <1>2, <1>4, <1>5, <1>7, <1>8 DEF QuietScan

LEMMA QuietVisit ==
    ASSUME TypeInv, DatesInv, NEW s \in Scans, NEW p \in Paths, Visit(s, p), QuietWalk(s)
    PROVE  QuietWalk(s)'
<1> DEFINE new == [path |-> p, uid |-> disk[p].uid, ver |-> disk[p].ver]
<1>1. /\ scan'[s].start = scan[s].start /\ scan'[s].todo = scan[s].todo \ {p}
      /\ scan'[s].agg = scan[s].agg
      /\ disk[p] = NoFile => scan'[s].found = scan[s].found
      /\ disk[p] # NoFile => scan'[s].found = scan[s].found \cup {new}
  BY VisitShape
<1>2. /\ UNCHANGED <<disk, files>> /\ p \in scan[s].todo /\ OnDisk' = OnDisk
      /\ new.path = p /\ new.uid = disk[p].uid /\ new.ver = disk[p].ver
  BY DEF Visit, OnDisk
<1>3. \A e \in scan[s].found : e.path # p
  BY <1>2 DEF DatesInv, DatedScan
<1> HIDE DEF new
<1>4. \A q \in Paths : q # p => (FoundAt(s, q)' <=> FoundAt(s, q))
  BY <1>1, <1>2 DEF FoundAt
<1>5. FoundAt(s, p)' <=> disk[p] # NoFile
  BY <1>1, <1>2, <1>3 DEF FoundAt
<1>6. \A e \in scan'[s].found : e.uid = disk'[e.path].uid /\ e.ver = disk'[e.path].ver
  BY <1>1, <1>2 DEF QuietWalk
<1>7. \A q \in OnDisk' : q \in scan'[s].todo \/ FoundAt(s, q)' \/ Settled(s, q)'
  <2> TAKE q \in OnDisk'
  <2>1. CASE q = p
    BY <1>2, <1>5, <2>1 DEF OnDisk
  <2>2. CASE q # p
    <3>1. q \in OnDisk /\ q \in Paths
      BY <1>2 DEF OnDisk
    <3>2. q \in scan[s].todo \/ FoundAt(s, q) \/ Settled(s, q)
      BY <3>1 DEF QuietWalk
    <3> QED BY <1>1, <1>2, <1>4, <2>2, <3>1, <3>2 DEF Settled
  <2> QED BY <2>1, <2>2
<1>8. \A q \in Paths : files'[q] # NoRow /\ files'[q].seen >= scan'[s].start => q \in OnDisk'
  BY <1>1, <1>2 DEF QuietWalk
<1>9. \A q \in Paths : q \in scan'[s].agg <=> q \in OnDisk' /\ q \notin scan'[s].todo /\ ~FoundAt(s, q)'
  <2> TAKE q \in Paths
  <2>1. q \in scan[s].agg <=> q \in OnDisk /\ q \notin scan[s].todo /\ ~FoundAt(s, q)
    BY DEF QuietWalk
  <2>2. CASE q = p
    BY <1>1, <1>2, <1>5, <2>1, <2>2 DEF OnDisk
  <2>3. CASE q # p
    BY <1>1, <1>2, <1>4, <2>1, <2>3
  <2> QED BY <2>2, <2>3
<1> QED BY <1>6, <1>7, <1>8, <1>9 DEF QuietWalk

\* A batch settles what it holds: no hard links, so no entry of it claims the
\* identity of a row settled before.
LEMMA QuietPersists ==
    ASSUME TypeInv, DatesInv, NEW s \in Scans, NEW batch \in Batches(scan[s].found),
           Persists(s, batch, {}), scan'[s].ok, source, ~HardLinks, QuietWalk(s), UNCHANGED disk
    PROVE  QuietWalk(s)'
<1> DEFINE E == Range(batch)
<1>0. scan[s].start \in Nat /\ clock \in Nat /\ scan[s].start <= clock
  BY DEF TypeInv, ScanRec, DatesInv, DatedScan
<1>1. /\ E \in SUBSET scan[s].found /\ E \in SUBSET Entry
      /\ scan'[s].start = scan[s].start /\ scan'[s].todo = scan[s].todo
      /\ scan'[s].found = scan[s].found \ E
      /\ scan'[s].agg = scan[s].agg \cup {e.path : e \in E}
      /\ \A p \in Paths : \/ files'[p] = files[p] \/ files'[p] = NoRow
                          \/ files'[p].seen = clock /\ \E e \in E : e.path = p
      /\ \A p \in Paths : (\E e \in E : e.path = p) =>
            \E e \in E : /\ e.path = p /\ files'[p].uid = e.uid /\ files'[p].ver = e.ver
                         /\ files'[p].seen = clock
      /\ \A p \in Paths : (\A e \in E : e.path # p /\ e.uid # files[p].uid) => files'[p] = files[p]
  <2>1. {} \in SUBSET Range(batch) /\ E \ {} = E
    OBVIOUS
  <2> QED BY <2>1, PersistsShape
<1> HIDE DEF E
<1>2. OnDisk' = OnDisk
  BY DEF OnDisk
<1>3. \A e \in E : /\ e.path \in Paths /\ e.uid = disk[e.path].uid /\ e.ver = disk[e.path].ver
                   /\ e.uid \in Uids /\ e.path \in OnDisk /\ e.path \notin scan[s].todo
  <2> TAKE e \in E
  <2>1. e.path \in Paths /\ e.uid \in Uids
    BY <1>1 DEF Entry
  <2>2. e.uid = disk[e.path].uid /\ e.ver = disk[e.path].ver
    BY <1>1 DEF QuietWalk
  <2>3. e.path \in OnDisk
    BY <2>1, <2>2, ScoutAssumption DEF OnDisk, NoFile
  <2>4. e.path \notin scan[s].todo
    BY <1>1 DEF DatesInv, DatedScan
  <2> QED BY <2>1, <2>2, <2>3, <2>4
<1>4. ASSUME NEW p \in Paths
      PROVE  FoundAt(s, p) <=> FoundAt(s, p)' \/ \E e \in E : e.path = p
  BY <1>1 DEF FoundAt
<1>5. ASSUME NEW p \in Paths, \E e \in E : e.path = p
      PROVE  ~FoundAt(s, p)'
  <2>1. PICK e \in E : e.path = p
    BY <1>5
  <2>2. ASSUME NEW f \in scan'[s].found, f.path = p
        PROVE  FALSE
    <3>1. f \in scan[s].found /\ f \notin E
      BY <1>1, <2>2
    <3>2. f.uid = disk[p].uid /\ f.ver = disk[p].ver /\ f \in Entry
      BY <2>2, <3>1 DEF QuietWalk, TypeInv, ScanRec
    <3>3. e.uid = disk[p].uid /\ e.ver = disk[p].ver /\ e \in Entry
      BY <1>1, <1>3, <2>1
    <3>4. e = f
      BY <2>1, <2>2, <3>2, <3>3 DEF Entry
    <3> QED BY <3>1, <3>4
  <2> QED BY <2>2 DEF FoundAt
<1>6. \A e \in scan'[s].found : e.uid = disk'[e.path].uid /\ e.ver = disk'[e.path].ver
  BY <1>1 DEF QuietWalk
<1>7. \A p \in OnDisk' : p \in scan'[s].todo \/ FoundAt(s, p)' \/ Settled(s, p)'
  <2> TAKE p \in OnDisk'
  <2>1. p \in OnDisk /\ p \in Paths
    BY <1>2 DEF OnDisk
  <2>2. p \in scan[s].todo \/ FoundAt(s, p) \/ Settled(s, p)
    BY <2>1 DEF QuietWalk
  <2>3. CASE \E e \in E : e.path = p
    <3>1. PICK e \in E : /\ e.path = p /\ files'[p].uid = e.uid /\ files'[p].ver = e.ver
                         /\ files'[p].seen = clock
      BY <1>1, <2>1, <2>3
    <3>2. e.uid = disk[p].uid /\ e.ver = disk[p].ver
      BY <1>3, <3>1
    <3> QED BY <1>0, <1>1, <3>1, <3>2 DEF Settled
  <2>4. CASE Settled(s, p) /\ ~\E e \in E : e.path = p
    <3>1. \A e \in E : e.path # p /\ e.uid # files[p].uid
      BY <1>3, <2>1, <2>4 DEF Settled, HardLinks
    <3>2. files'[p] = files[p]
      BY <1>1, <2>1, <3>1
    <3> QED BY <1>1, <2>4, <3>2 DEF Settled
  <2>5. CASE FoundAt(s, p) /\ ~\E e \in E : e.path = p
    BY <1>4, <2>1, <2>5
  <2> QED BY <1>1, <2>2, <2>3, <2>4, <2>5
<1>8. \A p \in Paths : files'[p] # NoRow /\ files'[p].seen >= scan'[s].start => p \in OnDisk'
  BY <1>1, <1>2, <1>3 DEF QuietWalk
<1>9. \A p \in Paths : p \in scan'[s].agg <=> p \in OnDisk' /\ p \notin scan'[s].todo /\ ~FoundAt(s, p)'
  <2> TAKE p \in Paths
  <2>1. p \in scan[s].agg <=> p \in OnDisk /\ p \notin scan[s].todo /\ ~FoundAt(s, p)
    BY DEF QuietWalk
  <2>2. p \in scan'[s].agg <=> p \in scan[s].agg \/ \E e \in E : e.path = p
    BY <1>1
  <2>3. CASE \E e \in E : e.path = p
    BY <1>1, <1>2, <1>3, <1>5, <2>2, <2>3
  <2>4. CASE ~\E e \in E : e.path = p
    BY <1>1, <1>2, <1>4, <2>1, <2>2, <2>4
  <2> QED BY <2>3, <2>4
<1> QED BY <1>6, <1>7, <1>8, <1>9 DEF QuietWalk

LEMMA QuietMark ==
    ASSUME TypeInv, NEW s \in Scans, QuietWalk(s), scan[s].todo = {}, scan[s].found = {},
           files' = mark_deleted_files(files, scan[s].start), UNCHANGED disk
    PROVE  CatalogAgrees' /\ scan[s].agg = OnDisk'
<1>1. OnDisk' = OnDisk /\ \A p \in Paths : ~FoundAt(s, p)
  BY DEF OnDisk, FoundAt
<1>2. \A p \in OnDisk : p \in Paths /\ Settled(s, p)
  BY <1>1 DEF QuietWalk, OnDisk
<1>3. \A p \in Paths : files'[p] = IF files[p] # NoRow /\ files[p].seen < scan[s].start
                                   THEN [files[p] EXCEPT !.status = "deleted"] ELSE files[p]
  BY DEF mark_deleted_files
<1>4. ASSUME NEW p \in Paths
      PROVE  files'[p].uid = files[p].uid /\ files'[p].ver = files[p].ver
  BY <1>3 DEF TypeInv, Table, Row, NoRow
<1>5. \A p \in OnDisk' : files'[p].uid = disk'[p].uid /\ files'[p].ver = disk'[p].ver
  BY <1>1, <1>2, <1>4 DEF Settled
<1>6. ASSUME NEW p \in Rows(files') \ OnDisk'
      PROVE  files'[p].status = "deleted"
  <2>1. p \in Paths /\ files'[p] # NoRow /\ p \notin OnDisk
    BY <1>1, <1>6 DEF Rows
  <2>2. files[p] # NoRow
    BY <1>3, <2>1
  <2>3. ~(files[p].seen >= scan[s].start)
    BY <2>1, <2>2 DEF QuietWalk
  <2>4. files[p] \in Row /\ scan[s].start \in Nat
    BY <2>1, <2>2 DEF TypeInv, Table, ScanRec
  <2>5. files[p].seen < scan[s].start
    BY <2>3, <2>4 DEF Row
  <2> QED BY <1>3, <2>1, <2>2, <2>4, <2>5 DEF Row
<1>7. CatalogAgrees'
  BY <1>5, <1>6 DEF CatalogAgrees
<1>8. \A p \in Paths : p \in scan[s].agg <=> p \in OnDisk
  BY <1>1 DEF QuietWalk
<1>9. scan[s].agg = OnDisk
  BY <1>8 DEF TypeInv, ScanRec, OnDisk
<1> QED BY <1>1, <1>7, <1>9

LEMMA QuietScanStep ==
    ASSUME TypeInv, DatesInv, SeenInv, QuietInv,
           NEW s \in Scans, ScanRequest(s) \/ ScanStep(s)
    PROVE  QuietInv'
<1> USE DEF Ended
<1>0. quiet \in SUBSET Scans
  BY DEF TypeInv
\* The steps of a scan that does not write.
<1>1. ASSUME Others(s), quiet' = quiet, scan'[s].pc \notin Active,
             UNCHANGED <<disk, files, source, count, folders, remover>>, s \notin quiet
      PROVE  QuietInv'
  <2>1. ASSUME NEW q \in quiet PROVE QuietScan(q)'
    <3>1. q \in Scans /\ QuietScan(q) /\ q # s
      BY <1>0, <1>1 DEF QuietInv
    <3>2. scan'[q] = scan[q] /\ \A t \in Scans \ {q} : scan'[t].pc \notin Active
      BY <1>1, <3>1 DEF Others, QuietScan
    <3> QED BY <1>1, <3>1, <3>2, QuietFrame
  <2> QED BY <1>1, <2>1 DEF QuietInv
<1>2. scan[s].pc \in {"idle", "spawned"} => s \notin quiet
  BY DEF QuietInv, QuietScan
\* The steps of the scan that is quiet.
<1>3. ASSUME Others(s), quiet' = quiet \/ quiet' = quiet \ {s}, scan[s].pc \in Active,
             UNCHANGED <<disk, source, remover>>, scan'[s].pc \notin {"idle", "spawned", "elsewhere"},
             s \in quiet' /\ QuietScan(s) /\ scan'[s].ok =>
                 /\ scan'[s].pc \in {"walk", "mark"} => QuietWalk(s)'
                 /\ QuietEnd(s)'
      PROVE  QuietInv'
  <2>1. ASSUME NEW q \in quiet' PROVE QuietScan(q)'
    <3>1. q \in quiet /\ q \in Scans /\ QuietScan(q)
      BY <1>0, <1>3, <2>1 DEF QuietInv
    <3>2. q = s
      BY <1>3, <3>1 DEF QuietScan
    <3>3. source' /\ remover' = "idle" /\ ~HardLinks'
      BY <1>3, <3>1 DEF QuietScan, HardLinks, OnDisk
    <3>4. \A t \in Scans \ {q} : scan'[t].pc \notin Active
      BY <1>3, <3>1, <3>2 DEF QuietScan, Others
    <3> QED BY <1>3, <2>1, <3>1, <3>2, <3>3, <3>4 DEF QuietScan
  <2> QED BY <2>1 DEF QuietInv
<1>4. CASE CliScan(s)
  BY <1>4, QuietBegins DEF CliScan
<1>5. CASE StartScan(s)
  <2>1. Others(s) /\ scan'[s].pc = "spawned"
    BY <1>5, GoesShape DEF StartScan, PC
  <2> QED BY <1>1, <1>2, <1>5, <2>1 DEF StartScan, Active
<1>6. CASE CancelScan(s)
  <2>1. /\ Others(s) /\ scan'[s].pc = scan[s].pc /\ scan'[s].start = scan[s].start
        /\ scan'[s].todo = scan[s].todo /\ scan'[s].found = scan[s].found
        /\ scan'[s].ok = scan[s].ok /\ scan'[s].agg = scan[s].agg
    BY <1>6, CancelShape
  <2>2. ASSUME NEW q \in quiet PROVE QuietScan(q)'
    <3>1. q \in Scans /\ QuietScan(q)
      BY <1>0 DEF QuietInv
    <3>2. /\ scan'[q].pc = scan[q].pc /\ scan'[q].start = scan[q].start
          /\ scan'[q].todo = scan[q].todo /\ scan'[q].found = scan[q].found
          /\ scan'[q].ok = scan[q].ok /\ scan'[q].agg = scan[q].agg
          /\ \A t \in Scans \ {q} : scan'[t].pc \notin Active
      BY <2>1, <3>1 DEF Others, QuietScan
    <3>3. UNCHANGED <<disk, files, source, count, folders, remover>>
      BY <1>6 DEF CancelScan
    <3> QED BY <3>1, <3>2, <3>3, QuietFrame
  <2> QED BY <1>6, <2>2 DEF QuietInv, CancelScan
<1>7. CASE ThreadStarts(s)
  <2>1. CASE ScanBegins(s)
    BY <1>7, <2>1, QuietBegins DEF ThreadStarts
  <2>2. CASE Ends(s, "failed") /\ UNCHANGED quiet
    <3>1. Others(s) /\ scan'[s].pc = "failed"
      BY <2>2, EndsShape
    <3> QED BY <1>1, <1>2, <1>7, <2>2, <3>1 DEF ThreadStarts, Active
  <2>3. CASE Goes(s, "elsewhere") /\ UNCHANGED quiet
    <3>1. Others(s) /\ scan'[s].pc = "elsewhere"
      BY <2>3, GoesShape DEF PC
    <3> QED BY <1>1, <1>2, <1>7, <2>3, <3>1 DEF ThreadStarts, Active
  <2> QED BY <1>7, <2>1, <2>2, <2>3 DEF ThreadStarts
<1>8. ASSUME NEW p \in Paths, Visit(s, p) PROVE QuietInv'
  <2>1. /\ Others(s) /\ scan'[s].pc = "walk" /\ scan[s].pc = "walk"
        /\ scan'[s].ok = scan[s].ok
    BY <1>8, VisitShape DEF Visit
  <2>2. UNCHANGED <<disk, source, remover, quiet>>
    BY <1>8 DEF Visit
  <2>3. QuietScan(s) /\ scan'[s].ok => QuietWalk(s)'
    BY <1>8, <2>1, QuietVisit DEF QuietScan
  <2>4. QuietEnd(s)'
    BY <2>1 DEF QuietEnd
  <2> QED BY <1>3, <2>1, <2>2, <2>3, <2>4 DEF Active
<1>9. ASSUME NEW p \in Paths, VisitError(s, p) PROVE QuietInv'
  <2>1. Others(s) /\ scan'[s].pc = "walk" /\ scan[s].pc = "walk"
    BY <1>9, VisitErrorShape DEF VisitError
  <2>2. UNCHANGED <<disk, source, remover>> /\ quiet' = quiet \ {s}
    BY <1>9 DEF VisitError
  <2> QED BY <1>3, <2>1, <2>2 DEF Active
<1>10. ASSUME NEW batch \in Batches(scan[s].found), PersistBatch(s, batch) PROVE QuietInv'
  <2>1. UNCHANGED <<disk, source, remover>> /\ scan[s].pc = "walk"
    BY <1>10, PersistCases
  <2>2. CASE Persists(s, batch, {}) /\ quiet' = quiet
    <3>1. Others(s) /\ scan'[s].pc = "walk" /\ (scan'[s].ok => scan[s].ok)
      <4>1. {} \in SUBSET Range(batch)
        OBVIOUS
      <4> QED BY <2>1, <2>2, <4>1, PersistsShape
    <3>2. QuietScan(s) /\ scan'[s].ok => QuietWalk(s)'
      BY <2>1, <2>2, <3>1, QuietPersists DEF QuietScan
    <3>3. QuietEnd(s)'
      BY <3>1 DEF QuietEnd
    <3> QED BY <1>3, <2>1, <2>2, <3>1, <3>2, <3>3 DEF Active
  <2>3. CASE PersistFails(s, batch)
    <3>1. Others(s) /\ scan'[s].pc = "walk"
      BY <2>1, <2>3, PersistFailsShape
    <3> QED BY <1>3, <2>1, <2>3, <3>1 DEF PersistFails, Active
  <2>4. ASSUME NEW refused \in SUBSET Range(batch), Persists(s, batch, refused),
               quiet' = quiet \ {s}
        PROVE  QuietInv'
    <3>1. Others(s) /\ scan'[s].pc = "walk"
      BY <2>1, <2>4, PersistsShape
    <3> QED BY <1>3, <2>1, <2>4, <3>1 DEF Active
  <2> QED BY <1>10, <2>2, <2>3, <2>4, PersistCases
<1>11. CASE JoinWalk(s)
  <2>1. /\ UNCHANGED <<disk, files, source, remover, quiet, count, folders>>
        /\ scan[s].pc = "walk" /\ scan[s].found = {}
    BY <1>11 DEF JoinWalk
  <2>2. CASE scan[s].token
    <3>1. Others(s) /\ scan'[s].pc = "cancelled"
      BY <1>11, <2>2, EndsShape DEF JoinWalk
    <3>2. QuietEnd(s)'
      BY <3>1 DEF QuietEnd
    <3> QED BY <1>3, <2>1, <3>1, <3>2 DEF Active
  <2>3. CASE ~scan[s].token /\ ~scan[s].ok
    <3>1. Others(s) /\ scan'[s].pc = "count" /\ scan'[s].ok = scan[s].ok
      BY <1>11, <2>3, GoesShape DEF JoinWalk, PC
    <3> QED BY <1>3, <2>1, <2>3, <3>1 DEF Active
  <2>4. CASE ~scan[s].token /\ scan[s].ok
    <3>1. /\ Others(s) /\ scan'[s].pc = "mark" /\ scan'[s].start = scan[s].start
          /\ scan'[s].todo = scan[s].todo /\ scan'[s].found = scan[s].found
          /\ scan'[s].ok = scan[s].ok /\ scan'[s].agg = scan[s].agg
      BY <1>11, <2>4, GoesShape DEF JoinWalk, PC
    <3>2. QuietWalk(s) => QuietWalk(s)'
      <4> SUFFICES ASSUME QuietWalk(s) PROVE QuietWalk(s)'
        OBVIOUS
      <4>1. OnDisk' = OnDisk
        BY <2>1 DEF OnDisk
      <4>2. \A p \in Paths : (FoundAt(s, p)' <=> FoundAt(s, p)) /\ (Settled(s, p)' <=> Settled(s, p))
        BY <2>1, <3>1 DEF FoundAt, Settled
      <4>3. \A p \in OnDisk' : p \in scan'[s].todo \/ FoundAt(s, p)' \/ Settled(s, p)'
        BY <3>1, <4>1, <4>2 DEF QuietWalk, OnDisk
      <4>4. \A p \in Paths : p \in scan'[s].agg
                                <=> p \in OnDisk' /\ p \notin scan'[s].todo /\ ~FoundAt(s, p)'
        BY <3>1, <4>1, <4>2 DEF QuietWalk
      <4> QED BY <2>1, <3>1, <4>1, <4>3, <4>4 DEF QuietWalk
    <3>3. QuietEnd(s)'
      BY <3>1 DEF QuietEnd
    <3> QED BY <1>3, <2>1, <3>1, <3>2, <3>3 DEF Active, QuietScan
  <2> QED BY <2>2, <2>3, <2>4
<1>12. CASE WalkDies(s)
  <2>1. Others(s) /\ scan'[s].pc = "failed"
    BY <1>12, EndsShape DEF WalkDies
  <2> QED BY <1>3, <1>12, <2>1 DEF WalkDies, Active
<1>13. CASE MarkDeleted(s)
  <2>0. UNCHANGED <<disk, source, remover>> /\ scan[s].pc = "mark"
    BY <1>13 DEF MarkDeleted
  <2>1. CASE Ends(s, "failed") /\ quiet' = quiet \ {s}
    <3>1. Others(s) /\ scan'[s].pc = "failed"
      BY <2>1, EndsShape
    <3> QED BY <1>3, <2>0, <2>1, <3>1 DEF Active
  <2>2. CASE files' = mark_deleted_files(files, scan[s].start) /\ Goes(s, "count") /\ UNCHANGED quiet
    <3>1. Others(s) /\ scan'[s].pc = "count" /\ scan'[s].ok = scan[s].ok /\ scan'[s].agg = scan[s].agg
      BY <2>2, GoesShape DEF PC
    <3>2. scan[s].ok /\ scan[s].todo = {} /\ scan[s].found = {}
      BY <2>0 DEF SeenInv, SeenBy
    <3>3. QuietScan(s) => QuietWalk(s)
      BY <2>0, <3>2 DEF QuietScan
    <3>4. QuietScan(s) => CatalogAgrees' /\ scan[s].agg = OnDisk'
      BY <2>0, <2>2, <3>2, <3>3, QuietMark
    <3>5. QuietScan(s) => QuietEnd(s)'
      BY <3>1, <3>4 DEF QuietEnd
    <3> QED BY <1>3, <2>0, <2>2, <3>1, <3>5 DEF Active
  <2> QED BY <1>13, <2>1, <2>2 DEF MarkDeleted
<1>14. CASE UpdateCount(s)
  <2>1. /\ Others(s) /\ scan'[s].pc = "clear" /\ scan'[s].ok = scan[s].ok
        /\ scan'[s].agg = scan[s].agg
    BY <1>14, GoesShape DEF UpdateCount, PC
  <2>2. UNCHANGED <<disk, files, source, remover, folders>> /\ scan[s].pc = "count"
        /\ (quiet' = quiet \/ quiet' = quiet \ {s})
        /\ (s \in quiet' /\ source => count' = Cardinality(scan[s].agg))
    BY <1>14 DEF UpdateCount
  <2>3. OnDisk' = OnDisk /\ (CatalogAgrees => CatalogAgrees')
    BY <2>2 DEF OnDisk, CatalogAgrees, Rows
  <2>4. s \in quiet' /\ QuietScan(s) /\ scan'[s].ok => QuietEnd(s)'
    BY <2>1, <2>2, <2>3 DEF QuietScan, QuietEnd
  <2> QED BY <1>3, <2>1, <2>2, <2>4 DEF Active
<1>15. CASE ClearFolders(s)
  <2>1. UNCHANGED <<disk, files, source, remover, count>> /\ scan[s].pc = "clear"
    BY <1>15 DEF ClearFolders
  <2>2. OnDisk' = OnDisk /\ (CatalogAgrees => CatalogAgrees')
    BY <2>1 DEF OnDisk, CatalogAgrees, Rows
  <2>3. CASE folders' = {} /\ source /\ Goes(s, "fill") /\ UNCHANGED quiet
    <3>1. /\ Others(s) /\ scan'[s].pc = "fill" /\ scan'[s].ok = scan[s].ok
          /\ scan'[s].agg = scan[s].agg
      BY <2>3, GoesShape DEF PC
    <3>2. QuietScan(s) /\ scan'[s].ok => QuietEnd(s)'
      BY <2>1, <2>2, <2>3, <3>1 DEF QuietScan, QuietEnd
    <3> QED BY <1>3, <2>1, <2>3, <3>1, <3>2 DEF Active
  <2>4. CASE (~source /\ Report(s) /\ UNCHANGED quiet) \/ (Report(s) /\ quiet' = quiet \ {s})
    <3>1. Others(s) /\ scan'[s].pc = "done"
      BY <2>4, EndsShape DEF Report
    <3>2. s \in quiet' => ~QuietScan(s)
      BY <2>4 DEF QuietScan
    <3> QED BY <1>3, <2>1, <2>4, <3>1, <3>2 DEF Active
  <2> QED BY <1>15, <2>3, <2>4 DEF ClearFolders
<1>16. CASE FillFolders(s)
  <2>1. UNCHANGED <<disk, files, source, remover, count, quiet>> /\ scan[s].pc = "fill"
    BY <1>16 DEF FillFolders
  <2>2. OnDisk' = OnDisk /\ (CatalogAgrees => CatalogAgrees')
    BY <2>1 DEF OnDisk, CatalogAgrees, Rows
  <2>3. Others(s) /\ scan'[s].pc = "done" /\ scan'[s].ok = scan[s].ok
    BY <1>16, EndsShape DEF FillFolders, Report
  <2>4. QuietScan(s) /\ scan[s].ok => folders' = OnDisk
    BY <1>16, <2>1 DEF FillFolders, QuietScan, QuietEnd
  <2>5. QuietScan(s) /\ scan'[s].ok => QuietEnd(s)'
    BY <2>1, <2>2, <2>3, <2>4 DEF QuietScan, QuietEnd
  <2> QED BY <1>3, <2>1, <2>3, <2>5 DEF Active
<1>17. CASE ScanElsewhere(s)
  <2>1. PICK pc \in Ended : Ends(s, pc)
    BY <1>17 DEF ScanElsewhere, Report
  <2>2. Others(s) /\ scan'[s].pc = pc
    BY <2>1, EndsShape
  <2>3. s \notin quiet
    BY <1>17 DEF ScanElsewhere, QuietInv, QuietScan
  <2> QED BY <1>1, <1>17, <2>1, <2>2, <2>3 DEF ScanElsewhere, Active
<1> QED BY <1>4, <1>5, <1>6, <1>7, <1>8, <1>9, <1>10, <1>11, <1>12, <1>13, <1>14, <1>15, <1>16, <1>17
        DEF ScanRequest, ScanStep

LEMMA QuietNext ==
    TypeInv /\ DatesInv /\ SeenInv /\ QuietInv /\ [Next]_vars => QuietInv'
<1> SUFFICES ASSUME TypeInv, DatesInv, SeenInv, QuietInv, [Next]_vars PROVE QuietInv'
  OBVIOUS
<1>1. ASSUME NEW s \in Scans, ScanRequest(s) \/ ScanStep(s) PROVE QuietInv'
  BY <1>1, QuietScanStep
<1>2. ASSUME UNCHANGED <<disk, files, source, count, folders, scan, remover, quiet>>
      PROVE  QuietInv'
  <2>1. ASSUME NEW q \in quiet PROVE QuietScan(q)'
    <3>1. q \in Scans /\ QuietScan(q)
      BY DEF QuietInv, TypeInv
    <3>2. \A t \in Scans \ {q} : scan'[t].pc \notin Active
      BY <1>2, <3>1 DEF QuietScan
    <3> QED BY <1>2, <3>1, <3>2, QuietFrame
  <2> QED BY <1>2, <2>1 DEF QuietInv
<1>3. quiet' = {} => QuietInv'
  BY DEF QuietInv
<1>4. CASE DrainScanEvent
  BY <1>2, <1>4 DEF DrainScanEvent
<1>5. CASE DeleteFiles \/ DeleteSourceRow
  BY <1>3, <1>5 DEF DeleteFiles, DeleteSourceRow
<1>6. CASE DiskChange
  BY <1>3, <1>6 DEF DiskChange, Edit, Move, Edited
<1>7. CASE UNCHANGED vars
  BY <1>2, <1>7 DEF vars
<1> QED BY <1>1, <1>4, <1>5, <1>6, <1>7 DEF Next, DeleteSource

-----------------------------------------------------------------------------
(* The theorems. *)

LEMMA InvInitially == Init => Inv
<1> SUFFICES ASSUME Init PROVE Inv
  OBVIOUS
<1>1. TypeInv
  BY TypeInitially
<1>2. \A s \in Scans : scan[s] = IdleScan
  BY DEF Init
<1>3. DatesInv
  BY <1>2 DEF Init, DatesInv, DatedRows, DatedScan, IdleScan, Active
<1>4. RemovedLeavesNothing
  BY DEF Init, RemovedLeavesNothing
<1>5. JobsInv
  BY DEF Init, JobsInv, ToldJob, SaidNothing
<1>6. SeenInv
  BY <1>2 DEF SeenInv, SeenBy, IdleScan
<1>7. QuietInv
  BY DEF Init, QuietInv
<1> QED BY <1>1, <1>3, <1>4, <1>5, <1>6, <1>7 DEF Inv

LEMMA InvNext == Inv /\ [Next]_vars => Inv'
  BY TypeNext, DatesNext, RemovedNext, JobsNext, SeenNext, QuietNext DEF Inv

\* The inductive invariant of Scout: the ranges, the dates, and what each of the
\* properties below needs of a scan that is still under way.
THEOREM Invariance == Spec => []Inv
<1>1. Init => Inv
  BY InvInitially
<1>2. Inv /\ [Next]_vars => Inv'
  BY InvNext
<1> QED BY <1>1, <1>2, PTL DEF Spec

\* However delete_source interleaves with the batches of scans under way, and
\* whatever these hold, a source that is gone has no files and no folders left.
THEOREM RemovedLeavesNothingAlways == Spec => []RemovedLeavesNothing
<1>1. Inv => RemovedLeavesNothing
  BY DEF Inv
<1> QED BY <1>1, Invariance, PTL

\* Once its events are drained a scan job is in the state its thread ended in, or
\* cancelled, in whatever order events and cancellations were applied.
THEOREM JobsTellTheOutcomeAlways == Spec => []JobsTellTheOutcome
<1>1. Inv => JobsTellTheOutcome
  <2> SUFFICES ASSUME Inv, NEW s \in Jobs, events = <<>>, s \notin Running, job[s] # "none"
               PROVE  job[s] \in {scan[s].pc, "cancelled"}
                                    \cup (IF scan[s].pc = "done" THEN {"completed"} ELSE {})
    BY DEF JobsTellTheOutcome
  <2>1. s \in Scans /\ ToldJob(s)
    BY DEF Scans, Inv, JobsInv
  <2>2. scan[s].pc \in Ended
    BY <2>1 DEF ToldJob, Running, Ended
  <2>3. ~SaidLast(s)
    <3>1. Len(events) = 0
      OBVIOUS
    <3> QED BY <3>1 DEF SaidLast
  <2>4. job[s] \in {Outcome(s), "cancelled"}
    BY <2>1, <2>2, <2>3 DEF ToldJob
  <2> QED BY <2>4 DEF Outcome
<1> QED BY <1>1, Invariance, PTL

\* A scan that had the source to itself and succeeded leaves a catalog, a count and
\* a folder cache that agree with the disk, whatever renames, replacements and
\* batches it went through.
THEOREM QuietScanAgreesAlways == Spec => []QuietScanAgrees
<1>1. Inv => QuietScanAgrees
  BY DEF Inv, QuietInv, QuietScan, QuietEnd, QuietScanAgrees
<1> QED BY <1>1, Invariance, PTL

\* mark_deleted_files declares deleted a file that was on disk all along only when the
\* walk could not read its entry or the database refused its row.
THEOREM DeletedWasMissingAlways == Spec => DeletedWasMissing
<1> DEFINE D == \A s \in Scans, p \in Paths :
                  DeclaresDeleted(s, p) => p \in missed[s] \cup scan[s].errors \cup scan[s].lost
<1>1. Inv /\ [Next]_vars => [D]_vars
  <2> SUFFICES ASSUME Inv, Next, NEW s \in Scans, NEW p \in Paths,
                      scan[s].pc = "mark", scan'[s].pc = "count",
                      files[p].status # "deleted", files'[p].status = "deleted", p \in OnDisk
               PROVE  p \in missed[s] \cup scan[s].errors \cup scan[s].lost
    BY DEF DeclaresDeleted
  <2>0. TypeInv /\ DatesInv /\ SeenBy(s)
    BY DEF Inv, SeenInv
  <2>1. SeenBy(s) /\ scan[s].ok /\ scan[s].todo = {} /\ scan[s].found = {}
    BY <2>0 DEF SeenBy
  <2>2. \/ p \in missed[s] \cup scan[s].errors \cup scan[s].lost
        \/ files[p] = NoRow \/ files[p].seen >= scan[s].start
    BY <2>1 DEF SeenBy, FoundAt
  <2>3. MarkDeleted(s) /\ files' = mark_deleted_files(files, scan[s].start)
    <3>1. ASSUME UNCHANGED scan PROVE FALSE
      BY <3>1
    <3>2. ASSUME NEW t \in Scans, ScanRequest(t) \/ ScanStep(t), ~MarkDeleted(s) PROVE FALSE
      <4>1. Others(t)
        <5>1. CliScan(t) \/ StartScan(t) \/ CancelScan(t) \/ ThreadStarts(t) => Others(t)
          BY <2>0, BeginsShape, GoesShape, CancelShape, EndsShape
             DEF CliScan, StartScan, ThreadStarts, PC, Ended
        <5>2. (\E q \in Paths : Visit(t, q) \/ VisitError(t, q)) => Others(t)
          BY <2>0, VisitShape, VisitErrorShape
        <5>3. (\E batch \in Batches(scan[t].found) : PersistBatch(t, batch)) => Others(t)
          BY <2>0, PersistCases, PersistsShape, PersistFailsShape
        <5>4. JoinWalk(t) \/ WalkDies(t) \/ MarkDeleted(t) \/ UpdateCount(t) => Others(t)
          BY <2>0, GoesShape, EndsShape DEF JoinWalk, WalkDies, MarkDeleted, UpdateCount, PC, Ended
        <5>5. ClearFolders(t) \/ FillFolders(t) => Others(t)
          BY <2>0, GoesShape, EndsShape DEF ClearFolders, FillFolders, Report, PC, Ended
        <5>6. ScanElsewhere(t) => Others(t)
          BY <2>0, EndsShape DEF ScanElsewhere, Report, Ended
        <5> QED BY <3>2, <5>1, <5>2, <5>3, <5>4, <5>5, <5>6 DEF ScanRequest, ScanStep
      <4>2. t = s
        BY <4>1 DEF Others
      <4>3. CancelScan(s)
        BY <3>2, <4>2 DEF ScanRequest, ScanStep, CliScan, StartScan, ThreadStarts, Visit,
           VisitError, PersistBatch, JoinWalk, WalkDies, UpdateCount, ClearFolders, FillFolders, ScanElsewhere
      <4> QED BY <2>0, <4>3, CancelShape
    <3>3. MarkDeleted(s)
      <4>1. DrainScanEvent \/ DeleteSource \/ DiskChange => UNCHANGED scan
        BY DEF DrainScanEvent, DeleteSource, DeleteFiles, DeleteSourceRow, DiskChange, Edit, Move, Edited
      <4> QED BY <3>1, <3>2, <4>1 DEF Next
    <3>4. Ends(s, "failed") => scan'[s].pc = "failed"
      BY <2>0, EndsShape DEF Ended
    <3> QED BY <3>3, <3>4 DEF MarkDeleted
  <2>4. files[p] # NoRow /\ files[p].seen < scan[s].start
    BY <2>3 DEF mark_deleted_files
  <2>5. files[p] \in Row /\ scan[s].start \in Nat
    BY <2>0, <2>4 DEF TypeInv, Table, ScanRec
  <2> QED BY <2>2, <2>4, <2>5 DEF Row
<1>2. Spec => []Inv /\ [][Next]_vars
  BY Invariance DEF Spec
<1> QED BY <1>1, <1>2, PTL DEF DeletedWasMissing

\* The file count is the size of a set of paths.
CountInv == count \in 0 .. Cardinality(Paths)

LEMMA CountNext == TypeInv /\ CountInv /\ [Next]_vars => CountInv'
<1> SUFFICES ASSUME TypeInv, CountInv, [Next]_vars PROVE CountInv'
  OBVIOUS
<1>1. count' = count => CountInv'
  BY DEF CountInv
<1>2. ASSUME NEW s \in Scans, UpdateCount(s) PROVE CountInv'
  <2>1. scan[s].agg \in SUBSET Paths
    BY DEF TypeInv, ScanRec
  <2>2. IsFiniteSet(Paths)
    BY ScoutAssumption
  <2>3. /\ IsFiniteSet(scan[s].agg)
        /\ Cardinality(scan[s].agg) <= Cardinality(Paths)
    BY <2>1, <2>2, FS_Subset
  <2>4. Cardinality(scan[s].agg) \in Nat /\ Cardinality(Paths) \in Nat
    BY <2>2, <2>3, FS_CardinalityType
  <2>5. count' = Cardinality(scan[s].agg) \/ count' = count
    BY <1>2 DEF UpdateCount
  <2> QED BY <1>1, <2>3, <2>4, <2>5 DEF CountInv
<1>3. ASSUME NEW s \in Scans, ScanRequest(s) \/ ScanStep(s) PROVE CountInv'
  <2>1. UpdateCount(s) \/ count' = count
    BY <1>3 DEF ScanRequest, ScanStep, CliScan, StartScan, CancelScan, ThreadStarts, Visit,
       VisitError, PersistBatch, JoinWalk, WalkDies, MarkDeleted, ClearFolders, FillFolders,
       ScanElsewhere
  <2> QED BY <1>1, <1>2, <2>1
<1>4. DrainScanEvent \/ DeleteSource \/ DiskChange \/ UNCHANGED vars => count' = count
  BY DEF DrainScanEvent, DeleteSource, DeleteFiles, DeleteSourceRow, DiskChange, Edit, Move,
     Edited, vars
<1> QED BY <1>1, <1>3, <1>4 DEF Next

\* Every variable of Scout stays in the range its code keeps it in: no row is dated
\* after the clock, and no path is found by a walk before it is visited.
THEOREM TypeCorrect == Spec => []TypeOK
<1>1. Init => CountInv
  <2>1. Cardinality(Paths) \in Nat
    BY ScoutAssumption, FS_CardinalityType
  <2> QED BY <2>1 DEF Init, CountInv
<1>2. Inv /\ CountInv => TypeOK
  <2> SUFFICES ASSUME Inv, CountInv PROVE TypeOK
    OBVIOUS
  <2>0. TypeInv /\ DatesInv
    BY DEF Inv
  <2>1. \A p \in Paths : files[p] # NoRow =>
          /\ files[p].uid \in Uids /\ files[p].ver \in Versions
          /\ files[p].status \in {"pending", "deleted"}
          /\ files[p].seen \in 1 .. clock
    BY <2>0 DEF TypeInv, Table, Row, DatesInv, DatedRows
  <2>2. ASSUME NEW s \in Scans
        PROVE  /\ scan[s].pc \in PC
               /\ scan[s].start \in 0 .. clock
               /\ {e.path : e \in scan[s].found} \cap scan[s].todo = {}
               /\ job[s] \in JobState
    <3>1. scan[s].pc \in PC /\ job[s] \in JobState
      BY <2>0 DEF TypeInv, ScanRec
    <3>2. scan[s].start \in 0 .. clock
      BY <2>0 DEF TypeInv, ScanRec, DatesInv, DatedScan
    <3>3. \A e \in scan[s].found : e.path \notin scan[s].todo
      BY <2>0 DEF DatesInv, DatedScan
    <3> QED BY <3>1, <3>2, <3>3
  <2> QED BY <2>0, <2>1, <2>2 DEF TypeOK, TypeInv, CountInv, PC, JobState
<1>3. Inv /\ CountInv /\ [Next]_vars => CountInv'
  BY CountNext DEF Inv
<1>4. Spec => []CountInv
  BY <1>1, <1>3, Invariance, PTL DEF Spec
<1> QED BY <1>2, <1>4, Invariance, PTL

=============================================================================
