-------------------------- MODULE SinkCommitProofs --------------------------
(***************************************************************************)
(* Theorems about SinkCommit, for any attempts, outputs, sinks, modes and  *)
(* policies.  What is said of database tables and of the quarantine policy *)
(* holds however attempts overlap; what is said of files, which have the   *)
(* same two names in every attempt, holds when they do not.                *)
(***************************************************************************)
EXTENDS SinkCommit, WellFoundedInduction, TLAPS

(* The attempt records. *)
RowPlan == [Output -> Rows]

Result == {"none", "success", "partial", "rejected", "transient", "aborted", "crashed"}

AttemptRec ==
    [phase : Phase, rows : RowPlan \cup {None}, items : SUBSET Item, group : Nat,
     todo : SUBSET Item, opened : SUBSET Item, committed : SUBSET Item,
     cancelled : BOOLEAN, unsaved : BOOLEAN, result : Result]

Busy(A) == A.phase \notin {"waiting", "ended"}

(* Every output is within its policy. *)
PolicyKept(rows) == \A o \in Output : check_quarantine_policy(o, rows[o]) = None

(* Which sinks of the current group are open and which have committed, in   *)
(* each phase of the loop.                                                  *)
Progress(A) ==
    /\ A.phase = "create" => A.opened = {} /\ A.committed = {}
    /\ A.phase = "init" => A.opened = Members(A) \ A.todo /\ A.committed = {}
    /\ A.phase \in {"prepare", "guard"} => A.opened = Members(A) /\ A.committed = {}
    /\ A.phase = "guard" => A.todo = Members(A)
    /\ A.phase = "commit" => A.opened = A.todo /\ A.committed = Members(A) \ A.todo
    /\ A.phase = "drop" => A.committed = {}

Shape(A) ==
    /\ A \in AttemptRec
    /\ A.phase = "waiting" => A = NoAttempt
    /\ A.committed \subseteq Members(A)
    /\ A.opened \subseteq Members(A)
    /\ A.opened \cap A.committed = {}
    /\ A.todo \subseteq Members(A)
    /\ Busy(A) => A.todo # {} /\ A.result = "none"
    /\ A.phase = "ended" => A.todo = {} /\ A.opened = {} /\ A.result # "none"
    /\ Busy(A) \/ (A.phase = "ended" /\ A.result # "rejected")
          => A.rows \in RowPlan /\ PolicyKept(A.rows)
    /\ Progress(A)

-----------------------------------------------------------------------------
(* The invariant that holds however attempts overlap. *)

TablesTyped ==
    /\ temp \in [Item -> Inode \cup {NoFile}]
    /\ final \in [Item -> Inode \cup {NoFile}]
    /\ stage \in [Item -> SUBSET Attempt]
    /\ table \in [Item -> SUBSET Attempt]
    /\ lock \in [Database -> Attempt \cup {Free, Other}]

AttemptsShaped == at \in [Attempt -> AttemptRec] /\ \A a \in Attempt : Shape(at[a])

(* A database is locked by an attempt only while it works on it.            *)
LocksHeld == \A a \in Attempt, u \in Database : lock[u] = a => Running(a) /\ at[a].group = u

(* Behind the creation of its sinks, an attempt that works on a database    *)
(* has it locked and has one sink in it.                                    *)
Locking(a, A, l) ==
    Busy(A) /\ A.group \in Database =>
        /\ A.phase = "create" => A.todo = Members(A) \/ l = a
        /\ A.phase \notin {"create", "drop"} => l = a /\ (\A i, k \in Members(A) : i = k)

DatabasesLocked == \A a \in Attempt : Locking(a, at[a], lock[at[a].group])

(* The stage table of a sink that is open holds the attempt's rows alone.   *)
StagesOwned ==
    \A a \in Attempt : at[a].phase \in {"init", "prepare", "guard", "commit"} =>
        \A i \in at[a].opened : InDatabase(i) => stage[i] = {a}

(* Only a job within its quarantine policy leaves anything anywhere.        *)
Touched(a) ==
    {i \in Item : \/ a \in table[i] \/ a \in stage[i]
                  \/ temp[i] # NoFile /\ temp[i].by = a
                  \/ final[i] # NoFile /\ final[i].by = a}

TouchedIsPlanned ==
    \A a \in Attempt : Touched(a) # {} => at[a].phase # "waiting" /\ at[a].result # "rejected"

SharedInv ==
    /\ TablesTyped /\ AttemptsShaped /\ LocksHeld /\ DatabasesLocked /\ StagesOwned
    /\ TouchedIsPlanned /\ TablesHoldCommittedRows

-----------------------------------------------------------------------------
(* The rest of the invariant, for attempts one at a time. *)

OneAtATime == \A a, b \in Attempt : Running(a) /\ Running(b) => a = b

(* Sinks of either kind keep to their own storage.                          *)
KindsApart ==
    \A i \in Item : IF InDatabase(i) THEN temp[i] = NoFile /\ final[i] = NoFile
                    ELSE table[i] = {}

(* The empty file of a sink whose writer could not be made.                 *)
Stray(A, i, f) ==
    /\ f.writers = {} /\ ~f.full /\ Place(i) = A.group
    /\ \/ A.phase = "drop" /\ i \notin A.opened
       \/ A.phase = "ended" /\ A.result \in {"transient", "aborted"}

(* A temporary file belongs to a sink that is open, or an attempt that died *)
(* or could not open the sink has left it; only the sink that has yet to    *)
(* close it writes to it.                                                   *)
TempFits(A, i, f) ==
    /\ ~f.mixed
    /\ \/ A.phase = "ended" /\ A.result = "crashed" /\ f.writers = {}
       \/ Stray(A, i, f)
       \/ /\ Busy(A) /\ i \in A.opened /\ f.writers \subseteq {f.by}
          /\ A.phase \in {"rollback", "drop"} => i \in A.todo
          /\ A.phase \in {"guard", "commit"} \/ (A.phase = "prepare" /\ i \notin A.todo)
                => f.full /\ f.writers = {}
          /\ A.phase = "init" \/ (A.phase = "prepare" /\ i \in A.todo)
                => f.writers = {f.by}

TempsOwned == \A i \in Item : temp[i] # NoFile => TempFits(at[temp[i].by], i, temp[i])

(* Every file sink that is open has its temporary file.                     *)
OpenHasTemp ==
    \A a \in Attempt : at[a].phase \in {"init", "prepare", "guard", "commit"} =>
        \A i \in at[a].opened : ~InDatabase(i) => temp[i] # NoFile /\ temp[i].by = a

FinalsClosed == \A i \in Item : final[i] # NoFile => Whole(final[i]) /\ final[i].writers = {}

(* What was promoted is accounted for: by a sink of the current group that  *)
(* has committed and is not yet rolled back, by an earlier group, by the    *)
(* attempt's success, or by its death.                                      *)
Accounted(A, i) ==
    \/ Place(i) < A.group
    \/ A.phase = "ended" /\ A.result \in {"success", "partial", "crashed"}

FinalFits(A, i) ==
    \/ Accounted(A, i)
    \/ Busy(A) /\ i \in A.committed /\ (A.phase = "rollback" => i \in A.todo)

FinalsAccounted == \A i \in Item : final[i] # NoFile => FinalFits(at[final[i].by], i)

RowsAccounted ==
    \A i \in Item, a \in Attempt : a \in table[i] => Accounted(at[a], i) \/ at[a].unsaved

(* What an attempt nobody followed has promoted is still as it left it.     *)
Kept(a, i) ==
    IF InDatabase(i) THEN a \in table[i] /\ stage[i] = {}
    ELSE Whole(final[i]) /\ final[i].by = a /\ temp[i] = NoFile

Promised(A, i) ==
    \/ Place(i) < A.group
    \/ A.phase = "commit" /\ i \in A.committed
    \/ A.phase = "ended" /\ A.result \in {"success", "partial"}

LastIsKept ==
    \A a \in Attempt : (\A b \in Attempt \ {a} : at[b].phase = "waiting") =>
        \A i \in at[a].items : Promised(at[a], i) => Kept(a, i)

SerialInv ==
    /\ OneAtATime /\ KindsApart /\ TempsOwned /\ OpenHasTemp /\ FinalsClosed
    /\ FinalsAccounted /\ RowsAccounted /\ LastIsKept

-----------------------------------------------------------------------------
(* Facts about the operators. *)

(* Every item has a sink.                                                   *)
LEMMA PlaceNat == \A i \in Item : Place(i) \in Nat
<1> SUFFICES ASSUME NEW i \in Item PROVE Place(i) \in Nat
  OBVIOUS
<1>1. PICK o \in Output : i = 2 * o \/ i = 2 * o + 1
  BY DEF Item, Valid, Quarantine
<1>2. o \in Nat
  BY SinkAssumption
<1>3. Owner(i) = o
  BY <1>1, <1>2 DEF Owner
<1>4. Uri[o] \in Nat /\ QuarantineUri[o] \in Nat
  BY SinkAssumption
<1> QED BY <1>3, <1>4 DEF Place

(* A non-empty set of sink positions has a first one.                       *)
LEMMA MinIn ==
    ASSUME NEW S \in SUBSET Nat, S # {}
    PROVE  Min(S) \in S /\ \A x \in S : Min(S) <= x
<1>1. \E x \in S : \A y \in S : ~(<<y, x>> \in OpToRel(<, Nat))
  BY NatLessThanWellFounded, WFMin
<1>2. PICK x \in S : \A y \in S : ~(<<y, x>> \in OpToRel(<, Nat))
  BY <1>1
<1>3. \A y \in S : ~(y < x)
  BY <1>2 DEF OpToRel
<1>4. \A y \in S : x =< y
  BY <1>3
<1> QED BY <1>4 DEF Min

LEMMA GroupsNat ==
    ASSUME NEW items \in SUBSET Item
    PROVE  Groups(items) \in SUBSET Nat
BY PlaceNat DEF Groups

(* The rows of a job give items and an outcome.                             *)
LEMMA PlannedItems ==
    ASSUME NEW rows \in RowPlan
    PROVE  OwnedOutputs(rows) \subseteq Item /\ aggregate_job_status(rows) \in {"success", "partial"}
BY DEF OwnedOutputs, Item, aggregate_job_status

(* A registry for a sink URI of the job is in the shape of its phase.       *)
LEMMA StartGroupShape ==
    ASSUME NEW A \in AttemptRec, NEW g \in Groups(A.items),
           A.rows \in RowPlan, PolicyKept(A.rows), A.result = "none"
    PROVE  /\ StartGroup(A, g) \in AttemptRec
           /\ Shape(StartGroup(A, g))
           /\ StartGroup(A, g).phase = "create" /\ StartGroup(A, g).group = g
           /\ StartGroup(A, g).opened = {} /\ StartGroup(A, g).committed = {}
           /\ StartGroup(A, g).items = A.items /\ StartGroup(A, g).unsaved = A.unsaved
           /\ StartGroup(A, g).result = "none"
           /\ StartGroup(A, g).todo = Members(StartGroup(A, g))
<1> DEFINE b == [A EXCEPT !.phase = "create", !.group = g, !.opened = {}, !.committed = {}]
           B == [b EXCEPT !.todo = Members(b)]
<1>0. g \in Nat
  BY GroupsNat DEF AttemptRec
<1>1. /\ b \in AttemptRec /\ b.phase = "create" /\ b.group = g /\ b.opened = {}
      /\ b.committed = {} /\ b.items = A.items /\ b.unsaved = A.unsaved
      /\ b.result = A.result /\ b.rows = A.rows
  BY <1>0 DEF AttemptRec, Phase
<1> HIDE DEF b
<1>2. Members(b) \subseteq Item /\ Members(b) # {}
  BY <1>1 DEF Members, Groups, AttemptRec
<1>3. /\ B \in AttemptRec /\ B.phase = "create" /\ B.group = g /\ B.opened = {}
      /\ B.committed = {} /\ B.items = A.items /\ B.unsaved = A.unsaved
      /\ B.result = A.result /\ B.rows = A.rows /\ B.todo = Members(b)
  BY <1>1, <1>2 DEF AttemptRec
<1> HIDE DEF B
<1>4. Members(B) = Members(b)
  BY <1>1, <1>3 DEF Members
<1>5. Shape(B)
  BY <1>2, <1>3, <1>4 DEF Shape, Progress, Busy
<1>6. StartGroup(A, g) = B
  BY DEF StartGroup, b, B
<1> QED BY <1>3, <1>4, <1>5, <1>6

(* An attempt that ends keeps what it planned and what it has committed.    *)
LEMMA EndedShape ==
    ASSUME NEW A \in AttemptRec, NEW r \in Result \ {"none"},
           A.committed \subseteq Members(A),
           r # "rejected" => A.rows \in RowPlan /\ PolicyKept(A.rows)
    PROVE  /\ Ended(A, r) \in AttemptRec
           /\ Shape(Ended(A, r))
           /\ Ended(A, r).phase = "ended" /\ Ended(A, r).result = r
           /\ Ended(A, r).group = A.group /\ Ended(A, r).items = A.items
           /\ Ended(A, r).opened = {} /\ Ended(A, r).committed = A.committed
           /\ Ended(A, r).unsaved = A.unsaved
<1> DEFINE B == [A EXCEPT !.phase = "ended", !.result = r, !.todo = {}, !.opened = {}]
<1>1. /\ B \in AttemptRec /\ B.phase = "ended" /\ B.result = r /\ B.todo = {}
      /\ B.opened = {} /\ B.committed = A.committed /\ B.group = A.group
      /\ B.items = A.items /\ B.rows = A.rows /\ B.unsaved = A.unsaved
  BY DEF AttemptRec, Phase
<1> HIDE DEF B
<1>2. Members(B) = Members(A)
  BY <1>1 DEF Members
<1>3. Shape(B)
  BY <1>1, <1>2 DEF Shape, Progress, Busy
<1>4. Ended(A, r) = B
  BY DEF Ended, B
<1> QED BY <1>1, <1>3, <1>4

(* What no step of a busy attempt changes.                                  *)
SamePlan(A, B) ==
    /\ B.items = A.items /\ B.group = A.group /\ B.rows = A.rows
    /\ B.result = A.result /\ Members(B) = Members(A)

(* One step of a loop over the sinks of the group.                          *)
LEMMA AdvanceFields ==
    ASSUME NEW A \in AttemptRec, NEW i \in A.todo, NEW next \in Phase, A.todo \subseteq Members(A)
    PROVE  /\ Advance(A, i, next) \in AttemptRec
           /\ SamePlan(A, Advance(A, i, next))
           /\ Advance(A, i, next).opened = A.opened
           /\ Advance(A, i, next).committed = A.committed
           /\ Advance(A, i, next).unsaved = A.unsaved
           /\ Advance(A, i, next).cancelled = A.cancelled
           /\ \/ /\ A.todo = {i} /\ Advance(A, i, next).phase = next
                 /\ Advance(A, i, next).todo = Members(A)
              \/ /\ A.todo # {i} /\ Advance(A, i, next).phase = A.phase
                 /\ Advance(A, i, next).todo = A.todo \ {i} /\ A.todo \ {i} # {}
<1>0. Members(A) \in SUBSET Item
  BY DEF Members, AttemptRec
<1>1. CASE A.todo = {i}
  <2> DEFINE B == [A EXCEPT !.phase = next, !.todo = Members(A)]
  <2>1. /\ B \in AttemptRec /\ B.phase = next /\ B.todo = Members(A)
        /\ B.opened = A.opened /\ B.committed = A.committed /\ B.group = A.group
        /\ B.items = A.items /\ B.rows = A.rows /\ B.unsaved = A.unsaved
        /\ B.cancelled = A.cancelled /\ B.result = A.result
    BY <1>0 DEF AttemptRec
  <2>2. Advance(A, i, next) = B
    BY <1>1 DEF Advance
  <2> HIDE DEF B
  <2>3. Members(B) = Members(A)
    BY <2>1 DEF Members
  <2> QED BY <1>1, <2>1, <2>2, <2>3 DEF SamePlan
<1>2. CASE A.todo # {i}
  <2> DEFINE B == [A EXCEPT !.todo = @ \ {i}]
  <2>1. /\ B \in AttemptRec /\ B.phase = A.phase /\ B.todo = A.todo \ {i}
        /\ B.opened = A.opened /\ B.committed = A.committed /\ B.group = A.group
        /\ B.items = A.items /\ B.rows = A.rows /\ B.unsaved = A.unsaved
        /\ B.cancelled = A.cancelled /\ B.result = A.result
    BY DEF AttemptRec
  <2>2. Advance(A, i, next) = B
    BY <1>2 DEF Advance
  <2> HIDE DEF B
  <2>3. Members(B) = Members(A)
    BY <2>1 DEF Members
  <2> QED BY <1>2, <2>1, <2>2, <2>3 DEF SamePlan
<1> QED BY <1>1, <1>2

LEMMA CreateShape ==
    ASSUME NEW A \in AttemptRec, Shape(A), A.phase = "create", NEW i \in A.todo
    PROVE  Shape(Advance(A, i, "init"))
<1> DEFINE B == Advance(A, i, "init")
<1>1. A.todo \subseteq Members(A) /\ "init" \in Phase
  BY DEF Shape, Phase
<1> HIDE DEF B
<1>2. /\ B \in AttemptRec /\ SamePlan(A, B) /\ B.opened = A.opened /\ B.committed = A.committed
      /\ \/ A.todo = {i} /\ B.phase = "init" /\ B.todo = Members(A)
         \/ B.phase = A.phase /\ B.todo = A.todo \ {i} /\ A.todo \ {i} # {}
  BY <1>1, AdvanceFields DEF B
<1>3. Shape(B)
  BY <1>2 DEF Shape, Progress, Busy, SamePlan
<1> QED BY <1>3 DEF B

LEMMA InitShape ==
    ASSUME NEW A \in AttemptRec, Shape(A), A.phase = "init", NEW i \in A.todo
    PROVE  LET O == [A EXCEPT !.opened = @ \cup {i}]
               B == Advance(O, i, "prepare")
           IN  /\ B \in AttemptRec /\ Shape(B) /\ SamePlan(A, B)
               /\ B.opened = A.opened \cup {i} /\ B.committed = {} /\ B.unsaved = A.unsaved
               /\ \/ A.todo = {i} /\ B.phase = "prepare" /\ B.todo = Members(A)
                  \/ A.todo # {i} /\ B.phase = "init" /\ B.todo = A.todo \ {i}
<1> DEFINE O == [A EXCEPT !.opened = @ \cup {i}]
           B == Advance(O, i, "prepare")
<1>1. A.todo \subseteq Members(A) /\ "prepare" \in Phase
  BY DEF Shape, Phase
<1>2. /\ O \in AttemptRec /\ O.phase = A.phase /\ O.todo = A.todo
      /\ O.opened = A.opened \cup {i} /\ O.committed = A.committed /\ O.group = A.group
      /\ O.items = A.items /\ O.rows = A.rows /\ O.unsaved = A.unsaved
      /\ O.cancelled = A.cancelled /\ O.result = A.result
  BY <1>1 DEF AttemptRec
<1> HIDE DEF O
<1>3. Members(O) = Members(A)
  BY <1>2 DEF Members
<1> HIDE DEF B
<1>4. /\ B \in AttemptRec /\ SamePlan(O, B) /\ B.opened = O.opened /\ B.committed = O.committed
      /\ B.unsaved = O.unsaved
      /\ \/ O.todo = {i} /\ B.phase = "prepare" /\ B.todo = Members(O)
         \/ O.todo # {i} /\ B.phase = O.phase /\ B.todo = O.todo \ {i} /\ O.todo \ {i} # {}
  BY <1>1, <1>2, <1>3, AdvanceFields DEF B
<1>5. SamePlan(A, B)
  BY <1>2, <1>3, <1>4 DEF SamePlan
<1>6. Shape(B)
  BY <1>1, <1>2, <1>3, <1>4, <1>5 DEF Shape, Progress, Busy, SamePlan
<1>7. A.committed = {}
  BY DEF Shape, Progress
<1> QED BY <1>1, <1>2, <1>3, <1>4, <1>5, <1>6, <1>7 DEF O, B

LEMMA PrepareShape ==
    ASSUME NEW A \in AttemptRec, Shape(A), A.phase = "prepare", NEW i \in A.todo
    PROVE  Shape(Advance(A, i, "guard"))
<1> DEFINE B == Advance(A, i, "guard")
<1>1. A.todo \subseteq Members(A) /\ "guard" \in Phase
  BY DEF Shape, Phase
<1> HIDE DEF B
<1>2. /\ B \in AttemptRec /\ SamePlan(A, B) /\ B.opened = A.opened /\ B.committed = A.committed
      /\ \/ A.todo = {i} /\ B.phase = "guard" /\ B.todo = Members(A)
         \/ B.phase = A.phase /\ B.todo = A.todo \ {i} /\ A.todo \ {i} # {}
  BY <1>1, AdvanceFields DEF B
<1>3. Shape(B)
  BY <1>2 DEF Shape, Progress, Busy, SamePlan
<1> QED BY <1>3 DEF B

LEMMA GuardShape ==
    ASSUME NEW A \in AttemptRec, Shape(A), A.phase = "guard", NEW next \in {"rollback", "commit"}
    PROVE  LET B == [A EXCEPT !.phase = next]
           IN  /\ B \in AttemptRec /\ Shape(B) /\ SamePlan(A, B) /\ B.phase = next
               /\ B.opened = A.opened /\ B.committed = {} /\ B.unsaved = A.unsaved
               /\ B.todo = Members(A)
<1> DEFINE B == [A EXCEPT !.phase = next]
<1>1. /\ B \in AttemptRec /\ B.phase = next /\ B.todo = A.todo
      /\ B.opened = A.opened /\ B.committed = A.committed /\ B.group = A.group
      /\ B.items = A.items /\ B.rows = A.rows /\ B.unsaved = A.unsaved
      /\ B.cancelled = A.cancelled /\ B.result = A.result
  BY DEF AttemptRec, Phase
<1> HIDE DEF B
<1>2. Members(B) = Members(A)
  BY <1>1 DEF Members
<1>3. Shape(B) /\ A.committed = {} /\ A.todo = Members(A)
  BY <1>1, <1>2 DEF Shape, Progress, Busy
<1> QED BY <1>1, <1>2, <1>3 DEF B, SamePlan

(* A sink has committed, and it is not the last of its group.               *)
LEMMA CommittedFields ==
    ASSUME NEW A \in AttemptRec, Shape(A), A.phase = "commit", NEW i \in A.todo
    PROVE  LET D == [A EXCEPT !.committed = @ \cup {i}, !.opened = @ \ {i}]
           IN  /\ D \in AttemptRec /\ SamePlan(A, D) /\ D.phase = A.phase /\ D.todo = A.todo
               /\ D.opened = A.todo \ {i} /\ D.committed = (Members(A) \ A.todo) \cup {i}
               /\ D.unsaved = A.unsaved /\ D.cancelled = A.cancelled
               /\ D.committed \subseteq Members(D)
<1> DEFINE D == [A EXCEPT !.committed = @ \cup {i}, !.opened = @ \ {i}]
<1>0. /\ A.todo \subseteq Members(A) /\ Members(A) \subseteq Item
      /\ A.opened = A.todo /\ A.committed = Members(A) \ A.todo
  BY DEF Shape, Progress, Members, AttemptRec
<1>1. /\ D \in AttemptRec /\ D.phase = A.phase /\ D.todo = A.todo
      /\ D.opened = A.opened \ {i} /\ D.committed = A.committed \cup {i} /\ D.group = A.group
      /\ D.items = A.items /\ D.rows = A.rows /\ D.unsaved = A.unsaved
      /\ D.cancelled = A.cancelled /\ D.result = A.result
  BY <1>0 DEF AttemptRec
<1> HIDE DEF D
<1>2. Members(D) = Members(A)
  BY <1>1 DEF Members
<1>3. SamePlan(A, D)
  BY <1>1, <1>2 DEF SamePlan
<1> QED BY <1>0, <1>1, <1>2, <1>3 DEF D

LEMMA CommitShape ==
    ASSUME NEW A \in AttemptRec, Shape(A), A.phase = "commit", NEW i \in A.todo, A.todo # {i},
           NEW D \in AttemptRec, SamePlan(A, D), D.phase = A.phase, D.todo = A.todo,
           D.opened = A.todo \ {i}, D.committed = (Members(A) \ A.todo) \cup {i}
    PROVE  LET B == Advance(D, i, "commit")
           IN  /\ B \in AttemptRec /\ Shape(B) /\ SamePlan(A, B) /\ B.phase = "commit"
               /\ B.opened = D.opened /\ B.committed = D.committed /\ B.unsaved = D.unsaved
               /\ B.todo = A.todo \ {i}
<1> DEFINE B == Advance(D, i, "commit")
<1>0. A.todo \subseteq Members(A) /\ "commit" \in Phase /\ Members(D) = Members(A)
  BY DEF Shape, Phase, SamePlan
<1> HIDE DEF B
<1>1. /\ B \in AttemptRec /\ SamePlan(D, B) /\ B.opened = D.opened /\ B.committed = D.committed
      /\ B.unsaved = D.unsaved /\ B.phase = "commit"
      /\ B.todo = A.todo \ {i} /\ A.todo \ {i} # {}
  BY <1>0, AdvanceFields DEF B
<1>2. SamePlan(A, B)
  BY <1>1 DEF SamePlan
<1>3. Shape(B)
  BY <1>0, <1>1, <1>2 DEF Shape, Progress, Busy, SamePlan
<1> QED BY <1>1, <1>2, <1>3 DEF B

(* The last sink of the group has committed: the next group, or the end.    *)
LEMMA CommitDoneShape ==
    ASSUME NEW A \in AttemptRec, Shape(A), A.phase = "commit",
           NEW D \in AttemptRec, SamePlan(A, D), D.committed \subseteq Members(D)
    PROVE  LET B == CommitDone(D)
           IN  /\ B \in AttemptRec /\ Shape(B) /\ B.items = A.items /\ B.unsaved = D.unsaved
               /\ B.opened = {}
               /\ \/ /\ B.phase = "ended" /\ B.result \in {"success", "partial"}
                     /\ B.group = A.group /\ B.committed = D.committed
                     /\ \A i \in A.items : Place(i) <= A.group
                  \/ /\ B.phase = "create" /\ B.group \in Nat /\ B.group > A.group
                     /\ B.committed = {} /\ B.todo = Members(B)
                     /\ \A i \in A.items : Place(i) < B.group => Place(i) <= A.group
<1> DEFINE B == CommitDone(D)
<1>0. /\ D.rows \in RowPlan /\ PolicyKept(D.rows) /\ D.result = "none"
      /\ D.items = A.items /\ D.group = A.group /\ A.items \in SUBSET Item /\ A.group \in Nat
  BY DEF Shape, Busy, SamePlan, AttemptRec
<1>1. CASE LaterGroups(D) = {}
  <2>1. B = Ended(D, aggregate_job_status(D.rows))
    BY <1>1 DEF CommitDone
  <2>2. aggregate_job_status(D.rows) \in {"success", "partial"}
    BY <1>0, PlannedItems
  <2>3. \A i \in A.items : Place(i) <= A.group
    BY <1>0, <1>1, PlaceNat DEF LaterGroups, Groups
  <2> HIDE DEF B
  <2>4. /\ B \in AttemptRec /\ Shape(B) /\ B.phase = "ended"
        /\ B.result = aggregate_job_status(D.rows) /\ B.group = D.group /\ B.items = D.items
        /\ B.opened = {} /\ B.committed = D.committed /\ B.unsaved = D.unsaved
    BY <1>0, <2>1, <2>2, EndedShape DEF Result
  <2> QED BY <1>0, <2>2, <2>3, <2>4 DEF B
<1>2. CASE LaterGroups(D) # {}
  <2> DEFINE g == Min(LaterGroups(D))
  <2>0. LaterGroups(D) \in SUBSET Nat /\ LaterGroups(D) \subseteq Groups(D.items)
    BY <1>0, GroupsNat DEF LaterGroups
  <2>1. g \in LaterGroups(D)
    BY <1>2, <2>0, MinIn
  <2>1a. \A h \in LaterGroups(D) : g <= h
    BY <1>2, <2>0, MinIn
  <2>2. B = StartGroup(D, g)
    BY <1>2 DEF CommitDone
  <2> HIDE DEF B, g
  <2>3. g \in Groups(D.items) /\ g \in Nat /\ g > D.group
    BY <2>0, <2>1 DEF LaterGroups
  <2>4. /\ B \in AttemptRec /\ Shape(B) /\ B.phase = "create" /\ B.group = g
        /\ B.opened = {} /\ B.committed = {} /\ B.items = D.items /\ B.unsaved = D.unsaved
        /\ B.todo = Members(B)
    BY <1>0, <2>2, <2>3, StartGroupShape
  <2>5. \A i \in A.items : Place(i) < g => Place(i) <= A.group
    <3> SUFFICES ASSUME NEW i \in A.items, Place(i) < g, ~(Place(i) <= A.group) PROVE FALSE
      OBVIOUS
    <3>1. Place(i) \in Nat /\ Place(i) > D.group
      BY <1>0, PlaceNat
    <3>2. Place(i) \in LaterGroups(D)
      BY <1>0, <3>1 DEF LaterGroups, Groups
    <3> QED BY <2>1a, <2>3, <3>1, <3>2
  <2> QED BY <1>0, <2>3, <2>4, <2>5 DEF B
<1> QED BY <1>1, <1>2

(* A commit failed: the attempt turns back.                                 *)
LEMMA RollingBackShape ==
    ASSUME NEW A \in AttemptRec, Shape(A), A.phase = "commit", NEW u \in BOOLEAN
    PROVE  LET B == RollingBack([A EXCEPT !.unsaved = u])
           IN  /\ B \in AttemptRec /\ Shape(B) /\ SamePlan(A, B) /\ B.phase = "rollback"
               /\ B.opened = A.opened /\ B.committed = A.committed /\ B.unsaved = u
               /\ B.todo = Members(A)
<1> DEFINE O == [A EXCEPT !.unsaved = u]
           B == [O EXCEPT !.phase = "rollback", !.todo = Members(O)]
<1>0. A.todo \subseteq Members(A) /\ A.todo # {} /\ Members(A) \subseteq Item
  BY DEF Shape, Members, AttemptRec, Busy
<1>1. /\ O \in AttemptRec /\ O.phase = A.phase /\ O.todo = A.todo
      /\ O.opened = A.opened /\ O.committed = A.committed /\ O.group = A.group
      /\ O.items = A.items /\ O.rows = A.rows /\ O.unsaved = u
      /\ O.cancelled = A.cancelled /\ O.result = A.result
  BY DEF AttemptRec
<1> HIDE DEF O
<1>2. Members(O) = Members(A)
  BY <1>1 DEF Members
<1>3. /\ B \in AttemptRec /\ B.phase = "rollback" /\ B.todo = Members(O)
      /\ B.opened = O.opened /\ B.committed = O.committed /\ B.group = O.group
      /\ B.items = O.items /\ B.rows = O.rows /\ B.unsaved = O.unsaved
      /\ B.cancelled = O.cancelled /\ B.result = O.result
  BY <1>0, <1>1, <1>2 DEF AttemptRec, Phase
<1> HIDE DEF B
<1>4. Members(B) = Members(A)
  BY <1>1, <1>3 DEF Members
<1>5. Shape(B)
  BY <1>0, <1>1, <1>2, <1>3, <1>4 DEF Shape, Progress, Busy
<1>6. RollingBack(O) = B
  BY DEF RollingBack, B
<1> QED BY <1>1, <1>2, <1>3, <1>4, <1>5, <1>6 DEF O, SamePlan

(* The sinks are dropped before the guard.                                  *)
LEMMA DroppingShape ==
    ASSUME NEW A \in AttemptRec, Shape(A), A.phase \in {"create", "init", "prepare"}
    PROVE  LET B == Dropping(A)
           IN  /\ B \in AttemptRec /\ Shape(B) /\ SamePlan(A, B) /\ B.phase = "drop"
               /\ B.opened = A.opened /\ B.committed = {} /\ B.unsaved = A.unsaved
               /\ B.todo = Members(A)
<1> DEFINE B == [A EXCEPT !.phase = "drop", !.todo = Members(A)]
<1>0. A.todo \subseteq Members(A) /\ A.todo # {} /\ Members(A) \subseteq Item
  BY DEF Shape, Members, AttemptRec, Busy
<1>1. /\ B \in AttemptRec /\ B.phase = "drop" /\ B.todo = Members(A)
      /\ B.opened = A.opened /\ B.committed = A.committed /\ B.group = A.group
      /\ B.items = A.items /\ B.rows = A.rows /\ B.unsaved = A.unsaved
      /\ B.cancelled = A.cancelled /\ B.result = A.result
  BY <1>0 DEF AttemptRec, Phase
<1> HIDE DEF B
<1>2. Members(B) = Members(A)
  BY <1>1 DEF Members
<1>3. Shape(B) /\ A.committed = {}
  BY <1>0, <1>1, <1>2 DEF Shape, Progress, Busy
<1>4. Dropping(A) = B
  BY DEF Dropping, B
<1> QED BY <1>1, <1>2, <1>3, <1>4 DEF SamePlan

(* One sink is rolled back or dropped.                                      *)
LEMMA UndoneShape ==
    ASSUME NEW A \in AttemptRec, Shape(A), A.phase \in {"rollback", "drop"}, NEW i \in A.todo
    PROVE  LET B == IF A.todo = {i} THEN Failed(A) ELSE [A EXCEPT !.todo = @ \ {i}]
           IN  /\ B \in AttemptRec /\ Shape(B) /\ B.committed = A.committed
               /\ B.unsaved = A.unsaved /\ B.items = A.items /\ B.group = A.group
               /\ \/ /\ A.todo = {i} /\ B.phase = "ended" /\ B.result \in {"aborted", "transient"}
                     /\ B.opened = {}
                  \/ /\ A.todo # {i} /\ B.phase = A.phase /\ B.todo = A.todo \ {i}
                     /\ B.opened = A.opened /\ SamePlan(A, B)
<1>0. /\ A.todo \subseteq Members(A) /\ A.committed \subseteq Members(A)
      /\ A.rows \in RowPlan /\ PolicyKept(A.rows)
  BY DEF Shape, Busy
<1>1. CASE A.todo = {i}
  <2> DEFINE r == IF A.cancelled THEN "aborted" ELSE "transient"
  <2>1. r \in {"aborted", "transient"}
    OBVIOUS
  <2> HIDE DEF r
  <2>2. /\ Ended(A, r) \in AttemptRec /\ Shape(Ended(A, r))
        /\ Ended(A, r).phase = "ended" /\ Ended(A, r).result = r
        /\ Ended(A, r).opened = {} /\ Ended(A, r).committed = A.committed
        /\ Ended(A, r).unsaved = A.unsaved
        /\ Ended(A, r).group = A.group /\ Ended(A, r).items = A.items
    BY <1>0, <2>1, EndedShape DEF Result
  <2>3. Failed(A) = Ended(A, r)
    BY DEF Failed, r
  <2> QED BY <1>1, <2>1, <2>2, <2>3
<1>2. CASE A.todo # {i}
  <2> DEFINE B == [A EXCEPT !.todo = @ \ {i}]
  <2>1. /\ B \in AttemptRec /\ B.phase = A.phase /\ B.todo = A.todo \ {i}
        /\ B.opened = A.opened /\ B.committed = A.committed /\ B.group = A.group
        /\ B.items = A.items /\ B.rows = A.rows /\ B.unsaved = A.unsaved
        /\ B.cancelled = A.cancelled /\ B.result = A.result
    BY DEF AttemptRec
  <2> HIDE DEF B
  <2>2. Members(B) = Members(A)
    BY <2>1 DEF Members
  <2>3. Shape(B)
    BY <1>0, <1>2, <2>1, <2>2 DEF Shape, Progress, Busy
  <2> QED BY <1>2, <2>1, <2>2, <2>3 DEF B, SamePlan
<1> QED BY <1>1, <1>2

LEMMA CancelShape ==
    ASSUME NEW A \in AttemptRec, Shape(A), Busy(A)
    PROVE  LET B == [A EXCEPT !.cancelled = TRUE]
           IN  /\ B \in AttemptRec /\ Shape(B) /\ SamePlan(A, B) /\ B.phase = A.phase
               /\ B.opened = A.opened /\ B.committed = A.committed /\ B.unsaved = A.unsaved
               /\ B.todo = A.todo
<1> DEFINE B == [A EXCEPT !.cancelled = TRUE]
<1>1. /\ B \in AttemptRec /\ B.phase = A.phase /\ B.todo = A.todo
      /\ B.opened = A.opened /\ B.committed = A.committed /\ B.group = A.group
      /\ B.items = A.items /\ B.rows = A.rows /\ B.unsaved = A.unsaved
      /\ B.result = A.result
  BY DEF AttemptRec
<1> HIDE DEF B
<1>2. Members(B) = Members(A)
  BY <1>1 DEF Members
<1>3. Shape(B)
  BY <1>1, <1>2 DEF Shape, Progress, Busy
<1> QED BY <1>1, <1>2, <1>3 DEF B, SamePlan

-----------------------------------------------------------------------------
(* Steps of one attempt, whatever the others do. *)

(* The attempt works on its database behind the creation of its sinks.      *)
AtWork(A) == Busy(A) /\ A.phase \notin {"create", "drop"}

Recorded(A, i) == i \in A.committed \/ A.unsaved \/ Place(i) < A.group

(* Attempt a becomes B: what a step may do to locks and tables.             *)
SharedChange(a, B) ==
    /\ B \in AttemptRec /\ Shape(B)
    /\ at' = [at EXCEPT ![a] = B]
    /\ TablesTyped'
    /\ \A u \in Database : \/ lock'[u] = lock[u]
                           \/ lock[u] = a /\ lock'[u] = Free
                           \/ lock[u] = Free /\ lock'[u] = a
    /\ \A u \in Database : lock'[u] = a => Busy(B) /\ B.group = u
    /\ B.group \in Database => Locking(a, B, lock'[B.group])
    /\ \A i \in Item : \/ stage'[i] = stage[i]
                       \/ InDatabase(i) /\ Place(i) = at[a].group /\ AtWork(at[a])
    /\ B.phase \in {"init", "prepare", "guard", "commit"} =>
          \A i \in B.opened : InDatabase(i) => stage'[i] = {a}
    /\ \A b \in Attempt \ {a} : Touched(b)' \subseteq Touched(b)
    /\ Touched(a)' # {} => B.phase # "waiting" /\ B.result # "rejected"
    /\ \A i \in Item : \A b \in table'[i] : b \in table[i] \/ (b = a /\ Recorded(B, i))
    /\ \A i \in Item : Recorded(at[a], i) => Recorded(B, i)

LEMMA StepAttempt ==
    ASSUME AttemptsShaped, NEW a \in Attempt, NEW B \in AttemptRec, Shape(B),
           at' = [at EXCEPT ![a] = B]
    PROVE  AttemptsShaped' /\ at'[a] = B /\ \A b \in Attempt \ {a} : at'[b] = at[b]
<1>1. at' \in [Attempt -> AttemptRec] /\ at'[a] = B /\ \A b \in Attempt \ {a} : at'[b] = at[b]
  BY DEF AttemptsShaped
<1> QED BY <1>1 DEF AttemptsShaped

LEMMA SharedStep ==
    ASSUME SharedInv, NEW a \in Attempt, NEW B, SharedChange(a, B)
    PROVE  SharedInv'
<1>1. AttemptsShaped' /\ at'[a] = B /\ \A b \in Attempt \ {a} : at'[b] = at[b]
  BY StepAttempt DEF SharedInv, SharedChange
<1>2. LocksHeld'
  <2> SUFFICES ASSUME NEW b \in Attempt, NEW u \in Database, lock'[u] = b
               PROVE  Busy(at'[b]) /\ at'[b].group = u
    BY DEF LocksHeld, Running, Busy
  <2>1. CASE b = a
    BY <1>1, <2>1 DEF SharedChange
  <2>2. CASE b # a
    <3>1. lock[u] = b
      BY <2>2, SinkAssumption DEF SharedChange
    <3> QED BY <1>1, <2>2, <3>1 DEF SharedInv, LocksHeld, Running, Busy
  <2> QED BY <2>1, <2>2
<1>3. DatabasesLocked'
  <2> SUFFICES ASSUME NEW b \in Attempt, Busy(at'[b]), at'[b].group \in Database
               PROVE  Locking(b, at'[b], lock'[at'[b].group])
    BY DEF DatabasesLocked, Locking
  <2>1. CASE b = a
    BY <1>1, <2>1 DEF SharedChange
  <2>2. CASE b # a
    <3>1. Locking(b, at[b], lock[at[b].group])
      BY DEF SharedInv, DatabasesLocked
    <3>2. lock[at[b].group] = b => lock'[at[b].group] = b
      BY <1>1, <2>2, SinkAssumption DEF SharedChange
    <3> QED BY <1>1, <2>2, <3>1, <3>2 DEF Locking
  <2> QED BY <2>1, <2>2
<1>4. StagesOwned'
  <2> SUFFICES ASSUME NEW b \in Attempt, at'[b].phase \in {"init", "prepare", "guard", "commit"},
                      NEW i \in at'[b].opened, InDatabase(i)
               PROVE  stage'[i] = {b}
    BY DEF StagesOwned
  <2>1. CASE b = a
    BY <1>1, <2>1 DEF SharedChange
  <2>2. CASE b # a
    <3>0. at[b] \in AttemptRec /\ Shape(at[b]) /\ at[a] \in AttemptRec /\ Shape(at[a])
      BY DEF SharedInv, AttemptsShaped
    <3>1. /\ stage[i] = {b} /\ i \in Item /\ Place(i) = at[b].group
          /\ at[b].phase \in {"init", "prepare", "guard", "commit"}
      BY <1>1, <2>2, <3>0 DEF SharedInv, StagesOwned, Shape, Members, AttemptRec
    <3>2. lock[Place(i)] = b
      BY <3>1 DEF SharedInv, DatabasesLocked, Locking, Busy, InDatabase
    <3>3. ~(Place(i) = at[a].group /\ AtWork(at[a]))
      BY <2>2, <3>2 DEF SharedInv, DatabasesLocked, Locking, Busy, AtWork, InDatabase
    <3> QED BY <3>1, <3>3 DEF SharedChange
  <2> QED BY <2>1, <2>2
<1>5. TouchedIsPlanned'
  <2> SUFFICES ASSUME NEW b \in Attempt, Touched(b)' # {}
               PROVE  at'[b].phase # "waiting" /\ at'[b].result # "rejected"
    BY DEF TouchedIsPlanned
  <2>1. CASE b = a
    BY <1>1, <2>1 DEF SharedChange
  <2>2. CASE b # a
    BY <1>1, <2>2 DEF SharedInv, TouchedIsPlanned, SharedChange
  <2> QED BY <2>1, <2>2
<1>6. TablesHoldCommittedRows'
  <2> SUFFICES ASSUME NEW i \in Item, NEW b \in table'[i]
               PROVE  Recorded(at'[b], i)
    BY DEF TablesHoldCommittedRows, Recorded
  <2>1. b \in Attempt
    BY DEF SharedChange, TablesTyped
  <2>2. b \in table[i] => Recorded(at[b], i)
    BY DEF SharedInv, TablesHoldCommittedRows, Recorded
  <2> QED BY <1>1, <2>1, <2>2 DEF SharedChange
<1> QED BY <1>1, <1>2, <1>3, <1>4, <1>5, <1>6 DEF SharedInv, SharedChange

(* A step that leaves files and tables alone.                               *)
LEMMA QuietChange ==
    ASSUME SharedInv, NEW a \in Attempt, NEW B \in AttemptRec, Shape(B),
           at' = [at EXCEPT ![a] = B], UNCHANGED <<files, tables>>,
           lock' \in [Database -> Attempt \cup {Free, Other}],
           \A u \in Database : \/ lock'[u] = lock[u]
                               \/ lock[u] = a /\ lock'[u] = Free
                               \/ lock[u] = Free /\ lock'[u] = a,
           \A u \in Database : lock'[u] = a => Busy(B) /\ B.group = u,
           B.group \in Database => Locking(a, B, lock'[B.group]),
           B.phase \in {"init", "prepare", "guard", "commit"} =>
              \A i \in B.opened : InDatabase(i) => stage[i] = {a},
           Touched(a) # {} => B.phase # "waiting" /\ B.result # "rejected",
           \A i \in Item : Recorded(at[a], i) => Recorded(B, i)
    PROVE  SharedInv'
<1>1. TablesTyped'
  BY DEF SharedInv, TablesTyped, files, tables
<1>2. \A b \in Attempt : Touched(b)' = Touched(b)
  BY DEF Touched, files, tables
<1>3. SharedChange(a, B)
  BY <1>1, <1>2 DEF SharedChange, files, tables
<1> QED BY <1>3, SharedStep

(* What the invariant says of one attempt.                                  *)
LEMMA OneAttempt ==
    ASSUME SharedInv, NEW a \in Attempt
    PROVE  /\ at[a] \in AttemptRec /\ Shape(at[a])
           /\ at[a].phase \in {"init", "prepare", "guard", "commit"} =>
                 \A i \in at[a].opened : InDatabase(i) => stage[i] = {a}
           /\ Touched(a) # {} => at[a].phase # "waiting" /\ at[a].result # "rejected"
           /\ Locking(a, at[a], lock[at[a].group])
           /\ \A u \in Database : lock[u] = a => Busy(at[a]) /\ at[a].group = u
           /\ lock \in [Database -> Attempt \cup {Free, Other}]
BY DEF SharedInv, AttemptsShaped, StagesOwned, TouchedIsPlanned, DatabasesLocked, LocksHeld,
       Running, Busy, TablesTyped

LEMMA BeginOutcome ==
    ASSUME SharedInv, NEW a \in Attempt, Begin(a)
    PROVE  \E B \in AttemptRec :
              /\ Shape(B) /\ at' = [at EXCEPT ![a] = B]
              /\ B.opened = {} /\ B.committed = {} /\ B.unsaved = FALSE
              /\ \/ B.phase = "ended" /\ B.result = "rejected" /\ B.group = 0
                 \/ B.phase = "ended" /\ B.items = {}
                 \/ /\ B.phase = "create" /\ B.todo = Members(B)
                    /\ \A i \in B.items : B.group <= Place(i)
<1>0. at[a] \in AttemptRec /\ at[a] = NoAttempt
  BY OneAttempt DEF Begin, Shape
<1>1. PICK rows \in RowPlan :
         LET planned == [at[a] EXCEPT !.rows = rows, !.items = OwnedOutputs(rows)]
         IN  at' = [at EXCEPT ![a] =
                IF \E o \in Output : check_quarantine_policy(o, rows[o]) # None
                THEN Ended(planned, "rejected")
                ELSE IF planned.items = {} THEN Ended(planned, aggregate_job_status(rows))
                ELSE StartGroup(planned, Min(Groups(planned.items)))]
  BY DEF Begin, RowPlan
<1> DEFINE P == [at[a] EXCEPT !.rows = rows, !.items = OwnedOutputs(rows)]
<1>2. OwnedOutputs(rows) \subseteq Item /\ aggregate_job_status(rows) \in {"success", "partial"}
  BY PlannedItems
<1>3. P \in AttemptRec
  BY <1>0, <1>2 DEF AttemptRec
<1>3a. /\ P.rows = rows /\ P.items = OwnedOutputs(rows) /\ P.opened = {}
       /\ P.committed = {} /\ P.unsaved = FALSE /\ P.result = "none" /\ P.group = 0
  BY <1>0, <1>2 DEF NoAttempt
<1>4. at' = [at EXCEPT ![a] =
                IF \E o \in Output : check_quarantine_policy(o, rows[o]) # None
                THEN Ended(P, "rejected")
                ELSE IF P.items = {} THEN Ended(P, aggregate_job_status(rows))
                ELSE StartGroup(P, Min(Groups(P.items)))]
  BY <1>1
<1> HIDE DEF P
<1>5. CASE \E o \in Output : check_quarantine_policy(o, rows[o]) # None
  <2>1. at' = [at EXCEPT ![a] = Ended(P, "rejected")]
    BY <1>4, <1>5
  <2>2. /\ Ended(P, "rejected") \in AttemptRec /\ Shape(Ended(P, "rejected"))
        /\ Ended(P, "rejected").phase = "ended" /\ Ended(P, "rejected").result = "rejected"
        /\ Ended(P, "rejected").opened = {} /\ Ended(P, "rejected").committed = P.committed
        /\ Ended(P, "rejected").unsaved = P.unsaved /\ Ended(P, "rejected").group = P.group
    BY <1>3, <1>3a, EndedShape DEF Result
  <2> QED BY <1>3a, <2>1, <2>2
<1>6. CASE PolicyKept(rows) /\ P.items = {}
  <2> DEFINE r == aggregate_job_status(rows)
  <2>1. at' = [at EXCEPT ![a] = Ended(P, r)]
    BY <1>4, <1>6 DEF PolicyKept
  <2> HIDE DEF r
  <2>2. r \in Result \ {"none"}
    BY <1>2 DEF Result, r
  <2>3. /\ Ended(P, r) \in AttemptRec /\ Shape(Ended(P, r))
        /\ Ended(P, r).phase = "ended" /\ Ended(P, r).items = P.items
        /\ Ended(P, r).opened = {} /\ Ended(P, r).committed = P.committed
        /\ Ended(P, r).unsaved = P.unsaved
    BY <1>3, <1>3a, <1>6, <2>2, EndedShape
  <2> QED BY <1>3a, <1>6, <2>1, <2>3
<1>7. CASE PolicyKept(rows) /\ P.items # {}
  <2> DEFINE g == Min(Groups(P.items))
  <2>1. at' = [at EXCEPT ![a] = StartGroup(P, g)]
    BY <1>4, <1>7 DEF PolicyKept
  <2>2. Groups(P.items) \in SUBSET Nat /\ Groups(P.items) # {}
    BY <1>2, <1>3a, <1>7, GroupsNat DEF Groups
  <2>3. g \in Groups(P.items) /\ \A h \in Groups(P.items) : g <= h
    BY <2>2, MinIn
  <2> HIDE DEF g
  <2>4. /\ StartGroup(P, g) \in AttemptRec /\ Shape(StartGroup(P, g))
        /\ StartGroup(P, g).phase = "create" /\ StartGroup(P, g).group = g
        /\ StartGroup(P, g).opened = {} /\ StartGroup(P, g).committed = {}
        /\ StartGroup(P, g).items = P.items /\ StartGroup(P, g).unsaved = P.unsaved
        /\ StartGroup(P, g).todo = Members(StartGroup(P, g))
    BY <1>3, <1>3a, <1>7, <2>3, StartGroupShape
  <2>5. \A i \in P.items : g <= Place(i)
    BY <2>3 DEF Groups
  <2> QED BY <1>3a, <2>1, <2>4, <2>5
<1> QED BY <1>5, <1>6, <1>7 DEF PolicyKept

LEMMA SharedBegin ==
    ASSUME SharedInv, NEW a \in Attempt, Begin(a)
    PROVE  SharedInv'
<1>0. /\ at[a] = NoAttempt /\ UNCHANGED <<files, tables, lock>> /\ Touched(a) = {}
      /\ \A u \in Database : lock[u] # a
  BY OneAttempt DEF Begin, Shape, Busy
<1>1. PICK B \in AttemptRec :
              /\ Shape(B) /\ at' = [at EXCEPT ![a] = B]
              /\ B.opened = {} /\ B.committed = {} /\ B.unsaved = FALSE
              /\ \/ B.phase = "ended" /\ B.result = "rejected"
                 \/ B.phase = "ended" /\ B.items = {}
                 \/ /\ B.phase = "create" /\ B.todo = Members(B)
                    /\ \A i \in B.items : B.group <= Place(i)
  BY BeginOutcome
<1>2. \A i \in Item : ~Recorded(at[a], i)
  BY <1>0, PlaceNat DEF Recorded, NoAttempt
<1>3. Locking(a, B, lock'[B.group])
  BY <1>1 DEF Locking, Busy
<1> QED BY <1>0, <1>1, <1>2, <1>3, QuietChange, OneAttempt

LEMMA SharedCreate ==
    ASSUME SharedInv, NEW a \in Attempt, NEW i \in Item, create(a, i)
    PROVE  SharedInv'
<1> DEFINE A == at[a]
<1>0. /\ A \in AttemptRec /\ Shape(A) /\ A.phase = "create" /\ i \in A.todo
      /\ UNCHANGED <<files, tables>> /\ A.todo \subseteq Members(A)
      /\ Place(i) = A.group /\ A.opened = {} /\ A.committed = {}
      /\ lock \in [Database -> Attempt \cup {Free, Other}]
      /\ Locking(a, A, lock[A.group]) /\ A.result # "rejected"
      /\ \A u \in Database : lock[u] = a => A.group = u
  BY OneAttempt DEF create, AtSink, Shape, Progress, Members, Busy
<1> DEFINE B == Advance(A, i, "init")
<1>1. /\ B \in AttemptRec /\ Shape(B) /\ SamePlan(A, B) /\ B.opened = {} /\ B.committed = {}
      /\ B.unsaved = A.unsaved
      /\ \/ A.todo = {i} /\ B.phase = "init" /\ B.todo = Members(A)
         \/ A.todo # {i} /\ B.phase = "create" /\ B.todo = A.todo \ {i}
  <2>1. "init" \in Phase
    BY DEF Phase
  <2> HIDE DEF A
  <2> QED BY <1>0, <2>1, AdvanceFields, CreateShape
<1>2. CASE ~InDatabase(i)
  <2>1. at' = [at EXCEPT ![a] = B] /\ UNCHANGED lock
    BY <1>2 DEF create
  <2>2. B.group \notin Database
    BY <1>0, <1>1, <1>2 DEF SamePlan, InDatabase
  <2> HIDE DEF A, B
  <2>3. Busy(B) /\ B.result # "rejected" /\ B.group = A.group
    BY <1>0, <1>1 DEF SamePlan, Busy
  <2>4. \A k \in Item : Recorded(A, k) => Recorded(B, k)
    BY <1>0, <1>1 DEF Recorded, SamePlan
  <2> QED BY <1>0, <1>1, <2>1, <2>2, <2>3, <2>4, QuietChange DEF A, Busy
<1>3. CASE InDatabase(i) /\ lock[Place(i)] = Free
  <2>1. at' = [at EXCEPT ![a] = B] /\ lock' = [lock EXCEPT ![Place(i)] = a]
    BY <1>3 DEF create
  <2>2. A.group \in Database /\ lock'[A.group] = a
    BY <1>0, <1>3, <2>1 DEF InDatabase
  <2>3. A.todo = Members(A)
    BY <1>0, <1>3, SinkAssumption DEF Locking, Busy, InDatabase
  <2> HIDE DEF A, B
  <2>4. Busy(B) /\ B.result # "rejected" /\ B.group = A.group /\ Members(B) = Members(A)
    BY <1>0, <1>1 DEF SamePlan, Busy
  <2>5. Locking(a, B, lock'[B.group])
    BY <1>0, <1>1, <2>2, <2>3, <2>4 DEF Locking
  <2>6. \A k \in Item : Recorded(A, k) => Recorded(B, k)
    BY <1>0, <1>1 DEF Recorded, SamePlan
  <2>7. \A u \in Database : u # A.group => lock'[u] = lock[u]
    BY <1>0, <2>1
  <2> QED BY <1>0, <1>1, <1>3, <2>1, <2>2, <2>4, <2>5, <2>6, <2>7, QuietChange DEF A, Busy
<1>4. CASE InDatabase(i) /\ lock[Place(i)] # Free
  <2> DEFINE C == Dropping(A)
  <2>1. at' = [at EXCEPT ![a] = C] /\ UNCHANGED lock
    BY <1>4 DEF create
  <2> HIDE DEF A
  <2>2. /\ C \in AttemptRec /\ Shape(C) /\ SamePlan(A, C) /\ C.phase = "drop"
        /\ C.opened = A.opened /\ C.committed = {} /\ C.unsaved = A.unsaved
    BY <1>0, DroppingShape
  <2> HIDE DEF C
  <2>3. Busy(C) /\ C.result # "rejected" /\ C.group = A.group
    BY <1>0, <2>2 DEF SamePlan, Busy
  <2>4. Locking(a, C, lock'[C.group])
    BY <2>2 DEF Locking
  <2>6. \A k \in Item : Recorded(A, k) => Recorded(C, k)
    BY <1>0, <2>2 DEF Recorded, SamePlan
  <2> QED BY <1>0, <2>1, <2>2, <2>3, <2>4, <2>6, QuietChange DEF A, Busy
<1> QED BY <1>2, <1>3, <1>4

(* The attempts a step leaves a trace of: a itself, and those that had one. *)
LEMMA TouchedByOthers ==
    ASSUME NEW a \in Attempt,
           \A i \in Item : \/ temp'[i] = NoFile \/ temp'[i].by = a
                           \/ temp[i] # NoFile /\ temp'[i].by = temp[i].by,
           \A i \in Item : \/ final'[i] = NoFile
                           \/ final[i] # NoFile /\ final'[i].by = final[i].by
                           \/ temp[i] # NoFile /\ final'[i].by = temp[i].by,
           \A i \in Item : table'[i] \subseteq table[i] \cup stage[i] \cup {a},
           \A i \in Item : stage'[i] \subseteq stage[i] \cup {a}
    PROVE  \A b \in Attempt \ {a} : Touched(b)' \subseteq Touched(b)
BY DEF Touched

LEMMA SharedInit ==
    ASSUME SharedInv, NEW a \in Attempt, NEW i \in Item, init(a, i)
    PROVE  SharedInv'
<1> DEFINE A == at[a]
           B == Advance([A EXCEPT !.opened = @ \cup {i}], i, "prepare")
<1>0. /\ A \in AttemptRec /\ Shape(A) /\ A.phase = "init" /\ i \in A.todo
      /\ UNCHANGED <<final, table, lock>> /\ Place(i) = A.group /\ A.committed = {}
      /\ lock \in [Database -> Attempt \cup {Free, Other}]
      /\ Locking(a, A, lock[A.group]) /\ A.result = "none"
      /\ \A u \in Database : lock[u] = a => A.group = u
      /\ \A k \in A.opened : InDatabase(k) => stage[k] = {a}
  BY OneAttempt DEF init, AtSink, Shape, Progress, Members, Busy
<1>1. at' = [at EXCEPT ![a] = B]
  BY DEF init
<1> HIDE DEF A
<1>2. /\ B \in AttemptRec /\ Shape(B) /\ SamePlan(A, B)
      /\ B.opened = A.opened \cup {i} /\ B.committed = {} /\ B.unsaved = A.unsaved
      /\ \/ A.todo = {i} /\ B.phase = "prepare" /\ B.todo = Members(A)
         \/ A.todo # {i} /\ B.phase = "init" /\ B.todo = A.todo \ {i}
  BY <1>0, InitShape
<1> HIDE DEF B
<1>3. TablesTyped' /\ (\A k \in Item \ {i} : temp'[k] = temp[k] /\ stage'[k] = stage[k])
      /\ IF InDatabase(i) THEN stage'[i] = {a} /\ temp' = temp
                          ELSE temp'[i].by = a /\ temp'[i] \in Inode /\ stage' = stage
  <2>0. TablesTyped
    BY DEF SharedInv
  <2>1. CASE InDatabase(i)
    BY <1>0, <2>0, <2>1 DEF init, TablesTyped
  <2>2. CASE ~InDatabase(i)
    <3> DEFINE others == IF temp[i] = NoFile THEN {} ELSE temp[i].writers
               f == [by |-> a, writers |-> others \cup {a}, mixed |-> others # {}, full |-> FALSE]
    <3>1. others \in SUBSET Attempt
      BY <2>0 DEF TablesTyped, Inode
    <3>2. temp' = [temp EXCEPT ![i] = f] /\ stage' = stage
      BY <2>2 DEF init
    <3> HIDE DEF others
    <3>3. f \in Inode /\ f.by = a
      BY <3>1 DEF Inode
    <3> HIDE DEF f
    <3> QED BY <1>0, <2>0, <2>2, <3>2, <3>3 DEF TablesTyped
  <2> QED BY <2>1, <2>2
<1>4. \A b \in Attempt \ {a} : Touched(b)' \subseteq Touched(b)
  <2>1. \A k \in Item : temp'[k] = NoFile \/ temp'[k].by = a
                        \/ (temp[k] # NoFile /\ temp'[k].by = temp[k].by)
    BY <1>3
  <2>2. \A k \in Item : stage'[k] \subseteq stage[k] \cup {a}
    BY <1>3
  <2> QED BY <1>0, <2>1, <2>2, TouchedByOthers
<1>5. \A k \in B.opened : InDatabase(k) => stage'[k] = {a}
  <2>1. A.opened \subseteq Item
    BY <1>0 DEF AttemptRec
  <2> QED BY <1>0, <1>2, <1>3, <2>1
<1>6. B.group = A.group /\ Busy(B) /\ B.result # "rejected" /\ Locking(a, B, lock'[B.group])
  BY <1>0, <1>2 DEF SamePlan, Busy, Locking
<1>7. \A k \in Item : Recorded(A, k) => Recorded(B, k)
  BY <1>0, <1>2, <1>6 DEF Recorded
<1>8. SharedChange(a, B)
  <2>1. \A k \in Item : stage'[k] = stage[k]
                        \/ (InDatabase(k) /\ Place(k) = A.group /\ AtWork(A))
    BY <1>0, <1>3 DEF AtWork, Busy
  <2> QED BY <1>0, <1>1, <1>2, <1>3, <1>4, <1>5, <1>6, <1>7, <2>1 DEF SharedChange, A, Busy
<1> QED BY <1>8, SharedStep

(* Closing a writer neither makes nor removes a file.                       *)
LEMMA ClosedFacts ==
    ASSUME NEW a \in Attempt, NEW f \in Inode \cup {NoFile}
    PROVE  /\ Closed(f, a) \in Inode \cup {NoFile}
           /\ Closed(f, a) = NoFile <=> f = NoFile
           /\ f # NoFile => /\ Closed(f, a).by = f.by /\ Closed(f, a).mixed = f.mixed
                            /\ Closed(f, a).writers = f.writers \ {a}
                            /\ a \notin f.writers => Closed(f, a) = f
                            /\ a \in f.writers /\ f.by = a => Closed(f, a).full = TRUE
<1>1. CASE f = NoFile
  BY <1>1 DEF Closed
<1>2. CASE f # NoFile /\ a \in f.writers
  <2> DEFINE g == [f EXCEPT !.writers = @ \ {a}, !.full = (f.by = a)]
  <2>1. /\ g \in Inode /\ g.by = f.by /\ g.mixed = f.mixed /\ g.writers = f.writers \ {a}
        /\ g.full = (f.by = a)
    BY <1>2 DEF Inode
  <2>2. Closed(f, a) = g
    BY <1>2 DEF Closed
  <2> HIDE DEF g
  <2> QED BY <1>2, <2>1, <2>2, NoFileIsNoInode
<1>3. CASE f # NoFile /\ a \notin f.writers
  <2>1. Closed(f, a) = f
    BY <1>3 DEF Closed
  <2>2. f.writers \ {a} = f.writers
    BY <1>3 DEF Inode
  <2> QED BY <1>3, <2>1, <2>2
<1> QED BY <1>1, <1>2, <1>3

LEMMA SharedPrepare ==
    ASSUME SharedInv, NEW a \in Attempt, NEW i \in Item, prepare(a, i)
    PROVE  SharedInv'
<1> DEFINE A == at[a]
           B == Advance(A, i, "guard")
<1>0. /\ A \in AttemptRec /\ Shape(A) /\ A.phase = "prepare" /\ i \in A.todo
      /\ UNCHANGED <<tables, lock>> /\ A.todo \subseteq Members(A) /\ A.committed = {}
      /\ lock \in [Database -> Attempt \cup {Free, Other}]
      /\ Locking(a, A, lock[A.group]) /\ A.result = "none"
      /\ \A u \in Database : lock[u] = a => A.group = u
      /\ \A k \in A.opened : InDatabase(k) => stage[k] = {a}
  BY OneAttempt DEF prepare, AtSink, Shape, Progress, Members, Busy
<1>1. at' = [at EXCEPT ![a] = B]
  BY DEF prepare
<1> HIDE DEF A
<1>2. /\ B \in AttemptRec /\ Shape(B) /\ SamePlan(A, B)
      /\ B.opened = A.opened /\ B.committed = A.committed /\ B.unsaved = A.unsaved
      /\ \/ A.todo = {i} /\ B.phase = "guard" /\ B.todo = Members(A)
         \/ A.todo # {i} /\ B.phase = "prepare" /\ B.todo = A.todo \ {i}
  <2>1. "guard" \in Phase
    BY DEF Phase
  <2> QED BY <1>0, <2>1, AdvanceFields, PrepareShape
<1> HIDE DEF B
<1>3. /\ temp \in [Item -> Inode \cup {NoFile}] /\ final \in [Item -> Inode \cup {NoFile}]
      /\ temp' = [temp EXCEPT ![i] = Closed(temp[i], a)]
      /\ final' = [final EXCEPT ![i] = Closed(final[i], a)]
  BY DEF SharedInv, TablesTyped, prepare
<1>4. /\ \A k \in Item : temp'[k] = NoFile \/ (temp[k] # NoFile /\ temp'[k].by = temp[k].by)
      /\ \A k \in Item : final'[k] = NoFile \/ (final[k] # NoFile /\ final'[k].by = final[k].by)
      /\ temp' \in [Item -> Inode \cup {NoFile}] /\ final' \in [Item -> Inode \cup {NoFile}]
  <2> DEFINE t == Closed(temp[i], a)
             f == Closed(final[i], a)
  <2>0. temp[i] \in Inode \cup {NoFile} /\ final[i] \in Inode \cup {NoFile}
    BY <1>3
  <2>1a. t \in Inode \cup {NoFile} /\ (t = NoFile \/ (temp[i] # NoFile /\ t.by = temp[i].by))
    BY <2>0, ClosedFacts
  <2>1b. f \in Inode \cup {NoFile} /\ (f = NoFile \/ (final[i] # NoFile /\ f.by = final[i].by))
    BY <2>0, ClosedFacts
  <2> HIDE DEF t, f
  <2>2. temp' = [temp EXCEPT ![i] = t] /\ final' = [final EXCEPT ![i] = f]
    BY <1>3 DEF t, f
  <2> QED BY <1>3, <2>1a, <2>1b, <2>2
<1>5. TablesTyped'
  BY <1>0, <1>4 DEF SharedInv, TablesTyped, tables
<1>6. \A b \in Attempt \ {a} : Touched(b)' \subseteq Touched(b)
  BY <1>0, <1>4, TouchedByOthers DEF tables
<1>7. B.group = A.group /\ Busy(B) /\ B.result # "rejected" /\ Locking(a, B, lock'[B.group])
  BY <1>0, <1>2 DEF SamePlan, Busy, Locking
<1>8. \A k \in Item : Recorded(A, k) => Recorded(B, k)
  BY <1>0, <1>2, <1>7 DEF Recorded
<1>9. SharedChange(a, B)
  BY <1>0, <1>1, <1>2, <1>5, <1>6, <1>7, <1>8 DEF SharedChange, A, Busy, tables
<1> QED BY <1>9, SharedStep

LEMMA SharedGuard ==
    ASSUME SharedInv, NEW a \in Attempt, guard(a)
    PROVE  SharedInv'
<1> DEFINE A == at[a]
           next == IF A.cancelled THEN "rollback" ELSE "commit"
           B == [A EXCEPT !.phase = next]
<1>0. /\ A \in AttemptRec /\ Shape(A) /\ A.phase = "guard" /\ A.result = "none"
      /\ UNCHANGED <<files, tables, lock>> /\ A.committed = {}
      /\ lock \in [Database -> Attempt \cup {Free, Other}] /\ Locking(a, A, lock[A.group])
      /\ \A u \in Database : lock[u] = a => A.group = u
      /\ \A k \in A.opened : InDatabase(k) => stage[k] = {a}
  BY OneAttempt DEF guard, Shape, Progress, Busy
<1>1. at' = [at EXCEPT ![a] = B]
  BY DEF guard
<1>2. next \in {"rollback", "commit"}
  OBVIOUS
<1> HIDE DEF A, next
<1>3. /\ B \in AttemptRec /\ Shape(B) /\ SamePlan(A, B) /\ B.phase = next
      /\ B.opened = A.opened /\ B.committed = {} /\ B.unsaved = A.unsaved
  BY <1>0, <1>2, GuardShape
<1> HIDE DEF B
<1>4. B.group = A.group /\ Busy(B) /\ B.result # "rejected" /\ Locking(a, B, lock'[B.group])
  BY <1>0, <1>2, <1>3 DEF SamePlan, Busy, Locking
<1>5. \A k \in Item : Recorded(A, k) => Recorded(B, k)
  BY <1>0, <1>3, <1>4 DEF Recorded
<1> QED BY <1>0, <1>1, <1>2, <1>3, <1>4, <1>5, QuietChange DEF A, Busy

(* The attempt's locks are released, and no other.                          *)
LEMMA UnlockedFacts ==
    ASSUME NEW a \in Attempt, lock \in [Database -> Attempt \cup {Free, Other}]
    PROVE  /\ Unlocked(a) \in [Database -> Attempt \cup {Free, Other}]
           /\ \A u \in Database : \/ Unlocked(a)[u] = lock[u]
                                  \/ lock[u] = a /\ Unlocked(a)[u] = Free
           /\ \A u \in Database : Unlocked(a)[u] # a
BY SinkAssumption DEF Unlocked

(* A sink has committed: the loop goes on, or the group is done.            *)
AfterCommit(a, i, B) ==
    /\ Shape(B) /\ at' = [at EXCEPT ![a] = B] /\ B.items = at[a].items
    /\ B.unsaved = at[a].unsaved
    /\ \/ /\ at[a].todo # {i} /\ lock' = lock /\ SamePlan(at[a], B)
          /\ B.phase = "commit" /\ B.todo = at[a].todo \ {i} /\ B.opened = B.todo
          /\ B.committed = (Members(at[a]) \ at[a].todo) \cup {i}
       \/ /\ at[a].todo = {i} /\ lock' = Unlocked(a) /\ B.opened = {}
          /\ \/ /\ B.phase = "ended" /\ B.result \in {"success", "partial"}
                /\ B.group = at[a].group /\ B.committed = Members(at[a])
                /\ \A k \in B.items : Place(k) <= at[a].group
             \/ /\ B.phase = "create" /\ B.group \in Nat /\ B.group > at[a].group
                /\ B.committed = {} /\ B.todo = Members(B)
                /\ \A k \in B.items : Place(k) < B.group => Place(k) <= at[a].group

LEMMA CommitOutcome ==
    ASSUME SharedInv, NEW a \in Attempt, NEW i \in Item, AtSink(a, i, "commit"),
           Committed(a, i, [at[a] EXCEPT !.committed = @ \cup {i}, !.opened = @ \ {i}])
    PROVE  \E B \in AttemptRec : AfterCommit(a, i, B)
<1> DEFINE A == at[a]
           D == [A EXCEPT !.committed = @ \cup {i}, !.opened = @ \ {i}]
<1>0. A \in AttemptRec /\ Shape(A) /\ A.phase = "commit" /\ i \in A.todo /\ A.todo \subseteq Members(A)
  BY OneAttempt DEF AtSink, Shape
<1>1. /\ at' = [at EXCEPT ![a] = IF D.todo = {i} THEN CommitDone(D) ELSE Advance(D, i, "commit")]
      /\ lock' = IF D.todo = {i} THEN Unlocked(a) ELSE lock
  BY DEF Committed
<1> HIDE DEF A
<1>2. /\ D \in AttemptRec /\ SamePlan(A, D) /\ D.phase = A.phase /\ D.todo = A.todo
      /\ D.opened = A.todo \ {i} /\ D.committed = (Members(A) \ A.todo) \cup {i}
      /\ D.unsaved = A.unsaved /\ D.committed \subseteq Members(D)
  BY <1>0, CommittedFields
<1> HIDE DEF D
<1>3. CASE A.todo # {i}
  <2> DEFINE B == Advance(D, i, "commit")
  <2>1. /\ B \in AttemptRec /\ Shape(B) /\ SamePlan(A, B) /\ B.phase = "commit"
        /\ B.opened = D.opened /\ B.committed = D.committed /\ B.unsaved = D.unsaved
        /\ B.todo = A.todo \ {i}
    BY <1>0, <1>2, <1>3, CommitShape
  <2>2. at' = [at EXCEPT ![a] = B] /\ lock' = lock
    BY <1>1, <1>2, <1>3
  <2> HIDE DEF B
  <2> QED BY <1>2, <1>3, <2>1, <2>2 DEF A, SamePlan, AfterCommit
<1>4. CASE A.todo = {i}
  <2> DEFINE B == CommitDone(D)
  <2>1. /\ B \in AttemptRec /\ Shape(B) /\ B.items = A.items /\ B.unsaved = D.unsaved
        /\ B.opened = {}
        /\ \/ /\ B.phase = "ended" /\ B.result \in {"success", "partial"}
              /\ B.group = A.group /\ B.committed = D.committed
              /\ \A k \in A.items : Place(k) <= A.group
           \/ /\ B.phase = "create" /\ B.group \in Nat /\ B.group > A.group
              /\ B.committed = {} /\ B.todo = Members(B)
              /\ \A k \in A.items : Place(k) < B.group => Place(k) <= A.group
    BY <1>0, <1>2, CommitDoneShape
  <2>2. at' = [at EXCEPT ![a] = B] /\ lock' = Unlocked(a)
    BY <1>1, <1>2, <1>4
  <2>3. D.committed = Members(A)
    BY <1>0, <1>2, <1>4
  <2> HIDE DEF B
  <2> QED BY <1>2, <1>4, <2>1, <2>2, <2>3 DEF A, AfterCommit
<1> QED BY <1>3, <1>4

LEMMA SharedCommit ==
    ASSUME SharedInv, NEW a \in Attempt, NEW i \in Item, commit(a, i)
    PROVE  SharedInv'
<1> DEFINE A == at[a]
<1>0. /\ A \in AttemptRec /\ Shape(A) /\ A.phase = "commit" /\ i \in A.todo
      /\ A.todo \subseteq Members(A) /\ Place(i) = A.group /\ A.group \in Nat
      /\ A.opened = A.todo /\ A.committed = Members(A) \ A.todo
      /\ lock \in [Database -> Attempt \cup {Free, Other}]
      /\ Locking(a, A, lock[A.group]) /\ A.result = "none"
      /\ \A u \in Database : lock[u] = a => A.group = u
      /\ \A k \in A.opened : InDatabase(k) => stage[k] = {a}
  BY OneAttempt DEF commit, AtSink, Shape, Progress, Members, Busy, AttemptRec
<1>1a. PICK B \in AttemptRec : AfterCommit(a, i, B)
  BY CommitOutcome DEF commit
<1>1. /\ Shape(B) /\ at' = [at EXCEPT ![a] = B] /\ B.items = A.items
      /\ B.unsaved = A.unsaved
      /\ \/ /\ A.todo # {i} /\ lock' = lock /\ SamePlan(A, B)
            /\ B.phase = "commit" /\ B.todo = A.todo \ {i} /\ B.opened = B.todo
            /\ B.committed = (Members(A) \ A.todo) \cup {i}
         \/ /\ A.todo = {i} /\ lock' = Unlocked(a) /\ B.opened = {}
            /\ \/ /\ B.phase = "ended" /\ B.result \in {"success", "partial"}
                  /\ B.group = A.group /\ B.committed = Members(A)
               \/ /\ B.phase = "create" /\ B.group \in Nat /\ B.group > A.group
                  /\ B.committed = {} /\ B.todo = Members(B)
  BY <1>1a DEF AfterCommit
<1>2. /\ TablesTyped'
      /\ \A k \in Item : /\ stage'[k] = stage[k] \/ (k = i /\ InDatabase(i) /\ stage'[i] = {})
                         /\ table'[k] = table[k] \/ (InDatabase(i) /\ table'[k] \subseteq table[k] \cup stage[k] /\ k = i)
                         /\ temp'[k] = temp[k] \/ temp'[k] = NoFile
                         /\ final'[k] = final[k] \/ (temp[k] # NoFile /\ final'[k] = temp[k])
  <2>0. TablesTyped
    BY DEF SharedInv
  <2>1. lock' \in [Database -> Attempt \cup {Free, Other}]
    BY <1>0, <1>1, UnlockedFacts
  <2>2. CASE InDatabase(i)
    <3>1. /\ table' = [table EXCEPT ![i] = Promoted(i)] /\ stage' = [stage EXCEPT ![i] = {}]
          /\ temp' = temp /\ final' = final
      BY <2>2 DEF commit, files
    <3>2. Promoted(i) \subseteq table[i] \cup stage[i] /\ Promoted(i) \subseteq Attempt
      BY <2>0 DEF Promoted, TablesTyped
    <3> QED BY <2>0, <2>1, <2>2, <3>1, <3>2 DEF TablesTyped
  <2>3. CASE ~InDatabase(i)
    <3>1. /\ temp[i] # NoFile /\ final' = [final EXCEPT ![i] = temp[i]]
          /\ temp' = [temp EXCEPT ![i] = NoFile] /\ stage' = stage /\ table' = table
      BY <2>3 DEF commit, tables
    <3> QED BY <2>0, <2>1, <3>1 DEF TablesTyped
  <2> QED BY <2>2, <2>3
<1> HIDE DEF A
<1>3. \A b \in Attempt \ {a} : Touched(b)' \subseteq Touched(b)
  BY <1>2, TouchedByOthers
<1>4. B.phase # "waiting" /\ B.result # "rejected"
  BY <1>0, <1>1 DEF SamePlan, Shape, Busy
<1>5. /\ \A u \in Database : \/ lock'[u] = lock[u]
                             \/ lock[u] = a /\ lock'[u] = Free
      /\ \A u \in Database : lock'[u] = a => Busy(B) /\ B.group = u
      /\ B.group \in Database => Locking(a, B, lock'[B.group])
  <2>1. CASE A.todo # {i}
    BY <1>0, <1>1, <2>1 DEF SamePlan, Busy, Locking
  <2>2. CASE A.todo = {i}
    BY <1>0, <1>1, <2>2, UnlockedFacts DEF Busy, Locking
  <2> QED BY <2>1, <2>2
<1>6. \A k \in Item : Recorded(A, k) => Recorded(B, k)
  <2>1. \A k \in Item : k \in A.committed => Place(k) = A.group
    BY <1>0 DEF Members
  <2> QED BY <1>0, <1>1, <2>1, PlaceNat DEF Recorded, SamePlan
<1>7. InDatabase(i) => stage[i] = {a} /\ Recorded(B, i)
  BY <1>0, <1>1 DEF Recorded, SamePlan
<1>8. \A k \in Item : \A b \in table'[k] : b \in table[k] \/ (b = a /\ Recorded(B, k))
  BY <1>2, <1>7
<1>9. B.phase \in {"init", "prepare", "guard", "commit"} =>
          \A k \in B.opened : InDatabase(k) => stage'[k] = {a}
  <2>1. \A k \in A.todo : k \in Item
    BY <1>0 DEF AttemptRec
  <2> QED BY <1>0, <1>1, <1>2, <2>1
<1>10. \A k \in Item : stage'[k] = stage[k] \/ (InDatabase(k) /\ Place(k) = A.group /\ AtWork(A))
  BY <1>0, <1>2 DEF AtWork, Busy
<1>11. SharedChange(a, B)
  BY <1>1, <1>2, <1>3, <1>4, <1>5, <1>6, <1>8, <1>9, <1>10 DEF SharedChange, A
<1> QED BY <1>11, SharedStep

(* What a step may rely on while the attempt is busy.                       *)
LEMMA BusyAttempt ==
    ASSUME SharedInv, NEW a \in Attempt, Busy(at[a])
    PROVE  /\ at[a] \in AttemptRec /\ Shape(at[a]) /\ at[a].result = "none"
           /\ at[a].todo \subseteq Members(at[a]) /\ at[a].group \in Nat
           /\ \A i \in Members(at[a]) : i \in Item /\ Place(i) = at[a].group
           /\ lock \in [Database -> Attempt \cup {Free, Other}]
           /\ Locking(a, at[a], lock[at[a].group])
           /\ \A u \in Database : lock[u] = a => at[a].group = u
           /\ TablesTyped
BY OneAttempt DEF Shape, Members, AttemptRec, SharedInv

LEMMA SharedCommitFails ==
    ASSUME SharedInv, NEW a \in Attempt, CommitFails(a)
    PROVE  SharedInv'
<1> DEFINE A == at[a]
           B == RollingBack(A)
<1>0. A.phase = "commit" /\ Busy(A) /\ UNCHANGED <<files, tables, lock>> /\ at' = [at EXCEPT ![a] = B]
  BY DEF CommitFails, Busy
<1>1. /\ A \in AttemptRec /\ Shape(A) /\ A.result = "none"
      /\ lock \in [Database -> Attempt \cup {Free, Other}] /\ Locking(a, A, lock[A.group])
      /\ \A u \in Database : lock[u] = a => A.group = u
  BY <1>0, BusyAttempt
<1> HIDE DEF A
<1>2. /\ B \in AttemptRec /\ Shape(B) /\ SamePlan(A, B) /\ B.phase = "rollback"
      /\ B.opened = A.opened /\ B.committed = A.committed /\ B.unsaved = A.unsaved
  <2>1. [A EXCEPT !.unsaved = A.unsaved] = A /\ A.unsaved \in BOOLEAN
    BY <1>1 DEF AttemptRec
  <2> QED BY <1>0, <1>1, <2>1, RollingBackShape
<1> HIDE DEF B
<1>3. B.group = A.group /\ Busy(B) /\ B.result # "rejected" /\ Locking(a, B, lock'[B.group])
  BY <1>0, <1>1, <1>2 DEF SamePlan, Busy, Locking
<1>4. \A k \in Item : Recorded(A, k) => Recorded(B, k)
  BY <1>0, <1>2, <1>3 DEF Recorded
<1> QED BY <1>0, <1>1, <1>2, <1>3, <1>4, QuietChange DEF A, Busy

LEMMA SharedCheckpointFails ==
    ASSUME SharedInv, NEW a \in Attempt, NEW i \in Item, CheckpointFails(a, i)
    PROVE  SharedInv'
<1> DEFINE A == at[a]
           B == RollingBack([A EXCEPT !.unsaved = TRUE])
<1>0. /\ A.phase = "commit" /\ Busy(A) /\ UNCHANGED <<files, lock>> /\ at' = [at EXCEPT ![a] = B]
      /\ i \in A.todo /\ InDatabase(i)
      /\ table' = [table EXCEPT ![i] = Promoted(i)] /\ stage' = [stage EXCEPT ![i] = {}]
  BY DEF CheckpointFails, AtSink, Busy
<1>1. /\ A \in AttemptRec /\ Shape(A) /\ A.result = "none" /\ Place(i) = A.group
      /\ lock \in [Database -> Attempt \cup {Free, Other}] /\ Locking(a, A, lock[A.group])
      /\ TablesTyped
      /\ \A u \in Database : lock[u] = a => A.group = u
  BY <1>0, BusyAttempt
<1>2. stage[i] = {a}
  BY <1>0, OneAttempt DEF Shape, Progress
<1> HIDE DEF A
<1>3. /\ B \in AttemptRec /\ Shape(B) /\ SamePlan(A, B) /\ B.phase = "rollback"
      /\ B.opened = A.opened /\ B.committed = A.committed /\ B.unsaved = TRUE
  BY <1>0, <1>1, RollingBackShape
<1> HIDE DEF B
<1>4. B.group = A.group /\ Busy(B) /\ B.result # "rejected" /\ Locking(a, B, lock'[B.group])
  BY <1>0, <1>1, <1>3 DEF SamePlan, Busy, Locking
<1>5. /\ TablesTyped'
      /\ \A k \in Item : table'[k] \subseteq table[k] \cup {a}
      /\ \A k \in Item : stage'[k] = stage[k] \/ (k = i /\ stage'[k] = {})
  <2>1. Promoted(i) \subseteq table[i] \cup {a} /\ Promoted(i) \subseteq Attempt
    BY <1>1, <1>2 DEF Promoted, TablesTyped
  <2> QED BY <1>0, <1>1, <2>1 DEF TablesTyped, files
<1>6. \A b \in Attempt \ {a} : Touched(b)' \subseteq Touched(b)
  BY <1>0, <1>5, TouchedByOthers DEF files
<1>7. \A k \in Item : Recorded(B, k)
  BY <1>3 DEF Recorded
<1>8. SharedChange(a, B)
  BY <1>0, <1>1, <1>3, <1>4, <1>5, <1>6, <1>7 DEF SharedChange, A, Busy, AtWork
<1> QED BY <1>8, SharedStep

LEMMA SharedStagingFails ==
    ASSUME SharedInv, NEW a \in Attempt, StagingFails(a)
    PROVE  SharedInv'
<1> DEFINE A == at[a]
           B == Dropping(A)
<1>0. /\ A.phase \in {"create", "init", "prepare"} /\ Busy(A) /\ UNCHANGED <<files, tables, lock>>
      /\ at' = [at EXCEPT ![a] = B]
  BY DEF StagingFails, Busy
<1>1. /\ A \in AttemptRec /\ Shape(A) /\ A.result = "none" /\ A.committed = {}
      /\ lock \in [Database -> Attempt \cup {Free, Other}]
      /\ \A u \in Database : lock[u] = a => A.group = u
  BY <1>0, BusyAttempt DEF Shape, Progress
<1> HIDE DEF A
<1>2. /\ B \in AttemptRec /\ Shape(B) /\ SamePlan(A, B) /\ B.phase = "drop"
      /\ B.opened = A.opened /\ B.committed = {} /\ B.unsaved = A.unsaved
  BY <1>0, <1>1, DroppingShape
<1> HIDE DEF B
<1>3. B.group = A.group /\ Busy(B) /\ B.result # "rejected" /\ Locking(a, B, lock'[B.group])
  BY <1>0, <1>1, <1>2 DEF SamePlan, Busy, Locking
<1>4. \A k \in Item : Recorded(A, k) => Recorded(B, k)
  BY <1>1, <1>2, <1>3 DEF Recorded
<1> QED BY <1>0, <1>1, <1>2, <1>3, <1>4, QuietChange DEF A, Busy

(* The sink that cannot be opened leaves an empty file or no stage table.   *)
LEMMA SharedOpenFails ==
    ASSUME SharedInv, NEW a \in Attempt, NEW i \in Item, OpenFails(a, i)
    PROVE  SharedInv'
<1> DEFINE A == at[a]
           B == Dropping(A)
<1>0. /\ A \in AttemptRec /\ Shape(A) /\ A.phase = "init" /\ i \in A.todo
      /\ UNCHANGED <<final, table, lock>> /\ Place(i) = A.group /\ A.committed = {}
      /\ lock \in [Database -> Attempt \cup {Free, Other}] /\ A.result = "none"
      /\ \A u \in Database : lock[u] = a => A.group = u
      /\ at' = [at EXCEPT ![a] = B]
  BY OneAttempt DEF OpenFails, AtSink, Shape, Progress, Members, Busy
<1> HIDE DEF A
<1>1. /\ B \in AttemptRec /\ Shape(B) /\ SamePlan(A, B) /\ B.phase = "drop"
      /\ B.opened = A.opened /\ B.committed = {} /\ B.unsaved = A.unsaved
  BY <1>0, DroppingShape
<1> HIDE DEF B
<1>2. TablesTyped' /\ (\A k \in Item \ {i} : temp'[k] = temp[k] /\ stage'[k] = stage[k])
      /\ IF InDatabase(i) THEN stage'[i] = {} /\ temp' = temp
                          ELSE temp'[i].by = a /\ stage' = stage
  <2>0. TablesTyped
    BY DEF SharedInv
  <2>1. CASE InDatabase(i)
    BY <1>0, <2>0, <2>1 DEF OpenFails, TablesTyped
  <2>2. CASE ~InDatabase(i)
    <3> DEFINE others == IF temp[i] = NoFile THEN {} ELSE temp[i].writers
               f == [by |-> a, writers |-> others, mixed |-> others # {}, full |-> FALSE]
    <3>1. others \in SUBSET Attempt
      BY <2>0 DEF TablesTyped, Inode
    <3>2. temp' = [temp EXCEPT ![i] = f] /\ stage' = stage
      BY <2>2 DEF OpenFails
    <3> HIDE DEF others
    <3>3. f \in Inode /\ f.by = a
      BY <3>1 DEF Inode
    <3> HIDE DEF f
    <3> QED BY <1>0, <2>0, <2>2, <3>2, <3>3 DEF TablesTyped
  <2> QED BY <2>1, <2>2
<1>3. \A b \in Attempt \ {a} : Touched(b)' \subseteq Touched(b)
  <2>1. \A k \in Item : temp'[k] = NoFile \/ temp'[k].by = a
                        \/ (temp[k] # NoFile /\ temp'[k].by = temp[k].by)
    BY <1>2
  <2>2. \A k \in Item : stage'[k] \subseteq stage[k] \cup {a}
    BY <1>2
  <2> QED BY <1>0, <2>1, <2>2, TouchedByOthers
<1>4. B.group = A.group /\ Busy(B) /\ B.result # "rejected" /\ Locking(a, B, lock'[B.group])
  BY <1>0, <1>1 DEF SamePlan, Busy, Locking
<1>5. \A k \in Item : Recorded(A, k) => Recorded(B, k)
  BY <1>0, <1>1, <1>4 DEF Recorded
<1>6. SharedChange(a, B)
  <2>1. \A k \in Item : stage'[k] = stage[k]
                        \/ (InDatabase(k) /\ Place(k) = A.group /\ AtWork(A))
    BY <1>0, <1>2 DEF AtWork, Busy
  <2> QED BY <1>0, <1>1, <1>2, <1>3, <1>4, <1>5, <2>1 DEF SharedChange, A, Busy
<1> QED BY <1>6, SharedStep

(* A sink is rolled back or dropped: the loop goes on, or the attempt ends. *)
AfterUndo(a, i, B) ==
    /\ Shape(B) /\ at' = [at EXCEPT ![a] = B] /\ B.committed = at[a].committed
    /\ B.unsaved = at[a].unsaved /\ B.items = at[a].items /\ B.group = at[a].group
    /\ \/ /\ at[a].todo = {i} /\ lock' = Unlocked(a)
          /\ B.phase = "ended" /\ B.result \in {"aborted", "transient"} /\ B.opened = {}
       \/ /\ at[a].todo # {i} /\ lock' = lock
          /\ B.phase = at[a].phase /\ B.todo = at[a].todo \ {i}
          /\ B.opened = at[a].opened /\ SamePlan(at[a], B)

LEMMA UndoOutcome ==
    ASSUME SharedInv, NEW a \in Attempt, NEW i \in Item, at[a].phase \in {"rollback", "drop"},
           i \in at[a].todo, Undone(a, i)
    PROVE  \E B \in AttemptRec : AfterUndo(a, i, B)
<1> DEFINE A == at[a]
           B == IF A.todo = {i} THEN Failed(A) ELSE [A EXCEPT !.todo = @ \ {i}]
<1>0. A \in AttemptRec /\ Shape(A) /\ A.phase \in {"rollback", "drop"} /\ i \in A.todo
  BY OneAttempt
<1>1. at' = [at EXCEPT ![a] = B] /\ lock' = IF A.todo = {i} THEN Unlocked(a) ELSE lock
  BY DEF Undone
<1> HIDE DEF A
<1>2. /\ B \in AttemptRec /\ Shape(B) /\ B.committed = A.committed
      /\ B.unsaved = A.unsaved /\ B.items = A.items /\ B.group = A.group
      /\ \/ /\ A.todo = {i} /\ B.phase = "ended" /\ B.result \in {"aborted", "transient"}
            /\ B.opened = {}
         \/ /\ A.todo # {i} /\ B.phase = A.phase /\ B.todo = A.todo \ {i}
            /\ B.opened = A.opened /\ SamePlan(A, B)
  BY <1>0, UndoneShape
<1> HIDE DEF B
<1> QED BY <1>1, <1>2 DEF AfterUndo, A

(* The locks and the records after a sink is undone, whatever it undid.     *)
LEMMA UndoChange ==
    ASSUME SharedInv, NEW a \in Attempt, NEW i \in Item, at[a].phase \in {"rollback", "drop"},
           i \in at[a].todo, NEW B \in AttemptRec, AfterUndo(a, i, B), table' = table,
           stage' = stage \/ (/\ at[a].phase = "rollback" /\ InDatabase(i)
                              /\ stage' = [stage EXCEPT ![i] = {}]),
           temp' = temp \/ temp' = [temp EXCEPT ![i] = NoFile],
           final' = final \/ final' = [final EXCEPT ![i] = NoFile]
    PROVE  SharedInv'
<1> DEFINE A == at[a]
<1>0. Busy(A) /\ A.phase \in {"rollback", "drop"} /\ i \in A.todo
  BY DEF Busy
<1>1. /\ A \in AttemptRec /\ Shape(A) /\ A.result = "none" /\ Place(i) = A.group
      /\ lock \in [Database -> Attempt \cup {Free, Other}] /\ Locking(a, A, lock[A.group])
      /\ TablesTyped
      /\ \A u \in Database : lock[u] = a => A.group = u
  BY <1>0, BusyAttempt
<1>2. /\ Shape(B) /\ at' = [at EXCEPT ![a] = B] /\ B.committed = A.committed
      /\ B.unsaved = A.unsaved /\ B.items = A.items /\ B.group = A.group
      /\ \/ /\ A.todo = {i} /\ lock' = Unlocked(a)
            /\ B.phase = "ended" /\ B.result \in {"aborted", "transient"} /\ B.opened = {}
         \/ /\ A.todo # {i} /\ lock' = lock
            /\ B.phase = A.phase /\ SamePlan(A, B)
  BY DEF AfterUndo
<1> HIDE DEF A
<1>3. lock' \in [Database -> Attempt \cup {Free, Other}]
  BY <1>1, <1>2, UnlockedFacts
<1>4. /\ TablesTyped'
      /\ \A k \in Item : /\ stage'[k] = stage[k] \/ (k = i /\ A.phase = "rollback" /\ InDatabase(i) /\ stage'[k] = {})
                         /\ temp'[k] = temp[k] \/ temp'[k] = NoFile
                         /\ final'[k] = final[k] \/ final'[k] = NoFile
  BY <1>1, <1>3 DEF TablesTyped, A
<1>5. /\ \A u \in Database : \/ lock'[u] = lock[u]
                             \/ lock[u] = a /\ lock'[u] = Free
      /\ \A u \in Database : lock'[u] = a => Busy(B) /\ B.group = u
      /\ Locking(a, B, lock'[B.group])
  <2>1. CASE A.todo # {i}
    BY <1>0, <1>1, <1>2, <2>1 DEF SamePlan, Busy, Locking
  <2>2. CASE A.todo = {i}
    BY <1>0, <1>1, <1>2, <2>2, UnlockedFacts DEF Busy, Locking
  <2> QED BY <2>1, <2>2
<1>6. \A b \in Attempt \ {a} : Touched(b)' \subseteq Touched(b)
  BY <1>4, TouchedByOthers
<1>7. \A k \in Item : Recorded(A, k) => Recorded(B, k)
  BY <1>2 DEF Recorded
<1>8. B.phase \in {"rollback", "drop", "ended"} /\ B.result # "rejected"
  BY <1>0, <1>1, <1>2 DEF SamePlan
<1>9. \A k \in Item : stage'[k] = stage[k] \/ (InDatabase(k) /\ Place(k) = A.group /\ AtWork(A))
  BY <1>0, <1>1, <1>4 DEF AtWork
<1>10. SharedChange(a, B)
  BY <1>2, <1>4, <1>5, <1>6, <1>7, <1>8, <1>9 DEF SharedChange, A
<1> QED BY <1>10, SharedStep

LEMMA SharedRollback ==
    ASSUME SharedInv, NEW a \in Attempt, NEW i \in Item, rollback(a, i)
    PROVE  SharedInv'
<1>1. at[a].phase = "rollback" /\ i \in at[a].todo /\ Undone(a, i)
  BY DEF rollback, AtSink
<1>2. PICK B \in AttemptRec : AfterUndo(a, i, B)
  BY <1>1, UndoOutcome
<1> QED BY <1>1, <1>2, UndoChange DEF rollback, Removed, files

LEMMA SharedDrop ==
    ASSUME SharedInv, NEW a \in Attempt, NEW i \in Item, drop(a, i)
    PROVE  SharedInv'
<1>1. at[a].phase = "drop" /\ i \in at[a].todo /\ Undone(a, i)
  BY DEF drop, AtSink
<1>2. PICK B \in AttemptRec : AfterUndo(a, i, B)
  BY <1>1, UndoOutcome
<1> QED BY <1>1, <1>2, UndoChange DEF drop, Removed, tables

LEMMA SharedCancel ==
    ASSUME SharedInv, NEW a \in Attempt, Cancel(a)
    PROVE  SharedInv'
<1> DEFINE A == at[a]
           B == [A EXCEPT !.cancelled = TRUE]
<1>0. Busy(A) /\ UNCHANGED <<files, tables, lock>> /\ at' = [at EXCEPT ![a] = B]
  BY DEF Cancel, Running, Busy
<1>1. /\ A \in AttemptRec /\ Shape(A) /\ A.result = "none"
      /\ lock \in [Database -> Attempt \cup {Free, Other}] /\ Locking(a, A, lock[A.group])
      /\ \A u \in Database : lock[u] = a => A.group = u
  BY <1>0, BusyAttempt
<1>1a. A.phase \in {"init", "prepare", "guard", "commit"} =>
          \A i \in A.opened : InDatabase(i) => stage[i] = {a}
  BY OneAttempt
<1> HIDE DEF A
<1>2. /\ B \in AttemptRec /\ Shape(B) /\ SamePlan(A, B) /\ B.phase = A.phase
      /\ B.opened = A.opened /\ B.committed = A.committed /\ B.unsaved = A.unsaved
      /\ B.todo = A.todo
  BY <1>0, <1>1, CancelShape
<1> HIDE DEF B
<1>3. B.group = A.group /\ Busy(B) /\ B.result # "rejected" /\ Locking(a, B, lock'[B.group])
  BY <1>0, <1>1, <1>2 DEF SamePlan, Busy, Locking
<1>4. \A k \in Item : Recorded(A, k) => Recorded(B, k)
  BY <1>0, <1>2, <1>3 DEF Recorded
<1> QED BY <1>0, <1>1, <1>1a, <1>2, <1>3, <1>4, QuietChange DEF A, Busy

(* A file whose writer has died. *)
Orphan(file, a) == IF file = NoFile THEN NoFile ELSE [file EXCEPT !.writers = @ \ {a}]

LEMMA OrphanFacts ==
    ASSUME NEW a \in Attempt, NEW f \in Inode \cup {NoFile}
    PROVE  /\ Orphan(f, a) \in Inode \cup {NoFile}
           /\ Orphan(f, a) = NoFile <=> f = NoFile
           /\ f # NoFile => /\ Orphan(f, a).by = f.by /\ Orphan(f, a).mixed = f.mixed
                            /\ Orphan(f, a).writers = f.writers \ {a}
                            /\ Orphan(f, a).full = f.full
<1>1. CASE f = NoFile
  BY <1>1 DEF Orphan
<1>2. CASE f # NoFile
  <2> DEFINE g == [f EXCEPT !.writers = @ \ {a}]
  <2>1. /\ g \in Inode /\ g.by = f.by /\ g.mixed = f.mixed /\ g.writers = f.writers \ {a}
        /\ g.full = f.full
    BY <1>2 DEF Inode
  <2>2. Orphan(f, a) = g
    BY <1>2 DEF Orphan
  <2> HIDE DEF g
  <2> QED BY <1>2, <2>1, <2>2, NoFileIsNoInode
<1> QED BY <1>1, <1>2

LEMMA CrashFacts ==
    ASSUME SharedInv, NEW a \in Attempt, Crash(a)
    PROVE  /\ Busy(at[a]) /\ at' = [at EXCEPT ![a] = Ended(at[a], "crashed")]
           /\ \A i \in Item : temp'[i] = Orphan(temp[i], a) /\ final'[i] = Orphan(final[i], a)
           /\ temp' \in [Item -> Inode \cup {NoFile}] /\ final' \in [Item -> Inode \cup {NoFile}]
           /\ stage' = stage /\ table' = table /\ lock' = Unlocked(a)
<1>1. /\ Busy(at[a]) /\ at' = [at EXCEPT ![a] = Ended(at[a], "crashed")]
      /\ temp' = [i \in Item |-> Orphan(temp[i], a)] /\ final' = [i \in Item |-> Orphan(final[i], a)]
      /\ stage' = stage /\ table' = table /\ lock' = Unlocked(a)
  BY DEF Crash, Running, Busy, Orphan, tables
<1>2. \A i \in Item : temp[i] \in Inode \cup {NoFile} /\ final[i] \in Inode \cup {NoFile}
  BY DEF SharedInv, TablesTyped
<1>3. \A i \in Item : Orphan(temp[i], a) \in Inode \cup {NoFile}
  BY <1>2, OrphanFacts
<1>4. \A i \in Item : Orphan(final[i], a) \in Inode \cup {NoFile}
  BY <1>2, OrphanFacts
<1> QED BY <1>1, <1>3, <1>4

LEMMA SharedCrash ==
    ASSUME SharedInv, NEW a \in Attempt, Crash(a)
    PROVE  SharedInv'
<1> DEFINE A == at[a]
           B == Ended(A, "crashed")
<1>0. /\ Busy(A) /\ at' = [at EXCEPT ![a] = B]
      /\ \A i \in Item : temp'[i] = Orphan(temp[i], a) /\ final'[i] = Orphan(final[i], a)
      /\ temp' \in [Item -> Inode \cup {NoFile}] /\ final' \in [Item -> Inode \cup {NoFile}]
      /\ stage' = stage /\ table' = table /\ lock' = Unlocked(a)
  BY CrashFacts
<1>1. /\ A \in AttemptRec /\ Shape(A) /\ TablesTyped
      /\ lock \in [Database -> Attempt \cup {Free, Other}]
  BY <1>0, BusyAttempt
<1> HIDE DEF A
<1>2. /\ A.committed \subseteq Members(A) /\ A.rows \in RowPlan /\ PolicyKept(A.rows)
      /\ "crashed" \in Result \ {"none"}
  BY <1>0, <1>1 DEF Shape, Result
<1>3. /\ B \in AttemptRec /\ Shape(B) /\ B.phase = "ended" /\ B.result = "crashed"
      /\ B.group = A.group /\ B.items = A.items /\ B.opened = {} /\ B.committed = A.committed
      /\ B.unsaved = A.unsaved
  BY <1>1, <1>2, EndedShape
<1> HIDE DEF B
<1>4. /\ \A k \in Item : temp'[k] = NoFile \/ (temp[k] # NoFile /\ temp'[k].by = temp[k].by)
      /\ \A k \in Item : final'[k] = NoFile \/ (final[k] # NoFile /\ final'[k].by = final[k].by)
  <2>1. \A k \in Item : temp[k] \in Inode \cup {NoFile} /\ final[k] \in Inode \cup {NoFile}
    BY <1>1 DEF TablesTyped
  <2>2. \A k \in Item : temp'[k] = NoFile \/ (temp[k] # NoFile /\ temp'[k].by = temp[k].by)
    BY <1>0, <2>1, OrphanFacts
  <2>3. \A k \in Item : final'[k] = NoFile \/ (final[k] # NoFile /\ final'[k].by = final[k].by)
    BY <1>0, <2>1, OrphanFacts
  <2> QED BY <2>2, <2>3
<1>5. TablesTyped'
  BY <1>0, <1>1, UnlockedFacts DEF TablesTyped
<1>6. \A b \in Attempt \ {a} : Touched(b)' \subseteq Touched(b)
  BY <1>0, <1>4, TouchedByOthers
<1>7. \A k \in Item : Recorded(A, k) => Recorded(B, k)
  BY <1>3 DEF Recorded
<1>8. /\ \A u \in Database : lock'[u] = lock[u] \/ (lock[u] = a /\ lock'[u] = Free)
      /\ \A u \in Database : lock'[u] # a
      /\ Locking(a, B, lock'[B.group])
  BY <1>0, <1>1, <1>3, UnlockedFacts DEF Locking, Busy
<1>9. SharedChange(a, B)
  BY <1>0, <1>3, <1>5, <1>6, <1>7, <1>8 DEF SharedChange, A
<1> QED BY <1>9, SharedStep

(* Another program comes and goes between two sinks.                        *)
LEMMA SharedOther ==
    ASSUME SharedInv, NEW u \in Database, OtherLocks(u) \/ OtherUnlocks(u)
    PROVE  SharedInv'
<1>1. /\ temp' = temp /\ final' = final /\ stage' = stage /\ table' = table /\ at' = at
      /\ lock' \in [Database -> Attempt \cup {Free, Other}]
      /\ \A d \in Database : \/ lock'[d] = lock[d]
                             \/ lock[d] \notin Attempt /\ lock'[d] \notin Attempt
  BY SinkAssumption DEF SharedInv, TablesTyped, OtherLocks, OtherUnlocks, files, tables
<1>2. TablesTyped' /\ AttemptsShaped' /\ TablesHoldCommittedRows'
  BY <1>1 DEF SharedInv, TablesTyped, AttemptsShaped, TablesHoldCommittedRows
<1>3. LocksHeld'
  BY <1>1 DEF SharedInv, LocksHeld, Running
<1>4. DatabasesLocked'
  BY <1>1 DEF SharedInv, DatabasesLocked, Locking
<1>5. StagesOwned' /\ TouchedIsPlanned'
  BY <1>1 DEF SharedInv, StagesOwned, TouchedIsPlanned, Touched
<1> QED BY <1>2, <1>3, <1>4, <1>5 DEF SharedInv

LEMMA SharedStutter ==
    ASSUME SharedInv, UNCHANGED vars
    PROVE  SharedInv'
<1>1. /\ temp' = temp /\ final' = final /\ stage' = stage /\ table' = table /\ at' = at
      /\ lock' = lock
  BY DEF vars, files, tables
<1>2. TablesTyped' /\ AttemptsShaped' /\ TablesHoldCommittedRows'
  BY <1>1 DEF SharedInv, TablesTyped, AttemptsShaped, TablesHoldCommittedRows
<1>3. LocksHeld' /\ DatabasesLocked'
  BY <1>1 DEF SharedInv, LocksHeld, Running, DatabasesLocked
<1>5. StagesOwned' /\ TouchedIsPlanned'
  BY <1>1 DEF SharedInv, StagesOwned, TouchedIsPlanned, Touched
<1> QED BY <1>2, <1>3, <1>5 DEF SharedInv

LEMMA SharedInitially == Init => SharedInv
<1> SUFFICES ASSUME Init PROVE SharedInv
  OBVIOUS
<1>1. TablesTyped
  BY DEF Init, TablesTyped
<1>2. NoAttempt \in AttemptRec
  BY DEF NoAttempt, AttemptRec, Phase, Result
<1>3. Shape(NoAttempt)
  BY <1>2 DEF NoAttempt, Shape, Progress, Busy, Members
<1>4. AttemptsShaped
  BY <1>2, <1>3 DEF Init, AttemptsShaped
<1>5. \A a \in Attempt : at[a].phase = "waiting"
  BY DEF Init, NoAttempt
<1>6. LocksHeld /\ DatabasesLocked /\ StagesOwned
  BY <1>5, SinkAssumption DEF Init, LocksHeld, DatabasesLocked, Locking, Busy, StagesOwned
<1>7. TouchedIsPlanned /\ TablesHoldCommittedRows
  BY DEF Init, TouchedIsPlanned, Touched, TablesHoldCommittedRows
<1> QED BY <1>1, <1>4, <1>6, <1>7 DEF SharedInv

LEMMA SharedNext == SharedInv /\ [Next]_vars => SharedInv'
<1> SUFFICES ASSUME SharedInv, [Next]_vars PROVE SharedInv'
  OBVIOUS
<1>1. ASSUME NEW a \in Attempt, Begin(a) PROVE SharedInv'
  BY <1>1, SharedBegin
<1>2. ASSUME NEW a \in Attempt, guard(a) PROVE SharedInv'
  BY <1>2, SharedGuard
<1>3. ASSUME NEW a \in Attempt, CommitFails(a) PROVE SharedInv'
  BY <1>3, SharedCommitFails
<1>4. ASSUME NEW a \in Attempt, StagingFails(a) PROVE SharedInv'
  BY <1>4, SharedStagingFails
<1>5. ASSUME NEW a \in Attempt, Cancel(a) PROVE SharedInv'
  BY <1>5, SharedCancel
<1>6. ASSUME NEW a \in Attempt, Crash(a) PROVE SharedInv'
  BY <1>6, SharedCrash
<1>7. ASSUME NEW a \in Attempt, NEW i \in Item, create(a, i) PROVE SharedInv'
  BY <1>7, SharedCreate
<1>8. ASSUME NEW a \in Attempt, NEW i \in Item, init(a, i) PROVE SharedInv'
  BY <1>8, SharedInit
<1>9. ASSUME NEW a \in Attempt, NEW i \in Item, prepare(a, i) PROVE SharedInv'
  BY <1>9, SharedPrepare
<1>10. ASSUME NEW a \in Attempt, NEW i \in Item, commit(a, i) PROVE SharedInv'
  BY <1>10, SharedCommit
<1>11. ASSUME NEW a \in Attempt, NEW i \in Item, CheckpointFails(a, i) PROVE SharedInv'
  BY <1>11, SharedCheckpointFails
<1>12. ASSUME NEW a \in Attempt, NEW i \in Item, rollback(a, i) PROVE SharedInv'
  BY <1>12, SharedRollback
<1>13. ASSUME NEW a \in Attempt, NEW i \in Item, drop(a, i) PROVE SharedInv'
  BY <1>13, SharedDrop
<1>14. ASSUME NEW u \in Database, OtherLocks(u) \/ OtherUnlocks(u) PROVE SharedInv'
  BY <1>14, SharedOther
<1>15. ASSUME NEW a \in Attempt, NEW i \in Item, OpenFails(a, i) PROVE SharedInv'
  BY <1>15, SharedOpenFails
<1>16. ASSUME UNCHANGED vars PROVE SharedInv'
  BY <1>16, SharedStutter
<1> QED BY <1>1, <1>2, <1>3, <1>4, <1>5, <1>6, <1>7, <1>8, <1>9, <1>10, <1>11, <1>12, <1>13,
           <1>14, <1>15, <1>16 DEF Next

-----------------------------------------------------------------------------
(* The theorems that hold however attempts overlap. *)

\* However attempts overlap (worker.rs, write_outputs): an attempt's phase agrees
\* with its items, whoever works in a database holds its lock, stage tables belong
\* to the attempt that holds it, a rejected attempt touches nothing, and tables hold
\* only rows that were committed.
THEOREM SharedInvariant == Spec => []SharedInv
BY SharedInitially, SharedNext, PTL DEF Spec

(* Rows reach a destination table only through a commit their attempt knows *)
(* of, however many attempts of the job write to the database at once.      *)
THEOREM TablesHoldCommittedRowsAlways == Spec => []TablesHoldCommittedRows
<1>1. SharedInv => TablesHoldCommittedRows
  BY DEF SharedInv
<1> QED BY <1>1, SharedInvariant, PTL

LEMMA PolicyFromInv == SharedInv => QuarantineWithinPolicy
<1> SUFFICES ASSUME SharedInv, NEW a \in Attempt, Traces(a) # {}, NEW o \in Output,
                    at[a].rows[o].bad > 0
             PROVE  /\ Policy[o].allow
                    /\ Policy[o].max_count = None \/ at[a].rows[o].bad <= Policy[o].max_count
                    /\ 100 * at[a].rows[o].bad <= Policy[o].max_pct * (at[a].rows[o].valid + at[a].rows[o].bad)
  BY DEF QuarantineWithinPolicy
<1>1. Touched(a) # {}
  BY DEF Traces, Published, Unfinished, Touched
<1>2. at[a].rows \in RowPlan /\ PolicyKept(at[a].rows)
  <2>1. at[a].phase # "waiting" /\ at[a].result # "rejected" /\ at[a] \in AttemptRec /\ Shape(at[a])
    BY <1>1, OneAttempt
  <2> QED BY <2>1 DEF Shape, Busy, AttemptRec, Phase
<1>3. check_quarantine_policy(o, at[a].rows[o]) = None
  BY <1>2 DEF PolicyKept
<1> DEFINE r == at[a].rows[o]
           x == 100 * r.bad
           y == Policy[o].max_pct * (r.valid + r.bad)
<1>4. r.bad \in Nat /\ r.valid \in Nat /\ r.bad # 0 /\ Policy[o].max_pct \in Nat
  BY SMTT(30), <1>2, SinkAssumption DEF RowPlan, Rows
<1>5. x \in Nat /\ y \in Nat
  BY <1>4
<1>6. Policy[o].max_count = None \/ Policy[o].max_count \in Nat
  BY SinkAssumption
<1>7. Policy[o].allow /\ ~(Policy[o].max_count # None /\ r.bad > Policy[o].max_count) /\ ~(x > y)
  BY <1>3, <1>4, SinkAssumption DEF check_quarantine_policy
<1> HIDE DEF x, y
<1>8. x <= y
  BY <1>5, <1>7
<1>9. Policy[o].max_count = None \/ r.bad <= Policy[o].max_count
  BY <1>4, <1>6, <1>7
<1> QED BY <1>7, <1>8, <1>9 DEF x, y

(* No job that found more bad rows than one of its outputs allows leaves a  *)
(* trace of any of them, in a table or in a file.                           *)
THEOREM QuarantineWithinPolicyAlways == Spec => []QuarantineWithinPolicy
BY PolicyFromInv, SharedInvariant, PTL

(* Types, for the tables, the locks and the attempts.                       *)
THEOREM TypeCorrect == Spec => []TypeOK
<1>1. SharedInv => TypeOK
  <2> SUFFICES ASSUME SharedInv PROVE TypeOK
    OBVIOUS
  <2>1. TablesTyped
    BY DEF SharedInv
  <2>2. ASSUME NEW a \in Attempt
        PROVE  /\ at[a].phase \in Phase
               /\ at[a].items \subseteq Item /\ at[a].todo \subseteq at[a].items
               /\ at[a].opened \subseteq Item /\ at[a].committed \subseteq Item
               /\ at[a].opened \cap at[a].committed = {}
               /\ ~Running(a) => \A u \in Database : lock[u] # a
               /\ at[a].result \in Result
    <3>1. at[a] \in AttemptRec /\ Shape(at[a]) /\ \A u \in Database : lock[u] = a => Running(a)
      BY OneAttempt DEF Running, Busy
    <3>2. at[a].todo \subseteq at[a].items /\ at[a].opened \cap at[a].committed = {}
      BY <3>1 DEF Shape, Members
    <3> QED BY <3>1, <3>2 DEF AttemptRec
  <2> QED BY <2>1, <2>2 DEF TypeOK, TablesTyped, Result
<1> QED BY <1>1, SharedInvariant, PTL

-----------------------------------------------------------------------------
(* One attempt at a time. *)

(* Attempt a becomes B while the others wait or have ended: what a step may *)
(* do to the files and the tables.                                          *)
SerialChange(a, B) ==
    /\ B \in AttemptRec /\ at' = [at EXCEPT ![a] = B] /\ B.phase # "waiting"
    /\ KindsApart'
    /\ \A i \in Item : temp'[i] # NoFile =>
          \/ temp'[i].by = a /\ TempFits(B, i, temp'[i])
          \/ /\ temp'[i].by # a /\ temp[i] # NoFile /\ temp'[i].by = temp[i].by
             /\ temp'[i].mixed = temp[i].mixed /\ temp'[i].full = temp[i].full
             /\ temp'[i].writers \subseteq temp[i].writers
    /\ B.phase \in {"init", "prepare", "guard", "commit"} =>
          \A i \in B.opened : ~InDatabase(i) => temp'[i] # NoFile /\ temp'[i].by = a
    /\ \A i \in Item : final'[i] # NoFile =>
          /\ Whole(final'[i]) /\ final'[i].writers = {}
          /\ \/ final'[i].by = a /\ FinalFits(B, i)
             \/ final'[i].by # a /\ final[i] # NoFile /\ final'[i].by = final[i].by
    /\ \A i \in Item : \A b \in table'[i] :
          IF b = a THEN Accounted(B, i) \/ B.unsaved ELSE b \in table[i]
    /\ (\A b \in Attempt \ {a} : at[b].phase = "waiting") =>
          \A i \in B.items : Promised(B, i) => Kept(a, i)'

Solo(a) == \A b \in Attempt \ {a} : ~Busy(at[b])

LEMMA SerialStep ==
    ASSUME SharedInv, SerialInv, NEW a \in Attempt, NEW B, Solo(a), SerialChange(a, B), TablesTyped'
    PROVE  SerialInv'
<1>1. /\ at' \in [Attempt -> AttemptRec] /\ at'[a] = B
      /\ \A b \in Attempt \ {a} : at'[b] = at[b] /\ ~Busy(at[b])
  BY DEF SharedInv, AttemptsShaped, SerialChange, Solo
<1>2. OneAtATime'
  BY <1>1 DEF OneAtATime, Running, Busy
<1>3. TempsOwned'
  <2> SUFFICES ASSUME NEW i \in Item, temp'[i] # NoFile
               PROVE  TempFits(at'[temp'[i].by], i, temp'[i])
    BY DEF TempsOwned
  <2>0. temp'[i] \in Inode /\ (temp[i] # NoFile => temp[i] \in Inode)
    BY DEF TablesTyped, SharedInv
  <2>1. CASE temp'[i].by = a
    BY <1>1, <2>1 DEF SerialChange
  <2>2. CASE temp'[i].by # a
    <3>1. /\ temp[i] # NoFile /\ temp'[i].by = temp[i].by
          /\ temp'[i].mixed = temp[i].mixed /\ temp'[i].full = temp[i].full
          /\ temp'[i].writers \subseteq temp[i].writers
      BY <2>2 DEF SerialChange
    <3>2. TempFits(at[temp[i].by], i, temp[i]) /\ ~Busy(at[temp[i].by])
          /\ at'[temp'[i].by] = at[temp[i].by]
      BY <1>1, <2>0, <2>2, <3>1 DEF SerialInv, TempsOwned, Inode
    <3>3. temp[i].writers = {} /\ temp'[i].writers = {}
      BY <3>1, <3>2 DEF TempFits, Stray
    <3> QED BY <3>1, <3>2, <3>3 DEF TempFits, Stray
  <2> QED BY <2>1, <2>2
<1>4. OpenHasTemp'
  <2> SUFFICES ASSUME NEW b \in Attempt, at'[b].phase \in {"init", "prepare", "guard", "commit"},
                      NEW i \in at'[b].opened, ~InDatabase(i)
               PROVE  temp'[i] # NoFile /\ temp'[i].by = b
    BY DEF OpenHasTemp
  <2>1. b = a
    BY <1>1 DEF Busy
  <2> QED BY <1>1, <2>1 DEF SerialChange
<1>5. FinalsClosed'
  BY DEF SerialChange, FinalsClosed
<1>6. FinalsAccounted'
  <2> SUFFICES ASSUME NEW i \in Item, final'[i] # NoFile PROVE FinalFits(at'[final'[i].by], i)
    BY DEF FinalsAccounted
  <2>1. final'[i] \in Inode
    BY DEF TablesTyped
  <2>2. final[i] # NoFile => FinalFits(at[final[i].by], i)
    BY DEF SerialInv, FinalsAccounted
  <2> QED BY <1>1, <2>1, <2>2 DEF SerialChange, Inode
<1>7. RowsAccounted'
  <2> SUFFICES ASSUME NEW i \in Item, NEW b \in Attempt, b \in table'[i]
               PROVE  Accounted(at'[b], i) \/ at'[b].unsaved
    BY DEF RowsAccounted
  <2>1. b \in table[i] => Accounted(at[b], i) \/ at[b].unsaved
    BY DEF SerialInv, RowsAccounted
  <2> QED BY <1>1, <2>1 DEF SerialChange
<1>8. LastIsKept'
  <2> SUFFICES ASSUME NEW b \in Attempt, \A c \in Attempt \ {b} : at'[c].phase = "waiting",
                      NEW i \in at'[b].items, Promised(at'[b], i)
               PROVE  Kept(b, i)'
    BY DEF LastIsKept
  <2>1. b = a
    BY <1>1 DEF SerialChange
  <2>2. \A c \in Attempt \ {a} : at[c].phase = "waiting"
    BY <1>1, <2>1
  <2> QED BY <1>1, <2>1, <2>2 DEF SerialChange
<1> QED BY <1>2, <1>3, <1>4, <1>5, <1>6, <1>7, <1>8 DEF SerialInv, SerialChange

(* What the invariant says of the attempt that runs.                        *)
LEMMA SerialFacts ==
    ASSUME SharedInv, SerialInv, NEW a \in Attempt
    PROVE  /\ \A i \in Item : temp[i] # NoFile => temp[i] \in Inode
           /\ \A i \in Item : final[i] # NoFile => final[i] \in Inode
           /\ \A i \in Item : temp[i] # NoFile /\ temp[i].by = a => TempFits(at[a], i, temp[i])
           /\ \A i \in Item : final[i] # NoFile /\ final[i].by = a => FinalFits(at[a], i)
           /\ \A i \in Item : final[i] # NoFile => Whole(final[i]) /\ final[i].writers = {}
           /\ \A i \in Item : a \in table[i] => Accounted(at[a], i) \/ at[a].unsaved
           /\ (\A b \in Attempt \ {a} : at[b].phase = "waiting") =>
                 \A i \in at[a].items : Promised(at[a], i) => Kept(a, i)
           /\ at[a].phase \in {"init", "prepare", "guard", "commit"} =>
                 \A i \in at[a].opened : ~InDatabase(i) => temp[i] # NoFile /\ temp[i].by = a
           /\ Busy(at[a]) => Solo(a)
           /\ KindsApart
BY DEF SharedInv, TablesTyped, SerialInv, TempsOwned, FinalsAccounted, FinalsClosed, RowsAccounted,
       LastIsKept, OpenHasTemp, OneAtATime, Solo, Running, Busy

(* A step that leaves files and tables alone.                               *)
LEMMA SerialQuiet ==
    ASSUME SharedInv, SerialInv, NEW a \in Attempt, NEW B \in AttemptRec, Solo(a),
           at' = [at EXCEPT ![a] = B], UNCHANGED <<files, tables>>, B.phase # "waiting",
           TablesTyped',
           \A i \in Item : temp[i] # NoFile /\ temp[i].by = a => TempFits(B, i, temp[i]),
           B.phase \in {"init", "prepare", "guard", "commit"} =>
              \A i \in B.opened : ~InDatabase(i) => temp[i] # NoFile /\ temp[i].by = a,
           \A i \in Item : final[i] # NoFile /\ final[i].by = a => FinalFits(B, i),
           \A i \in Item : a \in table[i] => Accounted(B, i) \/ B.unsaved,
           \A i \in B.items : Promised(B, i) => i \in at[a].items /\ Promised(at[a], i)
    PROVE  SerialInv'
<1>1. temp' = temp /\ final' = final /\ stage' = stage /\ table' = table
  BY DEF files, tables
<1>2. KindsApart' /\ \A i \in Item : Kept(a, i) => Kept(a, i)'
  BY <1>1, SerialFacts DEF KindsApart, Kept
<1>3. (\A b \in Attempt \ {a} : at[b].phase = "waiting") =>
          \A i \in B.items : Promised(B, i) => Kept(a, i)'
  <2>1. B.items \subseteq Item
    BY DEF AttemptRec
  <2> QED BY <1>2, <2>1, SerialFacts
<1>4. SerialChange(a, B)
  BY <1>1, <1>2, <1>3, SerialFacts DEF SerialChange
<1> QED BY <1>4, SerialStep

LEMMA SerialBegin ==
    ASSUME ~Overlap, SharedInv, SerialInv, NEW a \in Attempt, Begin(a)
    PROVE  SerialInv'
<1>0. /\ at[a] = NoAttempt /\ UNCHANGED <<files, tables, lock>> /\ Touched(a) = {} /\ Solo(a)
  BY OneAttempt DEF Begin, Shape, Busy, Running, Solo
<1>1. PICK B \in AttemptRec :
              /\ Shape(B) /\ at' = [at EXCEPT ![a] = B]
              /\ B.opened = {} /\ B.committed = {} /\ B.unsaved = FALSE
              /\ \/ B.phase = "ended" /\ B.result = "rejected" /\ B.group = 0
                 \/ B.phase = "ended" /\ B.items = {}
                 \/ /\ B.phase = "create" /\ B.todo = Members(B)
                    /\ \A i \in B.items : B.group <= Place(i)
  BY BeginOutcome
<1>2. \A i \in Item : /\ ~(temp[i] # NoFile /\ temp[i].by = a)
                      /\ ~(final[i] # NoFile /\ final[i].by = a) /\ a \notin table[i]
  BY <1>0 DEF Touched
<1>3. \A i \in B.items : ~Promised(B, i)
  <2>0. B.items \subseteq Item /\ B.group \in Nat
    BY DEF AttemptRec
  <2> QED BY <1>1, <2>0, PlaceNat DEF Promised
<1>4. B.phase # "waiting" /\ TablesTyped'
  BY <1>0, <1>1 DEF SharedInv, TablesTyped, files, tables
<1> QED BY <1>0, <1>1, <1>2, <1>3, <1>4, SerialQuiet

(* A step on the way to the end of the group that touches no file.          *)
LEMMA SerialSame ==
    ASSUME SharedInv, SharedInv', SerialInv, NEW a \in Attempt, NEW B \in AttemptRec, Busy(at[a]),
           Shape(at[a]), Shape(B), SamePlan(at[a], B), B.opened = at[a].opened, Busy(B),
           at' = [at EXCEPT ![a] = B], UNCHANGED <<files, tables>>,
           B.committed = at[a].committed, B.unsaved = at[a].unsaved,
           \/ B.phase = at[a].phase /\ B.todo = at[a].todo
           \/ at[a].phase = "create"
           \/ /\ at[a].phase # "drop" /\ B.phase \in {"rollback", "drop"}
              /\ B.todo = Members(at[a])
           \/ at[a].phase = "guard" /\ B.phase = "commit"
    PROVE  SerialInv'
<1> DEFINE A == at[a]
<1>0. /\ A \in AttemptRec /\ A.opened \subseteq Members(A) /\ A.committed \subseteq Members(A)
      /\ Solo(a) /\ B.items = A.items /\ B.group = A.group
  BY OneAttempt, SerialFacts DEF Shape, SamePlan
<1>1. \A i \in Item : temp[i] # NoFile /\ temp[i].by = a => TempFits(B, i, temp[i])
  <2>1. \A i \in Item : temp[i] # NoFile /\ temp[i].by = a => TempFits(A, i, temp[i])
    BY SerialFacts
  <2>2. A.phase = "create" => A.opened = {}
    BY DEF Shape, Progress
  <2> QED BY <1>0, <2>1, <2>2 DEF TempFits, Stray, Busy
<1>2. \A i \in Item : final[i] # NoFile /\ final[i].by = a => FinalFits(B, i)
  <2>1. \A i \in Item : final[i] # NoFile /\ final[i].by = a => FinalFits(A, i)
    BY SerialFacts
  <2>2. A.phase = "create" => A.committed = {}
    BY DEF Shape, Progress
  <2> QED BY <1>0, <2>1, <2>2 DEF FinalFits, Accounted, Busy
<1>3. B.phase \in {"init", "prepare", "guard", "commit"} =>
              \A i \in B.opened : ~InDatabase(i) => temp[i] # NoFile /\ temp[i].by = a
  <2>1. A.phase = "create" => A.opened = {}
    BY DEF Shape, Progress
  <2> QED BY <2>1, SerialFacts
<1>4. \A i \in Item : a \in table[i] => Accounted(B, i) \/ B.unsaved
  BY <1>0, SerialFacts DEF Accounted, Busy
<1>5. \A i \in B.items : Promised(B, i) => i \in A.items /\ Promised(A, i)
  <2>1. A.phase \in {"create", "guard"} => A.committed = {}
    BY DEF Shape, Progress
  <2> QED BY <1>0, <2>1 DEF Promised, Busy
<1> QED BY <1>0, <1>1, <1>2, <1>3, <1>4, <1>5, SerialQuiet DEF SharedInv, Busy

LEMMA SerialCreate ==
    ASSUME SharedInv, SharedInv', SerialInv, NEW a \in Attempt, NEW i \in Item, create(a, i)
    PROVE  SerialInv'
<1> DEFINE A == at[a]
           B == Advance(A, i, "init")
           C == Dropping(A)
<1>0. /\ A.phase = "create" /\ Busy(A) /\ i \in A.todo /\ UNCHANGED <<files, tables>>
      /\ at' = [at EXCEPT ![a] = B] \/ at' = [at EXCEPT ![a] = C]
  BY DEF create, AtSink, Busy
<1>1. A \in AttemptRec /\ Shape(A) /\ A.todo \subseteq Members(A) /\ A.committed = {}
  BY <1>0, BusyAttempt DEF Shape, Progress
<1>2. CASE at' = [at EXCEPT ![a] = B]
  <2> HIDE DEF A
  <2>1. /\ B \in AttemptRec /\ Shape(B) /\ SamePlan(A, B) /\ B.opened = A.opened
        /\ B.committed = A.committed /\ B.unsaved = A.unsaved /\ B.phase \in {"create", "init"}
    <3>1. "init" \in Phase
      BY DEF Phase
    <3> QED BY <1>0, <1>1, <3>1, AdvanceFields, CreateShape
  <2> HIDE DEF B
  <2> QED BY <1>0, <1>1, <1>2, <2>1, SerialSame DEF A, Busy
<1>3. CASE at' = [at EXCEPT ![a] = C]
  <2> HIDE DEF A
  <2>1. /\ C \in AttemptRec /\ Shape(C) /\ SamePlan(A, C) /\ C.opened = A.opened
        /\ C.committed = {} /\ C.unsaved = A.unsaved /\ C.phase = "drop"
    BY <1>0, <1>1, DroppingShape
  <2> HIDE DEF C
  <2> QED BY <1>0, <1>1, <1>3, <2>1, SerialSame DEF A, Busy
<1> QED BY <1>0, <1>2, <1>3

LEMMA SerialGuard ==
    ASSUME SharedInv, SharedInv', SerialInv, NEW a \in Attempt, guard(a)
    PROVE  SerialInv'
<1> DEFINE A == at[a]
           next == IF A.cancelled THEN "rollback" ELSE "commit"
           B == [A EXCEPT !.phase = next]
<1>0. /\ A.phase = "guard" /\ Busy(A) /\ UNCHANGED <<files, tables>>
      /\ at' = [at EXCEPT ![a] = B] /\ next \in {"rollback", "commit"}
  BY DEF guard, Busy
<1>1. A \in AttemptRec /\ Shape(A) /\ A.committed = {}
  BY <1>0, BusyAttempt DEF Shape, Progress
<1> HIDE DEF A, next
<1>2. /\ B \in AttemptRec /\ Shape(B) /\ SamePlan(A, B) /\ B.phase = next
      /\ B.opened = A.opened /\ B.committed = {} /\ B.unsaved = A.unsaved /\ B.todo = Members(A)
  BY <1>0, <1>1, GuardShape
<1> HIDE DEF B
<1> QED BY <1>0, <1>1, <1>2, SerialSame DEF A, Busy

LEMMA SerialCommitFails ==
    ASSUME SharedInv, SharedInv', SerialInv, NEW a \in Attempt, CommitFails(a)
    PROVE  SerialInv'
<1> DEFINE A == at[a]
           B == RollingBack(A)
<1>0. A.phase = "commit" /\ Busy(A) /\ UNCHANGED <<files, tables>> /\ at' = [at EXCEPT ![a] = B]
  BY DEF CommitFails, Busy
<1>1. A \in AttemptRec /\ Shape(A)
  BY <1>0, BusyAttempt
<1> HIDE DEF A
<1>2. /\ B \in AttemptRec /\ Shape(B) /\ SamePlan(A, B) /\ B.phase = "rollback"
      /\ B.opened = A.opened /\ B.committed = A.committed /\ B.unsaved = A.unsaved
      /\ B.todo = Members(A)
  <2>1. [A EXCEPT !.unsaved = A.unsaved] = A /\ A.unsaved \in BOOLEAN
    BY <1>1 DEF AttemptRec
  <2> QED BY <1>0, <1>1, <2>1, RollingBackShape
<1> HIDE DEF B
<1> QED BY <1>0, <1>1, <1>2, SerialSame DEF A, Busy

LEMMA SerialStagingFails ==
    ASSUME SharedInv, SharedInv', SerialInv, NEW a \in Attempt, StagingFails(a)
    PROVE  SerialInv'
<1> DEFINE A == at[a]
           B == Dropping(A)
<1>0. /\ A.phase \in {"create", "init", "prepare"} /\ Busy(A) /\ UNCHANGED <<files, tables>>
      /\ at' = [at EXCEPT ![a] = B]
  BY DEF StagingFails, Busy
<1>1. A \in AttemptRec /\ Shape(A) /\ A.committed = {}
  BY <1>0, BusyAttempt DEF Shape, Progress
<1> HIDE DEF A
<1>2. /\ B \in AttemptRec /\ Shape(B) /\ SamePlan(A, B) /\ B.phase = "drop"
      /\ B.opened = A.opened /\ B.committed = {} /\ B.unsaved = A.unsaved /\ B.todo = Members(A)
  BY <1>0, <1>1, DroppingShape
<1> HIDE DEF B
<1> QED BY <1>0, <1>1, <1>2, SerialSame DEF A, Busy

LEMMA SerialCancel ==
    ASSUME SharedInv, SharedInv', SerialInv, NEW a \in Attempt, Cancel(a)
    PROVE  SerialInv'
<1> DEFINE A == at[a]
           B == [A EXCEPT !.cancelled = TRUE]
<1>0. Busy(A) /\ UNCHANGED <<files, tables>> /\ at' = [at EXCEPT ![a] = B]
  BY DEF Cancel, Running, Busy
<1>1. A \in AttemptRec /\ Shape(A)
  BY <1>0, BusyAttempt
<1> HIDE DEF A
<1>2. /\ B \in AttemptRec /\ Shape(B) /\ SamePlan(A, B) /\ B.phase = A.phase
      /\ B.opened = A.opened /\ B.committed = A.committed /\ B.unsaved = A.unsaved
      /\ B.todo = A.todo
  BY <1>0, <1>1, CancelShape
<1> HIDE DEF B
<1> QED BY <1>0, <1>1, <1>2, SerialSame DEF A, Busy

(* The temporary file of a sink that is created anew belongs to nobody.     *)
LEMMA SerialInit ==
    ASSUME SharedInv, SharedInv', SerialInv, NEW a \in Attempt, NEW i \in Item, init(a, i)
    PROVE  SerialInv'
<1> DEFINE A == at[a]
           B == Advance([A EXCEPT !.opened = @ \cup {i}], i, "prepare")
<1>0. A.phase = "init" /\ Busy(A) /\ i \in A.todo /\ final' = final /\ table' = table
      /\ at' = [at EXCEPT ![a] = B]
  BY DEF init, AtSink, Busy
<1>1. /\ A \in AttemptRec /\ Shape(A) /\ Place(i) = A.group /\ A.group \in Nat /\ Solo(a)
      /\ A.opened = Members(A) \ A.todo /\ A.committed = {} /\ TablesTyped
      /\ A.todo \subseteq Members(A)
  BY <1>0, BusyAttempt, SerialFacts DEF Shape, Progress
<1> HIDE DEF A
<1>2. /\ B \in AttemptRec /\ Shape(B) /\ SamePlan(A, B)
      /\ B.opened = A.opened \cup {i} /\ B.committed = {} /\ B.unsaved = A.unsaved
      /\ \/ A.todo = {i} /\ B.phase = "prepare" /\ B.todo = Members(A)
         \/ A.todo # {i} /\ B.phase = "init" /\ B.todo = A.todo \ {i}
  BY <1>0, <1>1, InitShape
<1> HIDE DEF B
<1>3. /\ \A k \in Item \ {i} : temp'[k] = temp[k] /\ stage'[k] = stage[k]
      /\ InDatabase(i) => temp' = temp
      /\ ~InDatabase(i) => /\ temp'[i].by = a /\ ~temp'[i].mixed /\ temp'[i].writers = {a}
                           /\ temp'[i] # NoFile
  <2>1. CASE InDatabase(i)
    BY <1>1, <2>1 DEF init, TablesTyped
  <2>2. CASE ~InDatabase(i)
    <3> DEFINE others == IF temp[i] = NoFile THEN {} ELSE temp[i].writers
               f == [by |-> a, writers |-> others \cup {a}, mixed |-> others # {}, full |-> FALSE]
    <3>1. others = {}
      <4>1. CASE temp[i] = NoFile
        BY <4>1
      <4>2. CASE temp[i] # NoFile
        <5>1. temp[i].by \in Attempt /\ TempFits(at[temp[i].by], i, temp[i])
          BY <1>1, <4>2 DEF TablesTyped, Inode, SerialInv, TempsOwned
        <5>2. temp[i].by = a => i \notin A.opened
          BY <1>0, <1>1
        <5>3. temp[i].writers = {}
          BY <1>0, <1>1, <5>1, <5>2 DEF TempFits, Stray, Solo, A, Busy
        <5> QED BY <4>2, <5>3
      <4> QED BY <4>1, <4>2
    <3>2. temp' = [temp EXCEPT ![i] = f] /\ stage' = stage
      BY <2>2 DEF init
    <3> HIDE DEF others
    <3>3. f.by = a /\ f.writers = {a} /\ f.mixed = FALSE /\ f \in Inode
      BY <3>1 DEF Inode
    <3> HIDE DEF f
    <3> QED BY <1>1, <2>2, <3>2, <3>3, NoFileIsNoInode DEF TablesTyped
  <2> QED BY <2>1, <2>2
<1>4. B.items = A.items /\ B.group = A.group /\ Busy(B) /\ Members(B) = Members(A)
  BY <1>2 DEF SamePlan, Busy
<1>5. \A k \in Item : temp'[k] # NoFile =>
          \/ temp'[k].by = a /\ TempFits(B, k, temp'[k])
          \/ temp'[k].by # a /\ temp[k] # NoFile /\ temp'[k] = temp[k]
  <2>1. \A k \in Item : temp[k] # NoFile /\ temp[k].by = a => TempFits(A, k, temp[k])
    BY SerialFacts DEF A
  <2>2. InDatabase(i) => temp[i] = NoFile
    BY SerialFacts DEF KindsApart
  <2>3. ~InDatabase(i) => TempFits(B, i, temp'[i])
    BY <1>0, <1>1, <1>2, <1>3, <1>4 DEF TempFits, Stray
  <2>4. ASSUME NEW k \in Item \ {i}, temp[k] # NoFile, temp[k].by = a
        PROVE  TempFits(B, k, temp[k])
    <3>1. TempFits(A, k, temp[k])
      BY <2>1, <2>4
    <3> QED BY <1>0, <1>1, <1>2, <1>4, <3>1 DEF TempFits, Stray, Busy
  <2> QED BY <1>3, <2>2, <2>3, <2>4
<1>6. KindsApart'
  BY <1>0, <1>3, SerialFacts DEF KindsApart
<1>7. \A k \in B.opened : ~InDatabase(k) => temp'[k] # NoFile /\ temp'[k].by = a
  <2>1. \A k \in A.opened : ~InDatabase(k) => temp[k] # NoFile /\ temp[k].by = a
    BY <1>0, SerialFacts DEF A
  <2>2. A.opened \subseteq Item
    BY <1>1 DEF AttemptRec
  <2> QED BY <1>2, <1>3, <2>1, <2>2
<1>8. \A k \in Item : final'[k] # NoFile =>
          /\ Whole(final'[k]) /\ final'[k].writers = {}
          /\ \/ final'[k].by = a /\ FinalFits(B, k)
             \/ final'[k].by # a /\ final[k] # NoFile /\ final'[k].by = final[k].by
  <2>1. \A k \in Item : final[k] # NoFile /\ final[k].by = a => FinalFits(A, k)
    BY SerialFacts DEF A
  <2> QED BY <1>0, <1>1, <1>4, <2>1, SerialFacts DEF FinalFits, Accounted, Busy
<1>9. \A k \in Item : \A b \in table'[k] :
          IF b = a THEN Accounted(B, k) \/ B.unsaved ELSE b \in table[k]
  <2>1. \A k \in Item : a \in table[k] => Accounted(A, k) \/ A.unsaved
    BY SerialFacts DEF A
  <2> QED BY <1>0, <1>1, <1>2, <1>4, <2>1 DEF Accounted, Busy
<1>10. (\A b \in Attempt \ {a} : at[b].phase = "waiting") =>
          \A k \in B.items : Promised(B, k) => Kept(a, k)'
  <2> SUFFICES ASSUME \A b \in Attempt \ {a} : at[b].phase = "waiting",
                      NEW k \in B.items, Promised(B, k)
               PROVE  Kept(a, k)'
    OBVIOUS
  <2>1. k \in Item /\ k \in A.items /\ Place(k) < A.group
    BY <1>1, <1>2, <1>4 DEF Promised, AttemptRec
  <2>2. k # i
    BY <1>1, <2>1
  <2>3. Kept(a, k)
    BY <2>1, SerialFacts DEF Promised, A
  <2> QED BY <1>0, <1>3, <2>1, <2>2, <2>3 DEF Kept
<1>11. B.phase # "waiting" /\ TablesTyped'
  BY <1>4 DEF Busy, SharedInv
<1>12. SerialChange(a, B)
  BY <1>0, <1>2, <1>5, <1>6, <1>7, <1>8, <1>9, <1>10, <1>11 DEF SerialChange
<1> QED BY <1>1, <1>11, <1>12, SerialStep

(* The file of a sink that could not be opened is empty and nobody's.        *)
LEMMA SerialOpenFails ==
    ASSUME SharedInv, SharedInv', SerialInv, NEW a \in Attempt, NEW i \in Item, OpenFails(a, i)
    PROVE  SerialInv'
<1> DEFINE A == at[a]
           B == Dropping(A)
<1>0. A.phase = "init" /\ Busy(A) /\ i \in A.todo /\ final' = final /\ table' = table
      /\ at' = [at EXCEPT ![a] = B]
  BY DEF OpenFails, AtSink, Busy
<1>1. /\ A \in AttemptRec /\ Shape(A) /\ Place(i) = A.group /\ A.group \in Nat /\ Solo(a)
      /\ A.opened = Members(A) \ A.todo /\ A.committed = {} /\ TablesTyped
      /\ A.todo \subseteq Members(A)
  BY <1>0, BusyAttempt, SerialFacts DEF Shape, Progress
<1> HIDE DEF A
<1>2. /\ B \in AttemptRec /\ Shape(B) /\ SamePlan(A, B)
      /\ B.opened = A.opened /\ B.committed = {} /\ B.unsaved = A.unsaved
      /\ B.phase = "drop" /\ B.todo = Members(A)
  BY <1>0, <1>1, DroppingShape
<1> HIDE DEF B
<1>3. /\ \A k \in Item \ {i} : temp'[k] = temp[k] /\ stage'[k] = stage[k]
      /\ InDatabase(i) => temp' = temp
      /\ ~InDatabase(i) => /\ temp'[i].by = a /\ ~temp'[i].mixed /\ temp'[i].writers = {}
                           /\ temp'[i] # NoFile /\ ~temp'[i].full
  <2>1. CASE InDatabase(i)
    BY <1>1, <2>1 DEF OpenFails, TablesTyped
  <2>2. CASE ~InDatabase(i)
    <3> DEFINE others == IF temp[i] = NoFile THEN {} ELSE temp[i].writers
               f == [by |-> a, writers |-> others, mixed |-> others # {}, full |-> FALSE]
    <3>1. others = {}
      <4>1. CASE temp[i] = NoFile
        BY <4>1
      <4>2. CASE temp[i] # NoFile
        <5>1. temp[i].by \in Attempt /\ TempFits(at[temp[i].by], i, temp[i])
          BY <1>1, <4>2 DEF TablesTyped, Inode, SerialInv, TempsOwned
        <5>2. temp[i].by = a => i \notin A.opened
          BY <1>0, <1>1
        <5>3. temp[i].writers = {}
          BY <1>0, <1>1, <5>1, <5>2 DEF TempFits, Stray, Solo, A, Busy
        <5> QED BY <4>2, <5>3
      <4> QED BY <4>1, <4>2
    <3>2. temp' = [temp EXCEPT ![i] = f] /\ stage' = stage
      BY <2>2 DEF OpenFails
    <3> HIDE DEF others
    <3>3. f.by = a /\ f.writers = {} /\ f.mixed = FALSE /\ f.full = FALSE /\ f \in Inode
      BY <3>1 DEF Inode
    <3> HIDE DEF f
    <3> QED BY <1>1, <2>2, <3>2, <3>3, NoFileIsNoInode DEF TablesTyped
  <2> QED BY <2>1, <2>2
<1>4. B.items = A.items /\ B.group = A.group /\ Busy(B) /\ Members(B) = Members(A)
  BY <1>2 DEF SamePlan, Busy
<1>5. \A k \in Item : temp'[k] # NoFile =>
          \/ temp'[k].by = a /\ TempFits(B, k, temp'[k])
          \/ temp'[k].by # a /\ temp[k] # NoFile /\ temp'[k] = temp[k]
  <2>1. \A k \in Item : temp[k] # NoFile /\ temp[k].by = a => TempFits(A, k, temp[k])
    BY SerialFacts DEF A
  <2>2. InDatabase(i) => temp[i] = NoFile
    BY SerialFacts DEF KindsApart
  <2>3. ~InDatabase(i) => TempFits(B, i, temp'[i])
    BY <1>0, <1>1, <1>2, <1>3, <1>4 DEF TempFits, Stray
  <2>4. ASSUME NEW k \in Item \ {i}, temp[k] # NoFile, temp[k].by = a
        PROVE  TempFits(B, k, temp[k])
    <3>1. TempFits(A, k, temp[k])
      BY <2>1, <2>4
    <3> QED BY <1>0, <1>1, <1>2, <1>4, <3>1 DEF TempFits, Stray, Busy
  <2> QED BY <1>3, <2>2, <2>3, <2>4
<1>6. KindsApart'
  BY <1>0, <1>3, SerialFacts DEF KindsApart
<1>7. B.phase \notin {"init", "prepare", "guard", "commit"}
  BY <1>2
<1>8. \A k \in Item : final'[k] # NoFile =>
          /\ Whole(final'[k]) /\ final'[k].writers = {}
          /\ \/ final'[k].by = a /\ FinalFits(B, k)
             \/ final'[k].by # a /\ final[k] # NoFile /\ final'[k].by = final[k].by
  <2>1. \A k \in Item : final[k] # NoFile /\ final[k].by = a => FinalFits(A, k)
    BY SerialFacts DEF A
  <2> QED BY <1>0, <1>1, <1>4, <2>1, SerialFacts DEF FinalFits, Accounted, Busy
<1>9. \A k \in Item : \A b \in table'[k] :
          IF b = a THEN Accounted(B, k) \/ B.unsaved ELSE b \in table[k]
  <2>1. \A k \in Item : a \in table[k] => Accounted(A, k) \/ A.unsaved
    BY SerialFacts DEF A
  <2> QED BY <1>0, <1>1, <1>2, <1>4, <2>1 DEF Accounted, Busy
<1>10. (\A b \in Attempt \ {a} : at[b].phase = "waiting") =>
          \A k \in B.items : Promised(B, k) => Kept(a, k)'
  <2> SUFFICES ASSUME \A b \in Attempt \ {a} : at[b].phase = "waiting",
                      NEW k \in B.items, Promised(B, k)
               PROVE  Kept(a, k)'
    OBVIOUS
  <2>1. k \in Item /\ k \in A.items /\ Place(k) < A.group
    BY <1>1, <1>2, <1>4 DEF Promised, AttemptRec
  <2>2. k # i
    BY <1>1, <2>1
  <2>3. Kept(a, k)
    BY <2>1, SerialFacts DEF Promised, A
  <2> QED BY <1>0, <1>3, <2>1, <2>2, <2>3 DEF Kept
<1>11. B.phase # "waiting" /\ TablesTyped'
  BY <1>4 DEF Busy, SharedInv
<1>12. SerialChange(a, B)
  BY <1>0, <1>2, <1>5, <1>6, <1>7, <1>8, <1>9, <1>10, <1>11 DEF SerialChange
<1> QED BY <1>1, <1>11, <1>12, SerialStep

(* A closed temporary file is full, and nobody writes to it any more.       *)
LEMMA SerialPrepare ==
    ASSUME SharedInv, SharedInv', SerialInv, NEW a \in Attempt, NEW i \in Item, prepare(a, i)
    PROVE  SerialInv'
<1> DEFINE A == at[a]
           B == Advance(A, i, "guard")
<1>0. /\ A.phase = "prepare" /\ Busy(A) /\ i \in A.todo /\ stage' = stage /\ table' = table
      /\ at' = [at EXCEPT ![a] = B]
      /\ temp' = [temp EXCEPT ![i] = Closed(temp[i], a)]
      /\ final' = [final EXCEPT ![i] = Closed(final[i], a)]
  BY DEF prepare, AtSink, Busy, tables
<1>1. /\ A \in AttemptRec /\ Shape(A) /\ Place(i) = A.group /\ A.group \in Nat /\ Solo(a)
      /\ A.opened = Members(A) /\ A.committed = {} /\ TablesTyped /\ A.todo \subseteq Members(A)
  BY <1>0, BusyAttempt, SerialFacts DEF Shape, Progress
<1> HIDE DEF A
<1>2. /\ B \in AttemptRec /\ Shape(B) /\ SamePlan(A, B)
      /\ B.opened = A.opened /\ B.committed = A.committed /\ B.unsaved = A.unsaved
      /\ \/ A.todo = {i} /\ B.phase = "guard" /\ B.todo = Members(A)
         \/ A.todo # {i} /\ B.phase = "prepare" /\ B.todo = A.todo \ {i}
  <2>1. "guard" \in Phase
    BY DEF Phase
  <2> QED BY <1>0, <1>1, <2>1, AdvanceFields, PrepareShape
<1> HIDE DEF B
<1>4. B.items = A.items /\ B.group = A.group /\ Busy(B) /\ Members(B) = Members(A)
  BY <1>2 DEF SamePlan, Busy
<1>3. /\ final' = final
      /\ \A k \in Item \ {i} : temp'[k] = temp[k]
      /\ InDatabase(i) => temp'[i] = NoFile
      /\ ~InDatabase(i) => /\ temp'[i] # NoFile /\ temp'[i].by = a /\ ~temp'[i].mixed
                           /\ temp'[i].full /\ temp'[i].writers = {}
  <2>1. final[i] # NoFile => final[i].writers = {}
    BY SerialFacts
  <2>2. Closed(final[i], a) = final[i]
    BY <2>1 DEF Closed
  <2>3. final' = final
    BY <1>0, <1>1, <2>2 DEF TablesTyped
  <2>4. temp \in [Item -> Inode \cup {NoFile}]
    BY <1>1 DEF TablesTyped
  <2>5. InDatabase(i) => Closed(temp[i], a) = NoFile
    BY SerialFacts DEF KindsApart, Closed
  <2>6. ASSUME ~InDatabase(i)
        PROVE  /\ Closed(temp[i], a) # NoFile /\ Closed(temp[i], a).by = a
               /\ ~Closed(temp[i], a).mixed /\ Closed(temp[i], a).full
               /\ Closed(temp[i], a).writers = {}
    <3>1. temp[i] # NoFile /\ temp[i].by = a /\ temp[i] \in Inode
      BY <1>0, <1>1, <2>4, <2>6, SerialFacts DEF A
    <3>2. TempFits(A, i, temp[i])
      BY <3>1, SerialFacts DEF A
    <3>3. temp[i].writers = {a} /\ ~temp[i].mixed
      BY <1>0, <3>1, <3>2 DEF TempFits, Stray
    <3> DEFINE c == Closed(temp[i], a)
    <3>4. /\ c # NoFile /\ c.by = temp[i].by /\ c.mixed = temp[i].mixed
          /\ c.writers = temp[i].writers \ {a} /\ c.full = TRUE
      BY ZenonT(60), <3>1, <3>3, ClosedFacts
    <3> HIDE DEF c
    <3>5. c # NoFile /\ c.by = a /\ ~c.mixed /\ c.full /\ c.writers = {}
      BY <3>1, <3>3, <3>4
    <3> QED BY <3>5 DEF c
  <2> QED BY <1>0, <2>3, <2>4, <2>5, <2>6
<1>5. \A k \in Item : temp'[k] # NoFile =>
          \/ temp'[k].by = a /\ TempFits(B, k, temp'[k])
          \/ temp'[k].by # a /\ temp[k] # NoFile /\ temp'[k] = temp[k]
  <2>1. \A k \in Item : temp[k] # NoFile /\ temp[k].by = a => TempFits(A, k, temp[k])
    BY SerialFacts DEF A
  <2>3. ~InDatabase(i) => TempFits(B, i, temp'[i])
    BY <1>0, <1>1, <1>2, <1>3, <1>4 DEF TempFits, Stray
  <2>4. ASSUME NEW k \in Item \ {i}, temp[k] # NoFile, temp[k].by = a
        PROVE  TempFits(B, k, temp[k])
    <3>1. TempFits(A, k, temp[k])
      BY <2>1, <2>4
    <3> QED BY <1>0, <1>1, <1>2, <1>4, <3>1 DEF TempFits, Stray, Busy
  <2> QED BY <1>3, <2>3, <2>4
<1>6. KindsApart'
  BY <1>0, <1>3, SerialFacts DEF KindsApart
<1>7. \A k \in B.opened : ~InDatabase(k) => temp'[k] # NoFile /\ temp'[k].by = a
  <2>1. \A k \in A.opened : ~InDatabase(k) => temp[k] # NoFile /\ temp[k].by = a
    BY <1>0, SerialFacts DEF A
  <2>2. A.opened \subseteq Item
    BY <1>1 DEF AttemptRec
  <2> QED BY <1>2, <1>3, <2>1, <2>2
<1>8. \A k \in Item : final'[k] # NoFile =>
          /\ Whole(final'[k]) /\ final'[k].writers = {}
          /\ \/ final'[k].by = a /\ FinalFits(B, k)
             \/ final'[k].by # a /\ final[k] # NoFile /\ final'[k].by = final[k].by
  <2>1. \A k \in Item : final[k] # NoFile /\ final[k].by = a => FinalFits(A, k)
    BY SerialFacts DEF A
  <2> QED BY <1>0, <1>1, <1>3, <1>4, <2>1, SerialFacts DEF FinalFits, Accounted, Busy
<1>9. \A k \in Item : \A b \in table'[k] :
          IF b = a THEN Accounted(B, k) \/ B.unsaved ELSE b \in table[k]
  <2>1. \A k \in Item : a \in table[k] => Accounted(A, k) \/ A.unsaved
    BY SerialFacts DEF A
  <2> QED BY <1>0, <1>1, <1>2, <1>4, <2>1 DEF Accounted, Busy
<1>10. (\A b \in Attempt \ {a} : at[b].phase = "waiting") =>
          \A k \in B.items : Promised(B, k) => Kept(a, k)'
  <2> SUFFICES ASSUME \A b \in Attempt \ {a} : at[b].phase = "waiting",
                      NEW k \in B.items, Promised(B, k)
               PROVE  Kept(a, k)'
    OBVIOUS
  <2>1. k \in Item /\ k \in A.items /\ Place(k) < A.group
    BY <1>1, <1>2, <1>4 DEF Promised, AttemptRec
  <2>2. k # i
    BY <1>1, <2>1
  <2>3. Kept(a, k)
    BY <2>1, SerialFacts DEF Promised, A
  <2> QED BY <1>0, <1>3, <2>1, <2>2, <2>3 DEF Kept
<1>11. B.phase # "waiting" /\ TablesTyped'
  BY <1>4 DEF Busy, SharedInv
<1>12. SerialChange(a, B)
  BY <1>0, <1>2, <1>5, <1>6, <1>7, <1>8, <1>9, <1>10, <1>11 DEF SerialChange
<1> QED BY <1>1, <1>11, <1>12, SerialStep

(* The items a commit or an undo leaves behind: they are of earlier groups, *)
(* or of this one.                                                          *)
LEMMA GroupInDatabase ==
    ASSUME SharedInv, SerialInv, NEW a \in Attempt, Busy(at[a]), at[a].group \in Database
    PROVE  /\ \A i \in Item : ~(temp[i] # NoFile /\ temp[i].by = a)
           /\ \A i \in Item : final[i] # NoFile /\ final[i].by = a => Place(i) < at[a].group
<1>1. /\ \A i \in Members(at[a]) : InDatabase(i) /\ i \in Item
      /\ at[a].opened \subseteq Members(at[a]) /\ at[a].committed \subseteq Members(at[a])
  BY BusyAttempt DEF InDatabase, Shape
<1>2. \A i \in Members(at[a]) : temp[i] = NoFile /\ final[i] = NoFile
  BY <1>1, SerialFacts DEF KindsApart
<1>3. \A i \in Item : temp[i] # NoFile /\ temp[i].by = a =>
         i \in at[a].opened \/ Place(i) = at[a].group
  BY SerialFacts DEF TempFits, Stray, Busy
<1>5. \A i \in Item : Place(i) = at[a].group => temp[i] = NoFile
  BY SerialFacts DEF KindsApart, InDatabase
<1>4. \A i \in Item : final[i] # NoFile /\ final[i].by = a =>
         i \in at[a].committed \/ Place(i) < at[a].group
  BY SerialFacts DEF FinalFits, Accounted, Busy
<1> QED BY <1>1, <1>2, <1>3, <1>4, <1>5

(* The commit of a DuckDB sink, which is the only one of its group.         *)
LEMMA SerialCommitTable ==
    ASSUME SharedInv, SharedInv', SerialInv, NEW a \in Attempt, NEW i \in Item, commit(a, i),
           InDatabase(i)
    PROVE  SerialInv'
<1> DEFINE A == at[a]
<1>0. /\ A.phase = "commit" /\ Busy(A) /\ i \in A.todo /\ temp' = temp /\ final' = final
      /\ table' = [table EXCEPT ![i] = Promoted(i)] /\ stage' = [stage EXCEPT ![i] = {}]
  BY DEF commit, AtSink, Busy, files
<1>1. /\ A \in AttemptRec /\ Shape(A) /\ Place(i) = A.group /\ A.group \in Nat /\ Solo(a)
      /\ TablesTyped /\ A.todo \subseteq Members(A) /\ A.opened = A.todo
      /\ A.group \in Database /\ Locking(a, A, lock[A.group])
  BY <1>0, BusyAttempt, SerialFacts DEF Shape, Progress, InDatabase
<1>2. Members(A) = {i} /\ A.todo = {i}
  BY <1>0, <1>1 DEF Locking
<1>3. PICK B \in AttemptRec : AfterCommit(a, i, B)
  BY CommitOutcome DEF commit
<1>4. /\ Shape(B) /\ at' = [at EXCEPT ![a] = B] /\ B.items = A.items
      /\ B.unsaved = A.unsaved /\ B.opened = {} /\ B.group \in Nat
      /\ \/ /\ B.phase = "ended" /\ B.result \in {"success", "partial"} /\ B.group = A.group
            /\ \A k \in B.items : Place(k) <= A.group
         \/ /\ B.phase = "create" /\ B.group > A.group /\ B.committed = {}
            /\ \A k \in B.items : Place(k) < B.group => Place(k) <= A.group
  BY <1>1, <1>2, <1>3 DEF AfterCommit
<1>5. stage[i] = {a}
  BY <1>0, <1>1, OneAttempt
<1>6. /\ \A k \in Item \ {i} : table'[k] = table[k] /\ stage'[k] = stage[k]
      /\ a \in table'[i] /\ table'[i] \subseteq table[i] \cup {a} /\ stage'[i] = {}
  BY <1>0, <1>1, <1>5 DEF TablesTyped, Promoted
<1>7. /\ \A k \in Item : ~(temp[k] # NoFile /\ temp[k].by = a)
      /\ \A k \in Item : final[k] # NoFile /\ final[k].by = a => Place(k) < A.group
  BY <1>0, <1>1, GroupInDatabase
<1> HIDE DEF A
<1>8. KindsApart'
  BY <1>0, <1>6, SerialFacts DEF KindsApart
<1>9. \A k \in Item : final'[k] # NoFile =>
          /\ Whole(final'[k]) /\ final'[k].writers = {}
          /\ \/ final'[k].by = a /\ FinalFits(B, k)
             \/ final'[k].by # a /\ final[k] # NoFile /\ final'[k].by = final[k].by
  BY <1>0, <1>1, <1>4, <1>7, SerialFacts, PlaceNat DEF FinalFits, Accounted
<1>10. \A k \in Item : \A b \in table'[k] :
          IF b = a THEN Accounted(B, k) \/ B.unsaved ELSE b \in table[k]
  <2>1. \A k \in Item : a \in table[k] => Place(k) < A.group \/ A.unsaved
    BY <1>0, SerialFacts DEF A, Accounted, Busy
  <2>2. \A k \in Item : Place(k) <= A.group => Accounted(B, k) \/ (B.phase = "ended")
    BY <1>1, <1>4, PlaceNat DEF Accounted
  <2>3. B.phase = "ended" => \A k \in Item : Accounted(B, k)
    BY <1>4 DEF Accounted
  <2>4. \A k \in Item : a \in table'[k] => Accounted(B, k) \/ B.unsaved
    BY <1>1, <1>4, <1>6, <2>1, <2>2, <2>3, PlaceNat
  <2> QED BY <1>6, <2>4
<1>11. (\A b \in Attempt \ {a} : at[b].phase = "waiting") =>
          \A k \in B.items : Promised(B, k) => Kept(a, k)'
  <2> SUFFICES ASSUME \A b \in Attempt \ {a} : at[b].phase = "waiting",
                      NEW k \in B.items, Promised(B, k)
               PROVE  Kept(a, k)'
    OBVIOUS
  <2>1. k \in Item /\ k \in A.items /\ Place(k) <= A.group /\ Place(k) \in Nat
    BY <1>1, <1>4, PlaceNat DEF Promised, AttemptRec
  <2>2. CASE k = i
    BY <1>6, <2>2 DEF Kept
  <2>3. CASE k # i
    <3>1. Place(k) < A.group
      <4>1. k \notin Members(A)
        BY <1>2, <2>3
      <4> QED BY <1>1, <2>1, <4>1 DEF Members
    <3>2. Kept(a, k)
      BY <2>1, <3>1, SerialFacts DEF Promised, A
    <3> QED BY <1>0, <1>6, <2>1, <2>3, <3>2 DEF Kept
  <2> QED BY <2>2, <2>3
<1>12. B.phase # "waiting" /\ TablesTyped'
  BY <1>4 DEF SharedInv
<1>13. SerialChange(a, B)
  BY <1>0, <1>4, <1>7, <1>8, <1>9, <1>10, <1>11, <1>12 DEF SerialChange
<1> QED BY <1>1, <1>12, <1>13, SerialStep

(* The rename of a file sink. *)
LEMMA SerialCommitFile ==
    ASSUME SharedInv, SharedInv', SerialInv, NEW a \in Attempt, NEW i \in Item, commit(a, i),
           ~InDatabase(i)
    PROVE  SerialInv'
<1> DEFINE A == at[a]
<1>0. /\ A.phase = "commit" /\ Busy(A) /\ i \in A.todo /\ stage' = stage /\ table' = table
      /\ temp[i] # NoFile /\ final' = [final EXCEPT ![i] = temp[i]]
      /\ temp' = [temp EXCEPT ![i] = NoFile]
  BY DEF commit, AtSink, Busy, tables
<1>1. /\ A \in AttemptRec /\ Shape(A) /\ Place(i) = A.group /\ A.group \in Nat /\ Solo(a)
      /\ TablesTyped /\ A.todo \subseteq Members(A) /\ A.opened = A.todo
      /\ A.committed = Members(A) \ A.todo
  BY <1>0, BusyAttempt, SerialFacts DEF Shape, Progress
<1>2. PICK B \in AttemptRec : AfterCommit(a, i, B)
  BY CommitOutcome DEF commit
<1>3. /\ Shape(B) /\ at' = [at EXCEPT ![a] = B] /\ B.items = A.items
      /\ B.unsaved = A.unsaved
      /\ \/ /\ A.todo # {i} /\ SamePlan(A, B) /\ B.phase = "commit" /\ B.todo = A.todo \ {i}
            /\ B.opened = B.todo /\ B.committed = (Members(A) \ A.todo) \cup {i}
         \/ /\ A.todo = {i} /\ B.opened = {}
            /\ \/ /\ B.phase = "ended" /\ B.result \in {"success", "partial"}
                  /\ B.group = A.group
                  /\ \A k \in B.items : Place(k) <= A.group
               \/ /\ B.phase = "create" /\ B.group \in Nat /\ B.group > A.group
                  /\ B.committed = {}
                  /\ \A k \in B.items : Place(k) < B.group => Place(k) <= A.group
  BY <1>2 DEF AfterCommit
<1>4. /\ temp[i].by = a /\ ~temp[i].mixed /\ temp[i].full /\ temp[i].writers = {}
  <2>1. temp[i].by = a
    BY <1>0, <1>1, SerialFacts
  <2>2. TempFits(A, i, temp[i])
    BY <1>0, <2>1, SerialFacts
  <2> QED BY <1>0, <2>1, <2>2 DEF TempFits, Stray
<1>5. /\ \A k \in Item \ {i} : temp'[k] = temp[k] /\ final'[k] = final[k]
      /\ temp'[i] = NoFile /\ final'[i] = temp[i]
  BY <1>0, <1>1 DEF TablesTyped
<1>6. \A k \in Item : temp[k] # NoFile /\ temp[k].by = a =>
         k \in A.todo /\ temp[k].full /\ temp[k].writers = {} /\ ~temp[k].mixed
  BY <1>0, <1>1, SerialFacts DEF TempFits, Stray, Busy
<1>7. \A k \in Item : final[k] # NoFile /\ final[k].by = a =>
         k \in A.committed \/ Place(k) < A.group
  BY <1>0, SerialFacts DEF FinalFits, Accounted, Busy
<1>7a. \A k \in A.committed : Place(k) = A.group
  BY <1>1 DEF Members
<1>7b. \A k \in Item : Place(k) \in Nat
  BY PlaceNat
<1> HIDE DEF A
<1>8. KindsApart'
  BY <1>0, <1>5, SerialFacts DEF KindsApart
<1>9. \A k \in Item : temp'[k] # NoFile =>
          \/ temp'[k].by = a /\ TempFits(B, k, temp'[k])
          \/ temp'[k].by # a /\ temp[k] # NoFile /\ temp'[k] = temp[k]
  <2> SUFFICES ASSUME NEW k \in Item, temp'[k] # NoFile, temp'[k].by = a
               PROVE  TempFits(B, k, temp'[k])
    BY <1>5
  <2>1. k # i /\ temp'[k] = temp[k] /\ k \in A.todo
    BY <1>5, <1>6
  <2>2. A.todo # {i} /\ B.phase = "commit" /\ k \in B.opened
    BY <1>3, <2>1
  <2> QED BY <1>6, <2>1, <2>2 DEF TempFits, Stray, Busy
<1>10. B.phase \in {"init", "prepare", "guard", "commit"} =>
          \A k \in B.opened : ~InDatabase(k) => temp'[k] # NoFile /\ temp'[k].by = a
  <2>1. \A k \in A.opened : ~InDatabase(k) => temp[k] # NoFile /\ temp[k].by = a
    BY <1>0, SerialFacts DEF A
  <2>2. A.opened \subseteq Item
    BY <1>1 DEF AttemptRec
  <2> QED BY <1>1, <1>3, <1>5, <2>1, <2>2
<1>11. \A k \in Item : final'[k] # NoFile =>
          /\ Whole(final'[k]) /\ final'[k].writers = {}
          /\ \/ final'[k].by = a /\ FinalFits(B, k)
             \/ final'[k].by # a /\ final[k] # NoFile /\ final'[k].by = final[k].by
  <2>1. FinalFits(B, i)
    BY <1>1, <1>3 DEF FinalFits, Accounted, Busy, SamePlan
  <2>2. Whole(final'[i]) /\ final'[i].writers = {} /\ final'[i].by = a
    BY <1>0, <1>4, <1>5 DEF Whole
  <2>3. ASSUME NEW k \in Item \ {i}, final[k] # NoFile, final[k].by = a PROVE FinalFits(B, k)
    <3>1. k \in A.committed \/ Place(k) < A.group
      BY <1>7, <2>3
    <3> QED BY <1>1, <1>3, <1>7a, <1>7b, <3>1 DEF FinalFits, Accounted, Busy, SamePlan
  <2>4. \A k \in Item : final[k] # NoFile => Whole(final[k]) /\ final[k].writers = {}
    BY SerialFacts
  <2> QED BY <1>5, <2>1, <2>2, <2>3, <2>4
<1>12. \A k \in Item : \A b \in table'[k] :
          IF b = a THEN Accounted(B, k) \/ B.unsaved ELSE b \in table[k]
  <2>1. \A k \in Item : a \in table[k] => Place(k) < A.group \/ A.unsaved
    BY <1>0, SerialFacts DEF A, Accounted, Busy
  <2>2. \A k \in Item : Place(k) < A.group => Accounted(B, k)
    BY <1>1, <1>3, <1>7b DEF Accounted, SamePlan
  <2> QED BY <1>0, <1>3, <2>1, <2>2
<1>13. (\A b \in Attempt \ {a} : at[b].phase = "waiting") =>
          \A k \in B.items : Promised(B, k) => Kept(a, k)'
  <2> SUFFICES ASSUME \A b \in Attempt \ {a} : at[b].phase = "waiting",
                      NEW k \in B.items, Promised(B, k)
               PROVE  Kept(a, k)'
    OBVIOUS
  <2>1. k \in Item /\ k \in A.items /\ Place(k) \in Nat
    BY <1>1, <1>3, <1>7b DEF AttemptRec
  <2>2. CASE k = i
    BY <1>4, <1>5, <1>0, <2>2 DEF Kept, Whole
  <2>3. CASE k # i
    <3>1. Place(k) < A.group \/ k \in A.committed
      <4>1. CASE A.todo # {i}
        BY <1>1, <1>3, <2>3, <4>1 DEF Promised, SamePlan
      <4>2. CASE A.todo = {i}
        <5>1. Place(k) <= A.group
          BY <1>1, <1>3, <2>1, <4>2 DEF Promised
        <5>2. Place(k) = A.group => k \in Members(A)
          BY <2>1 DEF Members
        <5> QED BY <1>1, <2>1, <2>3, <4>2, <5>1, <5>2
      <4> QED BY <4>1, <4>2
    <3>2. Kept(a, k)
      BY <1>0, <2>1, <3>1, SerialFacts DEF Promised, A
    <3> QED BY <1>0, <1>5, <2>1, <2>3, <3>2 DEF Kept
  <2> QED BY <2>2, <2>3
<1>14. B.phase # "waiting" /\ TablesTyped'
  BY <1>3 DEF SharedInv
<1>15. SerialChange(a, B)
  BY <1>3, <1>8, <1>9, <1>10, <1>11, <1>12, <1>13, <1>14 DEF SerialChange
<1> QED BY <1>1, <1>14, <1>15, SerialStep

LEMMA SerialCheckpointFails ==
    ASSUME SharedInv, SharedInv', SerialInv, NEW a \in Attempt, NEW i \in Item, CheckpointFails(a, i)
    PROVE  SerialInv'
<1> DEFINE A == at[a]
           B == RollingBack([A EXCEPT !.unsaved = TRUE])
<1>0. /\ A.phase = "commit" /\ Busy(A) /\ i \in A.todo /\ InDatabase(i)
      /\ temp' = temp /\ final' = final /\ at' = [at EXCEPT ![a] = B]
      /\ table' = [table EXCEPT ![i] = Promoted(i)] /\ stage' = [stage EXCEPT ![i] = {}]
  BY DEF CheckpointFails, AtSink, Busy, files
<1>1. /\ A \in AttemptRec /\ Shape(A) /\ Place(i) = A.group /\ A.group \in Nat /\ Solo(a)
      /\ TablesTyped /\ A.opened = A.todo /\ A.group \in Database
  BY <1>0, BusyAttempt, SerialFacts DEF Shape, Progress, InDatabase
<1>2. stage[i] = {a}
  BY <1>0, <1>1, OneAttempt
<1>3. /\ \A k \in Item : ~(temp[k] # NoFile /\ temp[k].by = a)
      /\ \A k \in Item : final[k] # NoFile /\ final[k].by = a => Place(k) < A.group
  BY <1>0, <1>1, GroupInDatabase
<1> HIDE DEF A
<1>4. /\ B \in AttemptRec /\ SamePlan(A, B) /\ B.phase = "rollback" /\ B.unsaved = TRUE
  BY <1>0, <1>1, RollingBackShape
<1> HIDE DEF B
<1>5. B.items = A.items /\ B.group = A.group
  BY <1>4 DEF SamePlan
<1>6. /\ \A k \in Item \ {i} : table'[k] = table[k] /\ stage'[k] = stage[k]
      /\ table'[i] \subseteq table[i] \cup {a}
  BY <1>0, <1>1, <1>2 DEF TablesTyped, Promoted
<1>7. KindsApart'
  BY <1>0, <1>6, SerialFacts DEF KindsApart
<1>8. \A k \in Item : final'[k] # NoFile =>
          /\ Whole(final'[k]) /\ final'[k].writers = {}
          /\ \/ final'[k].by = a /\ FinalFits(B, k)
             \/ final'[k].by # a /\ final[k] # NoFile /\ final'[k].by = final[k].by
  BY <1>0, <1>3, <1>5, SerialFacts DEF FinalFits, Accounted
<1>9. \A k \in Item : \A b \in table'[k] :
          IF b = a THEN Accounted(B, k) \/ B.unsaved ELSE b \in table[k]
  BY <1>4, <1>6
<1>10. (\A b \in Attempt \ {a} : at[b].phase = "waiting") =>
          \A k \in B.items : Promised(B, k) => Kept(a, k)'
  <2> SUFFICES ASSUME \A b \in Attempt \ {a} : at[b].phase = "waiting",
                      NEW k \in B.items, Promised(B, k)
               PROVE  Kept(a, k)'
    OBVIOUS
  <2>1. k \in Item /\ k \in A.items /\ Place(k) < A.group
    BY <1>1, <1>4, <1>5 DEF Promised, AttemptRec
  <2>2. k # i
    BY <1>1, <2>1
  <2>3. Kept(a, k)
    BY <2>1, SerialFacts DEF Promised, A
  <2> QED BY <1>0, <1>6, <2>1, <2>2, <2>3 DEF Kept
<1>11. B.phase # "waiting" /\ TablesTyped'
  BY <1>4 DEF SharedInv
<1>12. SerialChange(a, B)
  BY <1>0, <1>3, <1>4, <1>7, <1>8, <1>9, <1>10, <1>11 DEF SerialChange
<1> QED BY <1>1, <1>11, <1>12, SerialStep

(* A sink is undone: its files are gone, and those of the other sinks wait  *)
(* for their turn.                                                          *)
LEMMA SerialUndo ==
    ASSUME SharedInv, SharedInv', SerialInv, NEW a \in Attempt, NEW i \in Item,
           at[a].phase \in {"rollback", "drop"}, i \in at[a].todo,
           NEW B \in AttemptRec, AfterUndo(a, i, B), table' = table,
           stage' = stage \/ stage' = [stage EXCEPT ![i] = {}],
           temp' = temp \/ temp' = [temp EXCEPT ![i] = NoFile],
           final' = final \/ final' = [final EXCEPT ![i] = NoFile],
           ~InDatabase(i) /\ i \in at[a].opened => temp'[i] = NoFile,
           ~InDatabase(i) /\ i \in at[a].committed => final'[i] = NoFile
    PROVE  SerialInv'
<1> DEFINE A == at[a]
<1>0. Busy(A) /\ A.phase \in {"rollback", "drop"} /\ i \in A.todo
  BY DEF Busy
<1>1. /\ A \in AttemptRec /\ Shape(A) /\ Place(i) = A.group /\ A.group \in Nat /\ Solo(a)
      /\ TablesTyped /\ A.opened \subseteq Members(A) /\ A.committed \subseteq Members(A)
      /\ A.phase = "drop" => A.committed = {}
  BY <1>0, BusyAttempt, SerialFacts DEF Shape, Progress
<1>2. /\ Shape(B) /\ at' = [at EXCEPT ![a] = B] /\ B.committed = A.committed
      /\ B.unsaved = A.unsaved /\ B.items = A.items /\ B.group = A.group
      /\ \/ A.todo = {i} /\ B.phase = "ended" /\ B.result \in {"aborted", "transient"}
         \/ /\ A.todo # {i} /\ B.phase = A.phase /\ B.todo = A.todo \ {i}
            /\ B.opened = A.opened
  BY DEF AfterUndo
<1>3. /\ \A k \in Item \ {i} : temp'[k] = temp[k] /\ final'[k] = final[k] /\ stage'[k] = stage[k]
      /\ temp'[i] # NoFile => temp'[i] = temp[i]
      /\ final'[i] # NoFile => final'[i] = final[i]
  BY <1>1 DEF TablesTyped
<1>4. \A k \in Item : temp[k] # NoFile /\ temp[k].by = a => TempFits(A, k, temp[k])
  BY SerialFacts
<1>5. \A k \in Item : final[k] # NoFile /\ final[k].by = a =>
         (k \in A.committed /\ k \in A.todo) \/ Place(k) < A.group
  BY <1>0, <1>1, SerialFacts DEF FinalFits, Accounted, Busy
<1>6. /\ i \in A.opened => temp'[i] = NoFile
      /\ i \in A.committed => final'[i] = NoFile
  <2>1. InDatabase(i) => temp[i] = NoFile /\ final[i] = NoFile
    BY SerialFacts DEF KindsApart
  <2> QED BY <1>3, <2>1
<1>7. KindsApart'
  BY <1>3, SerialFacts DEF KindsApart
<1>8. \A k \in Item : temp'[k] # NoFile =>
          \/ temp'[k].by = a /\ TempFits(B, k, temp'[k])
          \/ temp'[k].by # a /\ temp[k] # NoFile /\ temp'[k] = temp[k]
  <2> SUFFICES ASSUME NEW k \in Item, temp'[k] # NoFile, temp'[k].by = a
               PROVE  TempFits(B, k, temp'[k])
    BY <1>3
  <2>1. temp'[k] = temp[k] /\ TempFits(A, k, temp[k])
    BY <1>3, <1>4
  <2>s. CASE Stray(A, k, temp[k])
    BY <1>0, <1>2, <2>1, <2>s DEF TempFits, Stray, Busy
  <2> SUFFICES ASSUME ~Stray(A, k, temp[k])
               PROVE  TempFits(B, k, temp'[k])
    BY <2>s
  <2>2. k \in A.opened /\ k \in A.todo
    BY <1>0, <2>1 DEF TempFits, Busy
  <2>3. k # i
    BY <1>6, <2>2
  <2>4. A.todo # {i} /\ B.phase = A.phase /\ k \in B.todo /\ k \in B.opened
    BY <1>2, <2>2, <2>3
  <2> QED BY <1>0, <2>1, <2>4 DEF TempFits, Stray, Busy
<1>9. \A k \in Item : final'[k] # NoFile =>
          /\ Whole(final'[k]) /\ final'[k].writers = {}
          /\ \/ final'[k].by = a /\ FinalFits(B, k)
             \/ final'[k].by # a /\ final[k] # NoFile /\ final'[k].by = final[k].by
  <2> SUFFICES ASSUME NEW k \in Item, final'[k] # NoFile
               PROVE  /\ Whole(final'[k]) /\ final'[k].writers = {}
                      /\ final'[k] = final[k]
                      /\ final'[k].by = a => FinalFits(B, k)
    OBVIOUS
  <2>1. final'[k] = final[k] /\ Whole(final[k]) /\ final[k].writers = {}
    BY <1>3, SerialFacts
  <2>2. ASSUME final[k].by = a PROVE FinalFits(B, k)
    <3>1. CASE Place(k) < A.group
      BY <1>2, <3>1 DEF FinalFits, Accounted
    <3>2. CASE k \in A.committed /\ k \in A.todo
      <4>1. k # i
        BY <1>6, <3>2
      <4>2. A.todo # {i} /\ B.phase = A.phase /\ k \in B.todo /\ k \in B.committed
        BY <1>2, <3>2, <4>1
      <4> QED BY <1>0, <4>2 DEF FinalFits, Busy
    <3> QED BY <1>5, <2>1, <2>2, <3>1, <3>2
  <2> QED BY <2>1, <2>2
<1>10. \A k \in Item : \A b \in table'[k] :
          IF b = a THEN Accounted(B, k) \/ B.unsaved ELSE b \in table[k]
  BY <1>0, <1>2, SerialFacts DEF Accounted, Busy
<1>11. (\A b \in Attempt \ {a} : at[b].phase = "waiting") =>
          \A k \in B.items : Promised(B, k) => Kept(a, k)'
  <2> SUFFICES ASSUME \A b \in Attempt \ {a} : at[b].phase = "waiting",
                      NEW k \in B.items, Promised(B, k)
               PROVE  Kept(a, k)'
    OBVIOUS
  <2>1. k \in Item /\ k \in A.items /\ Place(k) < A.group
    BY <1>0, <1>1, <1>2 DEF Promised, AttemptRec
  <2>2. k # i
    BY <1>1, <2>1
  <2>3. Kept(a, k)
    BY <2>1, SerialFacts DEF Promised
  <2> QED BY <1>3, <2>1, <2>2, <2>3 DEF Kept
<1>12. B.phase \notin {"waiting", "init", "prepare", "guard", "commit"} /\ TablesTyped'
  BY <1>0, <1>2 DEF SharedInv
<1>13. SerialChange(a, B)
  BY <1>2, <1>7, <1>8, <1>9, <1>10, <1>11, <1>12 DEF SerialChange
<1> QED BY <1>1, <1>12, <1>13, SerialStep

LEMMA SerialRollback ==
    ASSUME SharedInv, SharedInv', SerialInv, NEW a \in Attempt, NEW i \in Item, rollback(a, i)
    PROVE  SerialInv'
<1>1. at[a].phase = "rollback" /\ i \in at[a].todo /\ Undone(a, i) /\ TablesTyped
  BY DEF rollback, AtSink, SharedInv
<1>2. PICK B \in AttemptRec : AfterUndo(a, i, B)
  BY <1>1, UndoOutcome
<1>3. /\ table' = table
      /\ stage' = stage \/ stage' = [stage EXCEPT ![i] = {}]
      /\ temp' = temp \/ temp' = [temp EXCEPT ![i] = NoFile]
      /\ final' = final \/ final' = [final EXCEPT ![i] = NoFile]
      /\ ~InDatabase(i) /\ i \in at[a].opened => temp'[i] = NoFile
      /\ ~InDatabase(i) /\ i \in at[a].committed => final'[i] = NoFile
  BY <1>1 DEF rollback, Removed, files, TablesTyped
<1> QED BY <1>1, <1>2, <1>3, SerialUndo

LEMMA SerialDrop ==
    ASSUME SharedInv, SharedInv', SerialInv, NEW a \in Attempt, NEW i \in Item, drop(a, i)
    PROVE  SerialInv'
<1>1. at[a].phase = "drop" /\ i \in at[a].todo /\ Undone(a, i) /\ TablesTyped
  BY DEF drop, AtSink, SharedInv
<1>2. PICK B \in AttemptRec : AfterUndo(a, i, B)
  BY <1>1, UndoOutcome
<1>3. at[a].committed = {}
  BY <1>1, OneAttempt DEF Shape, Progress
<1>4. /\ table' = table /\ stage' = stage /\ final' = final
      /\ temp' = temp \/ temp' = [temp EXCEPT ![i] = NoFile]
      /\ ~InDatabase(i) /\ i \in at[a].opened => temp'[i] = NoFile
  BY <1>1 DEF drop, Removed, tables, TablesTyped
<1> QED BY <1>1, <1>2, <1>3, <1>4, SerialUndo

(* A worker that dies leaves its files to nobody.                           *)
LEMMA SerialCrash ==
    ASSUME SharedInv, SharedInv', SerialInv, NEW a \in Attempt, Crash(a)
    PROVE  SerialInv'
<1> DEFINE A == at[a]
           B == Ended(A, "crashed")
<1>0. /\ Busy(A) /\ at' = [at EXCEPT ![a] = B]
      /\ \A k \in Item : temp'[k] = Orphan(temp[k], a) /\ final'[k] = Orphan(final[k], a)
      /\ stage' = stage /\ table' = table
  BY CrashFacts
<1>1. A \in AttemptRec /\ Shape(A) /\ TablesTyped /\ Solo(a)
  BY <1>0, BusyAttempt, SerialFacts
<1>2. /\ A.committed \subseteq Members(A) /\ A.rows \in RowPlan /\ PolicyKept(A.rows)
      /\ "crashed" \in Result \ {"none"}
  BY <1>0, <1>1 DEF Shape, Result
<1> HIDE DEF A
<1>3. /\ B \in AttemptRec /\ B.phase = "ended" /\ B.result = "crashed"
      /\ B.group = A.group /\ B.items = A.items /\ B.unsaved = A.unsaved
  BY <1>1, <1>2, EndedShape
<1> HIDE DEF B
<1>4. /\ \A k \in Item : temp[k] = NoFile <=> temp'[k] = NoFile
      /\ \A k \in Item : temp[k] # NoFile =>
            /\ temp'[k].by = temp[k].by /\ temp'[k].mixed = temp[k].mixed
            /\ temp'[k].full = temp[k].full
            /\ temp'[k].writers = temp[k].writers \ {a}
  <2>1. \A k \in Item : temp[k] \in Inode \cup {NoFile}
    BY <1>1 DEF TablesTyped
  <2> QED BY <1>0, <2>1, OrphanFacts
<1>5. /\ \A k \in Item : final[k] = NoFile <=> final'[k] = NoFile
      /\ \A k \in Item : final[k] # NoFile =>
            /\ final'[k].by = final[k].by /\ final'[k].mixed = final[k].mixed
            /\ final'[k].full = final[k].full /\ final'[k].writers = final[k].writers \ {a}
  <2>1. \A k \in Item : final[k] \in Inode \cup {NoFile}
    BY <1>1 DEF TablesTyped
  <2> QED BY <1>0, <2>1, OrphanFacts
<1>6. KindsApart'
  BY <1>0, <1>4, <1>5, SerialFacts DEF KindsApart
<1>7. \A k \in Item : temp'[k] # NoFile =>
          \/ temp'[k].by = a /\ TempFits(B, k, temp'[k])
          \/ /\ temp'[k].by # a /\ temp[k] # NoFile /\ temp'[k].by = temp[k].by
             /\ temp'[k].mixed = temp[k].mixed /\ temp'[k].full = temp[k].full
             /\ temp'[k].writers \subseteq temp[k].writers
  <2> SUFFICES ASSUME NEW k \in Item, temp'[k] # NoFile, temp'[k].by = a
               PROVE  TempFits(B, k, temp'[k])
    BY <1>4
  <2>1. temp[k] # NoFile /\ temp[k].by = a
    BY <1>4
  <2>2. TempFits(A, k, temp[k])
    BY <2>1, SerialFacts DEF A
  <2>3. temp[k].writers \subseteq {a} /\ ~temp[k].mixed
    BY <2>1, <2>2 DEF TempFits, Stray
  <2> QED BY <1>3, <1>4, <2>1, <2>3 DEF TempFits, Stray
<1>8. \A k \in Item : final'[k] # NoFile =>
          /\ Whole(final'[k]) /\ final'[k].writers = {}
          /\ \/ final'[k].by = a /\ FinalFits(B, k)
             \/ final'[k].by # a /\ final[k] # NoFile /\ final'[k].by = final[k].by
  <2>1. \A k \in Item : FinalFits(B, k)
    BY <1>3 DEF FinalFits, Accounted
  <2>2. \A k \in Item : final[k] # NoFile => Whole(final[k]) /\ final[k].writers = {}
    BY SerialFacts
  <2> QED BY <1>5, <2>1, <2>2 DEF Whole
<1>9. \A k \in Item : \A b \in table'[k] :
          IF b = a THEN Accounted(B, k) \/ B.unsaved ELSE b \in table[k]
  BY <1>0, <1>3 DEF Accounted
<1>10. (\A b \in Attempt \ {a} : at[b].phase = "waiting") =>
          \A k \in B.items : Promised(B, k) => Kept(a, k)'
  <2> SUFFICES ASSUME \A b \in Attempt \ {a} : at[b].phase = "waiting",
                      NEW k \in B.items, Promised(B, k)
               PROVE  Kept(a, k)'
    OBVIOUS
  <2>1. k \in Item /\ k \in A.items /\ Place(k) < A.group
    BY <1>1, <1>3 DEF Promised, AttemptRec
  <2>2. Kept(a, k)
    BY <2>1, SerialFacts DEF Promised, A
  <2> QED BY <1>0, <1>4, <1>5, <2>1, <2>2 DEF Kept, Whole
<1>11. TablesTyped'
  BY DEF SharedInv
<1>12. SerialChange(a, B)
  BY <1>0, <1>3, <1>6, <1>7, <1>8, <1>9, <1>10 DEF SerialChange
<1> QED BY <1>1, <1>11, <1>12, SerialStep

(* What neither files nor tables nor attempts take part in.                 *)
LEMMA SerialStutter ==
    ASSUME SerialInv, UNCHANGED <<files, tables, at>>
    PROVE  SerialInv'
<1>1. temp' = temp /\ final' = final /\ stage' = stage /\ table' = table /\ at' = at
  BY DEF files, tables
<1>2. OneAtATime' /\ KindsApart' /\ TempsOwned' /\ OpenHasTemp'
  BY <1>1 DEF SerialInv, OneAtATime, Running, KindsApart, TempsOwned, OpenHasTemp
<1>3. FinalsClosed' /\ FinalsAccounted' /\ RowsAccounted'
  BY <1>1 DEF SerialInv, FinalsClosed, FinalsAccounted, RowsAccounted
<1>4. LastIsKept'
  BY <1>1 DEF SerialInv, LastIsKept, Kept
<1> QED BY <1>2, <1>3, <1>4 DEF SerialInv

LEMMA SerialInitially == Init => SerialInv
<1> SUFFICES ASSUME Init PROVE SerialInv
  OBVIOUS
<1>1. \A a \in Attempt : at[a].phase = "waiting" /\ at[a].items = {}
  BY DEF Init, NoAttempt
<1>2. OneAtATime /\ OpenHasTemp /\ LastIsKept
  BY <1>1 DEF OneAtATime, Running, OpenHasTemp, LastIsKept
<1>3. KindsApart /\ TempsOwned /\ FinalsClosed /\ FinalsAccounted /\ RowsAccounted
  BY DEF Init, KindsApart, TempsOwned, FinalsClosed, FinalsAccounted, RowsAccounted
<1> QED BY <1>2, <1>3 DEF SerialInv

LEMMA SerialNext == ~Overlap /\ SharedInv /\ SharedInv' /\ SerialInv /\ [Next]_vars => SerialInv'
<1> SUFFICES ASSUME ~Overlap, SharedInv, SharedInv', SerialInv, [Next]_vars PROVE SerialInv'
  OBVIOUS
<1>1. ASSUME NEW a \in Attempt, Begin(a) PROVE SerialInv'
  BY <1>1, SerialBegin
<1>2. ASSUME NEW a \in Attempt, guard(a) PROVE SerialInv'
  BY <1>2, SerialGuard
<1>3. ASSUME NEW a \in Attempt, CommitFails(a) PROVE SerialInv'
  BY <1>3, SerialCommitFails
<1>4. ASSUME NEW a \in Attempt, StagingFails(a) PROVE SerialInv'
  BY <1>4, SerialStagingFails
<1>5. ASSUME NEW a \in Attempt, Cancel(a) PROVE SerialInv'
  BY <1>5, SerialCancel
<1>6. ASSUME NEW a \in Attempt, Crash(a) PROVE SerialInv'
  BY <1>6, SerialCrash
<1>7. ASSUME NEW a \in Attempt, NEW i \in Item, create(a, i) PROVE SerialInv'
  BY <1>7, SerialCreate
<1>8. ASSUME NEW a \in Attempt, NEW i \in Item, init(a, i) PROVE SerialInv'
  BY <1>8, SerialInit
<1>9. ASSUME NEW a \in Attempt, NEW i \in Item, prepare(a, i) PROVE SerialInv'
  BY <1>9, SerialPrepare
<1>10. ASSUME NEW a \in Attempt, NEW i \in Item, commit(a, i) PROVE SerialInv'
  BY <1>10, SerialCommitTable, SerialCommitFile
<1>11. ASSUME NEW a \in Attempt, NEW i \in Item, CheckpointFails(a, i) PROVE SerialInv'
  BY <1>11, SerialCheckpointFails
<1>12. ASSUME NEW a \in Attempt, NEW i \in Item, rollback(a, i) PROVE SerialInv'
  BY <1>12, SerialRollback
<1>13. ASSUME NEW a \in Attempt, NEW i \in Item, drop(a, i) PROVE SerialInv'
  BY <1>13, SerialDrop
<1>14. ASSUME NEW u \in Database, OtherLocks(u) \/ OtherUnlocks(u) PROVE SerialInv'
  BY <1>14, SerialStutter DEF OtherLocks, OtherUnlocks
<1>15. ASSUME NEW a \in Attempt, NEW i \in Item, OpenFails(a, i) PROVE SerialInv'
  BY <1>15, SerialOpenFails
<1>16. ASSUME UNCHANGED vars PROVE SerialInv'
  BY <1>16, SerialStutter DEF vars
<1> QED BY <1>1, <1>2, <1>3, <1>4, <1>5, <1>6, <1>7, <1>8, <1>9, <1>10, <1>11, <1>12, <1>13,
           <1>14, <1>15, <1>16 DEF Next

-----------------------------------------------------------------------------
(* The theorems about attempts one at a time. *)

\* When attempts at a job do not overlap: temporary files belong to an open sink,
\* to one that could not be opened or to an attempt that died, final files are closed and were promoted by their
\* creator, and the last attempt's items are where its phase says they are.
THEOREM SerialInvariant == ~Overlap => (Spec => []SerialInv)
<1> SUFFICES ASSUME ~Overlap PROVE Spec => []SerialInv
  OBVIOUS
<1>1. SharedInv /\ SharedInv' /\ SerialInv /\ [Next]_vars => SerialInv'
  BY SerialNext
<1> QED BY <1>1, SerialInitially, SharedInvariant, PTL DEF Spec

(* Whatever was cancelled, failed or died, wherever it was: a file under    *)
(* its final name was written by one attempt, to the end, and closed.       *)
THEOREM FilesAreWholeAlways == ~Overlap => (Spec => []FilesAreWhole)
<1>1. SerialInv => FilesAreWhole
  BY DEF SerialInv, FinalsClosed, FilesAreWhole
<1> QED BY <1>1, SerialInvariant, PTL

LEMMA SuccessFromInv == SharedInv /\ SerialInv => SuccessIsComplete
<1> SUFFICES ASSUME SharedInv, SerialInv, NEW a \in Attempt, at[a].result \in {"success", "partial"},
                    \A b \in Attempt \ {a} : at[b].phase = "waiting", NEW i \in at[a].items
             PROVE  Kept(a, i)
  BY DEF SuccessIsComplete, Kept
<1>1. at[a].phase = "ended"
  BY OneAttempt DEF Shape, Busy, NoAttempt
<1>2. Promised(at[a], i)
  BY <1>1 DEF Promised
<1> QED BY <1>2, SerialFacts

(* An attempt that reported success left everything it was to write in      *)
(* place, under every sink URI, as long as nothing was attempted since.     *)
THEOREM SuccessIsCompleteAlways == ~Overlap => (Spec => []SuccessIsComplete)
BY SuccessFromInv, SerialInvariant, SharedInvariant, PTL

LEMMA FailureFromInv == SharedInv /\ SerialInv => FailedGroupPublishesNothing
<1> SUFFICES ASSUME SharedInv, SerialInv, NEW a \in Attempt, at[a].result \in {"transient", "aborted"}
             PROVE  /\ \A i \in Published(a) : Place(i) < at[a].group \/ (InDatabase(i) /\ at[a].unsaved)
                    /\ \A i \in Unfinished(a) : /\ Place(i) = at[a].group
                                                /\ temp[i].writers = {} /\ ~temp[i].full
                    /\ \A u \in Database : lock[u] # a
  BY DEF FailedGroupPublishesNothing
<1>1. at[a].phase = "ended"
  BY OneAttempt DEF Shape, Busy, NoAttempt
<1>2. \A u \in Database : lock[u] # a
  BY <1>1, OneAttempt DEF Busy
<1>3. ASSUME NEW i \in Published(a) PROVE Place(i) < at[a].group \/ (InDatabase(i) /\ at[a].unsaved)
  <2>0. i \in Item /\ (a \in table[i] \/ (final[i] # NoFile /\ final[i].by = a))
    BY DEF Published
  <2>1. CASE a \in table[i]
    BY <1>1, <2>0, <2>1, SerialFacts DEF Accounted, KindsApart
  <2>2. CASE final[i] # NoFile /\ final[i].by = a
    BY <1>1, <2>0, <2>2, SerialFacts DEF FinalFits, Accounted, Busy
  <2> QED BY <2>0, <2>1, <2>2
<1>4. ASSUME NEW i \in Unfinished(a)
      PROVE  Place(i) = at[a].group /\ temp[i].writers = {} /\ ~temp[i].full
  <2>1. TempFits(at[a], i, temp[i])
    BY SerialFacts DEF Unfinished
  <2> QED BY <1>1, <2>1 DEF TempFits, Stray, Busy
<1> QED BY <1>2, <1>3, <1>4

(* An attempt that reported failure or abort published nothing under the    *)
(* sink URI it was writing or under a later one, but for the rows of a      *)
(* transaction whose CHECKPOINT failed; of its temporary files at most an   *)
(* empty one is left there; and it has no database locked.                  *)
THEOREM FailedGroupPublishesNothingAlways == ~Overlap => (Spec => []FailedGroupPublishesNothing)
BY FailureFromInv, SerialInvariant, SharedInvariant, PTL

=============================================================================
