----------------------------- MODULE Lifecycle -----------------------------
(***************************************************************************)
(* What a table of long-lived records promises its readers: every record   *)
(* starts in Start and moves only along Edges, whoever moves it and        *)
(* whatever crashes or answers get lost on the way.  API jobs and          *)
(* approvals are shown to implement an instance of this                    *)
(* specification.                                                          *)
(***************************************************************************)
CONSTANTS Items,    \* the records
          States,   \* the values of their status column
          Start,    \* the status a record has before it exists
          Edges     \* the pairs <<from, to>> a record may move along

VARIABLE st         \* [Items -> States]

Init == st = [i \in Items |-> Start]

(***************************************************************************)
(* One statement may move several records (an UPDATE without a key), each  *)
(* along an edge.                                                          *)
(***************************************************************************)
Next == /\ st' \in [Items -> States]
        /\ \A i \in Items : st'[i] # st[i] => <<st[i], st'[i]>> \in Edges

Spec == Init /\ [][Next]_st
=============================================================================
