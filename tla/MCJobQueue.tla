------------------------------ MODULE MCJobQueue ------------------------------
(* A small instance of JobQueue: counters that grow forever are capped.    *)
EXTENDS JobQueue, TLC

CONSTANTS
    MaxFails,   \* cap on consecutive_failures
    MaxLetters  \* cap on the letters of one job

WithinBounds ==
    /\ \A p \in Parser : db'.health[p].fails <= MaxFails
    /\ \A j \in Job : db'.dead[j] <= MaxLetters

MCNext == QueueNext /\ WithinBounds

MCSpec == QueueInit /\ [][MCNext]_queue

TokenSymmetry == Permutations(Token) \cup Permutations(Worker)
===============================================================================
