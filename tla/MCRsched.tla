------------------------------ MODULE MCRsched ------------------------------
(***************************************************************************)
(* Small instances of Rsched for TLC.                                      *)
(***************************************************************************)
EXTENDS RschedSpurious, TLC

CONSTANTS m1, m2

AllNormal == [m \in Mutexes |-> "normal"]
AllRecursive == [m \in Mutexes |-> "recursive"]
AllErrorcheck == [m \in Mutexes |-> "errorcheck"]
OneRecursive == [m \in Mutexes |-> IF m = m2 THEN "recursive" ELSE "normal"]

\* The threads other than the main one are interchangeable.
ThreadSymmetry == Permutations(Threads \ {Main})

=============================================================================
