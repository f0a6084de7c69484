------------------------------ MODULE MCFolder ------------------------------
(* A small instance of Folder for TLC.                                         *)
EXTENDS Folder

CONSTANTS a, b

(* Of two words that are alike, the first to be typed is a; and no day passes  *)
(* while there is but one blob. Both cut off what has no fairness: an edit,    *)
(* and a day.                                                                  *)
Bounds ==
    /\ spent.edits = 1 => \A d \in Devices : b \notin text[d]
    /\ Cardinality(once) # 1
=============================================================================
