----------------------------- MODULE WordCopies -----------------------------
(***************************************************************************)
(* What keeping one work on several devices promises, whatever the engine  *)
(* does to bring them in step: words are written on a device, and from     *)
(* there are only moved.  A device gives up a word only when it is safe,   *)
(* that is in a revision of the vault, in a snapshot or in a kept copy (or *)
(* given up knowingly), and shows no word but its own and the safe ones.   *)
(* What is safe stays safe, and nothing gets there but from a device.      *)
(***************************************************************************)
CONSTANTS Devices, Words

VARIABLES
  copy,  \* the words of the work on each device
  safe   \* the words kept elsewhere

Init ==
  /\ \E d \in Devices, w \in Words :
       copy = [e \in Devices |-> IF e = d THEN {w} ELSE {}]
  /\ safe = {}

Write(d, w) ==
  /\ copy' = [copy EXCEPT ![d] = @ \cup {w}]
  /\ safe \subseteq safe' /\ safe' \subseteq safe \cup {w}

Move(d) ==
  /\ \A e \in Devices \ {d} : copy'[e] = copy[e]
  /\ copy[d] \subseteq copy'[d] \cup safe'
  /\ copy'[d] \subseteq copy[d] \cup safe
  /\ safe \subseteq safe' /\ safe' \subseteq safe \cup copy[d]

Next == \E d \in Devices : Move(d) \/ \E w \in Words : Write(d, w)

Spec == Init /\ [][Next]_<<copy, safe>>

=============================================================================
