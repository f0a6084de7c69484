------------------------------- MODULE MCItem -------------------------------
(* LibraryItem with constants and variables that no component of Engine has a  *)
(* name of, so that one module can be about them all.                          *)
EXTENDS Naturals

CONSTANTS
    Devices, Parts, Linkers, Profile, Logged, Unparsed, Symlinks, Texts, Stamp, AtFirst, TooLong, Choices,
    MaxTyped, MaxChoices, MaxStops

VARIABLES files, selection, base, op, head, revision, work, spent, told

Item == INSTANCE LibraryItem WITH
    MaxEdits <- MaxTyped, MaxFaults <- MaxStops, done <- spent, history <- told

(* A text is a number and bears a time, a selection leaves out categories of   *)
(* the item or the works, and every device begins with the same.               *)
ASSUME ItemAssumption ==
    /\ Texts \subseteq Nat \ {Item!None} /\ Stamp \in [Texts -> Nat] /\ TooLong \subseteq Texts
    /\ AtFirst \in [Parts -> Texts \cup {Item!None}] /\ Profile \in Parts \ Logged /\ Linkers \subseteq Devices
    /\ Choices \subseteq SUBSET (Parts \cup {Item!Work})
    /\ {MaxTyped, MaxChoices, MaxStops} \subseteq Nat

(* A take removes only what a writer took away, what it replaces was sent, is  *)
(* in a skill's history or is older, and an adopted selection is no edit       *)
(* (LibraryItem).                                                              *)
LibraryKept == Item!LibraryKept

(* Every device that syncs comes to hold what the item holds (LibraryItem).    *)
Settles == Item!Settles
=============================================================================
