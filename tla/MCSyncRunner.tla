---------------------------- MODULE MCSyncRunner ----------------------------
(* SyncRunner with constants and variables that no component of Engine has a   *)
(* name of, so that one module can be about them all.                          *)
EXTENDS Naturals

CONSTANTS SyncedWorks, AgentWorks, Arrivals, Leftover, MaxMoves, MaxSetbacks

VARIABLES
    pc, phase, todo, pushing, pulling, service, active, opening, edited, flushing, closed,
    woken, canceled, calling, enabled, busy, unsent, behind, unmirrored, unseen, moves, setbacks

(* Agents write in works of the library, and works of it come and are left.    *)
ASSUME RunnerAssumption ==
    /\ AgentWorks \subseteq SyncedWorks /\ Arrivals \subseteq SyncedWorks /\ Leftover \subseteq SyncedWorks
    /\ MaxMoves \in Nat /\ MaxSetbacks \in Nat

Runner == INSTANCE SyncRunner WITH Works <- SyncedWorks, Agents <- AgentWorks

RunnerSpec == Runner!LiveSpec

(* A work left or flushed is not slept over once the call has returned         *)
(* (SyncRunner).                                                               *)
NoMissedWake == Runner!NoMissedWake

(* What is written goes up in the end, unless something else is done with it   *)
(* (SyncRunner).                                                               *)
EverythingGoesUp == Runner!EverythingGoesUp
=============================================================================
