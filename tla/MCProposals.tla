----------------------------- MODULE MCProposals -----------------------------
(* Proposals with one caller, who undoes batches in the order they were made   *)
(* in, and with constants and variables that no component of Engine has a name *)
(* of, so that one module can be about them all.  The small instance: a        *)
(* forecast of a scene and a beat in it, a second forecast of one scene, and a *)
(* cast of one person.                                                         *)
EXTENDS Integers, Sequences, FiniteSets

CONSTANTS
    Asker, Suggested, ProposalOf, Ordinal, Sort, Needs, NoItem,
    MaxUndoable, MaxThings, MaxAsked, MaxOutside, MaxStopped,
    MaxInAll

VARIABLES inbox, things, lastId, batched, undoable, asked, serving, torn, dropped, used

Inbox == INSTANCE Proposals WITH
    Callers <- {Asker}, Items <- Suggested, AnyOrder <- FALSE, Window <- MaxUndoable,
    MaxCalls <- MaxAsked, MaxFaults <- MaxStopped, MaxSteps <- MaxInAll,
    row <- inbox, ids <- lastId, batches <- batched, window <- undoable, call <- asked,
    up <- serving, spent <- used

(* What Submit lets in, and the start of the engine is no caller of it.        *)
ASSUME InboxAssumption ==
    /\ Inbox!LetIn /\ NoItem \notin Suggested /\ Asker # Inbox!Engine /\ IsFiniteSet(Suggested)
    /\ {MaxUndoable, MaxThings, MaxAsked, MaxOutside, MaxStopped, MaxInAll} \subseteq Nat

InboxSpec == Inbox!Spec

(* What the inbox says is so when no call is under way (Proposals).            *)
Honest == Inbox!Honest

(* A start of the engine leaves no item half taken back (Proposals).           *)
StartSettles == Inbox!StartSettles

SmallItems == {"arrival", "storm", "harbour", "ada"}
SmallProposals == [arrival |-> 1, storm |-> 1, harbour |-> 2, ada |-> 3]
SmallOrdinals == [arrival |-> 1, storm |-> 2, harbour |-> 1, ada |-> 1]
SmallSorts == [arrival |-> "scene", storm |-> "beat", harbour |-> "scene", ada |-> "person"]
SmallNeeds == [arrival |-> "none", storm |-> "arrival", harbour |-> "none", ada |-> "none"]
=============================================================================
