------------------------------- MODULE Samples -------------------------------
(* Sample checks of one work (continuity.sample_check, continuity/sampling.go): *)
(* pairs of scenes are picked, a pass is started that compares them, and the   *)
(* pairs are noted as compared at the versions they had. Two requests may be   *)
(* under way at once, and the writer edits scenes meanwhile.                   *)
EXTENDS Naturals, Sequences, FiniteSets

CONSTANTS
    Scenes,       \* 1 .. n, the story's order
    Opens,        \* the scenes each container opens with, written or not: a
                  \* sequence of sets of scenes
    RecentPairs,  \* how many scenes back are always compared
    Callers,
    MaxEdits      \* bound: edits of the prose

VARIABLES
    version,      \* of each scene; 0 while nothing is written in it
    call,
    seen,         \* continuity_sample_pairs
    handed,       \* for the properties: pairs a pass was given
    edits

vars == <<version, call, seen, handed, edits>>

Idle == [at |-> "idle"]

Init ==
    /\ version = [s \in Scenes |-> IF s = 2 THEN 0 ELSE 1]
    /\ call = [c \in Callers |-> Idle]
    /\ seen = {} /\ handed = {} /\ edits = 0

Step(c, next) == call' = [call EXCEPT ![c] = next]

Edits(s) ==
    /\ edits < MaxEdits /\ edits' = edits + 1
    /\ version' = [version EXCEPT ![s] = @ + 1]
    /\ UNCHANGED <<call, seen, handed>>

-----------------------------------------------------------------------------
Written == {s \in Scenes : version[s] > 0}
Before(t) == {e \in Written : e < t}

(* SampleScenes: the first written scene of the work, and of each container.   *)
Anchors == {s \in Written :
    \/ Before(s) = {}
    \/ \E k \in DOMAIN Opens : s \in Opens[k] /\ Opens[k] \cap Before(s) = {}}

Pair(e, t) == <<e, version[e], t, version[t]>>

Recent(t) == {e \in Before(t) : Cardinality({s \in Before(t) : s >= e}) <= RecentPairs}

(* What a scene is always held against.                                        *)
Always(t) == Recent(t) \cup (Anchors \cap Before(t))

(* One more is the scene that shares most names with it, or is drawn by chance *)
(* from the rest.                                                              *)
Extras(t) == {{e} : e \in Before(t) \ Always(t)} \cup (IF Before(t) \subseteq Always(t) THEN {{}} ELSE {})

SeenSince(p) == \E q \in seen : q[1] = p[1] /\ q[3] = p[3] /\ q[4] = p[4]
PairSeen(p) == p \in seen

SamplePairs(t, extra, force) ==
    {p \in {Pair(e, t) : e \in Always(t) \cup extra} : force \/ ~PairSeen(p)}

(* SampleCheck reads the scenes and what was compared, then asks for the pass. *)
Picks(c, t, force) ==
    /\ call[c] = Idle /\ t \in Written
    /\ \E extra \in Extras(t) :
        Step(c, [at |-> "picked", target |-> t, pairs |-> SamplePairs(t, extra, force)])
    /\ UNCHANGED <<version, seen, handed, edits>>

(* Refused while a turn runs for the work, or where no model can be reached.   *)
StartSampleCheck(c, starts) ==
    /\ call[c].at = "picked"
    /\ IF call[c].pairs # {} /\ starts
       THEN handed' = handed \cup call[c].pairs /\ Step(c, [call[c] EXCEPT !.at = "started"])
       ELSE UNCHANGED handed /\ Step(c, Idle)
    /\ UNCHANGED <<version, seen, edits>>

(* One row at a time; a handler that is given up may have noted some of them.  *)
RecordPairs(c, some) ==
    /\ call[c].at = "started"
    /\ some \subseteq call[c].pairs
    /\ seen' = seen \cup some
    /\ Step(c, Idle)
    /\ UNCHANGED <<version, handed, edits>>

Next ==
    \/ \E s \in Scenes : Edits(s)
    \/ \E c \in Callers :
        \/ \E t \in Scenes, force \in BOOLEAN : Picks(c, t, force)
        \/ \E starts \in BOOLEAN : StartSampleCheck(c, starts)
        \/ \E some \in SUBSET handed : RecordPairs(c, some)

Spec == Init /\ [][Next]_vars

-----------------------------------------------------------------------------
(* A sample passes over no scene just before its own, and none that opens a    *)
(* part, unless some pass was given the two at the versions they have now:     *)
(* a pass that could not start leaves nothing behind that reads as compared.   *)
PicksWhatIsLeft ==
    \A c \in Callers : (call[c] = Idle /\ call'[c].at = "picked") =>
        LET t == call'[c].target IN
        {Pair(e, t) : e \in {s \in Before(t) : \/ Cardinality({u \in Written : s < u /\ u < t}) < RecentPairs
                                               \/ s \in Anchors}} \ call'[c].pairs \subseteq handed

NothingPassedOver == [][PicksWhatIsLeft]_vars
=============================================================================
