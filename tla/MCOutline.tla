------------------------------ MODULE MCOutline ------------------------------
EXTENDS Outline

\* A part with two scenes, the first of them written.
Of(p, o, kind, w) == [parent |-> p, ord |-> o, kind |-> kind, label |-> "old", words |-> w]
TwoScenes == <<Of(0, 0, "container", 0), Of(1, 0, "leaf", 1), Of(1, 1, "leaf", 0)>>

\* Two people, and another with the first one's name.
Name(p) == IF p = "twin" THEN "ada" ELSE p
Pair == {"ada", "bo"}
Tied == {Pair}
AdaInBoth == {<<"ada", 2>>, <<"ada", 3>>}
=============================================================================
