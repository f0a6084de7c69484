----------------------------- MODULE MCSceneText -----------------------------
(* A small instance of SceneText for TLC.                                      *)
EXTENDS SceneText

(* Two moves with both words and a brief or other scenes in the queue; or three, *)
(* with one word and neither. What this cuts off, a word that is typed, a        *)
(* request, a brief and another scene's place in the queue, has no fairness.     *)
Alone  == reading["brief"] = NoRead
Bounds ==
    /\ used.moves = 3 => Alone /\ Cardinality(used.words) < 2
    /\ "other" \in Range(queue.line) => Alone /\ used.moves < 3
=============================================================================
