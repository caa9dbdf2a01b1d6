------------------------------- MODULE Answer -------------------------------
(***************************************************************************)
(* What an answer's stream promises whoever reads it (ADR-0007,            *)
(* app/triage.py answer_events): the items the model said, in the order it *)
(* said them, none left out; then one ending.  "Done" promises that all of *)
(* it arrived and that there was something to read.                        *)
(***************************************************************************)
EXTENDS Naturals

VARIABLES
    said,       \* how many items the answer's source has produced
    told,       \* how many of them the reader has been given
    spoken,     \* an item given was a piece of the answer's text
    ended       \* "no", or how it ended

vars == <<said, told, spoken, ended>>

Init == said = 0 /\ told = 0 /\ spoken = FALSE /\ ended = "no"

Say ==
    /\ ended = "no"
    /\ said' = said + 1
    /\ UNCHANGED <<told, spoken, ended>>

Tell ==
    /\ ended = "no" /\ told < said
    /\ told' = told + 1
    /\ spoken' \in {spoken, TRUE}
    /\ UNCHANGED <<said, ended>>

Done ==
    /\ ended = "no" /\ told = said /\ spoken
    /\ ended' = "done"
    /\ UNCHANGED <<said, told, spoken>>

\* An error, or the reader left: what had been told stands.
EndEarly ==
    /\ ended = "no"
    /\ ended' \in {"error", "cut"}
    /\ UNCHANGED <<said, told, spoken>>

Next == Say \/ Tell \/ Done \/ EndEarly

Spec == Init /\ [][Next]_vars
=============================================================================
