----------------------------- MODULE ResumableLog -----------------------------
(***************************************************************************)
(* What an append-only upload promises: the stored part of the log of the  *)
(* current attempt only grows, until it is erased or an attempt begins.    *)
(***************************************************************************)
EXTENDS Naturals

CONSTANT Size     \* [attempt -> bytes of its log]

VARIABLES
    attempt,      \* the current attempt
    stored        \* how many of its bytes are stored

vars == <<attempt, stored>>

Init == attempt = 1 /\ stored = 0

Grow ==
    /\ stored' \in stored .. Size[attempt]
    /\ UNCHANGED attempt

Erase == stored' = 0 /\ UNCHANGED attempt

NextAttempt ==
    /\ attempt + 1 \in DOMAIN Size
    /\ attempt' = attempt + 1
    /\ stored' = 0

Next == Grow \/ Erase \/ NextAttempt

Spec == Init /\ [][Next]_vars
=============================================================================
