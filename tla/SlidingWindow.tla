--------------------------- MODULE SlidingWindow ---------------------------
(***************************************************************************)
(* What a sliding-window limiter promises, whatever it is built from: time *)
(* passes and requests are admitted; an admission counts at the time it is *)
(* stamped with, is never taken back, and is made only while the window    *)
(* that ends now has room for it.                                          *)
(***************************************************************************)
EXTENDS Integers, FiniteSets

CONSTANTS
    Budget,     \* how many admissions a window may hold
    Span        \* the length of the window

VARIABLES
    now,        \* the time
    admitted    \* everything that was ever admitted, with its stamp "at"

Recent(t) == {m \in admitted : m.at > t - Span}

Init == now = 0 /\ admitted = {}

Tick ==
    /\ now' = now + 1
    /\ UNCHANGED admitted

\* A request may be stamped before it is admitted, never after.
Admit ==
    /\ \E m \in admitted' : admitted' = admitted \union {m} /\ m.at <= now
    /\ Cardinality(Recent(now)') <= Budget
    /\ UNCHANGED now

Next == Tick \/ Admit

Spec == Init /\ [][Next]_<<now, admitted>>
=============================================================================
