------------------------------ MODULE BarStore ------------------------------
(***************************************************************************)
(* What the callers of the K-line service rely on in the table of daily    *)
(* bars, without sessions, calls or transactions: bars are added and never *)
(* taken away, and whatever is added at once leaves no gap in the window   *)
(* that is asked for on that day.                                          *)
(***************************************************************************)
EXTENDS Integers

CONSTANTS Symbols, Horizon, Lookback

Days == 0 .. Horizon

VARIABLES today,
          bars      \* [Symbols -> days with a stored bar]

vars == <<today, bars>>

\* Below its newest bar B has every day of today's window.
Complete(B) == \A d \in B, e \in Days : today - Lookback <= e /\ e <= d => e \in B

Init == today = 0 /\ bars = [x \in Symbols |-> {}]

Add ==
    /\ bars' \in [Symbols -> SUBSET Days]
    /\ \A x \in Symbols : bars[x] \subseteq bars'[x] /\ Complete(bars'[x])
    /\ UNCHANGED today

NextDay == today' = today + 1 /\ today' \in Days /\ UNCHANGED bars

Next == Add \/ NextDay

Spec == Init /\ [][Next]_vars
=============================================================================
