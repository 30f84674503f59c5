----------------------------- MODULE BrokerBook -----------------------------
(***************************************************************************)
(* What approving and cancelling orders promises about the broker, without *)
(* requests, sessions or tables: an order is placed only while the kill    *)
(* switch is off and no order of the same (symbol, side) pair is open.     *)
(***************************************************************************)
CONSTANTS Ids,    \* broker order ids
          Keys    \* (symbol, side) pairs

VARIABLES live,        \* the open broker orders: records of an id and a pair
          killSwitch

vars == <<live, killSwitch>>

Init == live = {} /\ killSwitch = FALSE

Place(i, k) ==
    /\ ~killSwitch
    /\ \A x \in live : x.id # i /\ x.key # k
    /\ live' = live \cup {[id |-> i, key |-> k]}
    /\ UNCHANGED killSwitch

Close(x) == live' = live \ {x} /\ UNCHANGED killSwitch

SetKillSwitch == killSwitch' = ~killSwitch /\ UNCHANGED live

\* The process restarts: an in-memory broker and the switch are reset.
Forget == live' = {} /\ killSwitch' = FALSE

Next ==
    \/ \E i \in Ids, k \in Keys : Place(i, k)
    \/ \E x \in live : Close(x)
    \/ SetKillSwitch
    \/ Forget

Spec == Init /\ [][Next]_vars
=============================================================================
