---------------------------- MODULE SignalTable ----------------------------
(***************************************************************************)
(* What both signal screens promise about the table they keep: a run puts  *)
(* its signals there in one step, once, at most one for each symbol, and   *)
(* everything else that happens to the table only deletes.                 *)
(***************************************************************************)
EXTENDS TLAPS

CONSTANT Runs

VARIABLES rows,     \* the stored signals: records with a run and a symbol
          stored    \* the runs that have stored their signals

vars == <<rows, stored>>

\* One signal for a symbol at most.
OneForEach(batch) == \A x, y \in batch : x.symbol = y.symbol => x = y

\* Rows of before belong to none of the runs.
Init ==
    /\ stored = {}
    /\ \A x \in rows : x.run \notin Runs

Store(r) ==
    /\ r \notin stored
    /\ rows \subseteq rows'
    /\ \A x \in rows' \ rows : x.run = r
    /\ OneForEach(rows' \ rows)
    /\ stored' = stored \cup {r}

Delete == rows' \subseteq rows /\ UNCHANGED stored

Next == (\E r \in Runs : Store(r)) \/ Delete

Spec == Init /\ [][Next]_vars

\* A run has one signal for a symbol at most, and only if it has stored.
Unambiguous ==
    /\ \A x \in rows : x.run \in Runs => x.run \in stored
    /\ \A x, y \in rows : x.run = y.run /\ x.run \in Runs /\ x.symbol = y.symbol => x = y

\* This follows from the way the table is written.
THEOREM NoTwoSignals == Spec => []Unambiguous
<1>1. Init => Unambiguous  BY DEF Init, Unambiguous
<1>2. ASSUME Unambiguous, [Next]_vars PROVE Unambiguous'
  <2>1. ASSUME NEW r \in Runs, Store(r) PROVE Unambiguous'
    BY <1>2, <2>1 DEF Store, OneForEach, Unambiguous
  <2>2. ASSUME rows' \subseteq rows, stored' = stored PROVE Unambiguous'
    BY <1>2, <2>2 DEF Unambiguous
  <2> QED BY <1>2, <2>1, <2>2 DEF Next, Delete, vars
<1> QED BY <1>1, <1>2, PTL DEF Spec
=============================================================================
