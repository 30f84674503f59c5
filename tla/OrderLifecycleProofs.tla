------------------------ MODULE OrderLifecycleProofs ------------------------
(***************************************************************************)
(* Proofs about OrderLifecycle for every set of requests, orders and       *)
(* pairs, with and without failing commits.                                *)
(***************************************************************************)
EXTENDS OrderLifecycle, Integers, TLAPS

USE KeyAssumption, NoneAssumption, FlagAssumption

-----------------------------------------------------------------------------
\* Type correctness: every handler step keeps the tables, the broker's book
\* and the sessions within their types.
LEMMA TypeStep == TypeOK /\ [Next]_vars => TypeOK'
<1> SUFFICES ASSUME TypeOK, [Next]_vars PROVE TypeOK'
  OBVIOUS
<1> USE DEF TypeOK
<1>1. ASSUME NEW r \in Requests, Load(r) PROVE TypeOK'
  BY <1>1 DEF Load, Goto, Target, asked, Row
<1>2. ASSUME NEW r \in Requests, Forbid(r) \/ Refuse(r) \/ CommitFails(r)
      PROVE TypeOK'
  BY <1>2 DEF Forbid, Refuse, CommitFails, Goto, asked
<1>3. ASSUME NEW r \in Requests,
             DecidePlace(r) \/ DecideFail(r) \/ DecideReject(r)
      PROVE TypeOK'
  BY <1>3 DEF DecidePlace, DecideFail, DecideReject, Decided, Goto, asked,
              Statuses
<1>4. ASSUME NEW r \in Requests, DecideCancel(r) PROVE TypeOK'
  BY <1>4 DEF DecideCancel, Decided, Goto, asked, Statuses
<1>5. ASSUME NEW r \in Requests, Commit(r) PROVE TypeOK'
  <2>1. Written(rows[Target(r)], r) \in Row
    BY DEF Written, Row, Target
  <2> QED BY <1>5, <2>1 DEF Commit, Goto, asked, Target
<1>6. ASSUME NEW r \in Requests, Log(r) PROVE TypeOK'
  BY <1>6 DEF Log, Goto, asked, Target, Entry
<1>7. ASSUME NEW enabled \in BOOLEAN, SetKillSwitch(enabled) PROVE TypeOK'
  BY <1>7 DEF SetKillSwitch, asked
<1>8. ASSUME Restart PROVE TypeOK'
  BY <1>8 DEF Restart, asked
<1>9. ASSUME UNCHANGED vars PROVE TypeOK'
  BY <1>9 DEF vars
<1> QED
  BY <1>1, <1>2, <1>3, <1>4, <1>5, <1>6, <1>7, <1>8, <1>9
     DEF Next, Serve, Handle

\* TypeOK is an invariant of the order routes.
THEOREM TypeCorrect == Spec => []TypeOK
<1>1. Init => TypeOK
  <2>1. NewRow \in Row
    BY DEF NewRow, Row, Statuses
  <2> QED BY <2>1 DEF Init, TypeOK, Statuses
<1> QED BY <1>1, TypeStep, PTL DEF Spec

-----------------------------------------------------------------------------
\* Every step keeps the inductive invariant, one action at a time.
LEMMA InvariantStep == IInv /\ [Next]_vars => IInv'
<1> SUFFICES ASSUME IInv, [Next]_vars PROVE IInv'
  OBVIOUS
<1> TypeOK /\ TypeOK'
  BY TypeStep DEF IInv
<1> USE DEF IInv, TypeOK, NoDuplicateOpenOrder, NoOrderWithoutApproval,
            VerdictMatchesStatus, RecordsTruthful, DecisionsLegal,
            LoggedAfterCommit, IdsPublished, UncommittedStaysOpen,
            ReadOnlyIsInert, GateHolds, OpenOrderTraceable,
            OpenOrders, Target
<1>1. ASSUME NEW r \in Requests, Load(r) PROVE IInv'
  BY <1>1 DEF Load, Goto, asked, Row
<1>2. ASSUME NEW r \in Requests, Forbid(r) \/ Refuse(r) PROVE IInv'
  <2>1. pc' = [pc EXCEPT ![r] = "done"] /\ pc[r] \in {"new", "loaded"}
    BY <1>2 DEF Forbid, Refuse, Goto
  <2>2. UNCHANGED <<request, readOnly, seen, outcome, rows, book, killSwitch, audit>>
    BY <1>2 DEF Forbid, Refuse, asked
  <2> QED BY <2>1, <2>2
<1>2a. ASSUME NEW r \in Requests, CommitFails(r) PROVE IInv'
  <2>1. pc' = [pc EXCEPT ![r] = "done"] /\ pc[r] \in {"commit", "log"}
    BY <1>2a DEF CommitFails, Goto
  <2>2. UNCHANGED <<request, readOnly, seen, outcome, rows, book, killSwitch, audit>>
    BY <1>2a DEF CommitFails, asked
  <2> QED BY <2>1, <2>2, <1>2a DEF CommitFails
<1>3. ASSUME NEW r \in Requests, DecidePlace(r)
      PROVE IInv'
  BY <1>3 DEF DecidePlace, Approving, Allowed, DuplicateOpenOrder, Decided, Goto, asked,
              Statuses
<1>3a. ASSUME NEW r \in Requests, DecideFail(r) \/ DecideReject(r)
      PROVE IInv'
  <2>1. PICK s \in {"FAILED", "REJECTED"} :
          outcome' = [outcome EXCEPT ![r] = s]
    BY <1>3a DEF DecideFail, DecideReject, Decided
  <2>2. pc' = [pc EXCEPT ![r] = "commit"] /\ pc[r] = "loaded"
    BY <1>3a DEF DecideFail, DecideReject, Decided, Approving, Goto
  <2>3. UNCHANGED <<request, readOnly, seen, rows, book, killSwitch, audit>>
    BY <1>3a DEF DecideFail, DecideReject, asked
  <2> QED BY <2>1, <2>2, <2>3
<1>4. ASSUME NEW r \in Requests, DecideCancel(r) PROVE IInv'
  <2>1. /\ pc[r] = "loaded" /\ request[r].kind = "cancel"
        /\ pc' = [pc EXCEPT ![r] = "commit"]
        /\ outcome' = [outcome EXCEPT ![r] = "CANCELLED"]
        /\ UNCHANGED <<request, readOnly, seen, rows, killSwitch, audit>>
    BY <1>4 DEF DecideCancel, Decided, Goto, asked
  <2>2. \A b \in Requests :
           \/ book'[b] = book[b]
           \/ /\ b = seen[r].brokerId /\ book[b] # "ABSENT"
              /\ book'[b] = "CANCELLED"
    BY <1>4 DEF DecideCancel
  <2>3. NoDuplicateOpenOrder' /\ NoOrderWithoutApproval'  BY <2>1, <2>2
  <2>4. VerdictMatchesStatus' /\ RecordsTruthful'  BY <2>1
  <2>5. DecisionsLegal' /\ LoggedAfterCommit'  BY <2>1
  <2>6. IdsPublished'
    <3>1. \A b \in Requests : pc[b] \in {"log", "done"} => pc'[b] = pc[b]  BY <2>1
    <3>2. \A row \in Row : row.brokerId \in Requests \cup {None}  BY DEF Row
    <3> QED BY <2>1, <3>1, <3>2
  <2>7. UncommittedStaysOpen' /\ (OpenOrderTraceable => OpenOrderTraceable')
    <3>1. ASSUME NEW b \in Requests, pc[b] = "commit" PROVE book'[b] = book[b]
      <4>1. seen[r].brokerId # None => pc[seen[r].brokerId] # "commit"  OBVIOUS
      <4>2. b # None  OBVIOUS
      <4>3. b # seen[r].brokerId  BY <3>1, <4>1, <4>2
      <4> QED BY <2>2, <4>3
    <3>2. \A b \in Requests : b # r => pc'[b] = pc[b] /\ outcome'[b] = outcome[b]
      BY <2>1
    <3>3. pc[r] = "loaded" /\ outcome'[r] = "CANCELLED" /\ rows' = rows  BY <2>1
    <3>4. \A b \in Requests : Target(b)' = Target(b)  BY <2>1
    <3>5. UncommittedStaysOpen'  BY <3>1, <3>2, <3>3
    <3>6. \A b \in Requests : book'[b] = "SUBMITTED" => book[b] = "SUBMITTED"  BY <2>2
    <3>7. OpenOrderTraceable => OpenOrderTraceable'  BY <3>2, <3>3, <3>4, <3>6
    <3> QED BY <3>5, <3>7
  <2>8. ReadOnlyIsInert' /\ GateHolds'  BY <1>4, <2>1 DEF DecideCancel
  <2> QED BY <2>3, <2>4, <2>5, <2>6, <2>7, <2>8
<1>5. ASSUME NEW r \in Requests, Commit(r) PROVE IInv'
  <2>1. /\ pc[r] = "commit" /\ pc' = [pc EXCEPT ![r] = "log"]
        /\ UNCHANGED <<request, readOnly, seen, outcome, book, killSwitch, audit>>
    BY <1>5 DEF Commit, Goto, asked
  <2>2. /\ rows' = [rows EXCEPT ![Target(r)] = Written(rows[Target(r)], r)]
        /\ Target(r) \in Orders
    BY <1>5 DEF Commit
  <2>3. \A row \in Row : row.brokerId \in Requests \cup {None}  BY DEF Row
  <2>4. NoDuplicateOpenOrder' /\ NoOrderWithoutApproval'  BY <2>1
  <2>5. VerdictMatchesStatus' /\ RecordsTruthful'  BY <2>1, <2>2 DEF Written, Row
  <2>6. DecisionsLegal' /\ LoggedAfterCommit'  BY <2>1, <2>2 DEF Written, Row
  <2>7. IdsPublished'
    <3>1. \A b \in Requests : pc[b] \in {"log", "done"} => pc'[b] = pc[b]  BY <2>1
    <3> QED BY <2>1, <2>2, <2>3, <3>1 DEF Written, Row
  <2>8. UncommittedStaysOpen' /\ (OpenOrderTraceable => OpenOrderTraceable')
    <3>1. \A b \in Requests :
             /\ b # r => pc'[b] = pc[b]
             /\ pc[r] = "commit" /\ pc'[r] = "log"
             /\ Target(b)' = Target(b) /\ Target(b) \in Orders
      BY <2>1
    <3>2. /\ \A o \in Orders : o # Target(r) => rows'[o] = rows[o]
          /\ rows'[Target(r)] = Written(rows[Target(r)], r)
      BY <2>2
    <3>3. UncommittedStaysOpen'  BY <2>1, <3>1
    <3>4. ASSUME OpenOrderTraceable, NEW b \in Requests, book'[b] = "SUBMITTED"
          PROVE  \/ rows'[Target(b)].brokerId = b
                 \/ pc'[b] = "commit" /\ outcome'[b] = "SUBMITTED"
      <4>1. CASE b = r  BY <2>1, <3>1, <3>2, <3>4, <4>1 DEF Written
      <4>2. CASE b # r /\ Target(b) # Target(r)
        BY <2>1, <3>1, <3>2, <3>4, <4>2
      <4>3. CASE b # r /\ Target(b) = Target(r)
        BY <2>1, <3>1, <3>2, <3>4, <4>3 DEF Written
      <4> QED BY <4>1, <4>2, <4>3
    <3>5. OpenOrderTraceable => OpenOrderTraceable'  BY <2>1, <3>1, <3>4
    <3> QED BY <3>3, <3>5
  <2>9. ReadOnlyIsInert' /\ GateHolds'  BY <2>1, <2>2
  <2> QED BY <2>4, <2>5, <2>6, <2>7, <2>8, <2>9
<1>6. ASSUME NEW r \in Requests, Log(r) PROVE IInv'
  BY <1>6 DEF Log, Goto, asked, Entry
<1>7. ASSUME NEW enabled \in BOOLEAN, SetKillSwitch(enabled) PROVE IInv'
  BY <1>7 DEF SetKillSwitch, asked
<1>8. ASSUME Restart PROVE IInv'
  <2> USE DEF Restart, asked
  <2>1. \A r \in Requests : pc'[r] = pc[r] \/ pc'[r] = "done"
    BY <1>8
  <2>2. NoDuplicateOpenOrder' /\ NoOrderWithoutApproval'
        /\ UncommittedStaysOpen' /\ OpenOrderTraceable'
    BY <1>8, <2>1
  <2>3. VerdictMatchesStatus' /\ RecordsTruthful'
    BY <1>8
  <2>3a. DecisionsLegal'
    BY <1>8, <2>1
  <2>4. LoggedAfterCommit'
    BY <1>8, <2>1
  <2>5. IdsPublished'
    <3>1. \A b \in Requests : pc[b] \in {"log", "done"} => pc'[b] = "done"
      BY <1>8
    <3>2. \A row \in Row : row.brokerId \in Requests \cup {None}
      BY DEF Row
    <3>3. UNCHANGED <<rows, seen>>
      BY <1>8
    <3> QED BY <3>1, <3>2, <3>3
  <2>6. ReadOnlyIsInert' /\ GateHolds'
    BY <1>8, <2>1
  <2> QED BY <2>2, <2>3, <2>3a, <2>4, <2>5, <2>6
<1>9. ASSUME UNCHANGED vars PROVE IInv'
  BY <1>9 DEF vars
<1> QED
  BY <1>1, <1>2, <1>2a, <1>3, <1>3a, <1>4, <1>5, <1>6, <1>7, <1>8, <1>9
     DEF Next, Serve, Handle

\* The inductive invariant holds of every reachable state.
THEOREM Inductive == Spec => []IInv
<1>1. Init => IInv
  <2> SUFFICES ASSUME Init PROVE IInv
    OBVIOUS
  <2>1. TypeOK
    BY DEF Init, TypeOK, NewRow, Row, Statuses
  <2> QED
    BY <2>1 DEF Init, IInv, NewRow, NoDuplicateOpenOrder, NoOrderWithoutApproval,
       VerdictMatchesStatus, RecordsTruthful, DecisionsLegal,
       LoggedAfterCommit, IdsPublished, UncommittedStaysOpen,
       ReadOnlyIsInert, GateHolds, OpenOrderTraceable, OpenOrders
<1> QED BY <1>1, InvariantStep, PTL DEF Spec

\* Overlapping approvals never leave two open broker orders for one pair.
THEOREM NoDuplicates == Spec => []NoDuplicateOpenOrder
BY Inductive, PTL DEF IInv

\* Interleaved commits never mix the columns of two decisions.
THEOREM Verdicts == Spec => []VerdictMatchesStatus
BY Inductive, PTL DEF IInv

\* Stored ids and audit entries are about orders that were really placed.
THEOREM Truthful == Spec => []RecordsTruthful
BY Inductive, PTL DEF IInv

\* Only a request that decided SUBMITTED ever has an order at the broker, so
\* a rejected, failed or refused approval leaves nothing there.
THEOREM Approved == Spec => []NoOrderWithoutApproval
BY Inductive, PTL DEF IInv

\* When no commit fails, every open broker order can be traced to its row.
THEOREM Traceable ==
  ASSUME ~CommitsMayFail PROVE Spec => []OpenOrderTraceable
<1>1. IInv => OpenOrderTraceable
  BY DEF IInv
<1> QED BY <1>1, Inductive, PTL

\* The read-only gate keeps the order routes from changing anything.
THEOREM ReadOnlyInert == Spec => []ReadOnlyIsInert
BY Inductive, PTL DEF IInv

-----------------------------------------------------------------------------
\* Only DecidePlace puts an order on the book.
LEMMA PlacementSteps ==
  ASSUME TypeOK, [Next]_vars, NEW b \in Requests,
         book[b] = "ABSENT", book'[b] = "SUBMITTED"
  PROVE  DecidePlace(b)
<1> USE DEF TypeOK
<1>1. UNCHANGED vars => FALSE
  BY DEF vars
<1>2. ASSUME NEW e \in BOOLEAN, SetKillSwitch(e) PROVE FALSE
  BY <1>2 DEF SetKillSwitch
<1>3. Restart => FALSE
  BY DEF Restart
<1>4. ASSUME NEW r \in Requests, Handle(r) PROVE DecidePlace(b)
  <2>1. CASE DecidePlace(r)
    BY <2>1 DEF DecidePlace
  <2>2. CASE DecideCancel(r)
    BY <2>2 DEF DecideCancel
  <2>3. CASE UNCHANGED book
    BY <2>3
  <2> QED
    BY <1>4, <2>1, <2>2, <2>3
       DEF Handle, Load, Forbid, Refuse, DecideFail, DecideReject, Commit,
           Log, CommitFails
<1> QED BY <1>1, <1>2, <1>3, <1>4 DEF Next, Serve

\* The kill switch is looked at in the very step that places the order.
THEOREM KillSwitchTheorem == Spec => KillSwitchStopsPlacement
<1> DEFINE Guarded == \A b \in Requests :
      book[b] = "ABSENT" /\ book'[b] = "SUBMITTED" => ~killSwitch /\ ~killSwitch'
<1>1. TypeOK /\ [Next]_vars => [Guarded]_vars
  BY PlacementSteps DEF DecidePlace, Allowed
<1> QED BY <1>1, TypeCorrect, PTL DEF Spec, KillSwitchStopsPlacement

-----------------------------------------------------------------------------
\* Every step of the order routes is a step of BrokerBook or leaves it alone.
LEMMA StepRefines == IInv /\ [Next]_vars => [Abstract!Next]_(Abstract!vars)
<1> SUFFICES ASSUME IInv, [Next]_vars PROVE [Abstract!Next]_(Abstract!vars)
  OBVIOUS
<1> TypeOK /\ NoOrderWithoutApproval
  BY DEF IInv
<1> DEFINE Live == {LiveOrder(b) : b \in Open}
<1> USE DEF Abstract!vars, TypeOK, Open, LiveOrder, Target
<1>1. ASSUME UNCHANGED <<request, book, killSwitch>>
      PROVE UNCHANGED Abstract!vars
  BY <1>1
<1>2. ASSUME NEW e \in BOOLEAN, SetKillSwitch(e)
      PROVE Abstract!SetKillSwitch
  BY <1>2 DEF SetKillSwitch, Abstract!SetKillSwitch, asked
<1>3. ASSUME Restart PROVE Abstract!Forget
  BY <1>3 DEF Restart, Abstract!Forget
<1>4. ASSUME NEW r \in Requests, DecidePlace(r)
      PROVE Abstract!Place(r, KeyOf[Target(r)])
  <2>1. r \notin Open
    BY <1>4 DEF DecidePlace, Approving, NoOrderWithoutApproval
  <2>2. Open' = Open \cup {r}
    BY <1>4 DEF DecidePlace
  <2>3. Live' = Live \cup {LiveOrder(r)}
    BY <1>4, <2>2 DEF DecidePlace, asked
  <2>4. \A x \in Live : x.id # r /\ x.key # KeyOf[Target(r)]
    BY <1>4, <2>1 DEF DecidePlace, Allowed, DuplicateOpenOrder, OpenOrders
  <2> QED
    BY <1>4, <2>3, <2>4 DEF DecidePlace, Abstract!Place, Allowed
<1>5. ASSUME NEW r \in Requests, DecideCancel(r)
      PROVE \/ \E x \in Live : Abstract!Close(x)
            \/ UNCHANGED Abstract!vars
  <2> DEFINE b == seen[r].brokerId
  <2>1. Open' = Open \ {b}
    BY <1>5 DEF DecideCancel
  <2>2. UNCHANGED <<request, killSwitch>>
    BY <1>5 DEF DecideCancel, asked
  <2>3. CASE b \in Open
    <3>1. Live' = Live \ {LiveOrder(b)}
      BY <2>1, <2>2
    <3> QED BY <2>2, <2>3, <3>1 DEF Abstract!Close
  <2>4. CASE b \notin Open
    BY <2>1, <2>2, <2>4
  <2> QED BY <2>3, <2>4
<1>6. ASSUME NEW r \in Requests, Handle(r), ~DecidePlace(r), ~DecideCancel(r)
      PROVE UNCHANGED <<request, book, killSwitch>>
  BY <1>6 DEF Handle, Load, Forbid, Refuse, DecideFail, DecideReject,
              Commit, Log, CommitFails, asked
<1>7. UNCHANGED vars => UNCHANGED <<request, book, killSwitch>>
  BY DEF vars
<1>8. \A r \in Requests : KeyOf[Target(r)] \in Keys
  OBVIOUS
<1>9. ASSUME NEW r \in Requests, Handle(r)
      PROVE [Abstract!Next]_(Abstract!vars)
  <2>1. CASE DecidePlace(r)
    <3>1. Abstract!Place(r, KeyOf[Target(r)])
      BY <2>1, <1>4
    <3> HIDE DEF Live, Open, LiveOrder, TypeOK
    <3>2. \E k \in Keys : Abstract!Place(r, k)
      BY <3>1, <1>8 DEF Abstract!Place
    <3> QED BY <3>2 DEF Abstract!Next
  <2>2. CASE DecideCancel(r)
    BY <2>2, <1>5 DEF Abstract!Next
  <2> QED BY <2>1, <2>2, <1>1, <1>6, <1>9
<1>10. ASSUME NEW e \in BOOLEAN, SetKillSwitch(e) PROVE Abstract!Next
  BY <1>2, <1>10 DEF Abstract!Next
<1> QED
  BY <1>1, <1>3, <1>7, <1>9, <1>10 DEF Next, Serve, Abstract!Next

\* The order routes implement the one-open-order-per-pair broker book.
THEOREM Refinement == Spec => ImplementsBrokerBook
<1>1. Init => Abstract!Init
  BY DEF Init, Abstract!Init, Open
<1> QED
  BY <1>1, StepRefines, Inductive, PTL
     DEF Spec, ImplementsBrokerBook, Abstract!Spec
-----------------------------------------------------------------------------
(***************************************************************************)
(* One handler at a time for each row                                      *)
(*                                                                         *)
(* Run order_stale_pending shows an order placed for a row that is no      *)
(* longer PENDING.  What it takes is two handlers of one row at the same   *)
(* time: without that the row a handler acts on is the row it has read.    *)
(***************************************************************************)
UnderWay(r) == pc[r] \notin {"new", "done"}

\* Requests about different rows may overlap as they like.
Serial ==
    \A a, b \in Requests :
        UnderWay(a) /\ UnderWay(b) /\ Target(a) = Target(b) => a = b

\* What a handler has read is what the table still says, and what it has
\* decided is a move that this status allows.
ReadCurrent(r) ==
    /\ pc[r] \in {"loaded", "commit"} => seen[r].status = rows[Target(r)].status
    /\ pc[r] = "commit" =>
           /\ seen[r].status # "CANCELLED"
           /\ outcome[r] # "CANCELLED" => seen[r].status = "PENDING"

ReadIsCurrent == \A r \in Requests : ReadCurrent(r)

\* An order leaves PENDING for any other status, every other status for
\* CANCELLED only, and CANCELLED never.
StatusOnlyAdvances ==
    [][\A o \in Orders : rows'[o].status # rows[o].status =>
          /\ rows[o].status # "CANCELLED"
          /\ rows[o].status = "PENDING" \/ rows'[o].status = "CANCELLED"]_vars

LEMMA ReadStep == TypeOK /\ Serial /\ ReadIsCurrent /\ [Next]_vars => ReadIsCurrent'
<1> SUFFICES ASSUME TypeOK, Serial, ReadIsCurrent, [Next]_vars, NEW q \in Requests
             PROVE  ReadCurrent(q)'
  BY DEF ReadIsCurrent
<1>0. ReadCurrent(q)  BY DEF ReadIsCurrent
<1> USE DEF TypeOK, Target, ReadCurrent
<1>1. ASSUME NEW r \in Requests, Handle(r), r # q, Commit(r) PROVE ReadCurrent(q)'
  <2>1. /\ pc'[q] = pc[q] /\ UNCHANGED <<request, seen, outcome>>
        /\ rows' = [rows EXCEPT ![Target(r)] = Written(rows[Target(r)], r)]
    BY <1>1 DEF Commit, Goto, asked
  <2>2. CASE Target(q) = Target(r)
    <3>1. ~UnderWay(q)  BY <1>1, <2>2 DEF Serial, UnderWay, Commit
    <3> QED BY <2>1, <3>1 DEF UnderWay
  <2>3. CASE Target(q) # Target(r)
    BY <1>0, <2>1, <2>3
  <2> QED BY <2>2, <2>3
<1>2. ASSUME NEW r \in Requests, Handle(r), r # q, ~Commit(r) PROVE ReadCurrent(q)'
  <2>1. /\ pc'[q] = pc[q] /\ seen'[q] = seen[q] /\ outcome'[q] = outcome[q]
        /\ rows' = rows /\ request' = request
    BY <1>2 DEF Handle, Load, Forbid, Refuse, DecidePlace, DecideFail, DecideReject,
                DecideCancel, Log, CommitFails, Decided, Goto, asked
  <2> QED BY <1>0, <2>1
<1>3. ASSUME Handle(q) PROVE ReadCurrent(q)'
  <2>1. CASE Load(q)
    BY <2>1 DEF Load, Goto, asked
  <2>2. CASE DecidePlace(q) \/ DecideFail(q) \/ DecideReject(q)
    <3>1. /\ pc[q] = "loaded" /\ seen[q].status = "PENDING"
          /\ pc'[q] = "commit" /\ UNCHANGED <<request, seen, rows>>
      BY <2>2 DEF DecidePlace, DecideFail, DecideReject, Approving, Decided, Goto, asked
    <3> QED BY <1>0, <3>1
  <2>3. CASE DecideCancel(q)
    <3>1. /\ pc[q] = "loaded" /\ seen[q].status # "CANCELLED"
          /\ outcome'[q] = "CANCELLED"
          /\ pc'[q] = "commit" /\ UNCHANGED <<request, seen, rows>>
      BY <2>3 DEF DecideCancel, Decided, Goto, asked
    <3> QED BY <1>0, <3>1
  <2>4. CASE Forbid(q) \/ Refuse(q) \/ Commit(q) \/ Log(q) \/ CommitFails(q)
    <3>1. pc'[q] \in {"log", "done"}
      BY <2>4 DEF Forbid, Refuse, Commit, Log, CommitFails, Goto
    <3> QED BY <3>1
  <2> QED BY <1>3, <2>1, <2>2, <2>3, <2>4 DEF Handle
<1>4. ASSUME NEW e \in BOOLEAN, SetKillSwitch(e) PROVE ReadCurrent(q)'
  BY <1>0, <1>4 DEF SetKillSwitch, asked
<1>5. CASE Restart
  BY <1>5 DEF Restart
<1>6. CASE UNCHANGED vars
  BY <1>0, <1>6 DEF vars
<1> QED BY <1>1, <1>2, <1>3, <1>4, <1>5, <1>6 DEF Next, Serve

LEMMA AlwaysCurrent == Spec /\ []Serial => []ReadIsCurrent
<1>1. Init => ReadIsCurrent  BY DEF Init, ReadIsCurrent, ReadCurrent
<1> QED BY <1>1, ReadStep, TypeCorrect, PTL DEF Spec

\* An order goes to the broker only while its row says PENDING.
THEOREM PlacedWhilePending == Spec /\ []Serial => PlacedOnlyWhilePending
<1>1. ASSUME TypeOK, ReadIsCurrent, [Next]_vars, NEW b \in Requests,
             book[b] = "ABSENT", book'[b] = "SUBMITTED"
      PROVE  rows[Target(b)].status = "PENDING"
  <2>1. DecidePlace(b)  BY <1>1, PlacementSteps
  <2> QED BY <1>1, <2>1 DEF DecidePlace, Approving, ReadIsCurrent, ReadCurrent
<1>2. TypeOK /\ ReadIsCurrent /\ [Next]_vars =>
        [\A b \in Requests : book[b] = "ABSENT" /\ book'[b] = "SUBMITTED" =>
            rows[Target(b)].status = "PENDING"]_vars
  BY <1>1
<1> QED BY <1>2, TypeCorrect, AlwaysCurrent, PTL DEF Spec, PlacedOnlyWhilePending

\* The status of an order only advances, and a cancelled order stays so.
THEOREM StatusAdvances == Spec /\ []Serial => StatusOnlyAdvances
<1> DEFINE Advances ==
      \A o \in Orders : rows'[o].status # rows[o].status =>
          /\ rows[o].status # "CANCELLED"
          /\ rows[o].status = "PENDING" \/ rows'[o].status = "CANCELLED"
<1>1. ASSUME TypeOK, ReadIsCurrent, NEW r \in Requests, Commit(r) PROVE Advances
  <2>1. /\ pc[r] = "commit"
        /\ rows' = [rows EXCEPT ![Target(r)] = Written(rows[Target(r)], r)]
    BY <1>1 DEF Commit
  <2>2. /\ rows[Target(r)].status # "CANCELLED"
        /\ outcome[r] # "CANCELLED" => rows[Target(r)].status = "PENDING"
    BY <1>1, <2>1 DEF ReadIsCurrent, ReadCurrent
  <2>3. /\ rows'[Target(r)].status = outcome[r]
        /\ \A o \in Orders : o # Target(r) => rows'[o] = rows[o]
    BY <1>1, <2>1 DEF Written, TypeOK, Target
  <2> QED BY <2>2, <2>3
<1>2. ASSUME [Next]_vars, ~\E r \in Requests : Commit(r) PROVE rows' = rows
  BY <1>2 DEF Next, Serve, Handle, Load, Forbid, Refuse, DecidePlace, DecideFail,
       DecideReject, DecideCancel, Log, CommitFails, SetKillSwitch, Restart, vars
<1>3. TypeOK /\ ReadIsCurrent /\ [Next]_vars => [Advances]_vars
  BY <1>1, <1>2
<1> QED BY <1>3, TypeCorrect, AlwaysCurrent, PTL DEF Spec, StatusOnlyAdvances

(***************************************************************************)
(* Progress: how far a handler can go is no matter of fairness.            *)
(***************************************************************************)
\* How far a handler has come; it has four steps at most.
Stage(label) == CASE label = "new" -> 0 [] label = "loaded" -> 1
                  [] label = "commit" -> 2 [] label = "log" -> 3 [] OTHER -> 4

\* Each step of a handler takes its request forward and leaves the others
\* where they are; nothing, a restart included, takes a request back.
HandlersGoForward ==
    [][\A r \in Requests :
          /\ Stage(pc'[r]) >= Stage(pc[r])
          /\ Handle(r) => /\ Stage(pc'[r]) > Stage(pc[r])
                          /\ \A q \in Requests \ {r} : pc'[q] = pc[q]]_vars

LEMMA HandleForward ==
    ASSUME TypeOK, NEW r \in Requests, Handle(r)
    PROVE  /\ Stage(pc'[r]) > Stage(pc[r])
           /\ \A q \in Requests \ {r} : pc'[q] = pc[q]
<1>1. \A label : pc' = [pc EXCEPT ![r] = label] =>
          /\ pc'[r] = label
          /\ \A q \in Requests \ {r} : pc'[q] = pc[q]
  BY DEF TypeOK
<1>2. \/ pc[r] = "new" /\ (Goto(r, "loaded") \/ Goto(r, "done"))
      \/ pc[r] = "loaded" /\ (Goto(r, "commit") \/ Goto(r, "done"))
      \/ pc[r] = "commit" /\ (Goto(r, "log") \/ Goto(r, "done"))
      \/ pc[r] = "log" /\ Goto(r, "done")
  BY DEF Handle, Load, Forbid, Refuse, DecidePlace, DecideFail, DecideReject,
       DecideCancel, Approving, Decided, Commit, Log, CommitFails
<1>3. /\ Stage("new") = 0 /\ Stage("loaded") = 1 /\ Stage("commit") = 2
      /\ Stage("log") = 3 /\ Stage("done") = 4
  BY DEF Stage
<1> QED BY <1>1, <1>2, <1>3 DEF Goto

\* A handler is over after four steps of its own, whatever happens between
\* them (approve_order, cancel_existing_order: no loop, no retry).
THEOREM GoForward == Spec => HandlersGoForward
<1> DEFINE Forward ==
      \A r \in Requests :
          /\ Stage(pc'[r]) >= Stage(pc[r])
          /\ Handle(r) => /\ Stage(pc'[r]) > Stage(pc[r])
                          /\ \A q \in Requests \ {r} : pc'[q] = pc[q]
<1>1. ASSUME TypeOK, [Next]_vars PROVE Forward
  <2> SUFFICES ASSUME NEW q \in Requests PROVE Stage(pc'[q]) >= Stage(pc[q])
    BY <1>1, HandleForward
  <2>1. \A label : Stage(label) \in 0..4  BY DEF Stage
  <2>2. ASSUME NEW r \in Requests, Handle(r) PROVE Stage(pc'[q]) >= Stage(pc[q])
    <3>1. /\ Stage(pc'[r]) > Stage(pc[r])
          /\ \A p \in Requests \ {r} : pc'[p] = pc[p]
      BY <1>1, <2>2, HandleForward
    <3> QED BY <2>1, <3>1
  <2>3. CASE Restart
    <3>1. pc'[q] = pc[q] \/ pc'[q] = "done"  BY <2>3 DEF Restart
    <3>2. Stage("done") = 4  BY DEF Stage
    <3> QED BY <2>1, <3>1, <3>2
  <2>4. CASE pc' = pc
    <3>1. Stage(pc'[q]) = Stage(pc[q])  BY <2>4
    <3> QED BY <2>1, <3>1
  <2>5. ASSUME NEW e \in BOOLEAN, SetKillSwitch(e) PROVE pc' = pc
    BY <2>5 DEF SetKillSwitch
  <2> QED BY <1>1, <2>2, <2>3, <2>4, <2>5 DEF Next, Serve, vars
<1>2. TypeOK /\ [Next]_vars => [Forward]_vars  BY <1>1
<1> QED BY <1>2, TypeCorrect, PTL DEF Spec, HandlersGoForward

\* A steady server is one of the behaviours every theorem here is about.
THEOREM SteadyIsSpec == SteadySpec => Spec
<1>1. [Serve]_vars => [Next]_vars  BY DEF Next
<1> QED BY <1>1, PTL DEF SteadySpec, Spec
=============================================================================
