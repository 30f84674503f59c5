----------------------- MODULE PositionGuidanceProofs -----------------------
(***************************************************************************)
(* Proofs about PositionGuidance for every set of runs, cleanups, symbols  *)
(* and prices: one write lock is enough for the highs to be monotone and   *)
(* to cover the stored signals; while OpenD can be reached the cleanup     *)
(* spares every holding.                                                   *)
(***************************************************************************)
EXTENDS PositionGuidance, FiniteSetTheorems, TLAPS

USE PricesAssumption, TasksAssumption, FlagsAssumption

\* The larger of two prices is a price, and at least each of them.
LEMMA LargerFacts ==
  ASSUME NEW a \in Prices \cup {0}, NEW b \in Prices \cup {0}
  PROVE  /\ Larger(a, b) \in Prices \cup {0}
         /\ Larger(a, b) >= a /\ Larger(a, b) >= b
BY DEF Larger

-----------------------------------------------------------------------------
\* The values the program stores have their types, initially
LEMMA InitType == Init => TypeOK
<1> SUFFICES ASSUME Init PROVE TypeOK  OBVIOUS
<1>1. high \in [Symbols -> Prices \cup {0}]  BY DEF Init
<1>2. cleanup \in [Cleanups -> Cleaner]
  BY DEF Init, Idle, Cleaner
<1>3. draft \in [Runs -> [Symbols -> Prices \cup {0}]]  BY <1>1 DEF Init
<1>4. runs \in [Runs -> Statuses]  BY DEF Init, Statuses
<1>5. staged \in [Runs -> SUBSET Signal]  BY DEF Init
<1> QED BY <1>1, <1>2, <1>3, <1>4, <1>5 DEF Init, TypeOK

\* ... and after Persist, the step that builds values.
LEMMA PersistType ==
  ASSUME TypeOK, NEW r \in Runs, NEW s \in Symbols, NEW kind \in Kinds,
         NEW price \in Prices \cup {0}, Persist(r, s, kind, price)
  PROVE  TypeOK'
<1> DEFINE top == Larger(peak[s], price)
<1> USE DEF TypeOK
<1>1. top \in Prices \cup {0} /\ Larger(draft[r][s], price) \in Prices \cup {0}
  <2>1. peak[s] \in Prices \cup {0} /\ draft[r][s] \in Prices \cup {0}  OBVIOUS
  <2> QED BY <2>1, LargerFacts
<1>2. [run |-> r, symbol |-> s, kind |-> kind, price |-> price, peak |-> top] \in Signal
  BY <1>1 DEF Signal
<1> HIDE DEF top
<1>3. staged' \in [Runs -> SUBSET Signal]
  BY <1>2 DEF Persist, top
<1>4. peak' \in [Symbols -> Prices \cup {0}] /\ todo' \in [Runs -> SUBSET Symbols]
  BY <1>1 DEF Persist, top
<1>5. draft' \in [Runs -> [Symbols -> Prices \cup {0}]]
  <2>1. draft' = [draft EXCEPT ![r] = [draft[r] EXCEPT ![s] = Larger(draft[r][s], price)]]
    BY DEF Persist
  <2>2. [draft[r] EXCEPT ![s] = Larger(draft[r][s], price)] \in [Symbols -> Prices \cup {0}]
    BY <1>1
  <2> QED BY <2>1, <2>2
<1> QED BY <1>3, <1>4, <1>5 DEF Persist, tables

\* Evaluating a position, well or badly, is a Persist of some kind and price.
LEMMA EvaluationPersists ==
  ASSUME NEW r \in Runs, NEW s \in Symbols, Evaluate(r, s) \/ EvaluateError(r, s)
  PROVE  \E kind \in Kinds, price \in Prices \cup {0} : Persist(r, s, kind, price)
<1>1. CASE Evaluate(r, s)
  <2>1. PICK p \in Prices :
           LET top == Larger(draft[r][s], p) IN
           Persist(r, s, IF DeepDrawdown(top, p) THEN "EXIT_POSITION" ELSE "GUIDANCE", p)
    BY <1>1 DEF Evaluate
  <2> DEFINE kind == IF DeepDrawdown(Larger(draft[r][s], p), p)
                     THEN "EXIT_POSITION" ELSE "GUIDANCE"
  <2>2. kind \in Kinds  BY Zenon DEF Kinds
  <2>3. Persist(r, s, kind, p)  BY <2>1, Zenon
  <2> HIDE DEF kind
  <2> QED BY <2>2, <2>3
<1>2. CASE EvaluateError(r, s)
  BY <1>2 DEF EvaluateError, Kinds
<1> QED BY <1>1, <1>2

\* ... and after every other step.
LEMMA StepType == TypeOK /\ [Next]_vars => TypeOK'
<1> SUFFICES ASSUME TypeOK, [Next]_vars PROVE TypeOK'  OBVIOUS
<1> USE DEF TypeOK
<1>1. ASSUME NEW r \in Runs, RunStep(r) PROVE TypeOK'
  <2>1. CASE \E s \in Symbols : Evaluate(r, s) \/ EvaluateError(r, s)
    BY <2>1, EvaluationPersists, PersistType
  <2>2. CASE Start(r)
    BY <2>2 DEF Start, Goto, account, tables
  <2>3. CASE StartLocked(r)
    BY <2>3 DEF StartLocked, Goto, account, tables, session
  <2>4. CASE ProfileMissing(r) \/ FetchRaises(r)
    BY <2>4 DEF ProfileMissing, FetchRaises, Goto, account, session, Statuses
  <2>5. CASE FetchPositions(r)
    BY <2>5 DEF FetchPositions, Goto, account, tables
  <2>6. CASE CommitSignals(r)
    BY <2>6 DEF CommitSignals, Goto, account, Statuses
  <2>7. CASE CommitCompleted(r) \/ CommitFailed(r)
    BY <2>7 DEF CommitCompleted, CommitFailed, Goto, account, session, Statuses
  <2>8. CASE RollBack(r)
    BY <2>8 DEF RollBack, Goto, account, tables
  <2>9. CASE GiveUp(r)
    BY <2>9 DEF GiveUp, Goto, account, tables, session
  <2>10. CASE \E s \in Symbols : EvaluateLost(r, s)
    BY <2>10 DEF EvaluateLost, account, tables
  <2> QED BY <1>1, <2>1, <2>2, <2>3, <2>4, <2>5, <2>6, <2>7, <2>8, <2>9, <2>10
          DEF RunStep
<1>2. ASSUME NEW d \in Cleanups, CleanupStep(d) PROVE TypeOK'
  <2> DEFINE c == cleanup[d]
  <2>0. c \in Cleaner  OBVIOUS
  <2>1. CASE CleanupFetch(d)
    <3>1. cleanup' = [cleanup EXCEPT ![d] = [c EXCEPT !.pc = "done"]]
          \/ cleanup' = [cleanup EXCEPT ![d] =
               [c EXCEPT !.pc = "fetched", !.truth = held,
                         !.active = IF reachable THEN held ELSE {}]]
      <4>1. CASE ~reachable /\ BrokerRaises
        BY <2>1, <4>1 DEF CleanupFetch
      <4>2. CASE ~(~reachable /\ BrokerRaises)
        BY <2>1, <4>2 DEF CleanupFetch
      <4> QED BY <4>1, <4>2
    <3>2. [c EXCEPT !.pc = "done"] \in Cleaner
          /\ [c EXCEPT !.pc = "fetched", !.truth = held,
                       !.active = IF reachable THEN held ELSE {}] \in Cleaner
      BY <2>0 DEF Cleaner
    <3>3. cleanup' \in [Cleanups -> Cleaner]  BY <3>1, <3>2
    <3> QED BY <3>3, <2>1 DEF CleanupFetch, account, tables, tasks, session
  <2>2. CASE CleanupRead(d)
    <3>1. [c EXCEPT !.pc = "read", !.seen = signals] \in Cleaner
      BY <2>0 DEF Cleaner
    <3>2. cleanup' = [cleanup EXCEPT ![d] = [c EXCEPT !.pc = "read", !.seen = signals]]
      BY <2>2 DEF CleanupRead, Cleaner
    <3>3. cleanup' \in [Cleanups -> Cleaner]  BY <3>1, <3>2
    <3> QED BY <3>3, <2>2 DEF CleanupRead, account, tables, tasks, session
  <2>3. CASE CleanupDelete(d) \/ CleanupSkip(d)
    <3>1. [c EXCEPT !.pc = "done"] \in Cleaner
      BY <2>0 DEF Cleaner
    <3>2. cleanup' = [cleanup EXCEPT ![d] = [c EXCEPT !.pc = "done"]]
      BY <2>3 DEF CleanupDelete, CleanupSkip
    <3>3. cleanup' \in [Cleanups -> Cleaner]  BY <3>1, <3>2
    <3>4. signals' \subseteq Signal
      BY <2>3 DEF CleanupDelete, CleanupSkip, tables
    <3> QED BY <3>3, <3>4, <2>3
            DEF CleanupDelete, CleanupSkip, account, tables, tasks, session
  <2> QED BY <1>2, <2>1, <2>2, <2>3 DEF CleanupStep
<1>3. CASE Account
  BY <1>3 DEF Account, Buy, Sell, FlipConnection, tables, tasks, session
<1>4. CASE Crash
  <2>1. pc' \in [Runs -> {"new", "started", "scanning", "saved", "broken", "done"}]
    BY <1>4 DEF Crash
  <2>2. cleanup' \in [Cleanups -> Cleaner]
    <3>1. Idle \in Cleaner  BY DEF Idle, Cleaner
    <3>2. \A d \in Cleanups : [cleanup[d] EXCEPT !.pc = "done"] \in Cleaner
      <4>1. \A c \in Cleaner : [c EXCEPT !.pc = "done"] \in Cleaner  BY DEF Cleaner
      <4> QED BY <4>1
    <3>3. cleanup' = [d \in Cleanups |->
            IF cleanup[d].pc = "new" THEN Idle ELSE [cleanup[d] EXCEPT !.pc = "done"]]
      BY <1>4 DEF Crash
    <3> HIDE DEF TypeOK
    <3> QED BY <3>1, <3>2, <3>3
  <2> QED BY <1>4, <2>1, <2>2 DEF Crash, account, tables
<1>5. CASE UNCHANGED vars
  BY <1>5 DEF vars, account, tables, tasks, session
<1> QED BY <1>1, <1>2, <1>3, <1>4, <1>5 DEF Next, Serve

-----------------------------------------------------------------------------
\* The lock is held exactly between Start and the first commit.
LEMMA StepLock == TypeOK /\ LockHeld /\ [Next]_vars => LockHeld'
<1> SUFFICES ASSUME TypeOK, LockHeld, [Next]_vars PROVE LockHeld'  OBVIOUS
<1> USE DEF LockHeld, TypeOK
<1>1. ASSUME NEW r \in Runs, RunStep(r) PROVE LockHeld'
  <2>1. CASE \E s \in Symbols : Evaluate(r, s) \/ EvaluateError(r, s)
    <3>1. UNCHANGED <<pc, writer>>
      BY <2>1, EvaluationPersists DEF Persist
    <3> QED BY <3>1
  <2>2. CASE Start(r)
    BY <2>2 DEF Start, Goto, Free
  <2>3. CASE StartLocked(r)
    BY <2>3 DEF StartLocked, Goto
  <2>4. CASE ProfileMissing(r) \/ FetchRaises(r)
    BY <2>4 DEF ProfileMissing, FetchRaises, Goto
  <2>5. CASE FetchPositions(r)
    BY <2>5 DEF FetchPositions, Goto
  <2>6. CASE CommitSignals(r)
    BY <2>6 DEF CommitSignals, Goto
  <2>7. CASE CommitCompleted(r) \/ CommitFailed(r)
    BY <2>7 DEF CommitCompleted, CommitFailed, Goto
  <2>8. CASE RollBack(r)
    BY <2>8 DEF RollBack, Goto
  <2>9. CASE GiveUp(r)
    BY <2>9 DEF GiveUp, Goto
  <2>10. CASE \E s \in Symbols : EvaluateLost(r, s)
    BY <2>10 DEF EvaluateLost
  <2> QED BY <1>1, <2>1, <2>2, <2>3, <2>4, <2>5, <2>6, <2>7, <2>8, <2>9, <2>10
          DEF RunStep
<1>2. ASSUME NEW d \in Cleanups, CleanupStep(d) PROVE LockHeld'
  BY <1>2 DEF CleanupStep, CleanupFetch, CleanupRead, CleanupDelete, CleanupSkip, tasks
<1>3. CASE Account
  BY <1>3 DEF Account, Buy, Sell, FlipConnection, tasks
<1>4. CASE Crash
  BY <1>4 DEF Crash
<1>5. CASE UNCHANGED vars
  BY <1>5 DEF vars, tasks
<1> QED BY <1>1, <1>2, <1>3, <1>4, <1>5 DEF Next, Serve

\* A session has signals only while its positions are evaluated.
LEMMA StepStaged ==
  TypeOK /\ StagedWhileScanning /\ [Next]_vars => StagedWhileScanning'
<1> SUFFICES ASSUME TypeOK, StagedWhileScanning, [Next]_vars
             PROVE  StagedWhileScanning'
  OBVIOUS
<1> USE DEF StagedWhileScanning, TypeOK
<1>1. ASSUME NEW r \in Runs, RunStep(r) PROVE StagedWhileScanning'
  <2>1. CASE \E s \in Symbols : Evaluate(r, s) \/ EvaluateError(r, s)
    <3>1. PICK s \in Symbols, kind \in Kinds, price \in Prices \cup {0} :
             Persist(r, s, kind, price)
      BY <2>1, EvaluationPersists
    <3>2. /\ pc[r] = "scanning" /\ pc' = pc
          /\ \A q \in Runs : q # r => staged'[q] = staged[q]
      BY <3>1 DEF Persist
    <3> QED BY <3>2
  <2>2. CASE Start(r) \/ StartLocked(r)
    BY <2>2 DEF Start, StartLocked, Goto, session
  <2>3. CASE ProfileMissing(r) \/ FetchRaises(r)
    BY <2>3 DEF ProfileMissing, FetchRaises, Goto, session
  <2>4. CASE FetchPositions(r)
    BY <2>4 DEF FetchPositions, Goto
  <2>5. CASE CommitSignals(r) \/ RollBack(r)
    BY <2>5 DEF CommitSignals, RollBack, Goto
  <2>6. CASE CommitCompleted(r) \/ CommitFailed(r) \/ GiveUp(r)
    BY <2>6 DEF CommitCompleted, CommitFailed, GiveUp, Goto, session
  <2>7. CASE \E s \in Symbols : EvaluateLost(r, s)
    BY <2>7 DEF EvaluateLost
  <2> QED BY <1>1, <2>1, <2>2, <2>3, <2>4, <2>5, <2>6, <2>7 DEF RunStep
<1>2. ASSUME NEW d \in Cleanups, CleanupStep(d) PROVE StagedWhileScanning'
  BY <1>2 DEF CleanupStep, CleanupFetch, CleanupRead, CleanupDelete, CleanupSkip,
              tasks, session
<1>3. CASE Account
  BY <1>3 DEF Account, Buy, Sell, FlipConnection, tasks, session
<1>4. CASE Crash
  BY <1>4 DEF Crash
<1>5. CASE UNCHANGED vars
  BY <1>5 DEF vars, tasks, session
<1> QED BY <1>1, <1>2, <1>3, <1>4, <1>5 DEF Next, Serve

\* What the holder of the lock has staged stays above what is stored, and the
\* stored highs above the stored signals.
LEMMA StepAbove == IInv /\ [Next]_vars => StagedAbove' /\ HighCoversSignals'
<1> SUFFICES ASSUME IInv, [Next]_vars PROVE StagedAbove' /\ HighCoversSignals'
  OBVIOUS
<1> USE DEF IInv
<1>q. UNCHANGED <<high, signals, writer, draft, staged>>
        => StagedAbove' /\ HighCoversSignals'
  BY DEF StagedAbove, HighCoversSignals
<1>n. /\ \A r \in Runs, s \in Symbols : draft[r][s] \in Nat /\ high[s] \in Nat
      /\ \A x \in signals : x.symbol \in Symbols /\ x.price \in Nat
      /\ \A r \in Runs : \A x \in staged[r] : x.symbol \in Symbols /\ x.price \in Nat
  <2>1. Prices \cup {0} \subseteq Nat  OBVIOUS
  <2>2. ASSUME NEW r \in Runs, NEW s \in Symbols PROVE draft[r][s] \in Nat /\ high[s] \in Nat
    <3>1. draft \in [Runs -> [Symbols -> Prices \cup {0}]]
          /\ high \in [Symbols -> Prices \cup {0}]
      BY DEF TypeOK
    <3>2. draft[r][s] \in Prices \cup {0} /\ high[s] \in Prices \cup {0}
      BY <3>1
    <3> QED BY <2>1, <3>2
  <2>3. \A x \in Signal : x.symbol \in Symbols /\ x.price \in Nat
    BY <2>1 DEF Signal
  <2> QED BY <2>2, <2>3 DEF TypeOK
<1>1. ASSUME NEW r \in Runs, RunStep(r) PROVE StagedAbove' /\ HighCoversSignals'
  <2>1. ASSUME NEW s \in Symbols, NEW kind \in Kinds, NEW price \in Prices \cup {0},
               Persist(r, s, kind, price)
        PROVE  StagedAbove' /\ HighCoversSignals'
    <3> DEFINE new == [run |-> r, symbol |-> s, kind |-> kind,
                       price |-> price, peak |-> Larger(peak[s], price)]
    <3>1. writer = r /\ UNCHANGED <<writer, high, signals>>
      BY <2>1 DEF Persist, LockHeld, TypeOK, tables
    <3>2. draft'[r] = [draft[r] EXCEPT ![s] = Larger(draft[r][s], price)]
      BY <2>1 DEF Persist, TypeOK
    <3>3. staged'[r] = staged[r] \cup {new} /\ new.symbol = s /\ new.price = price
      <4>1. staged' = [staged EXCEPT ![r] = staged[r] \cup {new}]
        BY <2>1 DEF Persist
      <4> QED BY <4>1 DEF TypeOK
    <3>4. Larger(draft[r][s], price) >= draft[r][s] /\ Larger(draft[r][s], price) >= price
          /\ Larger(draft[r][s], price) \in Nat /\ price \in Nat
      <4>1. draft[r][s] \in Prices \cup {0}  BY DEF TypeOK
      <4>2. /\ Larger(draft[r][s], price) \in Prices \cup {0}
            /\ Larger(draft[r][s], price) >= draft[r][s]
            /\ Larger(draft[r][s], price) >= price
        BY <4>1, LargerFacts
      <4>3. \A n \in Prices \cup {0} : n \in Nat  OBVIOUS
      <4> QED BY <4>2, <4>3
    <3> HIDE DEF new
    <3>5. \A t \in Symbols : draft'[r][t] >= draft[r][t] /\ draft'[r][t] \in Nat
      BY <3>2, <3>4, <1>n DEF TypeOK
    <3>6. draft'[r][s] >= price
      BY <3>2, <3>4 DEF TypeOK
    <3>7. \A t \in Symbols : draft'[r][t] >= high[t]
      BY <3>1, <3>5, <1>n DEF StagedAbove
    <3>8. \A x \in staged'[r] : x.price <= draft'[r][x.symbol]
      <4> SUFFICES ASSUME NEW x \in staged'[r] PROVE x.price <= draft'[r][x.symbol]
        OBVIOUS
      <4>1. CASE x \in staged[r]
        <5>1. x.price <= draft[r][x.symbol]  BY <4>1, <3>1 DEF StagedAbove
        <5> QED BY <5>1, <4>1, <3>5, <1>n
      <4>2. CASE x = new
        BY <4>2, <3>3, <3>4, <3>5, <3>6
      <4> QED BY <4>1, <4>2, <3>3
    <3>9. HighCoversSignals'  BY <3>1 DEF HighCoversSignals
    <3> QED BY <3>1, <3>7, <3>8, <3>9 DEF StagedAbove
  <2>2. CASE \E s \in Symbols : Evaluate(r, s) \/ EvaluateError(r, s)
    BY <2>1, <2>2, EvaluationPersists
  <2>3. CASE Start(r)
    <3>1. draft'[r] = high /\ staged' = staged /\ staged[r] = {}
      BY <2>3 DEF Start, TypeOK, StagedWhileScanning
    <3>2. writer' = r /\ UNCHANGED <<high, signals>>
      BY <2>3 DEF Start, tables
    <3> QED BY <3>1, <3>2, <1>n DEF StagedAbove, HighCoversSignals
  <2>4. CASE CommitSignals(r)
    <3>1. writer = r  BY <2>4 DEF CommitSignals, LockHeld
    <3>2. high' = draft[r] /\ signals' = signals \cup staged[r] /\ writer' = None
      BY <2>4 DEF CommitSignals
    <3>3. StagedAbove'  BY <3>2 DEF StagedAbove
    <3>4. ASSUME NEW x \in signals' PROVE x.price <= high'[x.symbol]
      <4>1. CASE x \in signals
        BY <4>1, <3>1, <3>2, <1>n DEF StagedAbove, HighCoversSignals
      <4>2. CASE x \in staged[r]
        BY <4>2, <3>1, <3>2 DEF StagedAbove
      <4> QED BY <4>1, <4>2, <3>2, <3>4
    <3> QED BY <3>3, <3>4 DEF HighCoversSignals
  <2>5. CASE RollBack(r)
    BY <2>5, <1>n DEF RollBack, tables, StagedAbove, HighCoversSignals, TypeOK
  <2>6. CASE ProfileMissing(r) \/ FetchRaises(r)
    BY <2>6 DEF ProfileMissing, FetchRaises, session, StagedAbove, HighCoversSignals
  <2>7. CASE FetchPositions(r)
    BY <2>7, <1>q DEF FetchPositions, tables
  <2>8. CASE StartLocked(r) \/ CommitCompleted(r) \/ CommitFailed(r) \/ GiveUp(r)
    BY <2>8, <1>q DEF StartLocked, CommitCompleted, CommitFailed, GiveUp, tables, session
  <2>9. CASE \E s \in Symbols : EvaluateLost(r, s)
    BY <2>9, <1>q DEF EvaluateLost, tables
  <2> QED BY <1>1, <2>2, <2>3, <2>4, <2>5, <2>6, <2>7, <2>8, <2>9 DEF RunStep
<1>2. ASSUME NEW d \in Cleanups, CleanupStep(d) PROVE StagedAbove' /\ HighCoversSignals'
  <2>1. CASE CleanupDelete(d)
    BY <2>1 DEF CleanupDelete, tasks, session, StagedAbove, HighCoversSignals
  <2>2. CASE CleanupFetch(d) \/ CleanupRead(d) \/ CleanupSkip(d)
    BY <2>2, <1>q DEF CleanupFetch, CleanupRead, CleanupSkip, tables, tasks, session
  <2> QED BY <1>2, <2>1, <2>2 DEF CleanupStep
<1>3. CASE Account
  BY <1>3, <1>q DEF Account, Buy, Sell, FlipConnection, tables, tasks, session
<1>4. CASE Crash
  BY <1>4 DEF Crash, tables, StagedAbove, HighCoversSignals
<1>5. CASE UNCHANGED vars
  BY <1>5, <1>q DEF vars, tables, tasks, session
<1> QED BY <1>1, <1>2, <1>3, <1>4, <1>5 DEF Next, Serve
-----------------------------------------------------------------------------
\* The strengthened invariant holds of every behaviour.
THEOREM Inductive == Spec => []IInv
<1>1. Init => IInv
  <2> SUFFICES ASSUME Init PROVE IInv  OBVIOUS
  <2>1. TypeOK  BY InitType
  <2>2. LockHeld /\ StagedWhileScanning  BY DEF Init, LockHeld, StagedWhileScanning
  <2>3. StagedAbove /\ HighCoversSignals  BY DEF Init, StagedAbove, HighCoversSignals
  <2> QED BY <2>1, <2>2, <2>3 DEF IInv
<1>2. IInv /\ [Next]_vars => IInv'
  BY StepType, StepLock, StepStaged, StepAbove DEF IInv
<1> QED BY <1>1, <1>2, PTL DEF Spec

\* The stored highs cover the stored signals: _persist_signal raises the high
\* of every price it stores, and the lock keeps other runs' highs out.
THEOREM HighsCover == Spec => []HighCoversSignals
BY Inductive, PTL DEF IInv

\* No step lowers a stored high: the only step that writes the highs, the
\* first commit, writes values at or above the ones stored.
THEOREM HighsRise == Spec => HighNeverFalls
<1>1. ASSUME IInv, [Next]_vars PROVE [\A s \in Symbols : high'[s] >= high[s]]_high
  <2>1. ASSUME NEW r \in Runs, RunStep(r)
        PROVE  high' = high \/ \A s \in Symbols : high'[s] >= high[s]
    <3>1. CASE CommitSignals(r)
      <4>1. writer = r /\ high' = draft[r]
        BY <1>1, <3>1 DEF CommitSignals, IInv, LockHeld
      <4> QED BY <1>1, <4>1 DEF IInv, StagedAbove
    <3>2. CASE \E s \in Symbols : Evaluate(r, s) \/ EvaluateError(r, s)
      BY <3>2, EvaluationPersists DEF Persist, tables
    <3>3. CASE Start(r) \/ StartLocked(r) \/ ProfileMissing(r) \/ FetchPositions(r)
               \/ FetchRaises(r) \/ CommitCompleted(r) \/ RollBack(r)
               \/ CommitFailed(r) \/ GiveUp(r)
      BY <3>3 DEF Start, StartLocked, ProfileMissing, FetchPositions, FetchRaises,
                  CommitCompleted, RollBack, CommitFailed, GiveUp, tables
    <3>4. CASE \E s \in Symbols : EvaluateLost(r, s)
      BY <3>4 DEF EvaluateLost, tables
    <3> QED BY <2>1, <3>1, <3>2, <3>3, <3>4 DEF RunStep
  <2>2. ASSUME NEW d \in Cleanups, CleanupStep(d) PROVE high' = high
    BY <2>2 DEF CleanupStep, CleanupFetch, CleanupRead, CleanupDelete, CleanupSkip, tables
  <2>3. CASE Account
    BY <2>3 DEF Account, Buy, Sell, FlipConnection, tables
  <2>4. CASE Crash \/ UNCHANGED vars
    BY <2>4 DEF Crash, vars, tables
  <2> QED BY <1>1, <2>1, <2>2, <2>3, <2>4 DEF Next, Serve
<1> QED BY <1>1, Inductive, PTL DEF Spec, HighNeverFalls

-----------------------------------------------------------------------------
\* What a cleanup took for the holdings when it asked is what was held.
AsksTruthfully == \A d \in Cleanups :
    cleanup[d].pc \in {"fetched", "read"} => cleanup[d].active = cleanup[d].truth

\* That holds of an adapter that raises when it cannot ask, and of one that can.
LEMMA StepTruthful ==
  TypeOK /\ (BrokerRaises \/ reachable) /\ AsksTruthfully /\ [Next]_vars => AsksTruthfully'
<1> SUFFICES ASSUME TypeOK, BrokerRaises \/ reachable, AsksTruthfully, [Next]_vars
             PROVE  AsksTruthfully'
  OBVIOUS
<1> USE DEF AsksTruthfully
<1>1. ASSUME NEW d \in Cleanups, CleanupStep(d) PROVE AsksTruthfully'
  <2>0. cleanup \in [Cleanups -> Cleaner] /\ cleanup[d] \in Cleaner
    BY DEF TypeOK
  <2>1. CASE CleanupFetch(d)
    <3>1. CASE ~reachable
      <4>1. cleanup' = [cleanup EXCEPT ![d].pc = "done"]
        BY <2>1, <3>1 DEF CleanupFetch
      <4> QED BY <4>1, <2>0 DEF Cleaner
    <3>2. CASE reachable
      <4>1. cleanup' = [cleanup EXCEPT ![d] =
               [cleanup[d] EXCEPT !.pc = "fetched", !.truth = held, !.active = held]]
        BY <2>1, <3>2 DEF CleanupFetch
      <4> QED BY <4>1, <2>0 DEF Cleaner
    <3> QED BY <3>1, <3>2
  <2>2. CASE CleanupRead(d)
    <3>1. cleanup' = [cleanup EXCEPT ![d] =
             [cleanup[d] EXCEPT !.pc = "read", !.seen = signals]]
      BY <2>2, <2>0 DEF CleanupRead, Cleaner
    <3> QED BY <3>1, <2>2, <2>0 DEF Cleaner, CleanupRead
  <2>3. CASE CleanupDelete(d) \/ CleanupSkip(d)
    BY <2>3, <2>0 DEF CleanupDelete, CleanupSkip, Cleaner
  <2> QED BY <1>1, <2>1, <2>2, <2>3 DEF CleanupStep
<1>2. CASE Crash
  BY <1>2 DEF Crash, Idle, TypeOK, Cleaner
<1>3. ASSUME UNCHANGED cleanup PROVE AsksTruthfully'
  BY <1>3
<1>4. ASSUME NEW r \in Runs, RunStep(r) PROVE UNCHANGED cleanup
  <2>1. CASE \E s \in Symbols : Evaluate(r, s) \/ EvaluateError(r, s)
    BY <2>1, EvaluationPersists DEF Persist
  <2>2. CASE ~\E s \in Symbols : Evaluate(r, s) \/ EvaluateError(r, s)
    BY <1>4, <2>2 DEF RunStep, EvaluateLost, Start, StartLocked, ProfileMissing,
         FetchPositions,
         FetchRaises, CommitSignals, CommitCompleted, RollBack, CommitFailed, GiveUp
  <2> QED BY <2>1, <2>2
<1>5. CASE Account \/ UNCHANGED vars
  BY <1>5 DEF Account, Buy, Sell, FlipConnection, vars
<1> QED BY <1>1, <1>2, <1>3, <1>4, <1>5 DEF Next, Serve

\* A delete of signals whose symbols were not held when their cleanup asked.
Spares ==
    \A x \in signals \ signals' :
       \E d \in Cleanups : /\ cleanup[d].pc = "read"
                           /\ x \in cleanup[d].seen
                           /\ x.symbol \notin cleanup[d].truth

LEMMA TruthfulSpares == AsksTruthfully /\ [Next]_vars => [Spares]_signals
<1> SUFFICES ASSUME AsksTruthfully, [Next]_vars PROVE [Spares]_signals  OBVIOUS
<1>1. ASSUME NEW r \in Runs, RunStep(r) PROVE signals \subseteq signals'
  <2>1. CASE \E s \in Symbols : Evaluate(r, s) \/ EvaluateError(r, s)
    BY <2>1, EvaluationPersists DEF Persist, tables
  <2>2. CASE ~\E s \in Symbols : Evaluate(r, s) \/ EvaluateError(r, s)
    BY <1>1, <2>2 DEF RunStep, EvaluateLost, Start, StartLocked, ProfileMissing,
         FetchPositions,
         FetchRaises, CommitSignals, CommitCompleted, RollBack, CommitFailed, GiveUp,
         tables
  <2> QED BY <2>1, <2>2
<1>2. ASSUME NEW d \in Cleanups, CleanupDelete(d) PROVE Spares
  BY <1>2 DEF CleanupDelete, Stale, AsksTruthfully, Spares
<1>3. ASSUME NEW d \in Cleanups, CleanupStep(d), ~CleanupDelete(d)
      PROVE  UNCHANGED signals
  BY <1>3 DEF CleanupStep, CleanupFetch, CleanupRead, CleanupSkip, tables
<1>4. CASE Account \/ Crash \/ UNCHANGED vars
  BY <1>4 DEF Account, Buy, Sell, FlipConnection, Crash, vars, tables
<1> QED BY <1>1, <1>2, <1>3, <1>4 DEF Next, Serve, Spares

\* The cleanup deletes only signals it read, of symbols that were not held
\* when it asked, while OpenD can be reached: the disagreement that the run
\* guidance_offline shows needs it to be away.
THEOREM CleanupSafeOnline == Spec /\ []reachable => CleanupSparesHoldings
<1>1. Init => AsksTruthfully  BY DEF Init, AsksTruthfully, Idle
<1>2. IInv => TypeOK  BY DEF IInv
<1>3. TypeOK /\ reachable /\ AsksTruthfully /\ [Next]_vars => AsksTruthfully'
  BY StepTruthful
<1> QED BY <1>1, <1>2, <1>3, TruthfulSpares, Inductive, PTL
        DEF Spec, CleanupSparesHoldings, Spares
-----------------------------------------------------------------------------
(***************************************************************************)
(* Batches                                                                 *)
(***************************************************************************)
SymbolsOf(S) == {x.symbol : x \in S}
OneEach(S) == \A x, y \in S : x.symbol = y.symbol => x = y
Storable(r) == scanned[r] \ lost[r]

\* What a run has staged, stored and still to do: while it scans, it has one
\* signal for every position it has gone through, but for those whose storing
\* failed; it stores all or nothing.
BatchOf(r) ==
    /\ \A x \in staged[r] : x.run = r
    /\ OneEach(staged[r]) /\ OneEach(Batch(r))
    /\ pc[r] \in {"new", "started", "scanning"} => Batch(r) = {} /\ runs[r] # "COMPLETED"
    /\ pc[r] \in {"new", "started"} => lost[r] = {}
    /\ pc[r] = "scanning" => /\ todo[r] \subseteq scanned[r] \ lost[r]
                             /\ SymbolsOf(staged[r]) = Storable(r) \ todo[r]
    /\ pc[r] = "saved" => SymbolsOf(Batch(r)) = Storable(r)
    /\ runs[r] = "COMPLETED" => SymbolsOf(Batch(r)) = Storable(r)
    /\ Batch(r) = {} \/ SymbolsOf(Batch(r)) = Storable(r)

\* As many signals as symbols, when there is one signal for each.
LEMMA OneEachCounts ==
  ASSUME NEW S, OneEach(S), IsFiniteSet(SymbolsOf(S))
  PROVE  Cardinality(S) = Cardinality(SymbolsOf(S))
<1> DEFINE f == [x \in S |-> x.symbol]
<1>1. f \in Injection(S, SymbolsOf(S))  BY DEF Injection, IsInjective, OneEach, SymbolsOf
<1>2. f \in Surjection(S, SymbolsOf(S))  BY DEF Surjection, SymbolsOf
<1> HIDE DEF f
<1> QED BY <1>1, <1>2, FS_Injection

\* A step that leaves a run's own state alone.
LEMMA BatchFrame ==
  ASSUME NEW r \in Runs, BatchOf(r), staged'[r] = staged[r], todo'[r] = todo[r],
         scanned'[r] = scanned[r], lost'[r] = lost[r],
         pc'[r] = pc[r], runs'[r] = runs[r],
         Batch(r)' = Batch(r)
  PROVE  BatchOf(r)'
BY DEF BatchOf, Storable

LEMMA SameBatches ==
  ASSUME issued' = issued PROVE \A r \in Runs : Batch(r)' = Batch(r)
BY DEF Batch

LEMMA StepBatch ==
  TypeOK /\ StagedWhileScanning /\ (\A r \in Runs : BatchOf(r)) /\ [Next]_vars
     => (\A r \in Runs : BatchOf(r))'
<1> SUFFICES ASSUME TypeOK, StagedWhileScanning, \A r \in Runs : BatchOf(r), [Next]_vars,
                    NEW q \in Runs
             PROVE  BatchOf(q)'
  OBVIOUS
<1>0. /\ pc \in [Runs -> {"new", "started", "scanning", "saved", "broken", "done"}]
      /\ runs \in [Runs -> Statuses]
      /\ todo \in [Runs -> SUBSET Symbols] /\ scanned \in [Runs -> SUBSET Symbols]
      /\ lost \in [Runs -> SUBSET Symbols]
      /\ staged \in [Runs -> SUBSET Signal]
  BY DEF TypeOK
<1>q. BatchOf(q)  OBVIOUS
<1>u. UNCHANGED <<issued, staged, todo, scanned, lost, pc, runs>> => BatchOf(q)'
  BY <1>q, BatchFrame, SameBatches
<1>1. ASSUME NEW r \in Runs, RunStep(r) PROVE BatchOf(q)'
  <2>r. BatchOf(r)  OBVIOUS
  <2>1. CASE \E s \in Symbols : Evaluate(r, s) \/ EvaluateError(r, s)
    <3>1. PICK s \in Symbols, kind \in Kinds, price \in Prices \cup {0} :
             Persist(r, s, kind, price)
      BY <2>1, EvaluationPersists
    <3> DEFINE new == [run |-> r, symbol |-> s, kind |-> kind,
                       price |-> price, peak |-> Larger(peak[s], price)]
    <3>2. /\ staged' = [staged EXCEPT ![r] = staged[r] \cup {new}]
          /\ todo' = [todo EXCEPT ![r] = todo[r] \ {s}]
          /\ UNCHANGED <<issued, scanned, lost, pc, runs>>
          /\ pc[r] = "scanning" /\ s \in todo[r]
      BY <3>1 DEF Persist, tables
    <3>3. new.run = r /\ new.symbol = s  OBVIOUS
    <3> HIDE DEF new
    <3>4. CASE q # r
      BY <3>2, <3>4, <1>0, <1>q, BatchFrame, SameBatches
    <3>5. CASE q = r
      <4>1. staged'[r] = staged[r] \cup {new} /\ todo'[r] = todo[r] \ {s}
        BY <3>2, <1>0
      <4>2. SymbolsOf(staged[r]) = Storable(r) \ todo[r] /\ todo[r] \subseteq Storable(r)
        BY <3>2, <2>r DEF BatchOf, Storable
      <4>3. \A x \in staged[r] : x.symbol # s
        BY <3>2, <4>2 DEF SymbolsOf
      <4>4. OneEach(staged'[r]) /\ \A x \in staged'[r] : x.run = r
        BY <2>r, <3>3, <4>1, <4>3 DEF BatchOf, OneEach
      <4>5. SymbolsOf(staged'[r]) = Storable(r) \ todo'[r]
        BY <3>2, <3>3, <4>1, <4>2 DEF SymbolsOf
      <4>6. Batch(r)' = Batch(r)  BY <3>2, SameBatches
      <4>7. OneEach(Batch(r)')  BY <2>r, <4>6 DEF BatchOf
      <4> QED BY <2>r, <3>2, <3>5, <4>1, <4>2, <4>4, <4>5, <4>6, <4>7
              DEF BatchOf, Storable
    <3> QED BY <3>4, <3>5
  <2>2. CASE CommitSignals(r)
    <3>1. /\ issued' = issued \cup staged[r]
          /\ staged' = [staged EXCEPT ![r] = {}]
          /\ runs' = [runs EXCEPT ![r] = "RUNNING"]
          /\ pc' = [pc EXCEPT ![r] = "saved"]
          /\ pc[r] = "scanning" /\ todo[r] = {}
          /\ UNCHANGED <<todo, scanned, lost>>
      BY <2>2 DEF CommitSignals, Goto
    <3>2. \A x \in staged[r] : x.run = r  BY <2>r DEF BatchOf
    <3>3. CASE q # r
      <4>1. Batch(q)' = Batch(q)  BY <3>1, <3>2, <3>3 DEF Batch
      <4> QED BY <3>1, <3>3, <4>1, <1>0, <1>q, BatchFrame
    <3>4. CASE q = r
      <4>1. Batch(r) = {} /\ SymbolsOf(staged[r]) = Storable(r) /\ OneEach(staged[r])
        BY <3>1, <2>r DEF BatchOf
      <4>2. Batch(r)' = staged[r]  BY <3>1, <3>2, <4>1 DEF Batch
      <4>3. /\ staged'[r] = {} /\ runs'[r] = "RUNNING" /\ pc'[r] = "saved"
            /\ Storable(r)' = Storable(r)
        BY <3>1, <1>0 DEF Storable
      <4> QED BY <3>4, <4>1, <4>2, <4>3 DEF BatchOf, OneEach
    <3> QED BY <3>3, <3>4
  <2>3. CASE Start(r) \/ StartLocked(r) \/ ProfileMissing(r) \/ FetchRaises(r)
             \/ CommitCompleted(r) \/ RollBack(r) \/ CommitFailed(r) \/ GiveUp(r)
    <3>1. UNCHANGED <<issued, todo, scanned, lost>>
      BY <2>3 DEF Start, StartLocked, ProfileMissing, FetchRaises, CommitCompleted,
                  RollBack, CommitFailed, GiveUp, tables, session
    <3>2. \/ /\ staged' = staged
             /\ Start(r) \/ StartLocked(r) \/ ProfileMissing(r) \/ FetchRaises(r)
                \/ CommitCompleted(r) \/ CommitFailed(r) \/ GiveUp(r)
          \/ staged' = [staged EXCEPT ![r] = {}] /\ RollBack(r)
      BY <2>3 DEF Start, StartLocked, ProfileMissing, FetchRaises, CommitCompleted,
                  RollBack, CommitFailed, GiveUp, session
    <3>3. \/ pc' = [pc EXCEPT ![r] = "started"] /\ runs' = runs /\ pc[r] = "new"
          \/ pc' = [pc EXCEPT ![r] = "done"] /\ runs' = runs
          \/ pc' = [pc EXCEPT ![r] = "broken"] /\ runs' = runs
          \/ pc' = [pc EXCEPT ![r] = "done"] /\ runs' = [runs EXCEPT ![r] = "FAILED"]
          \/ /\ pc' = [pc EXCEPT ![r] = "done"] /\ pc[r] = "saved"
             /\ runs' = [runs EXCEPT ![r] = "COMPLETED"]
      BY <2>3 DEF Start, StartLocked, ProfileMissing, FetchRaises, CommitCompleted,
                  RollBack, CommitFailed, GiveUp, tables, Goto
    <3>4. Batch(q)' = Batch(q)  BY <3>1, SameBatches
    <3>5. CASE q # r
      <4>1. staged'[q] = staged[q]  BY <3>2, <3>5, <1>0
      <4>2. pc'[q] = pc[q] /\ runs'[q] = runs[q]  BY <3>3, <3>5, <1>0
      <4> QED BY <3>1, <3>4, <4>1, <4>2, <1>q, BatchFrame
    <3>6. CASE q = r
      <4>1. staged'[r] \in {{}, staged[r]}  BY <3>2, <1>0
      <4>2. \/ pc'[r] = "started" /\ runs'[r] = runs[r] /\ pc[r] = "new"
            \/ pc'[r] \in {"done", "broken"} /\ runs'[r] \in {runs[r], "FAILED"}
            \/ pc'[r] = "done" /\ pc[r] = "saved" /\ runs'[r] = "COMPLETED"
        BY <3>3, <1>0
      <4>3. (\A x \in staged'[r] : x.run = r) /\ OneEach(staged'[r])
        BY <2>r, <4>1 DEF BatchOf, OneEach
      <4>4. OneEach(Batch(r)')  BY <2>r, <3>4, <3>6 DEF BatchOf
      <4>5. Storable(r)' = Storable(r)  BY <3>1 DEF Storable
      <4> QED BY <2>r, <3>1, <3>4, <3>6, <4>2, <4>3, <4>4, <4>5 DEF BatchOf
    <3> QED BY <3>5, <3>6
  <2>4. CASE FetchPositions(r)
    <3>1. PICK active : /\ todo' = [todo EXCEPT ![r] = active]
                        /\ scanned' = [scanned EXCEPT ![r] = active]
      BY <2>4 DEF FetchPositions
    <3>2. /\ pc[r] = "started" /\ pc' = [pc EXCEPT ![r] = "scanning"]
          /\ UNCHANGED <<issued, runs, lost, staged>>
      BY <2>4 DEF FetchPositions, Goto, tables
    <3>3. Batch(q)' = Batch(q)  BY <3>2, SameBatches
    <3>4. CASE q # r
      BY <3>1, <3>2, <3>3, <3>4, <1>0, <1>q, BatchFrame
    <3>5. CASE q = r
      <4>1. staged'[r] = {}  BY <3>2 DEF StagedWhileScanning
      <4>2. Batch(r)' = {} /\ runs'[r] # "COMPLETED"
        BY <2>r, <3>2, <3>3, <3>5 DEF BatchOf
      <4>3. todo'[r] = active /\ scanned'[r] = active /\ pc'[r] = "scanning"
            /\ lost'[r] = {}
        BY <3>1, <3>2, <1>0, <2>r DEF BatchOf
      <4> QED BY <3>5, <4>1, <4>2, <4>3 DEF BatchOf, OneEach, SymbolsOf, Storable
    <3> QED BY <3>4, <3>5
  <2>5. ASSUME NEW s \in Symbols, EvaluateLost(r, s) PROVE BatchOf(q)'
    <3>1. /\ todo' = [todo EXCEPT ![r] = todo[r] \ {s}]
          /\ lost' = [lost EXCEPT ![r] = lost[r] \cup {s}]
          /\ pc[r] = "scanning" /\ s \in todo[r]
          /\ UNCHANGED <<issued, scanned, staged, pc, runs>>
      BY <2>5 DEF EvaluateLost, tables
    <3>2. Batch(q)' = Batch(q)  BY <3>1, SameBatches
    <3>3. CASE q # r
      BY <3>1, <3>2, <3>3, <1>0, <1>q, BatchFrame
    <3>4. CASE q = r
      <4>1. todo'[r] = todo[r] \ {s} /\ lost'[r] = lost[r] \cup {s}  BY <3>1, <1>0
      <4>2. Storable(r)' \ todo'[r] = Storable(r) \ todo[r]
            /\ todo'[r] \subseteq scanned[r] \ lost'[r]
        BY <2>r, <3>1, <4>1 DEF BatchOf, Storable
      <4>3. Batch(r) = {} /\ runs[r] # "COMPLETED"  BY <2>r, <3>1 DEF BatchOf
      <4> QED BY <2>r, <3>1, <3>2, <3>4, <4>2, <4>3 DEF BatchOf
    <3> QED BY <3>3, <3>4
  <2> QED BY <1>1, <2>1, <2>2, <2>3, <2>4, <2>5 DEF RunStep
<1>2. ASSUME NEW d \in Cleanups, CleanupStep(d) PROVE BatchOf(q)'
  BY <1>2, <1>u DEF CleanupStep, CleanupFetch, CleanupRead, CleanupDelete, CleanupSkip,
                    tables, tasks, session
<1>3. CASE Account
  BY <1>3, <1>u DEF Account, Buy, Sell, FlipConnection, tables, tasks, session
<1>4. CASE Crash
  <2>1. staged'[q] = {} /\ pc'[q] \in {"new", "done"} /\ (pc'[q] = "new" => pc[q] = "new")
    BY <1>4 DEF Crash
  <2>2. UNCHANGED <<issued, runs, todo, scanned, lost>>  BY <1>4 DEF Crash, tables
  <2>3. Batch(q)' = Batch(q)  BY <2>2, SameBatches
  <2>4. OneEach(Batch(q)')  BY <1>q, <2>3 DEF BatchOf
  <2>5. Storable(q)' = Storable(q)  BY <2>2 DEF Storable
  <2> QED BY <1>q, <2>1, <2>2, <2>3, <2>4, <2>5 DEF BatchOf, OneEach
<1>5. CASE UNCHANGED vars
  BY <1>5, <1>u DEF vars, tables, tasks, session
<1> QED BY <1>1, <1>2, <1>3, <1>4, <1>5 DEF Next, Serve

\* A run stores one signal for every position it found, but for those whose
\* own storing failed, or none at all, and a COMPLETED run has stored them:
\* failing commits, time-outs and crashes leave no other gap.
THEOREM Batches == Spec => []BatchAtomic
<1>1. Init => \A r \in Runs : BatchOf(r)
  BY DEF Init, BatchOf, Batch, OneEach
<1>2. Spec => [](\A r \in Runs : BatchOf(r))
  <2>1. IInv /\ (\A r \in Runs : BatchOf(r)) /\ [Next]_vars => (\A r \in Runs : BatchOf(r))'
    BY StepBatch DEF IInv
  <2> QED BY <1>1, <2>1, Inductive, PTL DEF Spec
<1>3. TypeOK /\ (\A r \in Runs : BatchOf(r)) => BatchAtomic
  <2> SUFFICES ASSUME TypeOK, \A q \in Runs : BatchOf(q), NEW r \in Runs
               PROVE  /\ Batch(r) = {} \/ /\ SymbolsOf(Batch(r)) = Storable(r)
                                          /\ Cardinality(Batch(r)) = Cardinality(Storable(r))
                      /\ runs[r] = "COMPLETED" =>
                            /\ SymbolsOf(Batch(r)) = Storable(r)
                            /\ Cardinality(Batch(r)) = Cardinality(Storable(r))
    BY DEF BatchAtomic, SymbolsOf, Storable
  <2>1. IsFiniteSet(Storable(r))
    BY SymbolsAssumption, FS_Subset DEF TypeOK, Storable
  <2>2. SymbolsOf(Batch(r)) = Storable(r)
          => Cardinality(Batch(r)) = Cardinality(Storable(r))
    BY <2>1, OneEachCounts DEF BatchOf
  <2> QED BY <2>2 DEF BatchOf
<1>4. IInv => TypeOK  BY DEF IInv
<1> QED BY <1>2, <1>3, <1>4, Inductive, PTL
-----------------------------------------------------------------------------
(***************************************************************************)
(* The table of signals                                                    *)
(***************************************************************************)
Whole == \A r \in Runs : BatchOf(r)

\* Every step of a run, a cleanup or the process writes the table as
\* SignalTable allows, or leaves it alone.
LEMMA StepTable == IInv /\ Whole /\ [Next]_vars => [Table!Next]_(Table!vars)
<1> SUFFICES ASSUME IInv, Whole, [Next]_vars PROVE [Table!Next]_(Table!vars)
  OBVIOUS
<1> DEFINE Stored == {r \in Runs : Batch(r) # {}}
<1>0. StagedWhileScanning /\ staged \in [Runs -> SUBSET Signal]  BY DEF IInv, TypeOK
<1>1. ASSUME UNCHANGED <<signals, issued>> PROVE UNCHANGED Table!vars
  BY <1>1 DEF Table!vars, Batch
<1>2. ASSUME NEW r \in Runs, CommitSignals(r) PROVE [Table!Next]_(Table!vars)
  <2>1. /\ signals' = signals \cup staged[r] /\ issued' = issued \cup staged[r]
        /\ pc[r] = "scanning"
    BY <1>2 DEF CommitSignals
  <2>2. /\ \A x \in staged[r] : x.run = r
        /\ OneEach(staged[r]) /\ Batch(r) = {}
    BY <2>1 DEF Whole, BatchOf
  <2>3. CASE staged[r] = {}
    BY <1>1, <2>1, <2>3
  <2>4. CASE staged[r] # {}
    <3>1. Batch(r)' = staged[r]  BY <2>1, <2>2 DEF Batch
    <3>2. \A q \in Runs : q # r => Batch(q)' = Batch(q)  BY <2>1, <2>2 DEF Batch
    <3>3. Stored' = Stored \cup {r} /\ r \notin Stored  BY <2>2, <2>4, <3>1, <3>2
    <3>4. \A x \in signals' \ signals : x \in staged[r]  BY <2>1
    <3>5. Table!OneForEach(signals' \ signals)
      BY <2>2, <3>4 DEF Table!OneForEach, OneEach
    <3>6. Table!Store(r)
      BY <2>1, <2>2, <3>3, <3>4, <3>5 DEF Table!Store
    <3> QED BY <3>6 DEF Table!Next
  <2> QED BY <2>3, <2>4
<1>3. ASSUME NEW r \in Runs, RunStep(r), ~CommitSignals(r)
      PROVE  UNCHANGED <<signals, issued>>
  <2>1. CASE \E s \in Symbols : Evaluate(r, s) \/ EvaluateError(r, s)
    BY <2>1, EvaluationPersists DEF Persist, tables
  <2>2. CASE ~\E s \in Symbols : Evaluate(r, s) \/ EvaluateError(r, s)
    BY <1>3, <2>2 DEF RunStep, EvaluateLost, Start, StartLocked, ProfileMissing,
         FetchPositions,
         FetchRaises, CommitCompleted, RollBack, CommitFailed, GiveUp, tables
  <2> QED BY <2>1, <2>2
<1>4. ASSUME NEW d \in Cleanups, CleanupDelete(d) PROVE Table!Delete
  BY <1>4 DEF CleanupDelete, Table!Delete, Batch
<1>5. ASSUME NEW d \in Cleanups, CleanupStep(d), ~CleanupDelete(d)
      PROVE  UNCHANGED <<signals, issued>>
  BY <1>5 DEF CleanupStep, CleanupFetch, CleanupRead, CleanupSkip, tables
<1>6. Account \/ Crash \/ UNCHANGED vars => UNCHANGED <<signals, issued>>
  BY DEF Account, Buy, Sell, FlipConnection, Crash, vars, tables
<1> QED BY <1>1, <1>2, <1>3, <1>4, <1>5, <1>6 DEF Next, Serve, Table!Next

\* Guidance runs and cleanups, with everything that fails, implement the table.
THEOREM TableRefinement == Spec => ImplementsSignalTable
<1>1. Init => Table!Init  BY DEF Init, Table!Init, Batch
<1>2. Init => Whole
  BY DEF Init, Whole, BatchOf, Batch, OneEach
<1>3. IInv /\ Whole /\ [Next]_vars => Whole'
  BY StepBatch DEF IInv, Whole
<1>4. Spec => []Whole  BY <1>2, <1>3, Inductive, PTL DEF Spec
<1> QED BY <1>1, <1>4, StepTable, Inductive, PTL
        DEF Spec, ImplementsSignalTable, Table!Spec

\* ... so whoever reads the table never finds two signals of one run for a
\* symbol.
THEOREM OneSignalEach == Spec => []Table!Unambiguous
BY TableRefinement, Table!NoTwoSignals, PTL DEF ImplementsSignalTable
-----------------------------------------------------------------------------
(***************************************************************************)
(* Exits                                                                   *)
(*                                                                         *)
(* Run guidance_reopen shows an exit against the high of an earlier        *)
(* position.  What it takes is a symbol that is bought again after it has  *)
(* been priced: without that every stored high is one really seen.         *)
(***************************************************************************)
\* A symbol that has been priced is not bought again.
NoReopening == [][\A s \in held' \ held : peak[s] = 0]_vars

\* Nothing the program remembers of a symbol exceeds what it was seen at.
SeenHighs ==
    \A s \in Symbols : /\ high[s] <= peak[s]
                       /\ \A r \in Runs : draft[r][s] <= peak[s]

Justified(x) == x.kind = "EXIT_POSITION" => DeepDrawdown(x.peak, x.price)

\* Every exit, staged or stored, is justified.
Exits ==
    /\ SeenHighs
    /\ \A x \in signals : Justified(x)
    /\ \A r \in Runs : \A x \in staged[r] : Justified(x)

\* The higher the top, the deeper the drawdown.
LEMMA DeeperFromHigher ==
  ASSUME NEW low \in Nat, NEW top \in Nat, NEW price \in Nat, low <= top,
         DeepDrawdown(low, price)
  PROVE  DeepDrawdown(top, price)
<1>1. (low - price) * 100 >= 35 * low  BY DEF DeepDrawdown
<1>2. 65 * low >= 100 * price  BY <1>1
<1>3. 65 * top >= 100 * price  BY <1>2
<1>4. (top - price) * 100 >= 35 * top  BY <1>3
<1> QED BY <1>4 DEF DeepDrawdown

\* What Evaluate stages is justified when the draft is not above the peak.
LEMMA EvaluationJustified ==
  ASSUME TypeOK, SeenHighs, NEW r \in Runs, NEW s \in Symbols,
         Evaluate(r, s) \/ EvaluateError(r, s)
  PROVE  \E kind \in Kinds, price \in Prices \cup {0} :
            /\ Persist(r, s, kind, price)
            /\ kind = "EXIT_POSITION" => DeepDrawdown(Larger(peak[s], price), price)
<1>0. /\ draft[r][s] \in Prices \cup {0} /\ peak[s] \in Prices \cup {0}
      /\ draft[r][s] <= peak[s]
  BY DEF TypeOK, SeenHighs
<1>1. CASE Evaluate(r, s)
  <2>1. PICK p \in Prices :
           LET top == Larger(draft[r][s], p) IN
           Persist(r, s, IF DeepDrawdown(top, p) THEN "EXIT_POSITION" ELSE "GUIDANCE", p)
    BY <1>1 DEF Evaluate
  <2> DEFINE low == Larger(draft[r][s], p)
             top == Larger(peak[s], p)
  <2>2. low \in Nat /\ top \in Nat /\ p \in Nat /\ low <= top
    <3>1. \A n \in Prices \cup {0} : n \in Nat  BY PricesAssumption
    <3>2. draft[r][s] \in Nat /\ peak[s] \in Nat /\ p \in Nat
      <4> HIDE DEF low, top
      <4> QED BY <1>0, <3>1
    <3> QED BY <1>0, <3>2 DEF Larger
  <2>3. DeepDrawdown(low, p) => DeepDrawdown(top, p)
    <3> HIDE DEF low, top
    <3> QED BY <2>2, DeeperFromHigher
  <2>4. CASE DeepDrawdown(low, p)
    <3>1. Persist(r, s, "EXIT_POSITION", p)  BY <2>1, <2>4, Zenon
    <3> HIDE DEF low
    <3> QED BY <2>3, <2>4, <3>1 DEF Kinds
  <2>5. CASE ~DeepDrawdown(low, p)
    <3>1. Persist(r, s, "GUIDANCE", p)  BY <2>1, <2>5, Zenon
    <3> HIDE DEF low, top
    <3> QED BY <3>1 DEF Kinds
  <2> QED BY <2>4, <2>5
<1>2. CASE EvaluateError(r, s)
  BY <1>2 DEF EvaluateError, Kinds
<1> QED BY <1>1, <1>2

\* One evaluation keeps the highs below the peak and every exit justified.
LEMMA PersistExits ==
  ASSUME TypeOK, Exits, NEW r \in Runs, NEW s \in Symbols, NEW kind \in Kinds,
         NEW price \in Prices \cup {0}, Persist(r, s, kind, price),
         kind = "EXIT_POSITION" => DeepDrawdown(Larger(peak[s], price), price)
  PROVE  Exits'
<1> DEFINE top == Larger(peak[s], price)
           new == [run |-> r, symbol |-> s, kind |-> kind, price |-> price, peak |-> top]
<1>1. /\ peak' = [peak EXCEPT ![s] = top]
      /\ draft' = [draft EXCEPT ![r][s] = Larger(draft[r][s], price)]
      /\ staged' = [staged EXCEPT ![r] = staged[r] \cup {new}]
      /\ UNCHANGED <<high, signals>>
  BY DEF Persist, tables
<1>2. Justified(new)  BY DEF Justified
<1>3. /\ peak \in [Symbols -> Nat] /\ high \in [Symbols -> Nat] /\ price \in Nat
      /\ draft \in [Runs -> [Symbols -> Nat]] /\ staged \in [Runs -> SUBSET Signal]
  <2>1. \A n \in Prices \cup {0} : n \in Nat  BY PricesAssumption
  <2>2. \A f \in [Symbols -> Prices \cup {0}] : f \in [Symbols -> Nat]  BY <2>1
  <2>3. /\ peak \in [Symbols -> Prices \cup {0}] /\ high \in [Symbols -> Prices \cup {0}]
        /\ draft \in [Runs -> [Symbols -> Prices \cup {0}]]
        /\ staged \in [Runs -> SUBSET Signal]
    BY DEF TypeOK
  <2>4. draft \in [Runs -> [Symbols -> Nat]]  BY <2>2, <2>3
  <2> HIDE DEF top, new
  <2> QED BY <2>1, <2>2, <2>3, <2>4
<1>4. top \in Nat /\ top >= peak[s] /\ top >= price  BY <1>3 DEF Larger
<1>5. \A q \in Runs : draft[q][s] <= peak[s]  BY DEF Exits, SeenHighs
<1>6. Larger(draft[r][s], price) <= top  BY <1>3, <1>5 DEF Larger
<1> HIDE DEF top, new
<1>7. SeenHighs'
  <2> SUFFICES ASSUME NEW t \in Symbols
               PROVE  /\ high[t] <= peak'[t]
                      /\ \A q \in Runs : draft'[q][t] <= peak'[t]
    BY <1>1 DEF SeenHighs
  <2>1. CASE t # s
    <3>1. peak'[t] = peak[t] /\ \A q \in Runs : draft'[q][t] = draft[q][t]
      BY <1>1, <1>3, <2>1
    <3> QED BY <3>1 DEF Exits, SeenHighs
  <2>2. CASE t = s
    <3>1. peak'[s] = top /\ high[s] <= peak[s]  BY <1>1, <1>3 DEF Exits, SeenHighs
    <3>2. \A q \in Runs : draft'[q][s] \in {draft[q][s], Larger(draft[r][s], price)}
                          /\ (q # r => draft'[q][s] = draft[q][s])
      BY <1>1, <1>3
    <3>3. \A q \in Runs : draft[q][s] \in Nat /\ high[s] \in Nat /\ peak[s] \in Nat  BY <1>3
    <3>4. \A q \in Runs : draft[q][s] <= top  BY <1>4, <1>5, <3>3
    <3>5. high[s] <= top  BY <1>4, <3>1, <3>3
    <3>6. \A q \in Runs : draft'[q][s] <= top  BY <1>6, <3>2, <3>4
    <3> QED BY <2>2, <3>1, <3>5, <3>6
  <2> QED BY <2>1, <2>2
<1>8. \A x \in signals' : Justified(x)  BY <1>1 DEF Exits
<1>9. ASSUME NEW q \in Runs, NEW x \in staged'[q] PROVE Justified(x)
  <2>1. x \in staged[q] \/ x = new  BY <1>1, <1>3, <1>9
  <2> QED BY <1>2, <2>1 DEF Exits
<1> QED BY <1>7, <1>8, <1>9 DEF Exits, Justified

LEMMA StepExits ==
  ASSUME TypeOK, Exits, [Next]_vars, [\A s \in held' \ held : peak[s] = 0]_vars
  PROVE  Exits'
<1>0. /\ staged \in [Runs -> SUBSET Signal] /\ peak \in [Symbols -> Prices \cup {0}]
      /\ draft \in [Runs -> [Symbols -> Prices \cup {0}]]
  BY DEF TypeOK
<1>1. ASSUME peak' = peak, high' \in {high} \cup {draft[r] : r \in Runs},
             \A r \in Runs : draft'[r] \in {draft[r], high},
             \A r \in Runs : staged'[r] \subseteq staged[r],
             \A x \in signals' : x \in signals \/ \E r \in Runs : x \in staged[r]
      PROVE  Exits'
  <2>1. SeenHighs'  BY <1>1 DEF Exits, SeenHighs
  <2>2. \A x \in signals' : Justified(x)  BY <1>1 DEF Exits
  <2>3. \A r \in Runs : \A x \in staged'[r] : Justified(x)  BY <1>1 DEF Exits
  <2> QED BY <2>1, <2>2, <2>3 DEF Exits, Justified
<1>2. ASSUME NEW r \in Runs, RunStep(r) PROVE Exits'
  <2>1. CASE \E s \in Symbols : Evaluate(r, s) \/ EvaluateError(r, s)
    BY <2>1, EvaluationJustified, PersistExits DEF Exits
  <2>2. CASE Start(r)
    <3>1. UNCHANGED <<peak, high, signals, staged>> /\ draft' = [draft EXCEPT ![r] = high]
      BY <2>2 DEF Start, account, tables
    <3>2. \A q \in Runs : draft'[q] \in {draft[q], high}  BY <1>0, <3>1
    <3> QED BY <1>1, <3>1, <3>2
  <2>3. CASE CommitSignals(r)
    <3>1. /\ high' = draft[r] /\ signals' = signals \cup staged[r]
          /\ staged' = [staged EXCEPT ![r] = {}] /\ UNCHANGED <<peak, draft>>
      BY <2>3 DEF CommitSignals, account
    <3>2. \A q \in Runs : staged'[q] \subseteq staged[q]  BY <1>0, <3>1
    <3> QED BY <1>1, <3>1, <3>2
  <2>4. CASE RollBack(r)
    <3>1. staged' = [staged EXCEPT ![r] = {}] /\ UNCHANGED <<peak, high, signals, draft>>
      BY <2>4 DEF RollBack, account, tables
    <3>2. \A q \in Runs : staged'[q] \subseteq staged[q]  BY <1>0, <3>1
    <3> QED BY <1>1, <3>1, <3>2
  <2>5. CASE StartLocked(r) \/ ProfileMissing(r) \/ FetchPositions(r) \/ FetchRaises(r)
             \/ CommitCompleted(r) \/ CommitFailed(r) \/ GiveUp(r)
             \/ \E s \in Symbols : EvaluateLost(r, s)
    <3>1. UNCHANGED <<peak, high, signals, draft, staged>>
      BY <2>5 DEF StartLocked, EvaluateLost, ProfileMissing, FetchPositions, FetchRaises,
                  CommitCompleted, CommitFailed, GiveUp, account, tables, session
    <3> QED BY <1>1, <3>1
  <2> QED BY <1>2, <2>1, <2>2, <2>3, <2>4, <2>5 DEF RunStep
<1>3. ASSUME NEW d \in Cleanups, CleanupStep(d) PROVE Exits'
  <2>1. UNCHANGED <<peak, high, draft, staged>> /\ signals' \subseteq signals
    BY <1>3 DEF CleanupStep, CleanupFetch, CleanupRead, CleanupDelete, CleanupSkip,
                account, tables, tasks, session
  <2> QED BY <1>1, <2>1
<1>4. CASE Account
  <2>1. UNCHANGED <<high, signals, draft, staged>>
    BY <1>4 DEF Account, Buy, Sell, FlipConnection, tables, tasks, session
  <2>2. peak' = peak
    <3>1. ASSUME NEW s \in Symbols, Buy(s) PROVE peak' = peak
      <4>1. held' # held /\ s \in held' \ held  BY <3>1 DEF Buy
      <4>2. peak[s] = 0  BY <4>1 DEF vars, account
      <4> QED BY <1>0, <3>1, <4>2 DEF Buy
    <3> QED BY <1>4, <3>1 DEF Account, Sell, FlipConnection
  <2> QED BY <1>1, <2>1, <2>2
<1>5. CASE Crash \/ UNCHANGED vars
  <2>1. /\ UNCHANGED <<peak, high, signals, draft>>
        /\ \A r \in Runs : staged'[r] \subseteq staged[r]
    BY <1>5 DEF Crash, vars, account, tables, tasks, session
  <2> QED BY <1>1, <2>1
<1> QED BY <1>2, <1>3, <1>4, <1>5 DEF Next, Serve

\* An account that does not buy a priced symbol again gets an exit only after
\* a price that has really fallen that far since the position was opened.
THEOREM RealExits == Spec /\ NoReopening => []ExitAfterRealDrawdown
<1>1. Init => Exits
  BY DEF Init, Exits, SeenHighs
<1>2. Spec => []TypeOK  BY Inductive, PTL DEF IInv
<1>3. TypeOK /\ Exits /\ [Next]_vars /\ [\A s \in held' \ held : peak[s] = 0]_vars
        => Exits'
  BY StepExits
<1>4. Exits => ExitAfterRealDrawdown  BY DEF Exits, Justified, ExitAfterRealDrawdown
<1> QED BY <1>1, <1>2, <1>3, <1>4, PTL DEF Spec, NoReopening

-----------------------------------------------------------------------------
(***************************************************************************)
(* Progress: what of RunsAnswered and RunsSettle is no matter of fairness. *)
(***************************************************************************)
\* How far a run has come.
Stage(label) == CASE label = "new" -> 0 [] label = "started" -> 1
                  [] label = "scanning" -> 2 [] label = "saved" -> 3
                  [] label = "broken" -> 4 [] OTHER -> 5

\* Where run q is and what it has to do is what it was, or less.
NotBack(q) ==
    \/ Stage(pc'[q]) > Stage(pc[q])
    \/ pc'[q] = pc[q] /\ todo'[q] \subseteq todo[q]

\* Each step of a run changes its stage to a later one or takes a position
\* off its list, and no step of anybody undoes that of another.
RunsGoForward ==
    [][\A r \in Runs :
          /\ NotBack(r)
          /\ RunStep(r) => pc'[r] # pc[r] \/ todo'[r] # todo[r]]_vars

LEMMA RunForward ==
  ASSUME TypeOK, NEW r \in Runs, RunStep(r)
  PROVE  /\ pc'[r] # pc[r] \/ todo'[r] # todo[r]
         /\ \A q \in Runs : NotBack(q)
<1>1. CASE \E s \in Symbols : Evaluate(r, s) \/ EvaluateError(r, s)
  <2>1. PICK s \in Symbols, kind \in Kinds, price \in Prices \cup {0} :
           Persist(r, s, kind, price)
    BY <1>1, EvaluationPersists
  <2>2. /\ pc' = pc /\ s \in todo[r]
        /\ todo' = [todo EXCEPT ![r] = todo[r] \ {s}]
    BY <2>1 DEF Persist
  <2>3. \A q \in Runs : todo'[q] = IF q = r THEN todo[r] \ {s} ELSE todo[q]
    BY <2>2 DEF TypeOK
  <2> QED BY <2>2, <2>3 DEF NotBack
<1>2. CASE \E s \in Symbols : EvaluateLost(r, s)
  <2>1. PICK s \in Symbols : EvaluateLost(r, s)  BY <1>2
  <2>2. /\ pc' = pc /\ s \in todo[r]
        /\ todo' = [todo EXCEPT ![r] = todo[r] \ {s}]
    BY <2>1 DEF EvaluateLost
  <2>3. \A q \in Runs : todo'[q] = IF q = r THEN todo[r] \ {s} ELSE todo[q]
    BY <2>2 DEF TypeOK
  <2> QED BY <2>2, <2>3 DEF NotBack
<1>3. CASE ~\E s \in Symbols :
               Evaluate(r, s) \/ EvaluateError(r, s) \/ EvaluateLost(r, s)
  <2>1. \A label : pc' = [pc EXCEPT ![r] = label] =>
            pc'[r] = label /\ \A q \in Runs \ {r} : pc'[q] = pc[q]
    BY DEF TypeOK
  <2>2. \/ pc[r] = "new" /\ (Goto(r, "started") \/ Goto(r, "done"))
        \/ pc[r] = "started" /\ (Goto(r, "scanning") \/ Goto(r, "done"))
        \/ pc[r] = "scanning" /\ (Goto(r, "saved") \/ Goto(r, "broken"))
        \/ pc[r] = "saved" /\ (Goto(r, "broken") \/ Goto(r, "done"))
        \/ pc[r] = "broken" /\ Goto(r, "done")
    BY <1>3 DEF RunStep, Start, StartLocked, ProfileMissing, FetchPositions, FetchRaises,
         CommitSignals, CommitCompleted, RollBack, CommitFailed, GiveUp
  <2>3. /\ Stage("new") = 0 /\ Stage("started") = 1 /\ Stage("scanning") = 2
        /\ Stage("saved") = 3 /\ Stage("broken") = 4 /\ Stage("done") = 5
    BY DEF Stage
  <2>4. \A q \in Runs \ {r} : todo'[q] = todo[q]
    BY <1>3 DEF RunStep, Start, StartLocked, ProfileMissing, FetchPositions, FetchRaises,
         CommitSignals, CommitCompleted, RollBack, CommitFailed, GiveUp, session, TypeOK
  <2>5. pc'[r] # pc[r] /\ Stage(pc'[r]) > Stage(pc[r])
        /\ \A q \in Runs \ {r} : pc'[q] = pc[q]
    BY <2>1, <2>2, <2>3 DEF Goto
  <2> QED BY <2>4, <2>5 DEF NotBack
<1> QED BY <1>1, <1>2, <1>3

LEMMA OthersForward == TypeOK /\ [Next]_vars => \A q \in Runs : NotBack(q)
<1> SUFFICES ASSUME TypeOK, [Next]_vars, NEW q \in Runs PROVE NotBack(q)
  OBVIOUS
<1>1. CASE pc' = pc /\ todo' = todo  BY <1>1 DEF NotBack
<1>2. CASE Crash
  <2>1. todo' = todo /\ (pc'[q] = pc[q] \/ pc'[q] = "done")  BY <1>2 DEF Crash
  <2>2. Stage("done") = 5  BY DEF Stage
  <2>3. pc[q] \in {"new", "started", "scanning", "saved", "broken", "done"}
    BY DEF TypeOK
  <2>4. pc[q] # "done" => Stage(pc[q]) < 5  BY <2>3 DEF Stage
  <2> QED BY <2>1, <2>2, <2>4 DEF NotBack
<1>3. CASE \E r \in Runs : RunStep(r)  BY <1>3, RunForward
<1>4. CASE (\E d \in Cleanups : CleanupStep(d)) \/ Account \/ UNCHANGED vars
  BY <1>1, <1>4 DEF CleanupStep, CleanupFetch, CleanupRead, CleanupDelete, CleanupSkip,
       Account, Buy, Sell, FlipConnection, vars, tasks, session
<1> QED BY <1>2, <1>3, <1>4 DEF Next, Serve

\* A run takes at most five steps and one for each position it found: nothing
\* is evaluated twice and no failure sends it back (run_position_signals, run).
THEOREM RunsForward == Spec => RunsGoForward
<1> DEFINE Forward == \A r \in Runs :
               /\ NotBack(r)
               /\ RunStep(r) => pc'[r] # pc[r] \/ todo'[r] # todo[r]
<1>1. TypeOK /\ [Next]_vars => [Forward]_vars  BY RunForward, OthersForward
<1>2. IInv => TypeOK  BY DEF IInv
<1> QED BY <1>1, <1>2, Inductive, PTL DEF Spec, RunsGoForward

\* When a request ends with its row still RUNNING, the process has stopped or
\* another run has the write lock.
LeftRunningOnlyLocked ==
    [][\A r \in Runs :
          pc[r] # "done" /\ pc'[r] = "done" /\ runs'[r] = "RUNNING" =>
              Crash \/ writer \in Runs \ {r}]_vars

LEMMA NewIsAbsent ==
    TypeOK /\ (\A r \in Runs : pc[r] = "new" => runs[r] = "ABSENT") /\ [Next]_vars
        => (\A r \in Runs : pc[r] = "new" => runs[r] = "ABSENT")'
<1> SUFFICES ASSUME TypeOK, \A r \in Runs : pc[r] = "new" => runs[r] = "ABSENT",
                    [Next]_vars, NEW q \in Runs, pc'[q] = "new"
             PROVE  runs'[q] = "ABSENT"
  OBVIOUS
<1>1. pc[q] = "new"
  <2>1. NotBack(q)  BY OthersForward
  <2>2. Stage("new") = 0 /\ Stage(pc[q]) \in 0..5  BY DEF Stage
  <2> QED BY <2>1, <2>2 DEF NotBack
<1>2. ASSUME NEW r \in Runs, RunStep(r) PROVE runs'[q] = runs[q]
  <2>1. CASE \E s \in Symbols : Evaluate(r, s) \/ EvaluateError(r, s)
    BY <2>1, EvaluationPersists DEF Persist, tables
  <2>2. CASE ~\E s \in Symbols : Evaluate(r, s) \/ EvaluateError(r, s)
    <3>1. r # q \/ runs' = runs
      <4>1. SUFFICES ASSUME r = q PROVE runs' = runs  OBVIOUS
      <4>2. Start(q) \/ StartLocked(q)
        BY <1>1, <1>2, <2>2, <4>1 DEF RunStep, EvaluateLost, ProfileMissing, FetchPositions,
             FetchRaises,
             CommitSignals, CommitCompleted, RollBack, CommitFailed, GiveUp
      <4> QED BY <4>2 DEF Start, StartLocked, tables
    <3>2. r # q => runs'[q] = runs[q]
      BY <1>2, <2>2 DEF RunStep, EvaluateLost, Start, StartLocked, ProfileMissing,
           FetchPositions,
           FetchRaises, CommitSignals, CommitCompleted, RollBack, CommitFailed, GiveUp,
           tables, TypeOK
    <3> QED BY <3>1, <3>2
  <2> QED BY <2>1, <2>2
<1>3. CASE ~\E r \in Runs : RunStep(r)
  BY <1>1, <1>3 DEF Next, Serve, Crash, CleanupStep, CleanupFetch, CleanupRead,
       CleanupDelete,
       CleanupSkip, Account, Buy, Sell, FlipConnection, vars, tables
<1> QED BY <1>1, <1>2, <1>3

\* Only contention for the lock leaves a RUNNING row behind when commits
\* succeed: CommitsMayFail is the full or damaged file.
THEOREM RunningOnlyLocked ==
    ASSUME ~CommitsMayFail
    PROVE  Spec => LeftRunningOnlyLocked
<1> DEFINE Absent == \A r \in Runs : pc[r] = "new" => runs[r] = "ABSENT"
           Left == \A r \in Runs :
               pc[r] # "done" /\ pc'[r] = "done" /\ runs'[r] = "RUNNING" =>
                   Crash \/ writer \in Runs \ {r}
<1>1. Init => Absent  BY DEF Init
<1>2. ASSUME IInv, Absent, [Next]_vars, NEW q \in Runs,
             pc[q] # "done", pc'[q] = "done", runs'[q] = "RUNNING", ~Crash
      PROVE  writer \in Runs \ {q}
  <2>0. TypeOK /\ LockHeld  BY <1>2 DEF IInv
  <2>1. PICK r \in Runs : RunStep(r)
    BY <1>2 DEF Next, Serve, CleanupStep, CleanupFetch, CleanupRead, CleanupDelete,
       CleanupSkip, Account, Buy, Sell, FlipConnection, vars, tasks
  <2>2. ~\E s \in Symbols : Evaluate(r, s) \/ EvaluateError(r, s)
    BY <1>2, EvaluationPersists DEF Persist
  <2>3. r = q
    <3>1. \A p \in Runs \ {r} : pc'[p] = pc[p]
      BY <2>0, <2>1, <2>2 DEF RunStep, EvaluateLost, Start, StartLocked, ProfileMissing,
           FetchPositions,
           FetchRaises, CommitSignals, CommitCompleted, RollBack, CommitFailed, GiveUp,
           Goto, TypeOK
    <3> QED BY <1>2, <3>1
  <2>4. GiveUp(q) \/ StartLocked(q)
    BY <2>0, <2>1, <2>2, <2>3, <1>2 DEF RunStep, EvaluateLost, Start, ProfileMissing,
         FetchPositions,
           FetchRaises, CommitSignals, CommitCompleted, RollBack, CommitFailed,
           Goto, TypeOK
  <2>5. CASE GiveUp(q)
    <3>1. pc[q] = "broken" /\ writer # None  BY <2>5 DEF GiveUp, Free
    <3> QED BY <3>1, <2>0 DEF LockHeld, TypeOK
  <2>6. CASE StartLocked(q)
    BY <1>2, <2>6 DEF StartLocked, tables
  <2> QED BY <2>4, <2>5, <2>6
<1>3. IInv /\ Absent /\ [Next]_vars => [Left]_vars
  <2> HIDE DEF Absent
  <2> QED BY <1>2
<1>4. TypeOK /\ Absent /\ [Next]_vars => Absent'  BY NewIsAbsent
<1>5. IInv => TypeOK  BY DEF IInv
<1> QED BY <1>1, <1>3, <1>4, <1>5, Inductive, PTL DEF Spec, LeftRunningOnlyLocked

\* A steady server is one of the behaviours every theorem here is about.
THEOREM SteadyIsSpec == SteadySpec => Spec
<1>1. [Serve]_vars => [Next]_vars  BY DEF Next
<1> QED BY <1>1, PTL DEF SteadySpec, Spec
=============================================================================
