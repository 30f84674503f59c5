-------------------------- MODULE SignalDeskProofs --------------------------
(***************************************************************************)
(* The entry-signal batch and the watch list, for every number of requests *)
(* and every universe.                                                     *)
(***************************************************************************)
EXTENDS SignalDesk, FiniteSetTheorems, FunctionTheorems, WellFoundedInduction, TLAPS

\* Of a set of natural numbers that is not empty one is the smallest.
LEMMA SmallestExists ==
    ASSUME NEW T, T \subseteq Nat, T # {}
    PROVE  \E x \in T : \A y \in T : x <= y
<1>1. \E x \in T : \A y \in T : ~ (<<y, x>> \in OpToRel(<, Nat))
  BY NatLessThanWellFounded, WFMin
<1>2. PICK x \in T : \A y \in T : ~ (<<y, x>> \in OpToRel(<, Nat))  BY <1>1
<1>3. \A y \in T : ~(y < x)  BY <1>2 DEF OpToRel
<1> QED BY <1>3

\* Among some runs one is the newest.
LEMMA NewestIsOne ==
    ASSUME stamp \in [Requests -> Nat], runClock \in Nat, StampedInThePast,
           NEW candidates, candidates \subseteq Requests, candidates # {}
    PROVE  /\ Newest(candidates) \in candidates
           /\ \A q \in candidates : stamp[q] <= stamp[Newest(candidates)]
<1> DEFINE T == {runClock - stamp[q] : q \in candidates}
<1>1. T \subseteq Nat /\ T # {}  BY DEF StampedInThePast
<1>2. PICK x \in T : \A y \in T : x <= y  BY <1>1, SmallestExists
<1>3. PICK r \in candidates : x = runClock - stamp[r]  BY DEF T
<1>4. \A q \in candidates : stamp[q] <= stamp[r]
  <2> TAKE q \in candidates
  <2>1. runClock - stamp[q] \in T  OBVIOUS
  <2>2. runClock - stamp[r] <= runClock - stamp[q]  BY <2>1, <1>2, <1>3
  <2>3. stamp[q] \in Nat /\ stamp[r] \in Nat  OBVIOUS
  <2> HIDE DEF T
  <2> QED BY <2>2, <2>3
<1> QED BY <1>4 DEF Newest

\* What LatestEntryRun answers is a run, with a row, no older than the run
\* that asks.
LEMMA LatestIsARun ==
    ASSUME IInv, NEW r \in Requests, runs[r] # "ABSENT"
    PROVE  /\ LatestEntryRun(r) \in Requests
           /\ runs[LatestEntryRun(r)] # "ABSENT"
           /\ stamp[r] <= stamp[LatestEntryRun(r)]
<1> DEFINE stored == {q \in Requests : runs[q] # "ABSENT"}
<1>1. stamp \in [Requests -> Nat] /\ runClock \in Nat /\ StampedInThePast
  BY DEF IInv, TypeOK, SignalTypeOK
<1>2. stored \subseteq Requests /\ r \in stored  OBVIOUS
<1>3. /\ Newest(stored) \in stored
      /\ \A q \in stored : stamp[q] <= stamp[Newest(stored)]
  <2> HIDE DEF stored
  <2> QED BY <1>1, <1>2, NewestIsOne
<1>4. stamp[r] \in Nat  BY <1>1
<1> QED BY <1>1, <1>2, <1>3, <1>4 DEF LatestEntryRun

LEMMA InitIInv == Init => IInv
<1> SUFFICES ASSUME Init PROVE IInv  OBVIOUS
<1>1. DeskTypeOK  BY DEF Init, DeskInit, DeskTypeOK, Labels
<1>2. WatchTypeOK  BY DEF Init, WatchInit, WatchTypeOK
<1>3. PICK left \in SUBSET {Benchmark} :
         rows = [run: {None}, symbol: left, at: {0}, real: {FALSE}, error: {FALSE}]
  BY DEF Init, SignalInit
<1>4. rows \subseteq Row
  <2>1. {None} \subseteq Requests \cup {None} /\ left \subseteq Symbols /\ {0} \subseteq Nat
        /\ {FALSE} \subseteq BOOLEAN
    BY SignalAssumption
  <2> QED BY <1>3, <2>1, Zenon DEF Row
<1>5. SignalTypeOK  BY <1>4 DEF Init, SignalInit, SignalTypeOK
<1>6. LockHeld /\ ReportedStored /\ Undecided
  BY RequestAssumption
     DEF Init, DeskInit, SignalInit, LockHeld, ReportedStored, Undecided
<1>7. BatchAtomic  BY <1>3 DEF BatchAtomic
<1>8. StampedInThePast  BY DEF Init, SignalInit, StampedInThePast
<1> QED BY <1>1, <1>2, <1>5, <1>6, <1>7, <1>8 DEF IInv, TypeOK

LEMMA SignalsType ==
    ASSUME IInv, NEW r \in Requests, Signals(r)
    PROVE  DeskTypeOK' /\ SignalTypeOK'
<1> USE DEF IInv, TypeOK, DeskTypeOK, SignalTypeOK, Labels, Goto, Arrive, Drop,
         clocks, batch, locals, history, signalVars
<1>1. CASE Run(r)
  <2>1. seen' \in [Requests -> SUBSET Symbols]  BY <1>1, UniverseAssumption DEF Run
  <2> QED BY <1>1, <2>1 DEF Run
<1>2. CASE Reject(r)  BY <1>2 DEF Reject
<1>3. CASE Lock(r)  BY <1>3 DEF Lock
<1>4. CASE Fail(r)  BY <1>4 DEF Fail
<1>5. CASE Screen(r)
  <2>1. todo' \subseteq Symbols  BY <1>5, SignalAssumption DEF Screen
  <2> QED BY <1>5, <2>1 DEF Screen
<1>6. CASE Flush(r)
  <2>1. \A symbol \in Symbols : Signal(r, symbol) \in Row  BY DEF Signal, Row
  <2>2. staged' \subseteq Row /\ todo' \subseteq Symbols  BY <1>6, <2>1 DEF Flush
  <2> QED BY <1>6, <2>2 DEF Flush
<1>7. CASE Complete(r)  BY <1>7 DEF Complete
<1>8. CASE DatabaseFails(r)  BY <1>8 DEF DatabaseFails
<1>9. CASE Report(r)
  <2>1. runs[r] # "ABSENT"  BY <1>9 DEF Report, ReportedStored
  <2>2. LatestEntryRun(r) \in Requests  BY <2>1, LatestIsARun
  <2> QED BY <1>9, <2>2 DEF Report
<1>10. CASE CleanUp(r)
  <2>1. /\ seen' \in [Requests -> SUBSET Symbols]
        /\ steady' \in [Requests -> SUBSET Symbols]
    BY <1>10, UniverseAssumption DEF CleanUp
  <2> QED BY <1>10, <2>1 DEF CleanUp
<1>11. CASE LoadStale(r)  BY <1>11 DEF LoadStale
<1>12. CASE DeleteStale(r)  BY <1>12 DEF DeleteStale
<1> QED BY <1>1, <1>2, <1>3, <1>4, <1>5, <1>6, <1>7, <1>8, <1>9, <1>10, <1>11, <1>12
     DEF Signals

LEMMA WatchType ==
    ASSUME IInv, NEW r \in Requests, Watch(r)
    PROVE  DeskTypeOK' /\ WatchTypeOK'
<1> USE DEF IInv, TypeOK, DeskTypeOK, WatchTypeOK, Labels, Goto, Arrive, DropPlans
<1>1. CASE Show(r)
  <2>1. Seeds(r) \subseteq Item  BY UniverseAssumption, ListAssumption DEF Seeds, Item
  <2> QED BY <1>1, <2>1 DEF Show
<1>2. CASE Add(r)
  <2>1. [by: {r}, symbol: Asked, list: ListNames] \subseteq Item
    BY ListAssumption DEF Item
  <2> QED BY <1>2, <2>1 DEF Add
<1>3. CASE Insert(r)
  <2>1. items' \subseteq Item  BY <1>3 DEF Insert
  <2> QED BY <1>3, <2>1 DEF Insert
<1>4. CASE Remove(r)  BY <1>4 DEF Remove
<1>5. CASE RemoveFound(r)  BY <1>5 DEF RemoveFound
<1> QED BY <1>1, <1>2, <1>3, <1>4, <1>5 DEF Watch

LEMMA TypeStep == IInv /\ [Next]_vars => TypeOK'
<1> SUFFICES ASSUME IInv, [Next]_vars PROVE TypeOK'  OBVIOUS
<1> USE DEF TypeOK
<1>1. ASSUME NEW r \in Requests, Signals(r), UNCHANGED watchVars PROVE TypeOK'
  BY <1>1, SignalsType DEF IInv, WatchTypeOK, watchVars
<1>2. ASSUME NEW r \in Requests, Watch(r), UNCHANGED signalVars PROVE TypeOK'
  BY <1>2, WatchType
     DEF IInv, SignalTypeOK, signalVars, clocks, batch, locals, history
<1>3. ASSUME NEW r \in Requests, GiveUp(r) PROVE TypeOK'
  BY <1>3 DEF GiveUp, IInv, DeskTypeOK, SignalTypeOK, WatchTypeOK, Labels, Goto, Drop,
       DropPlans, clocks, batch, history
<1>4. CASE SaveUniverse
  BY <1>4 DEF SaveUniverse, IInv, DeskTypeOK, SignalTypeOK, WatchTypeOK, watchVars,
       clocks, batch, history
<1>5. CASE Restart
  BY <1>5 DEF Restart, IInv, DeskTypeOK, SignalTypeOK, WatchTypeOK, Labels, Drop,
       DropPlans, clocks, history
<1>6. CASE UNCHANGED vars
  BY <1>6 DEF IInv, DeskTypeOK, SignalTypeOK, WatchTypeOK, vars, deskVars, signalVars,
       watchVars, clocks, batch, locals, history
<1> QED BY <1>1, <1>2, <1>3, <1>4, <1>5, <1>6 DEF Next, Handle

\* A request of one kind or the other moves its own program counter only, and
\* nobody moves the others.
LEMMA SignalsStep ==
    ASSUME IInv, NEW r \in Requests, Signals(r)
    PROVE  LockHeld' /\ BatchAtomic' /\ ReportedStored' /\ Undecided'
<1> USE RequestAssumption
    DEF IInv, LockHeld, BatchAtomic, ReportedStored, Undecided, Goto, Arrive, Drop,
        clocks, batch, locals, history, signalVars, Free
<1>0. /\ pc \in [Requests -> Labels]
      /\ runs \in [Requests -> {"ABSENT", "FAILED", "COMPLETED"}]
      /\ rows \subseteq Row /\ staged \subseteq Row /\ writer \in Requests \cup {None}
  BY DEF TypeOK, DeskTypeOK, SignalTypeOK
<1>1. CASE Run(r)  BY <1>0, <1>1 DEF Run
<1>2. CASE Reject(r)  BY <1>0, <1>2 DEF Reject
<1>3. CASE Lock(r)  BY <1>0, <1>3 DEF Lock
<1>4. CASE Fail(r)  BY <1>0, <1>4 DEF Fail
<1>5. CASE Screen(r)  BY <1>0, <1>5 DEF Screen
<1>6. CASE Flush(r)
  <2>1. \A symbol : Signal(r, symbol).run = r  BY DEF Signal
  <2> QED BY <1>0, <1>6, <2>1 DEF Flush
<1>7. CASE Complete(r)  BY <1>0, <1>7 DEF Complete
<1>8. CASE DatabaseFails(r)  BY <1>0, <1>8 DEF DatabaseFails
<1>9. CASE Report(r)  BY <1>0, <1>9 DEF Report
<1>10. CASE CleanUp(r)  BY <1>0, <1>10 DEF CleanUp
<1>11. CASE LoadStale(r)  BY <1>0, <1>11 DEF LoadStale
<1>12. CASE DeleteStale(r)  BY <1>0, <1>12 DEF DeleteStale
<1> QED BY <1>1, <1>2, <1>3, <1>4, <1>5, <1>6, <1>7, <1>8, <1>9, <1>10, <1>11, <1>12
     DEF Signals

LEMMA StampStep == IInv /\ [Next]_vars => StampedInThePast'
<1> SUFFICES ASSUME IInv, [Next]_vars PROVE StampedInThePast'  OBVIOUS
<1>0. stamp \in [Requests -> Nat] /\ runClock \in Nat /\ StampedInThePast
  BY DEF IInv, TypeOK, SignalTypeOK
<1>1. CASE UNCHANGED <<stamp, runClock>>  BY <1>0, <1>1 DEF StampedInThePast
<1>2. ASSUME NEW r \in Requests, Run(r) PROVE StampedInThePast'
  BY <1>0, <1>2 DEF Run, StampedInThePast
<1>3. (\E r \in Requests : Run(r)) \/ UNCHANGED <<stamp, runClock>>
  BY DEF Next, Handle, Signals, Reject, Lock, Fail, Screen, Flush, Complete,
         DatabaseFails, Report, CleanUp, LoadStale, DeleteStale, GiveUp, SaveUniverse,
         Restart, vars, signalVars, clocks
<1> QED BY <1>1, <1>2, <1>3

LEMMA NextIInv == IInv /\ [Next]_vars => IInv'
<1> SUFFICES ASSUME IInv, [Next]_vars PROVE IInv'  OBVIOUS
<1> DEFINE Batch == LockHeld /\ BatchAtomic /\ ReportedStored /\ Undecided
<1>0. /\ pc \in [Requests -> Labels] /\ writer \in Requests \cup {None}
      /\ rows \subseteq Row /\ staged \subseteq Row
  BY DEF IInv, TypeOK, DeskTypeOK, SignalTypeOK
<1>1. ASSUME NEW r \in Requests, Signals(r) PROVE Batch'  BY <1>1, SignalsStep
<1>2. ASSUME NEW r \in Requests, Watch(r), UNCHANGED signalVars PROVE Batch'
  BY <1>0, <1>2
     DEF IInv, LockHeld, BatchAtomic, ReportedStored, Undecided, Watch, Show, Add,
         Insert, Remove, RemoveFound, Goto, Arrive, signalVars, batch
<1>3. ASSUME NEW r \in Requests, GiveUp(r) PROVE Batch'
  BY <1>0, <1>3
     DEF IInv, LockHeld, BatchAtomic, ReportedStored, Undecided, GiveUp, Waiting, Goto,
         batch
<1>4. ASSUME SaveUniverse PROVE Batch'
  BY <1>4 DEF IInv, LockHeld, BatchAtomic, ReportedStored, Undecided, SaveUniverse, batch
<1>5. ASSUME Restart PROVE Batch'
  BY <1>0, <1>5, RequestAssumption
     DEF IInv, LockHeld, BatchAtomic, ReportedStored, Undecided, Restart
<1>6. ASSUME UNCHANGED vars PROVE Batch'
  BY <1>6 DEF IInv, LockHeld, BatchAtomic, ReportedStored, Undecided, vars, deskVars,
              signalVars, batch
<1>7. Batch'
  BY <1>1, <1>2, <1>3, <1>4, <1>5, <1>6 DEF Next, Handle
<1>8. TypeOK' /\ StampedInThePast'  BY TypeStep, StampStep
<1> QED BY <1>7, <1>8 DEF IInv

\* Whatever requests overlap, and whenever the database refuses or the process
\* stops, a run is in the table with all of its signals or with none.
THEOREM BatchInvariant == Spec => []IInv
BY InitIInv, NextIInv, PTL DEF Spec

(***************************************************************************)
(* The answer of a run                                                     *)
(***************************************************************************)
\* A request that has not come has no answer, so a new run makes none old.
Unanswered == \A r \in Requests : pc[r] = "new" => reported[r] = None

LEMMA NextNeverOlder ==
    IInv /\ Unanswered /\ NeverOlderRun /\ [Next]_vars => Unanswered' /\ NeverOlderRun'
<1> SUFFICES ASSUME IInv, Unanswered, NeverOlderRun, [Next]_vars
             PROVE  Unanswered' /\ NeverOlderRun'
  OBVIOUS
<1>0. /\ pc \in [Requests -> Labels]
      /\ reported \in [Requests -> Requests \cup {None}]
      /\ stamp \in [Requests -> Nat] /\ runClock \in Nat
      /\ runs \in [Requests -> {"ABSENT", "FAILED", "COMPLETED"}]
  BY DEF IInv, TypeOK, DeskTypeOK, SignalTypeOK
<1>1. Unanswered'
  <2>1. ASSUME NEW r \in Requests, pc'[r] = "new"
        PROVE  pc[r] = "new" /\ reported'[r] = reported[r]
    <3>1. ASSUME NEW q \in Requests, Signals(q)
          PROVE  pc[r] = "new" /\ reported'[r] = reported[r]
      BY <1>0, <2>1, <3>1
         DEF Signals, Run, Reject, Lock, Fail, Screen, Flush, Complete, DatabaseFails,
             Report, CleanUp, LoadStale, DeleteStale, Goto, Arrive, history, signalVars
    <3>2. ASSUME NEW q \in Requests, Watch(q), UNCHANGED signalVars
          PROVE  pc[r] = "new" /\ reported' = reported
      <4>1. pc' \in {[pc EXCEPT ![q] = "done"], [pc EXCEPT ![q] = "insert"],
                     [pc EXCEPT ![q] = "remove"]}
        BY <3>2 DEF Watch, Show, Add, Insert, Remove, RemoveFound, Arrive, Goto
      <4>2. reported' = reported  BY <3>2 DEF signalVars, history
      <4> QED BY <1>0, <2>1, <4>1, <4>2
    <3>3. CASE \E q \in Requests : GiveUp(q)
      BY <1>0, <2>1, <3>3 DEF GiveUp, Goto, history
    <3>4. CASE SaveUniverse \/ Restart \/ UNCHANGED vars
      BY <1>0, <2>1, <3>4 DEF SaveUniverse, Restart, history, signalVars, vars, deskVars
    <3> QED BY <3>1, <3>2, <3>3, <3>4 DEF Next, Handle
  <2> QED BY <2>1 DEF Unanswered
<1>2. ASSUME NEW r \in Requests, Run(r) PROVE NeverOlderRun'
  <2>1. runs[r] = "ABSENT" /\ reported[r] = None /\ reported' = reported /\ runs' = runs
    BY <1>2, <1>0 DEF Run, Arrive, IInv, Undecided, Unanswered, history
  <2>2. stamp' = [stamp EXCEPT ![r] = runClock]  BY <1>2 DEF Run
  <2> QED BY <2>1, <2>2, <1>0 DEF NeverOlderRun
<1>3. ASSUME NEW r \in Requests, Report(r) PROVE NeverOlderRun'
  <2>1. runs[r] # "ABSENT"  BY <1>3 DEF Report, IInv, ReportedStored
  <2>2. /\ LatestEntryRun(r) \in Requests
        /\ runs[LatestEntryRun(r)] # "ABSENT"
        /\ stamp[r] <= stamp[LatestEntryRun(r)]
    BY <2>1, LatestIsARun
  <2>3. /\ reported' = [reported EXCEPT ![r] = LatestEntryRun(r)]
        /\ runs' = runs /\ stamp' = stamp
    BY <1>3 DEF Report
  <2> QED BY <2>2, <2>3, <1>0 DEF NeverOlderRun
<1> DEFINE Quiet == /\ UNCHANGED <<stamp, reported>>
                    /\ \A r \in Requests : runs[r] # "ABSENT" => runs'[r] # "ABSENT"
<1>4. ASSUME Quiet PROVE NeverOlderRun'  BY <1>0, <1>4 DEF NeverOlderRun
<1>5. Quiet \/ \E r \in Requests : Run(r) \/ Report(r)
  <2>1. ASSUME NEW r \in Requests, Signals(r), ~Run(r), ~Report(r) PROVE Quiet
    BY <1>0, <2>1
       DEF Signals, Reject, Lock, Fail, Screen, Flush, Complete, DatabaseFails, CleanUp,
           LoadStale, DeleteStale, signalVars, history
  <2>2. ASSUME NEW r \in Requests, GiveUp(r) PROVE Quiet  BY <2>2 DEF GiveUp, history
  <2>3. ASSUME SaveUniverse \/ Restart PROVE Quiet
    BY <2>3 DEF SaveUniverse, Restart, history
  <2>4. ASSUME UNCHANGED signalVars PROVE Quiet  BY <2>4 DEF signalVars, history
  <2>5. UNCHANGED vars => UNCHANGED signalVars  BY DEF vars
  <2> HIDE DEF Quiet
  <2> QED BY <2>1, <2>2, <2>3, <2>4, <2>5 DEF Next, Handle
<1> HIDE DEF Quiet
<1> QED BY <1>1, <1>2, <1>3, <1>4, <1>5

\* The answer of a run never names an older run.
THEOREM AnswersAreCurrent == Spec => []NeverOlderRun
<1>1. Init => Unanswered /\ NeverOlderRun
  BY RequestAssumption DEF Init, SignalInit, Unanswered, NeverOlderRun
<1> QED BY <1>1, NextNeverOlder, BatchInvariant, PTL DEF Spec

(***************************************************************************)
(* The watch list                                                          *)
(***************************************************************************)
\* Who is remembered as finished is, and so is everybody with a row; a row
\* about to be inserted is the request's own, and a row like it can only have
\* come from a request that had not finished when this one arrived.
Entries ==
    /\ \A q, r \in Requests : q \in before[r] => pc[q] = "done"
    /\ \A i \in items : pc[i.by] = "done"
    /\ \A r \in Requests : \A i \in plan[r] :
           /\ i.by = r /\ pc[r] = "insert"
           /\ \A j \in items : SameEntry(i, j) => j.by \notin before[r]

\* A step that leaves the watch list alone moves nobody back from "done", and
\* a request that arrives has no row and no plan.
Elsewhere ==
    /\ UNCHANGED <<items, plan>>
    /\ \A r \in Requests :
           /\ pc[r] = "done" => pc'[r] = "done"
           /\ pc[r] = "insert" => pc'[r] = "insert"
    /\ \A r \in Requests :
           \/ before'[r] = before[r]
           \/ pc[r] = "new" /\ before'[r] = {q \in Requests : pc[q] = "done"}

LEMMA ElsewhereKeeps ==
    ASSUME TypeOK, Entries, DuplicatesNeedOverlap, Elsewhere
    PROVE  Entries' /\ DuplicatesNeedOverlap'
<1>0. /\ pc \in [Requests -> Labels] /\ before \in [Requests -> SUBSET Requests]
      /\ items \subseteq Item /\ plan \in [Requests -> SUBSET Item]
      /\ \A i \in Item : i.by \in Requests
  BY DEF TypeOK, DeskTypeOK, WatchTypeOK, Item
<1>1. \A i \in items : before'[i.by] = before[i.by]
  BY <1>0 DEF Entries, Elsewhere
<1>2. \A r \in Requests : plan[r] # {} => before'[r] = before[r]
  BY <1>0 DEF Entries, Elsewhere
<1>3. \A q, r \in Requests : q \in before'[r] => pc'[q] = "done"
  BY <1>0 DEF Entries, Elsewhere
<1>4. Entries'
  BY <1>0, <1>2, <1>3 DEF Entries, Elsewhere, SameEntry
<1> QED BY <1>0, <1>1, <1>4 DEF DuplicatesNeedOverlap, Elsewhere, SameEntry

LEMMA NextEntries ==
    IInv /\ Entries /\ DuplicatesNeedOverlap /\ [Next]_vars
        => Entries' /\ DuplicatesNeedOverlap'
<1> SUFFICES ASSUME IInv, Entries, DuplicatesNeedOverlap, [Next]_vars
             PROVE  Entries' /\ DuplicatesNeedOverlap'
  OBVIOUS
<1> DEFINE Goal == Entries' /\ DuplicatesNeedOverlap'
<1>0. /\ pc \in [Requests -> Labels] /\ before \in [Requests -> SUBSET Requests]
      /\ items \subseteq Item /\ plan \in [Requests -> SUBSET Item]
      /\ found \in [Requests -> SUBSET Item]
      /\ \A i \in Item : i.by \in Requests
      /\ TypeOK
  BY DEF IInv, TypeOK, DeskTypeOK, WatchTypeOK, Item
<1>1. ASSUME Elsewhere PROVE Goal  BY <1>0, <1>1, ElsewhereKeeps
<1>2. ASSUME NEW r \in Requests, Signals(r), UNCHANGED watchVars PROVE Elsewhere
  BY <1>0, <1>2
     DEF Signals, Run, Reject, Lock, Fail, Screen, Flush, Complete, DatabaseFails, Report,
         CleanUp, LoadStale, DeleteStale, Goto, Arrive, watchVars, Elsewhere
<1>3. ASSUME NEW r \in Requests, Remove(r) PROVE Elsewhere
  BY <1>0, <1>3 DEF Remove, Arrive, Goto, Elsewhere
<1>4. ASSUME SaveUniverse \/ UNCHANGED vars PROVE Elsewhere
  BY <1>4 DEF SaveUniverse, vars, deskVars, watchVars, Elsewhere
\* A request that arrives with a plan: no row is like a planned one.
<1>5. ASSUME NEW r \in Requests, Arrive(r, "insert"), UNCHANGED items,
             NEW rows0, rows0 \subseteq Item, plan' = [plan EXCEPT ![r] = rows0],
             \A i \in rows0 : i.by = r /\ \A j \in items : ~SameEntry(i, j)
      PROVE  Goal
  <2>1. /\ pc[r] = "new" /\ pc' = [pc EXCEPT ![r] = "insert"]
        /\ before' = [before EXCEPT ![r] = {q \in Requests : pc[q] = "done"}]
    BY <1>5 DEF Arrive, Goto
  <2>2. \A q \in Requests : q # r => plan'[q] = plan[q] /\ before'[q] = before[q]
    BY <1>0, <1>5, <2>1
  <2>3. plan'[r] = rows0  BY <1>0, <1>5
  <2>4. \A i \in items : i.by # r  BY <1>0, <2>1 DEF Entries
  <2>5. \A q, s \in Requests : q \in before'[s] => pc'[q] = "done"
    BY <1>0, <2>1 DEF Entries
  <2>6. \A i \in items : pc'[i.by] = "done"  BY <1>0, <2>1, <2>4 DEF Entries
  <2>7. ASSUME NEW s \in Requests, NEW i \in plan'[s]
        PROVE  /\ i.by = s /\ pc'[s] = "insert"
               /\ \A j \in items : SameEntry(i, j) => j.by \notin before'[s]
    <3>1. CASE s = r  BY <1>0, <1>5, <2>1, <2>3, <2>7, <3>1
    <3>2. CASE s # r  BY <1>0, <2>1, <2>2, <2>7, <3>2 DEF Entries
    <3> QED BY <3>1, <3>2
  <2>8. Entries'  BY <1>5, <2>5, <2>6, <2>7 DEF Entries, SameEntry
  <2>9. DuplicatesNeedOverlap'
    BY <1>0, <1>5, <2>2, <2>4 DEF DuplicatesNeedOverlap, SameEntry
  <2> QED BY <2>8, <2>9
<1>6. ASSUME NEW r \in Requests, Show(r) PROVE Goal
  <2>1. CASE items = {}
    <3>1. \A i \in Seeds(r) : i.by = r /\ i \in Item
      BY UniverseAssumption, ListAssumption DEF Seeds, Item, IInv, TypeOK, DeskTypeOK
    <3> QED BY <1>0, <1>5, <1>6, <2>1, <3>1 DEF Show
  <2>2. CASE items # {}
    <3>1. Elsewhere  BY <1>0, <1>6, <2>2 DEF Show, Arrive, Goto, Elsewhere
    <3> QED BY <3>1, <1>1
  <2> QED BY <2>1, <2>2
<1>7. ASSUME NEW r \in Requests, Add(r) PROVE Goal
  <2>1. PICK i \in [by: {r}, symbol: Asked, list: ListNames] :
           IF \E j \in items : SameEntry(i, j)
           THEN UNCHANGED plan /\ Arrive(r, "done")
           ELSE plan' = [plan EXCEPT ![r] = {i}] /\ Arrive(r, "insert")
    BY <1>7 DEF Add
  <2>2. i \in Item /\ i.by = r  BY ListAssumption DEF Item
  <2>3. CASE \E j \in items : SameEntry(i, j)
    <3>1. Elsewhere  BY <1>0, <1>7, <2>1, <2>3 DEF Add, Arrive, Goto, Elsewhere
    <3> QED BY <3>1, <1>1
  <2>4. CASE ~\E j \in items : SameEntry(i, j)
    <3>1. UNCHANGED items  BY <1>7 DEF Add
    <3> DEFINE mine == {i}
    <3>2. plan' = [plan EXCEPT ![r] = mine] /\ Arrive(r, "insert")  BY <2>1, <2>4
    <3>3. mine \subseteq Item  BY <2>2
    <3>4. \A k \in mine : k.by = r /\ \A j \in items : ~SameEntry(k, j)  BY <2>2, <2>4
    <3> HIDE DEF Goal, mine
    <3> QED BY <1>5, <3>1, <3>2, <3>3, <3>4
  <2> QED BY <2>3, <2>4
<1>8. ASSUME NEW r \in Requests, Insert(r) PROVE Goal
  <2>1. /\ pc[r] = "insert" /\ pc' = [pc EXCEPT ![r] = "done"]
        /\ items' = items \cup plan[r] /\ before' = before
        /\ plan' = [q \in Requests |-> IF q = r THEN {} ELSE plan[q]]
    BY <1>8 DEF Insert, Goto, DropPlans
  <2>2. \A q \in Requests : r \notin before[q]  BY <2>1 DEF Entries
  <2>3. \A i \in plan[r] : i.by = r /\ i \in Item  BY <1>0 DEF Entries
  <2>4. Entries'
    BY <1>0, <2>1, <2>2, <2>3 DEF Entries, SameEntry
  <2>5. \A i, j \in plan[r] : SameEntry(i, j) => i = j
    BY <2>3 DEF SameEntry, Item
  <2>6. DuplicatesNeedOverlap'
    <3> SUFFICES ASSUME NEW i \in items', NEW j \in items', i # j, SameEntry(i, j)
                 PROVE  i.by \notin before[j.by] /\ j.by \notin before[i.by]
      BY <2>1 DEF DuplicatesNeedOverlap, SameEntry
    <3>1. CASE i \in items /\ j \in items  BY <3>1 DEF DuplicatesNeedOverlap
    <3>2. CASE i \in plan[r] /\ j \in items
      BY <1>0, <2>2, <2>3, <3>2 DEF Entries
    <3>3. CASE i \in items /\ j \in plan[r]
      BY <1>0, <2>2, <2>3, <3>3 DEF Entries, SameEntry
    <3>4. CASE i \in plan[r] /\ j \in plan[r]  BY <2>5, <3>4
    <3> QED BY <2>1, <3>1, <3>2, <3>3, <3>4
  <2> QED BY <2>4, <2>6
\* Rows and plans that only disappear leave fewer pairs to talk about.
<1>9. ASSUME items' \subseteq items, before' = before,
             \A r \in Requests : plan'[r] \subseteq plan[r],
             \A r \in Requests : pc[r] = "done" => pc'[r] = "done",
             \A r \in Requests : plan'[r] # {} => pc'[r] = pc[r]
      PROVE  Goal
  BY <1>0, <1>9 DEF Entries, DuplicatesNeedOverlap, SameEntry
<1>10. ASSUME NEW r \in Requests, RemoveFound(r) \/ GiveUp(r) PROVE Goal
  <2>1. /\ items' \subseteq items /\ before' = before
        /\ \A q \in Requests : plan'[q] = IF q = r THEN {} ELSE plan[q]
        /\ pc' = [pc EXCEPT ![r] = "done"]
    BY <1>10 DEF RemoveFound, GiveUp, Goto, DropPlans
  <2> QED BY <1>0, <1>9, <2>1
<1>11. ASSUME Restart PROVE Goal
  <2>1. /\ items' = items /\ before' = before
        /\ \A q \in Requests : plan'[q] = {}
        /\ \A q \in Requests : pc[q] = "done" => pc'[q] = "done"
    BY <1>11 DEF Restart, DropPlans
  <2> QED BY <1>9, <2>1
<1> HIDE DEF Goal
<1>12. Goal
  BY <1>1, <1>2, <1>3, <1>4, <1>6, <1>7, <1>8, <1>10, <1>11 DEF Next, Handle, Watch
<1> QED BY <1>12 DEF Goal

\* One after the other, the second request for an entry is refused.
THEOREM DuplicatesOverlap == Spec => []DuplicatesNeedOverlap
<1>1. Init => Entries /\ DuplicatesNeedOverlap
  BY DEF Init, DeskInit, WatchInit, Entries, DuplicatesNeedOverlap
<1> QED BY <1>1, NextEntries, BatchInvariant, PTL DEF Spec

(***************************************************************************)
(* The clean-up                                                            *)
(***************************************************************************)
\* A clean-up under way knows at least the symbols that have been in the
\* universe all along, and has loaded no real row of one of them.
CleanUps ==
    \A r \in Requests :
        /\ pc[r] = "load" => steady[r] \subseteq seen[r]
        /\ pc[r] = "delete" =>
               \A s \in loaded[r] : s.real => s.symbol \notin steady[r]

LEMMA NextCleanUps == IInv /\ CleanUps /\ [Next]_vars => CleanUps'
<1> SUFFICES ASSUME IInv, CleanUps, [Next]_vars PROVE CleanUps'  OBVIOUS
<1>0. /\ pc \in [Requests -> Labels] /\ rows \subseteq Row
      /\ seen \in [Requests -> SUBSET Symbols] /\ loaded \in [Requests -> SUBSET Row]
      /\ steady \in [Requests -> SUBSET Symbols]
  BY DEF IInv, TypeOK, DeskTypeOK, SignalTypeOK
<1>1. ASSUME NEW r \in Requests, CleanUp(r) PROVE CleanUps'
  BY <1>0, <1>1 DEF CleanUp, Arrive, Goto, CleanUps
<1>2. ASSUME NEW r \in Requests, LoadStale(r) PROVE CleanUps'
  BY <1>0, <1>2 DEF LoadStale, Stale, Goto, CleanUps
<1>3. ASSUME NEW r \in Requests, Signals(r), ~CleanUp(r), ~LoadStale(r) PROVE CleanUps'
  BY <1>0, <1>3
     DEF Signals, Run, Reject, Lock, Fail, Screen, Flush, Complete, DatabaseFails, Report,
         DeleteStale, Goto, Arrive, Drop, locals, signalVars, CleanUps
<1>4. ASSUME NEW r \in Requests, Watch(r), UNCHANGED signalVars PROVE CleanUps'
  BY <1>0, <1>4
     DEF Watch, Show, Add, Insert, Remove, RemoveFound, Goto, Arrive, locals, signalVars,
         CleanUps
<1>5. ASSUME NEW r \in Requests, GiveUp(r) PROVE CleanUps'
  BY <1>0, <1>5 DEF GiveUp, Goto, Drop, CleanUps
<1>6. CASE SaveUniverse  BY <1>0, <1>6 DEF SaveUniverse, CleanUps
<1>7. CASE Restart  BY <1>0, <1>7 DEF Restart, Drop, CleanUps
<1>8. CASE UNCHANGED vars
  BY <1>8 DEF vars, deskVars, signalVars, locals, CleanUps
<1> QED BY <1>1, <1>2, <1>3, <1>4, <1>5, <1>6, <1>7, <1>8 DEF Next, Handle

\* The one step that takes rows out of the table at the end of a clean-up
\* takes what that clean-up has loaded.
LEMMA DeletionKeepsReal ==
    ASSUME IInv, CleanUps, [Next]_vars, NEW r \in Requests,
           pc[r] = "delete", rows' # rows, pc'[r] = "done"
    PROVE  \A s \in rows \ rows' : s.real => s.symbol \notin steady[r]
<1>0. pc \in [Requests -> Labels]  BY DEF IInv, TypeOK, DeskTypeOK
<1>1. DeleteStale(r)
  BY <1>0 DEF Next, Handle, Signals, Watch, Run, Reject, Lock, Fail, Screen, Flush, Complete,
       DatabaseFails, Report, CleanUp, LoadStale, DeleteStale, GiveUp, SaveUniverse, Restart,
       Show, Add, Insert, Remove, RemoveFound, Goto, Arrive, signalVars, vars
<1> QED BY <1>1 DEF DeleteStale, CleanUps

\* A clean-up never deletes a real signal of a symbol that stayed in the
\* universe.
THEOREM CleanUpIsSafe == Spec => CleanUpKeepsReal
<1>1. Init => CleanUps  BY DEF Init, DeskInit, CleanUps
<1>2. Spec => []CleanUps  BY <1>1, NextCleanUps, BatchInvariant, PTL DEF Spec
<1>3. IInv /\ CleanUps /\ [Next]_vars =>
        [\A r \in Requests :
            pc[r] = "delete" /\ rows' # rows /\ pc'[r] = "done" =>
                \A s \in rows \ rows' : s.real => s.symbol \notin steady[r]]_vars
  BY DeletionKeepsReal
<1> QED BY <1>2, <1>3, BatchInvariant, PTL DEF Spec, CleanUpKeepsReal

(***************************************************************************)
(* The listing                                                             *)
(***************************************************************************)
\* The signals of the run with the lock are newer than every row, one for each
\* symbol, and those of the last run that stored any stay the newest rows.
Batch(signals) ==
    /\ \A s \in signals : s.real
    /\ \A s, t \in signals : s.symbol = t.symbol => s = t

Last == {s \in rows : s.run = lastStored /\ s.run # None}

Freshest ==
    /\ \A s \in rows \cup staged : s.at < clock
    /\ \A s \in rows, t \in staged : s.at < t.at
    /\ \A s \in staged : s.symbol \notin todo
    /\ Batch(staged) /\ Batch(Last)
    /\ \A s \in rows \ Last, t \in Last : s.at < t.at

LEMMA NextFreshest == IInv /\ Freshest /\ [Next]_vars => Freshest'
<1> SUFFICES ASSUME IInv, Freshest, [Next]_vars PROVE Freshest'  OBVIOUS
<1>0. /\ pc \in [Requests -> Labels] /\ writer \in Requests \cup {None}
      /\ rows \subseteq Row /\ staged \subseteq Row /\ todo \subseteq Symbols /\ clock \in Nat
      /\ \A s \in Row : s.at \in Nat
      /\ lastStored \in Requests \cup {None}
  BY DEF IInv, TypeOK, DeskTypeOK, SignalTypeOK, Row
<1> USE DEF Batch
<1>1. ASSUME NEW r \in Requests, Screen(r) PROVE Freshest'
  <2>1. staged = {}  BY <1>0, <1>1, RequestAssumption DEF Screen, IInv, LockHeld
  <2> QED BY <1>1, <2>1 DEF Screen, clocks, history, Freshest, Last
<1>2. ASSUME NEW r \in Requests, Flush(r) PROVE Freshest'
  <2>1. PICK symbol \in todo : /\ staged' = staged \cup {Signal(r, symbol)}
                              /\ todo' = todo \ {symbol}
    BY <1>2 DEF Flush
  <2>2. clock' = clock + 1 /\ rows' = rows /\ lastStored' = lastStored
    BY <1>2 DEF Flush, history
  <2> DEFINE new == Signal(r, symbol)
  <2>3. new.at = clock /\ new.symbol = symbol /\ new.real  BY DEF Signal
  <2> HIDE DEF new
  <2>4. \A s \in rows \cup staged : s.at \in Nat /\ s.at < clock  BY <1>0 DEF Freshest
  <2>5. \A s \in rows' \cup staged' : s.at < clock'
    BY <1>0, <2>1, <2>2, <2>3, <2>4 DEF new
  <2>6. \A s \in rows', t \in staged' : s.at < t.at
    BY <2>1, <2>2, <2>3, <2>4 DEF Freshest, new
  <2>7. \A s \in staged' : s.symbol \notin todo'
    BY <2>1, <2>3 DEF Freshest, new
  <2>8. Batch(staged')
    BY <2>1, <2>3 DEF Freshest, new
  <2>9. Last' = Last  BY <2>2 DEF Last
  <2> QED BY <2>2, <2>5, <2>6, <2>7, <2>8, <2>9 DEF Freshest
<1>3. ASSUME NEW r \in Requests, Complete(r) PROVE Freshest'
  <2>1. /\ pc[r] = "storing" /\ rows' = rows \cup staged /\ staged' = {}
        /\ lastStored' = (IF staged = {} THEN lastStored ELSE r)
        /\ clock' = clock /\ todo' = todo
    BY <1>3 DEF Complete, clocks
  <2>2. \A s \in rows' \cup staged' : s.at < clock'  BY <2>1 DEF Freshest
  <2>3. CASE staged = {}
    <3>1. Last' = Last /\ rows' = rows  BY <2>1, <2>3 DEF Last
    <3> QED BY <2>1, <2>2, <3>1 DEF Freshest
  <2>4. CASE staged # {}
    <3>1. \A s \in staged : s.run = r
      BY <2>1 DEF IInv, LockHeld
    <3>2. \A s \in rows : s.run # r
      BY <2>1, RequestAssumption DEF IInv, BatchAtomic, Undecided
    <3>3. Last' = staged /\ rows' \ Last' = rows
      BY <2>1, <2>4, <3>1, <3>2, RequestAssumption DEF Last
    <3> QED BY <2>1, <2>2, <3>3 DEF Freshest
  <2> QED BY <2>3, <2>4
\* Whatever else happens to them, rows and signals only disappear.
<1>4. ASSUME rows' \subseteq rows, staged' \subseteq staged, lastStored' = lastStored,
             clock' = clock, todo' \subseteq todo
      PROVE  Freshest'
  <2>1. Last' \subseteq Last /\ rows' \ Last' \subseteq rows \ Last  BY <1>4 DEF Last
  <2> QED BY <1>4, <2>1 DEF Freshest
<1>5. ASSUME NEW r \in Requests, Signals(r), ~Screen(r), ~Flush(r), ~Complete(r)
      PROVE  Freshest'
  BY <1>4, <1>5
     DEF Signals, Run, Reject, Lock, Fail, DatabaseFails, Report, CleanUp, LoadStale,
         DeleteStale, clocks, batch, history, signalVars
<1>6. ASSUME NEW r \in Requests, GiveUp(r) PROVE Freshest'
  BY <1>4, <1>6 DEF GiveUp, clocks, batch, history
<1>7. ASSUME SaveUniverse \/ Restart PROVE Freshest'
  BY <1>4, <1>7 DEF SaveUniverse, Restart, clocks, batch, history
<1>8. ASSUME UNCHANGED signalVars PROVE Freshest'
  BY <1>4, <1>8 DEF signalVars, clocks, batch, history
<1> QED BY <1>1, <1>2, <1>3, <1>5, <1>6, <1>7, <1>8 DEF Next, Handle, vars

\* The rows newer than a row of the last run are of other symbols of the
\* universe, one each: they are fewer than the page has room for.
LEMMA FreshestListed == IInv /\ Freshest => ListingCurrent
<1> SUFFICES ASSUME IInv, Freshest, Cardinality(universe) <= Limit,
                    NEW s \in rows, s.run = lastStored, s.run # None,
                    s.symbol \in universe
             PROVE  s \in Listing(universe)
  BY DEF ListingCurrent
<1> DEFINE eligible == {t \in rows : t.real /\ t.symbol \in universe}
           newer == {n \in eligible : n.at > s.at}
           others == universe \ {s.symbol}
           f == [n \in newer |-> n.symbol]
<1>1. /\ rows \subseteq Row /\ \A t \in Row : t.at \in Nat
      /\ universe \in Universes
  BY DEF IInv, TypeOK, DeskTypeOK, SignalTypeOK, Row
<1>2. IsFiniteSet(universe)  BY <1>1, UniverseAssumption
<1>3. s \in Last  BY DEF Last
<1>4. \A n \in newer : n \in Last  BY <1>1, <1>3 DEF Freshest
<1>5. \A n \in newer : n.symbol \in others  BY <1>1, <1>3, <1>4 DEF Freshest, Batch
<1>6. \A m, n \in newer : m.symbol = n.symbol => m = n  BY <1>4 DEF Freshest, Batch
<1>7. f \in Injection(newer, others)
  <2> HIDE DEF newer, others
  <2>1. f \in [newer -> others]  BY <1>5
  <2>2. \A m, n \in newer : f[m] = f[n] => m = n  BY <1>6
  <2> HIDE DEF f
  <2> QED BY <2>1, <2>2 DEF Injection, IsInjective
<1>8. /\ IsFiniteSet(others) /\ Cardinality(others) = Cardinality(universe) - 1
  BY <1>2, FS_RemoveElement
<1>9. IsFiniteSet(newer) /\ Cardinality(newer) <= Cardinality(others)
  BY <1>7, <1>8, FS_Injection
<1>10. Cardinality(newer) < Limit
  <2>1. Cardinality(newer) \in Nat /\ Cardinality(universe) \in Nat
    BY <1>2, <1>9, FS_CardinalityType
  <2> HIDE DEF newer, others
  <2> QED BY <1>8, <1>9, <2>1, SignalAssumption
<1>11. s \in eligible  BY <1>3 DEF Freshest, Batch
<1>12. \A n \in eligible : n.symbol = s.symbol => n.at <= s.at
  BY <1>1, <1>3 DEF Freshest, Batch
<1> QED BY <1>10, <1>11, <1>12 DEF Listing

LEMMA AlwaysFreshest == Spec => []Freshest
<1>1. Init => Freshest
  <2> SUFFICES ASSUME Init PROVE Freshest  OBVIOUS
  <2>1. PICK left \in SUBSET {Benchmark} :
           rows = [run: {None}, symbol: left, at: {0}, real: {FALSE}, error: {FALSE}]
    BY DEF Init, SignalInit
  <2>2. staged = {} /\ todo = {} /\ clock = 1 /\ lastStored = None
    BY DEF Init, SignalInit
  <2>3. Last = {} /\ \A s \in rows : s.at = 0  BY <2>1, <2>2 DEF Last
  <2> QED BY <2>2, <2>3 DEF Freshest, Batch
<1> QED BY <1>1, NextFreshest, BatchInvariant, PTL DEF Spec

\* What the last run that stored anything says of a symbol of the universe is
\* what the listing shows for it.
THEOREM ListingIsCurrent == Spec => []ListingCurrent
BY AlwaysFreshest, FreshestListed, BatchInvariant, PTL
-----------------------------------------------------------------------------
(***************************************************************************)
(* The table of signals                                                    *)
(***************************************************************************)
\* Every step writes the table as SignalTable allows, or leaves it alone.
LEMMA StepTable == IInv /\ Freshest /\ [Next]_vars => [Table!Next]_(Table!vars)
<1> SUFFICES ASSUME IInv, Freshest, [Next]_vars PROVE [Table!Next]_(Table!vars)
  OBVIOUS
<1> DEFINE Done == {r \in Requests : runs[r] = "COMPLETED"}
<1>0. /\ runs \in [Requests -> {"ABSENT", "FAILED", "COMPLETED"}]
      /\ \A r \in Requests :
            pc[r] \in {"reject", "locked", "storing"} => runs[r] = "ABSENT"
  BY DEF IInv, TypeOK, SignalTypeOK, Undecided
<1>1. ASSUME rows' = rows, runs' = runs PROVE UNCHANGED Table!vars
  BY <1>1 DEF Table!vars
<1>2. ASSUME NEW r \in Requests, Complete(r) PROVE Table!Store(r)
  <2>1. /\ pc[r] = "storing" /\ rows' = rows \cup staged
        /\ runs' = [runs EXCEPT ![r] = "COMPLETED"]
    BY <1>2 DEF Complete
  <2>2. \A s \in staged : s.run = r  BY <2>1 DEF IInv, LockHeld
  <2>3. r \notin Done /\ Done' = Done \cup {r}  BY <1>0, <2>1
  <2>4. \A s \in rows' \ rows : s \in staged  BY <2>1
  <2>5. Table!OneForEach(rows' \ rows)
    BY <2>4 DEF Freshest, Batch, Table!OneForEach
  <2> QED BY <2>1, <2>2, <2>3, <2>4, <2>5 DEF Table!Store
<1>3. ASSUME NEW r \in Requests, Reject(r) \/ Fail(r) PROVE UNCHANGED Table!vars
  <2>1. /\ rows' = rows /\ runs' = [runs EXCEPT ![r] = "FAILED"] /\ runs[r] = "ABSENT"
    BY <1>0, <1>3 DEF Reject, Fail
  <2>2. Done' = Done  BY <1>0, <2>1
  <2> QED BY <2>1, <2>2 DEF Table!vars
<1>4. ASSUME NEW r \in Requests, DeleteStale(r) PROVE Table!Delete
  BY <1>4 DEF DeleteStale, Table!Delete
<1>5. ASSUME NEW r \in Requests, Signals(r), ~Complete(r), ~Reject(r), ~Fail(r),
             ~DeleteStale(r)
      PROVE  rows' = rows /\ runs' = runs
  BY <1>5 DEF Signals, Run, Lock, Screen, Flush, DatabaseFails, Report, CleanUp, LoadStale,
              signalVars
<1>6. ASSUME NEW r \in Requests, GiveUp(r) PROVE rows' = rows /\ runs' = runs
  BY <1>6 DEF GiveUp
<1>7. SaveUniverse \/ Restart \/ UNCHANGED signalVars => rows' = rows /\ runs' = runs
  BY DEF SaveUniverse, Restart, signalVars
<1> QED BY <1>1, <1>2, <1>3, <1>4, <1>5, <1>6, <1>7 DEF Next, Handle, vars, Table!Next

\* Entry signal runs and clean-ups, with everything that fails, implement the
\* table.
THEOREM TableRefinement == Spec => ImplementsSignalTable
<1>1. Init => Table!Init
  <2> SUFFICES ASSUME Init PROVE Table!Init  OBVIOUS
  <2>1. PICK left \in SUBSET {Benchmark} :
           rows = [run: {None}, symbol: left, at: {0}, real: {FALSE}, error: {FALSE}]
    BY DEF Init, SignalInit
  <2>2. \A s \in rows : s.run = None  BY <2>1
  <2> QED BY <2>2, RequestAssumption DEF Init, SignalInit, Table!Init
<1> QED BY <1>1, AlwaysFreshest, StepTable, BatchInvariant, PTL
        DEF Spec, ImplementsSignalTable, Table!Spec

\* ... so whoever reads the table never finds two signals of one run for a
\* symbol.
THEOREM OneSignalEach == Spec => []Table!Unambiguous
BY TableRefinement, Table!NoTwoSignals, PTL DEF ImplementsSignalTable
=============================================================================
