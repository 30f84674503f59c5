----------------------- MODULE TradingUniverseProofs -----------------------
(***************************************************************************)
(* Proofs about TradingUniverse for any number of requests and lists.      *)
(***************************************************************************)
EXTENDS TradingUniverse, TLAPS

USE NoneAssumption, RequestAssumption, FlagAssumption

\* The strengthened invariant holds initially
LEMMA InitInv == Init => IInv
<1> SUFFICES ASSUME Init PROVE IInv  OBVIOUS
<1>1. old \in [Saves -> [file: Value, memory: Value]]  BY DEF Init, Value
<1>2. TypeOK  BY <1>1 DEF Init, TypeOK, Value, Requests, Troubles
<1>3. Alone  BY DEF Init, Alone, Busy, Requests
<1> QED BY <1>2, <1>3 DEF Init, IInv, OldInStep, MemoryFollowsFile

\* what has disturbed a request once is not forgotten,
LEMMA TroubleStays == [Next]_vars => trouble \subseteq trouble'
BY DEF Next, Serve, Save, Delete, SaveWrite, SaveWriteFails, SaveSelect, SaveCommit,
       SaveFails, SaveRestore, RestoreFails, DeleteNothing, DeleteSelect, DeleteCommit,
       DeleteFails, Restart, Arrive, vars

\* every step keeps file, memory and what saves remember of them in step,
LEMMA StepInStep ==
  IInv /\ [Next]_vars => (TypeOK /\ OldInStep /\ MemoryFollowsFile)'
<1> DEFINE Step == TypeOK /\ OldInStep /\ MemoryFollowsFile
<1> SUFFICES ASSUME Step, [Next]_vars PROVE Step'  BY DEF IInv
<1> USE DEF OldInStep, MemoryFollowsFile
<1>1. ASSUME NEW r \in Saves, Save(r) PROVE Step'
  <2> USE DEF TypeOK, Value, Requests, Goto, Arrive, Troubles
  <2>1. CASE SaveWrite(r)
    <3>1. [file |-> file, memory |-> memory] \in [file: Value, memory: Value]
      OBVIOUS
    <3>2. old' = [old EXCEPT ![r] = [file |-> file, memory |-> memory]]
      BY <2>1 DEF SaveWrite
    <3>3. old' \in [Saves -> [file: Value, memory: Value]]  BY <3>1, <3>2
    <3>4. OldInStep'  BY <2>1, <3>2 DEF SaveWrite
    <3>5. TypeOK'  BY <3>3, <2>1 DEF SaveWrite
    <3> QED BY <3>4, <3>5, <2>1 DEF SaveWrite
  <2>2. CASE SaveSelect(r)  BY <2>2 DEF SaveSelect
  <2>3. CASE SaveCommit(r)  BY <2>3 DEF SaveCommit, Unneeded
  <2>4. CASE SaveFails(r)  BY <2>4 DEF SaveFails
  <2>5. CASE SaveRestore(r)  BY <2>5 DEF SaveRestore
  <2>6. CASE RestoreFails(r)  BY <2>6 DEF RestoreFails
  <2>7. CASE SaveWriteFails(r)
    <3>1. old' = [old EXCEPT ![r] = [file |-> file, memory |-> memory]]
      BY <2>7 DEF SaveWriteFails
    <3>2. old' \in [Saves -> [file: Value, memory: Value]]  BY <3>1
    <3>3. OldInStep'  BY <2>7, <3>1 DEF SaveWriteFails
    <3> QED BY <2>7, <3>2, <3>3 DEF SaveWriteFails
  <2> QED BY <1>1, <2>1, <2>2, <2>3, <2>4, <2>5, <2>6, <2>7 DEF Save
<1>2. ASSUME NEW r \in Deletes, Delete(r) PROVE Step'
  <2> USE DEF TypeOK, Value, Requests, Goto, Arrive, Troubles
  <2>1. CASE DeleteNothing(r)  BY <2>1 DEF DeleteNothing
  <2>2. CASE DeleteSelect(r)  BY <2>2 DEF DeleteSelect
  <2>3. CASE DeleteCommit(r)  BY <2>3 DEF DeleteCommit
  <2>4. CASE DeleteFails(r)  BY <2>4 DEF DeleteFails
  <2> QED BY <1>2, <2>1, <2>2, <2>3, <2>4 DEF Delete
<1>3. CASE Restart
  BY <1>3 DEF Restart, TypeOK, Value, Requests, Troubles
<1>4. CASE UNCHANGED vars
  BY <1>4 DEF vars, TypeOK
<1> QED BY <1>1, <1>2, <1>3, <1>4 DEF Next, Serve

\* and every step keeps an undisturbed request alone.
LEMMA StepAlone == IInv /\ [Next]_vars => Alone'
<1> SUFFICES ASSUME IInv, [Next]_vars, trouble' = {} PROVE Alone'
  BY DEF Alone
<1> USE DEF IInv, TypeOK, OldInStep, MemoryFollowsFile, Alone, Busy, Requests,
            Goto, SameRow
<1>1. trouble = {}  BY TroubleStays
<1>2. ASSUME NEW r \in Requests, Arrive(r) PROVE \A q \in Requests : ~Busy(q)
  BY <1>1, <1>2 DEF Arrive, Quiet
<1>3. ASSUME NEW r \in Saves, Save(r) PROVE Alone'
  <2>1. CASE SaveWrite(r)
    <3>1. \A q \in Requests : ~Busy(q)  BY <1>2, <2>1 DEF SaveWrite
    <3>2. old' = [old EXCEPT ![r] = [file |-> file, memory |-> memory]]
      BY <2>1 DEF SaveWrite
    <3>3. old'[r].memory = settled.list  BY <1>1, <3>1, <3>2
    <3>4. \A q \in Requests : q # r => ~Busy(q)'
      BY <2>1, <3>1 DEF SaveWrite
    <3> QED BY <1>1, <2>1, <3>1, <3>3, <3>4 DEF SaveWrite
  <2>2. CASE SaveSelect(r)  BY <1>1, <2>2 DEF SaveSelect
  <2>3. CASE SaveCommit(r)  BY <1>1, <2>3 DEF SaveCommit, Unneeded
  <2>4. CASE SaveFails(r)  BY <1>1, <2>4 DEF SaveFails
  <2>5. CASE SaveRestore(r)  BY <1>1, <2>5 DEF SaveRestore
  <2>6. CASE SaveWriteFails(r)
    <3>1. \A q \in Requests : ~Busy(q)  BY <1>2, <2>6 DEF SaveWriteFails
    <3>2. old' = [old EXCEPT ![r] = [file |-> file, memory |-> memory]]
      BY <2>6 DEF SaveWriteFails
    <3>3. old'[r].memory = settled.list  BY <1>1, <3>1, <3>2
    <3>4. \A q \in Requests : q # r => ~Busy(q)'
      BY <2>6, <3>1 DEF SaveWriteFails
    <3> QED BY <1>1, <2>6, <3>1, <3>3, <3>4 DEF SaveWriteFails
  <2>7. ~RestoreFails(r)  BY DEF RestoreFails
  <2> QED BY <1>3, <2>1, <2>2, <2>3, <2>4, <2>5, <2>6, <2>7 DEF Save
<1>4. ASSUME NEW r \in Deletes, Delete(r) PROVE Alone'
  <2>1. CASE DeleteNothing(r)  BY <1>1, <1>2, <2>1 DEF DeleteNothing
  <2>2. CASE DeleteSelect(r)  BY <1>1, <1>2, <2>2 DEF DeleteSelect
  <2>3. CASE DeleteCommit(r)  BY <1>1, <2>3 DEF DeleteCommit
  <2>4. CASE DeleteFails(r)  BY <1>1, <2>4 DEF DeleteFails
  <2> QED BY <1>4, <2>1, <2>2, <2>3, <2>4 DEF Delete
<1>5. CASE Restart
  <2>1. Quiet /\ file' = file  BY <1>5 DEF Restart
  <2> QED BY <1>1, <1>5, <2>1 DEF Restart, Quiet
<1>6. CASE UNCHANGED vars  BY <1>1, <1>6 DEF vars
<1> QED BY <1>3, <1>4, <1>5, <1>6 DEF Next, Serve

\* So every step keeps the strengthened invariant.
LEMMA StepInv == IInv /\ [Next]_vars => IInv'
BY StepInStep, StepAlone DEF IInv

\* The strengthened invariant holds of every behaviour.
THEOREM Inductive == Spec => []IInv
BY InitInv, StepInv, PTL DEF Spec

\* Memory and file are equal however saves, rollbacks, deletes and restarts
\* overlap: every write goes to both in one step, and a save puts both back
\* as it found them, which was in step too.  A rollback that truncates the
\* file and then fails is the exception.
THEOREM InStep == Spec => []MemoryFollowsFile
BY Inductive, PTL DEF IInv

\* Requests that do not overlap and are not cut off are all-or-nothing over
\* file, memory and row, at whatever step a save fails.
THEOREM SerialAtomic == Spec => []AllOrNothing
<1>1. IInv => AllOrNothing
  BY DEF IInv, Alone, AllOrNothing, Quiet, Busy, Requests
<1> QED BY <1>1, Inductive, PTL

\* With a list in .env, memory and file are not emptied as long as nothing
\* tears .env; with a list in the row alone, the row stays as long as there
\* is no DELETE: the program always resolves to some symbols.
THEOREM NeverEmpty == Spec => []UniverseNeverEmpty
<1> DEFINE Undeleted == \A r \in Deletes : pc[r] = "new"
           Intact == /\ memory # None
                     /\ \A r \in Saves : Busy(r) => old[r].memory # None
           Full == /\ given.file # None /\ "torn" \notin trouble => Intact
                   /\ given.row # None /\ Undeleted => row # None
                   /\ "parted" \in trouble => "torn" \in trouble
<1>1. Init => Full
  BY DEF Init, Requests, Busy
<1>2. IInv /\ Full /\ [Next]_vars => Full'
  <2> SUFFICES ASSUME IInv, Full, [Next]_vars PROVE Full'  OBVIOUS
  <2>0. /\ "torn" \notin trouble' => "torn" \notin trouble
        /\ given' = given
    BY TroubleStays DEF Next, Serve, Save, Delete, SaveWrite, SaveWriteFails, SaveSelect,
       SaveCommit, SaveFails, SaveRestore, RestoreFails, DeleteNothing, DeleteSelect,
       DeleteCommit, DeleteFails, Restart, vars
  <2>1. "parted" \in trouble' => "torn" \in trouble'
    BY DEF Next, Serve, Save, Delete, SaveWrite, SaveWriteFails, SaveSelect,
       SaveCommit, SaveFails, SaveRestore, RestoreFails, DeleteNothing, DeleteSelect,
       DeleteCommit, DeleteFails, Restart, Arrive, vars
  <2>2. given.row # None /\ Undeleted' => row' # None
    <3>1. ASSUME NEW r \in Deletes, Delete(r), Undeleted' PROVE FALSE
      <4>1. pc' \in {[pc EXCEPT ![r] = "commit"], [pc EXCEPT ![r] = "done"]}
        BY <3>1 DEF Delete, DeleteNothing, DeleteSelect, DeleteCommit, DeleteFails, Goto
      <4> QED BY <3>1, <4>1 DEF IInv, TypeOK, Requests
    <3>2. ASSUME NEW r \in Saves, Save(r) PROVE row' # None \/ row' = row
      <4>1. CASE SaveCommit(r)
        BY <4>1, NoneAssumption DEF SaveCommit, IInv, TypeOK
      <4>2. CASE ~SaveCommit(r)
        BY <3>2, <4>2 DEF Save, SaveWrite, SaveWriteFails, SaveSelect, SaveFails,
           SaveRestore, RestoreFails
      <4> QED BY <4>1, <4>2
    <3>3. ASSUME NEW r \in Saves, Save(r), Undeleted' PROVE Undeleted
      <4>1. \E l : pc' = [pc EXCEPT ![r] = l]
        BY <3>3 DEF Save, SaveWrite, SaveWriteFails, SaveSelect, SaveCommit, SaveFails,
           SaveRestore, RestoreFails, Goto
      <4> QED BY <3>3, <4>1 DEF IInv, TypeOK, Requests
    <3>4. CASE Restart
      BY <3>4 DEF Restart, IInv, TypeOK, Requests
    <3> QED BY <3>1, <3>2, <3>3, <3>4 DEF Next, Serve, vars
  <2> SUFFICES ASSUME given.file # None, "torn" \notin trouble' PROVE Intact'
    BY <2>0, <2>1, <2>2
  <2>3. Intact /\ memory = file /\ \A r \in Saves : old[r].file = old[r].memory
    BY <2>0 DEF IInv, MemoryFollowsFile, OldInStep
  <2> USE DEF IInv, TypeOK, Requests, Goto, Arrive, Busy
  <2>4. ASSUME NEW r \in Saves, Save(r) PROVE Intact'
    <3>1. CASE SaveWrite(r) \/ SaveWriteFails(r)
      <4>1. old' = [old EXCEPT ![r] = [file |-> file, memory |-> memory]]
        BY <3>1 DEF SaveWrite, SaveWriteFails
      <4>2. memory' # None  BY <2>3, <3>1 DEF SaveWrite, SaveWriteFails
      <4>3. \A q \in Saves : q # r => old'[q] = old[q] /\ pc'[q] = pc[q]
        BY <4>1, <3>1 DEF SaveWrite, SaveWriteFails
      <4>4. old'[r].memory = memory  BY <4>1
      <4> QED BY <2>3, <4>2, <4>3, <4>4
    <3>2. CASE SaveSelect(r)  BY <2>3, <3>2 DEF SaveSelect
    <3>3. CASE SaveCommit(r)  BY <2>3, <3>3 DEF SaveCommit
    <3>4. CASE SaveFails(r)  BY <2>3, <3>4 DEF SaveFails
    <3>5. CASE SaveRestore(r)  BY <2>3, <3>5 DEF SaveRestore
    <3>6. CASE RestoreFails(r)  BY <2>3, <3>6 DEF RestoreFails
    <3> QED BY <2>4, <3>1, <3>2, <3>3, <3>4, <3>5, <3>6 DEF Save
  <2>5. ASSUME NEW r \in Deletes, Delete(r) PROVE Intact'
    BY <2>3, <2>5 DEF Delete, DeleteNothing, DeleteSelect, DeleteCommit, DeleteFails
  <2>6. CASE Restart  BY <2>3, <2>6 DEF Restart
  <2>7. CASE UNCHANGED vars  BY <2>3, <2>7 DEF vars
  <2> QED BY <2>4, <2>5, <2>6, <2>7 DEF Next, Serve
<1>3. Full => UniverseNeverEmpty
  BY DEF UniverseNeverEmpty, Resolved
<1> QED BY <1>1, <1>2, <1>3, Inductive, PTL DEF Spec
-----------------------------------------------------------------------------
(***************************************************************************)
(* Refused saves                                                           *)
(*                                                                         *)
(* Run universe_refused shows the list of a refused save in force.  What   *)
(* it takes is two requests at the same time: without that a refused save  *)
(* whose rollback does not fail itself leaves no trace, however often the  *)
(* process stops, even in a rollback.                                      *)
(***************************************************************************)
\* A list that a refused save asked for may be there if that save had found
\* it there, or if another one has asked for it and was not refused.
Traced(v) ==
    \A p \in refused : v = asks[p] =>
        \/ old[p].memory = asks[p]
        \/ \E q \in Saves \ refused : asks[q] = asks[p] /\ pc[q] = "done"

\* As long as requests come one after the other, the list of the save under
\* way is in force, or what it has found, and what it puts back if it fails
\* is traced; between requests what is in force is traced.
Serial == {"overlap", "unrestored", "parted"} \cap trouble = {}
OneAtATime ==
    Serial =>
        /\ \A r, q \in Requests : Busy(r) /\ Busy(q) => r = q
        /\ \A r \in Saves : Busy(r) =>
              Traced(old[r].memory) /\ memory \in {asks[r], old[r].memory}
        /\ \A r \in Saves : pc[r] \in {"select", "commit"} => memory = asks[r]
        /\ (\A r \in Saves : ~Busy(r)) => Traced(memory)

RefusedAreDone == \A r \in refused : pc[r] = "done"

LEMMA StepRefusedDone == TypeOK /\ RefusedAreDone /\ [Next]_vars => RefusedAreDone'
BY DEF TypeOK, RefusedAreDone, Next, Serve, Save, Delete, SaveWrite, SaveWriteFails,
       SaveSelect, SaveCommit, SaveFails, SaveRestore, RestoreFails, DeleteNothing, DeleteSelect, DeleteCommit, DeleteFails,
       Restart, Arrive, Goto, Requests, vars

LEMMA StepOneAtATime ==
  IInv /\ RefusedAreDone /\ OneAtATime /\ [Next]_vars => OneAtATime'
<1> SUFFICES ASSUME IInv, RefusedAreDone, OneAtATime, [Next]_vars, Serial'
             PROVE  OneAtATime'
  BY DEF OneAtATime
<1>1. Serial  BY TroubleStays DEF Serial
<1> USE DEF RefusedAreDone, Busy, Requests, Goto
<1>0. /\ pc \in [Requests -> {"new", "select", "commit", "restore", "done"}]
      /\ old \in [Saves -> [file: Value, memory: Value]]
      /\ asks \in [Saves -> Lists] /\ refused \subseteq Saves /\ asks' = asks
      /\ memory = file /\ \A r \in Saves : old[r].file = old[r].memory
  BY <1>1 DEF Serial, IInv, TypeOK, OldInStep, MemoryFollowsFile, Next, Serve, Save,
         Delete, SaveWrite, SaveWriteFails, SaveSelect, SaveCommit, SaveFails, SaveRestore,
         RestoreFails, DeleteNothing, DeleteSelect, DeleteCommit, DeleteFails, Restart, vars
<1>2. /\ \A r, q \in Requests : Busy(r) /\ Busy(q) => r = q
      /\ \A r \in Saves : Busy(r) =>
            Traced(old[r].memory) /\ memory \in {asks[r], old[r].memory}
      /\ \A r \in Saves : pc[r] \in {"select", "commit"} => memory = asks[r]
      /\ (\A r \in Saves : ~Busy(r)) => Traced(memory)
  BY <1>1 DEF OneAtATime
<1>3. ASSUME NEW r \in Requests, Arrive(r) PROVE \A q \in Requests : ~Busy(q)
  BY <1>1, <1>3 DEF Serial, Arrive, Quiet
<1>4. ASSUME NEW r \in Saves, Save(r) PROVE OneAtATime'
  <2>1. CASE SaveWrite(r) \/ SaveWriteFails(r)
    <3>1. (\A q \in Requests : ~Busy(q)) /\ pc[r] = "new"
      BY <1>3, <2>1 DEF SaveWrite, SaveWriteFails, Arrive
    <3>2. /\ old' = [old EXCEPT ![r] = [file |-> file, memory |-> memory]]
          /\ refused' = refused
          /\ \/ memory' = asks[r] /\ pc' = [pc EXCEPT ![r] = "select"]
             \/ memory' = memory /\ pc' = [pc EXCEPT ![r] = "restore"]
      BY <2>1 DEF SaveWrite, SaveWriteFails
    <3>3. Traced(memory)  BY <1>2, <3>1
    <3>4. old'[r].memory = memory /\ \A q \in Saves : q # r => old'[q] = old[q]
      BY <1>0, <3>2
    <3> QED BY <1>0, <3>1, <3>2, <3>3, <3>4 DEF OneAtATime, Traced
  <2>2. CASE SaveSelect(r) \/ SaveFails(r)
    <3>1. /\ pc[r] \in {"select", "commit"}
          /\ pc' \in {[pc EXCEPT ![r] = "commit"], [pc EXCEPT ![r] = "restore"]}
          /\ UNCHANGED <<memory, old, refused>>
      BY <2>2 DEF SaveSelect, SaveFails
    <3> QED BY <1>0, <1>2, <3>1 DEF OneAtATime, Traced
  <2>3. CASE SaveCommit(r)
    <3>1. /\ pc[r] = "commit" /\ pc' = [pc EXCEPT ![r] = "done"]
          /\ UNCHANGED <<memory, old, refused>>
      BY <2>3 DEF SaveCommit
    <3>2. memory = asks[r] /\ r \notin refused  BY <1>2, <3>1
    <3> QED BY <1>0, <1>2, <3>1, <3>2 DEF OneAtATime, Traced
  <2>4. CASE SaveRestore(r)
    <3>1. /\ pc[r] = "restore" /\ pc' = [pc EXCEPT ![r] = "done"]
          /\ memory' = old[r].memory /\ old' = old /\ refused' = refused \cup {r}
      BY <2>4 DEF SaveRestore
    <3>2. Traced(old[r].memory)  BY <1>2, <3>1
    <3> QED BY <1>0, <1>2, <3>1, <3>2 DEF OneAtATime, Traced
  <2>5. ~RestoreFails(r)  BY DEF RestoreFails, Serial
  <2> QED BY <1>4, <2>1, <2>2, <2>3, <2>4, <2>5 DEF Save
<1>5. ASSUME NEW r \in Deletes, Delete(r) PROVE OneAtATime'
  <2>1. /\ UNCHANGED <<old, refused>> /\ memory' = memory
        /\ pc' \in {[pc EXCEPT ![r] = "commit"], [pc EXCEPT ![r] = "done"]}
    BY <1>0, <1>5 DEF Delete, DeleteNothing, DeleteSelect, DeleteCommit, DeleteFails
  <2>2. (\A q \in Requests : ~Busy(q)) \/ Busy(r)
    BY <1>3, <1>5 DEF Delete, DeleteNothing, DeleteSelect, DeleteCommit, DeleteFails
  <2>3. \A q \in Saves : pc'[q] = pc[q]  BY <1>0, <2>1, RequestAssumption
  <2>4. \A q \in Requests : q # r => pc'[q] = pc[q]  BY <1>0, <2>1
  <2> QED BY <1>0, <1>2, <2>1, <2>2, <2>3, <2>4 DEF OneAtATime, Traced
<1>6. CASE Restart
  <2>1. /\ UNCHANGED <<old, refused>> /\ memory' \in {memory, None}
        /\ \A q \in Requests : pc'[q] = IF pc[q] = "new" THEN "new" ELSE "done"
    BY <1>0, <1>6 DEF Restart
  <2>2. CASE memory' = None
    <3>1. \A p \in refused : asks[p] # None  BY <1>0, NoneAssumption
    <3> QED BY <1>0, <2>1, <2>2, <3>1 DEF OneAtATime, Traced
  <2>3. CASE memory' = memory /\ \A q \in Saves : ~Busy(q)
    BY <1>0, <1>2, <2>1, <2>3 DEF OneAtATime, Traced
  <2>4. ASSUME memory' = memory, NEW q \in Saves, Busy(q) PROVE OneAtATime'
    <3>1. q \notin refused /\ pc'[q] = "done"
      BY <1>0, <1>2, <2>1, <2>4
    <3>2. CASE memory = asks[q]
      BY <1>0, <2>1, <2>4, <3>1, <3>2 DEF OneAtATime, Traced
    <3>3. CASE memory = old[q].memory
      BY <1>0, <1>2, <2>1, <2>4, <3>3 DEF OneAtATime, Traced
    <3> QED BY <1>2, <2>4, <3>2, <3>3
  <2> QED BY <2>1, <2>2, <2>3, <2>4
<1>7. CASE UNCHANGED vars
  BY <1>2, <1>7 DEF vars, OneAtATime, Traced
<1> QED BY <1>4, <1>5, <1>6, <1>7 DEF Next, Serve

\* Requests that come one after the other leave no trace of a refused save
\* whose rollback does not raise.
THEOREM SerialLeavesNoTrace == Spec => [](Serial => RefusedLeavesNoTrace)
<1>1. Init => RefusedAreDone /\ OneAtATime
  BY DEF Init, RefusedAreDone, OneAtATime, Traced, Busy, Requests
<1>2. IInv => TypeOK  BY DEF IInv
<1>3. Spec => [](RefusedAreDone /\ OneAtATime)
  BY <1>1, <1>2, StepRefusedDone, StepOneAtATime, Inductive, PTL DEF Spec
<1>4. OneAtATime => (Serial => RefusedLeavesNoTrace)
  BY DEF OneAtATime, RefusedLeavesNoTrace, Traced, Quiet, Busy, Requests
<1> QED BY <1>3, <1>4, PTL
=============================================================================
