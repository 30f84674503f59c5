-------------------------- MODULE KLineCacheProofs --------------------------
(***************************************************************************)
(* Proofs about KLineCache for any number of sessions, symbols and days    *)
(* and any lookback.                                                       *)
(***************************************************************************)
EXTENDS KLineCache, TLAPS

USE SessionsAssumption, AskedAssumption, DaysAssumption

(***************************************************************************)
(* What a fetch does, whichever way the provider answers                   *)
(***************************************************************************)

\* It gives the session bars to write, or gives its caller the result;
LEMMA FetchMoves ==
  ASSUME TypeOK, NEW s \in Sessions, NEW x, NEW from \in Int, NEW svc, NEW heard,
         Fetch(s, x, from, svc, heard)
  PROVE  /\ pc' \in {[pc EXCEPT ![s] = "idle"], [pc EXCEPT ![s] = "write"]}
         /\ \E B \in SUBSET Days :
              /\ fetched' = [fetched EXCEPT ![s] = B]
              /\ NoHoles(B)
              /\ \A d \in B, e \in Days : from <= e /\ e <= d => e \in B
<1> DEFINE Good(B) == /\ fetched' = [fetched EXCEPT ![s] = B]
                      /\ NoHoles(B)
                      /\ \A d \in B, e \in Days : from <= e /\ e <= d => e \in B
<1>1. NoHoles({})  BY DEF NoHoles
<1>2. CASE ProviderRaises(s, x, svc, heard)
  <2>1. Good({})  BY <1>1, <1>2 DEF ProviderRaises, Return
  <2> QED BY <1>2, <2>1 DEF ProviderRaises, Return, Goto
<1>3. CASE ProviderEmpty(s, svc, heard)
  <2>1. Good({})  BY <1>1, <1>3 DEF ProviderEmpty, Return
  <2> QED BY <1>3, <2>1 DEF ProviderEmpty, Return, Goto
<1>4. CASE ProviderAnswers(s, from, svc, heard)
  <2>1. PICK last \in Days :
          \/ /\ fetched' = [fetched EXCEPT ![s] = {d \in Days : from <= d /\ d <= last}]
             /\ pc' = [pc EXCEPT ![s] = "write"]
          \/ /\ fetched' = [fetched EXCEPT ![s] = {}]
             /\ pc' = [pc EXCEPT ![s] = "idle"]
    BY <1>4 DEF ProviderAnswers, Return, Goto
  <2> DEFINE B == {d \in Days : from <= d /\ d <= last}
  <2>2. NoHoles(B) /\ \A d \in B, e \in Days : from <= e /\ e <= d => e \in B
    BY <2>1 DEF Days, NoHoles
  <2>3. Good(B) \/ Good({})  BY <1>1, <2>1, <2>2
  <2> HIDE DEF Good
  <2>4. \E C \in SUBSET Days : Good(C)  BY <2>3
  <2> QED BY <2>1, <2>4 DEF Good
<1> QED BY <1>2, <1>3, <1>4 DEF Fetch

\* the service's error is its own, or what it was;
LEMMA FetchTells ==
  ASSUME NEW s \in Sessions, NEW x \in Symbols, NEW from, NEW svc \in Service,
         NEW heard \in [Sessions -> SUBSET Calls],
         Fetch(s, x, from, svc, heard)
  PROVE  /\ service' \in Service
         /\ raised' \in [Sessions -> SUBSET Calls]
         /\ \A q \in Sessions : heard[q] \subseteq raised'[q]
         /\ \/ service'.error = svc.error
            \/ /\ service'.error = <<s, x>>
               /\ \A q \in Sessions : q = s \/ InCall(q) => <<s, x>> \in raised'[q]
<1> USE DEF Service, Calls
<1>1. CASE ProviderRaises(s, x, svc, heard)
  <2>1. <<s, x>> \in Calls  OBVIOUS
  <2>2. service' \in Service /\ service'.error = <<s, x>>
    BY <1>1, <2>1 DEF ProviderRaises
  <2>3. raised' \in [Sessions -> SUBSET Calls]
    BY <1>1, <2>1 DEF ProviderRaises
  <2> QED BY <1>1, <2>2, <2>3 DEF ProviderRaises
<1>2. CASE ProviderEmpty(s, svc, heard)  BY <1>2 DEF ProviderEmpty
<1>3. CASE ProviderAnswers(s, from, svc, heard)  BY <1>3 DEF ProviderAnswers
<1> QED BY <1>1, <1>2, <1>3 DEF Fetch

\* and a result has the bars of an interval, and no error but the service's.
LEMMA FetchResult ==
  ASSUME TypeOK, NEW s \in Sessions, NEW x \in Symbols, NEW from \in Int,
         NEW svc \in Service, NEW heard, Fetch(s, x, from, svc, heard)
  PROVE  \/ result' = result /\ svc.columns = "known"
         \/ \E R \in Result : /\ result' = [result EXCEPT ![s] = R]
                              /\ ~InCall(s)'
                              /\ NoHoles(R.bars)
                              /\ R.error \in {None, service'.error}
<1> USE DEF Return, Goto, InCall, NoHoles, Result, TypeOK
<1>1. CASE ProviderRaises(s, x, svc, heard)
  <2> DEFINE R == [source |-> "upstream", bars |-> {}, error |-> <<s, x>>]
  <2>1. R \in Result  BY DEF Calls
  <2>2. service'.error = <<s, x>>  BY <1>1 DEF ProviderRaises, Service
  <2> QED BY <1>1, <2>1, <2>2 DEF ProviderRaises
<1>2. CASE ProviderEmpty(s, svc, heard)
  <2> DEFINE R == [source |-> "upstream", bars |-> {}, error |-> svc.error]
  <2>1. R \in Result  BY DEF Service
  <2> QED BY <1>2, <2>1 DEF ProviderEmpty
<1>3. CASE ProviderAnswers(s, from, svc, heard)
  <2>1. PICK last \in Days :
          \/ result' = result /\ svc.columns = "known"
          \/ /\ result' = [result EXCEPT ![s] =
                  [source |-> "upstream", bars |-> {d \in Days : from <= d /\ d <= last},
                   error |-> None]]
             /\ ~InCall(s)'
    BY <1>3 DEF ProviderAnswers
  <2> DEFINE R == [source |-> "upstream",
                   bars |-> {d \in Days : from <= d /\ d <= last}, error |-> None]
  <2>2. R \in Result /\ NoHoles(R.bars)  BY DEF Days
  <2> QED BY <2>1, <2>2
<1> QED BY <1>1, <1>2, <1>3 DEF Fetch

\* The actions a session fetches in, and from which state of the service.
LEMMA Fetches ==
  ASSUME TypeOK, WindowInv, ErrorInv, NEW s \in Sessions,
         InspectFails(s) \/ Miss(s) \/ SelectFails(s)
         \/ (Begin(s) /\ service.columns = "none")
  PROVE  \E x \in Symbols, from \in Int, svc \in Service,
            heard \in [Sessions -> SUBSET Calls] :
           /\ Fetch(s, x, from, svc, heard)
           /\ from \in {today - Lookback, today - Lookback - 1}
           /\ svc.columns = "known" => InCall(s)
           /\ \A q \in Sessions \ {s} : heard[q] = raised[q]
           /\ \A q \in Sessions : q = s \/ InCall(q) =>
                svc.error = None \/ svc.error \in heard[q]
           /\ UNCHANGED <<today, bars, staged, writer, unreleased>>
<1> USE DEF TypeOK, Service, WindowInv, ErrorInv
<1>1. CASE Begin(s) /\ service.columns = "none"
  <2> DEFINE svc == Cleared(service)
             heard == [raised EXCEPT ![s] = {}]
  <2>1. svc \in Service /\ svc.error = None /\ svc.columns = "none"
    BY <1>1 DEF Cleared
  <2>2. heard \in [Sessions -> SUBSET Calls]  OBVIOUS
  <2>3. today - Lookback \in Int  BY DEF Days
  <2>4. PICK x \in Symbols : Fetch(s, x, today - Lookback, svc, heard)
    BY <1>1, <2>1 DEF Begin
  <2>5. UNCHANGED <<today, bars, staged, writer, unreleased>>  BY <1>1 DEF Begin
  <2>6. \A q \in Sessions \ {s} : heard[q] = raised[q]  OBVIOUS
  <2> HIDE DEF svc, heard
  <2> QED BY <2>1, <2>2, <2>3, <2>4, <2>5, <2>6
<1>2. InCall(s) => /\ symbol[s] \in Symbols /\ start[s] \in Int
                   /\ start[s] \in {today - Lookback, today - Lookback - 1}
                   /\ \A q \in Sessions : q = s \/ InCall(q) =>
                        service.error = None \/ service.error \in raised[q]
  OBVIOUS
<1>3. CASE InspectFails(s)
  <2> DEFINE svc == [service EXCEPT !.columns = "none"]
  <2>1. svc \in Service /\ svc.error = service.error  OBVIOUS
  <2>2. InCall(s) /\ Fetch(s, symbol[s], start[s], svc, raised)
        /\ UNCHANGED <<today, bars, staged, writer, unreleased>>
    BY <1>3 DEF InspectFails, InCall
  <2> HIDE DEF svc
  <2> QED BY <1>2, <2>1, <2>2
<1>4. CASE Miss(s) \/ SelectFails(s)
  <2>1. InCall(s) /\ Fetch(s, symbol[s], start[s], service, raised)
        /\ UNCHANGED <<today, bars, staged, writer, unreleased>>
    BY <1>4 DEF Miss, SelectFails, InCall
  <2> QED BY <1>2, <2>1
<1> QED BY <1>1, <1>3, <1>4

(***************************************************************************)
(* The strengthened invariant                                              *)
(***************************************************************************)

\* It holds initially,
LEMMA InitInv == Init => IInv /\ ResultHasNoHoles /\ ErrorIsRecent
<1> SUFFICES ASSUME Init PROVE IInv /\ ResultHasNoHoles /\ ErrorIsRecent
  OBVIOUS
<1>1. NoResult \in Result /\ NewService \in Service
  BY DEF NoResult, Result, NewService, Service
<1>2. TypeOK
  <2>1. staged \in [Sessions -> [Symbols -> SUBSET Days]]  BY DEF Init, Empty
  <2>2. todo \in [Sessions -> SUBSET Symbols]  BY DEF Init
  <2>3. 0 \in Days  BY DEF Days
  <2> QED BY <1>1, <2>1, <2>2, <2>3 DEF Init, TypeOK, Empty
<1>3. \A s \in Sessions : ~Opened(s)  BY DEF Init, Opened, InCall
<1>4. WriterInv  BY <1>3 DEF Init, WriterInv, Sessions
<1>5. WindowInv /\ ErrorInv  BY <1>3 DEF WindowInv, ErrorInv, Opened
<1>6. ClosedInv  BY DEF Init, ClosedInv, Closed, NoHoles, Empty
<1>7. \A s \in Sessions : result[s].bars = {} /\ result[s].error = None
  BY DEF Init, NoResult
<1> QED
  BY <1>2, <1>4, <1>5, <1>6, <1>7 DEF IInv, ResultHasNoHoles, NoHoles, ErrorIsRecent

\* a write adds days to one symbol's bars,
LEMMA WriteType ==
  ASSUME TypeOK, WindowInv, NEW s \in Sessions, WriteCache(s)
  PROVE  /\ bars' \in [Symbols -> SUBSET Days]
         /\ staged' \in [Sessions -> [Symbols -> SUBSET Days]]
<1>1. symbol[s] \in Symbols /\ fetched[s] \in SUBSET Days
  BY DEF WriteCache, InCall, WindowInv, TypeOK
<1>2. /\ Added(bars, s) \in [Symbols -> SUBSET Days]
      /\ Added(staged[s], s) \in [Symbols -> SUBSET Days]
  BY <1>1 DEF TypeOK, Added
<1>3. \/ bars' = bars /\ staged' = [staged EXCEPT ![s] = Added(staged[s], s)]
      \/ bars' = Added(bars, s) /\ staged' = staged
  BY DEF WriteCache
<1>4. CASE bars' = bars /\ staged' = [staged EXCEPT ![s] = Added(staged[s], s)]
  BY <1>2, <1>4 DEF TypeOK
<1>5. CASE bars' = Added(bars, s) /\ staged' = staged
  BY <1>2, <1>5 DEF TypeOK
<1> QED BY <1>3, <1>4, <1>5

\* and takes the lock, or a failed one may, for the session that writes,
LEMMA WriteLock ==
  ASSUME TypeOK, NEW s \in Sessions, WriteCache(s) \/ WriteFails(s)
  PROVE  /\ writer' = writer \/ (writer = None /\ writer' = s)
         /\ unreleased' \in {unreleased, unreleased \cup ({s} \cap Readers)}
         /\ writer' # writer => s \in Batches \/ s \in unreleased'
         /\ \A q \in Sessions \ {s} : staged'[q] = staged[q]
         /\ staged'[s] = staged[s] \/ writer' = s
         /\ pc[s] = "write" /\ pc' = [pc EXCEPT ![s] = "idle"]
<1> USE DEF TypeOK, Answered, Return, Goto
<1>1. CASE WriteCache(s)
  BY <1>1 DEF WriteCache, InTransaction
<1>2. CASE WriteFails(s)
  BY <1>2 DEF WriteFails, LeftOpen
<1> QED BY <1>1, <1>2

\* so does forgetting sessions,
LEMMA ForgetType ==
  ASSUME TypeOK, NEW Q, Forget(Q)
  PROVE  /\ staged' \in [Sessions -> [Symbols -> SUBSET Days]]
         /\ writer' \in Sessions \cup {None}
         /\ unreleased' \in SUBSET Readers
         /\ pc' \in [Sessions -> {"new", "idle", "inspect", "select", "write", "done"}]
         /\ todo' \in [Sessions -> SUBSET Symbols]
         /\ symbol' \in [Sessions -> Symbols \cup {None}]
         /\ start' \in [Sessions -> Int]
         /\ fetched' \in [Sessions -> SUBSET Days]
         /\ result' \in [Sessions -> Result]
         /\ raised' \in [Sessions -> SUBSET Calls]
<1>1. Empty \in [Symbols -> SUBSET Days] /\ NoResult \in Result
  BY DEF Empty, NoResult, Result
<1>2. staged' \in [Sessions -> [Symbols -> SUBSET Days]]
  BY <1>1 DEF Forget, TypeOK
<1>3. result' \in [Sessions -> Result]  BY <1>1 DEF Forget, TypeOK
<1>4. writer' \in Sessions \cup {None} /\ unreleased' \in SUBSET Readers
  BY DEF Forget, TypeOK
<1>5. pc' \in [Sessions -> {"new", "idle", "inspect", "select", "write", "done"}]
  BY DEF Forget, TypeOK
<1>6. /\ todo' \in [Sessions -> SUBSET Symbols]
      /\ symbol' \in [Sessions -> Symbols \cup {None}]
  BY DEF Forget, TypeOK
<1>7. /\ start' \in [Sessions -> Int]
      /\ fetched' \in [Sessions -> SUBSET Days]
      /\ raised' \in [Sessions -> SUBSET Calls]
  BY DEF Forget, TypeOK
<1> QED BY <1>2, <1>3, <1>4, <1>5, <1>6, <1>7

\* and every step keeps the types,
LEMMA StepType == TypeOK /\ WindowInv /\ ErrorInv /\ [Next]_vars => TypeOK'
<1> SUFFICES ASSUME TypeOK, WindowInv, ErrorInv, [Next]_vars PROVE TypeOK'
  OBVIOUS
<1>1. ASSUME NEW s \in Sessions, Step(s) PROVE TypeOK'
  <2> DEFINE Fetching == \/ InspectFails(s) \/ Miss(s) \/ SelectFails(s)
                         \/ (Begin(s) /\ service.columns = "none")
  <2>1. CASE Fetching
    <3>1. PICK x \in Symbols, from \in Int, svc \in Service,
               heard \in [Sessions -> SUBSET Calls] :
            Fetch(s, x, from, svc, heard) /\ UNCHANGED <<today, bars, staged, writer, unreleased>>
      BY <2>1, Fetches
    <3>2. pc' \in [Sessions -> {"new", "idle", "inspect", "select", "write", "done"}]
      BY <3>1, FetchMoves DEF TypeOK
    <3>8. fetched' \in [Sessions -> SUBSET Days]
      BY <3>1, FetchMoves DEF TypeOK
    <3>3. service' \in Service /\ raised' \in [Sessions -> SUBSET Calls]
      BY <3>1, FetchTells
    <3>4. result' \in [Sessions -> Result]
      BY <3>1, FetchResult DEF TypeOK
    <3>5. CASE Begin(s)
      <4>1. PICK y \in todo[s] : /\ todo' = [todo EXCEPT ![s] = @ \ {y}]
                                 /\ symbol' = [symbol EXCEPT ![s] = y]
                                 /\ start' = [start EXCEPT ![s] = today - Lookback]
        BY <3>5 DEF Begin
      <4>2. todo' \in [Sessions -> SUBSET Symbols]
            /\ symbol' \in [Sessions -> Symbols \cup {None}]
            /\ start' \in [Sessions -> Int]
        BY <4>1 DEF TypeOK, Days
      <4> QED BY <3>1, <3>2, <3>3, <3>4, <3>8, <4>2 DEF TypeOK
    <3>6. CASE InspectFails(s) \/ Miss(s) \/ SelectFails(s)
      BY <3>1, <3>2, <3>3, <3>4, <3>6, <3>8 DEF InspectFails, Miss, SelectFails, TypeOK
    <3> QED BY <2>1, <3>5, <3>6
  <2>2. CASE Begin(s) /\ service.columns # "none"
    <3>1. NoResult \in Result  BY DEF NoResult, Result
    <3>2. Cleared(service) \in Service /\ Cleared(service).columns = service.columns
      BY DEF TypeOK, Cleared, Service
    <3>3. PICK x \in todo[s] :
            /\ todo' = [todo EXCEPT ![s] = @ \ {x}]
            /\ symbol' = [symbol EXCEPT ![s] = x]
            /\ start' = [start EXCEPT ![s] = today - Lookback]
            /\ service' = Cleared(service)
            /\ raised' = [raised EXCEPT ![s] = {}]
            /\ result' = [result EXCEPT ![s] = NoResult]
            /\ pc' \in {[pc EXCEPT ![s] = "inspect"], [pc EXCEPT ![s] = "select"]}
            /\ UNCHANGED <<today, bars, staged, writer, unreleased, fetched>>
      BY <2>2, <3>2 DEF Begin, Goto
    <3> HIDE DEF Fetching
    <3>4. /\ todo' \in [Sessions -> SUBSET Symbols]
          /\ symbol' \in [Sessions -> Symbols \cup {None}]
          /\ start' \in [Sessions -> Int]
      BY <3>3 DEF TypeOK, Days
    <3>5. /\ service' \in Service
          /\ raised' \in [Sessions -> SUBSET Calls]
          /\ result' \in [Sessions -> Result]
          /\ pc' \in [Sessions -> {"new", "idle", "inspect", "select", "write", "done"}]
      BY <3>1, <3>2, <3>3 DEF TypeOK
    <3> QED BY <3>3, <3>4, <3>5 DEF TypeOK
  <2>3. CASE Inspect(s)
    BY <2>3 DEF Inspect, TypeOK, Goto, Service, call
  <2>4. CASE ReturnCached(s)
    <3>1. Cached(s) \in SUBSET Days  BY <2>4 DEF Cached, TypeOK, ReturnCached, WindowInv, InCall
    <3> DEFINE R == [source |-> "cache", bars |-> Cached(s), error |-> None]
    <3>2. R \in Result  BY <3>1 DEF Result
    <3>3. result' = [result EXCEPT ![s] = R]
          /\ fetched' = [fetched EXCEPT ![s] = {}] /\ pc' = [pc EXCEPT ![s] = "idle"]
      BY <2>4 DEF ReturnCached, Return, Goto
    <3> HIDE DEF R
    <3> QED BY <2>4, <3>2, <3>3 DEF ReturnCached, TypeOK
  <2>5. CASE WriteCache(s) \/ WriteFails(s)
    <3> DEFINE R == [source |-> "upstream", bars |-> fetched[s], error |-> None]
    <3>1. R \in Result  BY DEF Result, TypeOK
    <3>2. result' = [result EXCEPT ![s] = R]
          /\ fetched' = [fetched EXCEPT ![s] = {}] /\ pc' = [pc EXCEPT ![s] = "idle"]
          /\ UNCHANGED <<today, todo, symbol, start, service, raised>>
      BY <2>5 DEF WriteCache, WriteFails, Answered, Return, Goto
    <3>3. /\ bars' \in [Symbols -> SUBSET Days]
          /\ staged' \in [Sessions -> [Symbols -> SUBSET Days]]
      BY <2>5, WriteType DEF WriteFails, TypeOK
    <3>4. writer' \in Sessions \cup {None} /\ unreleased' \in SUBSET Readers
      BY <2>5, WriteLock DEF TypeOK
    <3> HIDE DEF R
    <3> QED BY <3>1, <3>2, <3>3, <3>4 DEF TypeOK
  <2>6. CASE OpenSession(s)
    BY <2>6 DEF OpenSession, TypeOK, Goto, call, Sessions
  <2>7. CASE CommitSession(s) \/ RollBackSession(s)
    <3>1. bars' \in [Symbols -> SUBSET Days]
      BY <2>7 DEF CommitSession, RollBackSession, EndSession, TypeOK
    <3>2. Forget({s}) /\ UNCHANGED <<today, service>>
      BY <2>7 DEF CommitSession, RollBackSession, EndSession
    <3> QED BY <3>1, <3>2, ForgetType DEF TypeOK
  <2> QED BY <1>1, <2>1, <2>2, <2>3, <2>4, <2>5, <2>6, <2>7 DEF Step
<1>2. CASE NextDay
  BY <1>2 DEF NextDay, TypeOK, Days, call
<1>3. CASE Restart
  <2>1. NewService \in Service  BY DEF NewService, Service
  <2>2. Forget({s \in Sessions : Opened(s)}) /\ service' = NewService
        /\ UNCHANGED <<today, bars>>
    BY <1>3 DEF Restart
  <2> QED BY <2>1, <2>2, ForgetType DEF TypeOK
<1>4. CASE UNCHANGED vars
  BY <1>4 DEF vars, call, TypeOK
<1> QED BY <1>1, <1>2, <1>3, <1>4 DEF Next

\* The lock changes hands only with the session that has it.
LEMMA StepWriter == IInv /\ [Next]_vars => WriterInv'
<1> SUFFICES ASSUME IInv, [Next]_vars PROVE WriterInv'  OBVIOUS
<1> USE DEF IInv, TypeOK, WriterInv, Opened, InCall, Sessions
<1>1. ASSUME NEW s \in Sessions, Step(s) PROVE WriterInv'
  <2>1. CASE InspectFails(s) \/ Miss(s) \/ SelectFails(s)
             \/ (Begin(s) /\ service.columns = "none")
    <3>1. UNCHANGED <<staged, writer, unreleased>>
          /\ pc' \in {[pc EXCEPT ![s] = "idle"], [pc EXCEPT ![s] = "write"]}
      BY <2>1, Fetches, FetchMoves
    <3>2. Opened(s)  BY <2>1 DEF InspectFails, Miss, SelectFails, Begin
    <3> QED BY <3>1, <3>2
  <2>2. CASE Begin(s) /\ service.columns # "none"
    <3>1. Cleared(service).columns = service.columns  BY DEF Cleared, Service
    <3>2. UNCHANGED <<staged, writer, unreleased>> /\ pc[s] = "idle"
          /\ pc' \in {[pc EXCEPT ![s] = "inspect"], [pc EXCEPT ![s] = "select"]}
      BY <2>2, <3>1 DEF Begin, Goto
    <3> QED BY <3>2
  <2>3. CASE Inspect(s)  BY <2>3 DEF Inspect, Goto, call
  <2>4. CASE ReturnCached(s)  BY <2>4 DEF ReturnCached, Return, Goto
  <2>5. CASE WriteCache(s) \/ WriteFails(s)
    <3>1. \A q \in Sessions : Opened(q)' <=> Opened(q)  BY <2>5, WriteLock
    <3>2. Opened(s)  BY <2>5, WriteLock
    <3> QED BY <2>5, <3>1, <3>2, WriteLock
  <2>6. CASE OpenSession(s)  BY <2>6 DEF OpenSession, Goto, call
  <2>7. CASE CommitSession(s) \/ RollBackSession(s)
    BY <2>7 DEF CommitSession, RollBackSession, EndSession, Forget
  <2> QED BY <1>1, <2>1, <2>2, <2>3, <2>4, <2>5, <2>6, <2>7 DEF Step
<1>2. CASE NextDay  BY <1>2 DEF NextDay, call
<1>3. CASE Restart  BY <1>3 DEF Restart, Forget
<1>4. CASE UNCHANGED vars  BY <1>4 DEF vars, call
<1> QED BY <1>1, <1>2, <1>3, <1>4 DEF Next

\* A call keeps its window, and midnight passes over it once at most.
LEMMA StepWindow == IInv /\ [Next]_vars => WindowInv'
<1> SUFFICES ASSUME IInv, [Next]_vars PROVE WindowInv'  OBVIOUS
<1> USE DEF IInv, TypeOK, WindowInv, InCall
<1>1. ASSUME NEW s \in Sessions, Step(s) PROVE WindowInv'
  <2>1. CASE Begin(s)
    <3>1. PICK x \in todo[s] : /\ symbol' = [symbol EXCEPT ![s] = x]
                               /\ start' = [start EXCEPT ![s] = today - Lookback]
                               /\ today' = today
      BY <2>1 DEF Begin
    <3>2. \A q \in Sessions \ {s} : pc'[q] = pc[q]
      <4>1. CASE service.columns = "none"  BY <2>1, <4>1, Fetches, FetchMoves
      <4>2. CASE service.columns # "none"
        BY <2>1, <4>2 DEF Begin, Goto, Cleared, Service
      <4> QED BY <4>1, <4>2
    <3> QED BY <3>1, <3>2
  <2>2. CASE InspectFails(s) \/ Miss(s) \/ SelectFails(s)
    <3>1. pc' \in {[pc EXCEPT ![s] = "idle"], [pc EXCEPT ![s] = "write"]}
      BY <2>2, Fetches, FetchMoves
    <3> QED BY <2>2, <3>1 DEF InspectFails, Miss, SelectFails
  <2>3. CASE Inspect(s)  BY <2>3 DEF Inspect, Goto, call
  <2>4. CASE ReturnCached(s)  BY <2>4 DEF ReturnCached, Return, Goto
  <2>5. CASE WriteCache(s) \/ WriteFails(s)
    BY <2>5 DEF WriteCache, WriteFails, Answered, Return, Goto
  <2>6. CASE OpenSession(s)  BY <2>6 DEF OpenSession, Goto, call
  <2>7. CASE CommitSession(s) \/ RollBackSession(s)
    <3>1. pc[s] = "idle" /\ Forget({s}) /\ UNCHANGED <<today, service>>
      BY <2>7 DEF CommitSession, RollBackSession, EndSession
    <3> QED BY <3>1 DEF Forget
  <2> QED BY <1>1, <2>1, <2>2, <2>3, <2>4, <2>5, <2>6, <2>7 DEF Step
<1>2. CASE NextDay  BY <1>2 DEF NextDay, call, Days
<1>3. CASE Restart
  BY <1>3 DEF Restart, Forget, Opened
<1>4. CASE UNCHANGED vars  BY <1>4 DEF vars, call
<1> QED BY <1>1, <1>2, <1>3, <1>4 DEF Next

(***************************************************************************)
(* Closed sets of bars                                                     *)
(***************************************************************************)

\* Two closed sets of days are closed together.
LEMMA ClosedUnion ==
  ASSUME NEW A, NEW B, Closed(A), Closed(B) PROVE Closed(A \cup B)
BY DEF Closed

\* Every set of bars stays closed, whoever writes it and whenever.
LEMMA StepClosed == IInv /\ [Next]_vars => ClosedInv'
<1> SUFFICES ASSUME IInv, [Next]_vars PROVE ClosedInv'  OBVIOUS
<1> USE DEF IInv
<1>0. Closed({}) /\ NoHoles({})  BY DEF Closed, NoHoles
<1>1. ASSUME NEW s \in Sessions, Step(s) PROVE ClosedInv'
  <2>0. CASE \/ InspectFails(s) \/ Miss(s) \/ SelectFails(s)
             \/ (Begin(s) /\ service.columns = "none")
    <3>1. PICK x \in Symbols, from \in Int, svc \in Service,
               heard \in [Sessions -> SUBSET Calls] :
            /\ Fetch(s, x, from, svc, heard) /\ UNCHANGED <<today, bars, staged, writer, unreleased>>
            /\ from \in {today - Lookback, today - Lookback - 1}
      BY <2>0, Fetches
    <3>2. PICK B \in SUBSET Days :
              /\ fetched' = [fetched EXCEPT ![s] = B]
              /\ NoHoles(B)
              /\ \A d \in B, e \in Days : from <= e /\ e <= d => e \in B
      BY <3>1, FetchMoves
    <3>3. Closed(B)  BY <3>1, <3>2 DEF Closed, Days, TypeOK
    <3> QED BY <3>1, <3>2, <3>3 DEF ClosedInv, Closed, NoHoles, TypeOK
  <2>1. CASE \/ ReturnCached(s) \/ WriteFails(s)
    <3>1. fetched' = [fetched EXCEPT ![s] = {}] /\ UNCHANGED <<today, bars, staged>>
      BY <2>1 DEF ReturnCached, WriteFails, Answered, Return
    <3> QED BY <1>0, <3>1 DEF ClosedInv, Closed, NoHoles, TypeOK
  <2>2. CASE WriteCache(s)
    <3>1. symbol[s] \in Symbols  BY <2>2 DEF WriteCache, WindowInv, InCall
    <3>2. fetched' = [fetched EXCEPT ![s] = {}] /\ today' = today
      BY <2>2 DEF WriteCache, Answered, Return
    <3>3. \A x \in Symbols : Closed(Added(bars, s)[x]) /\ Closed(Added(staged[s], s)[x])
      BY <3>1, ClosedUnion DEF Added, ClosedInv, TypeOK
    <3>4. \/ bars' = bars /\ staged' = [staged EXCEPT ![s] = Added(staged[s], s)]
          \/ bars' = Added(bars, s) /\ staged' = staged
      BY <2>2 DEF WriteCache
    <3>5. \A x \in Symbols : Closed(bars'[x]) /\ \A q \in Sessions : Closed(staged'[q][x])
      BY <3>3, <3>4 DEF ClosedInv, TypeOK
    <3>6. \A q \in Sessions : Closed(fetched'[q]) /\ NoHoles(fetched'[q])
      BY <1>0, <3>2 DEF ClosedInv, TypeOK
    <3> QED BY <3>2, <3>5, <3>6 DEF ClosedInv, Closed, NoHoles
  <2>3. CASE CommitSession(s) \/ RollBackSession(s)
    <3>1. \A x \in Symbols : Closed(bars'[x])
      BY <2>3, ClosedUnion DEF CommitSession, RollBackSession, EndSession, ClosedInv
    <3>2. Forget({s}) /\ today' = today
      BY <2>3 DEF CommitSession, RollBackSession, EndSession
    <3>3. \A q \in Sessions : /\ Closed(fetched'[q]) /\ NoHoles(fetched'[q])
                              /\ \A x \in Symbols : Closed(staged'[q][x])
      BY <1>0, <3>2 DEF Forget, ClosedInv, Empty
    <3> QED BY <3>1, <3>2, <3>3 DEF ClosedInv, Closed, NoHoles
  <2>4. CASE Begin(s) /\ service.columns # "none"
    <3>1. UNCHANGED <<today, bars, staged, fetched>>
      BY <2>4 DEF Begin, Cleared, Service, TypeOK
    <3> QED BY <3>1 DEF ClosedInv, Closed, NoHoles
  <2>5. CASE Inspect(s) \/ OpenSession(s)
    <3>1. UNCHANGED <<today, bars, staged, fetched>>
      BY <2>5 DEF Inspect, OpenSession, call
    <3> QED BY <3>1 DEF ClosedInv, Closed, NoHoles
  <2> QED BY <1>1, <2>0, <2>1, <2>2, <2>3, <2>4, <2>5 DEF Step
<1>2. CASE NextDay
  <2>1. today' = today + 1 /\ UNCHANGED <<bars, staged, fetched>>
    BY <1>2 DEF NextDay, call
  <2> QED BY <2>1 DEF ClosedInv, Closed, NoHoles, TypeOK, Days
<1>3. CASE Restart
  <2>1. \A q \in Sessions : /\ Closed(fetched'[q]) /\ NoHoles(fetched'[q])
                            /\ \A x \in Symbols : Closed(staged'[q][x])
    BY <1>0, <1>3 DEF Restart, Forget, ClosedInv, Empty
  <2>2. UNCHANGED <<today, bars>>  BY <1>3 DEF Restart
  <2> QED BY <2>1, <2>2 DEF ClosedInv, Closed, NoHoles
<1>4. CASE UNCHANGED vars
  BY <1>4 DEF vars, call, ClosedInv, Closed, NoHoles
<1> QED BY <1>1, <1>2, <1>3, <1>4 DEF Next

(***************************************************************************)
(* Errors and results                                                      *)
(***************************************************************************)

\* What a call can be told of an error happened since it began.
LEMMA StepError ==
  IInv /\ ErrorIsRecent /\ [Next]_vars => (ErrorInv /\ ErrorIsRecent)'
<1> SUFFICES ASSUME IInv, ErrorIsRecent, [Next]_vars
             PROVE  (ErrorInv /\ ErrorIsRecent)'
  OBVIOUS
<1> USE DEF IInv
<1>0. NoResult.error \notin Calls  BY DEF NoResult, Calls
<1>1. ASSUME NEW s \in Sessions, Step(s) PROVE (ErrorInv /\ ErrorIsRecent)'
  <2>0. CASE \/ InspectFails(s) \/ Miss(s) \/ SelectFails(s)
             \/ (Begin(s) /\ service.columns = "none")
    <3>1. PICK x \in Symbols, from \in Int, svc \in Service,
               heard \in [Sessions -> SUBSET Calls] :
            /\ Fetch(s, x, from, svc, heard)
            /\ svc.columns = "known" => InCall(s)
            /\ \A q \in Sessions \ {s} : heard[q] = raised[q]
            /\ \A q \in Sessions : q = s \/ InCall(q) =>
                 svc.error = None \/ svc.error \in heard[q]
      BY <2>0, Fetches
    <3>2. /\ \A q \in Sessions : heard[q] \subseteq raised'[q]
          /\ \/ service'.error = svc.error
             \/ /\ service'.error = <<s, x>>
                /\ \A q \in Sessions : q = s \/ InCall(q) => <<s, x>> \in raised'[q]
      BY <3>1, FetchTells
    <3>3. \A q \in Sessions : q = s \/ InCall(q) =>
            service'.error = None \/ service'.error \in raised'[q]
      BY <3>1, <3>2
    <3>4. \A q \in Sessions \ {s} : raised[q] \subseteq raised'[q]
      BY <3>1, <3>2
    <3>5. \A q \in Sessions \ {s} : InCall(q)' <=> InCall(q)
      BY <3>1, FetchMoves DEF InCall, TypeOK
    <3>6. \/ result' = result /\ InCall(s)
          \/ /\ \A q \in Sessions \ {s} : result'[q] = result[q]
             /\ ~InCall(s)'
             /\ result'[s].error \in {None, service'.error}
      BY <3>1, FetchResult DEF TypeOK
    <3>7. ErrorInv'  BY <3>3, <3>5, <3>6 DEF ErrorInv
    <3>8. ErrorIsRecent'
      BY <1>0, <3>3, <3>4, <3>6 DEF ErrorInv, ErrorIsRecent
    <3> QED BY <3>7, <3>8
  <2>1. CASE ReturnCached(s) \/ WriteCache(s) \/ WriteFails(s)
    <3>1. result'[s].error = None /\ ~InCall(s)'
          /\ \A q \in Sessions \ {s} : result'[q] = result[q] /\ pc'[q] = pc[q]
          /\ UNCHANGED <<service, raised>>
      BY <2>1 DEF ReturnCached, WriteCache, WriteFails, Answered, Return, Goto, InCall, TypeOK
    <3> QED BY <3>1 DEF ErrorInv, ErrorIsRecent, InCall, Calls
  <2>2. CASE CommitSession(s) \/ RollBackSession(s)
    <3>1. Forget({s}) /\ service' = service
      BY <2>2 DEF CommitSession, RollBackSession, EndSession
    <3> QED BY <1>0, <3>1 DEF Forget, ErrorInv, ErrorIsRecent, InCall, TypeOK
  <2>3. CASE Begin(s) /\ service.columns # "none"
    <3>1. service' = Cleared(service) /\ raised' = [raised EXCEPT ![s] = {}]
          /\ result' = [result EXCEPT ![s] = NoResult]
          /\ \A q \in Sessions \ {s} : pc'[q] = pc[q]
      BY <2>3 DEF Begin, Cleared, Service, Goto, TypeOK
    <3>2. service'.error = None  BY <3>1 DEF Cleared, Service, TypeOK
    <3> QED BY <1>0, <3>1, <3>2 DEF ErrorInv, ErrorIsRecent, InCall, TypeOK
  <2>4. CASE Inspect(s) \/ OpenSession(s)
    <3>1. UNCHANGED <<result, raised>> /\ service'.error = service.error
      BY <2>4 DEF Inspect, OpenSession, call, Service, TypeOK
    <3>2. \A q \in Sessions : InCall(q)' => InCall(q)
      BY <2>4 DEF Inspect, OpenSession, Goto, InCall, TypeOK
    <3> QED BY <3>1, <3>2 DEF ErrorInv, ErrorIsRecent
  <2> QED BY <1>1, <2>0, <2>1, <2>2, <2>3, <2>4 DEF Step
<1>2. CASE NextDay
  BY <1>2 DEF NextDay, call, ErrorInv, ErrorIsRecent, InCall
<1>3. CASE Restart
  <2>1. service'.error = None  BY <1>3 DEF Restart, NewService
  <2>2. Forget({s \in Sessions : Opened(s)})  BY <1>3 DEF Restart
  <2>3. \A s \in Sessions : ~InCall(s)'
    BY <2>2 DEF Forget, InCall, Opened
  <2>4. ErrorIsRecent'  BY <1>0, <2>2 DEF Forget, ErrorIsRecent
  <2> QED BY <2>1, <2>3, <2>4 DEF ErrorInv
<1>4. CASE UNCHANGED vars
  BY <1>4 DEF vars, call, ErrorInv, ErrorIsRecent, InCall
<1> QED BY <1>1, <1>2, <1>3, <1>4 DEF Next

\* The bars of a result have no holes: those of the cache lie in the window
\* of a call that is at most a day old, where every set of bars is closed.
LEMMA CachedNoHoles ==
  ASSUME IInv, NEW s \in Sessions, pc[s] = "select" PROVE NoHoles(Cached(s))
<1>1. symbol[s] \in Symbols /\ start[s] \in {today - Lookback, today - Lookback - 1}
  BY DEF IInv, WindowInv, InCall
<1> DEFINE B == bars[symbol[s]] \cup staged[s][symbol[s]]
<1>2. B \in SUBSET Days  BY <1>1 DEF IInv, TypeOK
<1>5. Closed(B)
  <2>1. Closed(bars[symbol[s]]) /\ Closed(staged[s][symbol[s]])
    BY <1>1 DEF IInv, ClosedInv
  <2> QED BY <2>1, ClosedUnion
<1>3. Cached(s) = {d \in B : start[s] <= d /\ d <= start[s] + Lookback}  BY DEF Cached
<1> HIDE DEF B
<1>4. ASSUME NEW d \in Cached(s), NEW f \in Cached(s), NEW e \in Days, d <= e, e <= f
      PROVE  e \in Cached(s)
  <2>1. d \in B /\ f \in B /\ start[s] <= d /\ f <= start[s] + Lookback  BY <1>3
  <2>2. d \in Nat /\ f \in Nat /\ e \in Nat /\ today \in Nat /\ start[s] \in Int
    BY <1>1, <1>2, <2>1 DEF Days, IInv, TypeOK
  <2>3. e = d \/ today - Lookback <= e
    BY <1>1, <1>4, <2>1, <2>2
  <2>4. e \in B  BY <1>4, <1>5, <2>1, <2>3 DEF Closed
  <2> QED BY <1>3, <1>4, <2>1, <2>2, <2>4
<1> QED BY <1>4 DEF NoHoles

LEMMA StepNoHoles == IInv /\ ResultHasNoHoles /\ [Next]_vars => ResultHasNoHoles'
<1> SUFFICES ASSUME IInv, ResultHasNoHoles, [Next]_vars PROVE ResultHasNoHoles'
  OBVIOUS
<1> USE DEF IInv, TypeOK
<1>0. NoHoles(NoResult.bars)  BY DEF NoHoles, NoResult
<1>1. ASSUME NEW s \in Sessions, Step(s) PROVE ResultHasNoHoles'
  <2>0. CASE \/ InspectFails(s) \/ Miss(s) \/ SelectFails(s)
             \/ (Begin(s) /\ service.columns = "none")
    <3>1. \/ result' = result
          \/ \E R \in Result : result' = [result EXCEPT ![s] = R] /\ NoHoles(R.bars)
      BY <2>0, Fetches, FetchResult
    <3> QED BY <3>1 DEF ResultHasNoHoles, NoHoles
  <2>1. CASE ReturnCached(s)
    <3>1. NoHoles(Cached(s))  BY <2>1, CachedNoHoles DEF ReturnCached
    <3>2. result' = [result EXCEPT ![s] =
            [source |-> "cache", bars |-> Cached(s), error |-> None]]
      BY <2>1 DEF ReturnCached, Return
    <3> QED BY <3>1, <3>2 DEF ResultHasNoHoles, NoHoles
  <2>2. CASE WriteCache(s) \/ WriteFails(s)
    <3>1. result' = [result EXCEPT ![s] =
            [source |-> "upstream", bars |-> fetched[s], error |-> None]]
      BY <2>2 DEF WriteCache, WriteFails, Answered, Return
    <3> QED BY <3>1 DEF ResultHasNoHoles, NoHoles, ClosedInv
  <2>3. CASE CommitSession(s) \/ RollBackSession(s)
    BY <1>0, <2>3 DEF CommitSession, RollBackSession, EndSession, Forget,
                      ResultHasNoHoles, NoHoles
  <2>4. CASE Begin(s) /\ service.columns # "none"
    <3>1. result' = [result EXCEPT ![s] = NoResult]
      BY <2>4 DEF Begin, Cleared, Service
    <3> QED BY <1>0, <3>1 DEF ResultHasNoHoles, NoHoles
  <2>5. CASE Inspect(s) \/ OpenSession(s)
    BY <2>5 DEF Inspect, OpenSession, call, ResultHasNoHoles, NoHoles
  <2> QED BY <1>1, <2>0, <2>1, <2>2, <2>3, <2>4, <2>5 DEF Step
<1>2. CASE NextDay  BY <1>2 DEF NextDay, call, ResultHasNoHoles, NoHoles
<1>3. CASE Restart
  BY <1>0, <1>3 DEF Restart, Forget, ResultHasNoHoles, NoHoles
<1>4. CASE UNCHANGED vars  BY <1>4 DEF vars, call, ResultHasNoHoles, NoHoles
<1> QED BY <1>1, <1>2, <1>3, <1>4 DEF Next

(***************************************************************************)
(* Theorems                                                                *)
(***************************************************************************)
Inv == IInv /\ ResultHasNoHoles /\ ErrorIsRecent

(* The lock, the windows, the closed sets of bars and the error field are  *)
(* as IInv says in every state (KLineService, AsyncSessionLocal).          *)
THEOREM Inductive == Spec => []IInv
<1>1. Init => Inv  BY InitInv DEF Inv
<1>2. Inv /\ [Next]_vars => Inv'
  BY StepType, StepWriter, StepWindow, StepClosed, StepError, StepNoHoles DEF Inv, IInv
<1>3. Inv => IInv  BY DEF Inv
<1> QED BY <1>1, <1>2, <1>3, PTL DEF Spec

(* No result has a hole, whatever mixture of days, sessions and failures   *)
(* the cache was filled by (get_cached_or_fetch_daily_bars).               *)
THEOREM NoHole == Spec => []ResultHasNoHoles
<1>1. Init => ResultHasNoHoles  BY InitInv
<1> QED BY <1>1, Inductive, StepNoHoles, PTL DEF Spec

(* A reported error was raised during the call (_last_fetch_error).        *)
THEOREM RecentError == Spec => []ErrorIsRecent
<1>1. Init => ErrorIsRecent  BY InitInv
<1> QED BY <1>1, Inductive, StepError, PTL DEF Spec

(* What a session has stored survives the failure of later writes          *)
(* (_write_cache).                                                         *)
THEOREM KeepsItsBars == Spec => BatchKeepsItsBars
<1>1. ASSUME IInv, [Next]_vars
      PROVE  [\A s \in Sessions : Opened(s) /\ Opened(s)' =>
               \A x \in Symbols : staged[s][x] \subseteq staged'[s][x] \cup bars'[x]]_vars
  <2> SUFFICES ASSUME IInv, [Next]_vars, NEW q \in Sessions, Opened(q), Opened(q)',
                      NEW x \in Symbols
               PROVE  staged[q][x] \subseteq staged'[q][x] \cup bars'[x]
    BY <1>1
  <2> USE DEF IInv
  <2>1. ASSUME NEW s \in Sessions, Step(s)
        PROVE  staged[q][x] \subseteq staged'[q][x] \cup bars'[x]
    <3>1. CASE \/ InspectFails(s) \/ Miss(s) \/ SelectFails(s)
               \/ (Begin(s) /\ service.columns = "none")
      <4>1. staged' = staged  BY <3>1, Fetches
      <4> QED BY <4>1
    <3>2. CASE WriteCache(s)
      <4>1. \/ staged' = [staged EXCEPT ![s] = Added(staged[s], s)]
            \/ staged' = staged
        BY <3>2 DEF WriteCache
      <4>2. staged[s] \in [Symbols -> SUBSET Days]  BY DEF TypeOK
      <4>3. staged[s][x] \subseteq Added(staged[s], s)[x]  BY <4>2 DEF Added
      <4> QED BY <4>1, <4>3 DEF TypeOK
    <3>3. CASE CommitSession(s) \/ RollBackSession(s)
      <4>1. Forget({s})
        BY <3>3 DEF CommitSession, RollBackSession, EndSession
      <4>2. ~Opened(s)'  BY <4>1 DEF Forget, Opened, InCall
      <4> QED BY <4>1, <4>2 DEF Forget
    <3>4. CASE \/ ReturnCached(s) \/ WriteFails(s) \/ Inspect(s) \/ OpenSession(s)
      BY <3>4 DEF ReturnCached, WriteFails, Inspect, OpenSession
    <3>5. CASE Begin(s)  BY <3>5 DEF Begin
    <3> QED BY <2>1, <3>1, <3>2, <3>3, <3>4, <3>5 DEF Step
  <2>2. CASE NextDay  BY <2>2 DEF NextDay
  <2>3. CASE Restart  BY <2>3 DEF Restart, Forget, Opened, InCall
  <2>4. CASE UNCHANGED vars  BY <2>4 DEF vars
  <2> QED BY <1>1, <2>1, <2>2, <2>3, <2>4 DEF Next
<1> QED BY <1>1, Inductive, PTL DEF Spec, BatchKeepsItsBars

(***************************************************************************)
(* The table, as its readers see it                                        *)
(***************************************************************************)
\* Writes and commits add, and nothing else touches the table.
LEMMA TableGrows ==
  ASSUME IInv, [Next]_vars
  PROVE  \A x \in Symbols : bars[x] \subseteq bars'[x]
<1> USE DEF IInv, TypeOK
<1>1. ASSUME NEW s \in Sessions, Step(s) PROVE \A x \in Symbols : bars[x] \subseteq bars'[x]
  <2>1. CASE \/ InspectFails(s) \/ Miss(s) \/ SelectFails(s)
             \/ (Begin(s) /\ service.columns = "none")
    BY <2>1, Fetches
  <2>2. CASE WriteCache(s)
    <3>1. symbol[s] \in Symbols  BY <2>2 DEF WriteCache, WindowInv, InCall
    <3>2. bars' = bars \/ bars' = [bars EXCEPT ![symbol[s]] = bars[symbol[s]] \cup fetched[s]]
      BY <2>2 DEF WriteCache, Added
    <3>3. bars \in [Symbols -> SUBSET Days]  OBVIOUS
    <3> HIDE DEF IInv, TypeOK
    <3> QED BY <3>1, <3>2, <3>3
  <2>3. CASE CommitSession(s) \/ RollBackSession(s)
    <3>1. bars' \in {bars, [x \in Symbols |-> bars[x] \cup staged[s][x]]}
      BY <2>3 DEF CommitSession, RollBackSession, EndSession
    <3> QED BY <3>1
  <2>4. CASE Begin(s) \/ Inspect(s) \/ OpenSession(s) \/ ReturnCached(s) \/ WriteFails(s)
    BY <2>4 DEF Begin, Inspect, OpenSession, ReturnCached, WriteFails
  <2> QED BY <1>1, <2>1, <2>2, <2>3, <2>4 DEF Step
<1>2. CASE NextDay \/ Restart \/ UNCHANGED vars
  BY <1>2 DEF NextDay, Restart, vars
<1> QED BY <1>1, <1>2 DEF Next

LEMMA StepStore == IInv /\ IInv' /\ [Next]_vars => [Store!Next]_(Store!vars)
<1> SUFFICES ASSUME IInv, IInv', [Next]_vars PROVE [Store!Next]_(Store!vars)
  OBVIOUS
<1>1. CASE today' = today
  <2>1. \A x \in Symbols : Closed(bars'[x])
    BY <1>1 DEF IInv, ClosedInv, Closed
  <2>2. Store!Add
    BY <1>1, <2>1, TableGrows DEF Store!Add, Store!Complete, Store!Days, Days, Closed,
         IInv, TypeOK
  <2> QED BY <2>2 DEF Store!Next
<1>2. CASE NextDay
  BY <1>2 DEF NextDay, Store!Next, Store!NextDay, Store!Days, Days, IInv, TypeOK
<1>3. CASE ~NextDay
  <2>1. today' = today
    <3>1. ASSUME NEW s \in Sessions, Step(s) PROVE today' = today
      BY <3>1 DEF Step, OpenSession, Begin, Inspect, InspectFails, ReturnCached, Miss,
           SelectFails, WriteCache, WriteFails, Answered, CommitSession,
           RollBackSession, EndSession
    <3> QED BY <1>3, <3>1 DEF Next, Restart, vars
  <2> QED BY <1>1, <2>1
<1> QED BY <1>2, <1>3

\* KLineCache implements BarStore.
THEOREM StoreRefinement == Spec => ImplementsBarStore
<1>1. Init => Store!Init  BY DEF Init, Empty, Store!Init
<1> QED BY <1>1, StepStore, Inductive, PTL DEF Spec, ImplementsBarStore, Store!Spec
=============================================================================
