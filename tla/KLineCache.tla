----------------------------- MODULE KLineCache -----------------------------
(***************************************************************************)
(* Daily bars: KLineService.get_cached_or_fetch_daily_bars over the table  *)
(* bars_1d.  One service object serves every session.  A batch session (a  *)
(* guidance or screener run) has SQLite's write lock from its first flush, *)
(* and its bars become visible with its commit.  A reading session (the    *)
(* diagnostics) has no transaction of its own and never commits: the       *)
(* savepoint around a cache write is its outermost one, and releasing it   *)
(* commits.  A failed write goes back to that savepoint without releasing  *)
(* it: from then on the session has a transaction, perhaps with the write  *)
(* lock, and what it writes later is rolled back when it is closed.        *)
(*                                                                         *)
(* The provider is called without an await, so everything from the answer  *)
(* of the SELECT to the next database call is one action.  A day is a      *)
(* trading day; the market has a bar for every day up to some last one.    *)
(***************************************************************************)
EXTENDS Integers

CONSTANTS
    Batches, Readers,  \* sessions
    Symbols,
    Asked,             \* [Sessions -> the symbols it asks for, each of them once]
    None,
    Horizon,           \* last day of a behaviour
    Lookback,          \* kline_lookback_days; every caller asks for 400
    StaleAfter         \* a hit's newest bar is at most so old (5 in the code)

Sessions == Batches \cup Readers
Calls == Sessions \X Symbols
Days == 0 .. Horizon

ASSUME SessionsAssumption ==
    None \notin Sessions \cup Calls /\ Batches \cap Readers = {}
ASSUME AskedAssumption == Asked \in [Sessions -> SUBSET Symbols]
ASSUME DaysAssumption == Horizon \in Nat /\ Lookback \in Nat /\ StaleAfter \in Nat

VARIABLES
    today,
    bars,       \* table: [Symbols -> days with a committed bar]
    staged,     \* [Sessions -> [Symbols -> days in its open transaction]]
    writer,     \* the session that holds the write lock
    unreleased, \* the reading sessions whose savepoint a failed write left open
    pc,         \* where each session is
    todo,       \* symbols a session has still to ask for
    symbol,     \* the symbol of its current call
    start,      \* the first day of the window of its current call
    fetched,    \* the bars its current call has fetched and not yet written
    result,     \* what its last call returned
    service,    \* the KLineService object
    raised      \* history: [Sessions -> calls that raised during its current or
                \* last call]

call == <<symbol, start, fetched, result>>
vars == <<today, bars, staged, writer, unreleased, pc, todo, call, service, raised>>

\* columns is _bars_table_columns (none: the empty set, never inspected again),
\* error is _last_fetch_error (the call whose fetch raised).
Service == [columns: {"unknown", "known", "none"}, error: Calls \cup {None}]
NewService == [columns |-> "unknown", error |-> None]

\* A KLineFetchResult; no bars and no error from upstream is "fetch_failed".
Result == [source: {"none", "cache", "upstream"}, bars: SUBSET Days,
           error: Calls \cup {None}]
NoResult == [source |-> "none", bars |-> {}, error |-> None]

TypeOK ==
    /\ today \in Days
    /\ bars \in [Symbols -> SUBSET Days]
    /\ staged \in [Sessions -> [Symbols -> SUBSET Days]]
    /\ writer \in Sessions \cup {None}
    /\ unreleased \in SUBSET Readers
    /\ pc \in [Sessions -> {"new", "idle", "inspect", "select", "write", "done"}]
    /\ todo \in [Sessions -> SUBSET Symbols]
    /\ symbol \in [Sessions -> Symbols \cup {None}]
    /\ start \in [Sessions -> Int]
    /\ fetched \in [Sessions -> SUBSET Days]
    /\ result \in [Sessions -> Result]
    /\ service \in Service
    /\ raised \in [Sessions -> SUBSET Calls]

Empty == [x \in Symbols |-> {}]

Init ==
    /\ today = 0
    /\ bars = Empty
    /\ staged = [s \in Sessions |-> Empty]
    /\ writer = None
    /\ unreleased = {}
    /\ pc = [s \in Sessions |-> "new"]
    /\ todo = Asked
    /\ symbol = [s \in Sessions |-> None]
    /\ start = [s \in Sessions |-> 0]
    /\ fetched = [s \in Sessions |-> {}]
    /\ result = [s \in Sessions |-> NoResult]
    /\ service = NewService
    /\ raised = [s \in Sessions |-> {}]

(***************************************************************************)
(* Helpers                                                                 *)
(***************************************************************************)
Goto(s, label) == pc' = [pc EXCEPT ![s] = label]
Return(s, source, days, error) ==
    /\ result' = [result EXCEPT ![s] =
         [source |-> source, bars |-> days, error |-> error]]
    /\ fetched' = [fetched EXCEPT ![s] = {}]
    /\ Goto(s, "idle")

InCall(s) == pc[s] \in {"inspect", "select", "write"}
Opened(s) == pc[s] = "idle" \/ InCall(s)
InTransaction(s) == s \in Batches \cup unreleased

\* Bars of the window that a session's SELECT finds, and whether they will do.
Cached(s) == {d \in bars[symbol[s]] \cup staged[s][symbol[s]] :
                 start[s] <= d /\ d <= start[s] + Lookback}
Fresh(s) == \E d \in Cached(s) : d >= start[s] + Lookback - StaleAfter

(***************************************************************************)
(* _fetch and what follows it up to the next suspension: session s asks    *)
(* for symbol x from day `from' on; svc is the service as it is at that    *)
(* moment, heard the history.                                              *)
(***************************************************************************)

\* The provider raises: the message reaches the result through the service.
ProviderRaises(s, x, svc, heard) ==
    /\ service' = [svc EXCEPT !.error = <<s, x>>]
    /\ raised' = [q \in Sessions |->
                    heard[q] \cup IF q = s \/ InCall(q) THEN {<<s, x>>} ELSE {}]
    /\ Return(s, "upstream", {}, <<s, x>>)

\* It has no bars: the result tells the service's error, whoever has set it.
ProviderEmpty(s, svc, heard) ==
    /\ service' = svc /\ raised' = heard
    /\ Return(s, "upstream", {}, svc.error)

\* It has the bars up to some day: they are written next if there is a table.
ProviderAnswers(s, from, svc, heard) ==
    \E last \in Days :
        LET days == {d \in Days : from <= d /\ d <= last} IN
        /\ last <= from + Lookback /\ days # {}
        /\ service' = svc /\ raised' = heard
        /\ IF svc.columns = "known"
           THEN /\ fetched' = [fetched EXCEPT ![s] = days]
                /\ Goto(s, "write") /\ UNCHANGED result
           ELSE Return(s, "upstream", days, None)

\* Mutant: only the newest day is fetched, the older bars being there.
FetchNewest(s, x, from, svc, heard) ==
    \/ ProviderRaises(s, x, svc, heard)
    \/ ProviderEmpty(s, svc, heard)
    \/ ProviderAnswers(s, from + Lookback, svc, heard)

Fetch(s, x, from, svc, heard) ==
    \/ ProviderRaises(s, x, svc, heard)
    \/ ProviderEmpty(s, svc, heard)
    \/ ProviderAnswers(s, from, svc, heard)

(***************************************************************************)
(* get_cached_or_fetch_daily_bars                                          *)
(***************************************************************************)

\* Mutant: the last call's error is left where it is.
NotCleared(svc) == svc

Cleared(svc) == [svc EXCEPT !.error = None]

\* The call starts; with no table to look at, it is over in one go.
Begin(s) ==
    /\ pc[s] = "idle"
    /\ \E x \in todo[s] :
        LET svc == Cleared(service)
            heard == [raised EXCEPT ![s] = {}]
        IN
        /\ todo' = [todo EXCEPT ![s] = @ \ {x}]
        /\ symbol' = [symbol EXCEPT ![s] = x]
        /\ start' = [start EXCEPT ![s] = today - Lookback]
        /\ \/ /\ svc.columns = "none"
              /\ Fetch(s, x, today - Lookback, svc, heard)
           \/ /\ svc.columns # "none"
              /\ service' = svc /\ raised' = heard
              /\ result' = [result EXCEPT ![s] = NoResult]
              /\ Goto(s, IF svc.columns = "unknown" THEN "inspect" ELSE "select")
              /\ UNCHANGED fetched
    /\ UNCHANGED <<today, bars, staged, writer, unreleased>>

\* PRAGMA table_info succeeds, whatever another session found meanwhile.
Inspect(s) ==
    /\ pc[s] = "inspect"
    /\ service' = [service EXCEPT !.columns = "known"]
    /\ Goto(s, "select")
    /\ UNCHANGED <<today, bars, staged, writer, unreleased, todo, call, raised>>

\* It fails: the service takes the table for missing.
InspectFails(s) ==
    /\ pc[s] = "inspect"
    /\ Fetch(s, symbol[s], start[s], [service EXCEPT !.columns = "none"], raised)
    /\ UNCHANGED <<today, bars, staged, writer, unreleased, todo, symbol, start>>

\* The SELECT finds a bar that is new enough.
ReturnCached(s) ==
    /\ pc[s] = "select" /\ Fresh(s)
    /\ Return(s, "cache", Cached(s), None)
    /\ UNCHANGED <<today, bars, staged, writer, unreleased, todo, symbol, start, service, raised>>

\* The SELECT finds none that is new enough.
Miss(s) ==
    /\ pc[s] = "select" /\ ~Fresh(s)
    /\ Fetch(s, symbol[s], start[s], service, raised)
    /\ UNCHANGED <<today, bars, staged, writer, unreleased, todo, symbol, start>>

\* The SELECT fails.
SelectFails(s) ==
    /\ pc[s] = "select"
    /\ Fetch(s, symbol[s], start[s], service, raised)
    /\ UNCHANGED <<today, bars, staged, writer, unreleased, todo, symbol, start>>

\* The answer is returned, with the cache written or not.
Answered(s) ==
    /\ Return(s, "upstream", fetched[s], None)
    /\ UNCHANGED <<today, todo, symbol, start, service, raised>>

\* Mutant: the symbol's rows are replaced by what was fetched.
AddedReplaces(B, s) == [B EXCEPT ![symbol[s]] = fetched[s]]

Added(B, s) == [B EXCEPT ![symbol[s]] = @ \cup fetched[s]]

\* The savepoint is released: into the session's transaction, for which the
\* lock is needed, or into the table.
WriteCache(s) ==
    /\ pc[s] = "write"
    /\ IF InTransaction(s)
       THEN /\ writer \in {None, s} /\ writer' = s
            /\ staged' = [staged EXCEPT ![s] = Added(@, s)]
            /\ UNCHANGED bars
       ELSE /\ writer = None
            /\ bars' = Added(bars, s)
            /\ UNCHANGED <<staged, writer>>
    /\ Answered(s)
    /\ UNCHANGED unreleased

\* What a failed write leaves of a reading session's savepoint: it stays open,
\* with the lock if a statement before the failing one has taken it.
LeftOpen(s) ==
    IF s \in Readers
    THEN /\ unreleased' = unreleased \cup {s}
         /\ \/ UNCHANGED writer
            \/ writer = None /\ writer' = s
    ELSE UNCHANGED <<writer, unreleased>>

\* Mutant: the session is rolled back instead of the savepoint.
WriteFailsWhole(s) ==
    /\ pc[s] = "write"
    /\ Answered(s)
    /\ staged' = [staged EXCEPT ![s] = Empty]
    /\ LeftOpen(s)
    /\ UNCHANGED bars

\* A statement fails, or the lock is not to be had: back to the savepoint.
WriteFails(s) ==
    /\ pc[s] = "write"
    /\ Answered(s)
    /\ LeftOpen(s)
    /\ UNCHANGED <<bars, staged>>

(***************************************************************************)
(* The callers' transactions, the date and the process                     *)
(***************************************************************************)

\* Mutant: the batch reads first and takes the lock with its first write.
OpenWithoutLock(s) ==
    /\ pc[s] = "new"
    /\ IF s \in Batches /\ writer = None THEN writer' = s ELSE UNCHANGED writer
    /\ Goto(s, "idle")
    /\ UNCHANGED <<today, bars, staged, unreleased, todo, call, service, raised>>

\* A batch flushes its run first and so has the lock from the start.
OpenSession(s) ==
    /\ pc[s] = "new"
    /\ IF s \in Batches THEN writer = None /\ writer' = s ELSE UNCHANGED writer
    /\ Goto(s, "idle")
    /\ UNCHANGED <<today, bars, staged, unreleased, todo, call, service, raised>>

\* What a session held of its calls goes with it.
Forget(Q) ==
    /\ pc' = [s \in Sessions |-> IF s \in Q THEN "done" ELSE pc[s]]
    /\ staged' = [s \in Sessions |-> IF s \in Q THEN Empty ELSE staged[s]]
    /\ symbol' = [s \in Sessions |-> IF s \in Q THEN None ELSE symbol[s]]
    /\ start' = [s \in Sessions |-> IF s \in Q THEN 0 ELSE start[s]]
    /\ fetched' = [s \in Sessions |-> IF s \in Q THEN {} ELSE fetched[s]]
    /\ result' = [s \in Sessions |-> IF s \in Q THEN NoResult ELSE result[s]]
    /\ raised' = [s \in Sessions |-> IF s \in Q THEN {} ELSE raised[s]]
    /\ todo' = [s \in Sessions |-> IF s \in Q THEN {} ELSE todo[s]]
    /\ writer' = IF writer \in Q THEN None ELSE writer
    /\ unreleased' = unreleased \ Q

EndSession(s, table) ==
    /\ pc[s] = "idle"
    /\ bars' = table
    /\ Forget({s})
    /\ UNCHANGED <<today, service>>

\* A batch commits or is rolled back; a reading session is closed, which
\* rolls back what it has not released.
CommitSession(s) ==
    s \in Batches /\ EndSession(s, [x \in Symbols |-> bars[x] \cup staged[s][x]])
RollBackSession(s) == EndSession(s, bars)

\* Midnight: a call that is under way began on this day.
NextDay ==
    /\ today < Horizon
    /\ \A s \in Sessions : InCall(s) => start[s] = today - Lookback
    /\ today' = today + 1
    /\ UNCHANGED <<bars, staged, writer, unreleased, pc, todo, call, service, raised>>

\* The process ends; a new one has a new service and no session.
Restart ==
    /\ service' = NewService
    /\ Forget({s \in Sessions : Opened(s)})
    /\ UNCHANGED <<today, bars>>

Step(s) ==
    \/ OpenSession(s) \/ Begin(s) \/ Inspect(s) \/ InspectFails(s)
    \/ ReturnCached(s) \/ Miss(s) \/ SelectFails(s)
    \/ WriteCache(s) \/ WriteFails(s)
    \/ CommitSession(s) \/ RollBackSession(s)

Next == NextDay \/ Restart \/ \E s \in Sessions : Step(s)

Spec == Init /\ [][Next]_vars

(***************************************************************************)
(* Properties                                                              *)
(***************************************************************************)

\* Within the window of a call made today, a set of bars has no hole below
\* its newest bar.
Closed(B) == \A d \in B, e \in Days : today - Lookback <= e /\ e <= d => e \in B

NoHoles(B) == \A d, f \in B, e \in Days : d <= e /\ e <= f => e \in B

WriterInv ==
    /\ \A s \in Batches : writer = s <=> Opened(s)
    /\ \A s \in Readers : writer = s => s \in unreleased
    /\ \A s \in unreleased : Opened(s)
    /\ \A s \in Sessions : writer # s => staged[s] = Empty

WindowInv == \A s \in Sessions :
    InCall(s) => /\ symbol[s] \in Symbols
                 /\ start[s] \in {today - Lookback, today - Lookback - 1}

ClosedInv ==
    /\ \A x \in Symbols : Closed(bars[x])
    /\ \A s \in Sessions :
        /\ Closed(fetched[s]) /\ NoHoles(fetched[s])
        /\ \A x \in Symbols : Closed(staged[s][x])

ErrorInv == \A s \in Sessions :
    /\ InCall(s) /\ service.error # None => service.error \in raised[s]
    /\ InCall(s) => result[s] = NoResult

(* Batches take turns, a reading session has the lock only after a write   *)
(* of its own has failed, only the session that has it has bars of its     *)
(* own, a call's window is today's or yesterday's, and every set of bars   *)
(* is closed; what the other properties follow from                        *)
(* (KLineService, AsyncSessionLocal).                                      *)
IInv == TypeOK /\ WriterInv /\ WindowInv /\ ClosedInv /\ ErrorInv

(* The bars a caller gets, from the cache above all, miss no day between   *)
(* the first and the last of them: the newest bar alone decides on a hit,  *)
(* and what is below it was put there by other calls, on other days, in    *)
(* other transactions (get_cached_or_fetch_daily_bars).                    *)
ResultHasNoHoles == \A s \in Sessions : NoHoles(result[s].bars)

(* The error a caller is told happened during its own call: the field it   *)
(* goes through is shared, but every call clears it (_last_fetch_error).   *)
ErrorIsRecent == \A s \in Sessions :
    result[s].error \in Calls => result[s].error \in raised[s]

(* "A failed write for one symbol does not poison the session or affect    *)
(* other symbols": as long as a session goes on, what it has stored for    *)
(* any symbol stays in its transaction or is in the table (_write_cache).  *)
BatchKeepsItsBars ==
    [][\A s \in Sessions : Opened(s) /\ Opened(s)' =>
          \A x \in Symbols : staged[s][x] \subseteq staged'[s][x] \cup bars'[x]]_vars

-----------------------------------------------------------------------------
Store == INSTANCE BarStore

(* Sessions, failed writes, rollbacks and restarts add whole windows to    *)
(* the table or nothing, and take nothing away (_write_cache).             *)
ImplementsBarStore == Store!Spec
=============================================================================
