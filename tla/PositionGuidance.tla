-------------------------- MODULE PositionGuidance --------------------------
(***************************************************************************)
(* Position Guidance: POST /position-signals/run with                      *)
(* ProfitTailStrategyService.run, and DELETE /position-signals/stale, as   *)
(* tasks that share one SQLite database and one broker connection.         *)
(*                                                                         *)
(* A run flushes its run row first, so it holds SQLite's only write lock   *)
(* from there to its first commit; what it reads and stages in between is  *)
(* private to its session.  Another writer waits for the lock and gives up *)
(* after the driver's timeout ("database is locked").  Reads take no lock. *)
(***************************************************************************)
EXTENDS Integers, FiniteSets

CONSTANTS
    Runs,            \* POST .../run requests, each made once
    Cleanups,        \* DELETE .../stale requests, each made once
    Symbols,
    Prices,          \* positive prices, as integers
    None,            \* nobody holds the write lock
    BrokerRaises,    \* get_positions raises when the broker is unreachable;
                     \* FALSE for MoomooBrokerAdapter, which returns []
    CommitsMayFail   \* a COMMIT may raise for other reasons than the lock

ASSUME PricesAssumption == Prices \subseteq Nat \ {0}
ASSUME TasksAssumption == None \notin Runs /\ Runs \cap Cleanups = {}
ASSUME SymbolsAssumption == IsFiniteSet(Symbols)
ASSUME FlagsAssumption == {BrokerRaises, CommitsMayFail} \subseteq BOOLEAN

VARIABLES
    held,        \* the symbols the account really holds with quantity > 0
    reachable,   \* whether OpenD answers
    peak,        \* history: highest price seen since the position was opened
    high,        \* table: highest_price_since_entry, 0 when there is no row
    signals,     \* table: position_management_signals
    runs,        \* table: status of the position_guidance_runs rows
    issued,      \* history: every signal ever committed
    writer,      \* the run that holds the write lock
    pc,          \* where each run is
    todo,        \* positions a run has still to evaluate
    scanned,     \* positions a run found
    lost,        \* history: positions a run found and could store nothing of
    draft,       \* the highs in a run's session, read and not yet committed
    staged,      \* the signals in a run's session, not yet committed
    cleanup      \* [Cleanups -> where it is and what it read]

account == <<held, reachable, peak>>
tables == <<high, signals, runs, issued>>
session == <<todo, scanned, lost, draft, staged>>
tasks == <<pc, session>>
vars == <<account, tables, writer, tasks, cleanup>>

Larger(a, b) == IF a >= b THEN a ELSE b

\* tail_exit.drawdown_exit_pct = 35
DeepDrawdown(top, price) == (top - price) * 100 >= 35 * top

Kinds == {"EXIT_POSITION", "GUIDANCE", "DATA_ERROR"}
Signal == [run: Runs, symbol: Symbols, kind: Kinds,
           price: Prices \cup {0}, peak: Prices \cup {0}]
Statuses == {"ABSENT", "RUNNING", "COMPLETED", "FAILED"}
Cleaner == [pc: {"new", "fetched", "read", "done"},
            active: SUBSET Symbols, truth: SUBSET Symbols, seen: SUBSET Signal]
Idle == [pc |-> "new", active |-> {}, truth |-> {}, seen |-> {}]

TypeOK ==
    /\ held \subseteq Symbols
    /\ reachable \in BOOLEAN
    /\ peak \in [Symbols -> Prices \cup {0}]
    /\ high \in [Symbols -> Prices \cup {0}]
    /\ signals \subseteq Signal
    /\ issued \subseteq Signal
    /\ runs \in [Runs -> Statuses]
    /\ writer \in Runs \cup {None}
    /\ pc \in [Runs -> {"new", "started", "scanning", "saved", "broken", "done"}]
    /\ todo \in [Runs -> SUBSET Symbols]
    /\ scanned \in [Runs -> SUBSET Symbols]
    /\ lost \in [Runs -> SUBSET Symbols]
    /\ draft \in [Runs -> [Symbols -> Prices \cup {0}]]
    /\ staged \in [Runs -> SUBSET Signal]
    /\ cleanup \in [Cleanups -> Cleaner]

Init ==
    /\ held \in SUBSET Symbols
    /\ reachable = TRUE
    /\ peak = [s \in Symbols |-> 0]
    /\ high = [s \in Symbols |-> 0]
    /\ signals = {} /\ issued = {}
    /\ runs = [r \in Runs |-> "ABSENT"]
    /\ writer = None
    /\ pc = [r \in Runs |-> "new"]
    /\ todo = [r \in Runs |-> {}]
    /\ scanned = [r \in Runs |-> {}]
    /\ lost = [r \in Runs |-> {}]
    /\ draft = [r \in Runs |-> high]
    /\ staged = [r \in Runs |-> {}]
    /\ cleanup = [d \in Cleanups |-> Idle]

(***************************************************************************)
(* The account, which changes without the program                          *)
(***************************************************************************)
Buy(s) ==
    /\ s \notin held
    /\ held' = held \cup {s}
    /\ peak' = [peak EXCEPT ![s] = 0]
    /\ UNCHANGED <<reachable, tables, writer, tasks, cleanup>>

Sell(s) ==
    /\ s \in held
    /\ held' = held \ {s}
    /\ UNCHANGED <<reachable, peak, tables, writer, tasks, cleanup>>

\* OpenD goes away or comes back.
FlipConnection ==
    /\ reachable' = ~reachable
    /\ UNCHANGED <<held, peak, tables, writer, tasks, cleanup>>

(***************************************************************************)
(* One guidance run                                                        *)
(***************************************************************************)
Goto(r, label) == pc' = [pc EXCEPT ![r] = label]
Free == writer = None

\* Mutant: the run row is added without a flush, so nothing is locked.
StartUnlocked(r) ==
    /\ pc[r] = "new"
    /\ writer' = r
    /\ draft' = [draft EXCEPT ![r] = high]
    /\ Goto(r, "started")
    /\ UNCHANGED <<account, tables, todo, scanned, lost, staged, cleanup>>

\* The route adds the run row and flushes: BEGIN; INSERT.
Start(r) ==
    /\ pc[r] = "new"
    /\ Free
    /\ writer' = r
    /\ draft' = [draft EXCEPT ![r] = high]
    /\ Goto(r, "started")
    /\ UNCHANGED <<account, tables, todo, scanned, lost, staged, cleanup>>

\* The flush times out on the lock: 500, outside every try.
StartLocked(r) ==
    /\ pc[r] = "new"
    /\ ~Free
    /\ Goto(r, "done")
    /\ UNCHANGED <<account, tables, writer, session, cleanup>>

\* The strategy profile asked for does not exist.
ProfileMissing(r) ==
    /\ pc[r] = "started"
    /\ runs' = [runs EXCEPT ![r] = "FAILED"]
    /\ writer' = None
    /\ Goto(r, "done")
    /\ UNCHANGED <<account, high, signals, issued, session, cleanup>>

\* get_positions, filtered to quantity > 0; [] stands for "could not ask".
FetchPositions(r) ==
    /\ pc[r] = "started"
    /\ reachable \/ ~BrokerRaises
    /\ LET active == IF reachable THEN held ELSE {} IN
       /\ todo' = [todo EXCEPT ![r] = active]
       /\ scanned' = [scanned EXCEPT ![r] = active]
    /\ Goto(r, "scanning")
    /\ UNCHANGED <<account, tables, writer, lost, draft, staged, cleanup>>

\* get_positions raises: run commits FAILED and re-raises, the route commits
\* FAILED once more.
FetchRaises(r) ==
    /\ pc[r] = "started"
    /\ BrokerRaises /\ ~reachable
    /\ runs' = [runs EXCEPT ![r] = "FAILED"]
    /\ writer' = None
    /\ Goto(r, "done")
    /\ UNCHANGED <<account, high, signals, issued, session, cleanup>>

\* Mutant: the signal is stored without raising the high.
PersistOnly(r, s, kind, price) ==
    LET top == Larger(peak[s], price) IN
    /\ pc[r] = "scanning"
    /\ s \in todo[r]
    /\ todo' = [todo EXCEPT ![r] = @ \ {s}]
    /\ peak' = [peak EXCEPT ![s] = top]
    /\ staged' = [staged EXCEPT ![r] =
         @ \cup {[run |-> r, symbol |-> s, kind |-> kind,
                  price |-> price, peak |-> top]}]
    /\ UNCHANGED <<held, reachable, tables, writer, pc, scanned, lost, draft, cleanup>>

\* Mutant: a failing position is retried instead of being given up.
PersistRetries(r, s, kind, price) ==
    LET top == Larger(peak[s], price) IN
    /\ pc[r] = "scanning"
    /\ s \in todo[r]
    /\ todo' = IF kind = "DATA_ERROR" THEN todo ELSE [todo EXCEPT ![r] = @ \ {s}]
    /\ peak' = [peak EXCEPT ![s] = top]
    /\ draft' = [draft EXCEPT ![r][s] = Larger(@, price)]
    /\ staged' = [staged EXCEPT ![r] =
         @ \cup {[run |-> r, symbol |-> s, kind |-> kind,
                  price |-> price, peak |-> top]}]
    /\ UNCHANGED <<held, reachable, tables, writer, pc, scanned, lost, cleanup>>

\* _persist_signal: the signal joins the session, and a price above the
\* lifecycle row's high raises it.
Persist(r, s, kind, price) ==
    LET top == Larger(peak[s], price) IN
    /\ pc[r] = "scanning"
    /\ s \in todo[r]
    /\ todo' = [todo EXCEPT ![r] = @ \ {s}]
    /\ peak' = [peak EXCEPT ![s] = top]
    /\ draft' = [draft EXCEPT ![r][s] = Larger(@, price)]
    /\ staged' = [staged EXCEPT ![r] =
         @ \cup {[run |-> r, symbol |-> s, kind |-> kind,
                  price |-> price, peak |-> top]}]
    /\ UNCHANGED <<held, reachable, tables, writer, pc, scanned, lost, cleanup>>

\* _evaluate_position with bars and a current price: the drawdown branch is
\* the first of the ladder, and the only one that reads the high.
Evaluate(r, s) ==
    \E p \in Prices :
        LET top == Larger(draft[r][s], p) IN
        Persist(r, s, IF DeepDrawdown(top, p) THEN "EXIT_POSITION" ELSE "GUIDANCE", p)

\* No usable bars or price: a DATA_ERROR row, which carries the cached close
\* (and raises the high with it) when there is one; or the evaluation raises
\* and the loop writes the DATA_ERROR row without a price.
EvaluateError(r, s) == \E c \in Prices \cup {0} : Persist(r, s, "DATA_ERROR", c)

\* Mutant: the inner except leaves the loop.
EvaluateLostBreaks(r, s) ==
    /\ pc[r] = "scanning"
    /\ s \in todo[r]
    /\ todo' = [todo EXCEPT ![r] = {}]
    /\ lost' = [lost EXCEPT ![r] = @ \cup {s}]
    /\ UNCHANGED <<account, tables, writer, pc, scanned, draft, staged, cleanup>>

\* The evaluation raises, and so does the storing of the DATA_ERROR row: the
\* inner except logs it, and the loop goes on with nothing for this position.
EvaluateLost(r, s) ==
    /\ pc[r] = "scanning"
    /\ s \in todo[r]
    /\ todo' = [todo EXCEPT ![r] = @ \ {s}]
    /\ lost' = [lost EXCEPT ![r] = @ \cup {s}]
    /\ UNCHANGED <<account, tables, writer, pc, scanned, draft, staged, cleanup>>

\* First commit: signals, lifecycle rows and the RUNNING row together.
CommitSignals(r) ==
    /\ pc[r] = "scanning" /\ todo[r] = {}
    /\ high' = draft[r]
    /\ signals' = signals \cup staged[r]
    /\ issued' = issued \cup staged[r]
    /\ runs' = [runs EXCEPT ![r] = "RUNNING"]
    /\ writer' = None
    /\ staged' = [staged EXCEPT ![r] = {}]
    /\ Goto(r, "saved")
    /\ UNCHANGED <<account, todo, scanned, lost, draft, cleanup>>

\* Mutant: the status is assigned after the last commit.
CommitCounters(r) ==
    /\ pc[r] = "saved"
    /\ Free
    /\ Goto(r, "done")
    /\ UNCHANGED <<account, tables, writer, session, cleanup>>

\* Second commit: the counters and COMPLETED.
CommitCompleted(r) ==
    /\ pc[r] = "saved"
    /\ Free
    /\ runs' = [runs EXCEPT ![r] = "COMPLETED"]
    /\ Goto(r, "done")
    /\ UNCHANGED <<account, high, signals, issued, writer, session, cleanup>>

\* A commit raises, for the second one also because another run has the
\* lock.  The route's except rolls the session back.
RollBack(r) ==
    /\ \/ CommitsMayFail /\ pc[r] = "scanning" /\ todo[r] = {}
       \/ pc[r] = "saved" /\ (CommitsMayFail \/ ~Free)
    /\ staged' = [staged EXCEPT ![r] = {}]
    /\ writer' = IF writer = r THEN None ELSE writer
    /\ Goto(r, "broken")
    /\ UNCHANGED <<account, tables, todo, scanned, lost, draft, cleanup>>

\* ... then stores the run as FAILED in a new transaction,
CommitFailed(r) ==
    /\ pc[r] = "broken"
    /\ Free
    /\ runs' = [runs EXCEPT ![r] = "FAILED"]
    /\ Goto(r, "done")
    /\ UNCHANGED <<account, high, signals, issued, writer, session, cleanup>>

\* ... or fails at that too: 500, the row stays as it is.
GiveUp(r) ==
    /\ pc[r] = "broken"
    /\ ~Free \/ CommitsMayFail
    /\ Goto(r, "done")
    /\ UNCHANGED <<account, tables, writer, session, cleanup>>

(***************************************************************************)
(* One stale cleanup                                                       *)
(***************************************************************************)
\* Mutant: an error of the broker is taken for an empty account.
CleanupFetchSwallows(d) ==
    /\ cleanup[d].pc = "new"
    /\ cleanup' = [cleanup EXCEPT ![d].pc = "fetched",
                                  ![d].active = IF reachable THEN held ELSE {},
                                  ![d].truth = held]
    /\ UNCHANGED <<account, tables, writer, tasks>>

\* get_positions; an adapter that raises ends the request (success: False).
CleanupFetch(d) ==
    /\ cleanup[d].pc = "new"
    /\ cleanup' =
         IF ~reachable /\ BrokerRaises
         THEN [cleanup EXCEPT ![d].pc = "done"]
         ELSE [cleanup EXCEPT ![d] =
                [@ EXCEPT !.pc = "fetched", !.truth = held,
                          !.active = IF reachable THEN held ELSE {}]]
    /\ UNCHANGED <<account, tables, writer, tasks>>

\* SELECT of every signal.
CleanupRead(d) ==
    /\ cleanup[d].pc = "fetched"
    /\ cleanup' = [cleanup EXCEPT ![d].pc = "read", ![d].seen = signals]
    /\ UNCHANGED <<account, tables, writer, tasks>>

Stale(d) == {x \in cleanup[d].seen : x.symbol \notin cleanup[d].active}

\* DELETE of the stale ones and commit.
CleanupDelete(d) ==
    /\ cleanup[d].pc = "read"
    /\ Free
    /\ signals' = signals \ Stale(d)
    /\ cleanup' = [cleanup EXCEPT ![d].pc = "done"]
    /\ UNCHANGED <<account, high, runs, issued, writer, tasks>>

\* A dry run ends here; so does a delete that waits too long for the lock.
CleanupSkip(d) ==
    /\ cleanup[d].pc = "read"
    /\ cleanup' = [cleanup EXCEPT ![d].pc = "done"]
    /\ UNCHANGED <<account, tables, writer, tasks>>

(***************************************************************************)
(* The process stops: sessions, and with them staged writes, are gone.     *)
(***************************************************************************)
Crash ==
    /\ writer' = None
    /\ staged' = [r \in Runs |-> {}]
    /\ pc' = [r \in Runs |-> IF pc[r] = "new" THEN "new" ELSE "done"]
    /\ cleanup' = [d \in Cleanups |->
         IF cleanup[d].pc = "new" THEN Idle ELSE [cleanup[d] EXCEPT !.pc = "done"]]
    /\ UNCHANGED <<account, tables, todo, scanned, lost, draft>>

RunStep(r) ==
    \/ Start(r) \/ StartLocked(r) \/ ProfileMissing(r)
    \/ FetchPositions(r) \/ FetchRaises(r)
    \/ \E s \in Symbols : Evaluate(r, s) \/ EvaluateError(r, s) \/ EvaluateLost(r, s)
    \/ CommitSignals(r) \/ CommitCompleted(r)
    \/ RollBack(r) \/ CommitFailed(r) \/ GiveUp(r)

CleanupStep(d) ==
    CleanupFetch(d) \/ CleanupRead(d) \/ CleanupDelete(d) \/ CleanupSkip(d)

Account ==
    (\E s \in Symbols : Buy(s) \/ Sell(s)) \/ FlipConnection

Serve ==
    \/ \E r \in Runs : RunStep(r)
    \/ \E d \in Cleanups : CleanupStep(d)
    \/ Account

Next == Serve \/ Crash

Spec == Init /\ [][Next]_vars

\* One run of the server: the event loop goes on with every ready task.
SteadySpec == Init /\ [][Serve]_vars /\ \A r \in Runs : WF_vars(RunStep(r))

(***************************************************************************)
(* Properties                                                              *)
(***************************************************************************)
Batch(r) == {x \in issued : x.run = r}

\* The two tables a run writes agree: no stored signal quotes a price above
\* the stored high of its symbol, whichever runs and crashes came between.
HighCoversSignals == \A x \in signals : x.price <= high[x.symbol]

\* No run ever lowers a stored high, although each writes back the value it
\* read (profit_tail.py:159).
HighNeverFalls == [][\A s \in Symbols : high'[s] >= high[s]]_high

\* "A single failure does not block the entire batch" (README, Per-Symbol
\* Batch Behavior): a run stores one signal for every position it found, but
\* for those whose own storing failed, or it stores none at all; and a
\* COMPLETED run has stored them.
BatchAtomic ==
    \A r \in Runs :
        LET storable == scanned[r] \ lost[r]
            whole == /\ {x.symbol : x \in Batch(r)} = storable
                     /\ Cardinality(Batch(r)) = Cardinality(storable)
        IN /\ Batch(r) = {} \/ whole
           /\ runs[r] = "COMPLETED" => whole

\* "Removes signals for symbols no longer in current holdings" (README, Stale
\* Cleanup): a deleted signal was read by the cleanup and its symbol was not
\* held when the cleanup asked the broker.
CleanupSparesHoldings ==
    [][\A x \in signals \ signals' :
          \E d \in Cleanups : /\ cleanup[d].pc = "read"
                              /\ x \in cleanup[d].seen
                              /\ x.symbol \notin cleanup[d].truth]_signals

\* The column is called highest_price_since_entry and the reason of the exit
\* is a "drawdown from high": the price has fallen that far from one seen
\* since the position was opened.
ExitAfterRealDrawdown ==
    \A x \in signals : x.kind = "EXIT_POSITION" => DeepDrawdown(x.peak, x.price)

\* Every run request is answered, and gives the write lock back.
RunsAnswered == \A r \in Runs : pc[r] = "new" ~> pc[r] = "done" /\ writer # r

\* When commits succeed, the RUNNING row of a request under way becomes
\* COMPLETED or FAILED, unless another run takes the write lock meanwhile.
RunsSettle == \A r \in Runs :
    runs[r] = "RUNNING" /\ pc[r] # "done"
        ~> runs[r] \in {"COMPLETED", "FAILED"} \/ ~Free

-----------------------------------------------------------------------------
\* Strengthening: the lock is held exactly between Start and the first commit,
LockHeld == \A r \in Runs :
    (pc[r] \in {"started", "scanning"}) <=> (writer = r)

\* a session has signals only while its positions are evaluated,
StagedWhileScanning == \A r \in Runs : pc[r] # "scanning" => staged[r] = {}

\* and what the holder has staged is at or above everything stored.
StagedAbove == \A r \in Runs : writer = r =>
    /\ \A s \in Symbols : draft[r][s] >= high[s]
    /\ \A x \in staged[r] : x.price <= draft[r][x.symbol]

\* The inductive invariant behind HighCoversSignals and HighNeverFalls.
IInv == TypeOK /\ LockHeld /\ StagedWhileScanning /\ StagedAbove /\ HighCoversSignals

-----------------------------------------------------------------------------
Table == INSTANCE SignalTable
           WITH rows <- signals, stored <- {r \in Runs : Batch(r) # {}}

\* Whatever fails, crashes or is cleaned up, the table of signals is written
\* the way SignalTable says.
ImplementsSignalTable == Table!Spec
=============================================================================
