---------------------------- MODULE EntrySignals ----------------------------
(***************************************************************************)
(* Entry signals: POST /signals/run with run_momentum_screener, the filter *)
(* of GET /signals and DELETE /signals/stale, with the Moomoo adapter.     *)
(*                                                                         *)
(* A run flushes its row first, and from then on holds SQLite's write lock *)
(* until it commits or fails.  Every row has the time of its flush; the    *)
(* time of a run row is taken before the flush waits for the lock.         *)
(***************************************************************************)
EXTENDS DeskRequests, Integers

CONSTANTS
    Benchmark,   \* SPY
    Failing,     \* symbols whose data are invalid: their verdict is DATA_ERROR
    Limit        \* rows GET /signals reads, 50 in the code

ASSUME SignalAssumption == Benchmark \in Symbols /\ Limit \in Nat

VARIABLES
    runClock,   \* the next creation time of a run,
    clock,      \* and of a signal
    seen,       \* [Requests -> the universe its runtime state had]
    stamp,      \* [Requests -> created_at of the run it makes]
    runs,       \* entry_signal_runs: [Requests -> the status of its row]
    todo,       \* symbols whose signal the run with the lock has to flush
    staged,     \* signals it has flushed
    rows,       \* the signals table
    reported,   \* [Requests -> the run_id of its answer]
    loaded,     \* [Requests -> the rows a clean-up has loaded]
    lastStored, \* history: the last run that committed signals
    steady      \* history: [Requests -> symbols in the universe ever since a
                \* clean-up read it]

signalVars == <<runClock, clock, seen, stamp, runs, todo, staged, rows, reported, loaded,
                lastStored, steady>>
clocks == <<runClock, clock>>
batch == <<todo, staged>>
locals == <<seen, loaded, steady>>
history == <<reported, lastStored>>

\* A local row is left from a time with generated data.
Row == [run: Requests \cup {None}, symbol: Symbols, at: Nat, real: BOOLEAN,
        error: BOOLEAN]

SignalTypeOK ==
    /\ runClock \in Nat /\ clock \in Nat
    /\ seen \in [Requests -> SUBSET Symbols]
    /\ stamp \in [Requests -> Nat]
    /\ runs \in [Requests -> {"ABSENT", "FAILED", "COMPLETED"}]
    /\ todo \subseteq Symbols
    /\ staged \subseteq Row /\ rows \subseteq Row
    /\ reported \in [Requests -> Requests \cup {None}]
    /\ loaded \in [Requests -> SUBSET Row]
    /\ lastStored \in Requests \cup {None}
    /\ steady \in [Requests -> SUBSET Symbols]

SignalInit ==
    /\ runClock = 1 /\ clock = 1
    /\ seen = [r \in Requests |-> {}]
    /\ stamp = [r \in Requests |-> 0]
    /\ runs = [r \in Requests |-> "ABSENT"]
    /\ todo = {} /\ staged = {}
    /\ \E left \in SUBSET {Benchmark} :
         rows = [run: {None}, symbol: left, at: {0}, real: {FALSE}, error: {FALSE}]
    /\ reported = [r \in Requests |-> None]
    /\ loaded = [r \in Requests |-> {}]
    /\ lastStored = None
    /\ steady = [r \in Requests |-> {}]

\* Handlers drop what they have no more use for.
Drop(ended) ==
    /\ seen' = [r \in Requests |-> IF r \in ended THEN {} ELSE seen[r]]
    /\ loaded' = [r \in Requests |-> IF r \in ended THEN {} ELSE loaded[r]]
    /\ steady' = [r \in Requests |-> IF r \in ended THEN {} ELSE steady[r]]

(***************************************************************************)
(* POST /signals/run                                                       *)
(***************************************************************************)
\* The runtime state is built and the INSERT of the run prepared; or the
\* profile asked for does not exist.
Run(r) ==
    /\ \E label \in {"wait", "reject"} : Arrive(r, label)
    /\ seen' = [seen EXCEPT ![r] = universe]
    /\ stamp' = [stamp EXCEPT ![r] = runClock]
    /\ runClock' = runClock + 1
    /\ UNCHANGED <<universe, writer, clock, runs, batch, rows, history, loaded, steady>>

\* A row with the status FAILED, and no run.
Reject(r) ==
    /\ pc[r] = "reject" /\ Free
    /\ runs' = [runs EXCEPT ![r] = "FAILED"]
    /\ Goto(r, "done")
    /\ Drop({r})
    /\ UNCHANGED <<universe, writer, before, clocks, stamp, batch, rows, history>>

Lock(r) ==
    /\ pc[r] = "wait" /\ Free
    /\ writer' = r
    /\ Goto(r, "locked")
    /\ UNCHANGED <<universe, before, signalVars>>

\* SPY is not ready, or the provider raises before any signal is flushed: the
\* run is stored as FAILED.
Fail(r) ==
    /\ pc[r] = "locked"
    /\ runs' = [runs EXCEPT ![r] = "FAILED"]
    /\ writer' = None
    /\ Goto(r, "report")
    /\ Drop({r})
    /\ UNCHANGED <<universe, before, clocks, stamp, batch, rows, history>>

\* screen_candidates: a signal for every symbol but the benchmark, or one
\* error for the benchmark itself.
Screen(r) ==
    /\ pc[r] = "locked"
    /\ todo' \in {seen[r] \ {Benchmark}, {Benchmark}}
    /\ Goto(r, "storing")
    /\ Drop({r})
    /\ UNCHANGED <<universe, writer, before, clocks, stamp, runs, staged, rows, history>>

\* Mutant: a signal has the creation time of its run.
SignalAtRun(r, symbol) ==
    [run |-> r, symbol |-> symbol, at |-> stamp[r], real |-> TRUE,
     error |-> symbol \in Failing]

Signal(r, symbol) ==
    [run |-> r, symbol |-> symbol, at |-> clock, real |-> TRUE,
     error |-> symbol \in Failing]

\* The signals are flushed one by one, by falling score.
Flush(r) ==
    /\ pc[r] = "storing"
    /\ \E symbol \in todo :
         /\ staged' = staged \cup {Signal(r, symbol)}
         /\ todo' = todo \ {symbol}
    /\ clock' = clock + 1
    /\ UNCHANGED <<universe, writer, pc, before, runClock, stamp, runs, rows, history,
                   locals>>

Complete(r) ==
    /\ pc[r] = "storing" /\ todo = {}
    /\ rows' = rows \cup staged
    /\ staged' = {}
    /\ lastStored' = IF staged = {} THEN lastStored ELSE r
    /\ runs' = [runs EXCEPT ![r] = "COMPLETED"]
    /\ writer' = None
    /\ Goto(r, "report")
    /\ UNCHANGED <<universe, before, clocks, stamp, todo, reported, locals>>

\* Mutant: the except branch commits what has been flushed.
DatabaseFailsHalfStored(r) ==
    /\ pc[r] \in {"locked", "storing"}
    /\ runs' = [runs EXCEPT ![r] = "FAILED"]
    /\ rows' = rows \cup staged
    /\ writer' = None
    /\ todo' = {} /\ staged' = {}
    /\ Goto(r, "report")
    /\ Drop({r})
    /\ UNCHANGED <<universe, before, clocks, stamp, history>>

\* A flush or the COMMIT raises.  The session refuses the second commit, in
\* the except branch, until somebody rolls back: nothing is stored, not even
\* the failure, and the answer is 500.
DatabaseFails(r) ==
    /\ pc[r] \in {"locked", "storing"}
    /\ writer' = None
    /\ todo' = {} /\ staged' = {}
    /\ Goto(r, "done")
    /\ Drop({r})
    /\ UNCHANGED <<universe, before, clocks, stamp, runs, rows, history>>

\* The newest of a set of runs.
Newest(candidates) ==
    CHOOSE r \in candidates : \A q \in candidates : stamp[q] <= stamp[r]

\* Mutant: the fallback is the newest run that completed, if there is one.
LatestCompletedRun(r) ==
    LET completed == {q \in Requests : runs[q] = "COMPLETED"}
    IN IF (\E s \in rows : s.run = r) \/ completed = {} THEN r ELSE Newest(completed)

\* _latest_entry_run: the run that has signals of this strategy run, which is
\* its own, or else the newest run there is.
LatestEntryRun(r) ==
    IF \E s \in rows : s.run = r THEN r
    ELSE Newest({q \in Requests : runs[q] # "ABSENT"})

Report(r) ==
    /\ pc[r] = "report"
    /\ reported' = [reported EXCEPT ![r] = LatestEntryRun(r)]
    /\ Goto(r, "done")
    /\ UNCHANGED <<universe, writer, before, clocks, stamp, runs, batch, rows,
                   lastStored, locals>>

(***************************************************************************)
(* GET /signals and DELETE /signals/stale                                  *)
(***************************************************************************)
\* The rows of the filter, the newest of them, and of these the newest of
\* each symbol: the limit comes before the symbols are told apart.
Listing(symbols) ==
    LET eligible == {s \in rows : s.real /\ s.symbol \in symbols}
        page == {s \in eligible : Cardinality({n \in eligible : n.at > s.at}) < Limit}
    IN {s \in page : \A n \in page : n.symbol = s.symbol => n.at <= s.at}

\* Mutant: `or not' for `and not'.
StaleOrNot(s, symbols) ==
    \/ ~s.real \/ s.symbol \notin symbols
    \/ ~(s.real /\ ~s.error /\ s.symbol \in symbols)

\* _load_stale_signals; the second half repeats the first for good rows.
Stale(s, symbols) ==
    /\ ~s.real \/ s.symbol \notin symbols
    /\ ~(s.real /\ ~s.error /\ s.symbol \in symbols)

CleanUp(r) ==
    /\ Arrive(r, "load")
    /\ seen' = [seen EXCEPT ![r] = universe]
    /\ steady' = [steady EXCEPT ![r] = universe]
    /\ UNCHANGED <<universe, writer, clocks, stamp, runs, batch, rows, history, loaded>>

LoadStale(r) ==
    /\ pc[r] = "load"
    /\ loaded' = [loaded EXCEPT ![r] = {s \in rows : Stale(s, seen[r])}]
    /\ Goto(r, "delete")
    /\ UNCHANGED <<universe, writer, before, clocks, stamp, runs, batch, rows, history,
                   seen, steady>>

\* A row that somebody else has deleted is only a warning.
DeleteStale(r) ==
    /\ pc[r] = "delete" /\ Free
    /\ rows' = rows \ loaded[r]
    /\ Goto(r, "done")
    /\ Drop({r})
    /\ UNCHANGED <<universe, writer, before, clocks, stamp, runs, batch, history>>

Signals(r) ==
    \/ Run(r) \/ Reject(r) \/ Lock(r) \/ Fail(r) \/ Screen(r) \/ Flush(r)
    \/ Complete(r) \/ DatabaseFails(r) \/ Report(r)
    \/ CleanUp(r) \/ LoadStale(r) \/ DeleteStale(r)
=============================================================================
