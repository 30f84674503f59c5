----------------------------- MODULE SignalDesk -----------------------------
(***************************************************************************)
(* Entry signals and the watch list in one process: overlapping requests   *)
(* to both, settings that change the universe under them, a database that  *)
(* refuses, and restarts.                                                  *)
(***************************************************************************)
EXTENDS EntrySignals, Watchlist

deskVars == <<universe, writer, pc, before>>
vars == <<deskVars, signalVars, watchVars>>

TypeOK == DeskTypeOK /\ SignalTypeOK /\ WatchTypeOK

Init == DeskInit /\ SignalInit /\ WatchInit

Waiting == {"wait", "reject", "delete", "insert", "remove"}

\* A session waiting for the lock, or its COMMIT, gives up: 500.
GiveUp(r) ==
    /\ pc[r] \in Waiting
    /\ Goto(r, "done")
    /\ Drop({r}) /\ DropPlans({r})
    /\ UNCHANGED <<universe, writer, before, clocks, stamp, runs, batch, rows, history,
                   items>>

\* PUT /settings/trading-universe, whose effect is TradingUniverse.
SaveUniverse ==
    /\ universe' \in Universes
    /\ steady' = [r \in Requests |-> steady[r] \cap universe']
    /\ UNCHANGED <<writer, pc, before, clocks, stamp, runs, batch, rows, history, seen,
                   loaded, watchVars>>

\* The process stops, with every request under way, and starts again.
Restart ==
    /\ pc' = [r \in Requests |-> IF pc[r] = "new" THEN "new" ELSE "done"]
    /\ writer' = None
    /\ todo' = {} /\ staged' = {}
    /\ Drop(Requests) /\ DropPlans(Requests)
    /\ UNCHANGED <<universe, before, clocks, stamp, runs, rows, history, items>>

Handle(r) ==
    \/ Signals(r) /\ UNCHANGED watchVars
    \/ Watch(r) /\ UNCHANGED signalVars
    \/ GiveUp(r)

Next == (\E r \in Requests : Handle(r)) \/ SaveUniverse \/ Restart

Spec == Init /\ [][Next]_vars

(***************************************************************************)
(* Properties                                                              *)
(***************************************************************************)
\* Exactly the run between its first flush and its end holds the lock, and
\* only its signals are pending, once it has screened.
LockHeld ==
    /\ \A r \in Requests : writer = r <=> pc[r] \in {"locked", "storing"}
    /\ \A s \in staged : s.run = writer
    /\ (\A r \in Requests : pc[r] # "storing") => staged = {} /\ todo = {}

\* A signal in the table is one of a run that completed, or of before: a run
\* that fails, however far it got, leaves none.
BatchAtomic == \A s \in rows : s.run # None => runs[s.run] = "COMPLETED"

\* A run that reported anything has a row.
ReportedStored ==
    \A r \in Requests : pc[r] = "report" => runs[r] # "ABSENT"

\* A run has no row before it ends.
Undecided ==
    \A r \in Requests :
        pc[r] \in {"new", "wait", "reject", "locked", "storing"} => runs[r] = "ABSENT"

\* No run is made later than now.
StampedInThePast == \A r \in Requests : stamp[r] < runClock

\* The inductive invariant of the batch.
IInv ==
    /\ TypeOK
    /\ LockHeld
    /\ BatchAtomic
    /\ ReportedStored
    /\ Undecided
    /\ StampedInThePast

\* The run a client is told of is its own or one made later: a run without
\* signals is reported under the newest run of all, and that is never a run
\* of before it.
NeverOlderRun ==
    \A r \in Requests :
        reported[r] # None =>
            /\ runs[reported[r]] # "ABSENT"
            /\ stamp[reported[r]] >= stamp[r]

\* Whatever the last run that stored signals says of a symbol of the universe
\* is what GET /signals shows for that symbol, however long other runs waited
\* for the lock and whatever a clean-up removed, as long as the universe fits
\* into the rows it reads.
ListingCurrent ==
    Cardinality(universe) <= Limit =>
        \A s \in rows :
            s.run = lastStored /\ s.run # None /\ s.symbol \in universe
                => s \in Listing(universe)

\* A clean-up deletes no real row of a symbol that was in the universe from
\* the moment it read the universe until it deletes.
CleanUpKeepsReal ==
    [][\A r \in Requests :
          pc[r] = "delete" /\ rows' # rows /\ pc'[r] = "done" =>
              \A s \in rows \ rows' : s.real => s.symbol \notin steady[r]]_vars

\* Two entries of one symbol in one list exist only if the two requests that
\* inserted them overlapped: one after the other, the second is refused.
DuplicatesNeedOverlap ==
    \A i, j \in items :
        i # j /\ SameEntry(i, j) => i.by \notin before[j.by] /\ j.by \notin before[i.by]

-----------------------------------------------------------------------------
Table == INSTANCE SignalTable
           WITH Runs <- Requests, stored <- {r \in Requests : runs[r] = "COMPLETED"}

\* Whatever overlaps, fails or restarts, the table of signals is written the
\* way SignalTable says.
ImplementsSignalTable == Table!Spec
=============================================================================
