---------------------------- MODULE DeskRequests ----------------------------
(***************************************************************************)
(* What the routes of signals.py and watchlist.py share: requests that run *)
(* as interleaved tasks, SQLite's single write lock, and the trading       *)
(* universe, which settings requests replace at any time.                  *)
(***************************************************************************)
EXTENDS FiniteSets

CONSTANTS
    Requests,    \* HTTP requests, each made once
    Symbols,
    Universes,   \* the trading universes that may be saved: sets of symbols
    None

ASSUME RequestAssumption == None \notin Requests
ASSUME UniverseAssumption ==
    \A chosen \in Universes : chosen \subseteq Symbols /\ IsFiniteSet(chosen)

VARIABLES
    universe,   \* settings.universe_symbols
    writer,     \* the run that holds the write lock between two of its steps
    pc,         \* [Requests -> where its handler is]
    before      \* history: [Requests -> those finished when it arrived]

Labels == {"new", "done",
           "wait", "reject", "locked", "storing", "report",    \* POST signals/run
           "load", "delete",                                   \* DELETE signals/stale
           "insert", "remove"}                                 \* the watch list

DeskTypeOK ==
    /\ universe \in Universes
    /\ writer \in Requests \cup {None}
    /\ pc \in [Requests -> Labels]
    /\ before \in [Requests -> SUBSET Requests]

DeskInit ==
    /\ universe \in Universes
    /\ writer = None
    /\ pc = [r \in Requests |-> "new"]
    /\ before = [r \in Requests |-> {}]

Goto(r, label) == pc' = [pc EXCEPT ![r] = label]

Arrive(r, label) ==
    /\ pc[r] = "new"
    /\ Goto(r, label)
    /\ before' = [before EXCEPT ![r] = {q \in Requests : pc[q] = "done"}]

\* The first INSERT or DELETE of a session takes the lock; while somebody else
\* has it the session waits, and gives up with "database is locked".
Free == writer = None
=============================================================================
