----------------------------- MODULE Watchlist -----------------------------
(***************************************************************************)
(* The watch list: the three routes of watchlist.py over the table         *)
(* watchlist_items, which has no unique constraint.  Each route reads and  *)
(* writes behind separate awaits.                                          *)
(***************************************************************************)
EXTENDS DeskRequests

CONSTANTS
    Asked,       \* symbols clients add and remove
    ListNames,
    Default      \* the list of the rows a GET seeds

ASSUME ListAssumption == Asked \subseteq Symbols /\ Default \in ListNames

VARIABLES
    items,   \* the table; a row is told apart by the request that made it
    plan,    \* [Requests -> the rows it is about to insert]
    found    \* [Requests -> the row a removal has found]

watchVars == <<items, plan, found>>

Item == [by: Requests, symbol: Symbols, list: ListNames]

WatchTypeOK ==
    /\ items \subseteq Item
    /\ plan \in [Requests -> SUBSET Item]
    /\ found \in [Requests -> SUBSET Item]

WatchInit ==
    /\ items = {}
    /\ plan = [r \in Requests |-> {}]
    /\ found = [r \in Requests |-> {}]

DropPlans(ended) ==
    /\ plan' = [r \in Requests |-> IF r \in ended THEN {} ELSE plan[r]]
    /\ found' = [r \in Requests |-> IF r \in ended THEN {} ELSE found[r]]

Seeds(r) == [by: {r}, symbol: universe, list: {Default}]

\* GET: an empty list is filled with the universe.
Show(r) ==
    /\ IF items = {}
       THEN plan' = [plan EXCEPT ![r] = Seeds(r)] /\ Arrive(r, "insert")
       ELSE UNCHANGED plan /\ Arrive(r, "done")
    /\ UNCHANGED <<universe, writer, items, found>>

SameEntry(i, j) == i.symbol = j.symbol /\ i.list = j.list

\* Mutant: an existing entry is not refused.
AddAnyway(r) ==
    /\ \E i \in [by: {r}, symbol: Asked, list: ListNames] :
         plan' = [plan EXCEPT ![r] = {i}]
    /\ Arrive(r, "insert")
    /\ UNCHANGED <<universe, writer, items, found>>

\* POST: 400 when the entry exists, and 500 when it exists twice
\* (scalar_one_or_none).
Add(r) ==
    /\ \E i \in [by: {r}, symbol: Asked, list: ListNames] :
         IF \E j \in items : SameEntry(i, j)
         THEN UNCHANGED plan /\ Arrive(r, "done")
         ELSE plan' = [plan EXCEPT ![r] = {i}] /\ Arrive(r, "insert")
    /\ UNCHANGED <<universe, writer, items, found>>

\* The commit of a GET or a POST.  A GET awaits the resolver before, but that
\* takes the universe from the memory before it suspends.
Insert(r) ==
    /\ pc[r] = "insert" /\ Free
    /\ items' = items \cup plan[r]
    /\ Goto(r, "done")
    /\ DropPlans({r})
    /\ UNCHANGED <<universe, writer, before>>

\* DELETE looks in every list: 404 for no row, 500 for more than one.
Remove(r) ==
    /\ \E symbol \in Asked :
         LET matches == {i \in items : i.symbol = symbol}
         IN IF \E i \in matches : matches = {i}
            THEN found' = [found EXCEPT ![r] = matches] /\ Arrive(r, "remove")
            ELSE UNCHANGED found /\ Arrive(r, "done")
    /\ UNCHANGED <<universe, writer, items, plan>>

\* A row that somebody else has deleted is only a warning.
RemoveFound(r) ==
    /\ pc[r] = "remove" /\ Free
    /\ items' = items \ found[r]
    /\ Goto(r, "done")
    /\ DropPlans({r})
    /\ UNCHANGED <<universe, writer, before>>

Watch(r) ==
    Show(r) \/ Add(r) \/ Insert(r) \/ Remove(r) \/ RemoveFound(r)
=============================================================================
