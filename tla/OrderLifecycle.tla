--------------------------- MODULE OrderLifecycle ---------------------------
(***************************************************************************)
(* Approving and cancelling stored orders, as the routes of                *)
(* api/routes/orders.py and services/execution/order_service.py do it with *)
(* one of the two adapters that accept orders (mock and paper).            *)
(*                                                                         *)
(* Every HTTP request is an asyncio task with a database session of its    *)
(* own.  Tasks interleave only where a coroutine really suspends: at the   *)
(* database calls.  The local adapters are `async def' bodies without an   *)
(* await, so everything from the return of session.get to the next commit  *)
(* runs without interruption and is one action (the Decide ones).           *)
(*                                                                         *)
(* A broker order id is a fresh uuid made by the one request that places   *)
(* the order, so it is represented by that request.                        *)
(***************************************************************************)
CONSTANTS
    Requests,         \* the HTTP requests of a behaviour, each made once
    Orders,           \* primary keys of the orders table
    Keys,             \* (symbol, side) pairs
    KeyOf,            \* the pair each order row is for
    None,             \* SQL NULL / Python None
    AdapterRefuses,   \* place_limit_order may raise (never in mock/paper)
    CommitsMayFail    \* a COMMIT may raise (locked or full database file)

ASSUME KeyAssumption == KeyOf \in [Orders -> Keys]
ASSUME NoneAssumption == None \notin Requests
ASSUME FlagAssumption ==
    {AdapterRefuses, CommitsMayFail} \subseteq BOOLEAN

VARIABLES
    request,     \* [Requests -> what the client asked for]
    readOnly,    \* RuntimeState.read_only; no step changes it
    pc,          \* [Requests -> where its handler is]
    seen,        \* [Requests -> the row its session loaded]
    outcome,     \* [Requests -> the status it is about to write]
    rows,        \* the orders table
    book,        \* [Requests -> state of the broker order it placed]
    killSwitch,  \* RiskEngine._kill_switch
    audit        \* the audit_logs table

vars == <<request, readOnly, pc, seen, outcome, rows, book, killSwitch, audit>>
asked == <<request, readOnly>>

Kinds == {"approve", "cancel"}
Statuses == {"PENDING", "SUBMITTED", "REJECTED", "FAILED", "CANCELLED"}
\* riskCheck is the nullable column risk_check_passed.
Row == [status: Statuses, brokerId: Requests \cup {None},
        riskCheck: {"unset", "passed", "failed"}]
NewRow == [status |-> "PENDING", brokerId |-> None, riskCheck |-> "unset"]
Entry == [action: Statuses, order: Orders, brokerId: Requests \cup {None}]

TypeOK ==
    /\ request \in [Requests -> [kind: Kinds, order: Orders]]
    /\ readOnly \in BOOLEAN
    /\ pc \in [Requests -> {"new", "loaded", "commit", "log", "done"}]
    /\ seen \in [Requests -> Row]
    /\ outcome \in [Requests -> Statuses]
    /\ rows \in [Orders -> Row]
    /\ book \in [Requests -> {"ABSENT", "SUBMITTED", "CANCELLED"}]
    /\ killSwitch \in BOOLEAN
    /\ audit \subseteq Entry

Init ==
    /\ request \in [Requests -> [kind: Kinds, order: Orders]]
    /\ readOnly \in BOOLEAN
    /\ pc = [r \in Requests |-> "new"]
    /\ seen = [r \in Requests |-> NewRow]
    /\ outcome = [r \in Requests |-> "PENDING"]
    /\ rows = [o \in Orders |-> NewRow]
    /\ book = [r \in Requests |-> "ABSENT"]
    /\ killSwitch = FALSE
    /\ audit = {}

(***************************************************************************)
(* Helpers                                                                 *)
(***************************************************************************)
Target(r) == request[r].order

\* Broker orders the adapter lists as open for a (symbol, side) pair.
OpenOrders(k) == {b \in Requests : book[b] = "SUBMITTED" /\ KeyOf[Target(b)] = k}

\* rule_duplicate_open_order over the adapter's open orders.
DuplicateOpenOrder(o) == OpenOrders(KeyOf[o]) # {}

\* Mutant: the duplicate rule is not in the engine's list.
AllowedDuplicates(o, others) == others /\ ~killSwitch

\* Mutant: the kill switch is left out of the verdict.
AllowedWhenKilled(o, others) == others /\ ~DuplicateOpenOrder(o)

\* RiskEngine.evaluate: `others' is the verdict of the rules about prices,
\* sizes, losses, the quote and the universe, here any Boolean.
Allowed(o, others) == others /\ ~killSwitch /\ ~DuplicateOpenOrder(o)

\* Mutant: every commit writes the id, NULL unless it submits.
WrittenClearsId(row, r) ==
    [status |-> outcome[r],
     brokerId |-> IF outcome[r] = "SUBMITTED" THEN r ELSE None,
     riskCheck |-> IF outcome[r] = "REJECTED" THEN "failed" ELSE "passed"]

\* Mutant: a rejection does not store its verdict.
WrittenOldVerdict(row, r) ==
    [status |-> outcome[r],
     brokerId |-> IF outcome[r] = "SUBMITTED" THEN r ELSE row.brokerId,
     riskCheck |-> IF outcome[r] = "SUBMITTED" THEN "passed" ELSE row.riskCheck]

\* The columns a session writes at commit; the ORM leaves the others alone.
Written(row, r) ==
    [status |-> outcome[r],
     brokerId |-> IF outcome[r] = "SUBMITTED" THEN r ELSE row.brokerId,
     riskCheck |-> IF outcome[r] = "CANCELLED" THEN row.riskCheck
                   ELSE IF outcome[r] = "REJECTED" THEN "failed" ELSE "passed"]

Goto(r, label) == pc' = [pc EXCEPT ![r] = label]
Decided(r, status) ==
    /\ outcome' = [outcome EXCEPT ![r] = status]
    /\ Goto(r, "commit")

(***************************************************************************)
(* The request handlers                                                    *)
(***************************************************************************)
\* Mutant: the route does not ask for the runtime state.
LoadUngated(r) ==
    /\ pc[r] = "new"
    /\ seen' = [seen EXCEPT ![r] = rows[Target(r)]]
    /\ Goto(r, "loaded")
    /\ UNCHANGED <<asked, outcome, rows, book, killSwitch, audit>>

\* The gate of the route, then session.get(Order, order_id).
Load(r) ==
    /\ pc[r] = "new"
    /\ ~readOnly
    /\ seen' = [seen EXCEPT ![r] = rows[Target(r)]]
    /\ Goto(r, "loaded")
    /\ UNCHANGED <<asked, outcome, rows, book, killSwitch, audit>>

\* 403: nothing is read or written.
Forbid(r) ==
    /\ pc[r] = "new"
    /\ readOnly
    /\ Goto(r, "done")
    /\ UNCHANGED <<asked, seen, outcome, rows, book, killSwitch, audit>>

\* The early returns of both handlers: the row loaded is in a wrong status.
\* (For an id without a row they end as early, having done as little.)
Refuse(r) ==
    /\ pc[r] = "loaded"
    /\ \/ request[r].kind = "approve" /\ seen[r].status # "PENDING"
       \/ request[r].kind = "cancel" /\ seen[r].status = "CANCELLED"
    /\ Goto(r, "done")
    /\ UNCHANGED <<asked, seen, outcome, rows, book, killSwitch, audit>>

Approving(r) ==
    /\ pc[r] = "loaded"
    /\ request[r].kind = "approve"
    /\ seen[r].status = "PENDING"

\* All rules pass: the order is placed and the row is about to say SUBMITTED.
DecidePlace(r) ==
    /\ Approving(r)
    /\ Allowed(Target(r), TRUE)
    /\ book' = [book EXCEPT ![r] = "SUBMITTED"]
    /\ Decided(r, "SUBMITTED")
    /\ UNCHANGED <<asked, seen, rows, killSwitch, audit>>

\* All rules pass but place_limit_order raises.
DecideFail(r) ==
    /\ Approving(r)
    /\ AdapterRefuses
    /\ Allowed(Target(r), TRUE)
    /\ Decided(r, "FAILED")
    /\ UNCHANGED <<asked, seen, rows, book, killSwitch, audit>>

\* Some rule gives a reason.
DecideReject(r) ==
    /\ Approving(r)
    /\ \E others \in BOOLEAN : ~Allowed(Target(r), others)
    /\ Decided(r, "REJECTED")
    /\ UNCHANGED <<asked, seen, rows, book, killSwitch, audit>>

\* cancel_existing_order: the adapter marks an order it knows, and silently
\* ignores an id it does not know.
DecideCancel(r) ==
    /\ pc[r] = "loaded"
    /\ request[r].kind = "cancel"
    /\ seen[r].status # "CANCELLED"
    /\ book' = [b \in Requests |->
                  IF b = seen[r].brokerId /\ book[b] # "ABSENT"
                  THEN "CANCELLED" ELSE book[b]]
    /\ Decided(r, "CANCELLED")
    /\ UNCHANGED <<asked, seen, rows, killSwitch, audit>>

\* Mutant: the handler returns without an audit entry.
CommitUnlogged(r) ==
    /\ pc[r] = "commit"
    /\ rows' = [rows EXCEPT ![Target(r)] = Written(@, r)]
    /\ Goto(r, "done")
    /\ UNCHANGED <<asked, seen, outcome, book, killSwitch, audit>>

\* session.commit() of the row; there is no version column, the last wins.
Commit(r) ==
    /\ pc[r] = "commit"
    /\ rows' = [rows EXCEPT ![Target(r)] = Written(@, r)]
    /\ Goto(r, "log")
    /\ UNCHANGED <<asked, seen, outcome, book, killSwitch, audit>>

\* log_action: an entry in a transaction of its own.
Log(r) ==
    /\ pc[r] = "log"
    /\ audit' = audit \cup
         {[action |-> outcome[r], order |-> Target(r),
           brokerId |-> IF outcome[r] = "SUBMITTED" THEN r ELSE None]}
    /\ Goto(r, "done")
    /\ UNCHANGED <<asked, seen, outcome, rows, book, killSwitch>>

\* A commit raises.  The session is then unusable until a rollback nobody
\* issues, so the commit of the except branch raises too: nothing is stored.
CommitFails(r) ==
    /\ CommitsMayFail
    /\ pc[r] \in {"commit", "log"}
    /\ Goto(r, "done")
    /\ UNCHANGED <<asked, seen, outcome, rows, book, killSwitch, audit>>

(***************************************************************************)
(* The operator and the process                                            *)
(***************************************************************************)
\* POST /api/v1/risk/kill-switch.
SetKillSwitch(enabled) ==
    /\ killSwitch # enabled
    /\ killSwitch' = enabled
    /\ UNCHANGED <<asked, pc, seen, outcome, rows, book, audit>>

\* The server stops and starts: tables survive, everything in memory (the
\* requests under way, the adapter's orders, the kill switch) does not.
Restart ==
    /\ pc' = [r \in Requests |-> IF pc[r] = "new" THEN "new" ELSE "done"]
    /\ book' = [r \in Requests |-> "ABSENT"]
    /\ killSwitch' = FALSE
    /\ UNCHANGED <<asked, seen, outcome, rows, audit>>

Handle(r) ==
    \/ Load(r) \/ Forbid(r) \/ Refuse(r)
    \/ DecidePlace(r) \/ DecideFail(r) \/ DecideReject(r) \/ DecideCancel(r)
    \/ Commit(r) \/ Log(r) \/ CommitFails(r)

Serve ==
    \/ \E r \in Requests : Handle(r)
    \/ \E enabled \in BOOLEAN : SetKillSwitch(enabled)

Next == Serve \/ Restart

Spec == Init /\ [][Next]_vars

\* One run of the server.  The event loop runs every ready task, so a
\* handler that can go on does.
SteadySpec ==
    Init /\ [][Serve]_vars /\ \A r \in Requests : WF_vars(Handle(r))

(***************************************************************************)
(* Properties                                                              *)
(***************************************************************************)
\* The broker never holds two open orders for one symbol and side, whatever
\* approvals and cancellations overlap (rule_duplicate_open_order).
NoDuplicateOpenOrder ==
    \A k \in Keys : \A a, b \in OpenOrders(k) : a = b

\* An open broker order can be found again: its row carries its id, or the
\* request that placed it is about to commit that id.
OpenOrderTraceable ==
    \A b \in Requests : book[b] = "SUBMITTED" =>
        \/ rows[Target(b)].brokerId = b
        \/ pc[b] = "commit" /\ outcome[b] = "SUBMITTED"

\* However the commits of overlapping requests interleave, the status of a
\* row and its stored risk verdict come from one and the same decision.
VerdictMatchesStatus ==
    \A o \in Orders : LET row == rows[o] IN
        /\ row.status = "SUBMITTED" => row.riskCheck = "passed" /\ row.brokerId # None
        /\ row.status = "REJECTED" => row.riskCheck = "failed"
        /\ row.status = "FAILED" => row.riskCheck = "passed"

\* An id stored in a row or in the audit trail was issued for that very
\* order to an approval, and an audited order has left PENDING.
RecordsTruthful ==
    /\ \A o \in Orders : rows[o].brokerId # None =>
          LET b == rows[o].brokerId IN
          request[b] = [kind |-> "approve", order |-> o]
    /\ \A e \in audit :
          /\ rows[e.order].status # "PENDING"
          /\ e.action = "SUBMITTED" => rows[e.order].brokerId # None

\* A refused or rejected approval leaves nothing at the broker: only a
\* request that decided SUBMITTED ever has an order there.
NoOrderWithoutApproval ==
    \A b \in Requests : book[b] # "ABSENT" =>
        outcome[b] = "SUBMITTED" /\ pc[b] \in {"commit", "log", "done"}

\* In read-only mode the order routes change neither tables nor broker.
ReadOnlyIsInert ==
    readOnly => /\ rows = [o \in Orders |-> NewRow]
                /\ book = [r \in Requests |-> "ABSENT"]
                /\ audit = {}

\* No order reaches the broker while the kill switch is on, even when it is
\* thrown after the approval has read the row.
KillSwitchStopsPlacement ==
    [][\A b \in Requests : book[b] = "ABSENT" /\ book'[b] = "SUBMITTED" =>
          ~killSwitch /\ ~killSwitch']_vars

\* approve_order accepts PENDING orders only (order_service.py:79): an order
\* goes to the broker only while its row says PENDING.
PlacedOnlyWhilePending ==
    [][\A b \in Requests : book[b] = "ABSENT" /\ book'[b] = "SUBMITTED" =>
          rows[Target(b)].status = "PENDING"]_vars

\* A committed submission is eventually in the audit trail, written by a
\* transaction of its own, when no restart comes between.
SubmissionsAudited ==
    \A o \in Orders : rows[o].status = "SUBMITTED" ~>
        \E e \in audit : e.order = o /\ e.action = "SUBMITTED"

(***************************************************************************)
(* The inductive strengthening of the properties above                     *)
(***************************************************************************)
\* A request that has decided holds a decision its handler can make.
DecisionsLegal ==
    \A r \in Requests : pc[r] \in {"commit", "log"} =>
        /\ outcome[r] # "PENDING"
        /\ outcome[r] = "SUBMITTED" => request[r].kind = "approve"

\* A request that is logging has committed its row.
LoggedAfterCommit ==
    \A r \in Requests : pc[r] = "log" =>
        /\ rows[Target(r)].status # "PENDING"
        /\ outcome[r] = "SUBMITTED" => rows[Target(r)].brokerId # None

\* Broker ids become visible to other requests by a commit only.
IdsPublished ==
    /\ \A o \in Orders : rows[o].brokerId # None =>
          pc[rows[o].brokerId] \in {"log", "done"}
    /\ \A r \in Requests : seen[r].brokerId # None =>
          pc[seen[r].brokerId] \in {"log", "done"}

\* So nobody can cancel an order before its own request has committed it.
UncommittedStaysOpen ==
    \A b \in Requests : pc[b] = "commit" /\ outcome[b] = "SUBMITTED" =>
        book[b] = "SUBMITTED"

\* Behind the closed gate no handler gets past its first step.
GateHolds == readOnly => \A r \in Requests : pc[r] \in {"new", "done"}

IInv ==
    /\ TypeOK
    /\ NoDuplicateOpenOrder
    /\ NoOrderWithoutApproval
    /\ VerdictMatchesStatus
    /\ RecordsTruthful
    /\ DecisionsLegal
    /\ LoggedAfterCommit
    /\ IdsPublished
    /\ UncommittedStaysOpen
    /\ ReadOnlyIsInert
    /\ GateHolds
    /\ ~CommitsMayFail => OpenOrderTraceable

(***************************************************************************)
(* Refinement                                                              *)
(***************************************************************************)
Open == {b \in Requests : book[b] = "SUBMITTED"}
LiveOrder(b) == [id |-> b, key |-> KeyOf[Target(b)]]

Abstract == INSTANCE BrokerBook
              WITH Ids <- Requests, live <- {LiveOrder(b) : b \in Open}

\* However requests overlap, the broker sees what BrokerBook allows.
ImplementsBrokerBook == Abstract!Spec
=============================================================================
