------------------------------- MODULE Cockpit -------------------------------
(***************************************************************************)
(* What the cockpit tells the user, over the Moomoo adapter: the preview   *)
(* of an order (preview_order and the risk rules), the price of a symbol   *)
(* (PriceResolver.resolve), the guidance for a position and the verdict on *)
(* a candidate.  The adapter is shared by all of them; the gateway changes *)
(* between any two of its calls, and the process may restart.              *)
(*                                                                         *)
(* Requests keep their data to themselves and share the adapter alone, so  *)
(* one request at a time is in the variable request.                       *)
(***************************************************************************)
EXTENDS MoomooBroker, RiskRules, ProfitTailLadder

CONSTANTS
    Orders,         \* the orders a client may preview
    Books,          \* [Accounts -> total, positions, open orders]
    LastPrice,      \* [symbol -> last price of the quote, 0 for none]
    BarsClose,      \* [symbol -> latest close of the bars passed, None]
    CachedClose,    \* [symbol -> latest close in bars_1d, None]
    Positions,      \* inputs of the guidance ladder
    Observations,   \* inputs of the screener
    Prices,         \* positive prices and
    Returns,        \* returns an answer is compared with
    BuyScore, WatchScore, MinBars, Margin20, Margin60, MinVolume, MaxAbove20

Symbols == DOMAIN LastPrice

ASSUME BooksAssumption ==
    \A a \in Accounts :
        /\ Books[a].total \in Int
        /\ \A p \in Books[a].positions : p.price \in Nat /\ p.quantity \in Nat
ASSUME OrdersAssumption ==
    \A o \in Orders :
        /\ o.symbol \in Symbols
        /\ o.quantity \in Nat /\ o.price \in Nat /\ o.stop \in Nat
ASSUME ClosesAssumption ==
    \A s \in Symbols : /\ LastPrice[s] \in Int
                       /\ {BarsClose[s], CachedClose[s]} \subseteq Int \cup {None}
ASSUME PositionsAssumption ==
    /\ Positions \subseteq
         [quantity: Int, cost: Nat, price: Nat, highest: Nat, weeks: Nat,
          below20: BOOLEAN, below30: BOOLEAN, tail: BOOLEAN, done: SUBSET TrimGains]
    /\ Prices \subseteq Nat \ {0}
ASSUME ObservationsAssumption ==
    /\ Observations \subseteq
         [bars: Nat, finite: BOOLEAN, priced: BOOLEAN, above20: Int, above50: Int,
          above200: Int, ret20: Int, ret60: Int, spy20: Int, spy60: Int, volume: Int,
          atr: Int]
    /\ Returns \subseteq Int
ASSUME ParametersAssumption ==
    {BuyScore, WatchScore, MinBars, Margin20, Margin60, MinVolume, MaxAbove20} \subseteq Nat

Moomoo == INSTANCE MoomooMomentum
Local == INSTANCE LocalMomentum

VARIABLE request

vars == <<adapterVars, gatewayVars, request>>

Idle == [kind |-> "idle"]
Sources == Accounts \cup {None}
Previews ==
    [kind: {"preview"}, order: Orders, kill: BOOLEAN,
     step: {"account", "quote", "positions", "orders", "evaluate",
            "allowed", "refused", "raised"},
     account: Sources, quoteAge: {-1, 0}, positions: Sources, open: Sources]
Lookups ==
    [kind: {"price"}, symbol: Symbols, step: {"quote", "position", "close", "answered"},
     failed: SUBSET {"quote", "positions"}, book: Sources, price: Int \cup {None},
     source: {"none", "quote", "position", "close", "DATA_ERROR"}]
Advices == [kind: {"advice"}, position: Positions, signal: Signals]
Screens == [kind: {"screen"}, seen: Observations, verdict: Moomoo!Verdicts]

\* The adapter is as its class says and the request has one of its shapes.
TypeOK ==
    /\ AdapterTypeOK
    /\ request \in {Idle} \cup Previews \cup Lookups \cup Advices \cup Screens

Init ==
    /\ AdapterInit
    /\ request = Idle

(***************************************************************************)
(* preview_order                                                           *)
(***************************************************************************)
\* The empty answers of a failed read: zeros, no positions, no orders.
Total(source) == IF source = None THEN 0 ELSE Books[source].total
Held(source) == IF source = None THEN {} ELSE Books[source].positions
Open(source) ==
    IF source = None THEN {}
    ELSE {[symbol |-> o.symbol, side |-> o.side, status |-> MappedStatus(o.status)] :
              o \in Books[source].open}

\* The context of the rules.  The preview says `connected' whatever the
\* adapter is; the adapter reports no loss and no drawdown.
ContextOf(order, account, positions, open, quoteAge, kill) ==
    [symbol |-> order.symbol, side |-> order.side, type |-> "LIMIT",
     quantity |-> order.quantity, price |-> order.price, stop |-> order.stop,
     total |-> Total(account), positions |-> Held(positions), open |-> Open(open),
     quoteAge |-> quoteAge, loss |-> 0, drawdown |-> 0,
     kill |-> kill, connected |-> TRUE]
Context(q) == ContextOf(q.order, q.account, q.positions, q.open, q.quoteAge, q.kill)

At(kind, step) == request.kind = kind /\ request.step = step

Preview ==
    /\ request = Idle
    /\ \E order \in Orders, kill \in BOOLEAN :
         request' = [kind |-> "preview", order |-> order, kill |-> kill,
                     step |-> "account", account |-> None, quoteAge |-> -1,
                     positions |-> None, open |-> None]
    /\ UNCHANGED <<adapterVars, gatewayVars>>

ReadAccount ==
    /\ At("preview", "account")
    /\ \E source \in Sources :
         /\ Query(source)
         /\ request' = [request EXCEPT !.account = source, !.step = "quote"]
    /\ UNCHANGED <<connected, gatewayVars>>

\* The quote carries the time of the call, so it is never old.
ReadQuote ==
    /\ At("preview", "quote")
    /\ \E answered \in QuoteAnswers :
         LET last == IF answered THEN LastPrice[request.order.symbol] ELSE 0
         IN request' = [request EXCEPT !.quoteAge = IF last > 0 THEN 0 ELSE -1,
                                       !.step = "positions"]
    /\ UNCHANGED <<adapterVars, gatewayVars>>

ReadPositions ==
    /\ At("preview", "positions")
    /\ \E source \in Sources :
         /\ Query(source)
         /\ request' = [request EXCEPT !.positions = source, !.step = "orders"]
    /\ UNCHANGED <<connected, gatewayVars>>

ReadOrders ==
    /\ At("preview", "orders")
    /\ \E source \in Sources :
         /\ Query(source)
         /\ request' = [request EXCEPT !.open = source, !.step = "evaluate"]
    /\ UNCHANGED <<connected, gatewayVars>>

Evaluate ==
    /\ At("preview", "evaluate")
    /\ request' = [request EXCEPT !.step =
                      IF Raises(Context(request)) THEN "raised"
                      ELSE IF Allowed(Context(request)) THEN "allowed" ELSE "refused"]
    /\ UNCHANGED <<adapterVars, gatewayVars>>

(***************************************************************************)
(* PriceResolver.resolve                                                   *)
(***************************************************************************)
Lookup ==
    /\ request = Idle
    /\ \E symbol \in Symbols :
         request' = [kind |-> "price", symbol |-> symbol, step |-> "quote",
                     failed |-> {}, book |-> None, price |-> None, source |-> "none"]
    /\ UNCHANGED <<adapterVars, gatewayVars>>

Answer(q, price, source) ==
    [q EXCEPT !.price = price, !.source = source, !.step = "answered"]

LookupQuote ==
    /\ At("price", "quote")
    /\ \E answered \in QuoteAnswers :
         request' =
            IF answered /\ LastPrice[request.symbol] > 0
            THEN Answer(request, LastPrice[request.symbol], "quote")
            ELSE [request EXCEPT !.step = "position",
                                 !.failed = IF answered THEN @ ELSE @ \cup {"quote"}]
    /\ UNCHANGED <<adapterVars, gatewayVars>>

\* The position's price when it has one; a nominal price of 0 is None.
PriceHeld(source, symbol) ==
    {p.price : p \in {p \in Held(source) : p.symbol = symbol /\ p.price > 0}}

LookupPosition ==
    /\ At("price", "position")
    /\ \E source \in Sources :
         LET prices == PriceHeld(source, request.symbol)
             asked == [request EXCEPT
                         !.book = source,
                         !.failed = IF source = None THEN @ \cup {"positions"} ELSE @]
         IN /\ Query(source)
            /\ request' = IF prices = {} THEN [asked EXCEPT !.step = "close"]
                          ELSE Answer(asked, CHOOSE p \in prices : TRUE, "position")
    /\ UNCHANGED <<connected, gatewayVars>>

\* Mutant: the bars at hand are asked before the positions.
LookupBarsFirst ==
    /\ request.kind = "price"
    /\ request.step \in {"position", "close"}
    /\ BarsClose[request.symbol] # None
    /\ request' = Answer(request, BarsClose[request.symbol], "close")
    /\ UNCHANGED <<adapterVars, gatewayVars>>

\* The bars passed by the caller have a close.
LookupBars ==
    /\ At("price", "close")
    /\ BarsClose[request.symbol] # None
    /\ request' = Answer(request, BarsClose[request.symbol], "close")
    /\ UNCHANGED <<adapterVars, gatewayVars>>

\* They have none: the cached close, whatever it is, unless its query fails.
LookupCached ==
    /\ At("price", "close")
    /\ BarsClose[request.symbol] = None
    /\ \E close \in {None, CachedClose[request.symbol]} :
         request' = Answer(request, close, IF close = None THEN "DATA_ERROR" ELSE "close")
    /\ UNCHANGED <<adapterVars, gatewayVars>>

(***************************************************************************)
(* The guidance ladder and the screener                                    *)
(***************************************************************************)
Advise ==
    /\ request = Idle
    /\ \E p \in Positions : request' = [kind |-> "advice", position |-> p, signal |-> Signal(p)]
    /\ UNCHANGED <<adapterVars, gatewayVars>>

Screen ==
    /\ request = Idle
    /\ \E o \in Observations :
         request' = [kind |-> "screen", seen |-> o, verdict |-> Moomoo!Verdict(o)]
    /\ UNCHANGED <<adapterVars, gatewayVars>>

(***************************************************************************)
(* The system                                                              *)
(***************************************************************************)
Finished ==
    \/ request.kind \in {"advice", "screen"}
    \/ request.kind = "price" /\ request.step = "answered"
    \/ request.kind = "preview" /\ request.step \in {"allowed", "refused", "raised"}

Respond ==
    /\ Finished
    /\ request' = Idle
    /\ UNCHANGED <<adapterVars, gatewayVars>>

\* OpenD goes away, comes back, or lists other accounts.
GatewayChanges == Gateway /\ UNCHANGED request

\* A new process with a new adapter, connected by the start-up alone.
Restart ==
    /\ Connect
    /\ request' = Idle
    /\ UNCHANGED gatewayVars

Next ==
    \/ Preview \/ ReadAccount \/ ReadQuote \/ ReadPositions \/ ReadOrders \/ Evaluate
    \/ Lookup \/ LookupQuote \/ LookupPosition \/ LookupBars \/ LookupCached
    \/ Advise \/ Screen \/ Respond
    \/ GatewayChanges \/ Restart

Spec == Init /\ [][Next]_vars

(***************************************************************************)
(* Properties                                                              *)
(***************************************************************************)
AllowedPreview == At("preview", "allowed")

\* An order for more than the maximum the same answer offers is refused (the
\* maximum of None offers nothing, and a price of zero has no maximum).
BeyondMaximumRefused ==
    AllowedPreview =>
        LET max == MaxQuantity(Context(request))
        IN max # -1 /\ request.order.price > 0 => request.order.quantity <= max

\* A smaller order is never refused where a larger one is allowed: no rule
\* turns against the user who follows the advice to shrink the order.
ShrinkingNeverHurts ==
    AllowedPreview =>
        \A q \in 0..request.order.quantity :
            Allowed([Context(request) EXCEPT !.quantity = q])

\* A preview that allowed an order read everything from one account, in
\* which the order is allowed, or one of its reads failed.  Mixing the total
\* of one account with the positions of another would allow too much, and a
\* failed read does allow everything: the size rules skip a total of zero.
VerdictIsOfOneAccount ==
    AllowedPreview /\ None \notin {request.account, request.positions, request.open} =>
        \E a \in Accounts :
            Allowed(ContextOf(request.order, a, a, a, request.quoteAge, request.kill))

\* A lookup answers with yesterday's close, or not at all, only if neither
\* the quote nor the position had a price, or asking for it failed.
StaleCloseOnlyAfterFailedRead ==
    request.kind = "price" /\ request.source \in {"close", "DATA_ERROR"} =>
        /\ LastPrice[request.symbol] > 0 => "quote" \in request.failed
        /\ \/ "positions" \in request.failed
           \/ request.book # None /\ PriceHeld(request.book, request.symbol) = {}

\* As the price of a position falls, all else equal, the defence the
\* guidance asks for never becomes less urgent: no loss falls between two
\* thresholds, and no branch shadows a more severe one.
DefenceMonotone ==
    request.kind = "advice" =>
        \A price \in Prices :
            price <= request.position.price =>
                Severity(Signal([request.position EXCEPT !.price = price]))
                    >= Severity(request.signal)

\* A position told to be held, outside the tail, has nothing due: no loss at
\* the review threshold, no drawdown, no profit tail to start, and every
\* trim its gain has reached is done.
NothingDueWhenHeld ==
    request.kind = "advice" /\ request.signal = "HOLD" =>
        LET p == request.position
        IN /\ ~Lost(p, ReviewAt) /\ ~DeepDrawdown(p)
           /\ p.tail => ~GainAtLeast(p, 0)
           /\ ~GainAtLeast(p, TailAt)
           /\ \A g \in TrimGains : GainAtLeast(p, g) => g \in p.done

Rank(verdict) ==
    CASE verdict = "BUY_STARTER" -> 2
      [] verdict = "WATCH" -> 1
      [] OTHER -> 0

\* A candidate with a better return, all else equal, never gets a worse
\* verdict, whatever the market does: the scores, the filters and the
\* warnings agree on what strength is.
StrengthNeverHurts ==
    request.kind = "screen" =>
        \A ret20, ret60 \in Returns :
            ret20 >= request.seen.ret20 /\ ret60 >= request.seen.ret60 =>
                Rank(Moomoo!Verdict([request.seen EXCEPT !.ret20 = ret20, !.ret60 = ret60]))
                    >= Rank(request.verdict)

\* The two providers, whose code is a copy of one another, agree on every
\* candidate they both judge when they give the same reward score.
ProvidersAgree ==
    request.kind = "screen" /\ request.verdict # "DATA_ERROR"
        /\ Moomoo!RewardScore(request.seen) \in Local!Rewards =>
        Local!Verdict(request.seen, Moomoo!RewardScore(request.seen)) = request.verdict
=============================================================================
