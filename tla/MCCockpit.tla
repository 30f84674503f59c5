------------------------------ MODULE MCCockpit ------------------------------
\* An instance of Cockpit for TLC: a large real account and a small simulated
\* one, orders around every limit, prices around every rung of the ladder and
\* indicators around every threshold of the screener.
EXTENDS Cockpit, TLC

CONSTANTS real, simulated, a, b

MCListings == {<<>>, <<real>>, <<real, simulated>>}
MCBooks ==
    [x \in Accounts |->
       IF x = real
       THEN [total |-> 1000, positions |-> {[symbol |-> a, quantity |-> 4, price |-> 10],
                                          [symbol |-> b, quantity |-> 6, price |-> 10]},
             open |-> {[symbol |-> a, side |-> "SELL", status |-> "WAITING_SUBMIT"]}]
       ELSE [total |-> 400, positions |-> {[symbol |-> b, quantity |-> 1, price |-> 0]},
             open |-> {[symbol |-> a, side |-> "BUY", status |-> "FILLED_PART"]}]]
MCOrders ==
    [symbol: {a, b}, side: {"BUY", "SELL"}, quantity: {0, 1, 2, 3, 6}, price: {0, 10},
     stop: {0, 9}]
MCLastPrice == a :> 11 @@ b :> 0
MCBarsClose == a :> 9 @@ b :> None
MCCachedClose == a :> 9 @@ b :> 0

MCPrices == {65, 70, 71, 80, 85, 92, 93, 100, 125, 150, 180, 200}
MCPositions ==
    {[quantity |-> 1, cost |-> 100, price |-> p, highest |-> h, weeks |-> 30,
      below20 |-> b30 \/ b20, below30 |-> b30, tail |-> t, done |-> d] :
        p \in MCPrices, h \in {0, 110, 200},
        b20 \in BOOLEAN, b30 \in BOOLEAN, t \in BOOLEAN,
        d \in {{}, {50}, {25, 50, 75}}}
    \cup [quantity: {0, 1}, cost: {0, 100}, price: {0, 65}, highest: {110},
          weeks: {29, 30}, below20: {TRUE}, below30: {TRUE}, tail: {TRUE}, done: {{}}]

\* The 60-day returns of a symbol are measured against a flat SPY.
MCReturns == {-10, -5, -3, 1, 8}
MCObservations ==
    {[bars |-> 250, finite |-> TRUE, priced |-> TRUE,
      above20 |-> a20, above50 |-> a50, above200 |-> 1,
      ret20 |-> spy + r20, ret60 |-> r60, spy20 |-> spy, spy60 |-> 0,
      volume |-> v, atr |-> t] :
        a20 \in {-1, 2, 16}, a50 \in {1, 4, 9},
        spy \in {-6, -1, 2, 4}, r20 \in {-4, -2, 1, 3}, r60 \in {-6, -4, 1},
        v \in {-1, 60, 160}, t \in {5, 45}}
    \cup [bars: {0, 210, 250}, finite: BOOLEAN, priced: BOOLEAN,
          above20: {2}, above50: {-1, 4}, above200: {-1, 1}, ret20: {4}, ret60: {1},
          spy20: {2}, spy60: {0}, volume: {40, 160}, atr: {0}]
=============================================================================
