-------------------------- MODULE RiskRulesProofs --------------------------
(***************************************************************************)
(* What the size rules do when an order shrinks, for every limit, price    *)
(* and portfolio.                                                          *)
(***************************************************************************)
EXTENDS RiskRules, TLAPS

\* The context of an order, as evaluate needs it.
Typed(ctx) ==
    /\ ctx = [symbol |-> ctx.symbol, side |-> ctx.side, type |-> ctx.type,
              quantity |-> ctx.quantity, price |-> ctx.price, stop |-> ctx.stop,
              total |-> ctx.total, positions |-> ctx.positions, open |-> ctx.open,
              quoteAge |-> ctx.quoteAge, loss |-> ctx.loss, drawdown |-> ctx.drawdown,
              kill |-> ctx.kill, connected |-> ctx.connected]
    /\ ctx.quantity \in Nat /\ ctx.price \in Nat /\ ctx.stop \in Nat
    /\ ctx.total \in Int
    /\ \A p \in ctx.positions : p.price \in Nat /\ p.quantity \in Nat

LEMMA ProductMonotone ==
    ASSUME NEW a \in Nat, NEW b \in Nat, NEW c \in Nat, a <= b
    PROVE  c * a <= c * b
  BY SMT

LEMMA ProductNatural ==
    ASSUME NEW a \in Nat, NEW b \in Nat
    PROVE  a * b \in Nat
  BY SMT

\* The quotient of a division is the largest factor that fits.
LEMMA QuotientBounds ==
    ASSUME NEW x \in Int, NEW d \in Nat, NEW q \in Nat, d > 0, d * q <= x
    PROVE  q <= x \div d
  BY SMT

\* What is held of a symbol is worth a natural number.
LEMMA ExistingNatural ==
    ASSUME NEW ctx, Typed(ctx)
    PROVE  Existing(ctx) \in Nat
<1>1. CASE OwnPositions(ctx) = {}  BY <1>1 DEF Existing
<1>2. CASE OwnPositions(ctx) # {}
  <2> DEFINE p == CHOOSE p \in OwnPositions(ctx) : TRUE
  <2>1. p \in OwnPositions(ctx)  BY <1>2
  <2>2. p.price \in Nat /\ p.quantity \in Nat  BY <2>1 DEF Typed, OwnPositions
  <2>3. Existing(ctx) = p.price * p.quantity  BY <1>2 DEF Existing
  <2> HIDE DEF p
  <2> QED BY <2>2, <2>3, ProductNatural
<1> QED BY <1>1, <1>2

\* A larger value exceeds whatever a smaller one exceeds.
LEMMA ExceedsMonotone ==
    ASSUME NEW v \in Nat, NEW w \in Nat, NEW total \in Int, NEW limit \in Nat,
           v <= w, ~Exceeds(w, total, limit)
    PROVE  ~Exceeds(v, total, limit)
<1>1. total * limit \in Int  OBVIOUS
<1> QED BY <1>1 DEF Exceeds

\* An order is no worse for being smaller: of the two rules that look at the
\* quantity neither objects, and the others do not notice.
LEMMA SmallerAllowed ==
    ASSUME NEW ctx, Typed(ctx), Allowed(ctx), NEW q \in Nat, q <= ctx.quantity
    PROVE  Allowed([ctx EXCEPT !.quantity = q])
<1> DEFINE small == [ctx EXCEPT !.quantity = q]
<1>1. /\ small.quantity = q
      /\ small.symbol = ctx.symbol /\ small.side = ctx.side /\ small.type = ctx.type
      /\ small.price = ctx.price /\ small.stop = ctx.stop /\ small.total = ctx.total
      /\ small.positions = ctx.positions /\ small.open = ctx.open
      /\ small.quoteAge = ctx.quoteAge /\ small.loss = ctx.loss
      /\ small.drawdown = ctx.drawdown /\ small.kill = ctx.kill
      /\ small.connected = ctx.connected
  BY DEF Typed
<1> HIDE DEF small
<1>2. /\ ctx.quantity \in Nat /\ ctx.price \in Nat /\ ctx.stop \in Nat
      /\ ctx.total \in Int
  BY DEF Typed
<1>3. Existing(small) = Existing(ctx)  BY <1>1 DEF Existing, OwnPositions
<1>4. ~PositionSizeMax(small)
  <2>1. Existing(ctx) \in Nat  BY ExistingNatural
  <2>2. PositionValue(small) \in Nat /\ PositionValue(ctx) \in Nat
        /\ PositionValue(small) <= PositionValue(ctx)
    BY <1>1, <1>2, ProductMonotone, ProductNatural DEF PositionValue
  <2>3. CASE ctx.total > 0
    <3>1. ~Exceeds(Existing(ctx) + PositionValue(ctx), ctx.total, MaxPosition)
      BY <2>3 DEF Allowed, PositionSizeMax
    <3>2. MaxPosition \in Nat  BY LimitsAssumption
    <3>3. ~Exceeds(Existing(ctx) + PositionValue(small), ctx.total, MaxPosition)
      <4> DEFINE v == Existing(ctx) + PositionValue(small)
                 w == Existing(ctx) + PositionValue(ctx)
      <4>1. v \in Nat /\ w \in Nat /\ v <= w  BY <2>1, <2>2
      <4> HIDE DEF v, w
      <4>2. ~Exceeds(w, ctx.total, MaxPosition)  BY <3>1 DEF w
      <4>3. ~Exceeds(v, ctx.total, MaxPosition)
        BY <4>1, <4>2, <3>2, <1>2, ExceedsMonotone
      <4> QED BY <4>3 DEF v
    <3> QED BY <3>3, <1>1, <1>3 DEF PositionSizeMax
  <2>4. CASE ~(ctx.total > 0)  BY <2>4, <1>1 DEF PositionSizeMax
  <2> QED BY <2>3, <2>4
<1>5. ~RiskPerTradeMax(small)
  <2> DEFINE d == Distance(ctx.price, ctx.stop)
  <2>1. d \in Nat  BY <1>2 DEF Distance
  <2> HIDE DEF d
  <2>2. d * q \in Nat /\ d * ctx.quantity \in Nat /\ d * q <= d * ctx.quantity
    BY <2>1, <1>2, ProductMonotone, ProductNatural
  <2>3. CASE ctx.total > 0 /\ ctx.stop # 0
    <3>1. ~Exceeds(d * ctx.quantity, ctx.total, MaxRisk)
      BY <2>3 DEF Allowed, RiskPerTradeMax, d
    <3>2. MaxRisk \in Nat  BY LimitsAssumption
    <3>3. ~Exceeds(d * q, ctx.total, MaxRisk)
      BY <2>2, <3>1, <3>2, <1>2, ExceedsMonotone
    <3> QED BY <3>3, <1>1 DEF RiskPerTradeMax, d
  <2>4. CASE ~(ctx.total > 0 /\ ctx.stop # 0)  BY <2>4, <1>1 DEF RiskPerTradeMax
  <2> QED BY <2>3, <2>4
<1>6. /\ ~KillSwitch(small) /\ ~BrokerDisconnected(small) /\ ~StaleQuote(small)
      /\ ~MissingStopLoss(small) /\ ~MustBeLimit(small) /\ ~NotInUniverse(small)
      /\ ~DailyLoss(small) /\ ~Drawdown(small) /\ ~DuplicateOpenOrder(small)
  BY <1>1 DEF Allowed, KillSwitch, BrokerDisconnected, StaleQuote, MissingStopLoss,
       MustBeLimit, NotInUniverse, DailyLoss, Drawdown, DuplicateOpenOrder
<1> QED BY <1>4, <1>5, <1>6 DEF Allowed, small

\* The maximum an answer offers bounds every order it allows: what fits next
\* to the existing position fits alone.
LEMMA WithinMaximum ==
    ASSUME NEW ctx, Typed(ctx), Allowed(ctx), ctx.price > 0, MaxQuantity(ctx) # -1
    PROVE  ctx.quantity <= MaxQuantity(ctx)
<1> DEFINE x == ctx.total * MaxPosition
           v == ctx.price * ctx.quantity
<1>1. ctx.quantity \in Nat /\ ctx.price \in Nat /\ ctx.total \in Int  BY DEF Typed
<1>2. ctx.total > 0  BY <1>1 DEF MaxQuantity
<1>3. MaxPosition \in Nat  BY LimitsAssumption
<1>4. x \in Int /\ v \in Nat  BY <1>1, <1>3, ProductNatural
<1>5. 1000 * v <= x
  <2>1. Existing(ctx) \in Nat  BY ExistingNatural
  <2>2. ~(1000 * (Existing(ctx) + v) > x)
    BY <1>2 DEF Allowed, PositionSizeMax, Exceeds, PositionValue
  <2> HIDE DEF x, v
  <2> QED BY <2>1, <2>2, <1>4
<1>6. (1000 * ctx.price) * ctx.quantity = 1000 * v  BY <1>1
<1> HIDE DEF x
<1>7. ctx.quantity <= x \div (1000 * ctx.price)
  BY <1>1, <1>4, <1>5, <1>6, QuotientBounds
<1> QED BY <1>7, <1>2, <1>1 DEF MaxQuantity, x

LEMMA QuotientFits ==
    ASSUME NEW x \in Int, NEW d \in Nat, NEW q \in Nat, d > 0, q <= x \div d
    PROVE  d * q <= x
<1>1. x \div d \in Int /\ d * (x \div d) <= x  OBVIOUS
<1> DEFINE y == x \div d
<1>2. y \in Int /\ d * y <= x /\ q <= y  BY <1>1
<1> HIDE DEF y
<1>3. y \in Nat  BY <1>2
<1>4. d * q <= d * y  BY <1>2, <1>3, ProductMonotone
<1>5. d * q \in Int /\ d * y \in Int  BY <1>3
<1> QED BY <1>2, <1>4, <1>5

\* The maximum is exact for a symbol that is not held: the size rule refuses
\* every larger order and no smaller one.  The two are computed in different
\* places, one by multiplying and one by dividing, and round in one direction.
THEOREM MaximumIsExact ==
    ASSUME NEW ctx, Typed(ctx), ctx.total > 0, ctx.price > 0, OwnPositions(ctx) = {},
           NEW q \in Nat
    PROVE  PositionSizeMax([ctx EXCEPT !.quantity = q]) <=> q > MaxQuantity(ctx)
<1> DEFINE order == [ctx EXCEPT !.quantity = q]
           x == ctx.total * MaxPosition
           d == 1000 * ctx.price
<1>1. /\ order.quantity = q /\ order.price = ctx.price /\ order.total = ctx.total
      /\ order.positions = ctx.positions /\ order.symbol = ctx.symbol
  BY DEF Typed
<1> HIDE DEF order
<1>2. ctx.price \in Nat /\ ctx.total \in Int /\ MaxPosition \in Nat
  BY LimitsAssumption DEF Typed
<1>3. x \in Int /\ d \in Nat /\ d > 0  BY <1>2
<1>4. MaxQuantity(ctx) = x \div d  BY <1>2 DEF MaxQuantity
<1>5. Existing(order) = 0  BY <1>1 DEF Existing, OwnPositions
<1>6. PositionSizeMax(order) <=> d * q > x
  <2>1. PositionSizeMax(order) <=> 1000 * (ctx.price * q) > x
    <3>1. ctx.price * q \in Nat  BY <1>2, ProductNatural
    <3>2. 0 + ctx.price * q = ctx.price * q  BY <3>1
    <3> QED BY <1>1, <1>5, <3>2 DEF PositionSizeMax, PositionValue, Exceeds
  <2>2. 1000 * (ctx.price * q) = d * q  BY <1>2
  <2> QED BY <2>1, <2>2
<1> HIDE DEF x, d
<1>7. d * q \in Int /\ x \div d \in Int  BY <1>3
<1>8. d * q <= x <=> q <= x \div d  BY <1>3, QuotientBounds, QuotientFits
<1>9. d * q > x <=> q > x \div d  BY <1>3, <1>7, <1>8
<1> QED BY <1>4, <1>6, <1>9 DEF order
=============================================================================
