----------------------------- MODULE RiskRules -----------------------------
(***************************************************************************)
(* RiskEngine.evaluate: eleven rules over one order context.  The engine   *)
(* keeps no state but the kill switch, so the rules are operators.         *)
(*                                                                         *)
(* Money is counted in whole units and percentages in tenths of a percent. *)
(* A stop of 0 and a position price of 0 are the code's None (a quoted     *)
(* price of zero is turned into None by the adapters); quoteAge is -1 when *)
(* the quote has no last price.  Symbols are compared in upper case there, *)
(* so a symbol here is a class of spellings.  Prices and quantities are    *)
(* natural numbers, held quantities included: no short positions.          *)
(***************************************************************************)
EXTENDS Integers

CONSTANTS
    MaxPosition,       \* max_position_pct
    MaxRisk,           \* max_risk_per_trade_pct
    DailyLossLimit,    \* daily_loss_limit_pct
    SoftDrawdown,      \* max_drawdown_soft_pct
    HardDrawdown,      \* max_drawdown_hard_pct
    MaxQuoteAge,       \* max_quote_age_seconds
    Universe,          \* settings.universe_symbols
    AllowedTypes       \* allowed_order_types

ASSUME LimitsAssumption ==
    /\ MaxPosition \in Nat /\ MaxRisk \in Nat /\ DailyLossLimit \in Nat
    /\ SoftDrawdown \in Nat /\ HardDrawdown \in Nat /\ MaxQuoteAge \in Nat

Distance(a, b) == IF a >= b THEN a - b ELSE b - a

\* share of the total, against a limit in tenths of a percent
Exceeds(value, total, limit) == 1000 * value > total * limit

KillSwitch(ctx) == ctx.kill

BrokerDisconnected(ctx) == ~ctx.connected

StaleQuote(ctx) == ctx.quoteAge > MaxQuoteAge

MissingStopLoss(ctx) == ctx.side = "BUY" /\ ctx.stop <= 0

MustBeLimit(ctx) == ctx.type \notin AllowedTypes

\* An empty universe approves every symbol.
NotInUniverse(ctx) == Universe # {} /\ ctx.symbol \notin Universe

OwnPositions(ctx) == {p \in ctx.positions : p.symbol = ctx.symbol}

\* The loop takes the first position with the symbol; an account has one.
Existing(ctx) ==
    IF OwnPositions(ctx) = {} THEN 0
    ELSE LET p == CHOOSE p \in OwnPositions(ctx) : TRUE IN p.price * p.quantity

PositionValue(ctx) == ctx.price * ctx.quantity

\* Mutant: a sale is taken to shrink the position, as in a signed exposure.
SignedPositionSize(ctx) ==
    /\ ctx.total > 0
    /\ Exceeds(IF ctx.side = "BUY" THEN Existing(ctx) + PositionValue(ctx)
               ELSE Distance(Existing(ctx), PositionValue(ctx)),
               ctx.total, MaxPosition)

\* Mutant: only what is already held is measured, not the new order.
HeldPositionSize(ctx) ==
    /\ ctx.total > 0
    /\ Exceeds(Existing(ctx), ctx.total, MaxPosition)

\* A sale counts like a purchase: the engine adds both.
PositionSizeMax(ctx) ==
    /\ ctx.total > 0
    /\ Exceeds(Existing(ctx) + PositionValue(ctx), ctx.total, MaxPosition)

RiskPerTradeMax(ctx) ==
    /\ ctx.total > 0
    /\ ctx.stop # 0
    /\ Exceeds(Distance(ctx.price, ctx.stop) * ctx.quantity, ctx.total, MaxRisk)

DailyLoss(ctx) == ctx.loss > DailyLossLimit

Drawdown(ctx) == ctx.drawdown > HardDrawdown \/ ctx.drawdown > SoftDrawdown

DuplicateOpenOrder(ctx) ==
    \E o \in ctx.open : /\ o.symbol = ctx.symbol
                        /\ o.side = ctx.side
                        /\ o.status \in {"PENDING", "SUBMITTED"}

\* rule_position_size_max multiplies by a price that is None: evaluate raises.
Raises(ctx) ==
    /\ ctx.total > 0
    /\ \E p \in OwnPositions(ctx) : p.price = 0

\* Every rule is asked, and one objection refuses the order.
Allowed(ctx) ==
    /\ ~KillSwitch(ctx)
    /\ ~BrokerDisconnected(ctx)
    /\ ~StaleQuote(ctx)
    /\ ~MissingStopLoss(ctx)
    /\ ~MustBeLimit(ctx)
    /\ ~NotInUniverse(ctx)
    /\ ~PositionSizeMax(ctx)
    /\ ~RiskPerTradeMax(ctx)
    /\ ~DailyLoss(ctx)
    /\ ~Drawdown(ctx)
    /\ ~DuplicateOpenOrder(ctx)

\* _compute_max_quantity; -1 is None.
MaxQuantity(ctx) ==
    IF ctx.total <= 0 THEN -1
    ELSE IF ctx.price <= 0 THEN 0
    ELSE (ctx.total * MaxPosition) \div (1000 * ctx.price)
=============================================================================
