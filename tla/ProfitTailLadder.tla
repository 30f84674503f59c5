-------------------------- MODULE ProfitTailLadder --------------------------
(***************************************************************************)
(* The decision ladder of ProfitTailStrategyService._evaluate_position:    *)
(* what the guidance says about one position, given its prices.            *)
(*                                                                         *)
(* A position is a record: quantity, cost (avg_cost, 0 for None), price    *)
(* (resolved, 0 for None), highest (highest_price_since_entry), weeks of   *)
(* history, below20 and below30 (the weekly close against its averages),   *)
(* tail (tail_mode) and done (the trims with their flag set).  Loss        *)
(* thresholds are given as positive percentages.                           *)
(***************************************************************************)
EXTENDS Integers

CONSTANTS
    ReviewAt, StopAddingAt, ReduceAt, ExitAt,   \* loss_defense
    DrawdownExit,                               \* tail_exit.drawdown_exit_pct
    TailAt,                                     \* tail_threshold_pct
    TrimGains                                   \* gain_pct of trim_thresholds

ASSUME LadderAssumption ==
    /\ {ReviewAt, StopAddingAt, ReduceAt, ExitAt, DrawdownExit, TailAt} \subseteq Nat
    /\ 0 < ReviewAt /\ ReviewAt <= StopAddingAt
    /\ StopAddingAt <= ReduceAt /\ ReduceAt <= ExitAt
    /\ TrimGains \subseteq Nat

\* A year of daily bars resampled to weeks must reach the longest average.
MinWeeks == 30

HasData(p) == p.quantity > 0 /\ p.cost > 0 /\ p.weeks >= MinWeeks /\ p.price > 0

GainAtLeast(p, pct) == 100 * (p.price - p.cost) >= pct * p.cost
Lost(p, pct) == 100 * (p.cost - p.price) >= pct * p.cost

\* A price above the stored high raises it first; an unset high is the price.
High(p) == IF p.price > p.highest THEN p.price ELSE p.highest

DeepDrawdown(p) == 100 * (High(p) - p.price) >= DrawdownExit * High(p)

\* Mutant: the loop looks at the highest reached threshold only.
TopTrimOnly(p) ==
    {g \in TrimGains : /\ GainAtLeast(p, g) /\ g \notin p.done
                       /\ \A h \in TrimGains : GainAtLeast(p, h) => h <= g}

\* The loop over the thresholds, highest first, takes the first one that is
\* reached and not done.
DueTrims(p) == {g \in TrimGains : GainAtLeast(p, g) /\ g \notin p.done}

TailSignal(p) ==
    CASE p.below30 -> "EXIT_TAIL"
      [] ~p.below30 /\ p.below20 -> "TRIM_TAIL"
      [] OTHER -> "HOLD_TAIL"

ProfitSignal(p) ==
    CASE GainAtLeast(p, TailAt) -> "ENTER_TAIL_MODE"
      [] ~GainAtLeast(p, TailAt) /\ DueTrims(p) # {} -> "TRIM_PROFIT"
      [] OTHER -> "HOLD"

LossSignals == {"EXIT_POSITION", "REDUCE_RISK", "STOP_ADDING", "REVIEW_POSITION"}
Signals == LossSignals \cup {"EXIT_TAIL", "TRIM_TAIL", "HOLD_TAIL",
                             "ENTER_TAIL_MODE", "TRIM_PROFIT", "HOLD", "DATA_ERROR"}

\* Mutant: the loss defence is asked before the drawdown.
DefenceFirst(p) ==
    IF ~HasData(p) THEN "DATA_ERROR"
    ELSE IF Lost(p, ExitAt) THEN "EXIT_POSITION"
    ELSE IF Lost(p, ReduceAt) THEN "REDUCE_RISK"
    ELSE IF DeepDrawdown(p) THEN "EXIT_POSITION"
    ELSE IF Lost(p, StopAddingAt) THEN "STOP_ADDING"
    ELSE IF Lost(p, ReviewAt) THEN "REVIEW_POSITION"
    ELSE IF p.tail /\ GainAtLeast(p, 0) THEN TailSignal(p)
    ELSE ProfitSignal(p)

\* The if-elif chain.  The alternatives `below the daily SMA200 and ...'
\* repeat the threshold they are or-ed with, and the drawdown branch inside
\* the tail repeats the first branch: neither can decide anything.
Signal(p) ==
    IF ~HasData(p) THEN "DATA_ERROR"
    ELSE IF DeepDrawdown(p) THEN "EXIT_POSITION"
    ELSE IF Lost(p, ExitAt) THEN "EXIT_POSITION"
    ELSE IF Lost(p, ReduceAt) THEN "REDUCE_RISK"
    ELSE IF Lost(p, StopAddingAt) THEN "STOP_ADDING"
    ELSE IF Lost(p, ReviewAt) THEN "REVIEW_POSITION"
    ELSE IF p.tail /\ GainAtLeast(p, 0) THEN TailSignal(p)
    ELSE ProfitSignal(p)

\* How urgent the defence is; profit taking and holding are not defence.
Severity(signal) ==
    CASE signal = "EXIT_POSITION" -> 4
      [] signal = "REDUCE_RISK" -> 3
      [] signal = "STOP_ADDING" -> 2
      [] signal = "REVIEW_POSITION" -> 1
      [] OTHER -> 0
=============================================================================
