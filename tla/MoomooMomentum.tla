--------------------------- MODULE MoomooMomentum ---------------------------
(***************************************************************************)
(* The verdict of MoomooMomentumResearchProvider on one symbol.            *)
(*                                                                         *)
(* An observation is a record of what the provider computes from the bars: *)
(* bars (their number, 0 when the fetch failed), finite (no NaN, no        *)
(* infinity), priced (the resolver found a price), above20, above50 and    *)
(* above200 (percent of the price over each average), ret20, ret60, spy20, *)
(* spy60 (returns in percent), volume (percent of its 20-day average, -1   *)
(* when that is zero) and atr (tenths of a percent of the price, 0: none). *)
(***************************************************************************)
EXTENDS Integers

CONSTANTS
    BuyScore, WatchScore, MinBars,   \* *_score_threshold, min_bars
    Margin20, Margin60,              \* underperform_spy_*_hard_fail_margin_pct
    MinVolume,                       \* min_volume_ratio, in percent
    MaxAbove20                       \* max_distance_above_sma20_pct

TrendScore(o) ==
    (IF o.above50 <= 0 THEN 0 ELSE IF o.above50 \in 2..8 THEN 15 ELSE 12)
    + (IF o.above200 > 0 THEN 10 ELSE 0)

\* Mutant: the scores for beating and for trailing SPY over 60 days change
\* places.
SwappedStrengthScore(o) ==
    (IF 2 * o.ret20 > 3 * o.spy20 THEN 12 ELSE IF o.ret20 > o.spy20 THEN 8 ELSE 4)
    + (IF o.ret60 > o.spy60 THEN 4 ELSE 8)

\* Against a falling SPY half as much again is a lower bar, not a higher one.
StrengthScore(o) ==
    (IF 2 * o.ret20 > 3 * o.spy20 THEN 12 ELSE IF o.ret20 > o.spy20 THEN 8 ELSE 4)
    + (IF o.ret60 > o.spy60 THEN 8 ELSE 4)

VolumeScore(o) ==
    IF o.volume < 0 THEN 5
    ELSE IF o.volume > 150 THEN 10
    ELSE IF o.volume > 100 THEN 8
    ELSE IF o.volume > 70 THEN 5 ELSE 2

EntryScore(o) ==
    (IF o.above20 \in 1..2 THEN 8 ELSE IF o.above20 < 0 THEN 4 ELSE 2)
    + (IF o.above50 \in 1..4 THEN 7 ELSE 3)

RewardScore(o) ==
    IF o.atr <= 0 THEN 10
    ELSE IF o.atr < 10 THEN 14
    ELSE IF o.atr < 20 THEN 12
    ELSE IF o.atr < 30 THEN 10
    ELSE IF o.atr < 40 THEN 8 ELSE 6

RegimeScore(o) ==
    IF o.spy20 > 3 THEN 15
    ELSE IF o.spy20 > 0 THEN 12
    ELSE IF o.spy20 > -3 THEN 8 ELSE 4

Score(o) == TrendScore(o) + StrengthScore(o) + VolumeScore(o) + EntryScore(o)
            + RewardScore(o) + RegimeScore(o)

HardFilters == {"price_below_sma50", "price_below_sma200",
                "underperforming_spy_20d", "underperforming_spy_60d",
                "volume_ratio_below_threshold", "price_too_far_above_sma20"}

\* Whether an observation fails a filter; the filters do not depend on one
\* another and all of them are asked.
Fails(o, filter) ==
    CASE filter = "price_below_sma50" -> o.above50 <= 0
      [] filter = "price_below_sma200" -> o.above200 <= 0
      [] filter = "underperforming_spy_20d" -> o.spy20 - o.ret20 > Margin20
      [] filter = "underperforming_spy_60d" -> o.spy60 - o.ret60 > Margin60
      [] filter = "volume_ratio_below_threshold" -> o.volume \in 0..(MinVolume - 1)
      [] filter = "price_too_far_above_sma20" -> o.above20 > MaxAbove20

FailedFilters(o) == {f \in HardFilters : Fails(o, f)}

\* Behind SPY, by no more than the margin (the filter takes what is beyond).
Warned(o) == o.ret20 < o.spy20 \/ o.ret60 < o.spy60

\* A fetch that failed, NaN bars, too short a history, or no price.
DataError(o) == o.bars < MinBars \/ ~o.finite \/ ~o.priced

Verdicts == {"DATA_ERROR", "AVOID", "WATCH", "BUY_STARTER"}

Verdict(o) ==
    IF DataError(o) THEN "DATA_ERROR"
    ELSE IF FailedFilters(o) # {} THEN "AVOID"
    ELSE IF Score(o) >= BuyScore THEN (IF Warned(o) THEN "WATCH" ELSE "BUY_STARTER")
    ELSE IF Score(o) >= WatchScore THEN "WATCH" ELSE "AVOID"
=============================================================================
