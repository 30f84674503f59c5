--------------------------- MODULE LocalMomentum ---------------------------
(***************************************************************************)
(* The verdict of LocalMomentumResearchProvider, the generated-data twin   *)
(* of the Moomoo provider, on the same observations (see MoomooMomentum).  *)
(* Its code is a copy: its own filters, scores and fixed thresholds.  The  *)
(* runner builds it without parameters, so the margins are the defaults of *)
(* screen_candidates.  The reward score is a random number, an argument.   *)
(***************************************************************************)
EXTENDS Integers

BuyThreshold == 75
WatchThreshold == 65
Rewards == 8..14

Score(o, reward) ==
    LET trend == IF o.above50 > 0 THEN 10 + (IF 2 <= o.above50 /\ o.above50 <= 8 THEN 5 ELSE 2) ELSE 0
        long == IF o.above200 > 0 THEN 10 ELSE 0
        short == IF 2 * o.ret20 > 3 * o.spy20 THEN 12
                 ELSE IF o.ret20 > o.spy20 THEN 8 ELSE 4
        medium == IF o.ret60 > o.spy60 THEN 8 ELSE 4
        volume == CASE o.volume < 0 \/ o.volume \in 71..100 -> 5
                    [] o.volume > 150 -> 10
                    [] o.volume \in 101..150 -> 8
                    [] o.volume \in 0..70 -> 2
        entry20 == IF 0 < o.above20 /\ o.above20 < 3 THEN 8
                   ELSE IF o.above20 < 0 THEN 4 ELSE 2
        entry50 == IF 0 < o.above50 /\ o.above50 < 5 THEN 7 ELSE 3
        regime == CASE o.spy20 > 3 -> 15
                    [] o.spy20 \in 1..3 -> 12
                    [] o.spy20 \in -2..0 -> 8
                    [] o.spy20 <= -3 -> 4
    IN trend + long + short + medium + volume + entry20 + entry50 + reward + regime

\* Mutant: the copy allows the margin of the 20-day return for both.
HardFilteredSameMargin(o) ==
    \/ o.above50 <= 0 \/ o.above200 <= 0
    \/ o.spy20 - o.ret20 > 3 \/ o.spy60 - o.ret60 > 3
    \/ 0 <= o.volume /\ o.volume < 50
    \/ o.above20 > 15

HardFiltered(o) ==
    \/ o.above50 <= 0 \/ o.above200 <= 0
    \/ o.spy20 - o.ret20 > 3 \/ o.spy60 - o.ret60 > 5
    \/ 0 <= o.volume /\ o.volume < 50
    \/ o.above20 > 15

Behind(o) == o.ret20 < o.spy20 \/ o.ret60 < o.spy60

\* A symbol with a short history is left out of the result.
Verdict(o, reward) ==
    CASE ~o.finite -> "DATA_ERROR"
      [] o.finite /\ o.bars < 200 -> "LEFT_OUT"
      [] o.finite /\ o.bars >= 200 /\ HardFiltered(o) -> "AVOID"
      [] OTHER ->
           IF Score(o, reward) < WatchThreshold THEN "AVOID"
           ELSE IF Score(o, reward) < BuyThreshold \/ Behind(o) THEN "WATCH"
           ELSE "BUY_STARTER"
=============================================================================
