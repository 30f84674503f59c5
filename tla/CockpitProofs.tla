--------------------------- MODULE CockpitProofs ---------------------------
(***************************************************************************)
(* What the cockpit tells the user, for all limits, thresholds, accounts   *)
(* and prices.                                                             *)
(***************************************************************************)
EXTENDS Cockpit, RiskRulesProofs, WellFoundedInduction

(***************************************************************************)
(* The guidance ladder                                                     *)
(***************************************************************************)
Input == [quantity: Int, cost: Nat, price: Nat, highest: Nat, weeks: Nat,
          below20: BOOLEAN, below30: BOOLEAN, tail: BOOLEAN, done: SUBSET TrimGains]

\* A fall keeps every loss and every drawdown there is.
LEMMA FallKeepsLosses ==
    ASSUME NEW p \in Input, NEW price \in Nat, price <= p.price, price > 0
    PROVE  LET q == [p EXCEPT !.price = price]
           IN /\ q \in Input
              /\ HasData(q) <=> HasData(p)
              /\ \A pct \in Nat : Lost(p, pct) => Lost(q, pct)
              /\ DeepDrawdown(p) => DeepDrawdown(q)
<1> DEFINE q == [p EXCEPT !.price = price]
<1>1. /\ q \in Input /\ q.price = price /\ q.cost = p.cost /\ q.quantity = p.quantity
      /\ q.highest = p.highest /\ q.weeks = p.weeks
      /\ p.price \in Nat /\ p.cost \in Nat /\ p.highest \in Nat
  BY DEF Input
<1> HIDE DEF q
<1>2. HasData(q) <=> HasData(p)  BY <1>1 DEF HasData
<1>3. ASSUME NEW pct \in Nat, Lost(p, pct) PROVE Lost(q, pct)
  <2>1. pct * p.cost \in Nat  BY <1>1, ProductNatural
  <2>2. 100 * (p.cost - p.price) <= 100 * (p.cost - price)  BY <1>1
  <2> QED BY <1>1, <1>3, <2>1, <2>2 DEF Lost
<1>4. ASSUME DeepDrawdown(p) PROVE DeepDrawdown(q)
  <2>0. DrawdownExit \in Nat  BY LadderAssumption
  <2>1. CASE p.price <= p.highest
    <3>1. High(p) = p.highest /\ High(q) = p.highest  BY <1>1, <2>1 DEF High
    <3>2. DrawdownExit * p.highest \in Nat  BY <2>0, <1>1, ProductNatural
    <3> QED BY <1>1, <1>4, <3>1, <3>2 DEF DeepDrawdown
  <2>2. CASE p.price > p.highest
    <3>1. High(p) = p.price  BY <2>2 DEF High
    <3>2. DrawdownExit * p.price <= 0  BY <3>1, <1>1, <1>4 DEF DeepDrawdown
    <3>3. DrawdownExit = 0  BY <3>2, <2>0, <1>1, SMT
    <3>4. High(q) \in Nat /\ High(q) >= price  BY <1>1 DEF High
    <3>5. DrawdownExit * High(q) = 0  BY <3>3, <3>4
    <3> QED BY <1>1, <3>4, <3>5 DEF DeepDrawdown
  <2> QED BY <1>1, <2>1, <2>2
<1> QED BY <1>1, <1>2, <1>3, <1>4 DEF q

LEMMA SeverityMonotone ==
    ASSUME NEW p \in Input, NEW price \in Nat, price <= p.price, price > 0
    PROVE  Severity(Signal([p EXCEPT !.price = price])) >= Severity(Signal(p))
<1> DEFINE q == [p EXCEPT !.price = price]
<1>1. /\ HasData(q) <=> HasData(p)
      /\ \A pct \in Nat : Lost(p, pct) => Lost(q, pct)
      /\ DeepDrawdown(p) => DeepDrawdown(q)
  BY FallKeepsLosses
<1>2. {ReviewAt, StopAddingAt, ReduceAt, ExitAt} \subseteq Nat  BY LadderAssumption
<1> HIDE DEF q
<1>3. ASSUME NEW x PROVE Severity(TailSignal(x)) = 0 /\ Severity(ProfitSignal(x)) = 0
  BY DEF Severity, TailSignal, ProfitSignal
<1>4. ASSUME NEW x
      PROVE  Severity(Signal(x)) =
               IF ~HasData(x) THEN 0
               ELSE IF DeepDrawdown(x) \/ Lost(x, ExitAt) THEN 4
               ELSE IF Lost(x, ReduceAt) THEN 3
               ELSE IF Lost(x, StopAddingAt) THEN 2
               ELSE IF Lost(x, ReviewAt) THEN 1 ELSE 0
  BY <1>3 DEF Signal, Severity
<1>5. Severity(Signal(q)) >= Severity(Signal(p))
  BY <1>1, <1>2, <1>4
<1> QED BY <1>5 DEF q

\* "HOLD" is the last branch of every ladder it can end.
LEMMA HoldIsLast ==
    ASSUME NEW p \in Input, Signal(p) = "HOLD"
    PROVE  /\ ~Lost(p, ReviewAt) /\ ~DeepDrawdown(p)
           /\ p.tail => ~GainAtLeast(p, 0)
           /\ ~GainAtLeast(p, TailAt)
           /\ DueTrims(p) = {}
  BY DEF Signal, TailSignal, ProfitSignal, Input

(***************************************************************************)
(* The screener                                                            *)
(***************************************************************************)
Seen == [bars: Nat, finite: BOOLEAN, priced: BOOLEAN, above20: Int, above50: Int,
         above200: Int, ret20: Int, ret60: Int, spy20: Int, spy60: Int, volume: Int,
         atr: Int]

\* A better return raises no objection and takes no point away.
LEMMA StrengthHelps ==
    ASSUME NEW o \in Seen, NEW ret20 \in Int, NEW ret60 \in Int,
           ret20 >= o.ret20, ret60 >= o.ret60
    PROVE  LET b == [o EXCEPT !.ret20 = ret20, !.ret60 = ret60]
           IN /\ Moomoo!DataError(b) <=> Moomoo!DataError(o)
              /\ Moomoo!FailedFilters(o) = {} => Moomoo!FailedFilters(b) = {}
              /\ Moomoo!Warned(b) => Moomoo!Warned(o)
              /\ Moomoo!Score(o) \in Int /\ Moomoo!Score(b) \in Int
              /\ Moomoo!Score(o) <= Moomoo!Score(b)
<1> DEFINE b == [o EXCEPT !.ret20 = ret20, !.ret60 = ret60]
<1>1. /\ b.ret20 = ret20 /\ b.ret60 = ret60
      /\ b.bars = o.bars /\ b.finite = o.finite /\ b.priced = o.priced
      /\ b.above20 = o.above20 /\ b.above50 = o.above50 /\ b.above200 = o.above200
      /\ b.spy20 = o.spy20 /\ b.spy60 = o.spy60 /\ b.volume = o.volume /\ b.atr = o.atr
  BY DEF Seen
<1>2. /\ o.above20 \in Int /\ o.above50 \in Int /\ o.above200 \in Int
      /\ o.ret20 \in Int /\ o.ret60 \in Int /\ o.spy20 \in Int /\ o.spy60 \in Int
      /\ o.volume \in Int /\ o.atr \in Int
  BY DEF Seen
<1> HIDE DEF b
<1>3. Moomoo!DataError(b) <=> Moomoo!DataError(o)  BY <1>1 DEF Moomoo!DataError
<1>4. ASSUME NEW f \in Moomoo!HardFilters, Moomoo!Fails(b, f) PROVE Moomoo!Fails(o, f)
  <2>1. ASSUME NEW x
        PROVE  /\ Moomoo!Fails(x, "price_below_sma50") <=> x.above50 <= 0
               /\ Moomoo!Fails(x, "price_below_sma200") <=> x.above200 <= 0
               /\ Moomoo!Fails(x, "underperforming_spy_20d") <=> x.spy20 - x.ret20 > Margin20
               /\ Moomoo!Fails(x, "underperforming_spy_60d") <=> x.spy60 - x.ret60 > Margin60
               /\ Moomoo!Fails(x, "volume_ratio_below_threshold")
                    <=> x.volume \in 0..(MinVolume - 1)
               /\ Moomoo!Fails(x, "price_too_far_above_sma20") <=> x.above20 > MaxAbove20
    BY DEF Moomoo!Fails
  <2>2. Margin20 \in Nat /\ Margin60 \in Nat  BY ParametersAssumption
  <2>3. b.spy20 - b.ret20 > Margin20 => o.spy20 - o.ret20 > Margin20  BY <1>1, <1>2, <2>2
  <2>4. b.spy60 - b.ret60 > Margin60 => o.spy60 - o.ret60 > Margin60  BY <1>1, <1>2, <2>2
  <2> QED BY <1>1, <1>4, <2>1, <2>3, <2>4 DEF Moomoo!HardFilters
<1>5. Moomoo!FailedFilters(o) = {} => Moomoo!FailedFilters(b) = {}
  BY <1>4 DEF Moomoo!FailedFilters
<1>6. Moomoo!Warned(b) => Moomoo!Warned(o)  BY <1>1, <1>2 DEF Moomoo!Warned
<1>7. /\ Moomoo!StrengthScore(o) \in Int /\ Moomoo!StrengthScore(b) \in Int
      /\ Moomoo!StrengthScore(o) <= Moomoo!StrengthScore(b)
  BY <1>1, <1>2 DEF Moomoo!StrengthScore
<1>8. /\ Moomoo!TrendScore(b) = Moomoo!TrendScore(o)
      /\ Moomoo!VolumeScore(b) = Moomoo!VolumeScore(o)
      /\ Moomoo!EntryScore(b) = Moomoo!EntryScore(o)
      /\ Moomoo!RewardScore(b) = Moomoo!RewardScore(o)
      /\ Moomoo!RegimeScore(b) = Moomoo!RegimeScore(o)
  BY <1>1 DEF Moomoo!TrendScore, Moomoo!VolumeScore, Moomoo!EntryScore,
              Moomoo!RewardScore, Moomoo!RegimeScore
<1>9. /\ Moomoo!TrendScore(o) \in Int /\ Moomoo!VolumeScore(o) \in Int
      /\ Moomoo!EntryScore(o) \in Int /\ Moomoo!RewardScore(o) \in Int
      /\ Moomoo!RegimeScore(o) \in Int
  BY <1>2 DEF Moomoo!TrendScore, Moomoo!VolumeScore, Moomoo!EntryScore,
              Moomoo!RewardScore, Moomoo!RegimeScore
<1>10. /\ Moomoo!Score(o) \in Int /\ Moomoo!Score(b) \in Int
       /\ Moomoo!Score(o) <= Moomoo!Score(b)
  BY <1>7, <1>8, <1>9 DEF Moomoo!Score
<1> QED BY <1>3, <1>5, <1>6, <1>10 DEF b

LEMMA RankMonotone ==
    ASSUME NEW o \in Seen, NEW ret20 \in Int, NEW ret60 \in Int,
           ret20 >= o.ret20, ret60 >= o.ret60
    PROVE  Rank(Moomoo!Verdict([o EXCEPT !.ret20 = ret20, !.ret60 = ret60]))
               >= Rank(Moomoo!Verdict(o))
<1> DEFINE b == [o EXCEPT !.ret20 = ret20, !.ret60 = ret60]
<1>1. /\ Moomoo!DataError(b) <=> Moomoo!DataError(o)
      /\ Moomoo!FailedFilters(o) = {} => Moomoo!FailedFilters(b) = {}
      /\ Moomoo!Warned(b) => Moomoo!Warned(o)
      /\ Moomoo!Score(o) \in Int /\ Moomoo!Score(b) \in Int
      /\ Moomoo!Score(o) <= Moomoo!Score(b)
  BY StrengthHelps
<1>2. BuyScore \in Nat /\ WatchScore \in Nat  BY ParametersAssumption
<1> HIDE DEF b
<1> DEFINE high(x) == Moomoo!Score(x) >= BuyScore
           fair(x) == Moomoo!Score(x) >= WatchScore
<1>4. (high(o) => high(b)) /\ (fair(o) => fair(b))  BY <1>1, <1>2
<1>3. /\ Rank("DATA_ERROR") = 0 /\ Rank("AVOID") = 0
      /\ Rank("WATCH") = 1 /\ Rank("BUY_STARTER") = 2
  BY DEF Rank
<1>5. ASSUME NEW x
      PROVE  Moomoo!Verdict(x) =
               IF Moomoo!DataError(x) THEN "DATA_ERROR"
               ELSE IF Moomoo!FailedFilters(x) # {} THEN "AVOID"
               ELSE IF high(x) THEN (IF Moomoo!Warned(x) THEN "WATCH" ELSE "BUY_STARTER")
               ELSE IF fair(x) THEN "WATCH" ELSE "AVOID"
  BY DEF Moomoo!Verdict
<1> HIDE DEF high, fair
<1>6. Rank(Moomoo!Verdict(b)) >= Rank(Moomoo!Verdict(o))
  BY <1>1, <1>3, <1>4, <1>5
<1> QED BY <1>6 DEF b

\* The two copies compute one score.
LEMMA ScoresAgree ==
    ASSUME NEW o \in Seen
    PROVE  /\ Moomoo!Score(o) \in Int
           /\ Local!Score(o, Moomoo!RewardScore(o)) = Moomoo!Score(o)
<1>1. /\ o.above20 \in Int /\ o.above50 \in Int /\ o.above200 \in Int
      /\ o.ret20 \in Int /\ o.ret60 \in Int /\ o.spy20 \in Int /\ o.spy60 \in Int
      /\ o.volume \in Int /\ o.atr \in Int
  BY DEF Seen
<1> DEFINE trend == IF o.above50 > 0
                    THEN 10 + (IF 2 <= o.above50 /\ o.above50 <= 8 THEN 5 ELSE 2) ELSE 0
           long == IF o.above200 > 0 THEN 10 ELSE 0
           short == IF 2 * o.ret20 > 3 * o.spy20 THEN 12
                    ELSE IF o.ret20 > o.spy20 THEN 8 ELSE 4
           medium == IF o.ret60 > o.spy60 THEN 8 ELSE 4
           volume == CASE o.volume < 0 \/ o.volume \in 71..100 -> 5
                       [] o.volume > 150 -> 10
                       [] o.volume \in 101..150 -> 8
                       [] o.volume \in 0..70 -> 2
           entry20 == IF 0 < o.above20 /\ o.above20 < 3 THEN 8
                      ELSE IF o.above20 < 0 THEN 4 ELSE 2
           entry50 == IF 0 < o.above50 /\ o.above50 < 5 THEN 7 ELSE 3
           regime == CASE o.spy20 > 3 -> 15
                       [] o.spy20 \in 1..3 -> 12
                       [] o.spy20 \in -2..0 -> 8
                       [] o.spy20 <= -3 -> 4
           reward == Moomoo!RewardScore(o)
<1>2. trend + long = Moomoo!TrendScore(o) /\ trend \in Int /\ long \in Int
  BY <1>1 DEF Moomoo!TrendScore
<1>3. short + medium = Moomoo!StrengthScore(o) /\ short \in Int /\ medium \in Int
  BY <1>1 DEF Moomoo!StrengthScore
<1>4. volume = Moomoo!VolumeScore(o) /\ volume \in Int  BY <1>1 DEF Moomoo!VolumeScore
<1>5. entry20 + entry50 = Moomoo!EntryScore(o) /\ entry20 \in Int /\ entry50 \in Int
  BY <1>1 DEF Moomoo!EntryScore
<1>6. regime = Moomoo!RegimeScore(o) /\ regime \in Int  BY <1>1 DEF Moomoo!RegimeScore
<1>7. reward \in Int  BY <1>1 DEF Moomoo!RewardScore
<1>8. Local!Score(o, reward)
        = trend + long + short + medium + volume + entry20 + entry50 + reward + regime
  BY DEF Local!Score
<1> HIDE DEF trend, long, short, medium, volume, entry20, entry50, regime, reward
<1>9. Moomoo!Score(o) = (trend + long) + (short + medium) + volume + (entry20 + entry50)
                        + reward + regime
  BY <1>2, <1>3, <1>4, <1>5, <1>6 DEF Moomoo!Score, reward
<1> QED BY <1>2, <1>3, <1>4, <1>5, <1>6, <1>7, <1>8, <1>9 DEF reward

\* With the default parameters the two copies give one verdict.
LEMMA VerdictsAgree ==
    ASSUME BuyScore = 75, WatchScore = 65, MinBars >= 200, Margin20 = 3, Margin60 = 5,
           MinVolume = 50, MaxAbove20 = 15,
           NEW o \in Seen, Moomoo!Verdict(o) # "DATA_ERROR"
    PROVE  Local!Verdict(o, Moomoo!RewardScore(o)) = Moomoo!Verdict(o)
<1>1. /\ o.above20 \in Int /\ o.above50 \in Int /\ o.above200 \in Int
      /\ o.ret20 \in Int /\ o.ret60 \in Int /\ o.spy20 \in Int /\ o.spy60 \in Int
      /\ o.volume \in Int /\ o.bars \in Nat /\ MinBars \in Nat
  BY ParametersAssumption DEF Seen
<1>2. o.finite /\ o.bars >= MinBars  BY <1>1 DEF Moomoo!Verdict, Moomoo!DataError
<1>3. Local!HardFiltered(o) <=> \E f \in Moomoo!HardFilters : Moomoo!Fails(o, f)
  <2>1. /\ Moomoo!Fails(o, "price_below_sma50") <=> o.above50 <= 0
        /\ Moomoo!Fails(o, "price_below_sma200") <=> o.above200 <= 0
        /\ Moomoo!Fails(o, "underperforming_spy_20d") <=> o.spy20 - o.ret20 > 3
        /\ Moomoo!Fails(o, "underperforming_spy_60d") <=> o.spy60 - o.ret60 > 5
        /\ Moomoo!Fails(o, "volume_ratio_below_threshold") <=> o.volume \in 0..49
        /\ Moomoo!Fails(o, "price_too_far_above_sma20") <=> o.above20 > 15
    BY DEF Moomoo!Fails
  <2>2. o.volume \in 0..49 <=> 0 <= o.volume /\ o.volume < 50  BY <1>1
  <2> QED BY <2>1, <2>2 DEF Local!HardFiltered, Moomoo!HardFilters
<1>4. Local!HardFiltered(o) <=> Moomoo!FailedFilters(o) # {}
  BY <1>3 DEF Moomoo!FailedFilters
<1>5. Local!Behind(o) <=> Moomoo!Warned(o)  BY DEF Local!Behind, Moomoo!Warned
<1> DEFINE score == Moomoo!Score(o)
<1>6. score \in Int /\ Local!Score(o, Moomoo!RewardScore(o)) = score  BY ScoresAgree
<1> HIDE DEF score
<1>7. Moomoo!Verdict(o) = IF Moomoo!FailedFilters(o) # {} THEN "AVOID"
        ELSE IF score >= 75 THEN (IF Moomoo!Warned(o) THEN "WATCH" ELSE "BUY_STARTER")
        ELSE IF score >= 65 THEN "WATCH" ELSE "AVOID"
  BY DEF Moomoo!Verdict, score
<1>8. Local!Verdict(o, Moomoo!RewardScore(o)) =
        IF Local!HardFiltered(o) THEN "AVOID"
        ELSE IF score < 65 THEN "AVOID"
        ELSE IF score < 75 \/ Local!Behind(o) THEN "WATCH" ELSE "BUY_STARTER"
  BY <1>1, <1>2, <1>6
     DEF Local!Verdict, Local!BuyThreshold, Local!WatchThreshold
<1> QED BY <1>4, <1>5, <1>6, <1>7, <1>8

(***************************************************************************)
(* The adapter                                                             *)
(***************************************************************************)
\* Of a set of row numbers that is not empty one is the first.
LEMMA FirstRowExists ==
    ASSUME NEW T, T \subseteq Nat, T # {}
    PROVE  \E x \in T : \A y \in T : x <= y
<1>1. PICK x \in T : \A y \in T : ~ (<<y, x>> \in OpToRel(<, Nat))
  BY NatLessThanWellFounded, WFMin
<1>2. \A y \in T : ~(y < x)  BY <1>1 DEF OpToRel
<1> QED BY <1>2

LEMMA SelectedIsListed ==
    ASSUME NEW accounts \in Seq(Accounts), accounts # <<>>
    PROVE  Selected(accounts) \in Accounts
<1> DEFINE matching == {i \in DOMAIN accounts : accounts[i] \in EnvAccounts}
           first == CHOOSE i \in matching : \A j \in matching : i <= j
<1>1. DOMAIN accounts \subseteq Nat /\ 1 \in DOMAIN accounts  OBVIOUS
<1>2. CASE matching = {}
  <2>1. Selected(accounts) = accounts[1]  BY <1>2 DEF Selected
  <2> QED BY <2>1, <1>1
<1>3. CASE matching # {}
  <2>1. first \in matching  BY <1>1, <1>3, FirstRowExists
  <2>2. Selected(accounts) = accounts[first]  BY <1>3 DEF Selected
  <2> QED BY <2>1, <2>2
<1> QED BY <1>2, <1>3

\* A query answers for the account the adapter remembers from then on, and a
\* remembered account stays.
LEMMA QueryRemembers ==
    ASSUME AdapterTypeOK, NEW source, Query(source)
    PROVE  /\ accountId' \in Accounts \cup {None}
           /\ source \in {None, accountId'}
           /\ accountId # None => accountId' = accountId
<1>1. ASSUME NEW lists PROVE EnsuredAccount(lists) \in Accounts \cup {None}
  <2>1. listed \in Seq(Accounts) /\ accountId \in Accounts \cup {None}
    BY AccountAssumption DEF AdapterTypeOK
  <2> QED BY <2>1, SelectedIsListed DEF EnsuredAccount
<1>2. CASE ~connected /\ source = None /\ UNCHANGED accountId
  BY <1>2 DEF AdapterTypeOK
<1>3. ASSUME NEW lists, NEW replies, accountId' = Remembered(EnsuredAccount(lists)),
             source = IF replies THEN EnsuredAccount(lists) ELSE None
      PROVE  /\ accountId' \in Accounts \cup {None}
             /\ source \in {None, accountId'}
             /\ accountId # None => accountId' = accountId
  <2>1. accountId' = EnsuredAccount(lists)  BY <1>3 DEF Remembered
  <2>2. accountId # None => EnsuredAccount(lists) = accountId  BY DEF EnsuredAccount
  <2> QED BY <1>1, <1>3, <2>1, <2>2
<1> QED BY <1>2, <1>3 DEF Query

(***************************************************************************)
(* Types                                                                   *)
(***************************************************************************)
LEMMA AnswersTyped ==
    /\ \A p : Signal(p) \in Signals
    /\ \A o : Moomoo!Verdict(o) \in Moomoo!Verdicts
<1>1. \A p : TailSignal(p) \in Signals  BY DEF TailSignal, Signals
<1>2. \A p : ProfitSignal(p) \in Signals  BY DEF ProfitSignal, Signals
<1>3. \A p : Signal(p) \in Signals  BY <1>1, <1>2 DEF Signal, Signals, LossSignals
<1>4. \A o : Moomoo!Verdict(o) \in Moomoo!Verdicts
  BY DEF Moomoo!Verdict, Moomoo!Verdicts
<1> QED BY <1>3, <1>4

\* Reading at one step of a preview or a lookup keeps its shape.
LEMMA PreviewShape ==
    ASSUME NEW q \in Previews, NEW s \in Sources
    PROVE  /\ [q EXCEPT !.account = s, !.step = "quote"] \in Previews
           /\ [q EXCEPT !.positions = s, !.step = "orders"] \in Previews
           /\ [q EXCEPT !.open = s, !.step = "evaluate"] \in Previews
           /\ \A age \in {-1, 0} :
                  [q EXCEPT !.quoteAge = age, !.step = "positions"] \in Previews
           /\ \A v \in {"raised", "allowed", "refused"} : [q EXCEPT !.step = v] \in Previews
  BY DEF Previews

LEMMA LookupShape ==
    ASSUME NEW q \in Lookups, NEW s \in Sources, NEW price \in Int \cup {None},
           NEW failed \in SUBSET {"quote", "positions"}
    PROVE  /\ \A source \in {"quote", "position", "close", "DATA_ERROR"} :
                  Answer(q, price, source) \in Lookups
           /\ [q EXCEPT !.step = "position", !.failed = failed] \in Lookups
           /\ [q EXCEPT !.book = s, !.failed = failed] \in Lookups
           /\ [q EXCEPT !.step = "close"] \in Lookups
  BY DEF Lookups, Answer

LEMMA KindTells ==
    ASSUME TypeOK
    PROVE  /\ request.kind = "preview" => request \in Previews
           /\ request.kind = "price" => request \in Lookups
           /\ request.kind = "advice" => request \in Advices
           /\ request.kind = "screen" => request \in Screens
  BY DEF TypeOK, Idle, Previews, Lookups, Advices, Screens

\* The price of a position is a number, whoever holds it.
LEMMA HeldPrices ==
    ASSUME NEW s \in Sources, NEW symbol
    PROVE  PriceHeld(s, symbol) \subseteq Nat
  BY BooksAssumption DEF PriceHeld, Held, Sources

LEMMA NextType == TypeOK /\ [Next]_vars => TypeOK'
<1> SUFFICES ASSUME TypeOK, [Next]_vars PROVE TypeOK'  OBVIOUS
<1> DEFINE Shapes == {Idle} \cup Previews \cup Lookups \cup Advices \cup Screens
<1>0. AdapterTypeOK /\ request \in Shapes  BY DEF TypeOK
<1>1. UNCHANGED <<adapterVars, gatewayVars>> => AdapterTypeOK'
  BY <1>0 DEF AdapterTypeOK, adapterVars, gatewayVars
<1>2. ASSUME NEW s, Query(s), UNCHANGED <<connected, gatewayVars>> PROVE AdapterTypeOK'
  BY <1>0, <1>2, QueryRemembers DEF AdapterTypeOK, gatewayVars
<1> DEFINE Goal == AdapterTypeOK' /\ request' \in Shapes
<1>3. ASSUME Preview PROVE Goal
  <2>1. PICK order \in Orders, kill \in BOOLEAN :
           request' = [kind |-> "preview", order |-> order, kill |-> kill,
                       step |-> "account", account |-> None, quoteAge |-> -1,
                       positions |-> None, open |-> None]
    BY <1>3 DEF Preview
  <2>2. request' \in Previews  BY <2>1 DEF Previews, Sources
  <2> QED BY <1>1, <1>3, <2>2 DEF Preview
<1>4. ASSUME ReadAccount PROVE Goal
  <2>1. request \in Previews  BY <1>4, KindTells DEF ReadAccount, At
  <2>2. PICK source \in Sources :
           Query(source) /\ request' = [request EXCEPT !.account = source, !.step = "quote"]
    BY <1>4 DEF ReadAccount
  <2>3. UNCHANGED <<connected, gatewayVars>>  BY <1>4 DEF ReadAccount
  <2>4. request' \in Previews  BY <2>1, <2>2, PreviewShape
  <2> QED BY <1>2, <2>2, <2>3, <2>4
<1>5. ASSUME ReadQuote PROVE Goal
  <2>1. request \in Previews  BY <1>5, KindTells DEF ReadQuote, At
  <2>2. request' \in Previews
    <3>1. PICK answered \in QuoteAnswers :
            LET last == IF answered THEN LastPrice[request.order.symbol] ELSE 0
            IN request' = [request EXCEPT !.quoteAge = IF last > 0 THEN 0 ELSE -1,
                                          !.step = "positions"]
      BY <1>5 DEF ReadQuote
    <3>2. PICK age \in {-1, 0} :
            request' = [request EXCEPT !.quoteAge = age, !.step = "positions"]
      BY <3>1
    <3> QED BY <2>1, <3>2, PreviewShape DEF Sources
  <2> QED BY <1>1, <1>5, <2>2 DEF ReadQuote
<1>6. ASSUME ReadPositions PROVE Goal
  <2>1. request \in Previews  BY <1>6, KindTells DEF ReadPositions, At
  <2>2. PICK source \in Sources :
           Query(source) /\ request' = [request EXCEPT !.positions = source, !.step = "orders"]
    BY <1>6 DEF ReadPositions
  <2>3. UNCHANGED <<connected, gatewayVars>>  BY <1>6 DEF ReadPositions
  <2>4. request' \in Previews  BY <2>1, <2>2, PreviewShape
  <2> QED BY <1>2, <2>2, <2>3, <2>4
<1>7. ASSUME ReadOrders PROVE Goal
  <2>1. request \in Previews  BY <1>7, KindTells DEF ReadOrders, At
  <2>2. PICK source \in Sources :
           Query(source) /\ request' = [request EXCEPT !.open = source, !.step = "evaluate"]
    BY <1>7 DEF ReadOrders
  <2>3. UNCHANGED <<connected, gatewayVars>>  BY <1>7 DEF ReadOrders
  <2>4. request' \in Previews  BY <2>1, <2>2, PreviewShape
  <2> QED BY <1>2, <2>2, <2>3, <2>4
<1>8. ASSUME Evaluate PROVE Goal
  <2>1. request \in Previews  BY <1>8, KindTells DEF Evaluate, At
  <2>2. PICK v \in {"raised", "allowed", "refused"} : request' = [request EXCEPT !.step = v]
    BY <1>8 DEF Evaluate
  <2>3. request' \in Previews  BY <2>1, <2>2, PreviewShape DEF Sources
  <2> QED BY <1>1, <1>8, <2>3 DEF Evaluate
<1>9. ASSUME Lookup PROVE Goal
  <2>1. request' \in Lookups  BY <1>9 DEF Lookup, Lookups, Sources
  <2> QED BY <1>1, <1>9, <2>1 DEF Lookup
<1>10. ASSUME LookupQuote PROVE Goal
  <2>1. request \in Lookups  BY <1>10, KindTells DEF LookupQuote, At
  <2>2. LastPrice[request.symbol] \in Int /\ request.failed \in SUBSET {"quote", "positions"}
    BY <2>1, ClosesAssumption DEF Lookups
  <2>3. request' \in Lookups
    <3>1. PICK answered \in QuoteAnswers :
            request' =
               IF answered /\ LastPrice[request.symbol] > 0
               THEN Answer(request, LastPrice[request.symbol], "quote")
               ELSE [request EXCEPT !.step = "position",
                                    !.failed = IF answered THEN @ ELSE @ \cup {"quote"}]
      BY <1>10 DEF LookupQuote
    <3>2. None \in Sources  BY DEF Sources
    <3>3. (IF answered THEN request.failed ELSE request.failed \cup {"quote"})
             \in SUBSET {"quote", "positions"}
      BY <2>2
    <3> QED BY <2>1, <2>2, <3>1, <3>2, <3>3, LookupShape
  <2> QED BY <1>1, <1>10, <2>3 DEF LookupQuote
<1>11. ASSUME LookupPosition PROVE Goal
  <2>1. request \in Lookups  BY <1>11, KindTells DEF LookupPosition, At
  <2>2. PICK source \in Sources :
          LET prices == PriceHeld(source, request.symbol)
              asked == [request EXCEPT
                          !.book = source,
                          !.failed = IF source = None THEN @ \cup {"positions"} ELSE @]
          IN /\ Query(source)
             /\ request' = IF prices = {} THEN [asked EXCEPT !.step = "close"]
                           ELSE Answer(asked, CHOOSE p \in prices : TRUE, "position")
    BY <1>11 DEF LookupPosition
  <2> DEFINE prices == PriceHeld(source, request.symbol)
             failed == IF source = None THEN request.failed \cup {"positions"}
                       ELSE request.failed
             asked == [request EXCEPT !.book = source, !.failed = failed]
  <2>3. request' = IF prices = {} THEN [asked EXCEPT !.step = "close"]
                   ELSE Answer(asked, CHOOSE p \in prices : TRUE, "position")
    BY <2>2
  <2>4. failed \in SUBSET {"quote", "positions"}  BY <2>1 DEF Lookups
  <2>5. prices # {} => (CHOOSE p \in prices : TRUE) \in Int
    BY HeldPrices
  <2> HIDE DEF prices, failed
  <2>6. None \in Int \cup {None}  OBVIOUS
  <2>7. asked \in Lookups  BY <2>1, <2>4, <2>6, LookupShape
  <2> HIDE DEF asked
  <2>8. request' \in Lookups  BY <2>3, <2>4, <2>5, <2>6, <2>7, LookupShape
  <2> QED BY <1>2, <1>11, <2>2, <2>8 DEF LookupPosition
<1>12. ASSUME LookupBars \/ LookupCached PROVE Goal
  <2>1. request \in Lookups  BY <1>12, KindTells DEF LookupBars, LookupCached, At
  <2>2. {BarsClose[request.symbol], CachedClose[request.symbol]} \subseteq Int \cup {None}
    BY <2>1, ClosesAssumption DEF Lookups
  <2>3. {} \in SUBSET {"quote", "positions"} /\ None \in Sources  BY DEF Sources
  <2>4. PICK close \in Int \cup {None}, source \in {"close", "DATA_ERROR"} :
          request' = Answer(request, close, source)
    BY <1>12, <2>2 DEF LookupBars, LookupCached
  <2>5. request' \in Lookups  BY <2>1, <2>3, <2>4, LookupShape
  <2> QED BY <1>1, <1>12, <2>5 DEF LookupBars, LookupCached
<1>13. ASSUME Advise PROVE Goal
  <2>1. request' \in Advices  BY <1>13, AnswersTyped DEF Advise, Advices
  <2> QED BY <1>1, <1>13, <2>1 DEF Advise
<1>14. ASSUME Screen PROVE Goal
  <2>1. request' \in Screens  BY <1>14, AnswersTyped DEF Screen, Screens
  <2> QED BY <1>1, <1>14, <2>1 DEF Screen
<1>15. ASSUME Respond PROVE Goal  BY <1>1, <1>15 DEF Respond
<1>16. ASSUME GatewayChanges PROVE Goal
  BY <1>0, <1>16 DEF GatewayChanges, Gateway, AdapterTypeOK, adapterVars
<1>17. ASSUME Restart PROVE Goal
  BY <1>0, <1>17 DEF Restart, Connect, Replies, AdapterTypeOK, gatewayVars
<1>18. ASSUME UNCHANGED vars PROVE Goal  BY <1>0, <1>1, <1>18 DEF vars
<1> HIDE DEF Goal
<1>19. Goal
  BY <1>3, <1>4, <1>5, <1>6, <1>7, <1>8, <1>9, <1>10, <1>11, <1>12, <1>13, <1>14, <1>15,
     <1>16, <1>17, <1>18 DEF Next
<1> QED BY <1>19 DEF Goal, TypeOK

\* The adapter and the request keep their types.
THEOREM CockpitTypes == Spec => []TypeOK
<1>1. Init => TypeOK  BY DEF Init, AdapterInit, TypeOK, AdapterTypeOK
<1> QED BY <1>1, NextType, PTL DEF Spec

(***************************************************************************)
(* What an answer says                                                     *)
(***************************************************************************)
\* A preview that says `allowed' has asked the rules, the guidance and the
\* verdict are those of the input shown with them.
Sound ==
    /\ AllowedPreview => Allowed(Context(request))
    /\ request.kind = "advice" => request.signal = Signal(request.position)
    /\ request.kind = "screen" => request.verdict = Moomoo!Verdict(request.seen)

LEMMA NextSound == TypeOK /\ Sound /\ [Next]_vars => Sound'
<1> SUFFICES ASSUME TypeOK, Sound, [Next]_vars PROVE Sound'  OBVIOUS
<1> USE DEF AllowedPreview, At
<1>1. ASSUME request' = request PROVE Sound'
  BY <1>1 DEF Sound, Context, ContextOf, Total, Held, Open
<1>2. ASSUME request' \in Previews, request'.step # "allowed" PROVE Sound'
  BY <1>2 DEF Sound, Previews
<1>3. ASSUME request' \in Lookups PROVE Sound'  BY <1>3 DEF Sound, Lookups
<1>4. ASSUME request' = Idle PROVE Sound'  BY <1>4 DEF Sound, Idle
<1>5. ASSUME Preview PROVE Sound'
  <2>1. request'.kind = "preview" /\ request'.step = "account"  BY <1>5 DEF Preview
  <2> QED BY <2>1 DEF Sound
<1>6. ASSUME ReadAccount \/ ReadQuote \/ ReadPositions \/ ReadOrders PROVE Sound'
  <2>1. request \in Previews
    BY <1>6, KindTells DEF ReadAccount, ReadQuote, ReadPositions, ReadOrders
  <2>2. request'.kind = "preview" /\ request'.step # "allowed"
    BY <1>6, <2>1 DEF ReadAccount, ReadQuote, ReadPositions, ReadOrders, Previews
  <2> QED BY <2>2 DEF Sound
<1>7. ASSUME Evaluate PROVE Sound'
  <2>1. request \in Previews  BY <1>7, KindTells DEF Evaluate
  <2>2. /\ request'.kind = "preview"
        /\ request'.step = "allowed" => Allowed(Context(request))
        /\ request'.order = request.order /\ request'.account = request.account
        /\ request'.positions = request.positions /\ request'.open = request.open
        /\ request'.quoteAge = request.quoteAge /\ request'.kill = request.kill
    BY <1>7, <2>1 DEF Evaluate, Previews
  <2>3. Context(request)' = Context(request)
    BY <2>2 DEF Context, ContextOf, Total, Held, Open
  <2> QED BY <2>2, <2>3 DEF Sound
<1>8. ASSUME Lookup PROVE Sound'
  <2>1. request'.kind = "price"  BY <1>8 DEF Lookup
  <2> QED BY <2>1 DEF Sound
<1>9. ASSUME LookupQuote \/ LookupPosition \/ LookupBars \/ LookupCached PROVE Sound'
  <2>1. request \in Lookups
    BY <1>9, KindTells DEF LookupQuote, LookupPosition, LookupBars, LookupCached
  <2>2. request'.kind = "price"
    BY <1>9, <2>1
       DEF LookupQuote, LookupPosition, LookupBars, LookupCached, Answer, Lookups
  <2> QED BY <2>2 DEF Sound
<1>10. ASSUME Advise PROVE Sound'
  <2>1. PICK p \in Positions :
          request' = [kind |-> "advice", position |-> p, signal |-> Signal(p)]
    BY <1>10 DEF Advise
  <2> QED BY <2>1 DEF Sound
<1>11. ASSUME Screen PROVE Sound'
  <2>1. PICK o \in Observations :
          request' = [kind |-> "screen", seen |-> o, verdict |-> Moomoo!Verdict(o)]
    BY <1>11 DEF Screen
  <2> QED BY <2>1 DEF Sound
<1>12. ASSUME GatewayChanges \/ UNCHANGED vars PROVE Sound'
  BY <1>1, <1>12 DEF GatewayChanges, vars
<1>13. ASSUME Respond \/ Restart PROVE Sound'  BY <1>4, <1>13 DEF Respond, Restart
<1> QED BY <1>5, <1>6, <1>7, <1>8, <1>9, <1>10, <1>11, <1>12, <1>13 DEF Next

LEMMA AnswersAreSound == Spec => []Sound
<1>1. Init => Sound  BY DEF Init, Sound, Idle, AllowedPreview, At
<1> QED BY <1>1, NextSound, CockpitTypes, PTL DEF Spec

LEMMA ContextTyped ==
    ASSUME TypeOK, request.kind = "preview"
    PROVE  Typed(Context(request)) /\ request.order \in Orders
<1>1. request \in Previews  BY KindTells
<1>2. request.order \in Orders /\ request.account \in Sources
      /\ request.positions \in Sources
  BY <1>1 DEF Previews
<1>3. Total(request.account) \in Int  BY <1>2, BooksAssumption DEF Total, Sources
<1>4. \A p \in Held(request.positions) : p.price \in Nat /\ p.quantity \in Nat
  BY <1>2, BooksAssumption DEF Held, Sources
<1> QED BY <1>2, <1>3, <1>4, OrdersAssumption DEF Context, ContextOf, Typed

\* No preview allows more than the maximum it offers, whatever the limits, the
\* prices and the portfolio are.
THEOREM MaximumIsKept == Spec => []BeyondMaximumRefused
<1>1. TypeOK /\ Sound => BeyondMaximumRefused
  <2> SUFFICES ASSUME TypeOK, Sound, AllowedPreview, MaxQuantity(Context(request)) # -1,
                      request.order.price > 0
               PROVE  request.order.quantity <= MaxQuantity(Context(request))
    BY DEF BeyondMaximumRefused
  <2>1. Typed(Context(request)) /\ Allowed(Context(request))
    BY ContextTyped DEF AllowedPreview, At, Sound
  <2>2. /\ Context(request).price = request.order.price
        /\ Context(request).quantity = request.order.quantity
    BY DEF Context, ContextOf
  <2> QED BY <2>1, <2>2, WithinMaximum
<1> QED BY <1>1, CockpitTypes, AnswersAreSound, PTL

\* Whatever is allowed is allowed in smaller quantities.
THEOREM ShrinkingIsSafe == Spec => []ShrinkingNeverHurts
<1>1. TypeOK /\ Sound => ShrinkingNeverHurts
  <2> SUFFICES ASSUME TypeOK, Sound, AllowedPreview, NEW q \in 0..request.order.quantity
               PROVE  Allowed([Context(request) EXCEPT !.quantity = q])
    BY DEF ShrinkingNeverHurts
  <2>1. /\ Typed(Context(request)) /\ Allowed(Context(request))
        /\ request.order.quantity \in Nat
    BY ContextTyped, OrdersAssumption DEF AllowedPreview, At, Sound
  <2>2. Context(request).quantity = request.order.quantity  BY DEF Context, ContextOf
  <2>3. q \in Nat /\ q <= Context(request).quantity  BY <2>1, <2>2
  <2> QED BY <2>1, <2>3, SmallerAllowed
<1> QED BY <1>1, CockpitTypes, AnswersAreSound, PTL

\* Whatever the thresholds are, the ladder has no gap a falling price slips
\* through.
THEOREM DefenceIsMonotone == Spec => []DefenceMonotone
<1>1. TypeOK /\ Sound => DefenceMonotone
  <2> SUFFICES ASSUME TypeOK, Sound, request.kind = "advice", NEW price \in Prices,
                      price <= request.position.price
               PROVE  Severity(Signal([request.position EXCEPT !.price = price]))
                          >= Severity(request.signal)
    BY DEF DefenceMonotone
  <2>1. request.position \in Input
    BY KindTells, PositionsAssumption DEF Advices, Input
  <2>2. price \in Nat /\ price > 0  BY PositionsAssumption
  <2>3. request.signal = Signal(request.position)  BY DEF Sound
  <2> QED BY <2>1, <2>2, <2>3, SeverityMonotone
<1> QED BY <1>1, CockpitTypes, AnswersAreSound, PTL

\* Nobody is told to hold while something is due.
THEOREM HoldMeansNothingDue == Spec => []NothingDueWhenHeld
<1>1. TypeOK /\ Sound => NothingDueWhenHeld
  <2> SUFFICES ASSUME TypeOK, Sound, request.kind = "advice", request.signal = "HOLD"
               PROVE  LET p == request.position
                      IN /\ ~Lost(p, ReviewAt) /\ ~DeepDrawdown(p)
                         /\ p.tail => ~GainAtLeast(p, 0)
                         /\ ~GainAtLeast(p, TailAt)
                         /\ \A g \in TrimGains : GainAtLeast(p, g) => g \in p.done
    BY DEF NothingDueWhenHeld
  <2> DEFINE p == request.position
  <2>1. p \in Input /\ Signal(p) = "HOLD"
    BY KindTells, PositionsAssumption DEF Advices, Input, Sound
  <2> HIDE DEF p
  <2>2. /\ ~Lost(p, ReviewAt) /\ ~DeepDrawdown(p)
        /\ p.tail => ~GainAtLeast(p, 0)
        /\ ~GainAtLeast(p, TailAt)
        /\ DueTrims(p) = {}
    BY <2>1, HoldIsLast
  <2> QED BY <2>2 DEF DueTrims, p
<1> QED BY <1>1, CockpitTypes, AnswersAreSound, PTL

\* Whatever the thresholds of the screener are, strength is no handicap.
THEOREM StrengthIsRewarded == Spec => []StrengthNeverHurts
<1>1. TypeOK /\ Sound => StrengthNeverHurts
  <2> SUFFICES ASSUME TypeOK, Sound, request.kind = "screen", NEW ret20 \in Returns,
                      NEW ret60 \in Returns, ret20 >= request.seen.ret20,
                      ret60 >= request.seen.ret60
               PROVE  Rank(Moomoo!Verdict([request.seen EXCEPT !.ret20 = ret20,
                                                             !.ret60 = ret60]))
                          >= Rank(request.verdict)
    BY DEF StrengthNeverHurts
  <2>1. request.seen \in Seen /\ ret20 \in Int /\ ret60 \in Int
    BY KindTells, ObservationsAssumption DEF Screens, Seen
  <2>2. request.verdict = Moomoo!Verdict(request.seen)  BY DEF Sound
  <2> QED BY <2>1, <2>2, RankMonotone
<1> QED BY <1>1, CockpitTypes, AnswersAreSound, PTL

\* With the parameters the registry holds, the two copies of the screener give
\* one verdict on every observation.
THEOREM CopiesAgree ==
    ASSUME BuyScore = 75, WatchScore = 65, MinBars >= 200, Margin20 = 3, Margin60 = 5,
           MinVolume = 50, MaxAbove20 = 15
    PROVE  Spec => []ProvidersAgree
<1>1. TypeOK /\ Sound => ProvidersAgree
  <2> SUFFICES ASSUME TypeOK, Sound, request.kind = "screen",
                      request.verdict # "DATA_ERROR"
               PROVE  Local!Verdict(request.seen, Moomoo!RewardScore(request.seen))
                          = request.verdict
    BY DEF ProvidersAgree
  <2>1. request.seen \in Seen
    BY KindTells, ObservationsAssumption DEF Screens, Seen
  <2>2. request.verdict = Moomoo!Verdict(request.seen)  BY DEF Sound
  <2> QED BY <2>1, <2>2, VerdictsAgree
<1> QED BY <1>1, CockpitTypes, AnswersAreSound, PTL

(***************************************************************************)
(* The reads behind an answer                                              *)
(***************************************************************************)
\* What a preview has read so far is about the account the adapter remembers.
OneAccount ==
    request.kind = "preview" =>
        {request.account, request.positions, request.open} \subseteq {None, accountId}

LEMMA NextOneAccount == TypeOK /\ OneAccount /\ [Next]_vars => OneAccount'
<1> SUFFICES ASSUME TypeOK, OneAccount, [Next]_vars PROVE OneAccount'  OBVIOUS
<1> USE DEF At
<1>0. AdapterTypeOK  BY DEF TypeOK
<1>1. ASSUME UNCHANGED accountId, request'.kind # "preview" \/ request' = request
      PROVE  OneAccount'
  BY <1>1 DEF OneAccount
<1>2. ASSUME Preview PROVE OneAccount'  BY <1>2 DEF Preview, OneAccount
<1>3. ASSUME ReadAccount \/ ReadPositions \/ ReadOrders PROVE OneAccount'
  <2>1. request \in Previews
    BY <1>3, KindTells DEF ReadAccount, ReadPositions, ReadOrders
  <2>2. PICK source \in Sources :
          /\ Query(source)
          /\ \/ request' = [request EXCEPT !.account = source, !.step = "quote"]
             \/ request' = [request EXCEPT !.positions = source, !.step = "orders"]
             \/ request' = [request EXCEPT !.open = source, !.step = "evaluate"]
    BY <1>3 DEF ReadAccount, ReadPositions, ReadOrders
  <2>3. source \in {None, accountId'} /\ (accountId # None => accountId' = accountId)
    BY <1>0, <2>2, QueryRemembers
  <2>4. {request.account, request.positions, request.open} \subseteq {None, accountId'}
    BY <2>1, <2>3 DEF OneAccount, Previews
  <2>5. {request'.account, request'.positions, request'.open}
          \subseteq {request.account, request.positions, request.open, source}
    BY <2>1, <2>2 DEF Previews
  <2> QED BY <2>3, <2>4, <2>5 DEF OneAccount
<1>4. ASSUME ReadQuote \/ Evaluate PROVE OneAccount'
  <2>1. request \in Previews  BY <1>4, KindTells DEF ReadQuote, Evaluate
  <2>2. /\ request'.kind = "preview" /\ request'.account = request.account
        /\ request'.positions = request.positions /\ request'.open = request.open
        /\ UNCHANGED accountId
    BY <1>4, <2>1 DEF ReadQuote, Evaluate, Previews, adapterVars
  <2> QED BY <2>1, <2>2 DEF OneAccount, Previews
<1>5. ASSUME Lookup PROVE OneAccount'
  <2>1. request'.kind = "price"  BY <1>5 DEF Lookup
  <2> QED BY <2>1 DEF OneAccount
<1>6. ASSUME LookupQuote \/ LookupPosition \/ LookupBars \/ LookupCached
      PROVE  OneAccount'
  <2>1. request \in Lookups
    BY <1>6, KindTells DEF LookupQuote, LookupPosition, LookupBars, LookupCached
  <2>2. request'.kind = "price"
    BY <1>6, <2>1
       DEF LookupQuote, LookupPosition, LookupBars, LookupCached, Answer, Lookups
  <2> QED BY <2>2 DEF OneAccount
<1>7. ASSUME Advise PROVE OneAccount'
  <2>1. request'.kind = "advice"  BY <1>7 DEF Advise
  <2> QED BY <2>1 DEF OneAccount
<1>8. ASSUME Screen PROVE OneAccount'
  <2>1. request'.kind = "screen"  BY <1>8 DEF Screen
  <2> QED BY <2>1 DEF OneAccount
<1>9. ASSUME Respond \/ Restart PROVE OneAccount'
  <2>1. request'.kind = "idle"  BY <1>9 DEF Respond, Restart, Idle
  <2> QED BY <2>1 DEF OneAccount
<1>10. ASSUME GatewayChanges \/ UNCHANGED vars PROVE OneAccount'
  BY <1>1, <1>10 DEF GatewayChanges, Gateway, vars, adapterVars
<1> QED BY <1>2, <1>3, <1>4, <1>5, <1>6, <1>7, <1>8, <1>9, <1>10 DEF Next

\* A verdict is about one account, or about a read that failed: the adapter
\* never mixes accounts, whatever OpenD lists in between.
THEOREM VerdictsAreConsistent == Spec => []VerdictIsOfOneAccount
<1>1. Init => OneAccount  BY DEF Init, OneAccount, Idle
<1>2. Spec => []OneAccount  BY <1>1, NextOneAccount, CockpitTypes, PTL DEF Spec
<1>3. TypeOK /\ Sound /\ OneAccount => VerdictIsOfOneAccount
  <2> SUFFICES ASSUME TypeOK, Sound, OneAccount, AllowedPreview,
                      None \notin {request.account, request.positions, request.open}
               PROVE  \E a \in Accounts :
                        Allowed(ContextOf(request.order, a, a, a, request.quoteAge,
                                          request.kill))
    BY DEF VerdictIsOfOneAccount
  <2>1. request.kind = "preview" /\ Allowed(Context(request))
    BY DEF AllowedPreview, At, Sound
  <2>2. /\ request.account = accountId /\ request.positions = accountId
        /\ request.open = accountId
    BY <2>1 DEF OneAccount
  <2>3. accountId \in Accounts  BY <2>2 DEF TypeOK, AdapterTypeOK
  <2>4. Context(request) = ContextOf(request.order, accountId, accountId, accountId,
                                     request.quoteAge, request.kill)
    BY <2>2 DEF Context
  <2> QED BY <2>1, <2>3, <2>4
<1> QED BY <1>2, <1>3, CockpitTypes, AnswersAreSound, PTL

\* A lookup that is past the quote has seen no price there, or no answer; one
\* that is past the positions likewise.
NoQuote == LastPrice[request.symbol] > 0 => "quote" \in request.failed
NoPosition ==
    \/ "positions" \in request.failed
    \/ request.book # None /\ PriceHeld(request.book, request.symbol) = {}

Passed ==
    request.kind = "price" =>
        /\ request.step \in {"position", "close"} => NoQuote
        /\ request.step = "close" => NoPosition
        /\ request.source \in {"close", "DATA_ERROR"} =>
               request.step = "answered" /\ NoQuote /\ NoPosition

LEMMA NextPassed == TypeOK /\ Passed /\ [Next]_vars => Passed'
<1> SUFFICES ASSUME TypeOK, Passed, [Next]_vars PROVE Passed'  OBVIOUS
<1> USE DEF At
<1>1. ASSUME request' = request PROVE Passed'
  BY <1>1 DEF Passed, NoQuote, NoPosition, PriceHeld, Held
<1>2. ASSUME request'.kind # "price" PROVE Passed'  BY <1>2 DEF Passed
<1>3. ASSUME Lookup PROVE Passed'
  <2>1. request'.step = "quote" /\ request'.source = "none"  BY <1>3 DEF Lookup
  <2> QED BY <2>1 DEF Passed
<1>4. ASSUME LookupQuote PROVE Passed'
  <2>1. request \in Lookups  BY <1>4, KindTells DEF LookupQuote
  <2>2. LastPrice[request.symbol] \in Int  BY <2>1, ClosesAssumption DEF Lookups
  <2>3. request.source \notin {"close", "DATA_ERROR"}  BY <1>4 DEF LookupQuote, Passed
  <2>4. PICK answered \in QuoteAnswers :
           request' =
              IF answered /\ LastPrice[request.symbol] > 0
              THEN Answer(request, LastPrice[request.symbol], "quote")
              ELSE [request EXCEPT !.step = "position",
                                   !.failed = IF answered THEN @ ELSE @ \cup {"quote"}]
    BY <1>4 DEF LookupQuote
  <2>5. CASE answered /\ LastPrice[request.symbol] > 0
    <3>1. request'.step = "answered" /\ request'.source = "quote"
      BY <2>1, <2>4, <2>5 DEF Answer, Lookups
    <3> QED BY <3>1 DEF Passed
  <2>6. CASE ~(answered /\ LastPrice[request.symbol] > 0)
    <3>1. /\ request'.step = "position" /\ request'.symbol = request.symbol
          /\ request'.source = request.source
          /\ request'.failed = IF answered THEN request.failed
                               ELSE request.failed \cup {"quote"}
      BY <2>1, <2>4, <2>6 DEF Lookups
    <3> QED BY <2>3, <2>6, <3>1 DEF Passed, NoQuote
  <2> QED BY <2>5, <2>6
<1>5. ASSUME LookupPosition PROVE Passed'
  <2>1. request \in Lookups  BY <1>5, KindTells DEF LookupPosition
  <2>2. request.source \notin {"close", "DATA_ERROR"} /\ NoQuote
    BY <1>5, <2>1 DEF LookupPosition, Passed
  <2>3. PICK source \in Sources :
          LET prices == PriceHeld(source, request.symbol)
              asked == [request EXCEPT
                          !.book = source,
                          !.failed = IF source = None THEN @ \cup {"positions"} ELSE @]
          IN request' = IF prices = {} THEN [asked EXCEPT !.step = "close"]
                        ELSE Answer(asked, CHOOSE p \in prices : TRUE, "position")
    BY <1>5 DEF LookupPosition
  <2> DEFINE prices == PriceHeld(source, request.symbol)
  <2>4. CASE prices = {}
    <3>1. /\ request'.step = "close" /\ request'.symbol = request.symbol
          /\ request'.source = request.source /\ request'.book = source
          /\ request'.failed = IF source = None THEN request.failed \cup {"positions"}
                               ELSE request.failed
      BY <2>1, <2>3, <2>4 DEF Lookups
    <3>2. NoQuote'  BY <2>2, <3>1 DEF NoQuote
    <3>3. NoPosition'  BY <2>4, <3>1 DEF NoPosition, PriceHeld, Held
    <3> QED BY <2>2, <3>1, <3>2, <3>3 DEF Passed
  <2>5. CASE prices # {}
    <3>1. request'.step = "answered" /\ request'.source = "position"
      BY <2>1, <2>3, <2>5 DEF Answer, Lookups
    <3> QED BY <3>1 DEF Passed
  <2> QED BY <2>4, <2>5
<1>6. ASSUME LookupBars \/ LookupCached PROVE Passed'
  <2>1. request \in Lookups  BY <1>6, KindTells DEF LookupBars, LookupCached
  <2>2. NoQuote /\ NoPosition  BY <1>6 DEF LookupBars, LookupCached, Passed
  <2>3. /\ request'.step = "answered" /\ request'.symbol = request.symbol
        /\ request'.book = request.book /\ request'.failed = request.failed
    BY <1>6, <2>1 DEF LookupBars, LookupCached, Answer, Lookups
  <2>4. NoQuote' /\ NoPosition'
    BY <2>2, <2>3 DEF NoQuote, NoPosition, PriceHeld, Held
  <2> QED BY <2>3, <2>4 DEF Passed
<1>7. ASSUME ReadAccount \/ ReadQuote \/ ReadPositions \/ ReadOrders \/ Evaluate
      PROVE  Passed'
  <2>1. request \in Previews
    BY <1>7, KindTells DEF ReadAccount, ReadQuote, ReadPositions, ReadOrders, Evaluate
  <2>2. request'.kind = "preview"
    BY <1>7, <2>1
       DEF ReadAccount, ReadQuote, ReadPositions, ReadOrders, Evaluate, Previews
  <2> QED BY <1>2, <2>2
<1>8. ASSUME Preview \/ Advise \/ Screen PROVE Passed'
  <2>1. request'.kind \in {"preview", "advice", "screen"}
    BY <1>8 DEF Preview, Advise, Screen
  <2> QED BY <1>2, <2>1
<1>9. ASSUME Respond \/ Restart PROVE Passed'
  <2>1. request'.kind = "idle"  BY <1>9 DEF Respond, Restart, Idle
  <2> QED BY <1>2, <2>1
<1>10. ASSUME GatewayChanges \/ UNCHANGED vars PROVE Passed'
  BY <1>1, <1>10 DEF GatewayChanges, vars
<1> QED BY <1>3, <1>4, <1>5, <1>6, <1>7, <1>8, <1>9, <1>10 DEF Next

\* A stale close is the last resort.
THEOREM StaleCloseIsLast == Spec => []StaleCloseOnlyAfterFailedRead
<1>1. Init => Passed  BY DEF Init, Passed, Idle
<1>2. Spec => []Passed  BY <1>1, NextPassed, CockpitTypes, PTL DEF Spec
<1>3. Passed => StaleCloseOnlyAfterFailedRead
  BY DEF Passed, NoQuote, NoPosition, StaleCloseOnlyAfterFailedRead
<1> QED BY <1>2, <1>3, PTL
=============================================================================
