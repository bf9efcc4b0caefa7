---------------------------- MODULE EntryProofs -----------------------------
(***************************************************************************)
(* Theorems about an entry before its submission: the size                 *)
(* calculate_position_size() returns, the loss budget of the day and the   *)
(* week, the gates of the pre-trade check and the approval of the signal.  *)
(***************************************************************************)
EXTENDS PreTrade, LossBudget, SignalLifecycle, SumsProofs, TLAPS

-----------------------------------------------------------------------------
(***************************************************************************)
(* RiskRules. The volume by division is the largest the definition allows. *)
(***************************************************************************)

\* The smaller of two integers.
LEMMA MinOfTwo ==
    ASSUME NEW a \in Int, NEW b \in Int PROVE Min({a, b}) = IF a <= b THEN a ELSE b
BY DEF Min

\* The quotient is the largest factor that fits.
LEMMA Quotient ==
    ASSUME NEW a \in Nat, NEW d \in Nat \ {0}
    PROVE  /\ a \div d \in Nat /\ (a \div d) * d <= a
           /\ \A k \in Nat : k * d <= a => k <= a \div d
OBVIOUS

\* A number without remainder is a multiple.
LEMMA Multiple ==
    ASSUME NEW a \in Nat, NEW d \in Nat \ {0}, a % d = 0 PROVE \E k \in Nat : a = k * d
OBVIOUS

\* A multiple has no remainder.
LEMMA NoRemainder == ASSUME NEW k \in Nat, NEW d \in Nat \ {0} PROVE (k * d) % d = 0
OBVIOUS

\* A product grows with its factors.
LEMMA ProductGrows ==
    ASSUME NEW a \in Int, NEW b \in Int, a <= b, NEW d \in Nat PROVE a * d <= b * d
OBVIOUS

\* The constants of the symbol and of the sizing are natural numbers.
LEMMA SizingTypes ==
    /\ VolumeMin \in Nat \ {0} /\ VolumeStep \in Nat \ {0} /\ VolumeMax \in Nat
    /\ VolumeMax - VolumeMin \in Nat /\ RiskPerTrade \in Nat \ {0} /\ Thousand = 1000
BY LimitsAssumption DEF Thousand

\* The volume the steps lead to is tradable and within the risk, and no tradable
\* volume within the risk is larger.
LEMMA StepsFit ==
    ASSUME NEW allowed \in Nat, NEW lost \in Nat \ {0}, VolumeMin * lost <= allowed,
           NEW volume, volume = VolumeMin + Steps(allowed, lost) * VolumeStep
    PROVE  /\ Tradable(volume) /\ volume * lost <= allowed
           /\ \A v \in VolumeMin .. VolumeMax : Tradable(v) /\ v * lost <= allowed => v <= volume
<1> DEFINE room == allowed - VolumeMin * lost
           span == VolumeMax - VolumeMin
           step == lost * VolumeStep
           byRisk == room \div step
           bySpan == span \div VolumeStep
           n == Steps(allowed, lost)
<1>1. /\ VolumeMin * lost \in Nat /\ room \in Nat /\ span \in Nat /\ step \in Nat \ {0}
      /\ VolumeMin \in Nat \ {0} /\ VolumeStep \in Nat \ {0} /\ VolumeMax \in Nat
  BY SizingTypes
<1>2. /\ byRisk \in Nat /\ byRisk * step <= room
      /\ \A k \in Nat : k * step <= room => k <= byRisk
  BY <1>1, Quotient
<1>3. /\ bySpan \in Nat /\ bySpan * VolumeStep <= span
      /\ \A k \in Nat : k * VolumeStep <= span => k <= bySpan
  BY <1>1, Quotient
<1>4. n = IF byRisk <= bySpan THEN byRisk ELSE bySpan
  BY <1>2, <1>3, MinOfTwo DEF Steps
<1> HIDE DEF byRisk, bySpan, n
<1>5. n \in Nat /\ n <= byRisk /\ n <= bySpan
  BY <1>2, <1>3, <1>4
<1>6. n * VolumeStep \in Nat /\ n * VolumeStep <= span
  <2>1. n * VolumeStep <= bySpan * VolumeStep
    BY <1>1, <1>3, <1>5, ProductGrows
  <2>2. n * VolumeStep \in Nat /\ bySpan * VolumeStep \in Nat
    BY <1>1, <1>3, <1>5
  <2> QED
    BY <1>1, <1>3, <2>1, <2>2
<1>7. n * step <= room
  <2>1. n * step <= byRisk * step
    BY <1>1, <1>2, <1>5, ProductGrows
  <2>2. n * step \in Nat /\ byRisk * step \in Nat
    BY <1>1, <1>2, <1>5
  <2> QED
    BY <1>1, <1>2, <2>1, <2>2
<1>8. volume = VolumeMin + n * VolumeStep
  BY DEF n
<1>9. Tradable(volume)
  <2>1. volume \in VolumeMin .. VolumeMax /\ volume - VolumeMin = n * VolumeStep
    BY <1>1, <1>6, <1>8
  <2>2. (n * VolumeStep) % VolumeStep = 0
    BY <1>1, <1>5, NoRemainder
  <2> QED
    BY <2>1, <2>2 DEF Tradable
<1>10. volume * lost <= allowed
  <2>1. volume * lost = VolumeMin * lost + n * step
    BY <1>1, <1>5, <1>8
  <2>2. n * step \in Nat
    BY <1>1, <1>5
  <2> QED
    BY <1>1, <1>7, <2>1, <2>2
<1>11. ASSUME NEW v \in VolumeMin .. VolumeMax, Tradable(v), v * lost <= allowed PROVE v <= volume
  <2>1. v - VolumeMin \in Nat /\ (v - VolumeMin) % VolumeStep = 0
    BY <1>1, <1>11 DEF Tradable
  <2>2. PICK k \in Nat : v - VolumeMin = k * VolumeStep
    BY <1>1, <2>1, Multiple
  <2>3. k <= bySpan
    <3>1. k * VolumeStep <= span
      BY <1>1, <2>2
    <3> QED
      BY <1>3, <3>1
  <2>4. k <= byRisk
    <3>1. v * lost = VolumeMin * lost + k * step
      <4>1. v = VolumeMin + k * VolumeStep
        BY <1>1, <2>2
      <4> QED
        BY <1>1, <4>1
    <3>2. k * step \in Nat
      BY <1>1
    <3>3. k * step <= room
      BY <1>1, <1>11, <3>1, <3>2
    <3> QED
      BY <1>2, <3>3
  <2>5. k <= n
    BY <1>4, <2>3, <2>4
  <2>6. k * VolumeStep <= n * VolumeStep
    BY <1>1, <1>5, <2>5, ProductGrows
  <2> QED
    BY <1>1, <1>6, <1>8, <2>2, <2>6
<1> QED
  BY <1>9, <1>10, <1>11

\* The largest element of a set that has one.
LEMMA MaxIs ==
    ASSUME NEW S, S \subseteq Int, NEW m \in S, \A x \in S : x <= m PROVE Max(S) = m
<1>1. \A y \in S : m >= y
  OBVIOUS
<1>2. Max(S) \in S /\ \A y \in S : Max(S) >= y
  BY <1>1, Zenon DEF Max
<1>3. Max(S) \in Int /\ m \in Int /\ Max(S) >= m /\ m >= Max(S)
  BY <1>1, <1>2, Zenon
<1> QED
  BY <1>3

\* PositionSizer.calculate() finds the largest tradable volume whose loss at the stop
\* is within the risk of a trade, for every equity and every loss; it raises exactly
\* when there is none.
THEOREM SizingIsLargest ==
    ASSUME NEW e \in Int, NEW loss \in Nat \ {0}
    PROVE  /\ SizedVolume(e, loss) = LargestVolume(e, loss)
           /\ SizedVolume(e, loss) # NoVolume => Tradable(SizedVolume(e, loss))
<1> DEFINE allowed == AllowedRisk(e)
           lost == loss * Thousand
           volume == VolumeMin + Steps(allowed, lost) * VolumeStep
           fitting == {v \in VolumeMin .. VolumeMax :
                         Tradable(v) /\ CashRisk(v, loss) * Thousand <= AllowedRisk(e)}
<1>1. allowed \in Int /\ lost \in Nat \ {0} /\ VolumeMin \in Nat \ {0} /\ VolumeMax \in Nat
      /\ VolumeMin <= VolumeMax
  BY SizingTypes, LimitsAssumption DEF AllowedRisk
<1>2. \A v \in VolumeMin .. VolumeMax : CashRisk(v, loss) * Thousand = v * lost
  <2> SUFFICES ASSUME NEW v \in VolumeMin .. VolumeMax
               PROVE  (v * loss) * Thousand = v * (loss * Thousand)
    BY DEF CashRisk
  <2>1. v \in Int
    BY <1>1
  <2> QED
    BY <2>1 DEF Thousand
<1>3. fitting = {v \in VolumeMin .. VolumeMax : Tradable(v) /\ v * lost <= allowed}
  BY <1>2
<1>4. CASE e > 0 /\ VolumeMin * lost <= allowed
  <2>1. allowed \in Nat
    BY <1>4, SizingTypes DEF AllowedRisk
  <2>2. /\ Tradable(volume) /\ volume * lost <= allowed
        /\ \A v \in VolumeMin .. VolumeMax : Tradable(v) /\ v * lost <= allowed => v <= volume
    BY <1>1, <1>4, <2>1, StepsFit
  <2>3. volume \in VolumeMin .. VolumeMax
    BY <2>2 DEF Tradable
  <2> HIDE DEF volume, allowed, lost
  <2>4. ~(Min({allowed, VolumeMax * lost}) < VolumeMin * lost)
    <3>1. VolumeMin * lost <= VolumeMax * lost /\ VolumeMax * lost \in Int /\ VolumeMin * lost \in Int
      BY <1>1, ProductGrows
    <3>2. Min({allowed, VolumeMax * lost}) =
            IF allowed <= VolumeMax * lost THEN allowed ELSE VolumeMax * lost
      BY <1>1, <3>1, MinOfTwo
    <3> QED
      BY <1>1, <1>4, <3>1, <3>2
  <2>5. CashRisk(volume, lost) <= allowed /\ ~(volume > VolumeMax)
    BY <1>1, <2>2, <2>3 DEF CashRisk
  <2>6. SizedVolume(e, loss) = volume
    <3>1. ~(e <= 0 \/ loss <= 0)
      BY <1>4
    <3>2. ~(CashRisk(volume, lost) > allowed)
      <4>1. CashRisk(volume, lost) \in Int
        BY <1>1, <2>3 DEF CashRisk
      <4> QED
        BY <1>1, <2>5, <4>1
    <3> QED
      BY <2>4, <2>5, <3>1, <3>2 DEF SizedVolume, volume, allowed, lost
  <2>7. volume \in fitting /\ \A v \in fitting : v <= volume
    BY <1>3, <2>2, <2>3
  <2>8. LargestVolume(e, loss) = volume
    <3> DEFINE all == {NoVolume} \cup fitting
    <3>1. LargestVolume(e, loss) = Max(all)
      BY DEF LargestVolume
    <3>2. all \subseteq Int /\ volume \in all /\ \A v \in all : v <= volume
      BY <1>1, <2>3, <2>7 DEF NoVolume
    <3> HIDE DEF all
    <3> QED
      BY <3>1, <3>2, MaxIs
  <2> QED
    BY <2>2, <2>6, <2>8
<1>5. CASE ~(e > 0 /\ VolumeMin * lost <= allowed)
  <2>1. VolumeMin * lost > allowed
    <3>1. VolumeMin * lost \in Nat \ {0}
      BY <1>1
    <3>2. e <= 0 => allowed <= 0
      BY SizingTypes DEF AllowedRisk
    <3> QED
      BY <1>1, <1>5, <3>1, <3>2
  <2>2. SizedVolume(e, loss) = NoVolume
    <3>1. VolumeMax * lost \in Int /\ VolumeMin * lost \in Int
      BY <1>1
    <3>2. Min({allowed, VolumeMax * lost}) =
            IF allowed <= VolumeMax * lost THEN allowed ELSE VolumeMax * lost
      BY <1>1, <3>1, MinOfTwo
    <3>3. Min({allowed, VolumeMax * lost}) < VolumeMin * lost
      BY <1>1, <2>1, <3>1, <3>2
    <3> QED
      BY <3>3 DEF SizedVolume
  <2>3. fitting = {}
    <3> SUFFICES ASSUME NEW v \in VolumeMin .. VolumeMax, v * lost <= allowed PROVE FALSE
      BY <1>3
    <3>1. VolumeMin * lost <= v * lost /\ v * lost \in Int /\ VolumeMin * lost \in Int
      BY <1>1, ProductGrows
    <3> QED
      BY <1>1, <2>1, <3>1
  <2>4. LargestVolume(e, loss) = NoVolume
    <3>1. LargestVolume(e, loss) = Max({NoVolume})
      BY <2>3 DEF LargestVolume
    <3> QED
      BY <3>1, MaxIs DEF NoVolume
  <2> QED
    BY <2>2, <2>4
<1> QED
  BY <1>4, <1>5

-----------------------------------------------------------------------------
(***************************************************************************)
(* LossBudget. The use of a budget is a sum over the rows; an entry adds   *)
(* at most what the gate left, and every other step moves a row from the   *)
(* open to the closed side without adding to the sum.                      *)
(***************************************************************************)

TradeRows ==
    [risk : Nat, open : BOOLEAN, pnl : Int, endDay : Nat,
     row : {"open", "closed"}, stored : Int, recorded : Int, closedDay : Nat]

\* What a trade takes of the budget of a day, and of the week of a day.
DayUseOf(t, d)  == Counted(t.row = "closed" /\ t.closedDay = d, LossOf(t.recorded)) + AtRisk(t)
WeekUseOf(t, d) == Counted(t.row = "closed" /\ Week(t.closedDay) = Week(d), LossOf(t.recorded))
                      + AtRisk(t)

DayUses(s, d)  == [i \in DOMAIN s |-> DayUseOf(s[i], d)]
WeekUses(s, d) == [i \in DOMAIN s |-> WeekUseOf(s[i], d)]

\* The stop bounds what a trade can lose, at the broker and in the row.
RowOK(t, d) == t \in TradeRows /\ t.pnl >= 0 - t.risk /\ t.stored >= 0 - t.risk /\ t.closedDay <= d

\* The use of every trade only falls once it is entered; a usage that was read is at
\* least what the trades take now.
BudgetInv ==
    /\ day \in Nat /\ balance \in Int /\ granted \in Int
    /\ trades \in Seq(TradeRows) /\ \A i \in DOMAIN trades : RowOK(trades[i], day)
    /\ Sum(DayUses(trades, day)) * Thousand < granted * MaximumDailyLoss
    /\ Sum(WeekUses(trades, day)) * Thousand < granted * MaximumWeeklyLoss
    /\ batch # NoBatch =>
         /\ batch.left = 1
         /\ batch.usage.daily \in Int /\ batch.usage.weekly \in Int /\ batch.usage.open \in Int
         /\ Sum(DayUses(trades, day)) <= batch.usage.daily + batch.usage.open
         /\ Sum(WeekUses(trades, day)) <= batch.usage.weekly + batch.usage.open

LEMMA LimitTypes ==
    /\ MaximumDailyLoss \in Nat \ {0} /\ MaximumWeeklyLoss \in Nat \ {0} /\ Thousand = 1000
    /\ WeekLength \in Nat \ {0} /\ Deposit \in Nat \ {0} /\ StopLosses \subseteq Nat \ {0}
<1>1. MaximumDailyLoss \in 1 .. 1000 /\ MaximumWeeklyLoss \in 1 .. 1000
  BY LimitsAssumption DEF Thousand
<1> QED
  BY <1>1, BudgetAssumption DEF Thousand

\* Weeks follow their days.
LEMMA WeekOrder ==
    ASSUME NEW a \in Nat, NEW b \in Nat, a <= b
    PROVE  Week(a) \in Nat /\ Week(b) \in Nat /\ Week(a) <= Week(b)
<1>1. a \div WeekLength \in Nat /\ b \div WeekLength \in Nat
  BY LimitTypes
<1>2. a \div WeekLength <= b \div WeekLength
  BY LimitTypes
<1> QED
  BY <1>1, <1>2 DEF Week

LEMMA UseTypes ==
    ASSUME NEW t \in TradeRows, NEW d \in Nat
    PROVE  DayUseOf(t, d) \in Nat /\ WeekUseOf(t, d) \in Nat
BY DEF TradeRows, DayUseOf, WeekUseOf, Counted, LossOf, AtRisk

LEMMA UsesTypes ==
    ASSUME NEW s \in Seq(TradeRows), NEW d \in Nat
    PROVE  /\ DayUses(s, d) \in Seq(Int) /\ Len(DayUses(s, d)) = Len(s)
           /\ WeekUses(s, d) \in Seq(Int) /\ Len(WeekUses(s, d)) = Len(s)
           /\ \A i \in 1 .. Len(s) : /\ DayUses(s, d)[i] = DayUseOf(s[i], d)
                                     /\ WeekUses(s, d)[i] = WeekUseOf(s[i], d)
           /\ Sum(DayUses(s, d)) \in Int /\ Sum(WeekUses(s, d)) \in Int
<1>1. \A i \in 1 .. Len(s) : DayUseOf(s[i], d) \in Int /\ WeekUseOf(s[i], d) \in Int
  <2> SUFFICES ASSUME NEW i \in 1 .. Len(s)
               PROVE  DayUseOf(s[i], d) \in Int /\ WeekUseOf(s[i], d) \in Int
    OBVIOUS
  <2>1. s[i] \in TradeRows
    OBVIOUS
  <2>2. DayUseOf(s[i], d) \in Nat /\ WeekUseOf(s[i], d) \in Nat
    BY <2>1, UseTypes, Zenon
  <2> QED
    BY <2>2
<1>2. /\ DayUses(s, d) \in Seq(Int) /\ Len(DayUses(s, d)) = Len(s)
      /\ \A i \in 1 .. Len(s) : DayUses(s, d)[i] = DayUseOf(s[i], d)
  BY <1>1 DEF DayUses
<1>3. /\ WeekUses(s, d) \in Seq(Int) /\ Len(WeekUses(s, d)) = Len(s)
      /\ \A i \in 1 .. Len(s) : WeekUses(s, d)[i] = WeekUseOf(s[i], d)
  BY <1>1 DEF WeekUses
<1> QED
  BY <1>2, <1>3, SumType

\* The sums fall with the uses.
LEMMA UsesFall ==
    ASSUME NEW s \in Seq(TradeRows), NEW t \in Seq(TradeRows), Len(s) = Len(t),
           NEW d \in Nat, NEW e \in Nat,
           \A i \in 1 .. Len(s) : /\ DayUseOf(t[i], e) <= DayUseOf(s[i], d)
                                  /\ WeekUseOf(t[i], e) <= WeekUseOf(s[i], d)
    PROVE  /\ Sum(DayUses(t, e)) <= Sum(DayUses(s, d))
           /\ Sum(WeekUses(t, e)) <= Sum(WeekUses(s, d))
<1>1. \A i \in 1 .. Len(t) : /\ DayUses(t, e)[i] <= DayUses(s, d)[i]
                             /\ WeekUses(t, e)[i] <= WeekUses(s, d)[i]
  BY UsesTypes
<1>2. /\ DayUses(t, e) \in Seq(Int) /\ DayUses(s, d) \in Seq(Int)
      /\ WeekUses(t, e) \in Seq(Int) /\ WeekUses(s, d) \in Seq(Int)
      /\ Len(DayUses(t, e)) = Len(t) /\ Len(DayUses(s, d)) = Len(t)
      /\ Len(WeekUses(t, e)) = Len(t) /\ Len(WeekUses(s, d)) = Len(t)
  BY UsesTypes
<1> HIDE DEF DayUses, WeekUses
<1>3. Sum(DayUses(t, e)) <= Sum(DayUses(s, d))
  BY <1>1, <1>2, SumMonotone
<1>4. Sum(WeekUses(t, e)) <= Sum(WeekUses(s, d))
  BY <1>1, <1>2, SumMonotone
<1> QED
  BY <1>3, <1>4

\* The usage that risk_usage() computes is the sum of the uses.
LEMMA UsageIsSum ==
    ASSUME day \in Nat, trades \in Seq(TradeRows)
    PROVE  /\ RiskUsage.daily \in Int /\ RiskUsage.weekly \in Int /\ RiskUsage.open \in Int
           /\ Sum(DayUses(trades, day)) = RiskUsage.daily + RiskUsage.open
           /\ Sum(WeekUses(trades, day)) = RiskUsage.weekly + RiskUsage.open
<1> DEFINE days  == [i \in DOMAIN trades |-> LostOnDay(trades[i])]
           weeks == [i \in DOMAIN trades |-> LostInWeek(trades[i])]
           opens == [i \in DOMAIN trades |-> AtRisk(trades[i])]
<1>1. RiskUsage.daily = Sum(days) /\ RiskUsage.weekly = Sum(weeks) /\ RiskUsage.open = Sum(opens)
  BY DEF RiskUsage
<1>2. \A i \in 1 .. Len(trades) :
         /\ LostOnDay(trades[i]) \in Int /\ LostInWeek(trades[i]) \in Int
         /\ AtRisk(trades[i]) \in Int
  <2> SUFFICES ASSUME NEW t \in TradeRows
               PROVE  LostOnDay(t) \in Int /\ LostInWeek(t) \in Int /\ AtRisk(t) \in Int
    OBVIOUS
  <2> QED
    BY DEF TradeRows, LostOnDay, LostInWeek, AtRisk, Counted, LossOf
<1>3. /\ days \in Seq(Int) /\ Len(days) = Len(trades)
      /\ \A i \in 1 .. Len(trades) : days[i] = LostOnDay(trades[i])
  BY <1>2
<1>4. /\ weeks \in Seq(Int) /\ Len(weeks) = Len(trades)
      /\ \A i \in 1 .. Len(trades) : weeks[i] = LostInWeek(trades[i])
  BY <1>2
<1>5. /\ opens \in Seq(Int) /\ Len(opens) = Len(trades)
      /\ \A i \in 1 .. Len(trades) : opens[i] = AtRisk(trades[i])
  BY <1>2
<1>6. /\ DayUses(trades, day) \in Seq(Int) /\ Len(DayUses(trades, day)) = Len(trades)
      /\ WeekUses(trades, day) \in Seq(Int) /\ Len(WeekUses(trades, day)) = Len(trades)
      /\ \A i \in 1 .. Len(trades) :
           /\ DayUses(trades, day)[i] = LostOnDay(trades[i]) + AtRisk(trades[i])
           /\ WeekUses(trades, day)[i] = LostInWeek(trades[i]) + AtRisk(trades[i])
  BY UsesTypes DEF DayUseOf, WeekUseOf, LostOnDay, LostInWeek
<1> HIDE DEF days, weeks, opens
<1>7. Sum(DayUses(trades, day)) = Sum(days) + Sum(opens)
  BY <1>3, <1>5, <1>6, SumAdd
<1>8. Sum(WeekUses(trades, day)) = Sum(weeks) + Sum(opens)
  BY <1>4, <1>5, <1>6, SumAdd
<1> QED
  BY <1>1, <1>3, <1>4, <1>5, <1>7, <1>8, SumType

LEMMA EquityType ==
    ASSUME balance \in Int, trades \in Seq(TradeRows) PROVE Equity \in Int
<1> DEFINE floats == [i \in DOMAIN trades |-> Counted(trades[i].open, trades[i].pnl)]
<1>1. \A i \in 1 .. Len(trades) : Counted(trades[i].open, trades[i].pnl) \in Int
  <2> SUFFICES ASSUME NEW t \in TradeRows PROVE Counted(t.open, t.pnl) \in Int
    OBVIOUS
  <2> QED
    BY DEF TradeRows, Counted
<1>2. floats \in Seq(Int)
  BY <1>1
<1>3. Floating = Sum(floats)
  BY DEF Floating
<1> QED
  BY <1>2, <1>3, SumType DEF Equity

LEMMA StillBelow ==
    ASSUME NEW a \in Int, NEW b \in Int, a <= b, NEW c \in Int, b * Thousand < c
    PROVE  a * Thousand < c
BY DEF Thousand

\* A step that keeps the trades' types and lowers every use keeps the budget.
LEMMA BudgetKept ==
    ASSUME BudgetInv, day' \in Nat, balance' \in Int, granted' = granted,
           trades' \in Seq(TradeRows), Len(trades') = Len(trades),
           \A i \in 1 .. Len(trades) :
              /\ RowOK(trades'[i], day')
              /\ DayUseOf(trades'[i], day') <= DayUseOf(trades[i], day)
              /\ WeekUseOf(trades'[i], day') <= WeekUseOf(trades[i], day),
           batch' = batch \/ batch' = NoBatch
    PROVE  BudgetInv'
<1>1. trades \in Seq(TradeRows) /\ day \in Nat /\ granted \in Int
  BY DEF BudgetInv
<1>2. /\ Sum(DayUses(trades', day')) <= Sum(DayUses(trades, day))
      /\ Sum(WeekUses(trades', day')) <= Sum(WeekUses(trades, day))
  BY <1>1, UsesFall
<1>3. /\ Sum(DayUses(trades', day')) \in Int /\ Sum(DayUses(trades, day)) \in Int
      /\ Sum(WeekUses(trades', day')) \in Int /\ Sum(WeekUses(trades, day)) \in Int
  BY <1>1, UsesTypes
<1>4. granted * MaximumDailyLoss \in Int /\ granted * MaximumWeeklyLoss \in Int /\ Thousand = 1000
  BY <1>1, LimitTypes
<1>5. /\ Sum(DayUses(trades', day')) * Thousand < granted' * MaximumDailyLoss
      /\ Sum(WeekUses(trades', day')) * Thousand < granted' * MaximumWeeklyLoss
  <2>1. /\ Sum(DayUses(trades, day)) * Thousand < granted * MaximumDailyLoss
        /\ Sum(WeekUses(trades, day)) * Thousand < granted * MaximumWeeklyLoss
    BY DEF BudgetInv
  <2> QED
    BY <1>2, <1>3, <1>4, <2>1, StillBelow
<1>6. batch' # NoBatch =>
         /\ batch'.left = 1
         /\ batch'.usage.daily \in Int /\ batch'.usage.weekly \in Int
         /\ batch'.usage.open \in Int
         /\ Sum(DayUses(trades', day')) <= batch'.usage.daily + batch'.usage.open
         /\ Sum(WeekUses(trades', day')) <= batch'.usage.weekly + batch'.usage.open
  BY <1>2, <1>3 DEF BudgetInv
<1>7. \A i \in DOMAIN trades' : RowOK(trades'[i], day')
  OBVIOUS
<1> QED
  BY <1>1, <1>5, <1>6, <1>7, Zenon DEF BudgetInv

LEMMA InitBudget == BudgetInit => BudgetInv
<1> SUFFICES ASSUME BudgetInit PROVE BudgetInv
  OBVIOUS
<1>1. trades = << >> /\ day = 0 /\ balance \in Int /\ granted = Deposit /\ batch = NoBatch
  BY LimitTypes DEF BudgetInit
<1>2. DayUses(trades, day) = << >> /\ WeekUses(trades, day) = << >>
  BY <1>1 DEF DayUses, WeekUses
<1>3. 0 * Thousand < Deposit * MaximumDailyLoss /\ 0 * Thousand < Deposit * MaximumWeeklyLoss
  BY LimitTypes
<1> QED
  BY <1>1, <1>2, <1>3, SumEmpty, LimitTypes DEF BudgetInv

\* A step of one trade.
LEMMA OneTrade ==
    ASSUME BudgetInv, NEW i \in DOMAIN trades, NEW t, trades' = [trades EXCEPT ![i] = t],
           RowOK(t, day), DayUseOf(t, day) <= DayUseOf(trades[i], day),
           WeekUseOf(t, day) <= WeekUseOf(trades[i], day),
           UNCHANGED <<day, batch, granted>>, balance' \in Int
    PROVE  BudgetInv'
<1>1. trades \in Seq(TradeRows) /\ day \in Nat /\ t \in TradeRows
  BY DEF BudgetInv, RowOK
<1>2. trades' \in Seq(TradeRows) /\ Len(trades') = Len(trades)
  BY <1>1
<1>3. ASSUME NEW j \in 1 .. Len(trades)
      PROVE  /\ RowOK(trades'[j], day')
             /\ DayUseOf(trades'[j], day') <= DayUseOf(trades[j], day)
             /\ WeekUseOf(trades'[j], day') <= WeekUseOf(trades[j], day)
  <2>1. CASE j = i
    <3>1. trades'[j] = t
      BY <1>1, <2>1
    <3> QED
      BY <2>1, <3>1
  <2>2. CASE j # i
    <3>1. trades'[j] = trades[j] /\ trades[j] \in TradeRows
      BY <1>1, <2>2
    <3>2. DayUseOf(trades[j], day) \in Nat /\ WeekUseOf(trades[j], day) \in Nat
      BY <1>1, <3>1, UseTypes
    <3>3. RowOK(trades[j], day)
      BY DEF BudgetInv
    <3> QED
      BY <3>1, <3>2, <3>3
  <2> QED
    BY <2>1, <2>2
<1> QED
  BY <1>1, <1>2, <1>3, BudgetKept

LEMMA ProfitKept == ASSUME BudgetInv, NEW i \in DOMAIN trades, ProfitMoves(i) PROVE BudgetInv'
<1>1. trades[i] \in TradeRows /\ RowOK(trades[i], day) /\ day \in Nat
  BY DEF BudgetInv
<1>2. PICK pnl \in {0 - trades[i].risk, 0, trades[i].risk} : trades' = [trades EXCEPT ![i].pnl = pnl]
  BY DEF ProfitMoves
<1> DEFINE t == [trades[i] EXCEPT !.pnl = pnl]
<1>3. trades' = [trades EXCEPT ![i] = t]
  BY <1>2
<1>4. pnl \in Int /\ pnl >= 0 - trades[i].risk
  BY <1>1 DEF TradeRows
<1>5. t \in TradeRows /\ t.pnl = pnl /\ t.risk = trades[i].risk /\ t.stored = trades[i].stored
      /\ t.closedDay = trades[i].closedDay /\ t.row = trades[i].row /\ t.recorded = trades[i].recorded
  BY <1>1, <1>4 DEF TradeRows
<1> HIDE DEF t
<1>6. RowOK(t, day)
  BY <1>1, <1>4, <1>5 DEF RowOK
<1>7. DayUseOf(t, day) = DayUseOf(trades[i], day) /\ WeekUseOf(t, day) = WeekUseOf(trades[i], day)
  BY <1>5, Zenon DEF DayUseOf, WeekUseOf, AtRisk
<1>8. DayUseOf(t, day) <= DayUseOf(trades[i], day) /\ WeekUseOf(t, day) <= WeekUseOf(trades[i], day)
  BY <1>1, <1>5, <1>7, UseTypes
<1>9. balance' \in Int /\ UNCHANGED <<day, batch, granted>>
  BY DEF ProfitMoves, BudgetInv
<1> QED
  BY <1>3, <1>6, <1>8, <1>9, OneTrade

\* What a row takes of the budget, by the state of the row.
LEMMA UseByRow ==
    ASSUME NEW t \in TradeRows, NEW d \in Nat
    PROVE  /\ t.row = "open" => DayUseOf(t, d) = t.risk /\ WeekUseOf(t, d) = t.risk
           /\ t.row = "closed" /\ t.closedDay = d =>
                DayUseOf(t, d) = LossOf(t.recorded) /\ WeekUseOf(t, d) = LossOf(t.recorded)
BY DEF TradeRows, DayUseOf, WeekUseOf, Counted, LossOf, AtRisk

LEMMA BrokerCloseKept == ASSUME BudgetInv, NEW i \in DOMAIN trades, BrokerCloses(i) PROVE BudgetInv'
<1>1. trades[i] \in TradeRows /\ RowOK(trades[i], day) /\ day \in Nat
  BY DEF BudgetInv
<1> DEFINE t == ClosedAtBroker(trades[i])
<1>3. trades' = [trades EXCEPT ![i] = t]
  BY DEF BrokerCloses
<1>5. t \in TradeRows /\ t.pnl = trades[i].pnl /\ t.risk = trades[i].risk
      /\ t.stored = trades[i].stored /\ t.closedDay = trades[i].closedDay
      /\ t.row = trades[i].row /\ t.recorded = trades[i].recorded
  BY <1>1 DEF TradeRows, ClosedAtBroker
<1> HIDE DEF t
<1>6. RowOK(t, day)
  BY <1>1, <1>5 DEF RowOK
<1>7. DayUseOf(t, day) = DayUseOf(trades[i], day) /\ WeekUseOf(t, day) = WeekUseOf(trades[i], day)
  BY <1>5, Zenon DEF DayUseOf, WeekUseOf, AtRisk
<1>8. DayUseOf(t, day) <= DayUseOf(trades[i], day) /\ WeekUseOf(t, day) <= WeekUseOf(trades[i], day)
  BY <1>1, <1>5, <1>7, UseTypes
<1>9. balance' \in Int /\ UNCHANGED <<day, batch, granted>>
  BY <1>1 DEF BrokerCloses, BudgetInv, TradeRows
<1> QED
  BY <1>3, <1>6, <1>8, <1>9, OneTrade

ClosedRow(u, d) == [u EXCEPT !.row = "closed", !.recorded = 0, !.closedDay = d]

LEMMA ClosedRowFields ==
    ASSUME NEW u \in TradeRows, NEW d \in Nat, NEW t, t = ClosedRow(u, d)
    PROVE  t \in TradeRows /\ t.pnl = u.pnl /\ t.risk = u.risk /\ t.stored = u.stored
           /\ t.closedDay = d /\ t.row = "closed" /\ t.recorded = 0
<1> DEFINE v == [u EXCEPT !.row = "closed"]
           w == [v EXCEPT !.recorded = 0]
<1>1. v \in TradeRows /\ v.pnl = u.pnl /\ v.risk = u.risk /\ v.stored = u.stored /\ v.row = "closed"
  BY DEF TradeRows
<1>2. t = [w EXCEPT !.closedDay = d]
  BY DEF ClosedRow
<1> HIDE DEF v
<1>3. w \in TradeRows /\ w.pnl = v.pnl /\ w.risk = v.risk /\ w.stored = v.stored
      /\ w.row = v.row /\ w.recorded = 0
  BY <1>1 DEF TradeRows
<1> HIDE DEF w
<1>4. t \in TradeRows /\ t.pnl = w.pnl /\ t.risk = w.risk /\ t.stored = w.stored
      /\ t.row = w.row /\ t.recorded = w.recorded /\ t.closedDay = d
  BY <1>2, <1>3 DEF TradeRows
<1> QED
  BY <1>1, <1>3, <1>4

LEMMA ExitKept == ASSUME BudgetInv, NEW i \in DOMAIN trades, ExitTrade(i) PROVE BudgetInv'
<1>1. trades[i] \in TradeRows /\ RowOK(trades[i], day) /\ day \in Nat
  BY DEF BudgetInv
<1> DEFINE u == ClosedAtBroker(trades[i])
           t == [u EXCEPT !.row = "closed", !.recorded = 0, !.closedDay = day]
<1>3. trades' = [trades EXCEPT ![i] = t]
  BY DEF ExitTrade
<1>4. /\ u \in TradeRows /\ u.pnl = trades[i].pnl /\ u.risk = trades[i].risk
      /\ u.stored = trades[i].stored
  BY <1>1 DEF TradeRows, ClosedAtBroker
<1> HIDE DEF u
<1>5. t \in TradeRows /\ t.pnl = trades[i].pnl /\ t.risk = trades[i].risk
      /\ t.stored = trades[i].stored /\ t.closedDay = day /\ t.row = "closed" /\ t.recorded = 0
  <2>1. t = ClosedRow(u, day)
    BY DEF ClosedRow
  <2> HIDE DEF t
  <2> QED
    BY <1>1, <1>4, <2>1, ClosedRowFields
<1> HIDE DEF t
<1>6. RowOK(t, day)
  BY <1>1, <1>5 DEF RowOK
<1>7. DayUseOf(t, day) = 0 /\ WeekUseOf(t, day) = 0
  BY <1>1, <1>5, UseByRow DEF LossOf, Counted
<1>8. DayUseOf(t, day) <= DayUseOf(trades[i], day) /\ WeekUseOf(t, day) <= WeekUseOf(trades[i], day)
  BY <1>1, <1>7, UseTypes
<1>9. balance' \in Int /\ UNCHANGED <<day, batch, granted>>
  BY <1>1 DEF ExitTrade, BudgetInv, TradeRows
<1> QED
  BY <1>3, <1>6, <1>8, <1>9, OneTrade

\* A row that is closed with the profit stored last takes at most its risk.
LEMMA ReconcileKept ==
    ASSUME BudgetInv, NEW i \in DOMAIN trades, ReconcileTrade(i) PROVE BudgetInv'
<1>1. trades[i] \in TradeRows /\ RowOK(trades[i], day) /\ day \in Nat /\ trades[i].row = "open"
  BY DEF BudgetInv, ReconcileTrade
<1> DEFINE t == Reconciled(trades[i])
<1>3. trades' = [trades EXCEPT ![i] = t]
  BY DEF ReconcileTrade
<1>4. /\ RowOK(t, day)
      /\ DayUseOf(t, day) <= DayUseOf(trades[i], day)
      /\ WeekUseOf(t, day) <= WeekUseOf(trades[i], day)
  <2>0. DayUseOf(trades[i], day) = trades[i].risk /\ WeekUseOf(trades[i], day) = trades[i].risk
        /\ trades[i].risk \in Nat /\ trades[i].stored \in Int
    BY <1>1, UseByRow DEF TradeRows
  <2>1. CASE trades[i].open
    <3>1. t \in TradeRows /\ t.pnl = trades[i].pnl /\ t.risk = trades[i].risk
          /\ t.stored = trades[i].pnl /\ t.closedDay = trades[i].closedDay /\ t.row = "open"
      BY <1>1, <2>1 DEF TradeRows, Reconciled
    <3> HIDE DEF t
    <3>2. DayUseOf(t, day) = trades[i].risk /\ WeekUseOf(t, day) = trades[i].risk
      BY <1>1, <3>1, UseByRow
    <3>3. RowOK(t, day)
      BY <1>1, <3>1 DEF RowOK
    <3> QED
      BY <2>0, <3>2, <3>3
  <2>2. CASE ~trades[i].open
    <3>1. t \in TradeRows /\ t.pnl = trades[i].pnl /\ t.risk = trades[i].risk
          /\ t.stored = trades[i].stored /\ t.closedDay = day /\ t.row = "closed"
          /\ t.recorded = trades[i].stored
      BY <1>1, <2>2 DEF TradeRows, Reconciled
    <3> HIDE DEF t
    <3>2. DayUseOf(t, day) = LossOf(trades[i].stored) /\ WeekUseOf(t, day) = LossOf(trades[i].stored)
      BY <1>1, <3>1, UseByRow
    <3>3. RowOK(t, day)
      BY <1>1, <3>1 DEF RowOK
    <3>4. LossOf(trades[i].stored) <= trades[i].risk
      BY <1>1, <2>0 DEF RowOK, LossOf, Counted
    <3> QED
      BY <2>0, <3>2, <3>3, <3>4
  <2> QED
    BY <2>1, <2>2
<1>9. balance' \in Int /\ UNCHANGED <<day, batch, granted>>
  BY <1>1 DEF ReconcileTrade, BudgetInv
<1> QED
  BY <1>3, <1>4, <1>9, OneTrade

\* A new day forgets, it adds nothing.
LEMMA NextDayKept == ASSUME BudgetInv, NextDay PROVE BudgetInv'
<1>1. /\ trades' = trades /\ day' = day + 1 /\ batch' = batch /\ granted' = granted
      /\ balance' = balance
  BY DEF NextDay
<1>2. trades \in Seq(TradeRows) /\ day \in Nat /\ balance \in Int
  BY DEF BudgetInv
<1>3. ASSUME NEW i \in 1 .. Len(trades)
      PROVE  /\ RowOK(trades[i], day + 1)
             /\ DayUseOf(trades[i], day + 1) <= DayUseOf(trades[i], day)
             /\ WeekUseOf(trades[i], day + 1) <= WeekUseOf(trades[i], day)
  <2> DEFINE t == trades[i]
  <2>1. t \in TradeRows /\ RowOK(t, day) /\ t.closedDay \in Nat /\ t.recorded \in Int
        /\ t.closedDay <= day /\ t.risk \in Nat
    BY <1>2 DEF BudgetInv, RowOK, TradeRows
  <2> HIDE DEF t
  <2>2. RowOK(t, day + 1)
    BY <1>2, <2>1 DEF RowOK
  <2>3. LossOf(t.recorded) \in Nat /\ AtRisk(t) \in Nat
    BY <2>1 DEF LossOf, Counted, AtRisk
  <2>4. t.closedDay # day + 1
    BY <1>2, <2>1
  <2>5. DayUseOf(t, day + 1) <= DayUseOf(t, day)
    BY <2>3, <2>4 DEF DayUseOf, Counted
  <2>6. Week(t.closedDay) = Week(day + 1) => Week(t.closedDay) = Week(day)
    <3>1. /\ Week(t.closedDay) \in Nat /\ Week(day) \in Nat /\ Week(day + 1) \in Nat
          /\ Week(t.closedDay) <= Week(day) /\ Week(day) <= Week(day + 1)
      <4>1. day + 1 \in Nat /\ day <= day + 1
        BY <1>2
      <4> QED
        BY <1>2, <2>1, <4>1, WeekOrder
    <3> QED
      BY <3>1
  <2>7. WeekUseOf(t, day + 1) <= WeekUseOf(t, day)
    BY <2>3, <2>6 DEF WeekUseOf, Counted
  <2> QED
    BY <2>2, <2>5, <2>7 DEF t
<1>4. day' \in Nat
  BY <1>1, <1>2
<1> QED
  BY <1>1, <1>2, <1>3, <1>4, BudgetKept

\* Steps that leave the trades and the day alone.
LEMMA TradesKept ==
    ASSUME BudgetInv, UNCHANGED <<day, balance, trades, granted>>,
           batch' = batch \/ batch' = NoBatch
    PROVE  BudgetInv'
<1>1. trades \in Seq(TradeRows) /\ day \in Nat /\ balance \in Int
  BY DEF BudgetInv
<1>2. ASSUME NEW i \in 1 .. Len(trades)
      PROVE  /\ RowOK(trades'[i], day')
             /\ DayUseOf(trades'[i], day') <= DayUseOf(trades[i], day)
             /\ WeekUseOf(trades'[i], day') <= WeekUseOf(trades[i], day)
  <2>1. RowOK(trades[i], day) /\ trades[i] \in TradeRows
    BY <1>1 DEF BudgetInv
  <2>2. DayUseOf(trades[i], day) \in Nat /\ WeekUseOf(trades[i], day) \in Nat
    BY <1>1, <2>1, UseTypes
  <2> QED
    BY <2>1, <2>2
<1> QED
  BY <1>1, <1>2, BudgetKept

\* The usage of a run is read from the rows as they are.
LEMMA BatchKept == ASSUME BudgetInv, BatchSize = 1, BatchStarts PROVE BudgetInv'
<1>1. UNCHANGED <<day, balance, trades, granted>> /\ batch' = [left |-> 1, usage |-> RiskUsage]
  BY DEF BatchStarts
<1>2. batch'.left = 1 /\ batch'.usage = RiskUsage
  BY <1>1
<1>3. /\ RiskUsage.daily \in Int /\ RiskUsage.weekly \in Int /\ RiskUsage.open \in Int
      /\ Sum(DayUses(trades, day)) = RiskUsage.daily + RiskUsage.open
      /\ Sum(WeekUses(trades, day)) = RiskUsage.weekly + RiskUsage.open
  BY UsageIsSum DEF BudgetInv
<1>4. /\ Sum(DayUses(trades, day)) <= RiskUsage.daily + RiskUsage.open
      /\ Sum(WeekUses(trades, day)) <= RiskUsage.weekly + RiskUsage.open
  BY <1>3
<1> QED
  BY <1>1, <1>2, <1>3, <1>4 DEF BudgetInv

\* A trade is entered within what the usage leaves of the limits.
LEMMA EnterKept == ASSUME BudgetInv, NEW loss \in StopLosses, EnterTrade(loss) PROVE BudgetInv'
<1> DEFINE volume == SizedVolume(Equity, loss)
           risk == CashRisk(volume, loss)
<1>1. /\ day \in Nat /\ balance \in Int /\ trades \in Seq(TradeRows) /\ Equity \in Int
      /\ loss \in Nat \ {0}
  BY EquityType, LimitTypes DEF BudgetInv
<1>2. batch # NoBatch
  BY DEF EnterTrade, NoBatch
<1>3. batch.left = 1 /\ batch' = NoBatch /\ day' = day /\ balance' = balance
  BY <1>2 DEF BudgetInv, EnterTrade
<1>4. CASE UNCHANGED <<trades, granted>>
  BY <1>3, <1>4, TradesKept
<1>5. CASE ~UNCHANGED <<trades, granted>>
  <2>1. /\ trades' = Append(trades, Trade(risk)) /\ granted' = Equity /\ volume # NoVolume
        /\ LossReasons(Equity, batch.usage, risk) = {}
    BY <1>5 DEF EnterTrade
  <2>2. risk \in Nat
    <3>1. volume \in Nat
      BY <1>1, <2>1, SizingIsLargest, SizingTypes DEF Tradable
    <3> HIDE DEF volume
    <3> QED
      BY <1>1, <3>1 DEF CashRisk
  <2> HIDE DEF risk
  <2>3. /\ (batch.usage.daily + batch.usage.open + risk) * Thousand < Equity * MaximumDailyLoss
        /\ (batch.usage.weekly + batch.usage.open + risk) * Thousand < Equity * MaximumWeeklyLoss
    <3>1. /\ ~((batch.usage.daily + batch.usage.open + risk) * Thousand
                >= Equity * MaximumDailyLoss)
          /\ ~((batch.usage.weekly + batch.usage.open + risk) * Thousand
                >= Equity * MaximumWeeklyLoss)
      BY <2>1 DEF LossReasons
    <3>2. batch.usage.daily \in Int /\ batch.usage.weekly \in Int /\ batch.usage.open \in Int
      BY <1>2 DEF BudgetInv
    <3>3. Equity * MaximumDailyLoss \in Int /\ Equity * MaximumWeeklyLoss \in Int
      BY <1>1, LimitTypes
    <3> QED
      BY <2>2, <3>1, <3>2, <3>3 DEF Thousand
  <2>4. Trade(risk) \in TradeRows /\ RowOK(Trade(risk), day)
        /\ DayUseOf(Trade(risk), day) = risk /\ WeekUseOf(Trade(risk), day) = risk
    <3>1. Trade(risk) \in TradeRows /\ RowOK(Trade(risk), day)
      BY <1>1, <2>2 DEF Trade, TradeRows, RowOK
    <3> QED
      BY <1>1, <3>1, UseByRow DEF Trade
  <2>5. trades' \in Seq(TradeRows) /\ Len(trades') = Len(trades) + 1
        /\ trades'[Len(trades')] = Trade(risk)
        /\ \A i \in 1 .. Len(trades) : trades'[i] = trades[i]
    BY <1>1, <2>1, <2>4
  <2>6. \A i \in DOMAIN trades' : RowOK(trades'[i], day)
    BY <1>1, <2>4, <2>5 DEF BudgetInv
  <2>7. Sum(DayUses(trades', day)) = Sum(DayUses(trades, day)) + risk
    <3> DEFINE old == DayUses(trades, day)
               new == DayUses(trades', day)
    <3>1. /\ old \in Seq(Int) /\ Len(old) = Len(trades)
          /\ \A i \in 1 .. Len(trades) : old[i] = DayUseOf(trades[i], day)
      BY <1>1, UsesTypes
    <3>2. /\ new \in Seq(Int) /\ Len(new) = Len(trades')
          /\ \A i \in 1 .. Len(trades') : new[i] = DayUseOf(trades'[i], day)
      BY <1>1, <2>5, UsesTypes
    <3> HIDE DEF old, new
    <3>3. Len(trades) \in Nat /\ Len(trades') \in 1 .. Len(trades')
      BY <1>1, <2>5
    <3>4. new[Len(new)] = risk
      BY <2>4, <2>5, <3>2, <3>3
    <3>5. \A i \in 1 .. Len(old) : old[i] = new[i]
      BY <2>5, <3>1, <3>2, <3>3
    <3>6. Sum(new) = Sum(old) + new[Len(new)]
      BY <2>5, <3>1, <3>2, <3>5, SumExtended
    <3> QED
      BY <3>4, <3>6 DEF old, new
  <2>8. Sum(WeekUses(trades', day)) = Sum(WeekUses(trades, day)) + risk
    <3> DEFINE old == WeekUses(trades, day)
               new == WeekUses(trades', day)
    <3>1. /\ old \in Seq(Int) /\ Len(old) = Len(trades)
          /\ \A i \in 1 .. Len(trades) : old[i] = WeekUseOf(trades[i], day)
      BY <1>1, UsesTypes
    <3>2. /\ new \in Seq(Int) /\ Len(new) = Len(trades')
          /\ \A i \in 1 .. Len(trades') : new[i] = WeekUseOf(trades'[i], day)
      BY <1>1, <2>5, UsesTypes
    <3> HIDE DEF old, new
    <3>3. Len(trades) \in Nat /\ Len(trades') \in 1 .. Len(trades')
      BY <1>1, <2>5
    <3>4. new[Len(new)] = risk
      BY <2>4, <2>5, <3>2, <3>3
    <3>5. \A i \in 1 .. Len(old) : old[i] = new[i]
      BY <2>5, <3>1, <3>2, <3>3
    <3>6. Sum(new) = Sum(old) + new[Len(new)]
      BY <2>5, <3>1, <3>2, <3>5, SumExtended
    <3> QED
      BY <3>4, <3>6 DEF old, new
  <2>9. /\ Sum(DayUses(trades', day)) * Thousand < Equity * MaximumDailyLoss
        /\ Sum(WeekUses(trades', day)) * Thousand < Equity * MaximumWeeklyLoss
    <3>1. /\ Sum(DayUses(trades, day)) \in Int /\ Sum(WeekUses(trades, day)) \in Int
          /\ batch.usage.daily \in Int /\ batch.usage.weekly \in Int /\ batch.usage.open \in Int
          /\ Sum(DayUses(trades, day)) <= batch.usage.daily + batch.usage.open
          /\ Sum(WeekUses(trades, day)) <= batch.usage.weekly + batch.usage.open
      BY <1>1, <1>2, UsesTypes DEF BudgetInv
    <3>2. Equity * MaximumDailyLoss \in Int /\ Equity * MaximumWeeklyLoss \in Int
      BY <1>1, LimitTypes
    <3>3. /\ Sum(DayUses(trades', day)) <= batch.usage.daily + batch.usage.open + risk
          /\ Sum(WeekUses(trades', day)) <= batch.usage.weekly + batch.usage.open + risk
      BY <2>2, <2>7, <2>8, <3>1
    <3>4. /\ Sum(DayUses(trades', day)) \in Int /\ Sum(WeekUses(trades', day)) \in Int
          /\ batch.usage.daily + batch.usage.open + risk \in Int
          /\ batch.usage.weekly + batch.usage.open + risk \in Int
      BY <2>2, <2>7, <2>8, <3>1
    <3> QED
      BY <2>3, <3>2, <3>3, <3>4, StillBelow
  <2> QED
    BY <1>1, <1>3, <2>1, <2>5, <2>6, <2>9 DEF BudgetInv
<1> QED
  BY <1>4, <1>5

\* With one signal per run of execute_signals(), whose usage is read before it, the
\* losses recorded and the open risk stay below the daily and the weekly limit: no
\* order of reconciliations, broker closes, exits, snapshots and days breaks them.
THEOREM RecordedWithinBudgetHolds ==
    ASSUME BatchSize = 1 PROVE BudgetSpec => []RecordedWithinBudget
<1>1. BudgetInit => BudgetInv
  BY InitBudget
<1>2. BudgetInv /\ [BudgetNext]_budgetVars => BudgetInv'
  <2> SUFFICES ASSUME BudgetInv, [BudgetNext]_budgetVars PROVE BudgetInv'
    OBVIOUS
  <2>1. CASE NextDay
    BY <2>1, NextDayKept
  <2>2. CASE BatchStarts
    BY <2>2, BatchKept
  <2>3. CASE BatchEnds \/ SnapshotAccount \/ SnapshotRisk \/ UNCHANGED budgetVars
    <3>1. UNCHANGED <<day, balance, trades, granted>> /\ (batch' = batch \/ batch' = NoBatch)
      BY <2>3 DEF BatchEnds, SnapshotAccount, SnapshotRisk, budgetVars
    <3> QED
      BY <3>1, TradesKept
  <2>4. ASSUME NEW loss \in StopLosses, EnterTrade(loss) PROVE BudgetInv'
    BY <2>4, EnterKept
  <2>5. ASSUME NEW i \in DOMAIN trades,
               ProfitMoves(i) \/ BrokerCloses(i) \/ ExitTrade(i) \/ ReconcileTrade(i)
        PROVE  BudgetInv'
    BY <2>5, ProfitKept, BrokerCloseKept, ExitKept, ReconcileKept
  <2> QED
    BY <2>1, <2>2, <2>3, <2>4, <2>5 DEF BudgetNext
<1>3. BudgetInv => RecordedWithinBudget
  <2> SUFFICES ASSUME BudgetInv PROVE RecordedWithinBudget
    OBVIOUS
  <2>1. /\ Sum(DayUses(trades, day)) = RiskUsage.daily + RiskUsage.open
        /\ Sum(WeekUses(trades, day)) = RiskUsage.weekly + RiskUsage.open
    BY UsageIsSum DEF BudgetInv
  <2> QED
    BY <2>1 DEF BudgetInv, RecordedWithinBudget
<1> QED
  BY <1>1, <1>2, <1>3, PTL DEF BudgetSpec

-----------------------------------------------------------------------------
(***************************************************************************)
(* PreTrade. What an attempt carries from one check to the next: its       *)
(* permission, its evidence and its volume.                                *)
(***************************************************************************)

\* The stages after the permission, after the evidence and after the sizing.
Permitted == {"permitted", "evidenced", "sized", "unsized", "accepted", "sent", "checkRejected"}
Evidenced == Permitted \ {"permitted"}

\* What every passed stage leaves true for the ones behind it.
PreInv ==
    /\ stage \in Permitted => command \in Commands /\ PermissionReasons(command) = {}
    /\ stage \in Evidenced /\ EvidenceAsked(command) =>
         evidence \in Evidence /\ DemoReasons(DemoPerformance(evidence)) = {}
    /\ stage \in {"sized", "unsized", "accepted"} =>
         /\ order \in OrderRows /\ equity \in Int
         /\ StopBehind(order) => order.volume = SizedVolume(equity, Distance(order))
    /\ stage \in {"sized", "accepted"} => StopBehind(order) /\ order.volume # NoVolume
    /\ stage = "accepted" => OrderReasons(order, equity) = {}

LEMMA InitPre == PreInit => PreInv
BY DEF PreInit, NothingYet, PreInv, Permitted, Evidenced

\* The prices of an order do not depend on its volume.
LEMMA PricesKept ==
    ASSUME NEW o \in OrderRows, NEW v \in Nat, NEW p, p = [o EXCEPT !.volume = v]
    PROVE  /\ p \in OrderRows /\ p.volume = v /\ Price(p) = Price(o) /\ Price(o) \in Nat
           /\ Distance(p) = Distance(o) /\ Distance(o) \in Nat /\ (StopBehind(p) <=> StopBehind(o))
           /\ StopBehind(o) => Distance(o) \in Nat \ {0}
<1>1. /\ p \in OrderRows /\ p.volume = v /\ p.long = o.long /\ p.bid = o.bid /\ p.ask = o.ask
      /\ p.limit = o.limit /\ p.stop = o.stop
  BY DEF OrderRows
<1>2. /\ o.long \in BOOLEAN /\ o.bid \in Nat /\ o.ask \in Nat /\ o.limit \in Nat /\ o.stop \in Nat
  BY DEF OrderRows
<1>3. Price(p) = Price(o) /\ Price(o) \in Nat
  BY <1>1, <1>2 DEF Price
<1>4. Distance(p) = Distance(o) /\ Distance(o) \in Nat
  BY <1>1, <1>2, <1>3 DEF Distance
<1>5. StopBehind(p) <=> StopBehind(o)
  BY <1>1, <1>3 DEF StopBehind
<1>6. StopBehind(o) => Distance(o) # 0
  BY <1>2, <1>3 DEF StopBehind, Distance
<1> QED
  BY <1>1, <1>3, <1>4, <1>5, <1>6

LEMMA VolumeType ==
    ASSUME NEW e \in Int, NEW loss \in Nat \ {0}
    PROVE  SizedVolume(e, loss) \in Nat
BY SizingIsLargest, SizingTypes DEF Tradable, NoVolume

LEMMA NextPre == PreInv /\ [PreNext]_preVars => PreInv'
<1> SUFFICES ASSUME PreInv, [PreNext]_preVars PROVE PreInv'
  OBVIOUS
<1> USE DEF Permitted, Evidenced
<1>1. CASE Permit
  BY <1>1 DEF Permit, PreInv
<1>2. CASE CheckEvidence
  BY <1>2 DEF CheckEvidence, PreInv
<1>3. CASE Size
  <2>1. PICK o \in Orders, e \in Equities :
          LET volume == IF StopBehind(o) THEN SizedVolume(e, Distance(o)) ELSE NoVolume
          IN  /\ order' = [o EXCEPT !.volume = volume]
              /\ stage' = IF volume = NoVolume THEN "unsized" ELSE "sized"
              /\ equity' = e
    BY <1>3 DEF Size
  <2> DEFINE volume == IF StopBehind(o) THEN SizedVolume(e, Distance(o)) ELSE NoVolume
  <2>2. /\ order' = [o EXCEPT !.volume = volume]
        /\ stage' = IF volume = NoVolume THEN "unsized" ELSE "sized"
        /\ equity' = e /\ UNCHANGED <<command, evidence>> /\ stage = "evidenced"
    BY <1>3, <2>1 DEF Size
  <2>3. o \in OrderRows /\ e \in Int
    BY PreTradeAssumption
  <2>4. 0 \in Nat /\ o = o
    OBVIOUS
  <2>5. StopBehind(o) => Distance(o) \in Nat \ {0}
    BY <2>3, <2>4, PricesKept
  <2>6. volume \in Nat
    BY <2>3, <2>5, VolumeType DEF NoVolume
  <2>7. /\ StopBehind(o) => volume = SizedVolume(e, Distance(o))
        /\ volume # NoVolume => StopBehind(o)
    OBVIOUS
  <2> HIDE DEF volume
  <2>8. /\ order' \in OrderRows /\ order'.volume = volume /\ Distance(order') = Distance(o)
        /\ (StopBehind(order') <=> StopBehind(o))
    BY <2>2, <2>3, <2>6, PricesKept
  <2> QED
    BY <2>2, <2>3, <2>7, <2>8 DEF PreInv
<1>4. ASSUME NEW b, Validate(b) PROVE PreInv'
  BY <1>4 DEF Validate, PreInv
<1>5. ASSUME NEW available, OrderCheck(available) PROVE PreInv'
  BY <1>5 DEF OrderCheck, PreInv
<1>6. CASE Finish
  BY <1>6 DEF Finish, PreInv
<1>7. CASE UNCHANGED preVars
  BY <1>7 DEF preVars, PreInv
<1> QED
  BY <1>1, <1>2, <1>3, <1>4, <1>5, <1>6, <1>7 DEF PreNext

\* The reasons of evaluate_execution_permission() leave two combinations.
LEMMA PermissionLeaves ==
    ASSUME NEW c \in Commands, PermissionReasons(c) = {}
    PROVE  /\ <<c.environment, c.account>> \in {<<"demo", "DEMO">>, <<"production", "REAL">>}
           /\ c.account = "REAL" => c.live /\ c.configured = c.required /\ c.required # None
           /\ c.mode = "AUTO" \/ (c.mode = "SEMI_AUTO" /\ c.approved)
<1>1. c.mode \in {"SIGNAL", "SEMI_AUTO", "AUTO"} /\ c.approved \in BOOLEAN /\ c.live \in BOOLEAN
  BY PreTradeAssumption
<1>2. /\ c.mode # "SIGNAL" /\ ~(c.mode = "SEMI_AUTO" /\ ~c.approved)
      /\ c.environment \in {"demo", "production"}
      /\ ~(c.environment = "demo" /\ c.account # "DEMO")
  BY DEF PermissionReasons, When
<1>3. c.environment = "production" =>
         c.account = "REAL" /\ c.live /\ None \notin {c.configured, c.required}
         /\ c.configured = c.required
  BY <1>1 DEF PermissionReasons, When
<1> QED
  BY <1>1, <1>2, <1>3

\* An entry reaches the broker only as a permitted one: each stage keeps what the ones
\* before it established, so nothing is sent that evaluate_execution_permission() or
\* evaluate_demo_performance() would refuse, whatever the evidence and the minimums.
THEOREM SentOnlyAsAllowedHolds == PreSpec => []SentOnlyAsAllowed
<1>1. PreInv => SentIsPermitted
  <2> SUFFICES ASSUME PreInv, stage = "sent"
               PROVE  command \in Commands /\ PermissionReasons(command) = {}
    BY PermissionLeaves DEF SentIsPermitted
  <2> QED
    BY DEF PreInv, Permitted
<1>2. PreInv => RealMoneyHasEvidence
  <2> SUFFICES ASSUME PreInv, stage = "sent", command.account = "REAL", command.mode = "AUTO"
               PROVE  /\ evidence.trades >= MinimumDemoTrades
                      /\ \A d \in evidence.drawdowns : d <= MaximumDemoDrawdown
                      /\ evidence.loss > 0 =>
                           evidence.profit * Thousand >= MinimumDemoProfitFactor * evidence.loss
    BY DEF RealMoneyHasEvidence
  <2>1. command \in Commands /\ PermissionReasons(command) = {}
    BY DEF PreInv, Permitted
  <2>2. EvidenceAsked(command)
    BY <2>1, PermissionLeaves DEF EvidenceAsked
  <2>3. evidence \in Evidence /\ DemoReasons(DemoPerformance(evidence)) = {}
    BY <2>2 DEF PreInv, Permitted, Evidenced
  <2> DEFINE performance == DemoPerformance(evidence)
             found == {0} \cup evidence.drawdowns
  <2>4. /\ evidence.trades \in Nat /\ evidence.profit \in Nat /\ evidence.loss \in Nat
        /\ evidence.drawdowns \subseteq Nat /\ IsFiniteSet(evidence.drawdowns)
        /\ evidence \in EvidenceRows
    BY <2>3, PreTradeAssumption DEF EvidenceRows
  <2>5. /\ performance.trades = evidence.trades /\ performance.drawdown = Max(found)
        /\ evidence.loss > 0 => performance.factor = (evidence.profit * Thousand) \div evidence.loss
    BY DEF DemoPerformance
  <2> HIDE DEF performance
  <2>6. /\ ~(performance.trades < MinimumDemoTrades)
        /\ ~(performance.drawdown > MaximumDemoDrawdown)
        /\ ~(performance.factor < MinimumDemoProfitFactor)
    BY <2>3 DEF DemoReasons, When, performance
  <2>7. MinimumDemoTrades \in Nat /\ MaximumDemoDrawdown \in Nat /\ MinimumDemoProfitFactor \in Nat
    BY PreTradeAssumption DEF Thousand
  <2>8. evidence.trades >= MinimumDemoTrades
    BY <2>4, <2>5, <2>6, <2>7
  <2>9. ASSUME NEW d \in evidence.drawdowns PROVE d <= MaximumDemoDrawdown
    <3>1. PICK m \in evidence.drawdowns : \A x \in evidence.drawdowns : x <= m
      BY <2>4, <2>9, GreatestOfFinite
    <3>2. found \subseteq Int /\ m \in found /\ (\A x \in found : x <= m)
      BY <2>4, <3>1
    <3> HIDE DEF found
    <3>3. Max(found) = m
      BY <3>2, MaxIs
    <3> QED
      BY <2>4, <2>5, <2>6, <2>7, <3>1, <3>3
  <2>10. ASSUME evidence.loss > 0
         PROVE  evidence.profit * Thousand >= MinimumDemoProfitFactor * evidence.loss
    <3> DEFINE gain == evidence.profit * Thousand
               loss == evidence.loss
    <3>1. gain \in Nat /\ loss \in Nat \ {0}
      BY <2>4, <2>10 DEF Thousand
    <3>2. performance.factor = gain \div loss
      BY <2>5, <2>10
    <3> HIDE DEF gain, loss
    <3>3. gain \div loss \in Nat /\ (gain \div loss) * loss <= gain
      BY <3>1, Quotient
    <3>4. MinimumDemoProfitFactor <= gain \div loss
      BY <2>6, <2>7, <3>2, <3>3
    <3>5. MinimumDemoProfitFactor * loss <= (gain \div loss) * loss
      BY <2>7, <3>1, <3>3, <3>4, ProductGrows
    <3>6. MinimumDemoProfitFactor * loss \in Int /\ (gain \div loss) * loss \in Int
      BY <2>7, <3>1, <3>3
    <3> QED
      BY <3>1, <3>3, <3>5, <3>6 DEF gain, loss
  <2> QED
    BY <2>8, <2>9, <2>10
<1>3. PreInv => SentOnlyAsAllowed
  BY <1>1, <1>2 DEF SentOnlyAsAllowed
<1> QED
  BY <1>3, InitPre, NextPre, PTL DEF PreSpec

\* For every price, stop, equity and symbol specification the sized volume is the
\* largest within the risk of a trade, and an order the engine's gates accept passes
\* the order check of the broker.
THEOREM OrdersFitHolds == PreSpec => []OrdersFit
<1>1. PreInv => SizedToTheLimit
  <2> SUFFICES ASSUME PreInv, stage \in {"sized", "unsized"}, StopBehind(order)
               PROVE  order.volume = LargestVolume(equity, Distance(order))
    BY DEF SizedToTheLimit
  <2>1. order \in OrderRows /\ equity \in Int /\ order.volume = SizedVolume(equity, Distance(order))
    BY DEF PreInv
  <2>2. Distance(order) \in Nat \ {0}
    <3>1. 0 \in Nat
      OBVIOUS
    <3> QED
      BY <2>1, <3>1, PricesKept
  <2> QED
    BY <2>1, <2>2, SizingIsLargest
<1>2. PreInv => AcceptedPassesBroker
  <2> SUFFICES ASSUME PreInv, stage = "accepted" PROVE BrokerReasons(order, equity) = {}
    BY DEF AcceptedPassesBroker
  <2>1. /\ order \in OrderRows /\ equity \in Int /\ StopBehind(order)
        /\ order.volume = SizedVolume(equity, Distance(order)) /\ order.volume # NoVolume
        /\ OrderReasons(order, equity) = {}
    BY DEF PreInv
  <2>2. Distance(order) \in Nat \ {0} /\ Price(order) \in Nat
    <3>1. 0 \in Nat
      OBVIOUS
    <3> QED
      BY <2>1, <3>1, PricesKept
  <2>3. Tradable(order.volume)
    BY <2>1, <2>2, SizingIsLargest
  <2>4. /\ ~(Distance(order) < MinimumDistance) /\ TargetsAhead(order) /\ ~(Margin(order) > equity)
    BY <2>1 DEF OrderReasons, When
  <2>5. (IF order.long THEN Price(order) - order.stop ELSE order.stop - Price(order))
          = Distance(order)
    BY <2>1, <2>2 DEF Distance, StopBehind, OrderRows
  <2> QED
    BY <2>1, <2>3, <2>4, <2>5 DEF BrokerReasons, When, Tradable
<1>3. PreInv => OrdersFit
  BY <1>1, <1>2 DEF OrdersFit
<1> QED
  BY <1>3, InitPre, NextPre, PTL DEF PreSpec

-----------------------------------------------------------------------------
(***************************************************************************)
(* SignalLifecycle. A worker that is past a stage, or a row that is, has   *)
(* left its entry in the record of transitions.                            *)
(***************************************************************************)

Stages == {"idle", "expired", "load", "pick", "send", "record"}

\* An APPROVED row was approved, and so was every signal of a batch that was loaded
\* for SEMI_AUTO; the signal at hand is one of the batch.
StageInv ==
    /\ row \in [Signals -> Statuses]
    /\ agreed \in [Signals -> BOOLEAN]
    /\ attempt \in [Signals -> Results \union {"none"}]
    /\ job \in [at : Stages, mode : {"SIGNAL", "SEMI_AUTO", "AUTO"}, batch : SUBSET Signals,
                now : Signals \union {"none"}, outcome : Results \union {"BLOCKED", "none"}]
    /\ mode \in Modes
    /\ request \in [Operators -> {<< >>} \union (Signals \X {"APPROVED", "REJECTED", "EXPIRED"})]
    /\ \A s \in Signals : row[s] = "APPROVED" => agreed[s]
    /\ job.mode = "SEMI_AUTO" => \A s \in job.batch : agreed[s]
    /\ job.at \in {"idle", "expired", "load"} => job.batch = {}
    /\ job.at \in {"send", "record"} => job.now \in job.batch

\* Nothing is approved and nothing loaded at the start.
LEMMA InitStage == Init => StageInv
BY SignalAssumption DEF Init, StageInv, Idle, Stages, Statuses

\* record_execution() gives a row a settled status or leaves it alone.
LEMMA RecordedIn ==
    ASSUME NEW s, NEW outcome
    PROVE  RecordedStatus(s, outcome) \in {"EXECUTED", "REJECTED", "ERROR", row[s]}
<1>1. CASE outcome = "FILLED"
  BY <1>1, Zenon DEF RecordedStatus
<1>2. CASE outcome = "REJECTED"
  BY <1>2, Zenon DEF RecordedStatus
<1>3. CASE outcome = "UNKNOWN"
  BY <1>3, Zenon DEF RecordedStatus
<1>4. CASE outcome \notin {"FILLED", "REJECTED", "UNKNOWN"}
  BY <1>4, Zenon DEF RecordedStatus
<1> QED
  BY <1>1, <1>2, <1>3, <1>4

\* The steps of the job keep the invariant: the batch of SEMI_AUTO is loaded from
\* APPROVED rows, and an approval is never taken back.
LEMMA JobStage == ASSUME StageInv, JobStep \/ Crash PROVE StageInv'
<1>1. CASE ExpireSignals
  BY <1>1 DEF StageInv, ExpireSignals, Stages, Statuses, Settled, Open
<1>2. CASE ReadMode
  BY <1>2, SignalAssumption DEF StageInv, ReadMode, Stages
<1>3. CASE LoadCandidates
  <2>1. CASE Candidates = {}
    BY <1>3, <2>1 DEF StageInv, LoadCandidates, Idle, Stages
  <2>2. CASE Candidates # {}
    <3>1. job' = [job EXCEPT !.at = "pick", !.batch = Candidates]
      BY <1>3, <2>2 DEF LoadCandidates
    <3>2. Candidates \subseteq Signals /\ (job.mode = "SEMI_AUTO" => \A s \in Candidates : agreed[s])
      BY DEF StageInv, Candidates
    <3> QED
      BY <1>3, <3>1, <3>2 DEF StageInv, LoadCandidates, Stages
  <2> QED
    BY <2>1, <2>2
<1>4. ASSUME NEW s \in Signals, Pick(s) PROVE StageInv'
  <2>1. PICK at \in {"send", "record"}, outcome \in Results \union {"BLOCKED", "none"} :
           job' = [job EXCEPT !.at = at, !.now = s, !.outcome = outcome]
    BY <1>4 DEF Pick, StageInv
  <2>2. s \in job.batch /\ UNCHANGED <<row, agreed, attempt, mode, request>>
    BY <1>4 DEF Pick
  <2> QED
    BY <2>1, <2>2 DEF StageInv, Stages
<1>5. ASSUME NEW r \in Results, Send(r) PROVE StageInv'
  BY <1>5 DEF StageInv, Send, Stages
<1>6. CASE RecordExecution
  <2>1. /\ row' \in [Signals -> Statuses]
        /\ \A s \in Signals : row'[s] = "APPROVED" => row[s] = "APPROVED"
    <3>1. RecordedStatus(job.now, job.outcome) \in {"EXECUTED", "REJECTED", "ERROR", row[job.now]}
      BY RecordedIn
    <3>2. job.now \in Signals /\ row' = [row EXCEPT ![job.now] = RecordedStatus(job.now, job.outcome)]
      BY <1>6 DEF RecordExecution, StageInv
    <3> QED
      BY <3>1, <3>2 DEF StageInv, Statuses, Settled, Open
  <2>2. PICK rest \in SUBSET job.batch :
           job' = IF rest = {} THEN Idle
                  ELSE [job EXCEPT !.at = "pick", !.batch = rest, !.now = "none", !.outcome = "none"]
    BY <1>6 DEF RecordExecution
  <2>3. UNCHANGED <<agreed, attempt, mode, request>>
    BY <1>6 DEF RecordExecution
  <2>4. CASE rest = {}
    BY <2>1, <2>2, <2>3, <2>4 DEF StageInv, Idle, Stages
  <2>5. CASE rest # {}
    <3>1. job' = [job EXCEPT !.at = "pick", !.batch = rest, !.now = "none", !.outcome = "none"]
      BY <2>2, <2>5
    <3> QED
      BY <2>1, <2>3, <3>1 DEF StageInv, Stages
  <2> QED
    BY <2>4, <2>5
<1>7. CASE Crash
  BY <1>7 DEF StageInv, Crash, Idle, Stages
<1> QED
  BY <1>1, <1>2, <1>3, <1>4, <1>5, <1>6, <1>7 DEF JobStep

\* Saving, expiry, prices, mode changes and operators keep the invariant: only an
\* answer APPROVED makes a row APPROVED, and it sets the approval with it.
LEMMA NextStage == StageInv /\ [Next]_vars => StageInv'
<1> SUFFICES ASSUME StageInv, [Next]_vars PROVE StageInv'
  OBVIOUS
<1>1. CASE JobStep \/ Crash
  BY <1>1, JobStage
<1>2. ASSUME NEW s \in Signals, SaveSignal(s) PROVE StageInv'
  BY <1>2 DEF StageInv, SaveSignal, SavedStatus, Statuses, Open
<1>3. ASSUME NEW s \in Signals, Expire(s) \/ PriceMoves(s) PROVE StageInv'
  BY <1>3 DEF StageInv, Expire, PriceMoves
<1>4. ASSUME NEW m \in Modes, ModeChanges(m) PROVE StageInv'
  BY <1>4 DEF StageInv, ModeChanges
<1>5. ASSUME NEW o \in Operators, NEW s \in Signals, NEW answer \in {"APPROVED", "REJECTED"},
             ApproveRead(o, s, answer)
      PROVE StageInv'
  BY <1>5 DEF StageInv, ApproveRead
<1>6. ASSUME NEW o \in Operators, ApproveCommit(o) PROVE StageInv'
  <2>1. PICK s \in Signals, answer \in {"APPROVED", "REJECTED", "EXPIRED"} :
           /\ row' = [row EXCEPT ![s] = answer]
           /\ agreed' = [agreed EXCEPT ![s] = @ \/ answer = "APPROVED"]
    BY <1>6 DEF ApproveCommit, StageInv
  <2>2. /\ request' = [request EXCEPT ![o] = << >>]
        /\ UNCHANGED <<mode, attempt, job>>
    BY <1>6 DEF ApproveCommit
  <2>3. agreed' \in [Signals -> BOOLEAN] /\ \A t \in Signals : agreed[t] => agreed'[t]
    BY <2>1 DEF StageInv
  <2> QED
    BY <2>1, <2>2, <2>3 DEF StageInv, Statuses, Open, Settled
<1>7. CASE UNCHANGED vars
  BY <1>7 DEF vars, StageInv
<1> QED
  BY <1>1, <1>2, <1>3, <1>4, <1>5, <1>6, <1>7 DEF Next

\* In SEMI_AUTO the execution job sends only what an operator approved, whatever
\* the mode was when the signal was saved and whatever it becomes meanwhile.
THEOREM ApprovedBeforeSentHolds == Spec => ApprovedBeforeSent
<1> DEFINE Approved ==
      \A s \in Signals : (attempt'[s] # attempt[s] /\ job.mode = "SEMI_AUTO") => agreed[s]
<1>1. StageInv /\ [Next]_vars => [Approved]_vars
  <2> SUFFICES ASSUME StageInv, Next, NEW s \in Signals, attempt'[s] # attempt[s],
                      job.mode = "SEMI_AUTO"
               PROVE  agreed[s]
    OBVIOUS
  <2>1. PICK r \in Results : Send(r)
    BY DEF Next, JobStep, ExpireSignals, ReadMode, LoadCandidates, RecordExecution, Pick, Crash,
           SaveSignal, Expire, PriceMoves, ModeChanges, ApproveRead, ApproveCommit
  <2> QED
    BY <2>1 DEF Send, StageInv
<1> QED
  BY <1>1, InitStage, NextStage, PTL DEF Spec, ApprovedBeforeSent

=============================================================================
