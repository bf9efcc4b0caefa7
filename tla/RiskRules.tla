------------------------------ MODULE RiskRules ------------------------------
(***************************************************************************)
(* The arithmetic of the risk engine (app/risk): position sizing, the loss *)
(* and drawdown gates, and the demo evidence of live trading.              *)
(*                                                                         *)
(* Money, prices and volumes are integers, fractions are thousandths.  A   *)
(* comparison of two quotients is written as the comparison of the cross   *)
(* products, so that no rounding takes part; the code computes the same    *)
(* with Decimal.                                                           *)
(***************************************************************************)
EXTENDS Integers, FiniteSetsExt

CONSTANTS
    RiskPerTrade,            \* limits.risk_per_trade
    MaximumDailyLoss,        \* limits.maximum_daily_loss
    MaximumWeeklyLoss,       \* limits.maximum_weekly_loss
    MaximumAccountDrawdown,  \* limits.maximum_account_drawdown
    VolumeMin, VolumeMax, VolumeStep   \* the specification of the symbol

Thousand == 1000

\* RiskLimits.__post_init__() and SymbolSpecification.__post_init__()
ASSUME LimitsAssumption ==
    /\ {RiskPerTrade, MaximumDailyLoss, MaximumWeeklyLoss, MaximumAccountDrawdown}
          \subseteq 1 .. Thousand
    /\ VolumeMin \in Nat \ {0}
    /\ VolumeStep \in Nat \ {0}
    /\ VolumeMax \in Nat /\ VolumeMin <= VolumeMax

NoVolume == 0    \* PositionSizer.calculate() raised RiskRejectedError

-----------------------------------------------------------------------------
(* Position sizing.                                                        *)

\* allowed_cash_risk, in thousandths of a unit of money
AllowedRisk(equity) == equity * RiskPerTrade

\* abs(broker.calculate_profit()) from the entry to the stop
CashRisk(volume, loss) == volume * loss

\* Mutant: the number of steps is rounded up.
StepsRoundedUp(allowed, loss) ==
    Min({(allowed - VolumeMin * loss + loss * VolumeStep - 1) \div (loss * VolumeStep),
         (VolumeMax - VolumeMin) \div VolumeStep})

\* step_count: how many steps above the minimum the capped volume reaches
Steps(allowed, loss) ==
    Min({(allowed - VolumeMin * loss) \div (loss * VolumeStep),
         (VolumeMax - VolumeMin) \div VolumeStep})

\* PositionSizer.calculate(); loss is the loss of one unit of volume at the stop
SizedVolume(equity, loss) ==
    LET allowed == AllowedRisk(equity)
        lost    == loss * Thousand
        volume  == VolumeMin + Steps(allowed, lost) * VolumeStep
    IN  IF \/ equity <= 0 \/ loss <= 0
           \/ Min({allowed, VolumeMax * lost}) < VolumeMin * lost
           \/ volume > VolumeMax
           \/ CashRisk(volume, lost) > allowed
        THEN NoVolume
        ELSE volume

\* What the sizing is for: the largest volume the broker trades whose loss at
\* the stop is within the risk of one trade.
Tradable(volume) ==
    /\ volume \in VolumeMin .. VolumeMax
    /\ (volume - VolumeMin) % VolumeStep = 0

LargestVolume(equity, loss) ==
    Max({NoVolume} \cup {v \in VolumeMin .. VolumeMax :
            Tradable(v) /\ CashRisk(v, loss) * Thousand <= AllowedRisk(equity)})

-----------------------------------------------------------------------------
(* The loss and drawdown gates; usage is a RiskUsage, peak 0 stands for no *)
(* snapshot.                                                               *)

NoPeak == 0

\* Mutant: the week is judged by the losses of the day.
LossReasonsOfTheDay(equity, usage, risk) ==
    {r \in {"DAILY_LOSS_LIMIT_REACHED", "WEEKLY_LOSS_LIMIT_REACHED"} :
        (usage.daily + usage.open + risk) * Thousand >=
           equity * (IF r = "DAILY_LOSS_LIMIT_REACHED" THEN MaximumDailyLoss
                                                       ELSE MaximumWeeklyLoss)}

\* RiskGateValidator.validate(), the lines about the account
LossReasons(equity, usage, risk) ==
    {r \in {"DAILY_LOSS_LIMIT_REACHED", "WEEKLY_LOSS_LIMIT_REACHED",
            "ACCOUNT_DRAWDOWN_LIMIT_REACHED"} :
        CASE r = "DAILY_LOSS_LIMIT_REACHED" ->
                (usage.daily + usage.open + risk) * Thousand >= equity * MaximumDailyLoss
          [] r = "WEEKLY_LOSS_LIMIT_REACHED" ->
                (usage.weekly + usage.open + risk) * Thousand >= equity * MaximumWeeklyLoss
          [] OTHER ->
                /\ usage.peak # NoPeak
                /\ (usage.peak - equity) * Thousand >= usage.peak * MaximumAccountDrawdown}

=============================================================================
