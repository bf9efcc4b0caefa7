---------------------------- MODULE CircuitState ----------------------------
(***************************************************************************)
(* The circuit-breaker state of one account and what each operation of     *)
(* CircuitBreaker (app/risk/circuit_breaker.py) makes of it.               *)
(*                                                                         *)
(* The boolean columns are one set of locks: "daily", "weekly", "account", *)
(* "manual" (manual_reenable_required) and "kill" (kill_switch).  Time is  *)
(* counted in hours and fractions are percentages.                         *)
(***************************************************************************)
EXTENDS Integers

CONSTANTS
    DailyResetHour,      \* daily_reset_hour_utc
    WeeklyResetWeekday,  \* weekly_reset_weekday, 0 is Monday
    DailyPercent,        \* limits.maximum_daily_loss
    WeeklyPercent,       \* limits.maximum_weekly_loss
    DrawdownPercent,     \* limits.maximum_account_drawdown
    Accounts             \* account snapshots with their risk usage

ASSUME ResetAssumption == DailyResetHour \in 0..23 /\ WeeklyResetWeekday \in 0..6
ASSUME PercentAssumption ==
    DailyPercent \in 1..100 /\ WeeklyPercent \in 1..100 /\ DrawdownPercent \in 1..100
\* RiskUsage.__post_init__; a peak of 0 is a missing peak.
ASSUME AccountAssumption ==
    Accounts \subseteq [equity : Int, daily : Nat, weekly : Nat, open : Nat, peak : Nat]

LossLocks == {"daily", "weekly", "account"}
Locks     == LossLocks \cup {"manual", "kill"}
Reasons   == LossLocks \cup {"kill", "reset"}
States    == [day : Int, week : Int, locks : SUBSET Locks, reason : SUBSET Reasons]

DayKey(now)  == (now - DailyResetHour) \div 24
WeekKey(now) == DayKey(now) - (((DayKey(now) % 7) - WeeklyResetWeekday) % 7)

Period(now) == [day |-> DayKey(now), week |-> WeekKey(now)]
State(period, locks, reason) ==
    [day |-> period.day, week |-> period.week, locks |-> locks, reason |-> reason]

\* The state of an account that has no row yet.
FreshState(now) == State(Period(now), {}, {})

OutOfPeriod(s, now) == s.day # DayKey(now) \/ s.week # WeekKey(now)

\* Mutant: the period reset also drops the account lock.
RolledClearsAccount(s, now) == State(Period(now), s.locks \ LossLocks, s.reason)

\* get() moves a state to the period of now; a lock of another period is dropped.
Rolled(s, now) ==
    State(Period(now),
          {l \in s.locks : (l = "daily" => s.day = DayKey(now))
                          /\ (l = "weekly" => s.week = WeekKey(now))},
          s.reason)

\* Losses and drawdown that reach a limit; limits count open risk as lost.
Breached(a) ==
    {l \in LossLocks :
        \/ l = "daily" /\ (a.equity <= 0 \/ 100 * (a.daily + a.open) >= a.equity * DailyPercent)
        \/ l = "weekly" /\ (a.equity <= 0 \/ 100 * (a.weekly + a.open) >= a.equity * WeeklyPercent)
        \/ l = "account" /\ a.peak > 0 /\ 100 * (a.peak - a.equity) >= a.peak * DrawdownPercent}

\* The state with these loss locks; a drawdown lock asks for manual re-enablement.
WithLosses(s, held, loss) ==
    State(s,
          held \cup loss \cup (IF "account" \in loss THEN {"manual"} ELSE {}),
          IF loss # {} THEN loss ELSE s.reason)

\* Mutant: evaluate() recomputes the daily and weekly locks.
EvaluatedAnew(s, a) ==
    WithLosses(s, s.locks \ {"daily", "weekly"}, (s.locks \cap {"account"}) \cup Breached(a))

\* evaluate() adds the breached limits to the locks.
Evaluated(s, a) == WithLosses(s, s.locks, (s.locks \cap LossLocks) \cup Breached(a))

Killed(s) == State(s, s.locks \cup {"kill"}, {"kill"})

\* manual_reset() lifts every lock; the kill switch only when asked to.
ManuallyReset(s, clearKill) ==
    State(s, IF clearKill THEN {} ELSE s.locks \cap {"kill"}, {"reset"})

=============================================================================
