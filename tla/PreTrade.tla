------------------------------ MODULE PreTrade ------------------------------
(***************************************************************************)
(* What an entry passes between the signal and the broker, for one run of  *)
(* TradeExecutor._execute_serialized() up to the send: the permission of   *)
(* mode, environment and account, the demo evidence, the sizing, the       *)
(* pre-trade gates and the order check of the broker (the one of the mock  *)
(* broker, app/brokers/mock.py).                                           *)
(*                                                                         *)
(* Every stage draws what it reads when it reads it.  A fact that a gate   *)
(* only turns into its reason (the kill switch, a closed market, ...) is   *)
(* an obstacle, named by the reason.                                       *)
(***************************************************************************)
EXTENDS RiskRules, FiniteSets

CONSTANTS
    Commands,        \* the commands execute_signals() may build
    Evidence,        \* what the database holds about demo trading
    Orders,          \* signals with their prices, and the tick
    Obstacles,       \* reasons of the gates that are facts of their own
    Equities,        \* equity of the account, also its free margin
    MinimumRiskReward,   \* in thousandths
    MaximumSpread,
    MinimumDistance,     \* point * stops_level_points
    MarginRate,          \* margin of one unit of volume per unit of price
    MinimumDemoTrades, MaximumDemoDrawdown, MinimumDemoProfitFactor

OrderRows ==
    [long : BOOLEAN, bid : Nat, ask : Nat, limit : Nat, low : Nat, high : Nat, stop : Nat,
     targets : SUBSET Nat, volume : Nat]

EvidenceRows ==
    [trades : Nat, profit : Nat, loss : Nat, drawdowns : SUBSET Nat, factors : SUBSET Nat]

ASSUME PreTradeAssumption ==
    /\ MinimumRiskReward \in Nat \ {0} /\ MaximumSpread \in Nat
    /\ MinimumDistance \in Nat /\ MarginRate \in Nat \ {0}
    /\ MinimumDemoTrades \in Nat \ {0} /\ MaximumDemoDrawdown \in 1 .. Thousand
    /\ MinimumDemoProfitFactor \in Nat \ {0}
    /\ Equities \subseteq Int /\ Orders \subseteq OrderRows /\ Evidence \subseteq EvidenceRows
    /\ \A e \in Evidence : IsFiniteSet(e.drawdowns)
    /\ \A c \in Commands : /\ c.mode \in {"SIGNAL", "SEMI_AUTO", "AUTO"}
                          /\ c.approved \in BOOLEAN /\ c.live \in BOOLEAN

None == "none"

VARIABLES
    stage,      \* the last stage that was passed, or how the entry ended
    command,    \* the ExecutionCommand and the type of the account
    evidence,   \* the rows demo_performance() read, when they are judged
    order,      \* the signal, the tick and the sized volume
    equity

preVars == <<stage, command, evidence, order, equity>>

NothingYet ==
    /\ stage = "idle" /\ command = None /\ evidence = None /\ order = None /\ equity = 0

PreInit == NothingYet

When(condition, reason) == IF condition THEN {reason} ELSE {}

-----------------------------------------------------------------------------
(* Permission.                                                             *)

\* Mutant: a real account is refused in the demo environment only.
PermissionReasonsDemoOnly(c) ==
    When(c.mode = "SIGNAL", "SIGNAL_MODE_NEVER_EXECUTES")
    \cup When(c.mode = "SEMI_AUTO" /\ ~c.approved, "MANUAL_APPROVAL_REQUIRED")
    \cup When(c.environment = "demo" /\ c.account # "DEMO",
              "DEMO_ENVIRONMENT_REQUIRES_VERIFIED_DEMO_ACCOUNT")
    \cup When(c.environment = "production" /\ ~c.live, "LIVE_TRADING_FLAG_DISABLED")

\* evaluate_execution_permission()
PermissionReasons(c) ==
    When(c.mode = "SIGNAL", "SIGNAL_MODE_NEVER_EXECUTES")
    \cup When(c.mode = "SEMI_AUTO" /\ ~c.approved, "MANUAL_APPROVAL_REQUIRED")
    \cup When(c.environment \notin {"demo", "production"},
              "EXECUTION_ENVIRONMENT_NOT_ALLOWED")
    \cup When(c.account = "UNKNOWN", "BROKER_ACCOUNT_TYPE_UNKNOWN")
    \cup When(c.environment = "demo" /\ c.account # "DEMO",
              "DEMO_ENVIRONMENT_REQUIRES_VERIFIED_DEMO_ACCOUNT")
    \cup When(c.account = "REAL" /\ c.environment # "production",
              "REAL_ACCOUNT_FORBIDDEN_OUTSIDE_PRODUCTION")
    \cup (IF c.environment = "production"
          THEN When(c.account # "REAL", "PRODUCTION_REQUIRES_VERIFIED_REAL_ACCOUNT")
               \cup When(~c.live, "LIVE_TRADING_FLAG_DISABLED")
               \cup (IF None \in {c.configured, c.required}
                     THEN {"LIVE_TRADING_CONFIRMATION_MISSING"}
                     ELSE When(c.configured # c.required,
                               "LIVE_TRADING_CONFIRMATION_INVALID"))
          ELSE When(c.account = "REAL", "DEMO_FIRST_POLICY_BLOCKED_REAL_EXECUTION"))

\* The broker is healthy, the account is read, the permission is evaluated.
Permit ==
    /\ stage = "idle"
    /\ \E c \in Commands :
          /\ command' = c
          /\ stage' = IF PermissionReasons(c) = {} THEN "permitted" ELSE "blocked"
    /\ UNCHANGED <<evidence, order, equity>>

-----------------------------------------------------------------------------
(* Demo evidence.                                                          *)

\* demo_performance(): the trades of the strategy version, the drawdowns of
\* the daily metrics of demo accounts and their best profit factor.
DemoPerformance(e) ==
    [trades   |-> e.trades,       \* 0: no performance, None in the code
     drawdown |-> Max({0} \cup e.drawdowns),
     factor   |-> IF e.loss > 0 THEN (e.profit * Thousand) \div e.loss
                  ELSE IF e.profit > 0 THEN 999999 * Thousand
                  ELSE Max({0} \cup e.factors)]

\* evaluate_demo_performance()
DemoReasons(performance) ==
    IF performance.trades = 0 THEN {"DEMO_VALIDATION_EVIDENCE_MISSING"}
    ELSE When(performance.trades < MinimumDemoTrades, "DEMO_TRADE_COUNT_BELOW_MINIMUM")
         \cup When(performance.drawdown > MaximumDemoDrawdown,
                   "DEMO_DRAWDOWN_ABOVE_MAXIMUM")
         \cup When(performance.factor < MinimumDemoProfitFactor,
                   "DEMO_PROFIT_FACTOR_BELOW_MINIMUM")

EvidenceAsked(c) == c.environment = "production" /\ c.mode = "AUTO"

\* Evidence that is not asked for is not looked at.
CheckEvidence ==
    /\ stage = "permitted"
    /\ \E e \in Evidence :
          /\ evidence' = IF EvidenceAsked(command) THEN e ELSE None
          /\ stage' = IF EvidenceAsked(command) /\ DemoReasons(DemoPerformance(e)) # {}
                      THEN "blocked" ELSE "evidenced"
    /\ UNCHANGED <<command, order, equity>>

-----------------------------------------------------------------------------
(* Sizing and gates.                                                       *)

\* An order o is [long, bid, ask, limit (0: market), low, high, stop, targets].
Price(o)    == IF o.limit # 0 THEN o.limit ELSE IF o.long THEN o.ask ELSE o.bid
Distance(o) == IF Price(o) > o.stop THEN Price(o) - o.stop ELSE o.stop - Price(o)

StopBehind(o)    == IF o.long THEN o.stop < Price(o) ELSE o.stop > Price(o)
TargetsAhead(o)  ==
    \A t \in o.targets : IF o.long THEN t > Price(o) ELSE t < Price(o)
Reward(o, t)     == IF t > Price(o) THEN t - Price(o) ELSE Price(o) - t

\* PositionSizer.calculate() checks the side of the stop before it sizes.
Size ==
    /\ stage = "evidenced"
    /\ \E o \in Orders, e \in Equities :
          LET volume == IF StopBehind(o) THEN SizedVolume(e, Distance(o)) ELSE NoVolume
          IN  /\ order' = [o EXCEPT !.volume = volume]
              /\ stage' = IF volume = NoVolume THEN "unsized" ELSE "sized"
              /\ equity' = e
    /\ UNCHANGED <<command, evidence>>

Margin(o) == MarginRate * Price(o) * o.volume

\* RiskGateValidator.validate(), the lines about prices, margin and volume
OrderReasons(o, e) ==
    When(o.ask - o.bid > MaximumSpread, "TRADE_SKIPPED_HIGH_SPREAD")
    \cup When(Price(o) < o.low \/ Price(o) > o.high, "PRICE_OUTSIDE_ENTRY_ZONE")
    \cup When(Distance(o) < MinimumDistance, "INVALID_STOP_DISTANCE")
    \cup When(~StopBehind(o), "STOP_SIDE")
    \cup When(~TargetsAhead(o), "TAKE_PROFIT_SIDE")
    \cup When(\E t \in o.targets :
                 Reward(o, t) * Thousand < MinimumRiskReward * Distance(o),
              "RISK_REWARD_BELOW_MINIMUM")
    \cup When(Margin(o) <= 0 \/ Margin(o) > e, "INSUFFICIENT_OR_INVALID_MARGIN")

\* The loss gates are those of RiskRules; LossBudget follows them over time.
Validate(obstacles) ==
    /\ stage = "sized"
    /\ stage' = IF obstacles \cup OrderReasons(order, equity) = {}
                THEN "accepted" ELSE "blocked"
    /\ UNCHANGED <<command, evidence, order, equity>>

-----------------------------------------------------------------------------
(* The order check.                                                        *)

\* MockBrokerAdapter.validate_order() of a healthy broker in an open market
BrokerReasons(o, e) ==
    When(o.volume \notin VolumeMin .. VolumeMax, "INVALID_VOLUME")
    \cup When(o.volume \in VolumeMin .. VolumeMax
                 /\ (o.volume - VolumeMin) % VolumeStep # 0, "INVALID_VOLUME_STEP")
    \cup When(~StopBehind(o) \/ ~TargetsAhead(o), "INVALID_PROTECTION_SIDE")
    \cup When((IF o.long THEN Price(o) - o.stop ELSE o.stop - Price(o)) < MinimumDistance,
              "STOP_TOO_CLOSE")
    \cup When(Margin(o) > e, "INSUFFICIENT_MARGIN")

\* The order is claimed and checked; between the gates and the check the
\* market may have closed or the connection may have broken.
OrderCheck(available) ==
    /\ stage = "accepted"
    /\ stage' = IF available /\ BrokerReasons(order, equity) = {}
                THEN "sent" ELSE "checkRejected"
    /\ UNCHANGED <<command, evidence, order, equity>>

Finish ==
    /\ stage \in {"blocked", "unsized", "sent", "checkRejected"}
    /\ stage' = "idle" /\ command' = None /\ evidence' = None /\ order' = None
    /\ equity' = 0

PreNext ==
    \/ Permit \/ CheckEvidence \/ Size
    \/ \E b \in {{}} \cup {{x} : x \in Obstacles} : Validate(b)
    \/ \E available \in BOOLEAN : OrderCheck(available)
    \/ Finish

PreSpec == PreInit /\ [][PreNext]_preVars

-----------------------------------------------------------------------------
(* Properties.                                                             *)

\* An entry reaches the broker only as one of two: a demo account in the demo
\* environment, or a real one in production with the live flag on and the
\* confirmation given; in AUTO, or approved by an operator.  The list of
\* reasons of evaluate_execution_permission() leaves no other combination.
SentIsPermitted ==
    stage = "sent" =>
        /\ <<command.environment, command.account>>
             \in {<<"demo", "DEMO">>, <<"production", "REAL">>}
        /\ command.account = "REAL" =>
             command.live /\ command.configured = command.required /\ command.required # None
        /\ command.mode = "AUTO" \/ (command.mode = "SEMI_AUTO" /\ command.approved)

\* In AUTO, real money follows demo evidence: enough trades, a profit factor
\* over the minimum and no recorded drawdown over the maximum.
RealMoneyHasEvidence ==
    (stage = "sent" /\ command.account = "REAL" /\ command.mode = "AUTO") =>
        /\ evidence.trades >= MinimumDemoTrades
        /\ \A d \in evidence.drawdowns : d <= MaximumDemoDrawdown
        /\ evidence.loss > 0 =>
             evidence.profit * Thousand >= MinimumDemoProfitFactor * evidence.loss

\* An entry is sent only in one of the two combinations of environment and account
\* that evaluate_execution_permission() is meant to leave, and in AUTO real money
\* follows the demo evidence of demo_performance().
SentOnlyAsAllowed == SentIsPermitted /\ RealMoneyHasEvidence

\* As above, and the drawdown was measured: a missing figure fails the gate.
MissingEvidenceFails ==
    (stage = "sent" /\ command.account = "REAL" /\ command.mode = "AUTO") =>
        evidence.drawdowns # {}

\* The size is the largest volume the broker trades whose loss at the stop is
\* within the risk of one trade; a signal is refused for its size only when
\* not even the smallest volume fits.
SizedToTheLimit ==
    (stage \in {"sized", "unsized"} /\ StopBehind(order)) =>
        order.volume = LargestVolume(equity, Distance(order))

\* What the gates of the engine accept, the order check of the broker accepts
\* as well: the two sets of rules about prices, volume and margin agree.
AcceptedPassesBroker == stage = "accepted" => BrokerReasons(order, equity) = {}

\* PositionSizer.calculate() gives the largest volume within the risk of a trade,
\* and what the engine's gates accept the order check of the broker accepts.
OrdersFit == SizedToTheLimit /\ AcceptedPassesBroker

=============================================================================
