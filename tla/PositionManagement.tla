------------------------- MODULE PositionManagement -------------------------
(***************************************************************************)
(* Management of one open position: the positions job                      *)
(* (manage_positions() of app/workers/service.py over                      *)
(* app/execution/positions.py), which closes part of it at TP1, moves the  *)
(* stop to break-even and trails it; the scan job's strategy exit; and the *)
(* ledger pass that rewrites the row.                                      *)
(*                                                                         *)
(* Every await of the job is a step of its own, in which the price, the    *)
(* broker or another job may move.  Prices are offsets from the open price *)
(* in the direction of the trade (Sign makes them prices again), volumes   *)
(* are numbers of volume steps, and a volume of 0 is a closed position.    *)
(* What disturbs the position is drawn in the beginning and stays: the     *)
(* properties say what they ask of it.                                     *)
(***************************************************************************)
EXTENDS Integers, TradeLifecycle

CONSTANTS
    Managers,       \* replicas that run the positions job at the same time
    Directions,     \* directions of the position: subset of {1, -1}
    Volumes,        \* volumes it may be opened with
    MinimumVolume,      \* SymbolSpecification.volume_min
    Fraction,       \* tp1_close_fraction as <<numerator, denominator>>
    MaxPrice,       \* bound: how far the price moves into profit
    Risk,           \* distance of the initial stop
    Target,         \* distance of take_profits[1]
    Trigger,        \* risk_distance * break_even_trigger_r
    Costs,          \* spread, commission and slippage: the break-even buffer
    TrailDistance,  \* atr * atr_multiple; 0 when trailing is disabled
    Scenarios       \* what may disturb the position, a set of subsets of Disturbances

\* faults: replies are lost and managers die; exits: the strategy exits; ledger: the
\* ledger pass runs; unknown: the attempt that opened the position is not concluded
Disturbances == {"faults", "exits", "ledger", "unknown"}

ASSUME ScenarioAssumption == Scenarios \subseteq SUBSET Disturbances
ASSUME DirectionAssumption == Directions \subseteq {1, -1}
ASSUME VolumeAssumption ==
    /\ MinimumVolume \in Nat \ {0}
    /\ Volumes \subseteq {v \in Nat : v >= MinimumVolume}
    /\ Fraction \in (Nat \ {0}) \X (Nat \ {0}) /\ Fraction[1] < Fraction[2]
ASSUME PriceAssumption ==
    /\ MaxPrice \in Nat /\ Risk \in Nat \ {0} /\ Target \in Nat /\ Trigger \in Nat
    /\ Costs \in Nat /\ TrailDistance \in Nat

Events == {"TP1_HIT", "BREAK_EVEN"}
Prices == (-MaxPrice) .. MaxPrice

VARIABLES
    scenario, \* what disturbs this position
    sign,     \* 1 for LONG, -1 for SHORT
    price,    \* current price
    stop,     \* the broker's stop
    volume,   \* the broker's volume
    stateRow, \* the position row: [state, closed]
    events,   \* event types recorded for the position
    tp1,      \* how often part of it was closed for TP1
    pc,       \* pc[m]: where manager m is
    plan,     \* plan[m]: [state, seen] as read from the rows
    seen,     \* seen[m]: the price manager m last read
    asked,    \* asked[m]: the volume or the stop it is about to ask for
    exit,     \* the strategy exit: "idle", "close" or "record"
    ledger,   \* the ledger pass: "idle", "open" or "close"
    repair    \* reconcile_unknown() of the attempt: "due", "modify", "close" or "done"

market   == <<scenario, sign, price>>
held     == <<stop, volume>>
ledgers  == <<stateRow, events>>
managing == <<pc, plan, seen, asked>>
others   == <<exit, ledger, repair>>
manageVars == <<market, held, ledgers, tp1, managing, others>>

InitialStop == -(sign * Risk)

NoPlan == [state |-> "POSITION_OPEN", seen |-> {}]

ManageInit ==
    /\ scenario \in Scenarios
    /\ sign \in Directions
    /\ price = 0 /\ stop = InitialStop
    /\ volume \in Volumes
    /\ stateRow = [state |-> "POSITION_OPEN", closed |-> FALSE]
    /\ events = {} /\ tp1 = 0
    /\ pc = [m \in Managers |-> "idle"]
    /\ plan = [m \in Managers |-> NoPlan]
    /\ seen = [m \in Managers |-> 0]
    /\ asked = [m \in Managers |-> 0]
    /\ exit = "idle" /\ ledger = "idle"
    /\ repair = IF "unknown" \in scenario THEN "due" ELSE "done"

ManageTypeOK ==
    /\ scenario \in SUBSET Disturbances
    /\ sign \in {1, -1} /\ price \in Int /\ stop \in Int /\ volume \in Nat
    /\ stateRow \in [state : TradeStates, closed : BOOLEAN]
    /\ events \in SUBSET Events /\ tp1 \in Nat
    /\ pc \in [Managers -> {"idle", "positions", "partial", "close", "tp1", "even", "move",
                            "evened", "trail", "pull"}]
    /\ plan \in [Managers -> [state : TradeStates, seen : SUBSET Events]]
    /\ seen \in [Managers -> Int] /\ asked \in [Managers -> Int]
    /\ exit \in {"idle", "close", "record"} /\ ledger \in {"idle", "open", "close"}
    /\ repair \in {"due", "modify", "close", "done"}

-----------------------------------------------------------------------------
(***************************************************************************)
(* The market and the broker.                                              *)
(***************************************************************************)

QuoteMoves ==
    /\ volume > 0
    /\ \E p \in Prices : p \in {price - 1, price + 1} /\ price' = p
    /\ UNCHANGED <<scenario, sign, held, ledgers, tp1, managing, others>>

\* The stop or the target is hit, or the position is closed by hand.
BrokerExits ==
    /\ volume > 0
    /\ volume' = 0
    /\ UNCHANGED <<market, stop, ledgers, tp1, managing, others>>

Favours(a, b) == sign * a > sign * b

-----------------------------------------------------------------------------
(***************************************************************************)
(* The positions job.                                                      *)
(***************************************************************************)

Goto(m, p) == pc' = [pc EXCEPT ![m] = p]

\* The job of m ends, normally or because a call raised.
End(m) ==
    /\ Goto(m, "idle")
    /\ plan' = [plan EXCEPT ![m] = NoPlan]
    /\ seen' = [seen EXCEPT ![m] = 0]
    /\ asked' = [asked EXCEPT ![m] = 0]

\* open_position_plans(): rows that are not closed, with the events recorded.
OpenPositionPlans(m) ==
    /\ pc[m] = "idle" /\ ~stateRow.closed
    /\ plan' = [plan EXCEPT ![m] = [state |-> stateRow.state, seen |-> events]]
    /\ Goto(m, "positions")
    /\ UNCHANGED <<market, held, ledgers, tp1, seen, asked, others>>

\* Mutant: the row's state says whether TP1 was taken.
Tp1DueByState(m) == plan[m].state # "TP1_HIT" /\ sign * price >= Target

\* TP1 is due when it was not recorded and the target is reached.
Tp1Due(m) == "TP1_HIT" \notin plan[m].seen /\ sign * price >= Target

GetPositions(m) ==
    /\ pc[m] = "positions"
    /\ IF volume = 0 THEN End(m)
       ELSE /\ seen' = [seen EXCEPT ![m] = price]
            /\ Goto(m, IF Tp1Due(m) THEN "partial" ELSE "even")
            /\ UNCHANGED <<plan, asked>>
    /\ UNCHANGED <<market, held, ledgers, tp1, others>>

CloseVolume == (volume * Fraction[1]) \div Fraction[2]

\* partial_close(): neither part may be below the broker's minimum.
ValidPartial ==
    /\ CloseVolume >= MinimumVolume
    /\ volume - CloseVolume = 0 \/ volume - CloseVolume >= MinimumVolume

PartialClose(m) ==
    /\ pc[m] = "partial"
    /\ \/ volume = 0 /\ End(m)
       \/ volume > 0 /\ ~ValidPartial /\ Goto(m, "even") /\ UNCHANGED <<plan, seen, asked>>
       \/ /\ volume > 0 /\ ValidPartial
          /\ asked' = [asked EXCEPT ![m] = CloseVolume]
          /\ Goto(m, "close")
          /\ UNCHANGED <<plan, seen>>
    /\ UNCHANGED <<market, held, ledgers, tp1, others>>

\* close_position(): raises when the position is smaller; may be refused; the
\* reply may be lost after the broker closed the volume.
ClosePosition(m) ==
    /\ pc[m] = "close"
    /\ \/ volume < asked[m] /\ End(m) /\ UNCHANGED <<volume, tp1>>
       \/ Goto(m, "even") /\ UNCHANGED <<volume, tp1, plan, seen, asked>>
       \/ /\ volume >= asked[m]
          /\ volume' = volume - asked[m]
          /\ tp1' = tp1 + 1
          /\ \/ Goto(m, "tp1") /\ UNCHANGED <<plan, seen, asked>>
             \/ "faults" \in scenario /\ End(m)
    /\ UNCHANGED <<market, stop, ledgers, others>>

\* Mutant: TP1 always sets the state TP1_HIT.
Tp1StatePlain(m) == "TP1_HIT"

\* A position already at break-even keeps that state.
Tp1State(m) == IF plan[m].state = "BREAK_EVEN" THEN "BREAK_EVEN" ELSE "TP1_HIT"

\* The position is read again and record_position_action() writes the row.
RecordTp1(m) ==
    /\ pc[m] = "tp1"
    /\ stateRow' = [stateRow EXCEPT !.state = Tp1State(m)]
    /\ events' = events \cup {"TP1_HIT"}
    /\ seen' = [seen EXCEPT ![m] = IF volume > 0 THEN price ELSE @]
    /\ Goto(m, "even")
    /\ UNCHANGED <<market, held, tp1, plan, asked, others>>

EvenDue(m) == "BREAK_EVEN" \notin plan[m].seen /\ sign * seen[m] >= Trigger

AfterEven == IF TrailDistance > 0 THEN "trail" ELSE "idle"

Skip(m) ==
    IF AfterEven = "idle" THEN End(m)
    ELSE Goto(m, AfterEven) /\ UNCHANGED <<plan, seen, asked>>

\* move_to_break_even(): the target must improve the stop and be behind the price.
MoveToBreakEven(m) ==
    LET target == sign * Costs
    IN  /\ pc[m] = "even"
        /\ \/ ~EvenDue(m) /\ Skip(m)
           \/ EvenDue(m) /\ volume = 0 /\ End(m)
           \/ /\ EvenDue(m) /\ volume > 0
              /\ ~(Favours(target, stop) /\ Favours(price, target))
              /\ Skip(m)
           \/ /\ EvenDue(m) /\ volume > 0
              /\ Favours(target, stop) /\ Favours(price, target)
              /\ asked' = [asked EXCEPT ![m] = target]
              /\ Goto(m, "move")
              /\ UNCHANGED <<plan, seen>>
        /\ UNCHANGED <<market, held, ledgers, tp1, others>>

\* modify_position() of the broker: a stop on the wrong side is refused.
Modify(m) ==
    /\ volume > 0 /\ Favours(price, asked[m])
    /\ stop' = asked[m]

ModifyForBreakEven(m) ==
    /\ pc[m] = "move"
    /\ \/ Modify(m) /\ Goto(m, "evened") /\ UNCHANGED <<plan, seen, asked>>
       \/ Skip(m) /\ UNCHANGED stop
    /\ UNCHANGED <<market, volume, ledgers, tp1, others>>

\* The position is read again, which raises when it is gone, and recorded.
RecordBreakEven(m) ==
    /\ pc[m] = "evened"
    /\ IF volume = 0 THEN End(m) /\ UNCHANGED ledgers
       ELSE /\ stateRow' = [stateRow EXCEPT !.state = "BREAK_EVEN"]
            /\ events' = events \cup {"BREAK_EVEN"}
            /\ Skip(m)
    /\ UNCHANGED <<market, held, tp1, others>>

\* Mutant: a trailing stop need not improve on the stop it replaces.
TrailsBehindPrice(candidate) == Favours(price, candidate)

TrailImproves(candidate) == Favours(candidate, stop) /\ Favours(price, candidate)

\* trail() in ATR mode.
Trail(m) ==
    LET candidate == price - sign * TrailDistance
    IN  /\ pc[m] = "trail"
        /\ IF volume > 0 /\ TrailImproves(candidate)
           THEN /\ asked' = [asked EXCEPT ![m] = candidate]
                /\ Goto(m, "pull")
                /\ UNCHANGED <<plan, seen>>
           ELSE End(m)
        /\ UNCHANGED <<market, held, ledgers, tp1, others>>

\* The record of a trailing stop leaves the state as it is.
ModifyForTrail(m) ==
    /\ pc[m] = "pull"
    /\ Modify(m) \/ UNCHANGED stop
    /\ End(m)
    /\ UNCHANGED <<market, volume, ledgers, tp1, others>>

Die(m) ==
    /\ "faults" \in scenario /\ pc[m] # "idle"
    /\ End(m)
    /\ UNCHANGED <<market, held, ledgers, tp1, others>>

-----------------------------------------------------------------------------
(***************************************************************************)
(* The strategy exit of the scan job, the ledger pass, and the conclusion  *)
(* of an attempt whose reply was lost.                                     *)
(***************************************************************************)

ExitStarts ==
    /\ "exits" \in scenario /\ exit = "idle" /\ ~stateRow.closed /\ volume > 0
    /\ exit' = "close"
    /\ UNCHANGED <<market, held, ledgers, tp1, managing, ledger, repair>>

ExitCloses ==
    /\ exit = "close"
    /\ \/ volume > 0 /\ volume' = 0 /\ exit' = "record"
       \/ UNCHANGED volume /\ exit' = "idle"
    /\ UNCHANGED <<market, stop, ledgers, tp1, managing, ledger, repair>>

RecordExit ==
    /\ exit = "record"
    /\ stateRow' = [state |-> "CLOSED", closed |-> TRUE]
    /\ exit' = "idle"
    /\ UNCHANGED <<market, held, events, tp1, managing, ledger, repair>>

LedgerReads ==
    /\ "ledger" \in scenario /\ ledger = "idle"
    /\ \/ volume > 0 /\ ledger' = "open"
       \/ volume = 0 /\ ~stateRow.closed /\ ledger' = "close"
    /\ UNCHANGED <<market, held, ledgers, tp1, managing, exit, repair>>

\* _upsert_position_sync()
LedgerWrites ==
    /\ ledger # "idle"
    /\ stateRow' = IF ledger = "open" THEN [state |-> "POSITION_OPEN", closed |-> FALSE]
              ELSE [state |-> "CLOSED", closed |-> TRUE]
    /\ ledger' = "idle"
    /\ UNCHANGED <<market, held, events, tp1, managing, exit, repair>>

\* _verify_or_repair_protection(): the stop is compared with the one requested.
VerifyProtection ==
    /\ repair = "due" /\ volume > 0
    /\ repair' = IF stop = InitialStop THEN "done" ELSE "modify"
    /\ UNCHANGED <<market, held, ledgers, tp1, managing, exit, ledger>>

\* One change back to the request, or else one close.
RepairProtection ==
    /\ repair = "modify"
    /\ \/ volume > 0 /\ Favours(price, InitialStop) /\ stop' = InitialStop /\ repair' = "done"
       \/ repair' = "close" /\ UNCHANGED stop
    /\ UNCHANGED <<market, volume, ledgers, tp1, managing, exit, ledger>>

SafeClose ==
    /\ repair = "close"
    /\ volume' \in {0, volume} /\ repair' = "done"
    /\ UNCHANGED <<market, stop, ledgers, tp1, managing, exit, ledger>>

Conclude == VerifyProtection \/ RepairProtection \/ SafeClose

Manage(m) ==
    \/ OpenPositionPlans(m) \/ GetPositions(m) \/ PartialClose(m) \/ ClosePosition(m) \/ RecordTp1(m)
    \/ MoveToBreakEven(m) \/ ModifyForBreakEven(m) \/ RecordBreakEven(m)
    \/ Trail(m) \/ ModifyForTrail(m)

ManageNext ==
    \/ QuoteMoves \/ BrokerExits
    \/ \E m \in Managers : Manage(m) \/ Die(m)
    \/ ExitStarts \/ ExitCloses \/ RecordExit \/ LedgerReads \/ LedgerWrites
    \/ Conclude

ManageSpec == ManageInit /\ [][ManageNext]_manageVars

-----------------------------------------------------------------------------
(***************************************************************************)
(* Properties.                                                             *)
(***************************************************************************)

\* While no reply is lost and no manager dies, part of the position is closed for
\* TP1 once, whatever the ledger pass makes of the row's state in between.
Tp1TakenOnce == "faults" \notin scenario => tp1 <= 1

\* A partial close leaves nothing or a volume the broker can still trade, after
\* repeated closes too.
RemainderTradable == volume = 0 \/ volume >= MinimumVolume

\* manage_positions() closes part of a position for TP1 once, whatever a ledger
\* pass makes of the row's state in between, and what partial closes leave, repeated
\* ones after a crash too, can still be traded.
PartialClosesSound == Tp1TakenOnce /\ RemainderTradable

\* Once break-even is recorded the stop covers the costs until the end, through
\* later trailing and partial closes.
BreakEvenHolds ==
    "unknown" \notin scenario /\ "BREAK_EVEN" \in events /\ volume > 0 => sign * stop >= Costs

\* Without an attempt to conclude, no step of the manager, the exits or the ledger
\* pass moves the stop away from the price: a change that "would not improve" is
\* refused (positions.py:127), whatever the price did since it was computed; and
\* once break-even is recorded the stop covers the costs until the end.
StopHolds ==
    /\ [][~Favours(stop, stop') \/ "unknown" \in scenario]_manageVars
    /\ []BreakEvenHolds

\* The row follows the lifecycle of the state machine (docs/architecture.md:67)
\* where neither an exit nor a ledger pass writes it: through crashes and the repair
\* of an attempt that is not concluded, each change of its state is an allowed
\* transition.
RowFollowsLifecycle ==
    [][scenario \cap {"exits", "ledger"} = {} =>
         stateRow'.state \in {stateRow.state} \cup Allowed(stateRow.state)]_manageVars

=============================================================================
