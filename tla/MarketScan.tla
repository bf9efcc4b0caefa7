----------------------------- MODULE MarketScan -----------------------------
(***************************************************************************)
(* The market scan of the worker (scan_market() of app/workers/service.py) *)
(* and the exits it carries out: the signal of a bar is stored once, under *)
(* an identifier made of its action and of the time of the bar, and only   *)
(* the scan that stored it acts on it.                                     *)
(*                                                                         *)
(* One position is followed.  The scan reads candles and positions, stores *)
(* the signal, and closes the position in further steps; bars close, the   *)
(* operator changes the mode, the broker closes the position and the       *)
(* worker crashes in between.  Entries are followed in SignalLifecycle.    *)
(***************************************************************************)
EXTENDS Naturals, FiniteSets

CONSTANTS MaxCrashes     \* bound: crashes of the worker

Bars == 0 .. 2           \* times of bars, of which two are told apart at once

VARIABLES
    bar,        \* the bar that closed last
    against,    \* the H1 trend of that bar is against the position
    rows,       \* rows[b]: the actions of the signals stored for bar b
    open,       \* the position is open at the broker
    plan,       \* the position has an open row with a plan
    mode,       \* active trading mode
    scan,       \* the running scan
    crashes

vars == <<bar, against, rows, open, plan, mode, scan, crashes>>

Modes  == {"AUTO", "SEMI_AUTO", "SIGNAL"}
NoScan == [pc |-> "idle"]

Init ==
    /\ bar = 0 /\ against = FALSE /\ rows = [b \in Bars |-> {}]
    /\ open = FALSE /\ plan = FALSE /\ mode \in Modes
    /\ scan = NoScan /\ crashes = 0

-----------------------------------------------------------------------------
(* The scan.                                                               *)

\* Candles and positions are read, the strategy is evaluated.
Evaluate ==
    /\ scan.pc = "idle"
    /\ scan' = [pc |-> "save", bar |-> bar,
                action |-> IF open /\ against THEN "EXIT" ELSE "WAIT"]
    /\ UNCHANGED <<bar, against, rows, open, plan, mode, crashes>>

\* save_signal(); a signal that is already stored is not acted upon again.
SaveSignal ==
    /\ scan.pc = "save"
    /\ rows' = [rows EXCEPT ![scan.bar] = @ \cup {scan.action}]
    /\ scan' = IF scan.action \notin rows[scan.bar] /\ scan.action = "EXIT" /\ mode = "AUTO"
               THEN [scan EXCEPT !.pc = "exit"] ELSE NoScan
    /\ UNCHANGED <<bar, against, open, plan, mode, crashes>>

\* _execute_strategy_exit(): a position without a plan is passed over; the
\* broker closes the position, refuses, or does not know it any more.
ExitCloses ==
    /\ scan.pc = "exit" /\ plan /\ open
    /\ open' = FALSE
    /\ scan' = [scan EXCEPT !.pc = "record"]
    /\ UNCHANGED <<bar, against, rows, plan, mode, crashes>>

ExitFails ==
    /\ scan.pc = "exit"
    /\ scan' = NoScan
    /\ UNCHANGED <<bar, against, rows, open, plan, mode, crashes>>

\* record_position_action(), state CLOSED
RecordExit ==
    /\ scan.pc = "record"
    /\ plan' = FALSE
    /\ scan' = NoScan
    /\ UNCHANGED <<bar, against, rows, open, mode, crashes>>

Crash ==
    /\ scan # NoScan /\ crashes < MaxCrashes
    /\ scan' = NoScan
    /\ crashes' = crashes + 1
    /\ UNCHANGED <<bar, against, rows, open, plan, mode>>

-----------------------------------------------------------------------------
(* Its environment.                                                        *)

Following(b) == (b + 1) % 3

\* Mutant: the time of the bar is not part of the identifier.
RowsOfAllBars(b) == [rows EXCEPT ![Following(b)] = rows[b]]

\* No signal of the new bar is stored yet: created_at is part of its identifier.
RowsAfter(b) == [rows EXCEPT ![Following(b)] = {}]

\* A bar closes; a scan takes less than one bar.
NewBar ==
    /\ scan # NoScan => scan.bar = bar
    /\ bar' = Following(bar)
    /\ rows' = RowsAfter(bar)
    /\ against' \in BOOLEAN
    /\ UNCHANGED <<open, plan, mode, scan, crashes>>

\* An entry is filled with the trend; its row may come with it or later.
Enters ==
    /\ ~open /\ ~plan /\ ~against
    /\ open' = TRUE /\ plan' \in BOOLEAN
    /\ UNCHANGED <<bar, against, rows, mode, scan, crashes>>

BrokerCloses ==
    /\ open
    /\ open' = FALSE
    /\ UNCHANGED <<bar, against, rows, plan, mode, scan, crashes>>

\* The reconciliation gives the position its row, or closes the row.
Reconciles ==
    /\ plan # open
    /\ plan' = open
    /\ UNCHANGED <<bar, against, rows, open, mode, scan, crashes>>

SetMode(m) ==
    /\ m # mode
    /\ mode' = m
    /\ UNCHANGED <<bar, against, rows, open, plan, scan, crashes>>

Next ==
    \/ Evaluate \/ SaveSignal \/ ExitCloses \/ ExitFails \/ RecordExit \/ Crash
    \/ NewBar \/ Enters \/ BrokerCloses \/ Reconciles
    \/ \E m \in Modes : SetMode(m)

Spec == Init /\ [][Next]_vars

-----------------------------------------------------------------------------

\* While the trend stays against the position and the mode stays AUTO, the
\* position is closed in the end, also when a scan crashed or was refused after
\* it stored the signal: the next bar brings a signal of its own.
ReversalExits == <>[](against /\ mode = "AUTO") => <>[]~open

=============================================================================
