--------------------------- MODULE CircuitBreaker ---------------------------
(***************************************************************************)
(* The circuit breaker shared by the worker's jobs and the API             *)
(* (app/risk/circuit_breaker.py) over the append-only, versioned store     *)
(* SQLAlchemyCircuitStateStore (app/workers/persistence.py).               *)
(*                                                                         *)
(* Callers are the risk snapshot and the executor (evaluate), the period   *)
(* reset job (get) and the administration API (get, then manual_reset).    *)
(* A caller reads the clock, later loads the newest row, and saves one row *)
(* for the period change and one for its operation.  Other callers may     *)
(* save in between; a save whose expected version is not the newest raises *)
(* "circuit state optimistic-lock conflict".                               *)
(***************************************************************************)
EXTENDS CircuitState, Sequences

CONSTANTS
    Callers,  \* tasks that use the breaker
    Times,    \* hours the clock may show
    Absent    \* no row

ASSUME TimesAssumption == Times \subseteq Nat /\ Times # {}
ASSUME AbsentAssumption == Absent \notin States

VARIABLES
    clock,    \* the current hour
    saved,    \* the saved states; the version of a row is its index
    step,     \* step[c]: "idle", "load", "roll" or "apply"
    op,       \* op[c]: the operation c is in
    now,      \* now[c]: the time c read before it loaded
    basis,    \* basis[c]: the state c works on
    version,  \* version[c]: the version of that state, 0 without a row
    stamped   \* stamped[c]: updated_at of that state is now[c]

local == <<step, op, now, basis, version, stamped>>
circuitVars  == <<clock, saved, local>>

Operations == {"get", "evaluate", "kill", "reset"}

TypeOK ==
    /\ clock \in Times
    /\ saved \in Seq(States)
    /\ step \in [Callers -> {"idle", "load", "roll", "apply"}]
    /\ op \in [Callers -> Operations]
    /\ now \in [Callers -> Times]
    /\ basis \in [Callers -> States \cup {Absent}]
    /\ version \in [Callers -> Nat]
    /\ stamped \in [Callers -> BOOLEAN]

CircuitInit ==
    /\ clock \in Times /\ \A t \in Times : clock <= t
    /\ saved = <<>>
    /\ step = [c \in Callers |-> "idle"]
    /\ op = [c \in Callers |-> "get"]
    /\ now = [c \in Callers |-> clock]
    /\ basis = [c \in Callers |-> Absent]
    /\ version = [c \in Callers |-> 0]
    /\ stamped = [c \in Callers |-> FALSE]

Latest == IF saved = <<>> THEN Absent ELSE saved[Len(saved)]

Tick == /\ clock' \in Times /\ clock' > clock
        /\ UNCHANGED <<saved, local>>

\* An operation begins by reading the clock (executor.py:95 does it long before
\* it reaches the breaker; circuit-reset passes the age of the API's controls).
Call(c) ==
    /\ step[c] = "idle"
    /\ \E o \in Operations : op' = [op EXCEPT ![c] = o]
    /\ step' = [step EXCEPT ![c] = "load"]
    /\ now' = [now EXCEPT ![c] = clock]
    /\ UNCHANGED <<clock, saved, basis, version, stamped>>

Holding(c, state, v, isStamped) ==
    /\ basis' = [basis EXCEPT ![c] = state]
    /\ version' = [version EXCEPT ![c] = v]
    /\ stamped' = [stamped EXCEPT ![c] = isStamped]

\* The operation is over and its local state gone.
Return(c) ==
    /\ step' = [step EXCEPT ![c] = "idle"]
    /\ op' = [op EXCEPT ![c] = "get"]
    /\ now' = [now EXCEPT ![c] = clock]
    /\ Holding(c, Absent, 0, FALSE)
    /\ UNCHANGED clock

\* get(): load the newest row.
Load(c) ==
    /\ step[c] = "load"
    /\ IF saved = <<>>
       THEN Holding(c, FreshState(now[c]), 0, TRUE)
       ELSE Holding(c, saved[Len(saved)], Len(saved), FALSE)
    /\ step' = [step EXCEPT ![c] = IF saved # <<>> /\ OutOfPeriod(saved[Len(saved)], now[c])
                               THEN "roll" ELSE "apply"]
    /\ UNCHANGED <<clock, saved, op, now>>

\* Mutant: save() appends whatever the version it was computed from.
SaveUnchecked(c, state) == saved' = Append(saved, state)

\* save(): the check of the expected version and the unique (config_type,
\* version) of the appended row.
Save(c, state) == version[c] = Len(saved) /\ saved' = Append(saved, state)

\* save() raises; the job ends, the executor blocks its signal.
Conflict(c) ==
    /\ step[c] = "roll" \/ (step[c] = "apply" /\ op[c] # "get")
    /\ version[c] # Len(saved)
    /\ Return(c)
    /\ UNCHANGED saved

\* get(): save the state moved to the period of now.
Roll(c) ==
    /\ step[c] = "roll"
    /\ Save(c, Rolled(basis[c], now[c]))
    /\ Holding(c, Rolled(basis[c], now[c]), Len(saved) + 1, TRUE)
    /\ step' = [step EXCEPT ![c] = "apply"]
    /\ UNCHANGED <<clock, op, now>>

\* get() on its own returns what it loaded or saved.
Get(c) ==
    /\ step[c] = "apply" /\ op[c] = "get"
    /\ Return(c)
    /\ UNCHANGED saved

\* evaluate(): an unchanged state is not saved; updated_at counts as a change.
Evaluate(c) ==
    /\ step[c] = "apply" /\ op[c] = "evaluate"
    /\ \E a \in Accounts :
          IF stamped[c] /\ Evaluated(basis[c], a) = basis[c]
          THEN UNCHANGED saved
          ELSE Save(c, Evaluated(basis[c], a))
    /\ Return(c)

ActivateKillSwitch(c) ==
    /\ step[c] = "apply" /\ op[c] = "kill"
    /\ Save(c, Killed(basis[c]))
    /\ Return(c)

ManualReset(c) ==
    /\ step[c] = "apply" /\ op[c] = "reset"
    /\ \E clear \in BOOLEAN : Save(c, ManuallyReset(basis[c], clear))
    /\ Return(c)

\* The process of a caller ends between two of its steps.
CallerCrash(c) ==
    /\ step[c] # "idle"
    /\ Return(c)
    /\ UNCHANGED saved

CircuitNext ==
    \/ Tick
    \/ \E c \in Callers : \/ Call(c) \/ Load(c) \/ Roll(c) \/ Conflict(c) \/ Get(c) \/ Evaluate(c)
                          \/ ActivateKillSwitch(c) \/ ManualReset(c) \/ CallerCrash(c)

CircuitSpec == CircuitInit /\ [][CircuitNext]_circuitVars

-----------------------------------------------------------------------------
(***************************************************************************)
(* Properties.                                                             *)
(***************************************************************************)

\* What a caller holds is the row of its version, so a save that passes the
\* version check was computed from the newest row (inductive).
BasisInv ==
    \A c \in Callers : step[c] \in {"roll", "apply"} =>
        /\ version[c] <= Len(saved)
        /\ basis[c] = (IF version[c] = 0 THEN FreshState(now[c]) ELSE saved[version[c]])
        /\ step[c] = "roll" => version[c] > 0 /\ OutOfPeriod(basis[c], now[c])
        /\ step[c] = "apply" => ~OutOfPeriod(basis[c], now[c])

Serial == INSTANCE CircuitSerial WITH circuit <- Latest

\* However evaluate(), get() and manual_reset() of the jobs and the API overlap,
\* the newest row changes only as if each save had read and written it in one
\* step: no caller undoes a lock it has not seen.
ImplementsSerial == Serial!SerialSpec

\* A drawdown lock, with the manual re-enablement it requires, leaves the newest
\* row only by manual_reset(): no evaluation, period change, restart or
\* interleaving lifts it.
DrawdownLatched ==
    [][/\ Latest # Absent /\ Latest' # Latest
       /\ Latest.locks \cap {"account", "manual"} # {}
       => \/ Latest.locks \cap {"account", "manual"} \subseteq Latest'.locks
          \/ Latest'.reason = {"reset"}]_circuitVars

\* A drawdown lock always asks for manual re-enablement: a reset cannot lift
\* the one and leave the other, whatever it races with.
DrawdownNeedsManual ==
    Latest # Absent => ("account" \in Latest.locks => "manual" \in Latest.locks)

\* The daily and weekly locks of the newest row end with their period or with
\* a manual reset (docs/risk-management.md:37); get() with a clock read before
\* midnight must not end the lock of the new day.
LossLocksEndWithPeriod ==
    [][/\ Latest # Absent /\ Latest' # Latest /\ Latest'.reason # {"reset"}
       => /\ ("daily" \in Latest.locks /\ Latest'.day <= Latest.day) => "daily" \in Latest'.locks
          /\ ("weekly" \in Latest.locks /\ Latest'.week <= Latest.week) => "weekly" \in Latest'.locks]_circuitVars

\* While the newest row stays in one period, its loss locks are only added to.
LossLocksHeldInPeriod ==
    [][/\ Latest # Absent /\ Latest' # Latest /\ Latest'.reason # {"reset"}
       => /\ ("daily" \in Latest.locks /\ Latest'.day = Latest.day) => "daily" \in Latest'.locks
          /\ ("weekly" \in Latest.locks /\ Latest'.week = Latest.week) => "weekly" \in Latest'.locks]_circuitVars

=============================================================================
