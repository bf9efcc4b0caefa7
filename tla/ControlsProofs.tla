--------------------------- MODULE ControlsProofs ---------------------------
(***************************************************************************)
(* Theorems about the controls of the engine: the circuit breaker, the     *)
(* runtime controls and the versions of the configuration, for any number  *)
(* of processes and requests. Each component has an inductive invariant of *)
(* its own.                                                                *)
(***************************************************************************)
EXTENDS CircuitBreaker, RuntimeControls, ConfigUpdates, TLAPS

-----------------------------------------------------------------------------
(***************************************************************************)
(* CircuitBreaker. The optimistic saves are serial, a drawdown lock        *)
(* survives everything but a manual reset, and a loss lock its period, for *)
(* any set of callers, clock values and accounts.                          *)
(***************************************************************************)

\* Period keys are integers.
LEMMA KeyTypes == \A t \in Times : DayKey(t) \in Int /\ WeekKey(t) \in Int
<1> SUFFICES ASSUME NEW t \in Times PROVE DayKey(t) \in Int /\ WeekKey(t) \in Int
  OBVIOUS
<1>1. DayKey(t) \in Int
  BY TimesAssumption, ResetAssumption DEF DayKey
<1>2. (DayKey(t) % 7) - WeeklyResetWeekday \in Int
  BY <1>1, ResetAssumption
<1> QED
  BY <1>1, <1>2 DEF WeekKey

\* Every operation of CircuitState yields a state.
LEMMA StateTypes ==
    /\ \A t \in Times : FreshState(t) \in States
    /\ \A s \in States : /\ \A t \in Times : Rolled(s, t) \in States
                         /\ \A a \in Accounts : Evaluated(s, a) \in States
                         /\ Killed(s) \in States
                         /\ \A clear \in BOOLEAN : ManuallyReset(s, clear) \in States
<1> USE KeyTypes DEF States, State, Period, Locks, Reasons, LossLocks
<1>1. ASSUME NEW t \in Times PROVE FreshState(t) \in States
  BY DEF FreshState
<1>2. ASSUME NEW s \in States, NEW t \in Times PROVE Rolled(s, t) \in States
  BY DEF Rolled
<1>3. ASSUME NEW s \in States, NEW a \in Accounts PROVE Evaluated(s, a) \in States
  <2> DEFINE loss == (s.locks \cap LossLocks) \cup Breached(a)
  <2>1. loss \subseteq LossLocks
    BY DEF Breached
  <2>2. s.locks \cup loss \cup (IF "account" \in loss THEN {"manual"} ELSE {}) \in SUBSET Locks
    BY <2>1
  <2>3. (IF loss # {} THEN loss ELSE s.reason) \in SUBSET Reasons
    BY <2>1
  <2> HIDE DEF loss
  <2> QED
    BY <2>2, <2>3 DEF Evaluated, WithLosses, loss
<1>4. ASSUME NEW s \in States, NEW clear \in BOOLEAN
      PROVE  Killed(s) \in States /\ ManuallyReset(s, clear) \in States
  BY DEF Killed, ManuallyReset
<1> QED
  BY <1>1, <1>2, <1>3, <1>4

\* Rolling a state brings it into the period of the clock it was rolled with.
LEMMA RolledInPeriod ==
    ASSUME NEW s \in States, NEW t \in Times
    PROVE  ~OutOfPeriod(Rolled(s, t), t) /\ ~OutOfPeriod(FreshState(t), t)
BY KeyTypes DEF States, State, Period, Rolled, FreshState, OutOfPeriod

-----------------------------------------------------------------------------
(***************************************************************************)
(* The inductive invariant.                                                *)
(***************************************************************************)

\* Types, and what the callers hold against the newest row.
BreakerInv == TypeOK /\ BasisInv

\* A store without rows and callers that are idle satisfy the invariant.
LEMMA InitBreaker == CircuitInit => BreakerInv
BY DEF CircuitInit, BreakerInv, TypeOK, BasisInv, Operations

\* A caller that holds a row, or is about to save, holds a state.
LEMMA HeldState ==
    ASSUME BreakerInv, NEW c \in Callers, step[c] \in {"roll", "apply"}
    PROVE  /\ basis[c] \in States
           /\ version[c] = Len(saved) =>
                  basis[c] = IF saved = <<>> THEN FreshState(now[c]) ELSE Latest
<1>1. version[c] \in Nat /\ version[c] <= Len(saved) /\ now[c] \in Times /\ saved \in Seq(States)
  BY DEF BreakerInv, TypeOK, BasisInv
<1>2. basis[c] = IF version[c] = 0 THEN FreshState(now[c]) ELSE saved[version[c]]
  BY DEF BreakerInv, BasisInv
<1>3. version[c] # 0 => saved[version[c]] \in States
  BY <1>1
<1>4. saved = <<>> <=> Len(saved) = 0
  BY <1>1
<1>5. FreshState(now[c]) \in States
  BY <1>1, StateTypes
<1> QED
  BY <1>1, <1>2, <1>3, <1>4, <1>5 DEF Latest

\* Return makes one caller idle and keeps the types of the local state.
LEMMA ReturnTypes ==
    ASSUME BreakerInv, NEW c \in Callers, Return(c), saved' \in Seq(States),
           Len(saved') >= Len(saved),
           \A i \in 1..Len(saved) : saved'[i] = saved[i]
    PROVE  BreakerInv'
<1>1. TypeOK'
  BY DEF BreakerInv, TypeOK, Return, Holding, Operations
<1>2. \A d \in Callers : step'[d] \in {"roll", "apply"} =>
          /\ d # c /\ step'[d] = step[d] /\ now'[d] = now[d]
          /\ basis'[d] = basis[d] /\ version'[d] = version[d]
  BY DEF BreakerInv, TypeOK, Return, Holding
<1>3. BasisInv'
  <2> SUFFICES ASSUME NEW d \in Callers, step'[d] \in {"roll", "apply"}
               PROVE  /\ version[d] <= Len(saved')
                      /\ basis[d] = (IF version[d] = 0 THEN FreshState(now[d])
                                                    ELSE saved'[version[d]])
                      /\ step[d] = "roll" => version[d] > 0 /\ OutOfPeriod(basis[d], now[d])
                      /\ step[d] = "apply" => ~OutOfPeriod(basis[d], now[d])
    BY <1>2 DEF BasisInv
  <2>1. step[d] \in {"roll", "apply"}
    BY <1>2
  <2>2. version[d] \in Nat /\ Len(saved) \in Nat /\ Len(saved') \in Nat
    BY DEF BreakerInv, TypeOK
  <2> QED
    BY <2>1, <2>2 DEF BreakerInv, BasisInv
<1> QED
  BY <1>1, <1>3 DEF BreakerInv

\* What a save appends keeps the rows that were there.
LEMMA SaveKeepsRows ==
    ASSUME saved \in Seq(States), NEW c, NEW s \in States, Save(c, s)
    PROVE  /\ saved' \in Seq(States) /\ Len(saved') = Len(saved) + 1 /\ saved'[Len(saved) + 1] = s
           /\ \A i \in 1..Len(saved) : saved'[i] = saved[i]
BY DEF Save

\* State x is the result of one operation on state s.
Applied(s, x) == \/ \E a \in Accounts : x = Evaluated(s, a)
                 \/ x = Killed(s)
                 \/ \E clear \in BOOLEAN : x = ManuallyReset(s, clear)

\* The operations save, if anything, their result for the state they hold.
LEMMA ApplySaves ==
    ASSUME BreakerInv, NEW c \in Callers, Evaluate(c) \/ ActivateKillSwitch(c) \/ ManualReset(c)
    PROVE  UNCHANGED saved \/ \E x \in States : Applied(basis[c], x) /\ Save(c, x)
<1>1. basis[c] \in States
  BY HeldState DEF Evaluate, ActivateKillSwitch, ManualReset
<1>2. CASE Evaluate(c)
  <2>1. PICK a \in Accounts : UNCHANGED saved \/ Save(c, Evaluated(basis[c], a))
    BY <1>2 DEF Evaluate
  <2>2. Evaluated(basis[c], a) \in States /\ Applied(basis[c], Evaluated(basis[c], a))
    BY <1>1, StateTypes DEF Applied
  <2> QED
    BY <2>1, <2>2
<1>3. CASE ActivateKillSwitch(c)
  <2>1. /\ Killed(basis[c]) \in States /\ Save(c, Killed(basis[c]))
        /\ Applied(basis[c], Killed(basis[c]))
    BY <1>1, <1>3, StateTypes DEF ActivateKillSwitch, Applied
  <2> QED
    BY <2>1
<1>4. CASE ManualReset(c)
  <2>1. PICK clear \in BOOLEAN : Save(c, ManuallyReset(basis[c], clear))
    BY <1>4 DEF ManualReset
  <2>2. ManuallyReset(basis[c], clear) \in States /\ Applied(basis[c], ManuallyReset(basis[c], clear))
    BY <1>1, StateTypes DEF Applied
  <2> QED
    BY <2>1, <2>2
<1> QED
  BY <1>2, <1>3, <1>4
\* Every step keeps the invariant.
LEMMA NextBreaker == BreakerInv /\ [CircuitNext]_circuitVars => BreakerInv'
<1> SUFFICES ASSUME BreakerInv, [CircuitNext]_circuitVars PROVE BreakerInv'
  OBVIOUS
<1>0. saved \in Seq(States) /\ Len(saved) \in Nat
  BY DEF BreakerInv, TypeOK
<1>1. CASE UNCHANGED circuitVars
  BY <1>1 DEF BreakerInv, TypeOK, BasisInv, circuitVars, local
<1>2. CASE Tick
  BY <1>2 DEF BreakerInv, TypeOK, BasisInv, Tick, local
<1>3. ASSUME NEW c \in Callers, Call(c) PROVE BreakerInv'
  <2>1. TypeOK'
    BY <1>3 DEF BreakerInv, TypeOK, Call, Operations
  <2>2. BasisInv'
    BY <1>3 DEF BreakerInv, TypeOK, BasisInv, Call
  <2> QED
    BY <2>1, <2>2 DEF BreakerInv
<1>4. ASSUME NEW c \in Callers, Load(c) PROVE BreakerInv'
  <2>1. FreshState(now[c]) \in States /\ (saved # <<>> => saved[Len(saved)] \in States)
    BY <1>0, StateTypes DEF BreakerInv, TypeOK
  <2>2. TypeOK'
    BY <1>0, <1>4, <2>1 DEF BreakerInv, TypeOK, Load, Holding
  <2>3. ~OutOfPeriod(FreshState(now[c]), now[c])
    BY <1>4, KeyTypes DEF BreakerInv, TypeOK, OutOfPeriod, FreshState, State, Period
  <2>4. saved # <<>> => Len(saved) > 0
    BY <1>0
  <2>5. BasisInv'
    BY <1>0, <1>4, <2>3, <2>4 DEF BreakerInv, TypeOK, BasisInv, Load, Holding
  <2> QED
    BY <2>2, <2>5 DEF BreakerInv
<1>5. ASSUME NEW c \in Callers, Roll(c) PROVE BreakerInv'
  <2>1. basis[c] \in States /\ now[c] \in Times
    BY <1>5, HeldState DEF Roll, BreakerInv, TypeOK
  <2>2. Rolled(basis[c], now[c]) \in States /\ ~OutOfPeriod(Rolled(basis[c], now[c]), now[c])
    BY <2>1, StateTypes, RolledInPeriod
  <2> DEFINE s == Rolled(basis[c], now[c])
  <2> HIDE DEF s
  <2>3. /\ saved' \in Seq(States) /\ Len(saved') = Len(saved) + 1 /\ saved'[Len(saved) + 1] = s
        /\ \A i \in 1..Len(saved) : saved'[i] = saved[i]
    BY <1>0, <1>5, <2>2, SaveKeepsRows DEF Roll, s
  <2>4. TypeOK'
    BY <1>0, <1>5, <2>2, <2>3 DEF BreakerInv, TypeOK, Roll, Holding
  <2>5. BasisInv'
    BY <1>0, <1>5, <2>2, <2>3 DEF BreakerInv, TypeOK, BasisInv, Roll, Holding, s
  <2> QED
    BY <2>4, <2>5 DEF BreakerInv
<1>6. ASSUME NEW c \in Callers, Conflict(c) \/ Get(c) \/ CallerCrash(c) PROVE BreakerInv'
  BY <1>0, <1>6, ReturnTypes DEF Conflict, Get, CallerCrash
<1>7. ASSUME NEW c \in Callers, Evaluate(c) \/ ActivateKillSwitch(c) \/ ManualReset(c)
      PROVE  BreakerInv'
  <2>1. Return(c) /\ basis[c] \in States /\ step[c] = "apply"
    BY <1>7, HeldState DEF Evaluate, ActivateKillSwitch, ManualReset
  <2>2. UNCHANGED saved \/ \E s \in States : Save(c, s)
    BY <1>7, ApplySaves
  <2>3. CASE UNCHANGED saved
    BY <1>0, <2>1, <2>3, ReturnTypes
  <2>4. ASSUME NEW s \in States, Save(c, s) PROVE BreakerInv'
    BY <1>0, <2>1, <2>4, SaveKeepsRows, ReturnTypes
  <2> QED
    BY <2>2, <2>3, <2>4
<1> QED
  BY <1>1, <1>2, <1>3, <1>4, <1>5, <1>6, <1>7 DEF CircuitNext

\* The invariant holds throughout.
THEOREM BreakerInvariance == CircuitSpec => []BreakerInv
BY InitBreaker, NextBreaker, PTL DEF CircuitSpec

-----------------------------------------------------------------------------
(***************************************************************************)
(* What a step does to the newest row.                                     *)
(***************************************************************************)

\* The state get() finds at time t.
Found(t) == IF saved = <<>> THEN FreshState(t) ELSE Latest

\* A row that is saved was computed from the newest row.
LEMMA SavedFromLatest ==
    ASSUME BreakerInv, CircuitNext
    PROVE  \/ UNCHANGED saved
           \/ \E t \in Times :
                 \/ /\ saved # <<>> /\ OutOfPeriod(Latest, t)
                    /\ saved' = Append(saved, Rolled(Latest, t))
                 \/ /\ ~OutOfPeriod(Found(t), t) /\ Found(t) \in States
                    /\ \E x \in States : Applied(Found(t), x) /\ saved' = Append(saved, x)
<1>1. CASE \E c \in Callers : Roll(c)
  <2>1. PICK c \in Callers : Roll(c)
    BY <1>1
  <2>2. /\ now[c] \in Times /\ step[c] = "roll" /\ version[c] = Len(saved) /\ version[c] > 0
        /\ OutOfPeriod(basis[c], now[c]) /\ saved' = Append(saved, Rolled(basis[c], now[c]))
    BY <2>1 DEF Roll, Save, BreakerInv, TypeOK, BasisInv
  <2>3. saved # <<>>
    BY <2>2 DEF BreakerInv, TypeOK
  <2>4. basis[c] = Latest
    BY <2>2, <2>3, HeldState
  <2> QED
    BY <2>2, <2>3, <2>4
<1>2. CASE \E c \in Callers : Evaluate(c) \/ ActivateKillSwitch(c) \/ ManualReset(c)
  <2>1. PICK c \in Callers : Evaluate(c) \/ ActivateKillSwitch(c) \/ ManualReset(c)
    BY <1>2
  <2>2. CASE UNCHANGED saved
    BY <2>2
  <2>3. CASE \E x \in States : Applied(basis[c], x) /\ Save(c, x)
    <3>1. PICK x \in States : Applied(basis[c], x) /\ Save(c, x)
      BY <2>3
    <3>2. step[c] = "apply" /\ now[c] \in Times /\ ~OutOfPeriod(basis[c], now[c])
      BY <2>1 DEF Evaluate, ActivateKillSwitch, ManualReset, BreakerInv, TypeOK, BasisInv
    <3>3. basis[c] = Found(now[c]) /\ basis[c] \in States
      BY <3>1, <3>2, HeldState DEF Save, Found
    <3> QED
      BY <3>1, <3>2, <3>3 DEF Save
  <2> QED
    BY <2>1, <2>2, <2>3, ApplySaves
<1>3. CASE Tick
  BY <1>3 DEF Tick
<1>4. CASE \E c \in Callers : Call(c) \/ Load(c) \/ Conflict(c) \/ Get(c) \/ CallerCrash(c)
  BY <1>4 DEF Call, Load, Conflict, Get, CallerCrash
<1> QED
  BY <1>1, <1>2, <1>3, <1>4 DEF CircuitNext

\* The newest row after a save is the saved one.
LEMMA LatestAfterSave ==
    ASSUME BreakerInv, NEW x \in States, saved' = Append(saved, x)
    PROVE  Latest' = x /\ Latest' # Absent
<1>1. saved \in Seq(States) /\ Len(saved) \in Nat
  BY DEF BreakerInv, TypeOK
<1>2. saved' # <<>> /\ saved'[Len(saved')] = x
  BY <1>1
<1> QED
  BY <1>2, AbsentAssumption DEF Latest

\* Without a row there is no newest state, and with one it is a state.
LEMMA LatestType ==
    ASSUME BreakerInv PROVE (saved = <<>> <=> Latest = Absent) /\ (saved # <<>> => Latest \in States)
<1>1. saved \in Seq(States)
  BY DEF BreakerInv, TypeOK
<1>2. saved # <<>> => saved[Len(saved)] \in States
  BY <1>1
<1> QED
  BY <1>2, AbsentAssumption DEF Latest

-----------------------------------------------------------------------------
(***************************************************************************)
(* Theorems.                                                               *)
(***************************************************************************)

\* The operators of the serial specification are those of the breaker.
LEMMA SerialOperators ==
    /\ \A t : Serial!FreshState(t) = FreshState(t)
    /\ \A s, t : Serial!Rolled(s, t) = Rolled(s, t) /\ Serial!OutOfPeriod(s, t) = OutOfPeriod(s, t)
    /\ \A s, a : Serial!Evaluated(s, a) = Evaluated(s, a)
    /\ \A s : Serial!Killed(s) = Killed(s)
    /\ \A s, clear : Serial!ManuallyReset(s, clear) = ManuallyReset(s, clear)
BY DEF Serial!FreshState, FreshState, Serial!Rolled, Rolled, Serial!OutOfPeriod, OutOfPeriod,
       Serial!Evaluated, Evaluated, Serial!WithLosses, WithLosses, Serial!Breached, Breached,
       Serial!Killed, Killed, Serial!ManuallyReset, ManuallyReset, Serial!State, State,
       Serial!Period, Period, Serial!DayKey, DayKey, Serial!WeekKey, WeekKey,
       Serial!LossLocks, LossLocks

\* The saves of all callers are serial: the newest row changes as if each
\* operation of evaluate(), get() and manual_reset() were one atomic step.
THEOREM SerialRefinement == CircuitSpec => ImplementsSerial
<1>1. CircuitInit => Serial!SerialInit
  BY DEF CircuitInit, Serial!SerialInit, Latest
<1>2. BreakerInv /\ [CircuitNext]_circuitVars => [Serial!SerialNext]_Latest
  <2> SUFFICES ASSUME BreakerInv, [CircuitNext]_circuitVars, Latest' # Latest PROVE Serial!SerialNext
    OBVIOUS
  <2>1. CircuitNext
    BY DEF circuitVars, local, Latest
  <2>2. saved' # saved
    BY DEF Latest
  <2>3. PICK t \in Times :
           \/ /\ saved # <<>> /\ OutOfPeriod(Latest, t)
              /\ saved' = Append(saved, Rolled(Latest, t))
           \/ /\ ~OutOfPeriod(Found(t), t) /\ Found(t) \in States
              /\ \E x \in States : Applied(Found(t), x) /\ saved' = Append(saved, x)
    BY <2>1, <2>2, SavedFromLatest
  <2>4. CASE saved # <<>> /\ OutOfPeriod(Latest, t) /\ saved' = Append(saved, Rolled(Latest, t))
    <3>1. Latest \in States /\ Latest # Absent
      BY <2>4, LatestType
    <3>2. Latest' = Rolled(Latest, t)
      BY <2>4, <3>1, StateTypes, LatestAfterSave
    <3>3. Serial!RollSerially(t)
      BY <2>4, <3>1, <3>2, SerialOperators DEF Serial!RollSerially
    <3> QED
      BY <3>3 DEF Serial!SerialNext
  <2>5. CASE /\ ~OutOfPeriod(Found(t), t) /\ Found(t) \in States
             /\ \E x \in States : Applied(Found(t), x) /\ saved' = Append(saved, x)
    <3>1. PICK x \in States : Applied(Found(t), x) /\ saved' = Append(saved, x)
      BY <2>5
    <3>2. Latest' = x
      BY <3>1, LatestAfterSave
    <3>3. Serial!Current(t) = Found(t)
      BY LatestType, SerialOperators DEF Serial!Current, Found
    <3>4. Serial!ApplySerially(t)
      BY <2>5, <3>1, <3>2, <3>3, SerialOperators DEF Serial!ApplySerially, Applied
    <3> QED
      BY <3>4 DEF Serial!SerialNext
  <2> QED
    BY <2>3, <2>4, <2>5
<1> QED
  BY <1>1, <1>2, BreakerInvariance, PTL DEF CircuitSpec, ImplementsSerial, Serial!SerialSpec

\* A change of the newest row is one operation on that row.
LEMMA NewestChanges ==
    ASSUME BreakerInv, CircuitNext, Latest # Absent, Latest' # Latest
    PROVE  /\ Latest \in States
           /\ Applied(Latest, Latest') \/ \E t \in Times : Latest' = Rolled(Latest, t)
<1>1. saved # <<>> /\ Latest \in States /\ saved' # saved
  BY LatestType DEF Latest
<1>2. PICK t \in Times :
         \/ saved' = Append(saved, Rolled(Latest, t))
         \/ \E x \in States : Applied(Latest, x) /\ saved' = Append(saved, x)
  BY <1>1, SavedFromLatest DEF Found
<1>3. CASE saved' = Append(saved, Rolled(Latest, t))
  BY <1>1, <1>3, StateTypes, LatestAfterSave
<1>4. CASE \E x \in States : Applied(Latest, x) /\ saved' = Append(saved, x)
  BY <1>1, <1>4, LatestAfterSave
<1> QED
  BY <1>2, <1>3, <1>4

\* A drawdown lock leaves the newest row only by a manual reset.
THEOREM DrawdownLatchedHolds == CircuitSpec => DrawdownLatched
<1> DEFINE A == /\ Latest # Absent /\ Latest' # Latest
                /\ Latest.locks \cap {"account", "manual"} # {}
                => \/ Latest.locks \cap {"account", "manual"} \subseteq Latest'.locks
                   \/ Latest'.reason = {"reset"}
<1>1. BreakerInv /\ [CircuitNext]_circuitVars => [A]_circuitVars
  <2> SUFFICES ASSUME BreakerInv, CircuitNext, Latest # Absent, Latest' # Latest
               PROVE  \/ Latest.locks \cap {"account", "manual"} \subseteq Latest'.locks
                      \/ Latest'.reason = {"reset"}
    OBVIOUS
  <2>1. CASE Applied(Latest, Latest')
    BY <2>1 DEF Applied, Evaluated, WithLosses, Killed, ManuallyReset, State
  <2>2. CASE \E t \in Times : Latest' = Rolled(Latest, t)
    BY <2>2 DEF Rolled, State
  <2> QED
    BY <2>1, <2>2, NewestChanges
<1> QED
  BY <1>1, BreakerInvariance, PTL DEF CircuitSpec, DrawdownLatched

\* While the newest row stays in its day, or in its week, the loss lock of that period
\* is lifted by manual_reset() only, however the callers overlap and whichever clock
\* they read.
THEOREM LossLocksHeldInPeriodHolds == CircuitSpec => LossLocksHeldInPeriod
<1> DEFINE A == /\ Latest # Absent /\ Latest' # Latest /\ Latest'.reason # {"reset"}
                => /\ ("daily" \in Latest.locks /\ Latest'.day = Latest.day)
                          => "daily" \in Latest'.locks
                   /\ ("weekly" \in Latest.locks /\ Latest'.week = Latest.week)
                          => "weekly" \in Latest'.locks
<1>1. BreakerInv /\ [CircuitNext]_circuitVars => [A]_circuitVars
  <2> SUFFICES ASSUME BreakerInv, CircuitNext, Latest # Absent, Latest' # Latest,
                      Latest'.reason # {"reset"}
               PROVE  /\ ("daily" \in Latest.locks /\ Latest'.day = Latest.day)
                             => "daily" \in Latest'.locks
                      /\ ("weekly" \in Latest.locks /\ Latest'.week = Latest.week)
                             => "weekly" \in Latest'.locks
    OBVIOUS
  <2>1. CASE Applied(Latest, Latest')
    BY <2>1 DEF Applied, Evaluated, WithLosses, Killed, ManuallyReset, State
  <2>2. CASE \E t \in Times : Latest' = Rolled(Latest, t)
    BY <2>2 DEF Rolled, State, Period
  <2> QED
    BY <2>1, <2>2, NewestChanges
<1> QED
  BY <1>1, BreakerInvariance, PTL DEF CircuitSpec, LossLocksHeldInPeriod

\* The account lock and the manual re-enablement are set and lifted together.
THEOREM DrawdownNeedsManualHolds == CircuitSpec => []DrawdownNeedsManual
<1>1. CircuitInit => DrawdownNeedsManual
  BY DEF CircuitInit, DrawdownNeedsManual, Latest
<1>2. BreakerInv /\ DrawdownNeedsManual /\ [CircuitNext]_circuitVars => DrawdownNeedsManual'
  <2> SUFFICES ASSUME BreakerInv, DrawdownNeedsManual, [CircuitNext]_circuitVars
               PROVE  DrawdownNeedsManual'
    OBVIOUS
  <2>1. CASE UNCHANGED saved
    BY <2>1 DEF DrawdownNeedsManual, Latest
  <2>2. CASE saved' # saved
    <3>1. CircuitNext
      BY <2>2 DEF circuitVars
    <3>2. PICK t \in Times :
             \/ saved # <<>> /\ saved' = Append(saved, Rolled(Latest, t))
             \/ /\ Found(t) \in States
                /\ \E x \in States : Applied(Found(t), x) /\ saved' = Append(saved, x)
      BY <2>2, <3>1, SavedFromLatest
    <3>3. "account" \in Found(t).locks => "manual" \in Found(t).locks
      BY LatestType DEF Found, DrawdownNeedsManual, FreshState, State
    <3>4. CASE saved # <<>> /\ saved' = Append(saved, Rolled(Latest, t))
      <4>1. Latest' = Rolled(Latest, t)
        BY <3>4, LatestType, StateTypes, LatestAfterSave
      <4> QED
        BY <3>3, <3>4, <4>1 DEF DrawdownNeedsManual, Found, Rolled, State
    <3>5. CASE \E x \in States : Applied(Found(t), x) /\ saved' = Append(saved, x)
      <4>1. PICK x \in States : Applied(Found(t), x) /\ saved' = Append(saved, x)
        BY <3>5
      <4>2. Latest' = x
        BY <4>1, LatestAfterSave
      <4>3. "account" \in x.locks => "manual" \in x.locks
        BY <3>3, <4>1 DEF Applied, Evaluated, WithLosses, Killed, ManuallyReset, State, LossLocks
      <4> QED
        BY <4>2, <4>3 DEF DrawdownNeedsManual
    <3> QED
      BY <3>2, <3>4, <3>5
  <2> QED
    BY <2>1, <2>2
<1> QED
  BY <1>1, <1>2, BreakerInvariance, PTL DEF CircuitSpec

-----------------------------------------------------------------------------
(***************************************************************************)
(* RuntimeControls. A state travels from the memory of a process to a      *)
(* captured payload, to a row and back at a restart, and the worker writes *)
(* rows of its own: the invariant follows it on its way.                   *)
(***************************************************************************)

\* A record of controls that DurableRuntimeState accepts.
Loadable(c) ==
    /\ c = [mode |-> c.mode, kill |-> c.kill, disabled |-> c.disabled]
    /\ c.disabled \in BOOLEAN
    /\ ~(c.disabled /\ c.mode = "AUTO")

\* Every copy of the controls can be loaded: in memory, captured by a request that
\* is about to select or to commit, in a row, and prepared by the worker.
LoadableInv ==
    /\ memory = [p \in Processes |-> memory[p]]
    /\ pc \in [Tasks -> {"idle", "reset", "capture", "select", "commit"}]
    /\ captured = [t \in Tasks |-> captured[t]]
    /\ \A p \in Processes : Loadable(memory[p])
    /\ \A r \in active : Loadable(r.state)
    /\ \A t \in Tasks : pc[t] = "select" => Loadable(captured[t])
    /\ \A t \in Tasks : pc[t] = "commit" => Loadable(captured[t].state)
    /\ Loadable(latched.state)

\* A task is a request of one of the processes.
LEMMA TaskOfProcess == ASSUME NEW t \in Tasks PROVE t[1] \in Processes
BY DEF Tasks

\* The settings never combine AUTO with a latch.
LEMMA DefaultLoads == Loadable(Default)
BY ModeAssumption DEF Loadable, Default

\* Memory and rows start with the settings.
LEMMA InitLoadable == Init => LoadableInv
BY DefaultLoads DEF Init, LoadableInv, Loadable

\* A request changes the memory of its process to controls that can be loaded.
LEMMA ChangeLoadable ==
    ASSUME LoadableInv, NEW t \in Tasks, NEW controls, NEW request, NEW next \in {"capture", "reset"},
           Loadable(controls), Change(t, controls, request, next)
    PROVE  LoadableInv'
<1>1. /\ memory' = [memory EXCEPT ![t[1]] = controls] /\ pc' = [pc EXCEPT ![t] = next]
      /\ UNCHANGED <<active, captured, latched>>
  BY DEF Change, Goto, worker
<1> QED
  BY <1>1, TaskOfProcess DEF LoadableInv, Loadable

\* Every step of a request, of the worker and of a restart passes on controls that
\* can be loaded.
LEMMA NextLoadable == LoadableInv /\ [Next]_vars => LoadableInv'
<1> SUFFICES ASSUME LoadableInv, [Next]_vars PROVE LoadableInv'
  OBVIOUS
<1>1. ASSUME NEW t \in Tasks, Request(t) PROVE LoadableInv'
  <2>1. t[1] \in Processes /\ Loadable(memory[t[1]])
    BY TaskOfProcess DEF LoadableInv
  <2>2. CASE ChangeMode(t)
    <3>1. PICK m \in Modes : /\ ValidMode(t[1], m)
                             /\ Change(t, [memory[t[1]] EXCEPT !.mode = m], "mode", "capture")
      BY <2>2 DEF ChangeMode
    <3>2. Loadable([memory[t[1]] EXCEPT !.mode = m])
      BY <2>1, <3>1 DEF ValidMode, Loadable
    <3> QED
      BY <3>1, <3>2, ChangeLoadable
  <2>3. CASE SetKillSwitch(t)
    <3>1. PICK on \in BOOLEAN : Change(t, [memory[t[1]] EXCEPT !.kill = on],
                                        IF on THEN "kill" ELSE "unkill", "capture")
      BY <2>3 DEF SetKillSwitch
    <3>2. Loadable([memory[t[1]] EXCEPT !.kill = on])
      BY <2>1, <3>1 DEF Loadable
    <3> QED
      BY <3>1, <3>2, ChangeLoadable
  <2>4. CASE ResetCircuit(t)
    <3> DEFINE reset == [mode |-> "SIGNAL", kill |-> memory[t[1]].kill, disabled |-> FALSE]
    <3>1. Loadable(reset)
      BY DEF Loadable
    <3>2. Change(t, reset, "reset", "reset")
      BY <2>4 DEF ResetCircuit
    <3> HIDE DEF reset
    <3> QED
      BY <3>1, <3>2, ChangeLoadable
  <2> QED
    BY <1>1, <2>2, <2>3, <2>4 DEF Request
<1>2. ASSUME NEW t \in Tasks, CallManualReset(t) \/ ResetConflict(t) PROVE LoadableInv'
  BY <1>2 DEF CallManualReset, ResetConflict, Goto, worker, LoadableInv
<1>3. ASSUME NEW t \in Tasks, Capture(t) PROVE LoadableInv'
  BY <1>3, TaskOfProcess DEF Capture, Goto, worker, LoadableInv
<1>4. ASSUME NEW t \in Tasks, Select(t) PROVE LoadableInv'
  <2>1. /\ captured' = [captured EXCEPT ![t] = [state |-> captured[t], at |-> stamp + 1]]
        /\ pc' = [pc EXCEPT ![t] = "commit"] /\ pc[t] = "select"
        /\ UNCHANGED <<memory, active, latched>>
    BY <1>4 DEF Select, Goto, worker
  <2>2. ASSUME NEW u \in Tasks, pc'[u] = "commit" PROVE Loadable(captured'[u].state)
    BY <2>1, <2>2 DEF LoadableInv
  <2> QED
    BY <2>1, <2>2 DEF LoadableInv
<1>5. ASSUME NEW t \in Tasks, Commit(t) PROVE LoadableInv'
  BY <1>5 DEF Commit, Goto, worker, LoadableInv
<1>6. ASSUME NEW t \in Tasks, CommitFails(t) PROVE LoadableInv'
  BY <1>6 DEF CommitFails, Goto, worker, LoadableInv
<1>7. ASSUME NEW p \in Processes, Restart(p) PROVE LoadableInv'
  <2>1. PICK m : Loadable(m) /\ memory' = [memory EXCEPT ![p] = m]
    BY <1>7, DefaultLoads DEF Restart, LoadableInv
  <2>2. /\ pc' = [t \in Tasks |-> IF t[1] = p THEN "idle" ELSE pc[t]]
        /\ captured' = [t \in Tasks |-> IF t[1] = p THEN Default ELSE captured[t]]
        /\ UNCHANGED <<active, latched>>
    BY <1>7 DEF Restart, Stopped, worker
  <2> QED
    BY <2>1, <2>2 DEF LoadableInv, Loadable
<1>8. CASE Worker
  <2>1. CASE SnapshotRisk \/ LatchSelect
    BY <2>1 DEF SnapshotRisk, LatchSelect, api, LoadableInv
  <2>2. CASE LatchRead
    <3>1. UNCHANGED <<memory, pc, captured, active>>
      BY <2>2 DEF LatchRead, api
    <3>2. Loadable(latched'.state)
      <4>1. CASE LatchDone
        BY <4>1 DEF LatchDone, LoadableInv
      <4>2. CASE LatchPrepared
        BY <4>2 DEF LatchPrepared, Loadable
      <4> QED
        BY <2>2, <4>1, <4>2 DEF LatchRead
    <3> QED
      BY <3>1, <3>2 DEF LoadableInv
  <2>3. CASE LatchCommit
    BY <2>3 DEF LatchCommit, api, LoadableInv
  <2> QED
    BY <1>8, <2>1, <2>2, <2>3 DEF Worker
<1>9. CASE Market \/ UNCHANGED vars
  BY <1>9 DEF Market, vars, api, worker, LoadableInv
<1> QED
  BY <1>1, <1>2, <1>3, <1>4, <1>5, <1>6, <1>7, <1>8, <1>9 DEF Next, Serve, Fault

\* Neither an API process nor a row ever combines AUTO with the drawdown latch,
\* whatever requests, commits, latches and restarts interleave.
THEOREM NeverAutoWhileLatchedHolds == Spec => []NeverAutoWhileLatched
<1>1. LoadableInv => NeverAutoWhileLatched
  BY DEF LoadableInv, Loadable, NeverAutoWhileLatched
<1> QED
  BY <1>1, InitLoadable, NextLoadable, PTL DEF Spec

-----------------------------------------------------------------------------
\* What a quiet API keeps, while one task t serves the requests and the worker
\* latched nothing: at most one row is active and a request about to commit has
\* selected it; a kill switch that was answered is in that row, in the memory of
\* the process, and in what the request is about to store.
Quiet(t) ==
    /\ \A u \in Tasks \ {t} : pc[u] = "idle"
    /\ \A r, s \in active : r = s
    /\ pc[t] = "commit" => seen[t] = active
    /\ pulled => /\ active # {} /\ \A r \in active : r.state.kill
                 /\ memory[t[1]].kill
                 /\ pc[t] = "select" => captured[t].kill
                 /\ pc[t] = "commit" => captured[t].state.kill

\* The time stamps are numbers, and a latch that is under way has drawn one.
StampInv ==
    /\ stamp \in Nat /\ latched.at \in Nat
    /\ \A r \in active : r.at \in Nat
    /\ \A t \in Tasks : pc[t] = "commit" => captured[t].at \in Nat
    /\ latch \in {"select", "commit"} => latched.at > 0

\* The functions of the tasks and the processes, and the boolean variable.
ShapeInv ==
    /\ memory = [p \in Processes |-> memory[p]]
    /\ pc = [t \in Tasks |-> pc[t]]
    /\ captured = [t \in Tasks |-> captured[t]]
    /\ seen = [t \in Tasks |-> seen[t]]
    /\ pulled \in BOOLEAN

QuietInv ==
    /\ ShapeInv /\ StampInv
    /\ \A t \in Tasks : load = {t} /\ latched.at = 0 => Quiet(t)

\* No row is active at the start.
LEMMA InitQuiet == Init => QuietInv
<1> SUFFICES ASSUME Init PROVE QuietInv
  OBVIOUS
<1>1. ShapeInv /\ StampInv
  BY DEF Init, ShapeInv, StampInv
<1>2. ASSUME NEW t \in Tasks PROVE Quiet(t)
  BY DEF Init, Quiet
<1> QED
  BY <1>1, <1>2 DEF QuietInv

\* The shapes and the time stamps are kept by every step.
LEMMA NextStamps == ShapeInv /\ StampInv /\ [Next]_vars => ShapeInv' /\ StampInv'
<1> SUFFICES ASSUME ShapeInv, StampInv, [Next]_vars PROVE ShapeInv' /\ StampInv'
  OBVIOUS
<1> USE DEF ShapeInv, StampInv
<1>1. ASSUME NEW t \in Tasks, Request(t) PROVE ShapeInv' /\ StampInv'
  <2>1. PICK controls, request, next :
           next \in {"capture", "reset"} /\ Change(t, controls, request, next)
    BY <1>1 DEF Request, ChangeMode, SetKillSwitch, ResetCircuit
  <2> QED
    BY <2>1 DEF Change, Goto, worker
<1>2. ASSUME NEW t \in Tasks, CallManualReset(t) \/ ResetConflict(t) PROVE ShapeInv' /\ StampInv'
  BY <1>2 DEF CallManualReset, ResetConflict, Goto, worker
<1>3. ASSUME NEW t \in Tasks, Capture(t) PROVE ShapeInv' /\ StampInv'
  BY <1>3 DEF Capture, Goto, worker
<1>4. ASSUME NEW t \in Tasks, Select(t) PROVE ShapeInv' /\ StampInv'
  <2>1. /\ captured' = [captured EXCEPT ![t] = [state |-> captured[t], at |-> stamp + 1]]
        /\ pc' = [pc EXCEPT ![t] = "commit"] /\ stamp' = stamp + 1
        /\ seen' = [seen EXCEPT ![t] = active]
        /\ UNCHANGED <<memory, pulled, active, latch, latched>>
    BY <1>4 DEF Select, Goto, worker
  <2>2. ASSUME NEW u \in Tasks, pc'[u] = "commit" PROVE captured'[u].at \in Nat
    <3>1. CASE u = t
      <4>1. captured'[t] = [state |-> captured[t], at |-> stamp + 1]
        BY <2>1
      <4> QED
        BY <3>1, <4>1
    <3>2. CASE u # t
      <4>1. captured'[u] = captured[u] /\ pc'[u] = pc[u]
        BY <2>1, <3>2
      <4> QED
        BY <2>2, <4>1
    <3> QED
      BY <3>1, <3>2
  <2>3. stamp' \in Nat
    BY <2>1
  <2> QED
    BY <2>1, <2>2, <2>3
<1>5. ASSUME NEW t \in Tasks, Commit(t) \/ CommitFails(t) PROVE ShapeInv' /\ StampInv'
  BY <1>5 DEF Commit, CommitFails, Goto, worker
<1>6. ASSUME NEW p \in Processes, Restart(p) PROVE ShapeInv' /\ StampInv'
  BY <1>6 DEF Restart, Stopped, worker
<1>7. CASE Worker
  BY <1>7 DEF Worker, SnapshotRisk, LatchRead, LatchDone, LatchPrepared, LatchSelect, LatchCommit, api
<1>8. CASE Market \/ UNCHANGED vars
  BY <1>8 DEF Market, vars, api, worker
<1> QED
  BY <1>1, <1>2, <1>3, <1>4, <1>5, <1>6, <1>7, <1>8 DEF Next, Serve, Fault

\* Nobody but t serves requests, and a worker that latched nothing writes no row:
\* every other step leaves the rows alone.
LEMMA NextQuiet == LoadableInv /\ QuietInv /\ [Next]_vars => QuietInv'
<1> SUFFICES ASSUME LoadableInv, QuietInv, [Next]_vars,
                    NEW t \in Tasks, load' = {t}, latched'.at = 0
             PROVE  Quiet(t)'
  BY NextStamps DEF QuietInv
<1>1. load = {t}
  BY DEF Next, Request, ChangeMode, SetKillSwitch, ResetCircuit, Change, Serve, CallManualReset,
         Capture, Select, Commit, Fault, ResetConflict, CommitFails, Restart, Stopped, Market, Worker,
         SnapshotRisk, LatchRead, LatchSelect, LatchCommit, vars, api
<1>2. latched.at = 0 /\ latch \notin {"select", "commit"}
  <2>1. UNCHANGED latched \/ LatchPrepared
    BY DEF Next, Request, ChangeMode, SetKillSwitch, ResetCircuit, Change, Serve, CallManualReset,
           Capture, Select, Commit, Fault, ResetConflict, CommitFails, Restart, Stopped, Market, Worker,
           SnapshotRisk, LatchRead, LatchSelect, LatchCommit, LatchDone, vars, worker
  <2>2. ~LatchPrepared
    BY DEF LatchPrepared, QuietInv, StampInv
  <2> QED
    BY <2>1, <2>2 DEF QuietInv, StampInv
<1>3. Quiet(t) /\ ShapeInv /\ StampInv /\ t[1] \in Processes
  BY <1>1, <1>2, TaskOfProcess DEF QuietInv
<1>4. ASSUME NEW u \in Tasks, Request(u) PROVE Quiet(t)'
  <2> DEFINE Keeps(controls, request, next) ==
               /\ Change(u, controls, request, next) /\ next \in {"capture", "reset"}
               /\ request # "unkill" /\ memory[u[1]].kill => controls.kill
  <2>0. u[1] \in Processes /\ Loadable(memory[u[1]])
    BY TaskOfProcess DEF LoadableInv
  <2>1. \E controls, request, next : Keeps(controls, request, next)
    <3>1. CASE ChangeMode(u)
      <4>1. PICK m \in Modes : Change(u, [memory[u[1]] EXCEPT !.mode = m], "mode", "capture")
        BY <3>1 DEF ChangeMode
      <4>2. Keeps([memory[u[1]] EXCEPT !.mode = m], "mode", "capture")
        BY <2>0, <4>1 DEF Loadable
      <4> QED
        BY <4>2
    <3>2. CASE SetKillSwitch(u)
      <4>1. PICK on \in BOOLEAN : Change(u, [memory[u[1]] EXCEPT !.kill = on],
                                          IF on THEN "kill" ELSE "unkill", "capture")
        BY <3>2 DEF SetKillSwitch
      <4>2. Keeps([memory[u[1]] EXCEPT !.kill = on], IF on THEN "kill" ELSE "unkill", "capture")
        BY <2>0, <4>1 DEF Loadable
      <4> QED
        BY <4>2
    <3>3. CASE ResetCircuit(u)
      <4> DEFINE reset == [mode |-> "SIGNAL", kill |-> memory[u[1]].kill, disabled |-> FALSE]
      <4>1. Keeps(reset, "reset", "reset")
        BY <3>3 DEF ResetCircuit
      <4> HIDE DEF reset
      <4> QED
        BY <4>1
    <3> QED
      BY <1>4, <3>1, <3>2, <3>3 DEF Request
  <2> HIDE DEF Keeps
  <2>3. PICK controls, request, next : Keeps(controls, request, next)
    BY <2>1
  <2>2. u = t
    BY <1>1, <2>3 DEF Change, Keeps
  <2> QED
    BY <1>3, <2>2, <2>3 DEF Keeps, Change, Goto, Quiet, ShapeInv
<1>5. ASSUME NEW u \in Tasks, Serve(u) \/ Fault(u) PROVE Quiet(t)'
  <2>1. u = t
    BY <1>3, <1>5 DEF Quiet, Serve, CallManualReset, Capture, Select, Commit, Fault, ResetConflict,
                      CommitFails
  <2>2. CASE CallManualReset(t) \/ ResetConflict(t)
    BY <1>3, <2>2 DEF CallManualReset, ResetConflict, Goto, Quiet, ShapeInv
  <2>3. CASE Capture(t)
    BY <1>3, <2>3 DEF Capture, Goto, Quiet, ShapeInv
  <2>4. CASE Select(t)
    BY <1>3, <2>4 DEF Select, Goto, Quiet, ShapeInv
  <2>5. CASE Commit(t)
    BY <1>3, <2>5 DEF Commit, Goto, Quiet, ShapeInv
  <2>6. CASE CommitFails(t)
    BY <1>3, <2>6 DEF CommitFails, Goto, Quiet, ShapeInv
  <2> QED
    BY <1>5, <2>1, <2>2, <2>3, <2>4, <2>5, <2>6 DEF Serve, Fault
<1>6. ASSUME NEW p \in Processes, Restart(p) PROVE Quiet(t)'
  BY <1>3, <1>6 DEF Restart, Stopped, Quiet, ShapeInv
<1>7. CASE Worker
  BY <1>2, <1>3, <1>7 DEF Worker, SnapshotRisk, LatchRead, LatchSelect, LatchCommit, api, Quiet
<1>8. CASE Market \/ UNCHANGED vars
  <2>1. UNCHANGED <<memory, active, pc, captured, seen, pulled>>
    BY <1>8 DEF Market, vars, api
  <2> QED
    BY <1>3, <2>1 DEF Quiet
<1> QED
  BY <1>4, <1>5, <1>6, <1>7, <1>8 DEF Next

\* A kill switch that was answered stays durable through mode changes, failed
\* commits and restarts, while one task serves the requests and the worker has
\* latched nothing.
THEOREM QuietKillSwitchDurableHolds == Spec => []QuietKillSwitchDurable
<1>1. QuietInv => QuietKillSwitchDurable
  <2> SUFFICES ASSUME QuietInv, NEW t \in Tasks, load = {t}, latched.at = 0, pulled
               PROVE  Durable.kill
    BY DEF QuietKillSwitchDurable, KillSwitchDurable
  <2>1. Quiet(t)
    BY DEF QuietInv
  <2>2. PICK r \in active : r.state.kill /\ r.at \in Nat /\ \A s \in active : s = r
    BY <2>1 DEF Quiet, QuietInv, StampInv
  <2>3. \A s \in active : s.at <= r.at
    BY <2>2
  <2> QED
    BY <2>2, <2>3 DEF Durable
<1> QED
  BY <1>1, InitLoadable, NextLoadable, InitQuiet, NextQuiet, PTL DEF Spec

-----------------------------------------------------------------------------
(***************************************************************************)
(* ConfigUpdates. The copy of the API, the requests and the rows are       *)
(* followed for the risk configuration; for the strategy the unique key    *)
(* suffices.                                                               *)
(***************************************************************************)

IsASequence(s) == \E S : s \in Seq(S)

\* A complete configuration whose fields are in order.
Ordered(config) ==
    /\ config.values \in [Names -> Nat]
    /\ config.values["low"] <= config.values["middle"]
    /\ config.values["middle"] <= config.values["high"]

\* Every copy of a risk configuration is complete and in order: in memory, in the
\* hands of a request that is about to store it, and in the rows.
RiskInv ==
    /\ subject = "risk"
    /\ current \in 0 .. Len(versions)
    /\ IsASequence(versions)
    /\ Ordered(copy)
    /\ thread = [r \in Requests |-> thread[r]]
    /\ \A r \in Requests : thread[r].pc = "storing" => Ordered(thread[r].config)
    /\ \A i \in 1 .. Len(versions) : Ordered(versions[i])

\* The rows are empty at the start.
LEMMA EmptyRows == IsASequence(<< >>) /\ Len(<< >>) = 0
<1>1. << >> \in Seq({}) /\ Len(<< >>) = 0
  OBVIOUS
<1> QED
  BY <1>1 DEF IsASequence

\* What Append does to a sequence whatever its elements are.
LEMMA Appended ==
    ASSUME NEW s, IsASequence(s), NEW e
    PROVE  /\ IsASequence(Append(s, e)) /\ Len(s) \in Nat /\ DOMAIN s = 1 .. Len(s)
           /\ Len(Append(s, e)) = Len(s) + 1 /\ Append(s, e)[Len(s) + 1] = e
           /\ \A i \in 1 .. Len(s) : Append(s, e)[i] = s[i]
<1>1. PICK S : s \in Seq(S)
  BY DEF IsASequence
<1>2. PICK T : T = S \cup {e}
  OBVIOUS
<1>3. s \in Seq(T) /\ e \in T
  BY <1>1, <1>2
<1>4. Append(s, e) \in Seq(T)
  BY <1>3
<1>5. IsASequence(Append(s, e))
  BY <1>4 DEF IsASequence
<1> QED
  BY <1>3, <1>5

\* A change laid over a complete configuration is complete.
LEMMA UpdatedComplete ==
    ASSUME NEW values \in [Names -> Nat], NEW change \in Changes
    PROVE  Updated(values, change) \in [Names -> Nat] /\ DOMAIN Updated(values, change) = Names
<1>1. PICK d \in SUBSET Names : change \in [d -> Values]
  BY DEF Changes
<1> QED
  BY <1>1, ConfigAssumption DEF Updated

\* Laid over the worker's defaults a complete configuration is itself.
LEMMA CompletePrevails ==
    ASSUME NEW values \in [Names -> Nat] PROVE Updated(Defaults, values) = values
BY DEF Updated, Defaults, Names

\* The settings are in order.
LEMMA DefaultsInOrder == ASSUME subject = "risk" PROVE Ordered(InitialMemory)
BY DEF Ordered, InitialMemory, Defaults, Names, InOrder

\* A step of a request or a restart passes on complete configurations in order.
LEMMA RiskStep == RiskInv /\ [ConfigNext]_configVars => RiskInv'
<1> SUFFICES ASSUME RiskInv, [ConfigNext]_configVars PROVE RiskInv'
  OBVIOUS
<1>1. ASSUME NEW r \in Requests, NEW change \in Changes, Update(r, change) PROVE RiskInv'
  <2>1. Ordered(copy')
    <3>1. copy'.values = Updated(copy.values, change) /\ Relationships(copy.values, change)
      BY <1>1 DEF Update
    <3>2. copy.values \in [Names -> Nat]
      BY DEF RiskInv, Ordered
    <3> QED
      BY <3>1, <3>2, UpdatedComplete DEF RiskInv, Ordered, Relationships, InOrder
  <2>2. /\ thread' = [thread EXCEPT ![r] = [pc |-> "storing", config |-> copy', change |-> change]]
        /\ UNCHANGED <<subject, versions, current>>
    BY <1>1 DEF Update
  <2> QED
    BY <2>1, <2>2 DEF RiskInv
<1>2. ASSUME NEW r \in Requests, Store(r) PROVE RiskInv'
  <2>1. /\ Ordered(thread[r].config) /\ versions' = Append(versions, thread[r].config)
        /\ current' = Len(versions') /\ thread' = [thread EXCEPT ![r] = [pc |-> "idle"]]
        /\ UNCHANGED <<subject, copy>>
    BY <1>2 DEF Store, RiskInv, NoThread
  <2>2. /\ Len(versions') = Len(versions) + 1 /\ versions'[Len(versions) + 1] = thread[r].config
        /\ \A i \in 1 .. Len(versions) : versions'[i] = versions[i]
        /\ IsASequence(versions') /\ Len(versions) \in Nat
    BY <2>1, Appended DEF RiskInv
  <2> QED
    BY <2>1, <2>2 DEF RiskInv
<1>3. ASSUME NEW r \in Requests, StoreFails(r) PROVE RiskInv'
  BY <1>3 DEF StoreFails, NoThread, RiskInv
<1>4. CASE RestartApi
  <2>1. Ordered(copy')
    BY <1>4, DefaultsInOrder DEF RestartApi, RiskInv
  <2> QED
    BY <1>4, <2>1 DEF RestartApi, NoThread, RiskInv
<1>5. CASE Done \/ UNCHANGED configVars
  BY <1>5 DEF Done, configVars, RiskInv
<1> QED
  BY <1>1, <1>2, <1>3, <1>4, <1>5 DEF ConfigNext

\* The worker can build its limits from any row that may be active.
LEMMA RiskBuilds == RiskInv => WorkerCanBuild
<1> SUFFICES ASSUME RiskInv PROVE InOrder(WorkerConfig)
  BY DEF WorkerCanBuild
<1>1. CASE current = 0
  BY <1>1, DefaultsInOrder DEF RiskInv, WorkerConfig, Ordered, InitialMemory, InOrder
<1>2. CASE current # 0
  <2>1. Ordered(versions[current])
    BY <1>2 DEF RiskInv
  <2> QED
    BY <1>2, <2>1, CompletePrevails DEF RiskInv, WorkerConfig, Ordered, InOrder
<1> QED
  BY <1>1, <1>2

\* No two rows of the strategy have the same version.
VersionInv ==
    /\ subject = "strategy"
    /\ IsASequence(versions)
    /\ \A i, j \in 1 .. Len(versions) : versions[i].version = versions[j].version => i = j

\* The unique key refuses a version the API draws again after a restart.
LEMMA VersionStep == VersionInv /\ [ConfigNext]_configVars => VersionInv'
<1> SUFFICES ASSUME VersionInv, [ConfigNext]_configVars PROVE VersionInv'
  OBVIOUS
<1>1. ASSUME NEW r \in Requests, Store(r) PROVE VersionInv'
  <2>1. PICK config : /\ versions' = Append(versions, config) /\ UNCHANGED subject
                      /\ \A i \in DOMAIN versions : versions[i].version # config.version
    BY <1>1 DEF Store, Stored, VersionInv
  <2>2. /\ Len(versions') = Len(versions) + 1 /\ versions'[Len(versions) + 1] = config
        /\ \A i \in 1 .. Len(versions) : versions'[i] = versions[i]
        /\ IsASequence(versions') /\ Len(versions) \in Nat /\ DOMAIN versions = 1 .. Len(versions)
    BY <2>1, Appended DEF VersionInv
  <2> QED
    BY <2>1, <2>2 DEF VersionInv
<1>2. CASE UNCHANGED <<subject, versions>>
  BY <1>2 DEF VersionInv
<1>3. UNCHANGED <<subject, versions>> \/ \E r \in Requests : Store(r)
  BY DEF ConfigNext, Update, StoreFails, RestartApi, Done, configVars
<1> QED
  BY <1>1, <1>2, <1>3

\* After any interleaving of updates, stores, failures and restarts, RiskLimits can
\* be built from the active risk version, and a version of the strategy names one
\* configuration.
THEOREM VersionsUsableHolds == ConfigSpec => []VersionsUsable
<1>1. ConfigInit => RiskInv \/ VersionInv
  BY DefaultsInOrder, EmptyRows DEF ConfigInit, RiskInv, VersionInv, NoThread
<1>2. (RiskInv \/ VersionInv) /\ [ConfigNext]_configVars => RiskInv' \/ VersionInv'
  BY RiskStep, VersionStep
<1>3. RiskInv \/ VersionInv => VersionsUsable
  <2>1. VersionInv => VersionsIdentify
    <3> SUFFICES ASSUME VersionInv PROVE VersionsIdentify
      OBVIOUS
    <3>1. DOMAIN versions = 1 .. Len(versions)
      BY Appended DEF VersionInv
    <3> QED
      BY <3>1 DEF VersionInv, VersionsIdentify
  <2>2. ~(RiskInv /\ subject = "strategy") /\ ~(VersionInv /\ subject = "risk")
    BY DEF RiskInv, VersionInv
  <2> QED
    BY <2>1, <2>2, RiskBuilds DEF VersionsUsable
<1> QED
  BY <1>1, <1>2, <1>3, PTL DEF ConfigSpec

=============================================================================
