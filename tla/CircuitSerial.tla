--------------------------- MODULE CircuitSerial ----------------------------
(***************************************************************************)
(* What the circuit-breaker store promises: the operations of all callers  *)
(* behave as if each read and wrote the state of the account in one step,  *)
(* so that none of them undoes a lock it has not seen.                     *)
(***************************************************************************)
EXTENDS CircuitState

CONSTANTS Absent, Times

VARIABLE circuit   \* the state of the account, Absent before the first save

Current(now) == IF circuit = Absent THEN FreshState(now) ELSE circuit

RollSerially(now) ==
    /\ circuit # Absent
    /\ OutOfPeriod(circuit, now)
    /\ circuit' = Rolled(circuit, now)

ApplySerially(now) ==
    /\ ~OutOfPeriod(Current(now), now)
    /\ \/ \E a \in Accounts : circuit' = Evaluated(Current(now), a)
       \/ circuit' = Killed(Current(now))
       \/ \E clear \in BOOLEAN : circuit' = ManuallyReset(Current(now), clear)

SerialInit == circuit = Absent
SerialNext == \E now \in Times : RollSerially(now) \/ ApplySerially(now)
SerialSpec == SerialInit /\ [][SerialNext]_circuit

=============================================================================
