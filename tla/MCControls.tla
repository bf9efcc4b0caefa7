----------------------------- MODULE MCControls -----------------------------
(***************************************************************************)
(* Model-checking instance of the state several processes write: the       *)
(* circuit breaker, the runtime controls, the configurations, the leases   *)
(* and health keys of the jobs, the outbox and the broker behind its port. *)
(* As in MCProgress one part moves in a behaviour; no two share a          *)
(* variable.                                                               *)
(***************************************************************************)
EXTENDS CircuitBreaker, RuntimeControls, ConfigUpdates, WorkerJobs, Outbox, BrokerStack

VARIABLE part

Parts == {"circuit", "runtime", "config", "jobs", "outbox", "port"}

\* A part that does not move is in one of its initial states.
MCInit ==
    /\ part \in Parts
    /\ CircuitInit /\ Init /\ ConfigInit /\ JobsInit /\ OutboxInit /\ PortInit
    /\ part # "runtime" => load = Tasks
    /\ part # "config" => subject = "risk"

MCNext ==
    \/ /\ part = "circuit" /\ CircuitNext
       /\ UNCHANGED <<part, vars, configVars, jobsVars, outboxVars, portVars>>
    \/ /\ part = "runtime" /\ Next
       /\ UNCHANGED <<part, circuitVars, configVars, jobsVars, outboxVars, portVars>>
    \/ /\ part = "config" /\ ConfigNext
       /\ UNCHANGED <<part, circuitVars, vars, jobsVars, outboxVars, portVars>>
    \/ /\ part = "jobs" /\ JobsNext
       /\ UNCHANGED <<part, circuitVars, vars, configVars, outboxVars, portVars>>
    \/ /\ part = "outbox" /\ OutboxNext
       /\ UNCHANGED <<part, circuitVars, vars, configVars, jobsVars, portVars>>
    \/ /\ part = "port" /\ PortNext
       /\ UNCHANGED <<part, circuitVars, vars, configVars, jobsVars, outboxVars>>

MCSpec ==
    MCInit /\ [][MCNext]_<<part, circuitVars, vars, configVars, jobsVars, outboxVars, portVars>>

-----------------------------------------------------------------------------

\* Account readings: within limits; exactly at the daily limit with the open risk;
\* at the weekly limit; at the drawdown limit; no equity left.
Account(e, d, w, o, p) == [equity |-> e, daily |-> d, weekly |-> w, open |-> o, peak |-> p]
MCAccounts == {Account(100, 2, 4, 0, 105), Account(100, 2, 4, 1, 0), Account(100, 0, 7, 0, 105),
               Account(90, 0, 0, 0, 100), Account(0, 0, 0, 0, 100)}

\* Requests to every process, or to one that serves them one after the other.
MCLoads == {Tasks, {<<"p1", 1>>}}

\* Bounds: rows of the breaker's store, rows of the runtime controls, and requests to
\* several processes.
MaxRows     == 3
MaxStamp    == 3
MaxParallel == 2
Bounds ==
    /\ Len(saved) < MaxRows /\ stamp < MaxStamp
    /\ load = Tasks => requests <= MaxParallel

=============================================================================
