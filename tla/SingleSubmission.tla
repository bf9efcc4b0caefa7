-------------------------- MODULE SingleSubmission --------------------------
(***************************************************************************)
(* What the execution layer promises about each signal, with no replicas,  *)
(* jobs, leases or crashes: its order is sent at most once, only after the *)
(* intent to send it is durable, and its attempt is concluded at most      *)
(* once, never before the send unless nothing will be sent.                *)
(***************************************************************************)
EXTENDS Integers

CONSTANT Signals

VARIABLES
    status,  \* the durable attempt of each signal
    sent     \* how many orders were sent for each signal

subVars == <<status, sent>>

Unresolved  == {"SUBMITTED", "UNKNOWN"}
Conclusions == {"SUCCEEDED", "PROTECTION_FAILED", "REJECTED"}

SubInit ==
    /\ status = [s \in Signals |-> "NONE"]
    /\ sent = [s \in Signals |-> 0]

Moves(s, from, to) ==
    /\ status[s] \in from
    /\ status' = [status EXCEPT ![s] = to]
    /\ UNCHANGED sent

Claimed(s)    == Moves(s, {"NONE"}, "CLAIMED")
Declined(s)   == Moves(s, {"CLAIMED"}, "REJECTED")
Announced(s)  == Moves(s, {"CLAIMED"}, "SUBMITTED")
Lost(s)       == sent[s] = 1 /\ Moves(s, {"SUBMITTED"}, "UNKNOWN")
Concluded(s)  == sent[s] = 1 /\ \E c \in Conclusions : Moves(s, Unresolved, c)
Submitted(s)  == /\ status[s] = "SUBMITTED" /\ sent[s] = 0
                 /\ sent' = [sent EXCEPT ![s] = 1]
                 /\ UNCHANGED status

SubNext == \E s \in Signals : \/ Claimed(s) \/ Declined(s) \/ Announced(s)
                              \/ Submitted(s) \/ Lost(s) \/ Concluded(s)

SubSpec == SubInit /\ [][SubNext]_subVars

=============================================================================
