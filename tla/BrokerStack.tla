----------------------------- MODULE BrokerStack -----------------------------
(***************************************************************************)
(* The broker port as the engine builds it (build_broker()): retries of    *)
(* reads (app/brokers/retry.py) around one lock (app/brokers/              *)
(* serialized.py) around the in-memory broker (app/brokers/mock.py) with   *)
(* its scripted failures of the send.                                      *)
(*                                                                         *)
(* A call is made by a task; it waits for the lock, runs, releases the     *)
(* lock and, if it was a read that failed, sleeps and tries again.  The    *)
(* delay between two attempts is abstracted to the sleep itself.           *)
(***************************************************************************)
EXTENDS Sums

CONSTANTS
    Clients,           \* concurrent callers of the broker
    Keys,              \* idempotency keys of entries
    Volumes,           \* volumes of entries and closes
    MaximumAttempts,   \* policy.maximum_attempts
    MaxCalls,          \* bound: calls
    MaxFlips           \* bound: changes of the connection

Nobody == "none"

ASSUME StackAssumption ==
    /\ MaximumAttempts \in Nat \ {0}
    /\ Volumes \subseteq Nat \ {0}
    /\ Nobody \notin Clients

Reads     == {"read", "health"}
Mutations == {"market", "pending", "modify", "close", "cancel"}

VARIABLES
    call,        \* call[t]: the operation a task is in
    portLock,    \* the task that holds the lock of SerializedBrokerAdapter
    connected,   \* _connected and _healthy of the mock broker
    reports,     \* _reports: what was accepted, per key
    positions,   \* _positions: open volume per key
    orders,      \* _orders: keys with a pending order
    deals,       \* _deals: <<key, "in" or "out", volume>> in order
    forwarded,   \* ghost, forwarded[t]: calls that reached the broker, up to one too many
    calls, flips

broker == <<reports, positions, orders, deals>>
portVars   == <<call, portLock, connected, broker, forwarded, calls, flips>>

NoCall == [pc |-> "idle"]

Accepted == DOMAIN reports
Open     == {k \in Keys : positions[k] > 0}

PortInit ==
    /\ call = [t \in Clients |-> NoCall] /\ portLock = Nobody /\ connected = TRUE
    /\ reports = << >> /\ positions = [k \in Keys |-> 0] /\ orders = {} /\ deals = << >>
    /\ forwarded = [t \in Clients |-> 0] /\ calls = 0 /\ flips = 0

-----------------------------------------------------------------------------
(* Retries and the lock.                                                   *)

\* A task calls the port; a mutation names a key and a volume.
CallPort(t, op, k, v) ==
    /\ call[t].pc = "idle" /\ calls < MaxCalls
    /\ call' = [call EXCEPT ![t] =
         [pc |-> "waiting", op |-> op, key |-> k, volume |-> v, attempt |-> 1]]
    /\ calls' = calls + 1
    /\ forwarded' = [forwarded EXCEPT ![t] = 0]
    /\ UNCHANGED <<portLock, connected, broker, flips>>

Lock(t) ==
    /\ call[t].pc = "waiting" /\ portLock = Nobody
    /\ portLock' = t
    /\ call' = [call EXCEPT ![t].pc = "running"]
    /\ UNCHANGED <<connected, broker, forwarded, calls, flips>>

\* The operations RetryingBrokerAdapter passes to _read(), connect() among them
Retried(op) == op \in Reads

\* The operation ended at the broker; ok: it did not raise.  The lock is released
\* either way.
OperationEnded(t, ok) ==
    /\ portLock' = Nobody
    /\ forwarded' = [forwarded EXCEPT ![t] = IF @ > MaximumAttempts THEN @ ELSE @ + 1]
    /\ call' = [call EXCEPT ![t].pc =
         IF ~ok /\ Retried(call[t].op) /\ call[t].attempt < MaximumAttempts
         THEN "sleeping" ELSE "returned"]
    /\ UNCHANGED <<connected, calls, flips>>

\* Mutant: the attempts are not counted.
WakeUncounted(t) ==
    /\ call[t].pc = "sleeping"
    /\ call' = [call EXCEPT ![t].pc = "waiting"]
    /\ UNCHANGED <<portLock, connected, broker, forwarded, calls, flips>>

\* The delay is over and _read() tries again.
Wake(t) ==
    /\ call[t].pc = "sleeping"
    /\ call' = [call EXCEPT ![t].pc = "waiting", ![t].attempt = @ + 1]
    /\ UNCHANGED <<portLock, connected, broker, forwarded, calls, flips>>

ReturnToTask(t) ==
    /\ call[t].pc = "returned"
    /\ call' = [call EXCEPT ![t] = NoCall]
    /\ UNCHANGED <<portLock, connected, broker, forwarded, calls, flips>>

-----------------------------------------------------------------------------
(* The mock broker.                                                        *)

Running(t, ops) == call[t].pc = "running" /\ call[t].op \in ops

\* A read raises without a connection; an unhealthy reading of the health is
\* retried like an exception.
Read(t) ==
    /\ Running(t, Reads)
    /\ OperationEnded(t, connected)
    /\ UNCHANGED broker

\* Accepting an order: report, position or pending order, deal.
Accept(k, v, pending) ==
    /\ reports' = [x \in Accepted \cup {k} |-> IF x = k THEN v ELSE reports[x]]
    /\ IF pending
       THEN orders' = orders \cup {k} /\ UNCHANGED <<positions, deals>>
       ELSE /\ positions' = [positions EXCEPT ![k] = @ + v]
            /\ deals' = Append(deals, <<k, "in", v>>)
            /\ UNCHANGED orders

\* Mutant: the report of an order whose reply is lost is not kept.
PlaceForgetful(t, behavior) ==
    LET k == call[t].key
        v == call[t].volume
    IN  /\ Running(t, {"market", "pending"})
        /\ IF k \in Accepted
           THEN OperationEnded(t, TRUE) /\ UNCHANGED broker
           ELSE IF behavior = "TIMEOUT_BEFORE_ACCEPT" \/ behavior = "REJECT" \/ ~connected
           THEN OperationEnded(t, behavior # "TIMEOUT_BEFORE_ACCEPT") /\ UNCHANGED broker
           ELSE IF behavior = "NORMAL"
           THEN OperationEnded(t, TRUE) /\ Accept(k, v, call[t].op = "pending")
           ELSE /\ OperationEnded(t, FALSE)
                /\ positions' = [positions EXCEPT ![k] = @ + v]
                /\ deals' = Append(deals, <<k, "in", v>>)
                /\ UNCHANGED <<reports, orders>>

\* _place(): an accepted key gets its report again, a scripted time-out raises
\* before or after the acceptance, a rejection is returned.
Place(t, behavior) ==
    LET k == call[t].key
        v == call[t].volume
    IN  /\ Running(t, {"market", "pending"})
        /\ IF k \in Accepted
           THEN OperationEnded(t, TRUE) /\ UNCHANGED broker
           ELSE IF behavior = "TIMEOUT_BEFORE_ACCEPT" \/ behavior = "REJECT" \/ ~connected
           THEN OperationEnded(t, behavior # "TIMEOUT_BEFORE_ACCEPT") /\ UNCHANGED broker
           ELSE /\ OperationEnded(t, behavior # "TIMEOUT_AFTER_ACCEPT")
                /\ Accept(k, v, call[t].op = "pending")

\* modify_position() and cancel_order()
Modify(t) ==
    /\ Running(t, {"modify"})
    /\ OperationEnded(t, connected)
    /\ UNCHANGED broker

Cancel(t) ==
    /\ Running(t, {"cancel"})
    /\ OperationEnded(t, connected)
    /\ orders' = IF connected THEN orders \ {call[t].key} ELSE orders
    /\ UNCHANGED <<reports, positions, deals>>

Closable(k, v) == v <= positions[k]

\* close_position(): not found, more than is open (raises), part of it or all
Close(t) ==
    LET k == call[t].key
        v == call[t].volume
        closes == connected /\ k \in Open /\ Closable(k, v)
    IN  /\ Running(t, {"close"})
        /\ OperationEnded(t, connected /\ (k \in Open => Closable(k, v)))
        /\ IF closes
           THEN /\ positions' = [positions EXCEPT ![k] = IF v >= @ THEN 0 ELSE @ - v]
                /\ deals' = Append(deals, <<k, "out", v>>)
                /\ UNCHANGED <<reports, orders>>
           ELSE UNCHANGED broker

\* The connection breaks or comes back.
Flip ==
    /\ flips < MaxFlips
    /\ connected' = ~connected
    /\ flips' = flips + 1
    /\ UNCHANGED <<call, portLock, broker, forwarded, calls>>

-----------------------------------------------------------------------------

Behaviors == {"NORMAL", "REJECT", "TIMEOUT_BEFORE_ACCEPT", "TIMEOUT_AFTER_ACCEPT"}

Step(t) ==
    \/ Lock(t) \/ Wake(t) \/ ReturnToTask(t)
    \/ Read(t) \/ Modify(t) \/ Cancel(t) \/ Close(t)
    \/ \E b \in Behaviors : Place(t, b)

\* The tasks make no more calls.
PortDone ==
    /\ calls = MaxCalls /\ \A t \in Clients : call[t].pc = "idle"
    /\ UNCHANGED portVars

PortNext ==
    \/ \E t \in Clients :
         \/ Step(t)
         \/ \E op \in Reads \cup Mutations, k \in Keys, v \in Volumes : CallPort(t, op, k, v)
    \/ Flip
    \/ PortDone

PortSpec == PortInit /\ [][PortNext]_portVars

-----------------------------------------------------------------------------
(* Properties.                                                             *)

Deals(k, entry) == {i \in DOMAIN deals : deals[i][1] = k /\ deals[i][2] = entry}

\* A key is filled at most once, however often an entry is sent with it by
\* tasks that never saw the reply of the first send.
OneFillPerKey == \A k \in Keys : \A i, j \in Deals(k, "in") : i = j

\* What a deal adds to the position of key k
Booked(d, k) ==
    IF d[1] # k THEN 0 ELSE IF d[2] = "in" THEN d[3] ELSE 0 - d[3]

\* What was closed of a position is what is missing from it: closes of several
\* tasks never take out more than the entry put in.
VolumeConserved ==
    \A k \in Keys :
        /\ Sum([i \in DOMAIN deals |-> Booked(deals[i], k)]) = positions[k]
        /\ positions[k] >= 0

\* A call that changes something at the broker reaches it at most once,
\* whatever happens to its reply; a read at most maximum_attempts times.
ForwardedOnce ==
    \A t \in Clients : call[t].pc # "idle" =>
        forwarded[t] <= IF call[t].op \in Mutations THEN 1 ELSE MaximumAttempts

\* Behind the port a key is filled once, whatever replies are lost; what is missing
\* from a position is what was closed; and RetryingBrokerAdapter forwards a mutation
\* once.
NothingBookedTwice == OneFillPerKey /\ VolumeConserved /\ ForwardedOnce

\* Every call returns to its task, also when the broker is unreachable.
CallsReturn == \A t \in Clients : call[t].pc # "idle" ~> call[t].pc = "idle"

=============================================================================
