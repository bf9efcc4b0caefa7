------------------------------- MODULE Outbox -------------------------------
(***************************************************************************)
(* The transactional outbox: _journal() enqueues an event with the change  *)
(* it reports, and the outbox job (dispatch_outbox() of                    *)
(* app/workers/service.py, claim_outbox() and complete_outbox() of         *)
(* app/workers/persistence.py) claims a batch, delivers each message       *)
(* through app/notifications/telegram.py and records the result.           *)
(*                                                                         *)
(* Time is left out but for its two effects: a retry becomes available,    *)
(* and the lock of a row that is being sent becomes stale.                 *)
(***************************************************************************)
EXTENDS Naturals, FiniteSets

CONSTANTS
    Workers,      \* replicas that dispatch
    NumEvents,    \* bound: how many events are enqueued
    Limit,        \* claim_outbox(limit)
    MaxAttempts,  \* maximum_attempts of TelegramNotifier
    MaxFailures,  \* bound: how many posts fail or workers die
    SlowUsed      \* whether a lock may become stale while its holder works

ASSUME CountAssumption ==
    /\ {NumEvents, Limit, MaxAttempts} \subseteq Nat \ {0}
    /\ MaxFailures \in Nat /\ SlowUsed \in BOOLEAN

Events == 1 .. NumEvents   \* in the order of created_at
NoRow  == [status |-> "none", lock |-> "none", due |-> FALSE]

VARIABLES
    rows,    \* rows[e]: the OutboxEvent
    got,     \* got[e]: how often the recipient got it
    batch,   \* batch[w]: claimed events worker w has not completed
    result,  \* result[w]: "none", "delivered" or "failed", of the first of them
    tries,   \* tries[w]: posts made for it
    failures \* how many failures happened

work == <<batch, result, tries>>
outboxVars == <<rows, got, work, failures>>

OutboxInit ==
    /\ rows = [e \in Events |-> NoRow]
    /\ got = [e \in Events |-> 0]
    /\ batch = [w \in Workers |-> {}]
    /\ result = [w \in Workers |-> "none"]
    /\ tries = [w \in Workers |-> 0]
    /\ failures = 0

OutboxTypeOK ==
    /\ rows \in [Events -> [status : {"none", "PENDING", "SENDING", "PUBLISHED"},
                            lock : {"none", "fresh", "stale"}, due : BOOLEAN]]
    /\ got \in [Events -> Nat]
    /\ batch \in [Workers -> SUBSET Events]
    /\ result \in [Workers -> {"none", "delivered", "failed"}]
    /\ tries \in [Workers -> Nat] /\ failures \in Nat

First(S) == CHOOSE e \in S : \A f \in S : e <= f

-----------------------------------------------------------------------------
\* _journal(): an event is inserted once per deduplication key.
Journal(e) ==
    /\ rows[e].status = "none"
    /\ \A f \in 1 .. (e - 1) : rows[f].status # "none"
    /\ rows' = [rows EXCEPT ![e] = [status |-> "PENDING", lock |-> "none", due |-> TRUE]]
    /\ UNCHANGED <<got, work, failures>>

\* Mutant: a row left behind by a worker that died is not claimed again.
ClaimableFreshOnly == {e \in Events : rows[e].due /\ rows[e].status = "PENDING"}

\* Mutant: a row another worker is sending can be claimed.
ClaimableUnlocked == {e \in Events : rows[e].due /\ rows[e].status \in {"PENDING", "SENDING"}}

\* Due rows that are pending, or whose sender seems to be dead.
Claimable ==
    {e \in Events : rows[e].due /\ \/ rows[e].status = "PENDING"
                                   \/ rows[e].status = "SENDING" /\ rows[e].lock = "stale"}

\* claim_outbox(): the oldest of them, one transaction, FOR UPDATE SKIP LOCKED.
ClaimOutbox(w) ==
    LET claimed == {e \in Claimable : Cardinality({f \in Claimable : f < e}) < Limit}
    IN  /\ batch[w] = {} /\ claimed # {}
        /\ batch' = [batch EXCEPT ![w] = claimed]
        /\ rows' = [e \in Events |-> IF e \in claimed
                                     THEN [status |-> "SENDING", lock |-> "fresh", due |-> rows[e].due]
                                     ELSE rows[e]]
        /\ UNCHANGED <<got, result, tries, failures>>

Posting(w) == batch[w] # {} /\ result[w] = "none"

\* TelegramNotifier.send(): a post that is acknowledged.
Post(w) ==
    /\ Posting(w)
    /\ got' = [got EXCEPT ![First(batch[w])] = @ + 1]
    /\ result' = [result EXCEPT ![w] = "delivered"]
    /\ UNCHANGED <<rows, batch, tries, failures>>

\* NotificationDeliveryError after the last attempt.
Exhausted(w) == result' = [result EXCEPT ![w] = "failed"]

\* A post that fails, before or after the recipient got the message.
PostFails(w) ==
    /\ Posting(w) /\ failures < MaxFailures
    /\ failures' = failures + 1
    /\ \/ UNCHANGED got
       \/ SlowUsed /\ got' = [got EXCEPT ![First(batch[w])] = @ + 1]
    /\ tries' = [tries EXCEPT ![w] = @ + 1]
    /\ IF tries[w] + 1 = MaxAttempts THEN Exhausted(w) ELSE UNCHANGED result
    /\ UNCHANGED <<rows, batch>>

\* complete_outbox(): looks at neither the status nor the lock of the row.
CompleteOutbox(w) ==
    /\ result[w] # "none"
    /\ LET e == First(batch[w])
       IN  /\ rows' = [rows EXCEPT ![e] =
                 IF result[w] = "delivered"
                 THEN [status |-> "PUBLISHED", lock |-> "none", due |-> TRUE]
                 ELSE [status |-> "PENDING", lock |-> "none", due |-> FALSE]]
           /\ batch' = [batch EXCEPT ![w] = @ \ {e}]
    /\ result' = [result EXCEPT ![w] = "none"]
    /\ tries' = [tries EXCEPT ![w] = 0]
    /\ UNCHANGED <<got, failures>>

\* The worker dies, or completing a message raises: the rest of the batch is left.
Die(w) ==
    /\ batch[w] # {} /\ failures < MaxFailures
    /\ failures' = failures + 1
    /\ batch' = [batch EXCEPT ![w] = {}]
    /\ result' = [result EXCEPT ![w] = "none"]
    /\ tries' = [tries EXCEPT ![w] = 0]
    /\ UNCHANGED <<rows, got>>

\* available_at passes.
RetryDue(e) ==
    /\ rows[e].status = "PENDING" /\ ~rows[e].due
    /\ rows' = [rows EXCEPT ![e].due = TRUE]
    /\ UNCHANGED <<got, work, failures>>

\* locked_at is older than stale_after.
LockStale(e) ==
    /\ rows[e].lock = "fresh"
    /\ SlowUsed \/ \A w \in Workers : e \notin batch[w]
    /\ rows' = [rows EXCEPT ![e].lock = "stale"]
    /\ UNCHANGED <<got, work, failures>>

\* claim_outbox() finds nothing to do and dispatch_outbox() returns.
Idle ==
    /\ Claimable = {}
    /\ \A w \in Workers : batch[w] = {}
    /\ UNCHANGED outboxVars

Time    == \E e \in Events : RetryDue(e) \/ LockStale(e)
Work(w) == ClaimOutbox(w) \/ Post(w) \/ CompleteOutbox(w)

OutboxNext ==
    \/ \E e \in Events : Journal(e)
    \/ \E w \in Workers : Work(w) \/ PostFails(w) \/ Die(w)
    \/ Time \/ Idle

OutboxSpec == OutboxInit /\ [][OutboxNext]_outboxVars

-----------------------------------------------------------------------------
(***************************************************************************)
(* Properties.                                                             *)
(***************************************************************************)

\* A row is PUBLISHED only when the recipient got its message.
PublishedWasGot == \A e \in Events : rows[e].status = "PUBLISHED" => got[e] > 0

\* While no lock goes stale under a living holder and no failed post reached the
\* recipient, every delivery after the first is owed to a worker that died between
\* the post and the completion, however many workers claim.
DeliveredOnce == \A e \in Events : got[e] <= 1 + failures

\* complete_outbox() publishes only what was delivered, and no event is delivered
\* twice while batches end within the stale interval, although workers die.
OutboxExact == PublishedWasGot /\ DeliveredOnce

\* Every event is published in the end, for good: a worker that dies between the
\* claim and the completion, a failing channel and a late completion that puts a
\* published row back only delay it.
PublishedInTheEnd == \A e \in Events : rows[e].status # "none" ~> [](rows[e].status = "PUBLISHED")

=============================================================================
