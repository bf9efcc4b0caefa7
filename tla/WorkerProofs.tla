---------------------------- MODULE WorkerProofs ----------------------------
(***************************************************************************)
(* Theorems about what the worker stands on: the leases of its jobs, the   *)
(* outbox and the broker port, for any number of replicas, events and      *)
(* calls. Each component has an inductive invariant of its own.            *)
(***************************************************************************)
EXTENDS WorkerJobs, Outbox, BrokerStack, SumsProofs, TLAPS

-----------------------------------------------------------------------------
(***************************************************************************)
(* WorkerJobs. The Redis lease makes a job a singleton: a run whose lease  *)
(* has not ended under it owns the key of its job, and a key has one       *)
(* owner.                                                                  *)
(***************************************************************************)

\* A run that did not lapse owns the key of its job, whatever other holders
\* released, lost or left behind.
Owns == \A x \in running \ lapsed : lock[Job(x)] = x

OwnerInv ==
    /\ running \subseteq Runs
    /\ lock \in [Jobs -> Runs \union {NoToken}]
    /\ Owns

\* The job of a run is one of the jobs.
LEMMA JobInJobs == ASSUME NEW x \in Runs PROVE Job(x) \in Jobs
BY DEF Job, Jobs, Runs

\* No run is the absent token.
LEMMA RunIsAToken == ASSUME NEW x \in Runs PROVE x # NoToken
BY DEF Runs, NoToken

\* No job runs at the start.
LEMMA InitOwner == JobsInit => OwnerInv
BY DEF JobsInit, OwnerInv, Owns

\* A release in run() or at a crash leaves every other owner its key.
LEMMA ReleaseOwner == ASSUME OwnerInv, NEW x \in Runs, x \in running, Release(x) PROVE OwnerInv'
<1>1. Job(x) \in Jobs
  BY JobInJobs
<1>2. running' \subseteq Runs /\ lock' \in [Jobs -> Runs \union {NoToken}]
  BY <1>1 DEF OwnerInv, Release, Released, OneFault
<1>3. ASSUME NEW y \in running' \ lapsed' PROVE lock'[Job(y)] = y
  <2>1. y \in running \ lapsed /\ y # x /\ lock[Job(y)] = y
    BY <1>3 DEF Release, OwnerInv, Owns
  <2>2. y \in Runs /\ Job(y) \in Jobs
    BY <2>1, JobInJobs DEF OwnerInv
  <2>3. CASE Job(y) = Job(x)
    BY <1>1, <2>1, <2>2, <2>3 DEF Release, Released, OwnerInv
  <2>4. CASE Job(y) # Job(x)
    BY <1>1, <2>1, <2>2, <2>4 DEF Release, Released, OwnerInv
  <2> QED
    BY <2>3, <2>4
<1> QED
  BY <1>2, <1>3 DEF OwnerInv, Owns

\* Every step of the schedulers, of Redis and of the processes keeps the owners.
LEMMA NextOwner == OwnerInv /\ [JobsNext]_jobsVars => OwnerInv'
<1> SUFFICES ASSUME OwnerInv, [JobsNext]_jobsVars PROVE OwnerInv'
  OBVIOUS
<1>1. ASSUME NEW x \in Runs, Acquire(x) PROVE OwnerInv'
  <2>1. Job(x) \in Jobs /\ lock[Job(x)] = NoToken
    BY <1>1, JobInJobs DEF Acquire, Free
  <2>2. lock' = [lock EXCEPT ![Job(x)] = x] /\ running' = running \union {x} /\ lapsed' = lapsed
    BY <1>1 DEF Acquire
  <2>3. ASSUME NEW y \in running' \ lapsed' PROVE lock'[Job(y)] = y
    <3>1. CASE y = x
      BY <2>1, <2>2, <3>1 DEF OwnerInv
    <3>2. CASE y # x
      <4>1. y \in running \ lapsed /\ y \in Runs /\ lock[Job(y)] = y
        BY <2>2, <2>3, <3>2 DEF OwnerInv, Owns
      <4>2. Job(y) # Job(x)
        BY <2>1, <4>1, RunIsAToken
      <4> QED
        BY <2>1, <2>2, <4>1, <4>2, JobInJobs DEF OwnerInv
    <3> QED
      BY <3>1, <3>2
  <2> QED
    BY <2>1, <2>2, <2>3 DEF OwnerInv, Owns
<1>2. ASSUME NEW x \in Runs, AcquireLost(x) PROVE OwnerInv'
  <2>1. Job(x) \in Jobs /\ lock[Job(x)] = NoToken
    BY <1>2, JobInJobs DEF AcquireLost, Free
  <2>2. lock' = [lock EXCEPT ![Job(x)] = x] /\ running' = running /\ lapsed' = lapsed
    BY <1>2 DEF AcquireLost
  <2>3. ASSUME NEW y \in running' \ lapsed' PROVE lock'[Job(y)] = y
    <3>1. y \in Runs /\ lock[Job(y)] = y
      BY <2>2, <2>3 DEF OwnerInv, Owns
    <3>2. Job(y) # Job(x)
      BY <2>1, <3>1, RunIsAToken
    <3> QED
      BY <2>1, <2>2, <3>1, <3>2, JobInJobs DEF OwnerInv
  <2> QED
    BY <2>1, <2>2, <2>3 DEF OwnerInv, Owns
<1>3. ASSUME NEW x \in Runs, Ends(x) PROVE OwnerInv'
  <2>1. x \in running /\ Release(x)
    BY <1>3 DEF Ends, Complete, JobFails, Ended
  <2> QED
    BY <2>1, ReleaseOwner
<1>4. ASSUME NEW j \in Jobs, LeaseExpires(j) PROVE OwnerInv'
  <2>1. /\ lapsed' = lapsed \union ({lock[j]} \intersect running)
        /\ lock' = [lock EXCEPT ![j] = NoToken] /\ running' = running
    BY <1>4 DEF LeaseExpires
  <2>2. ASSUME NEW y \in running' \ lapsed' PROVE lock'[Job(y)] = y
    <3>1. y \in running \ lapsed /\ y \in Runs /\ lock[Job(y)] = y /\ y # lock[j]
      BY <2>1, <2>2 DEF OwnerInv, Owns
    <3> QED
      BY <2>1, <3>1, JobInJobs DEF OwnerInv
  <2> QED
    BY <2>1, <2>2 DEF OwnerInv, Owns
<1>5. ASSUME NEW r \in Replicas, Stop(r) PROVE OwnerInv'
  <2>1. /\ running' = {x \in running : x[1] # r} /\ lapsed' = {x \in lapsed : x[1] # r}
        /\ lock' = [j \in Jobs |-> IF lock[j] \in running /\ lock[j][1] = r
                                   THEN NoToken ELSE lock[j]]
    BY <1>5 DEF Stop
  <2>2. ASSUME NEW y \in running' \ lapsed' PROVE lock'[Job(y)] = y
    <3>1. y \in running \ lapsed /\ y \in Runs /\ lock[Job(y)] = y /\ y[1] # r
      BY <2>1, <2>2 DEF OwnerInv, Owns
    <3> QED
      BY <2>1, <3>1, JobInJobs DEF OwnerInv
  <2> QED
    BY <2>1, <2>2 DEF OwnerInv, Owns
<1>6. ASSUME NEW r \in Replicas, ReplicaCrash(r) PROVE OwnerInv'
  <2>1. /\ running' = {x \in running : x[1] # r} /\ lapsed' = {x \in lapsed : x[1] # r}
        /\ lock' = lock
    BY <1>6 DEF ReplicaCrash
  <2> QED
    BY <2>1 DEF OwnerInv, Owns
<1>7. CASE UNCHANGED leases
  BY <1>7 DEF leases, OwnerInv, Owns
<1>8. ASSUME NEW r \in Replicas, Start(r) \/ (\E c \in Components : Beat(r, c)) PROVE UNCHANGED leases
  BY <1>8 DEF Start, Beat
<1>9. ASSUME (\E c \in Components : KeyAges(c)) \/ RefreshWorkerHealth \/ UNCHANGED jobsVars
      PROVE UNCHANGED leases
  BY <1>9 DEF KeyAges, RefreshWorkerHealth, jobsVars
<1> QED
  BY <1>1, <1>2, <1>3, <1>4, <1>5, <1>6, <1>7, <1>8, <1>9 DEF JobsNext

\* Of two runs of one job one has outlived its lease: neither a late release, a
\* crash, a stop nor a lost reply of Redis lets a second run in.
THEOREM OverlapOnlyAfterLapseHolds == JobsSpec => []OverlapOnlyAfterLapse
<1>1. OwnerInv => OverlapOnlyAfterLapse
  BY DEF OwnerInv, Owns, OverlapOnlyAfterLapse
<1> QED
  BY <1>1, InitOwner, NextOwner, PTL DEF JobsSpec

-----------------------------------------------------------------------------
(***************************************************************************)
(* Outbox. complete_outbox() looks at neither the status nor the owner of  *)
(* the row, so the argument rests on the worker: its result "delivered" is *)
(* about the very event it completes, and a locked row has one holder.     *)
(***************************************************************************)

\* A worker that holds "delivered" has delivered the first event of its batch, and
\* it holds no result while its batch is empty.
GotInv ==
    /\ OutboxTypeOK
    /\ \A w \in Workers : batch[w] = {} => result[w] = "none"
    /\ \A w \in Workers : \A e \in Events :
          result[w] = "delivered" /\ e = First(batch[w]) => got[e] > 0
    /\ PublishedWasGot

\* Nothing is published at the start.
LEMMA InitGot == OutboxInit => GotInv
BY CountAssumption DEF OutboxInit, GotInv, OutboxTypeOK, NoRow, PublishedWasGot

\* The recipient never gets fewer messages: a step that only adds to got keeps what
\* was said of it.
LEMMA GotGrows ==
    ASSUME GotInv, NEW f, got' = [got EXCEPT ![f] = @ + 1]
    PROVE  got' \in [Events -> Nat] /\ \A e \in Events : got[e] > 0 => got'[e] > 0
<1>1. got \in [Events -> Nat]
  BY DEF GotInv, OutboxTypeOK
<1>2. CASE f \in Events
  BY <1>1, <1>2
<1>3. CASE f \notin Events
  BY <1>1, <1>3
<1> QED
  BY <1>2, <1>3

\* Every step keeps the invariant.
LEMMA NextGot == GotInv /\ [OutboxNext]_outboxVars => GotInv'
<1> SUFFICES ASSUME GotInv, [OutboxNext]_outboxVars PROVE GotInv'
  OBVIOUS
<1>1. ASSUME NEW e \in Events, Journal(e) \/ RetryDue(e) \/ LockStale(e) PROVE GotInv'
  <2>1. UNCHANGED <<got, batch, result, tries, failures>>
    BY <1>1 DEF Journal, RetryDue, LockStale, work
  <2>2. /\ rows' \in [Events -> [status : {"none", "PENDING", "SENDING", "PUBLISHED"},
                                 lock : {"none", "fresh", "stale"}, due : BOOLEAN]]
        /\ \A f \in Events : rows'[f].status = "PUBLISHED" => rows[f].status = "PUBLISHED"
    <3> DEFINE Row == [status : {"none", "PENDING", "SENDING", "PUBLISHED"},
                       lock : {"none", "fresh", "stale"}, due : BOOLEAN]
    <3>1. rows \in [Events -> Row]
      BY DEF GotInv, OutboxTypeOK
    <3>2. CASE Journal(e)
      <4>1. rows' = [rows EXCEPT ![e] = [status |-> "PENDING", lock |-> "none", due |-> TRUE]]
        BY <3>2 DEF Journal
      <4> QED
        BY <3>1, <4>1
    <3>3. CASE RetryDue(e)
      <4>1. rows' = [rows EXCEPT ![e] = [rows[e] EXCEPT !.due = TRUE]]
        BY <3>3 DEF RetryDue
      <4>2. /\ [rows[e] EXCEPT !.due = TRUE] \in Row
            /\ [rows[e] EXCEPT !.due = TRUE].status = rows[e].status
        BY <3>1
      <4> QED
        BY <3>1, <4>1, <4>2
    <3>4. CASE LockStale(e)
      <4>1. rows' = [rows EXCEPT ![e] = [rows[e] EXCEPT !.lock = "stale"]]
        BY <3>4 DEF LockStale
      <4>2. /\ [rows[e] EXCEPT !.lock = "stale"] \in Row
            /\ [rows[e] EXCEPT !.lock = "stale"].status = rows[e].status
        BY <3>1
      <4> QED
        BY <3>1, <4>1, <4>2
    <3> QED
      BY <1>1, <3>2, <3>3, <3>4
  <2> QED
    BY <2>1, <2>2 DEF GotInv, OutboxTypeOK, PublishedWasGot
<1>2. ASSUME NEW w \in Workers, ClaimOutbox(w) PROVE GotInv'
  <2>1. PICK claimed \in SUBSET Events :
           /\ batch[w] = {} /\ batch' = [batch EXCEPT ![w] = claimed]
           /\ rows' = [e \in Events |-> IF e \in claimed
                                        THEN [status |-> "SENDING", lock |-> "fresh", due |-> rows[e].due]
                                        ELSE rows[e]]
           /\ UNCHANGED <<got, result, tries, failures>>
    BY <1>2 DEF ClaimOutbox, Claimable
  <2>2. OutboxTypeOK'
    BY <2>1 DEF GotInv, OutboxTypeOK
  <2>3. PublishedWasGot'
    BY <2>1 DEF GotInv, OutboxTypeOK, PublishedWasGot
  <2>4. result[w] # "delivered"
    BY <1>2 DEF ClaimOutbox, GotInv
  <2> QED
    BY <2>1, <2>2, <2>3, <2>4 DEF GotInv, OutboxTypeOK
<1>3. ASSUME NEW w \in Workers, Post(w) PROVE GotInv'
  <2>1. /\ batch[w] # {} /\ got' = [got EXCEPT ![First(batch[w])] = @ + 1]
        /\ result' = [result EXCEPT ![w] = "delivered"]
        /\ UNCHANGED <<rows, batch, tries, failures>>
    BY <1>3 DEF Post, Posting
  <2>2. got' \in [Events -> Nat] /\ \A e \in Events : got[e] > 0 => got'[e] > 0
    BY <2>1, GotGrows
  <2>3. \A e \in Events : e = First(batch[w]) => got'[e] > 0
    BY <2>1 DEF GotInv, OutboxTypeOK
  <2> QED
    BY <2>1, <2>2, <2>3 DEF GotInv, OutboxTypeOK, PublishedWasGot
<1>4. ASSUME NEW w \in Workers, PostFails(w) PROVE GotInv'
  <2>1. got' \in [Events -> Nat] /\ \A e \in Events : got[e] > 0 => got'[e] > 0
    BY <1>4, GotGrows DEF PostFails, GotInv, OutboxTypeOK
  <2>2. result' = result \/ result' = [result EXCEPT ![w] = "failed"]
    BY <1>4 DEF PostFails, Exhausted
  <2>3. /\ tries' \in [Workers -> Nat] /\ failures' \in Nat
        /\ batch[w] # {} /\ UNCHANGED <<rows, batch>>
    BY <1>4 DEF PostFails, Posting, GotInv, OutboxTypeOK
  <2> QED
    BY <2>1, <2>2, <2>3 DEF GotInv, OutboxTypeOK, PublishedWasGot
<1>5. ASSUME NEW w \in Workers, CompleteOutbox(w) PROVE GotInv'
  <2>1. PICK e : e = First(batch[w])
    OBVIOUS
  <2>2. /\ rows' = [rows EXCEPT ![e] = IF result[w] = "delivered"
                                       THEN [status |-> "PUBLISHED", lock |-> "none", due |-> TRUE]
                                       ELSE [status |-> "PENDING", lock |-> "none", due |-> FALSE]]
        /\ batch' = [batch EXCEPT ![w] = @ \ {e}]
        /\ result' = [result EXCEPT ![w] = "none"]
        /\ tries' = [tries EXCEPT ![w] = 0]
        /\ UNCHANGED <<got, failures>>
    BY <1>5, <2>1 DEF CompleteOutbox
  <2>3. PublishedWasGot'
    BY <2>1, <2>2 DEF GotInv, OutboxTypeOK, PublishedWasGot
  <2>4. ASSUME NEW v \in Workers, NEW f \in Events, result'[v] = "delivered", f = First(batch'[v])
        PROVE  got'[f] > 0
    BY <2>2, <2>4 DEF GotInv, OutboxTypeOK
  <2>5. OutboxTypeOK'
    BY <2>2 DEF GotInv, OutboxTypeOK
  <2>6. \A v \in Workers : batch'[v] = {} => result'[v] = "none"
    BY <2>2 DEF GotInv, OutboxTypeOK
  <2> QED
    BY <2>3, <2>4, <2>5, <2>6 DEF GotInv
<1>6. ASSUME NEW w \in Workers, Die(w) PROVE GotInv'
  <2>1. PublishedWasGot' /\ OutboxTypeOK'
    BY <1>6 DEF Die, GotInv, OutboxTypeOK, PublishedWasGot
  <2>2. ASSUME NEW v \in Workers, NEW f \in Events, result'[v] = "delivered", f = First(batch'[v])
        PROVE  got'[f] > 0
    BY <1>6, <2>2 DEF Die, GotInv, OutboxTypeOK
  <2>3. \A v \in Workers : batch'[v] = {} => result'[v] = "none"
    BY <1>6 DEF Die, GotInv, OutboxTypeOK
  <2> QED
    BY <2>1, <2>2, <2>3 DEF GotInv
<1>7. CASE Idle \/ UNCHANGED outboxVars
  BY <1>7 DEF Idle, outboxVars, work, GotInv, OutboxTypeOK, PublishedWasGot
<1> QED
  BY <1>1, <1>2, <1>3, <1>4, <1>5, <1>6, <1>7 DEF OutboxNext, Time, Work

\* A row is PUBLISHED only when its message reached the recipient, also when a
\* worker whose claim went stale completes a row that another one has claimed.
THEOREM PublishedWasGotHolds == OutboxSpec => []PublishedWasGot
<1>1. GotInv => PublishedWasGot
  BY DEF GotInv
<1> QED
  BY <1>1, InitGot, NextGot, PTL DEF OutboxSpec

-----------------------------------------------------------------------------
\* Event e was published, or its holder knows that it is delivered.
Delivered(e) ==
    \/ rows[e].status = "PUBLISHED"
    \/ \E w \in Workers : batch[w] # {} /\ e = First(batch[w]) /\ result[w] = "delivered"

\* A claimed row is locked for its one holder, and a message the recipient got once
\* more than workers failed is known to be delivered.
ExactInv ==
    /\ \A w \in Workers : \A e \in batch[w] : rows[e].status = "SENDING" /\ rows[e].lock = "fresh"
    /\ \A v, w \in Workers : v # w => batch[v] \cap batch[w] = {}
    /\ \A e \in Events : got[e] <= 1 + failures
    /\ \A e \in Events : got[e] <= failures \/ Delivered(e)

\* A worker completes an event of its batch.
LEMMA FirstInBatch == ASSUME NEW S \in SUBSET Events, S # {} PROVE First(S) \in S
<1>1. S \subseteq Nat
  BY CountAssumption DEF Events
<1> QED
  BY <1>1, LeastNat DEF First

\* Nothing is claimed at the start.
LEMMA InitExact == OutboxInit => ExactInv
BY DEF OutboxInit, ExactInv

\* A step that neither gives up what is delivered nor delivers keeps the account.
LEMMA AccountKept ==
    ASSUME GotInv, ExactInv, UNCHANGED <<got, failures>>,
           \A e \in Events : Delivered(e) /\ got[e] > failures => Delivered(e)'
    PROVE  \A e \in Events : got'[e] <= 1 + failures' /\ (got'[e] <= failures' \/ Delivered(e)')
<1> SUFFICES ASSUME NEW e \in Events
             PROVE  got[e] <= 1 + failures /\ (got[e] <= failures \/ Delivered(e)')
  OBVIOUS
<1>1. got[e] \in Nat /\ failures \in Nat
  BY DEF GotInv, OutboxTypeOK
<1> QED
  BY <1>1 DEF ExactInv

\* Every step keeps the account, while no lock goes stale under a living holder.
LEMMA NextExact == ASSUME ~SlowUsed PROVE GotInv /\ ExactInv /\ [OutboxNext]_outboxVars => ExactInv'
<1> SUFFICES ASSUME GotInv, ExactInv, [OutboxNext]_outboxVars PROVE ExactInv'
  OBVIOUS
<1>0. /\ got \in [Events -> Nat] /\ failures \in Nat
      /\ batch \in [Workers -> SUBSET Events]
      /\ result \in [Workers -> {"none", "delivered", "failed"}]
      /\ rows \in [Events -> [status : {"none", "PENDING", "SENDING", "PUBLISHED"},
                              lock : {"none", "fresh", "stale"}, due : BOOLEAN]]
  BY DEF GotInv, OutboxTypeOK
<1>1. ASSUME NEW e \in Events, Journal(e) \/ RetryDue(e) \/ LockStale(e) PROVE ExactInv'
  <2>1. /\ UNCHANGED <<got, batch, result, failures>>
        /\ rows[e].status # "PUBLISHED" \/ rows'[e].status = "PUBLISHED"
        /\ \A f \in Events \ {e} : rows'[f] = rows[f]
    BY <1>0, <1>1 DEF Journal, RetryDue, LockStale, work
  <2>2. \A w \in Workers : e \notin batch[w]
    BY <1>1 DEF Journal, RetryDue, LockStale, ExactInv
  <2>3. \A w \in Workers : \A f \in batch'[w] : rows'[f].status = "SENDING" /\ rows'[f].lock = "fresh"
    BY <1>0, <2>1, <2>2 DEF ExactInv
  <2>4. \A f \in Events : Delivered(f) => Delivered(f)'
    BY <2>1 DEF Delivered
  <2> QED
    BY <2>1, <2>3, <2>4, AccountKept DEF ExactInv
<1>2. ASSUME NEW w \in Workers, ClaimOutbox(w) PROVE ExactInv'
  <2>1. PICK claimed \in SUBSET Claimable :
           /\ batch[w] = {} /\ batch' = [batch EXCEPT ![w] = claimed]
           /\ rows' = [e \in Events |-> IF e \in claimed
                                        THEN [status |-> "SENDING", lock |-> "fresh", due |-> rows[e].due]
                                        ELSE rows[e]]
           /\ UNCHANGED <<got, result, failures>>
    BY <1>2 DEF ClaimOutbox
  <2>2. /\ claimed \subseteq Events
        /\ \A e \in claimed : rows[e].status # "PUBLISHED" /\ \A v \in Workers : e \notin batch[v]
    BY <2>1 DEF Claimable, ExactInv
  <2>3. \A v \in Workers : \A e \in batch'[v] : rows'[e].status = "SENDING" /\ rows'[e].lock = "fresh"
    BY <1>0, <2>1, <2>2 DEF ExactInv
  <2>4. \A v, x \in Workers : v # x => batch'[v] \cap batch'[x] = {}
    BY <1>0, <2>1, <2>2 DEF ExactInv
  <2>5. ASSUME NEW f \in Events, Delivered(f) PROVE Delivered(f)'
    BY <1>0, <2>1, <2>2, <2>5 DEF Delivered
  <2> QED
    BY <2>1, <2>3, <2>4, <2>5, AccountKept DEF ExactInv
<1>3. ASSUME NEW w \in Workers, Post(w) PROVE ExactInv'
  <2>1. PICK e \in Events : e = First(batch[w]) /\ e \in batch[w]
    BY <1>0, <1>3, FirstInBatch DEF Post, Posting
  <2>2. /\ batch[w] # {} /\ result[w] = "none" /\ got' = [got EXCEPT ![e] = @ + 1]
        /\ result' = [result EXCEPT ![w] = "delivered"] /\ UNCHANGED <<rows, batch, failures>>
    BY <1>3, <2>1 DEF Post, Posting
  <2>3. ~Delivered(e)
    BY <1>0, <2>1, <2>2, FirstInBatch DEF Delivered, ExactInv
  <2>4. Delivered(e)' /\ \A f \in Events : Delivered(f) => Delivered(f)'
    BY <1>0, <2>1, <2>2 DEF Delivered
  <2>5. \A f \in Events : got'[f] <= 1 + failures' /\ (got'[f] <= failures' \/ Delivered(f)')
    BY <1>0, <2>2, <2>3, <2>4 DEF ExactInv
  <2> QED
    BY <2>2, <2>5 DEF ExactInv
<1>4. ASSUME NEW w \in Workers, PostFails(w) \/ Die(w) PROVE ExactInv'
  <2>1. /\ failures' = failures + 1 /\ UNCHANGED <<rows, got>>
        /\ \A v \in Workers : batch'[v] \subseteq batch[v]
    BY <1>0, <1>4 DEF PostFails, Die
  <2>2. \A e \in Events : got'[e] <= failures'
    BY <1>0, <2>1 DEF ExactInv
  <2>3. \A e \in Events : got'[e] <= 1 + failures'
    BY <1>0, <2>1 DEF ExactInv
  <2> QED
    BY <2>1, <2>2, <2>3 DEF ExactInv
<1>5. ASSUME NEW w \in Workers, CompleteOutbox(w) PROVE ExactInv'
  <2>1. PICK e \in Events : e = First(batch[w]) /\ e \in batch[w]
    BY <1>0, <1>5, FirstInBatch DEF CompleteOutbox, GotInv
  <2>2. /\ rows' = [rows EXCEPT ![e] = IF result[w] = "delivered"
                                       THEN [status |-> "PUBLISHED", lock |-> "none", due |-> TRUE]
                                       ELSE [status |-> "PENDING", lock |-> "none", due |-> FALSE]]
        /\ batch' = [batch EXCEPT ![w] = @ \ {e}]
        /\ result' = [result EXCEPT ![w] = "none"]
        /\ UNCHANGED <<got, failures>>
    BY <1>5, <2>1 DEF CompleteOutbox
  <2>3. \A v \in Workers : e \notin batch'[v] /\ batch'[v] \subseteq batch[v]
    BY <1>0, <2>1, <2>2 DEF ExactInv
  <2>4. ASSUME NEW f \in Events, Delivered(f) PROVE Delivered(f)'
    <3>1. CASE f = e
      <4>1. result[w] = "delivered"
        BY <1>0, <2>1, <2>4, <3>1, FirstInBatch DEF Delivered, ExactInv
      <4> QED
        BY <1>0, <2>2, <3>1, <4>1 DEF Delivered
    <3>2. CASE f # e
      BY <1>0, <2>1, <2>2, <2>4, <3>2 DEF Delivered
    <3> QED
      BY <3>1, <3>2
  <2>5. \A v \in Workers : \A f \in batch'[v] : rows'[f].status = "SENDING" /\ rows'[f].lock = "fresh"
    BY <1>0, <2>2, <2>3 DEF ExactInv
  <2> QED
    BY <2>2, <2>3, <2>4, <2>5, AccountKept DEF ExactInv
<1>6. CASE Idle \/ UNCHANGED outboxVars
  BY <1>6 DEF Idle, outboxVars, work, ExactInv, Delivered
<1> QED
  BY <1>1, <1>2, <1>3, <1>4, <1>5, <1>6 DEF OutboxNext, Time, Work

\* Only a worker that dies makes the recipient get a message again, however many
\* workers claim, while no lock goes stale under a living holder.
THEOREM OutboxExactHolds == ASSUME ~SlowUsed PROVE OutboxSpec => []OutboxExact
<1>1. GotInv /\ ExactInv => OutboxExact
  BY DEF GotInv, ExactInv, OutboxExact, DeliveredOnce
<1> QED
  BY <1>1, InitGot, NextGot, InitExact, NextExact, PTL DEF OutboxSpec

-----------------------------------------------------------------------------
(***************************************************************************)
(* BrokerStack. The attempt of a call counts how often it reached the      *)
(* broker, and the sum of the deals of a key is its open volume.           *)
(***************************************************************************)

\* A call of the port, the operation it stands for and the attempt it is at.
Calls == [pc : {"waiting", "running", "sleeping", "returned"}, op : Reads \cup Mutations,
          key : Keys, volume : Volumes, attempt : Nat]

PortTypeOK ==
    /\ call \in [Clients -> {NoCall} \cup Calls]
    /\ forwarded \in [Clients -> Nat]
    /\ positions \in [Keys -> Nat]
    /\ deals \in Seq(Keys \X {"in", "out"} \X Nat)

\* The attempt a call is at counts how often it reached the broker; only a read that
\* has attempts left sleeps.
Counted(t) ==
    CASE call[t].pc \in {"waiting", "running"} -> call[t].attempt = forwarded[t] + 1
      [] call[t].pc \in {"sleeping", "returned"} -> call[t].attempt = forwarded[t]
      [] OTHER -> TRUE

AttemptInv ==
    \A t \in Clients : call[t].pc # "idle" =>
        /\ Counted(t)
        /\ call[t].attempt <= MaximumAttempts
        /\ call[t].op \in Mutations => call[t].attempt <= 1
        /\ call[t].pc = "sleeping" => call[t].attempt < MaximumAttempts /\ call[t].op \in Reads

\* A fill leaves a report, and a key with a report is not filled again.
FillInv ==
    /\ \A i \in 1 .. Len(deals) : deals[i][2] = "in" => deals[i][1] \in Accepted
    /\ \A i, j \in 1 .. Len(deals) :
          deals[i][2] = "in" /\ deals[j][2] = "in" /\ deals[i][1] = deals[j][1] => i = j

\* What the deals add to the position of key k, deal by deal.
Bookings(k) == [i \in DOMAIN deals |-> Booked(deals[i], k)]

BookInv == \A k \in Keys : Sum(Bookings(k)) = positions[k]

PortInv == PortTypeOK /\ AttemptInv /\ FillInv /\ BookInv

\* The broker starts without calls, deals and positions.
LEMMA InitPort == PortInit => PortInv
<1> SUFFICES ASSUME PortInit PROVE PortInv
  OBVIOUS
<1>1. deals = << >> /\ DOMAIN deals = {} /\ Len(deals) = 0
      /\ deals \in Seq(Keys \X {"in", "out"} \X Nat)
  BY DEF PortInit
<1>2. PortTypeOK
  BY <1>1 DEF PortInit, PortTypeOK
<1>3. AttemptInv
  BY DEF PortInit, AttemptInv, NoCall
<1>4. FillInv
  BY <1>1 DEF FillInv
<1>5. BookInv
  <2> SUFFICES ASSUME NEW k \in Keys PROVE Sum(Bookings(k)) = 0
    BY DEF BookInv, PortInit
  <2>1. Bookings(k) = << >>
    BY <1>1 DEF Bookings
  <2> QED
    BY <2>1, SumEmpty
<1> QED
  BY <1>2, <1>3, <1>4, <1>5 DEF PortInv

\* A further deal adds what it books.
LEMMA DealBooked ==
    ASSUME PortTypeOK, NEW d \in Keys \X {"in", "out"} \X Nat, deals' = Append(deals, d),
           NEW k \in Keys
    PROVE  Sum(Bookings(k)') = Sum(Bookings(k)) + Booked(d, k) /\ Sum(Bookings(k)) \in Int
<1>0. deals \in Seq(Keys \X {"in", "out"} \X Nat)
  BY DEF PortTypeOK
<1>1. /\ Len(deals) \in Nat /\ DOMAIN deals = 1 .. Len(deals)
      /\ DOMAIN deals' = 1 .. Len(deals) + 1 /\ deals'[Len(deals) + 1] = d
      /\ \A i \in 1 .. Len(deals) : deals'[i] = deals[i] /\ deals[i] \in Keys \X {"in", "out"} \X Nat
  BY <1>0
<1>2. Booked(d, k) \in Int /\ \A i \in 1 .. Len(deals) : Booked(deals[i], k) \in Int
  BY <1>1 DEF Booked
<1>3. Bookings(k) \in Seq(Int) /\ Len(Bookings(k)) = Len(deals)
  BY <1>1, <1>2 DEF Bookings
<1>4. /\ Bookings(k)' \in Seq(Int) /\ Len(Bookings(k)') = Len(deals) + 1
      /\ Bookings(k)'[Len(deals) + 1] = Booked(d, k)
      /\ \A i \in 1 .. Len(deals) : Bookings(k)[i] = Bookings(k)'[i]
  BY <1>1, <1>2 DEF Bookings
<1> QED
  BY <1>3, <1>4, SumExtended, SumType

\* A task that is in a call holds its record.
LEMMA InCall ==
    ASSUME PortTypeOK, NEW t \in Clients, call[t].pc # "idle"
    PROVE  call[t] \in Calls
BY DEF PortTypeOK, NoCall

\* What is said of the calls and of how often they reached the broker.
CallsOK ==
    /\ call \in [Clients -> {NoCall} \cup Calls]
    /\ forwarded \in [Clients -> Nat]
    /\ AttemptInv

\* A task's step that changes its own record keeps what is said of the calls, if it
\* holds of that record.
LEMMA OwnRecord ==
    ASSUME PortTypeOK, AttemptInv, NEW t \in Clients, NEW c \in {NoCall} \cup Calls, NEW n \in Nat,
           call' = [call EXCEPT ![t] = c], forwarded' = [forwarded EXCEPT ![t] = n],
           c.pc # "idle" =>
             /\ c.pc \in {"waiting", "running"} => c.attempt = n + 1
             /\ c.pc \in {"sleeping", "returned"} => c.attempt = n
             /\ c.attempt <= MaximumAttempts
             /\ c.op \in Mutations => c.attempt <= 1
             /\ c.pc = "sleeping" => c.attempt < MaximumAttempts /\ c.op \in Reads
    PROVE  CallsOK'
<1>1. call' \in [Clients -> {NoCall} \cup Calls] /\ forwarded' \in [Clients -> Nat]
  BY DEF PortTypeOK
<1>2. ASSUME NEW u \in Clients, call'[u].pc # "idle"
      PROVE  /\ Counted(u)'
             /\ call'[u].attempt <= MaximumAttempts
             /\ call'[u].op \in Mutations => call'[u].attempt <= 1
             /\ call'[u].pc = "sleeping" =>
                  call'[u].attempt < MaximumAttempts /\ call'[u].op \in Reads
  <2>1. CASE u = t
    <3>1. call'[u] = c /\ forwarded'[u] = n
      BY <2>1 DEF PortTypeOK
    <3> QED
      BY <1>2, <3>1 DEF Counted
  <2>2. CASE u # t
    <3>1. call'[u] = call[u] /\ forwarded'[u] = forwarded[u]
      BY <2>2 DEF PortTypeOK
    <3> QED
      BY <1>2, <3>1 DEF Counted, AttemptInv
  <2> QED
    BY <2>1, <2>2
<1> QED
  BY <1>1, <1>2 DEF CallsOK, AttemptInv

\* An operation that ends at the broker has reached it once more.
LEMMA EndedCalls ==
    ASSUME PortTypeOK, AttemptInv, NEW t \in Clients, NEW ok \in BOOLEAN, call[t].pc = "running",
           OperationEnded(t, ok)
    PROVE  CallsOK'
<1>1. call[t] \in Calls /\ forwarded[t] \in Nat
  BY InCall DEF PortTypeOK
<1>2. /\ call[t].attempt = forwarded[t] + 1 /\ call[t].attempt <= MaximumAttempts
      /\ call[t].op \in Mutations => call[t].attempt <= 1
  BY DEF AttemptInv, Counted
<1> DEFINE next == IF ~ok /\ Retried(call[t].op) /\ call[t].attempt < MaximumAttempts
                   THEN "sleeping" ELSE "returned"
           c == [call[t] EXCEPT !.pc = next]
<1>3. ~(forwarded[t] > MaximumAttempts)
  BY <1>1, <1>2, StackAssumption
<1>4. call' = [call EXCEPT ![t] = c] /\ forwarded' = [forwarded EXCEPT ![t] = forwarded[t] + 1]
  BY <1>3 DEF OperationEnded
<1>5. /\ c \in Calls /\ c.pc = next /\ c.op = call[t].op /\ c.attempt = call[t].attempt
      /\ next \in {"sleeping", "returned"}
      /\ next = "sleeping" => call[t].attempt < MaximumAttempts /\ call[t].op \in Reads
  BY <1>1 DEF Calls, Retried
<1> HIDE DEF c, next
<1>6. PICK n \in Nat : n = forwarded[t] + 1
  BY <1>1
<1> QED
  BY <1>2, <1>4, <1>5, <1>6, OwnRecord

\* Retries, the lock and the returns keep what is said of the calls.
LEMMA NextCalls == PortTypeOK /\ AttemptInv /\ [PortNext]_portVars => CallsOK'
<1> SUFFICES ASSUME PortTypeOK, AttemptInv, [PortNext]_portVars PROVE CallsOK'
  OBVIOUS
<1>1. ASSUME NEW t \in Clients, NEW op \in Reads \cup Mutations, NEW k \in Keys, NEW v \in Volumes,
             CallPort(t, op, k, v)
      PROVE  CallsOK'
  <2> DEFINE c == [pc |-> "waiting", op |-> op, key |-> k, volume |-> v, attempt |-> 1]
  <2>1. call' = [call EXCEPT ![t] = c] /\ forwarded' = [forwarded EXCEPT ![t] = 0]
    BY <1>1 DEF CallPort
  <2>2. c \in Calls /\ c.pc = "waiting" /\ c.attempt = 1
    BY DEF Calls
  <2>3. 1 <= MaximumAttempts /\ 0 \in Nat /\ 1 = 0 + 1 /\ 1 <= 1
    BY StackAssumption
  <2> HIDE DEF c
  <2> QED
    BY <2>1, <2>2, <2>3, OwnRecord
<1>2. ASSUME NEW t \in Clients, Lock(t) PROVE CallsOK'
  <2> DEFINE c == [call[t] EXCEPT !.pc = "running"]
  <2>1. call[t] \in Calls /\ call[t].pc = "waiting"
    BY <1>2, InCall DEF Lock
  <2>2. call' = [call EXCEPT ![t] = c] /\ forwarded' = [forwarded EXCEPT ![t] = forwarded[t]]
    BY <1>2 DEF Lock, PortTypeOK
  <2>3. c \in Calls /\ c.pc = "running" /\ c.attempt = call[t].attempt /\ c.op = call[t].op
    BY <2>1 DEF Calls
  <2>4. /\ call[t].attempt = forwarded[t] + 1 /\ call[t].attempt <= MaximumAttempts
        /\ call[t].op \in Mutations => call[t].attempt <= 1 /\ forwarded[t] \in Nat
    BY <2>1 DEF AttemptInv, Counted, PortTypeOK
  <2>5. forwarded[t] \in Nat
    BY DEF PortTypeOK
  <2> HIDE DEF c
  <2> QED
    BY <2>2, <2>3, <2>4, <2>5, OwnRecord
<1>3. ASSUME NEW t \in Clients, Wake(t) PROVE CallsOK'
  <2> DEFINE c == [pc |-> "waiting", op |-> call[t].op, key |-> call[t].key,
                 volume |-> call[t].volume,
                   attempt |-> call[t].attempt + 1]
  <2>1. call[t] \in Calls /\ call[t].pc = "sleeping"
    BY <1>3, InCall DEF Wake
  <2>2. call' = [call EXCEPT ![t] = c] /\ forwarded' = [forwarded EXCEPT ![t] = forwarded[t]]
    <3> DEFINE waiting == [call[t] EXCEPT !.pc = "waiting"]
    <3>1. call' = [call EXCEPT ![t] = [waiting EXCEPT !.attempt = waiting.attempt + 1]]
      BY <1>3 DEF Wake, PortTypeOK
    <3>2. waiting = [pc |-> "waiting", op |-> call[t].op, key |-> call[t].key,
                     volume |-> call[t].volume, attempt |-> call[t].attempt]
      BY <2>1 DEF Calls
    <3> HIDE DEF waiting
    <3>3. [waiting EXCEPT !.attempt = waiting.attempt + 1] = c
      BY <3>2
    <3> QED
      BY <1>3, <3>1, <3>3 DEF Wake, PortTypeOK
  <2>3. /\ c \in Calls /\ c.pc = "waiting" /\ c.attempt = call[t].attempt + 1
        /\ c.op = call[t].op
    BY <2>1 DEF Calls
  <2>4. /\ call[t].attempt = forwarded[t] /\ call[t].attempt < MaximumAttempts
        /\ call[t].op \in Reads /\ forwarded[t] \in Nat
    BY <2>1 DEF AttemptInv, Counted, PortTypeOK
  <2>5. c.op \notin Mutations /\ c.attempt <= MaximumAttempts
    BY <2>3, <2>4, StackAssumption DEF Reads, Mutations
  <2> HIDE DEF c
  <2> QED
    BY <2>2, <2>3, <2>4, <2>5, OwnRecord
<1>4. ASSUME NEW t \in Clients, ReturnToTask(t) PROVE CallsOK'
  <2>1. call' = [call EXCEPT ![t] = NoCall] /\ forwarded' = [forwarded EXCEPT ![t] = forwarded[t]]
    BY <1>4 DEF ReturnToTask, PortTypeOK
  <2>2. NoCall.pc = "idle" /\ forwarded[t] \in Nat
    BY DEF NoCall, PortTypeOK
  <2> QED
    BY <2>1, <2>2, OwnRecord
<1>5. ASSUME NEW t \in Clients,
             Read(t) \/ Modify(t) \/ Cancel(t) \/ Close(t) \/ \E b \in Behaviors : Place(t, b)
      PROVE  CallsOK'
  <2>1. PICK ok : call[t].pc = "running" /\ OperationEnded(t, ok)
    BY <1>5 DEF Read, Modify, Cancel, Close, Place, Running
  <2>2. OperationEnded(t, ok = TRUE)
    BY <2>1 DEF OperationEnded
  <2> QED
    BY <2>1, <2>2, EndedCalls
<1>6. CASE Flip \/ PortDone \/ UNCHANGED portVars
  BY <1>6 DEF Flip, PortDone, portVars, CallsOK, PortTypeOK, AttemptInv, Counted
<1> QED
  BY <1>1, <1>2, <1>3, <1>4, <1>5, <1>6 DEF PortNext, Step


\* What is said of the broker's books.
BooksOK ==
    /\ positions \in [Keys -> Nat]
    /\ deals \in Seq(Keys \X {"in", "out"} \X Nat)
    /\ FillInv /\ BookInv

\* A deal is booked on one key, whose position moves by as much.
LEMMA OneDeal ==
    ASSUME PortTypeOK, BookInv, NEW k \in Keys, NEW side \in {"in", "out"}, NEW v \in Nat,
           NEW left \in Nat, left = positions[k] + (IF side = "in" THEN v ELSE 0 - v),
           deals' = Append(deals, <<k, side, v>>), positions' = [positions EXCEPT ![k] = left]
    PROVE  /\ positions' \in [Keys -> Nat]
           /\ deals' \in Seq(Keys \X {"in", "out"} \X Nat)
           /\ BookInv'
<1> DEFINE d == <<k, side, v>>
<1>1. d \in Keys \X {"in", "out"} \X Nat /\ positions \in [Keys -> Nat]
      /\ deals \in Seq(Keys \X {"in", "out"} \X Nat)
  BY DEF PortTypeOK
<1>2. deals' \in Seq(Keys \X {"in", "out"} \X Nat) /\ positions' \in [Keys -> Nat]
  BY <1>1
<1>3. ASSUME NEW l \in Keys PROVE Sum(Bookings(l)') = positions'[l]
  <2>1. Sum(Bookings(l)') = Sum(Bookings(l)) + Booked(d, l)
    BY <1>1, DealBooked
  <2>2. Sum(Bookings(l)) = positions[l]
    BY DEF BookInv
  <2>3. CASE l = k
    <3>1. Booked(d, l) = IF side = "in" THEN v ELSE 0 - v
      BY <2>3 DEF Booked
    <3> QED
      BY <1>1, <2>1, <2>2, <2>3, <3>1
  <2>4. CASE l # k
    <3>1. Booked(d, l) = 0
      BY <2>4 DEF Booked
    <3> QED
      BY <1>1, <2>1, <2>2, <2>4, <3>1
  <2> QED
    BY <2>3, <2>4
<1> QED
  BY <1>2, <1>3 DEF BookInv

\* A filled order: the key had no report, and has one now.
LEMMA FillKept ==
    ASSUME PortTypeOK, FillInv, NEW k \in Keys, NEW side \in {"in", "out"}, NEW v \in Nat,
           deals' = Append(deals, <<k, side, v>>),
           side = "in" => k \notin Accepted /\ k \in Accepted',
           Accepted \subseteq Accepted'
    PROVE  FillInv'
<1>0. deals \in Seq(Keys \X {"in", "out"} \X Nat)
  BY DEF PortTypeOK
<1>1. /\ Len(deals) \in Nat /\ Len(deals') = Len(deals) + 1 /\ deals'[Len(deals) + 1] = <<k, side, v>>
      /\ \A i \in 1 .. Len(deals) : deals'[i] = deals[i]
  BY <1>0
<1>2. \A i \in 1 .. Len(deals) : deals[i][2] = "in" => deals[i][1] \in Accepted
  BY DEF FillInv
<1>3. ASSUME NEW i \in 1 .. Len(deals'), deals'[i][2] = "in" PROVE deals'[i][1] \in Accepted'
  BY <1>1, <1>2, <1>3
<1>4. ASSUME NEW i \in 1 .. Len(deals'), NEW j \in 1 .. Len(deals'),
             deals'[i][2] = "in", deals'[j][2] = "in", deals'[i][1] = deals'[j][1]
      PROVE  i = j
  <2>1. i \in 1 .. Len(deals) \/ i = Len(deals) + 1
    BY <1>1
  <2>2. j \in 1 .. Len(deals) \/ j = Len(deals) + 1
    BY <1>1
  <2>3. CASE i \in 1 .. Len(deals) /\ j \in 1 .. Len(deals)
    BY <1>1, <1>4, <2>3 DEF FillInv
  <2>4. CASE i = Len(deals) + 1 /\ j \in 1 .. Len(deals)
    BY <1>1, <1>2, <1>4, <2>4
  <2>5. CASE i \in 1 .. Len(deals) /\ j = Len(deals) + 1
    BY <1>1, <1>2, <1>4, <2>5
  <2> QED
    BY <2>1, <2>2, <2>3, <2>4, <2>5
<1> QED
  BY <1>3, <1>4 DEF FillInv

\* Sends, closes and everything else keep the books.
LEMMA NextBooks == PortInv /\ [PortNext]_portVars => BooksOK'
<1> SUFFICES ASSUME PortInv, [PortNext]_portVars PROVE BooksOK'
  OBVIOUS
<1>0. PortTypeOK /\ FillInv /\ BookInv
  BY DEF PortInv
<1>1. CASE UNCHANGED <<positions, deals, reports>>
  BY <1>0, <1>1 DEF PortTypeOK, BooksOK, FillInv, BookInv, Bookings, Accepted
<1>2. ASSUME NEW t \in Clients, NEW b \in Behaviors, Place(t, b) PROVE BooksOK'
  <2>1. call[t] \in Calls
    BY <1>0, <1>2, InCall DEF Place, Running
  <2>2. PICK k \in Keys, v \in Nat : k = call[t].key /\ v = call[t].volume
    BY <2>1, StackAssumption DEF Calls
  <2>3. CASE UNCHANGED broker
    BY <1>1, <2>3 DEF broker
  <2>4. CASE k \notin Accepted /\ Accept(k, v, call[t].op = "pending")
    <3>1. Accepted' = Accepted \cup {k}
      BY <2>4 DEF Accept, Accepted
    <3>2. CASE UNCHANGED <<positions, deals>>
      <4>1. FillInv'
        BY <1>0, <3>1, <3>2 DEF FillInv
      <4> QED
        BY <1>0, <3>2, <4>1 DEF PortTypeOK, BooksOK, BookInv, Bookings
    <3>3. CASE /\ positions' = [positions EXCEPT ![k] = positions[k] + v]
               /\ deals' = Append(deals, <<k, "in", v>>)
      <4>1. PICK left \in Nat : left = positions[k] + v
        BY <1>0 DEF PortTypeOK
      <4>2. /\ positions' \in [Keys -> Nat] /\ deals' \in Seq(Keys \X {"in", "out"} \X Nat)
            /\ BookInv'
        BY <1>0, <3>3, <4>1, OneDeal
      <4>3. FillInv'
        BY <1>0, <2>4, <3>1, <3>3, FillKept
      <4> QED
        BY <4>2, <4>3 DEF BooksOK
    <3> QED
      BY <2>4, <3>2, <3>3 DEF Accept
  <2> QED
    BY <1>2, <2>2, <2>3, <2>4 DEF Place
<1>3. ASSUME NEW t \in Clients, Close(t) PROVE BooksOK'
  <2>1. call[t] \in Calls
    BY <1>0, <1>3, InCall DEF Close, Running
  <2>2. PICK k \in Keys, v \in Nat : k = call[t].key /\ v = call[t].volume
    BY <2>1, StackAssumption DEF Calls
  <2>3. CASE UNCHANGED broker
    BY <1>1, <2>3 DEF broker
  <2>4. CASE /\ v <= positions[k]
             /\ positions' = [positions EXCEPT ![k] = IF v >= @ THEN 0 ELSE @ - v]
             /\ deals' = Append(deals, <<k, "out", v>>)
             /\ UNCHANGED reports
    <3>1. positions[k] \in Nat
      BY <1>0 DEF PortTypeOK
    <3>2. PICK left \in Nat : left = positions[k] + (0 - v)
      BY <2>4, <3>1
    <3>3. positions' = [positions EXCEPT ![k] = left]
      <4>1. (IF v >= positions[k] THEN 0 ELSE positions[k] - v) = left
        BY <2>4, <3>1, <3>2
      <4> QED
        BY <2>4, <4>1
    <3>4. /\ positions' \in [Keys -> Nat] /\ deals' \in Seq(Keys \X {"in", "out"} \X Nat)
          /\ BookInv'
      BY <1>0, <2>4, <3>2, <3>3, OneDeal
    <3>5. Accepted' = Accepted
      BY <2>4 DEF Accepted
    <3>6. FillInv'
      BY <1>0, <2>4, <3>5, FillKept
    <3> QED
      BY <3>4, <3>6 DEF BooksOK
  <2> QED
    BY <1>3, <2>2, <2>3, <2>4 DEF Close, Closable
<1>4. ASSUME NEW t \in Clients, Lock(t) \/ Wake(t) \/ ReturnToTask(t) \/ Read(t)
                                  \/ Modify(t) \/ Cancel(t)
      PROVE  UNCHANGED <<positions, deals, reports>>
  BY <1>4 DEF Lock, Wake, ReturnToTask, Read, Modify, Cancel, broker
<1>5. ASSUME NEW t \in Clients, NEW op, NEW k, NEW v, CallPort(t, op, k, v)
      PROVE  UNCHANGED <<positions, deals, reports>>
  BY <1>5 DEF CallPort, broker
<1>6. ASSUME Flip \/ PortDone \/ UNCHANGED portVars PROVE UNCHANGED <<positions, deals, reports>>
  BY <1>6 DEF Flip, PortDone, portVars, broker
<1> QED
  BY <1>1, <1>2, <1>3, <1>4, <1>5, <1>6 DEF PortNext, Step

\* Behind the port a key is filled once, whatever replies are lost and however often
\* it is sent; what is missing from a position is what was closed; and a mutation
\* reaches the broker once.
THEOREM NothingBookedTwiceHolds == PortSpec => []NothingBookedTwice
<1>1. PortInv /\ [PortNext]_portVars => PortInv'
  BY NextCalls, NextBooks DEF PortInv, PortTypeOK, CallsOK, BooksOK
<1>2. PortInv => NothingBookedTwice
  <2> SUFFICES ASSUME PortInv PROVE OneFillPerKey /\ VolumeConserved /\ ForwardedOnce
    BY DEF NothingBookedTwice
  <2>0. DOMAIN deals = 1 .. Len(deals)
    BY DEF PortInv, PortTypeOK
  <2>1. OneFillPerKey
    BY <2>0 DEF PortInv, FillInv, OneFillPerKey, Deals
  <2>2. VolumeConserved
    BY DEF PortInv, PortTypeOK, BookInv, Bookings, VolumeConserved
  <2>3. ASSUME NEW t \in Clients, call[t].pc # "idle"
        PROVE  forwarded[t] <= IF call[t].op \in Mutations THEN 1 ELSE MaximumAttempts
    <3>1. /\ Counted(t) /\ call[t].attempt <= MaximumAttempts
          /\ call[t].op \in Mutations => call[t].attempt <= 1
      BY <2>3 DEF PortInv, AttemptInv
    <3>2. call[t].pc \in {"waiting", "running", "sleeping", "returned"} /\ forwarded[t] \in Nat
      BY <2>3, InCall DEF PortInv, PortTypeOK, Calls
    <3>3. call[t].attempt = forwarded[t] + 1 \/ call[t].attempt = forwarded[t]
      BY <3>1, <3>2 DEF Counted
    <3> QED
      BY <3>1, <3>2, <3>3, StackAssumption
  <2> QED
    BY <2>1, <2>2, <2>3 DEF ForwardedOnce
<1> QED
  BY <1>1, <1>2, InitPort, PTL DEF PortSpec

=============================================================================
