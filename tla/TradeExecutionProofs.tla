------------------------ MODULE TradeExecutionProofs ------------------------
(***************************************************************************)
(* Proofs that TradeExecution keeps its safety properties for every set of *)
(* replicas and signals, that it implements SingleSubmission, and that one *)
(* replica without faults opens one position at a time.                    *)
(***************************************************************************)
EXTENDS TradeExecution, TLAPS

\* A job is a replica and a kind of job.
LEMMA JobParts ==
    /\ \A j \in Jobs : j[1] \in Replicas /\ j[2] \in JobKinds
    /\ \A r \in Replicas, k \in JobKinds : <<r, k>> \in Jobs
    /\ "execution" \in JobKinds /\ "reconciliation" \in JobKinds
BY DEF Jobs, JobKinds

\* The initial state satisfies the inductive invariant.
LEMMA InitIInv == Init => IInv
<1> SUFFICES ASSUME Init PROVE IInv
  OBVIOUS
<1>1. TypeOK
  BY Zenon DEF Init, TypeOK, ControlTypeOK, DataTypeOK, Outcomes, PC
<1>2. JobsInv /\ OwnerInv
  BY DEF Init, JobsInv, JobInv, OwnerInv, Working, PreSend, Concluding
<1>3. AttemptInv /\ SucceededIsProtected /\ RowsFollowAttempt
  BY DEF Init, AttemptInv, SucceededIsProtected, RowsFollowAttempt, Open
<1> QED
  BY <1>1, <1>2, <1>3 DEF IInv

-----------------------------------------------------------------------------
(***************************************************************************)
(* What the control operators do to one job, and leave alone in the others.*)
(***************************************************************************)

\* Only job j may have moved.
OnlyJob(j) == \A i \in Jobs \ {j} : pc'[i] = pc[i] /\ sig'[i] = sig[i] /\ out'[i] = out[i]

\* Goto moves one job and nothing else.
LEMMA GotoControl ==
    ASSUME ControlTypeOK, NEW j \in Jobs, NEW p \in PC, Goto(j, p)
    PROVE  /\ ControlTypeOK' /\ OnlyJob(j)
           /\ pc'[j] = p /\ sig'[j] = sig[j] /\ out'[j] = out[j]
BY DEF ControlTypeOK, Goto, OnlyJob, process

\* Conclude sends one job to its final update with a verdict.
LEMMA ConcludeControl ==
    ASSUME ControlTypeOK, NEW j \in Jobs, NEW o \in Outcomes, Conclude(j, o)
    PROVE  /\ ControlTypeOK' /\ OnlyJob(j)
           /\ pc'[j] = "settle" /\ sig'[j] = sig[j] /\ out'[j] = o
BY DEF ControlTypeOK, Conclude, OnlyJob, process, PC

\* Return sends one job to record_execution and frees its lock.
LEMMA ReturnControl ==
    ASSUME ControlTypeOK, NEW j \in Jobs, NEW o \in Outcomes, Return(j, o)
    PROVE  /\ ControlTypeOK' /\ OnlyJob(j)
           /\ pc'[j] = "record" /\ sig'[j] = sig[j] /\ out'[j] = o
<1>1. lock' \in [Replicas -> JobKinds \cup {"free"}]
  BY JobParts DEF ControlTypeOK, Return, Unlock
<1> QED
  BY <1>1 DEF ControlTypeOK, Return, OnlyJob, PC

\* End makes one job idle, whatever becomes of its process and lease.
LEMMA EndControl ==
    ASSUME ControlTypeOK, NEW j \in Jobs, NEW ok \in BOOLEAN, End(j, ok)
    PROVE  ControlTypeOK' /\ OnlyJob(j) /\ pc'[j] = "idle"
<1>1. lock' \in [Replicas -> JobKinds \cup {"free"}]
  BY JobParts DEF ControlTypeOK, End, Unlock
<1>2. lease' \in [JobKinds -> Replicas \cup {NoReplica}]
  BY JobParts DEF ControlTypeOK, End, Release
<1>3. proc' \in [Replicas -> {"up", "down", "starting"}]
  BY JobParts DEF ControlTypeOK, End
<1>4. pc' \in [Jobs -> PC] /\ out' \in [Jobs -> Outcomes]
  BY DEF ControlTypeOK, End, PC, Outcomes
<1>5. sig' \in [Jobs -> Signals \cup {NoSignal}] /\ todo' \in [Jobs -> SUBSET Signals]
  BY DEF ControlTypeOK, End
<1>6. OnlyJob(j) /\ pc'[j] = "idle"
  BY DEF ControlTypeOK, End, OnlyJob
<1> QED
  BY <1>1, <1>2, <1>3, <1>4, <1>5, <1>6 DEF ControlTypeOK

\* A step that changes no durable state keeps the invariant if the job it moves
\* stays within what the attempt and the broker allow it to be doing.
LEMMA ReadOnlyStep ==
    ASSUME IInv, ControlTypeOK', NEW j \in Jobs, OnlyJob(j), JobInv(j)',
           UNCHANGED <<rows, attempt, world, market>>,
           pc'[j] \in PreSend => pc[j] \in PreSend /\ sig'[j] = sig[j]
    PROVE  IInv'
<1> USE DEF rows, world, market
<1>1. TypeOK'
  BY DEF IInv, TypeOK, DataTypeOK
<1>2. JobsInv'
  BY DEF IInv, JobsInv, JobInv, OnlyJob
<1>3. OwnerInv'
  BY DEF IInv, OwnerInv, OnlyJob
<1>4. AttemptInv' /\ SucceededIsProtected' /\ RowsFollowAttempt'
  BY DEF IInv, AttemptInv, SucceededIsProtected, RowsFollowAttempt
<1> QED
  BY <1>1, <1>2, <1>3, <1>4 DEF IInv

\* A step that changes only the attempt of the job's own signal, as the "allowed"
\* table permits and with the evidence the new status calls for.
LEMMA AttemptStep ==
    ASSUME IInv, ControlTypeOK', NEW j \in Jobs, OnlyJob(j), JobInv(j)',
           sig[j] \in Signals, NEW b, Allowed(attempt[sig[j]], b),
           attempt' = [attempt EXCEPT ![sig[j]] = b],
           UNCHANGED <<rows, world, market>>,
           pc[j] \in PreSend \/ sends[sig[j]] = 1,
           pc'[j] \in PreSend => pc[j] \in PreSend /\ sig'[j] = sig[j],
           b = "REJECTED" => broker[sig[j]] \in {"none", "refused"},
           b \in {"SUCCEEDED", "PROTECTION_FAILED"} => broker[sig[j]] \in Accepted,
           b = "SUCCEEDED" /\ OrderType = "MARKET" => broker[sig[j]] \notin {"wrong", "naked"}
    PROVE  IInv'
<1> USE DEF rows, world, market
<1>0. /\ b \in Pending \cup Final
      /\ attempt[sig[j]] \in {"CLAIMED", "SUBMITTED", "UNKNOWN"}
      /\ \A s \in Signals : attempt'[s] = IF s = sig[j] THEN b ELSE attempt[s]
  BY DEF Allowed, Pending, Final, IInv, TypeOK, DataTypeOK
<1>1. TypeOK'
  BY <1>0 DEF IInv, TypeOK, DataTypeOK
<1>2. ASSUME NEW i \in Jobs, i # j PROVE JobInv(i)'
  <2>1. pc'[i] = pc[i] /\ sig'[i] = sig[i] /\ out'[i] = out[i] /\ JobInv(i)
    BY <1>2 DEF OnlyJob, IInv, JobsInv
  <2>2. pc[i] \in PreSend => sig[i] # sig[j]
    BY <2>1, <1>2 DEF IInv, OwnerInv, JobInv
  <2>3. pc[i] = "record" /\ out[i] \in Final \cup {"SAFELY_CLOSED"} => sig[i] # sig[j]
    BY <2>1, <1>0 DEF JobInv, Final
  <2>4. pc[i] \in Working => sig[i] \in Signals
    BY <2>1 DEF JobInv
  <2> QED
    BY <2>1, <2>2, <2>3, <2>4, <1>0 DEF JobInv, PreSend, Working
<1>3. JobsInv'
  BY <1>2 DEF JobsInv
<1>4. OwnerInv'
  BY DEF IInv, OwnerInv, OnlyJob
<1>5. AttemptInv'
  <2>1. sends[sig[j]] = 1 \/ broker[sig[j]] = "none"
    BY DEF IInv, JobsInv, JobInv, AttemptInv
  <2> QED
    BY <2>1, <1>0 DEF IInv, AttemptInv, Pending, Final, Accepted, Open
<1>6. SucceededIsProtected'
  BY <1>0 DEF IInv, SucceededIsProtected, Open
<1>7. RowsFollowAttempt'
  BY <1>0 DEF IInv, RowsFollowAttempt
<1> QED
  BY <1>1, <1>3, <1>4, <1>5, <1>6, <1>7 DEF IInv

\* What an order may become at the broker: an order that was accepted stays so,
\* a finished one does not change, a fill gets its stop when the order lands.
LegalMove(was, is) ==
    /\ was \in Unsettled
    /\ is \in {"refused", "cancelled", "closed"} \cup Unsettled
    /\ was \in Accepted => is \in Accepted
    /\ is = "resting" => OrderType = "PENDING"
    /\ is \in {"wrong", "naked"} => OrderType = "PENDING" \/ was = "inflight"

MarketMoved ==
    /\ broker' \in [Signals -> {"none", "refused", "cancelled", "closed"} \cup Unsettled]
    /\ \A s \in Signals : broker'[s] = broker[s] \/ LegalMove(broker[s], broker'[s])

\* A step that changes only what the broker holds keeps the invariant of the
\* durable state and that of every job that stands still.
LEMMA MarketStep ==
    ASSUME IInv, UNCHANGED <<rows, attempt, expired, calm, sends>>, kill' \in BOOLEAN,
           MarketMoved
    PROVE  /\ DataTypeOK' /\ AttemptInv' /\ SucceededIsProtected' /\ RowsFollowAttempt'
           /\ \A i \in Jobs : /\ pc'[i] = pc[i] /\ sig'[i] = sig[i] /\ out'[i] = out[i]
                              => JobInv(i)'
<1> USE DEF rows, world, Open, Unsettled, Accepted, MarketMoved
<1>1. DataTypeOK'
  BY DEF IInv, TypeOK, DataTypeOK
<1>2. AttemptInv'
  BY DEF IInv, AttemptInv, LegalMove
<1>3. SucceededIsProtected'
  BY DEF IInv, SucceededIsProtected, AttemptInv, LegalMove
<1>4. RowsFollowAttempt'
  BY DEF IInv, RowsFollowAttempt, LegalMove
<1>5. ASSUME NEW i \in Jobs, pc'[i] = pc[i], sig'[i] = sig[i], out'[i] = out[i]
      PROVE  JobInv(i)'
  <2>1. JobInv(i)
    BY DEF IInv, JobsInv
  <2>2. /\ pc[i] \in Concluding => sig[i] \in Signals
        /\ pc[i] = "record" => sig[i] \in Signals
    BY <2>1 DEF JobInv, Working
  <2>3. (pc[i] \in Concluding => broker[sig[i]] \in Accepted)'
    BY <2>1, <2>2, <1>5 DEF JobInv, LegalMove
  <2>4. (pc[i] = "settle" /\ out[i] = "SUCCEEDED" /\ OrderType = "MARKET"
           => broker[sig[i]] \notin {"wrong", "naked"})'
    BY <2>1, <2>2, <1>5 DEF JobInv, LegalMove, Concluding
  <2>5. (pc[i] \in {"settle", "record"} /\ out[i] = "SAFELY_CLOSED" => broker[sig[i]] = "closed")'
    BY <2>1, <2>2, <1>5 DEF JobInv, LegalMove, Concluding
  <2> QED
    BY <2>1, <2>3, <2>4, <2>5, <1>5 DEF JobInv
<1> QED
  BY <1>1, <1>2, <1>3, <1>4, <1>5

\* The same for a step in which one job moves as well.
LEMMA MarketJobStep ==
    ASSUME IInv, ControlTypeOK', NEW j \in Jobs, OnlyJob(j), JobInv(j)',
           pc'[j] \notin PreSend, UNCHANGED <<rows, attempt, world, sends>>,
           MarketMoved
    PROVE  IInv'
<1>0. UNCHANGED <<expired, calm>> /\ kill' \in BOOLEAN
  BY DEF IInv, TypeOK, DataTypeOK, world
<1>1. /\ DataTypeOK' /\ AttemptInv' /\ SucceededIsProtected' /\ RowsFollowAttempt'
      /\ \A i \in Jobs : pc'[i] = pc[i] /\ sig'[i] = sig[i] /\ out'[i] = out[i] => JobInv(i)'
  BY <1>0, MarketStep
<1>2. JobsInv'
  BY <1>1 DEF JobsInv, OnlyJob
<1>3. OwnerInv'
  BY DEF IInv, OwnerInv, OnlyJob
<1> QED
  BY <1>1, <1>2, <1>3 DEF IInv, TypeOK

-----------------------------------------------------------------------------
(***************************************************************************)
(* The read-only steps.                                                    *)
(***************************************************************************)

\* What the invariant says of one job.
LEMMA JobFacts ==
    ASSUME IInv, NEW j \in Jobs
    PROVE  ControlTypeOK /\ JobInv(j) /\ (pc[j] \in Working => sig[j] \in Signals)
BY DEF IInv, TypeOK, JobsInv, JobInv

\* A job goes on before it has claimed anything.
LEMMA GotoUnclaimed ==
    ASSUME IInv, NEW j \in Jobs, NEW p \in {"positions", "orders", "claim"},
           sig[j] \in Signals, Goto(j, p), UNCHANGED <<rows, attempt, world, market>>
    PROVE  IInv'
<1>1. /\ ControlTypeOK' /\ OnlyJob(j) /\ pc'[j] = p /\ sig'[j] = sig[j]
  BY JobFacts, GotoControl DEF PC
<1>2. JobInv(j)'
  BY <1>1 DEF JobInv, PreSend, Concluding
<1> QED
  BY <1>1, <1>2, ReadOnlyStep DEF PreSend

\* A job goes on with an order that the broker accepted.
LEMMA GotoConcluding ==
    ASSUME IInv, NEW j \in Jobs, NEW p \in {"matched", "verify", "repair", "close"},
           sig[j] \in Signals, Goto(j, p), UNCHANGED <<rows, attempt, world, market>>,
           broker[sig[j]] \in Accepted
    PROVE  IInv'
<1>1. /\ ControlTypeOK' /\ OnlyJob(j) /\ pc'[j] = p /\ sig'[j] = sig[j]
  BY JobFacts, GotoControl DEF PC
<1>2. sends[sig[j]] = 1
  BY DEF IInv, AttemptInv, Accepted, Open
<1>3. JobInv(j)'
  BY <1>1, <1>2 DEF JobInv, PreSend, market
<1> QED
  BY <1>1, <1>3, ReadOnlyStep DEF PreSend

\* A job decides what to store about an order that the broker accepted.
LEMMA ConcludeStep ==
    ASSUME IInv, NEW j \in Jobs, NEW o \in {"SUCCEEDED", "PROTECTION_FAILED"},
           sig[j] \in Signals, Conclude(j, o), UNCHANGED <<rows, attempt, world, market>>,
           broker[sig[j]] \in Accepted,
           o = "SUCCEEDED" /\ OrderType = "MARKET" => broker[sig[j]] \notin {"wrong", "naked"}
    PROVE  IInv'
<1>1. /\ ControlTypeOK' /\ OnlyJob(j)
      /\ pc'[j] = "settle" /\ sig'[j] = sig[j] /\ out'[j] = o
  BY JobFacts, ConcludeControl DEF Outcomes, Final
<1>2. sends[sig[j]] = 1
  BY DEF IInv, AttemptInv, Accepted, Open
<1>3. JobInv(j)'
  BY <1>1, <1>2 DEF JobInv, PreSend, market
<1> QED
  BY <1>1, <1>3, ReadOnlyStep DEF PreSend

\* The executor returns an outcome that the stored attempt bears out.
LEMMA ReturnStep ==
    ASSUME IInv, NEW j \in Jobs, NEW o \in Outcomes \ {"NONE", "SAFELY_CLOSED"},
           sig[j] \in Signals, Return(j, o), UNCHANGED <<rows, attempt, world, market>>,
           o \in Final => attempt[sig[j]] = o
    PROVE  IInv'
<1>1. /\ ControlTypeOK' /\ OnlyJob(j)
      /\ pc'[j] = "record" /\ sig'[j] = sig[j] /\ out'[j] = o
  BY JobFacts, ReturnControl
<1>2. JobInv(j)'
  BY <1>1 DEF JobInv, PreSend, Concluding
<1> QED
  BY <1>1, <1>2, ReadOnlyStep DEF PreSend

\* A job ends.
LEMMA EndStep ==
    ASSUME IInv, NEW j \in Jobs, NEW ok \in BOOLEAN, End(j, ok),
           UNCHANGED <<rows, attempt, world, market>>
    PROVE  IInv'
<1>1. ControlTypeOK' /\ OnlyJob(j) /\ pc'[j] = "idle"
  BY JobFacts, EndControl
<1>2. JobInv(j)'
  BY <1>1 DEF JobInv, PreSend, Concluding, Working
<1> QED
  BY <1>1, <1>2, ReadOnlyStep DEF PreSend

\* What _outcome_from_record answers is an outcome the attempt bears out.
LEMMA OutcomeBorneOut ==
    ASSUME IInv, NEW s \in Signals, attempt[s] # "NONE"
    PROVE  /\ OutcomeFromRecord(attempt[s]) \in Outcomes \ {"NONE", "SAFELY_CLOSED"}
           /\ OutcomeFromRecord(attempt[s]) \in Final => attempt[s] = OutcomeFromRecord(attempt[s])
BY DEF IInv, TypeOK, DataTypeOK, OutcomeFromRecord, Outcomes, Final, Pending

\* The execution job up to the claim.
LEMMA ExecutionReads ==
    ASSUME IInv, NEW j \in Jobs,
           \/ ExecutionLookup(j) \/ ExecutionPositions(j) \/ ExecutionOrders(j) \/ Block(j)
           \/ Finish(j) \/ JobError(j)
    PROVE  IInv'
<1>0. pc[j] \in {"lookup", "positions", "orders"} => sig[j] \in Signals
  BY JobFacts DEF Working
<1>1. CASE ExecutionLookup(j)
  BY <1>0, <1>1, OutcomeBorneOut, ReturnStep, GotoUnclaimed DEF ExecutionLookup, At
<1>2. CASE ExecutionPositions(j) \/ ExecutionOrders(j)
  BY <1>0, <1>2, GotoUnclaimed DEF ExecutionPositions, ExecutionOrders, At
<1>3. CASE Block(j)
  BY <1>0, <1>3, ReturnStep DEF Block, Outcomes, Final
<1>4. CASE Finish(j) \/ JobError(j)
  BY <1>4, EndStep, Zenon DEF Finish, JobError
<1> QED
  BY <1>1, <1>2, <1>3, <1>4

\* The reconciliation job, and the verification both jobs share.
LEMMA ReconciliationReads ==
    ASSUME IInv, NEW j \in Jobs,
           \/ ReconciliationLookup(j) \/ ReconciliationPositions(j)
           \/ ReconciliationMatched(j) \/ ReconciliationOrders(j)
           \/ ReconciliationDeferred(j) \/ VerifyProtection(j) \/ PositionNotVisible(j)
    PROVE  IInv'
<1>0. /\ pc[j] \in {"lookup", "positions", "orders", "matched", "verify"} => sig[j] \in Signals
      /\ pc[j] \in {"matched", "verify"} => broker[sig[j]] \in Accepted
  BY JobFacts, SMTT(30) DEF Working, Concluding, JobInv
<1>1. CASE ReconciliationLookup(j)
  BY <1>0, <1>1, OutcomeBorneOut, ReturnStep, GotoUnclaimed, SMTT(30)
  DEF ReconciliationLookup, At, Outcomes, Final
<1>2. CASE ReconciliationPositions(j)
  BY <1>0, <1>2, GotoUnclaimed, GotoConcluding, SMTT(30) DEF ReconciliationPositions, At, Accepted
<1>3. CASE ReconciliationMatched(j) \/ PositionNotVisible(j)
  BY <1>0, <1>3, GotoConcluding, SMTT(30) DEF ReconciliationMatched, PositionNotVisible, At
<1>4. CASE ReconciliationOrders(j)
  BY <1>0, <1>4, ConcludeStep, ReturnStep, SMTT(30)
  DEF ReconciliationOrders, At, Accepted, Outcomes, Final
<1>5. CASE ReconciliationDeferred(j)
  BY <1>0, <1>5, ReturnStep DEF ReconciliationDeferred, Outcomes, Final
<1>6. CASE VerifyProtection(j)
  BY <1>0, <1>6, ConcludeStep, GotoConcluding DEF VerifyProtection, At
<1> QED
  BY <1>1, <1>2, <1>3, <1>4, <1>5, <1>6

-----------------------------------------------------------------------------
(***************************************************************************)
(* The steps that write the attempt.                                       *)
(***************************************************************************)

\* The claim of a signal nobody has claimed gives it an owner.
LEMMA ClaimStep == ASSUME IInv, NEW j \in Jobs, Claim(j) PROVE IInv'
<1> DEFINE s == sig[j]
<1>0. s \in Signals /\ ControlTypeOK
  BY JobFacts DEF Claim, At, Working
<1>1. CASE /\ attempt[s] # "NONE"
           /\ Return(j, OutcomeFromRecord(attempt[s])) \/ End(j, FALSE)
           /\ UNCHANGED <<attempt, order>>
  BY <1>0, <1>1, OutcomeBorneOut, ReturnStep, EndStep, Zenon DEF Claim, rows
<1>2. CASE /\ attempt[s] = "NONE"
           /\ attempt' = [attempt EXCEPT ![s] = "CLAIMED"]
           /\ order' = [order EXCEPT ![s] = "PENDING"]
           /\ Goto(j, "check")
  <2> USE DEF world, market
  <2>1. /\ ControlTypeOK' /\ OnlyJob(j)
        /\ pc'[j] = "check" /\ sig'[j] = s
    BY <1>0, <1>2, GotoControl DEF PC
  <2>2. /\ \A t \in Signals : attempt'[t] = IF t = s THEN "CLAIMED" ELSE attempt[t]
        /\ \A t \in Signals : order'[t] = IF t = s THEN "PENDING" ELSE order[t]
        /\ UNCHANGED <<signal, position, kill, expired, calm, broker, sends>>
    BY <1>0, <1>2 DEF Claim, IInv, TypeOK, DataTypeOK
  <2>3. DataTypeOK'
    BY <1>0, <1>2, <2>2 DEF IInv, TypeOK, DataTypeOK
  <2>4. sends[s] = 0
    BY <1>0, <1>2 DEF IInv, AttemptInv
  <2>5. ASSUME NEW i \in Jobs PROVE JobInv(i)' /\ (i # j /\ pc[i] \in PreSend => sig[i] # s)
    <3>1. CASE i = j
      BY <3>1, <2>1, <2>2, <2>4, <1>0, SMTT(30) DEF JobInv, PreSend, Concluding
    <3>2. CASE i # j
      <4>1. pc'[i] = pc[i] /\ sig'[i] = sig[i] /\ out'[i] = out[i]
        BY <3>2, <2>1 DEF OnlyJob
      <4>2. JobInv(i) /\ (pc[i] \in Working => sig[i] \in Signals)
        BY JobFacts
      <4>3. /\ pc[i] \in PreSend => sig[i] # s
            /\ pc[i] = "record" /\ out[i] \in Final \cup {"SAFELY_CLOSED"} => sig[i] # s
        BY <4>2, <1>2 DEF JobInv, PreSend, Final
      <4> QED
        BY <4>1, <4>2, <4>3, <2>2 DEF JobInv, Working, PreSend
    <3> QED
      BY <3>1, <3>2
  <2>6. OwnerInv'
    BY <2>1, <2>5 DEF IInv, OwnerInv, OnlyJob
  <2>7. AttemptInv' /\ SucceededIsProtected' /\ RowsFollowAttempt'
    BY <1>2, <2>2, <2>4 DEF IInv, AttemptInv, SucceededIsProtected, RowsFollowAttempt
  <2> QED
    BY <2>1, <2>3, <2>5, <2>6, <2>7 DEF IInv, TypeOK, JobsInv
<1> QED
  BY <1>1, <1>2, Zenon DEF Claim

\* An update that returns to the caller keeps the invariant when the status it
\* stores is true of the broker; one that the table forbids ends the job.
LEMMA UpdateReturnStep ==
    ASSUME IInv, NEW j \in Jobs, NEW a \in Final \cup {"UNKNOWN"}, NEW o,
           sig[j] \in Signals, Update(j, a, Return(j, o)), UNCHANGED <<rows, world, market>>,
           pc[j] \in PreSend \/ sends[sig[j]] = 1,
           \/ o = a
           \/ o = "SAFELY_CLOSED" /\ a = "PROTECTION_FAILED" /\ broker[sig[j]] = "closed",
           a = "REJECTED" => broker[sig[j]] \in {"none", "refused"},
           a \in {"SUCCEEDED", "PROTECTION_FAILED"} => broker[sig[j]] \in Accepted,
           a = "SUCCEEDED" /\ OrderType = "MARKET" => broker[sig[j]] \notin {"wrong", "naked"}
    PROVE  IInv'
<1>1. CASE Allowed(attempt[sig[j]], a)
  <2>1. attempt' = [attempt EXCEPT ![sig[j]] = a] /\ Return(j, o)
    BY <1>1 DEF Update
  <2>2. attempt'[sig[j]] = a
    BY <2>1 DEF IInv, TypeOK, DataTypeOK
  <2>3. /\ ControlTypeOK' /\ OnlyJob(j)
        /\ pc'[j] = "record" /\ sig'[j] = sig[j] /\ out'[j] = o
    BY <2>1, JobFacts, ReturnControl DEF Outcomes, Final
  <2>4. JobInv(j)'
    BY <2>2, <2>3 DEF JobInv, PreSend, Concluding, Final, market
  <2> QED
    BY <1>1, <2>1, <2>3, <2>4, AttemptStep, Zenon DEF PreSend
<1>2. CASE ~Allowed(attempt[sig[j]], a)
  BY <1>2, EndStep, Zenon DEF Update
<1> QED
  BY <1>1, <1>2

\* order_check and the announcement, by the owner of the signal.
LEMMA CheckAndAnnounceStep ==
    ASSUME IInv, NEW j \in Jobs, OrderCheck(j) \/ Announce(j) PROVE IInv'
<1>0. /\ pc[j] \in {"check", "submit"} /\ sig[j] \in Signals /\ ControlTypeOK
      /\ attempt[sig[j]] = "CLAIMED" /\ sends[sig[j]] = 0 /\ broker[sig[j]] = "none"
  BY JobFacts DEF OrderCheck, Announce, At, Working, PreSend, JobInv, IInv, AttemptInv
<1>1. CASE OrderCheck(j) /\ Update(j, "REJECTED", Return(j, "REJECTED"))
  BY <1>0, <1>1, UpdateReturnStep DEF OrderCheck, PreSend, Final
<1>2. CASE OrderCheck(j) /\ Goto(j, "submit") /\ UNCHANGED attempt
  <2>1. /\ ControlTypeOK' /\ OnlyJob(j) /\ pc'[j] = "submit" /\ sig'[j] = sig[j]
    BY <1>0, <1>2, GotoControl DEF PC
  <2>2. JobInv(j)'
    BY <2>1, <1>0, <1>2 DEF OrderCheck, JobInv, PreSend, Concluding, market
  <2> QED
    BY <1>0, <1>2, <2>1, <2>2, ReadOnlyStep DEF OrderCheck, PreSend
<1>3. CASE Announce(j)
  <2>1. Allowed(attempt[sig[j]], "SUBMITTED")
    BY <1>0 DEF Allowed
  <2>2. attempt' = [attempt EXCEPT ![sig[j]] = "SUBMITTED"] /\ Goto(j, "send")
    BY <1>3, <2>1 DEF Announce, Update
  <2>3. attempt'[sig[j]] = "SUBMITTED"
    BY <2>2, <1>0 DEF IInv, TypeOK, DataTypeOK
  <2>4. /\ ControlTypeOK' /\ OnlyJob(j) /\ pc'[j] = "send" /\ sig'[j] = sig[j]
    BY <1>0, <2>2, GotoControl, SMTT(30) DEF PC
  <2>5. JobInv(j)'
    BY <2>3, <2>4, <1>0, <1>3 DEF Announce, JobInv, PreSend, Concluding, market
  <2> QED
    BY <1>0, <1>3, <2>1, <2>2, <2>4, <2>5, AttemptStep, Zenon DEF Announce, PreSend
<1> QED
  BY <1>1, <1>2, <1>3 DEF OrderCheck

\* The reply, its loss and the final update.
LEMMA ReplyAndSettleStep ==
    ASSUME IInv, NEW j \in Jobs, Reply(j) \/ ReplyLost(j) \/ Settle(j) PROVE IInv'
<1>0. /\ pc[j] \in {"await", "settle"} /\ sig[j] \in Signals /\ ControlTypeOK
      /\ sends[sig[j]] = 1 /\ JobInv(j)
  BY JobFacts, SMTT(30) DEF Reply, ReplyLost, Settle, At, Working, Concluding, JobInv
<1>1. broker[sig[j]] \notin {"inflight", "refused"} => broker[sig[j]] \in Accepted
  BY <1>0 DEF IInv, TypeOK, DataTypeOK, AttemptInv, Accepted, Unsettled
<1>2. CASE Reply(j)
  BY <1>0, <1>1, <1>2, UpdateReturnStep, GotoConcluding, OrderTypeAssumption, Zenon
  DEF Reply, Final
<1>3. CASE ReplyLost(j)
  BY <1>0, <1>3, UpdateReturnStep, Zenon DEF ReplyLost
<1>4. CASE Settle(j)
  <2> DEFINE a == IF out[j] = "SAFELY_CLOSED" THEN "PROTECTION_FAILED" ELSE out[j]
             o == IF j[2] = "execution" THEN out[j] ELSE a
  <2>1. /\ a \in {"SUCCEEDED", "PROTECTION_FAILED"}
        /\ o = a \/ (o = "SAFELY_CLOSED" /\ a = "PROTECTION_FAILED" /\ broker[sig[j]] = "closed")
        /\ broker[sig[j]] \in Accepted
        /\ a = "SUCCEEDED" /\ OrderType = "MARKET" => broker[sig[j]] \notin {"wrong", "naked"}
    BY <1>0, <1>4, Zenon DEF Settle, At, JobInv, Concluding
  <2>2. Update(j, a, Return(j, o)) /\ UNCHANGED <<rows, world, market>>
    BY <1>4, Zenon DEF Settle
  <2> HIDE DEF a, o
  <2> QED
    BY <1>0, <2>1, <2>2, UpdateReturnStep, Zenon DEF Final
<1> QED
  BY <1>2, <1>3, <1>4, SMTT(30)

-----------------------------------------------------------------------------
(***************************************************************************)
(* The send, and the steps that change what the broker holds.              *)
(***************************************************************************)

\* The owner sends the one order of its signal.
LEMMA SendStep == ASSUME IInv, NEW j \in Jobs, Send(j) PROVE IInv'
<1> DEFINE s == sig[j]
<1> USE DEF rows, world
<1>0. /\ s \in Signals /\ ControlTypeOK /\ pc[j] = "send"
      /\ attempt[s] = "SUBMITTED" /\ sends[s] = 0 /\ broker[s] = "none"
  BY JobFacts DEF Send, At, Working, PreSend, JobInv, IInv, AttemptInv
<1>1. /\ ControlTypeOK' /\ OnlyJob(j)
      /\ pc'[j] = "await" /\ sig'[j] = s
  BY <1>0, GotoControl DEF Send, PC
<1>2. /\ \A t \in Signals : sends'[t] = IF t = s THEN 1 ELSE sends[t]
      /\ \A t \in Signals : broker'[t] = IF t = s THEN "inflight" ELSE broker[t]
      /\ UNCHANGED <<signal, order, position, attempt, kill, expired, calm>>
  BY <1>0 DEF Send, IInv, TypeOK, DataTypeOK
<1>3. DataTypeOK'
  BY <1>0, <1>2 DEF Send, IInv, TypeOK, DataTypeOK, Unsettled
<1>4. ASSUME NEW i \in Jobs PROVE JobInv(i)'
  <2>1. CASE i = j
    BY <2>1, <1>0, <1>1, <1>2 DEF JobInv, PreSend, Concluding
  <2>2. CASE i # j
    <3>1. pc'[i] = pc[i] /\ sig'[i] = sig[i] /\ out'[i] = out[i]
      BY <2>2, <1>1 DEF OnlyJob
    <3>2. JobInv(i) /\ (pc[i] \in Working => sig[i] \in Signals)
      BY JobFacts
    <3>3. pc[i] \in PreSend => sig[i] # s
      BY <2>2, <1>0, SMTT(30) DEF PreSend, IInv, OwnerInv
    <3>4. pc[i] \in {"await"} \cup Concluding => sig[i] # s
      BY <3>2, <1>0 DEF JobInv
    <3>5. pc[i] \in {"record", "settle"} /\ out[i] = "SAFELY_CLOSED" => sig[i] # s
      BY <3>2, <1>0 DEF JobInv
    <3> QED
      BY <3>1, <3>2, <3>3, <3>4, <3>5, <1>2, Zenon DEF JobInv, Working, PreSend, Concluding
  <2> QED
    BY <2>1, <2>2, SMTT(30)
<1>5. OwnerInv'
  BY <1>1 DEF IInv, OwnerInv, OnlyJob, PreSend
<1>6. AttemptInv'
  BY <1>0, <1>2 DEF IInv, AttemptInv
<1>7. SucceededIsProtected' /\ RowsFollowAttempt'
  BY <1>0, <1>2 DEF IInv, SucceededIsProtected, RowsFollowAttempt, Open
<1> QED
  BY <1>1, <1>3, <1>4, <1>5, <1>6, <1>7 DEF IInv, TypeOK, JobsInv

\* The broker is left alone, or the open position of one signal gets its stop
\* and target, or is closed.
LEMMA PositionMoves ==
    ASSUME IInv, NEW s \in Signals,
           \/ UNCHANGED broker
           \/ /\ broker[s] \in Open
              /\ \E b \in {"exact", "closed"} : broker' = [broker EXCEPT ![s] = b]
    PROVE  MarketMoved
BY DEF MarketMoved, IInv, TypeOK, DataTypeOK, LegalMove, Accepted, Unsettled, Open

\* modify_position and close_position, applied or not, reported or not.
LEMMA RepairAndCloseStep ==
    ASSUME IInv, NEW j \in Jobs,
           RepairProtection(j) \/ RepairFails(j) \/ SafeClose(j) \/ SafeCloseFails(j)
    PROVE  IInv'
<1>0. /\ sig[j] \in Signals /\ ControlTypeOK /\ sends[sig[j]] = 1
      /\ broker[sig[j]] \in Accepted
  BY JobFacts DEF RepairProtection, RepairFails, SafeClose, SafeCloseFails, At, Working,
     Concluding, JobInv
<1>1. UNCHANGED <<rows, attempt, world, sends>>
  BY DEF RepairProtection, RepairFails, SafeClose, SafeCloseFails
<1>2. MarketMoved
  BY <1>0, PositionMoves DEF RepairProtection, RepairFails, SafeClose, SafeCloseFails
<1>3. broker'[sig[j]] \in Accepted
  BY <1>0, <1>2 DEF MarketMoved, LegalMove
<1>4. CASE Goto(j, "close")
  <2>1. ControlTypeOK' /\ OnlyJob(j) /\ pc'[j] = "close" /\ sig'[j] = sig[j]
    BY <1>0, <1>4, GotoControl, Zenon DEF PC
  <2>2. JobInv(j)'
    BY <1>0, <1>1, <1>3, <2>1, Zenon DEF JobInv, PreSend
  <2>3. pc'[j] \notin PreSend
    BY <2>1 DEF PreSend
  <2> QED
    BY <1>1, <1>2, <2>1, <2>2, <2>3, MarketJobStep, Zenon
<1>5. ASSUME NEW o \in {"SUCCEEDED", "PROTECTION_FAILED", "SAFELY_CLOSED"}, Conclude(j, o),
             o = "SUCCEEDED" => broker'[sig[j]] = "exact",
             o = "SAFELY_CLOSED" => broker'[sig[j]] = "closed"
      PROVE  IInv'
  <2>1. /\ ControlTypeOK' /\ OnlyJob(j)
        /\ pc'[j] = "settle" /\ sig'[j] = sig[j] /\ out'[j] = o
    BY <1>0, <1>5, ConcludeControl, Zenon DEF Outcomes, Final
  <2>2. JobInv(j)'
    BY <1>0, <1>1, <1>3, <1>5, <2>1, Zenon DEF JobInv, PreSend
  <2>3. pc'[j] \notin PreSend
    BY <2>1 DEF PreSend
  <2> QED
    BY <1>1, <1>2, <2>1, <2>2, <2>3, MarketJobStep, Zenon
<1>6. broker \in [Signals -> {"none", "refused", "cancelled", "closed"} \cup Unsettled]
  BY DEF IInv, TypeOK, DataTypeOK
<1>7. CASE RepairProtection(j)
  BY <1>0, <1>4, <1>5, <1>6, <1>7 DEF RepairProtection
<1>8. CASE RepairFails(j)
  BY <1>4, <1>8 DEF RepairFails
<1>9. CASE SafeClose(j)
  BY <1>0, <1>5, <1>6, <1>9 DEF SafeClose
<1>10. CASE SafeCloseFails(j)
  BY <1>5, <1>10 DEF SafeCloseFails
<1> QED
  BY <1>7, <1>8, <1>9, <1>10

\* Cancelling resting entries is a legal move of the broker.
LEMMA CancelledMoves ==
    ASSUME IInv, NEW S \in SUBSET Resting, broker' = Cancelled(S)
    PROVE  MarketMoved
<1>1. broker' \in [Signals -> {"none", "refused", "cancelled", "closed"} \cup Unsettled]
  BY DEF Cancelled, IInv, TypeOK, DataTypeOK
<1>2. \A s \in Signals : broker'[s] = broker[s] \/ LegalMove(broker[s], broker'[s])
  BY DEF Cancelled, Resting, LegalMove, Accepted, Unsettled
<1> QED
  BY <1>1, <1>2 DEF MarketMoved

\* A change at the broker in which no job moves.
LEMMA MarketOnlyStep ==
    ASSUME IInv, UNCHANGED <<process, jobs, rows, attempt, expired, calm, sends>>,
           kill' \in BOOLEAN, MarketMoved
    PROVE  IInv'
<1>1. /\ DataTypeOK' /\ AttemptInv' /\ SucceededIsProtected' /\ RowsFollowAttempt'
      /\ \A i \in Jobs : pc'[i] = pc[i] /\ sig'[i] = sig[i] /\ out'[i] = out[i] => JobInv(i)'
  BY MarketStep
<1>2. ControlTypeOK' /\ JobsInv' /\ OwnerInv'
  BY <1>1 DEF process, jobs, IInv, TypeOK, ControlTypeOK, JobsInv, OwnerInv
<1> QED
  BY <1>1, <1>2 DEF IInv, TypeOK

\* cancel_pending_entries removes resting orders and ends the job.
LEMMA CancelStep ==
    ASSUME IInv, NEW j \in Jobs, CancelPendingEntries(j) \/ CancelDeclined(j) PROVE IInv'
<1>1. PICK S \in SUBSET Resting : CancelEntries(j, S)
  BY DEF CancelPendingEntries, CancelDeclined
<1>2. ControlTypeOK' /\ OnlyJob(j) /\ pc'[j] = "idle"
  BY <1>1, JobFacts, EndControl, Zenon DEF CancelEntries
<1>3. JobInv(j)'
  BY <1>2 DEF JobInv, PreSend, Concluding, Working
<1>4. MarketMoved
  BY <1>1, CancelledMoves DEF CancelEntries
<1>5. pc'[j] \notin PreSend /\ UNCHANGED <<rows, attempt, world, sends>>
  BY <1>1, <1>2 DEF CancelEntries, PreSend
<1> QED
  BY <1>2, <1>3, <1>4, <1>5, MarketJobStep, Zenon

\* The broker's own steps.
LEMMA BrokerStepInv == ASSUME IInv, NEW s \in Signals, BrokerStep(s) PROVE IInv'
<1> USE DEF BrokerStep, BrokerRefuses, BrokerAccepts, BrokerTriggers, BrokerDrops, BrokerExits,
        BrokerMoves
<1>1. UNCHANGED <<process, jobs, rows, attempt, expired, calm, sends>> /\ kill' \in BOOLEAN
  BY DEF world, IInv, TypeOK, DataTypeOK
<1>2. PICK b \in {"refused", "cancelled", "closed"} \cup Unsettled :
          broker' = [broker EXCEPT ![s] = b] /\ LegalMove(broker[s], b)
  BY FillAssumption, OrderTypeAssumption
  DEF LegalMove, Accepted, Unsettled, Open, Protections, IInv, AttemptInv
<1>3. MarketMoved
  BY <1>2 DEF MarketMoved, IInv, TypeOK, DataTypeOK
<1> QED
  BY <1>1, <1>3, MarketOnlyStep

\* The kill switch, whose handler cancels entries before it is durable.
LEMMA KillSwitchStep == ASSUME IInv, KillSwitch PROVE IInv'
<1>1. PICK S \in SUBSET Resting : broker' = Cancelled(S)
  BY DEF KillSwitch
<1> QED
  BY <1>1, CancelledMoves, MarketOnlyStep DEF KillSwitch

-----------------------------------------------------------------------------
(***************************************************************************)
(* record_execution, the starts of the jobs, crashes and the world.        *)
(***************************************************************************)

\* record_execution writes rows that the outcome, and so the attempt, bears out.
LEMMA RecordStep == ASSUME IInv, NEW j \in Jobs, RecordExecution(j) PROVE IInv'
<1> DEFINE s == sig[j]
<1> USE DEF world, market
<1>0. s \in Signals /\ ControlTypeOK /\ JobInv(j) /\ pc[j] = "record"
  BY JobFacts DEF RecordExecution, At, Working
<1>1. ControlTypeOK' /\ OnlyJob(j) /\ pc'[j] = "pick"
  BY <1>0, SMTT(30) DEF RecordExecution, ControlTypeOK, OnlyJob, process, PC, Outcomes
<1>2. /\ out[j] = "SAFELY_CLOSED" => attempt[s] = "PROTECTION_FAILED" /\ broker[s] = "closed"
      /\ out[j] \in Final => attempt[s] = out[j]
      /\ out[j] \in Outcomes \ {"NONE"}
  BY <1>0 DEF JobInv, ControlTypeOK
<1>3. /\ \A t \in Signals : signal'[t] = IF t = s THEN SignalAfter(out[j], signal[t]) ELSE signal[t]
      /\ \A t \in Signals : order'[t] = IF t = s THEN OrderAfter(out[j], order[t]) ELSE order[t]
      /\ \A t \in Signals :
             position'[t] = IF t = s THEN PositionAfter(out[j], position[t]) ELSE position[t]
      /\ UNCHANGED <<attempt, kill, expired, calm, broker, sends>>
  BY <1>0 DEF RecordExecution, IInv, TypeOK, DataTypeOK
<1>4. DataTypeOK'
  BY <1>0, <1>3 DEF RecordExecution, IInv, TypeOK, DataTypeOK, SignalAfter, OrderAfter, PositionAfter
<1>5. ASSUME NEW i \in Jobs PROVE JobInv(i)'
  <2>1. CASE i = j
    BY <2>1, <1>1, Zenon DEF JobInv, Working, PreSend, Concluding
  <2>2. CASE i # j
    <3>1. pc'[i] = pc[i] /\ sig'[i] = sig[i] /\ out'[i] = out[i] /\ JobInv(i)
      BY <2>2, <1>1, JobFacts, Zenon DEF OnlyJob
    <3> QED
      BY <3>1, <1>3, Zenon DEF JobInv
  <2> QED
    BY <2>1, <2>2
<1>6. OwnerInv'
  BY <1>1 DEF IInv, OwnerInv, OnlyJob, PreSend
<1>7. AttemptInv' /\ SucceededIsProtected'
  BY <1>3, Zenon DEF IInv, AttemptInv, SucceededIsProtected
<1>8. RowsFollowAttempt'
  <2>1. \A t \in Signals : /\ signal'[t] = "EXECUTED" => attempt[t] = "SUCCEEDED"
                           /\ signal'[t] = "REJECTED" => attempt[t] = "REJECTED"
    BY <1>2, <1>3, Zenon DEF IInv, RowsFollowAttempt, SignalAfter, Final
  <2>2. \A t \in Signals :
            /\ order'[t] = "REJECTED" => attempt[t] = "REJECTED"
            /\ order'[t] = "FILLED" => attempt[t] \in {"SUCCEEDED", "PROTECTION_FAILED"}
    BY <1>2, <1>3, Zenon DEF IInv, RowsFollowAttempt, OrderAfter, Outcomes, Final
  <2>3. \A t \in Signals :
            /\ position'[t] = "POSITION_OPEN" => attempt[t] = "SUCCEEDED"
            /\ position'[t] \in {"ERROR", "CLOSED"} => attempt[t] = "PROTECTION_FAILED"
            /\ position'[t] = "CLOSED" => broker[t] = "closed"
    BY <1>2, <1>3, Zenon DEF IInv, RowsFollowAttempt, PositionAfter, Final
  <2> QED
    BY <2>1, <2>2, <2>3, <1>3, Zenon DEF RowsFollowAttempt
<1> QED
  BY <1>1, <1>4, <1>5, <1>6, <1>7, <1>8 DEF IInv, TypeOK, JobsInv

\* The steps that begin a job or a batch, and the pick of a signal.
LEMMA BeginStep ==
    ASSUME IInv,
           \/ \E r \in Replicas : ReconciliationStart(r) \/ Restart(r)
           \/ \E j \in Jobs : LoadCandidates(j) \/ PickAny(j)
    PROVE  IInv'
<1>0. ControlTypeOK
  BY DEF IInv, TypeOK
<1>1. ASSUME NEW j \in Jobs, ControlTypeOK', OnlyJob(j), pc'[j] \in {"pick", "lookup", "record"},
             pc'[j] \in {"lookup", "record"} => sig'[j] \in Signals,
             pc'[j] = "record" => out'[j] = "BLOCKED",
             UNCHANGED <<rows, attempt, world, market>>
      PROVE  IInv'
  <2>1. JobInv(j)'
    BY <1>1, Zenon DEF JobInv, PreSend, Concluding, Working, Final
  <2> QED
    BY <1>1, <2>1, ReadOnlyStep, Zenon DEF PreSend
<1>2. ASSUME NEW r \in Replicas, ReconciliationStart(r) \/ Restart(r) PROVE IInv'
  <2> DEFINE j == <<r, "reconciliation">>
  <2>1. j \in Jobs /\ UnknownKeys \in SUBSET Signals
    BY JobParts DEF UnknownKeys
  <2>2. ControlTypeOK' /\ OnlyJob(j) /\ pc'[j] = "pick"
    BY <1>0, <1>2, <2>1, JobParts, Zenon DEF ReconciliationStart, Restart, ControlTypeOK, OnlyJob, PC
  <2> QED
    BY <1>1, <1>2, <2>1, <2>2, Zenon DEF ReconciliationStart, Restart
<1>3. ASSUME NEW j \in Jobs, LoadCandidates(j) PROVE IInv'
  <2>1. ControlTypeOK' /\ OnlyJob(j) /\ pc'[j] = "pick"
    BY <1>0, <1>3, JobParts, Zenon DEF LoadCandidates, ControlTypeOK, OnlyJob, PC
  <2> QED
    BY <1>1, <1>3, <2>1, Zenon DEF LoadCandidates
<1>4. ASSUME NEW j \in Jobs, NEW s \in Signals, Pick(j, s) PROVE IInv'
  <2>1. ControlTypeOK' /\ OnlyJob(j) /\ pc'[j] = "lookup" /\ sig'[j] = s
    BY <1>0, <1>4, JobParts DEF Pick, ControlTypeOK, OnlyJob, PC
  <2> QED
    BY <1>1, <1>4, <2>1, Zenon DEF Pick
<1>5. ASSUME NEW j \in Jobs, NEW s \in Signals, PickExpired(j, s) PROVE IInv'
  <2>1. /\ ControlTypeOK' /\ OnlyJob(j)
        /\ pc'[j] = "record" /\ sig'[j] = s /\ out'[j] = "BLOCKED"
    BY <1>0, <1>5 DEF PickExpired, ControlTypeOK, OnlyJob, process, PC, Outcomes
  <2> QED
    BY <1>1, <1>5, <2>1, Zenon DEF PickExpired
<1> QED
  BY <1>2, <1>3, <1>4, <1>5 DEF PickAny

\* The execution job begins; expire_signals only touches ACTIVE signals.
LEMMA ExecutionStartStep == ASSUME IInv, NEW r \in Replicas, ExecutionStart(r) PROVE IInv'
<1> DEFINE j == <<r, "execution">>
<1> USE DEF world, market
<1>1. j \in Jobs
  BY JobParts
<1>2. ControlTypeOK' /\ OnlyJob(j) /\ pc'[j] \in {"cancel", "load"}
  BY <1>1, JobParts, Zenon DEF ExecutionStart, IInv, TypeOK, ControlTypeOK, OnlyJob, PC
<1>3. DataTypeOK'
  BY DEF ExecutionStart, IInv, TypeOK, DataTypeOK
<1>4. ASSUME NEW i \in Jobs PROVE JobInv(i)'
  <2>1. CASE i = j
    BY <2>1, <1>2, Zenon DEF JobInv, Working, PreSend, Concluding
  <2>2. CASE i # j
    <3>1. pc'[i] = pc[i] /\ sig'[i] = sig[i] /\ out'[i] = out[i] /\ JobInv(i)
      BY <2>2, <1>2, JobFacts, Zenon DEF OnlyJob
    <3> QED
      BY <3>1, Zenon DEF ExecutionStart, JobInv
  <2> QED
    BY <2>1, <2>2, SMTT(30)
<1>5. OwnerInv'
  BY <1>1, <1>2 DEF IInv, OwnerInv, OnlyJob, PreSend
<1>6. AttemptInv' /\ SucceededIsProtected' /\ RowsFollowAttempt'
  BY DEF ExecutionStart, IInv, AttemptInv, SucceededIsProtected, RowsFollowAttempt
<1> QED
  BY <1>2, <1>3, <1>4, <1>5, <1>6, Zenon DEF IInv, TypeOK, JobsInv

\* A crash forgets the jobs of one replica and nothing durable.
LEMMA CrashStep == ASSUME IInv, NEW r \in Replicas, Crash(r) PROVE IInv'
<1> USE DEF rows, world, market
<1>1. ControlTypeOK'
  BY DEF Crash, IInv, TypeOK, ControlTypeOK, PC, Outcomes
<1>2. \A i \in Jobs : \/ pc'[i] = "idle"
                      \/ pc'[i] = pc[i] /\ sig'[i] = sig[i] /\ out'[i] = out[i]
  BY Zenon DEF Crash
<1>3. DataTypeOK' /\ AttemptInv' /\ SucceededIsProtected' /\ RowsFollowAttempt'
  BY DEF Crash, IInv, TypeOK, DataTypeOK, AttemptInv, SucceededIsProtected, RowsFollowAttempt
<1>4. JobsInv'
  BY <1>2, Zenon DEF Crash, IInv, JobsInv, JobInv, Working, PreSend, Concluding
<1>5. OwnerInv'
  BY <1>2, SMTT(30) DEF IInv, OwnerInv, PreSend
<1> QED
  BY <1>1, <1>3, <1>4, <1>5 DEF IInv, TypeOK

\* Neither a lapsed lease nor the clock nor the end of the faults nor a stutter matters.
LEMMA WorldStep ==
    ASSUME IInv,
           \/ \E k \in JobKinds : LeaseExpires(k)
           \/ \E s \in Signals : SignalExpires(s)
           \/ FaultsCease \/ UNCHANGED vars
    PROVE  IInv'
<1> USE DEF LeaseExpires, SignalExpires, FaultsCease, vars, process, jobs, rows, world, market
<1>1. TypeOK'
  BY Zenon DEF IInv, TypeOK, ControlTypeOK, DataTypeOK
<1>2. UNCHANGED <<pc, sig, out, signal, order, position, attempt, broker, sends>>
  OBVIOUS
<1>3. JobsInv'
  BY <1>2, Zenon DEF IInv, JobsInv, JobInv
<1>4. OwnerInv'
  BY <1>2, Zenon DEF IInv, OwnerInv
<1>5. AttemptInv' /\ SucceededIsProtected' /\ RowsFollowAttempt'
  BY <1>2, Zenon DEF IInv, AttemptInv, SucceededIsProtected, RowsFollowAttempt
<1> QED
  BY <1>1, <1>3, <1>4, <1>5 DEF IInv

-----------------------------------------------------------------------------
(***************************************************************************)
(* The theorems.                                                           *)
(***************************************************************************)

\* Every step of the specification keeps the inductive invariant.
LEMMA NextIInv == IInv /\ [Next]_vars => IInv'
<1> SUFFICES ASSUME IInv, [Next]_vars PROVE IInv'
  OBVIOUS
<1>1. ASSUME NEW j \in Jobs, JobStep(j) \/ JobFault(j) PROVE IInv'
  <2>1. CASE \/ ExecutionLookup(j) \/ ExecutionPositions(j) \/ ExecutionOrders(j) \/ Block(j)
             \/ Finish(j) \/ JobError(j)
    BY <2>1, ExecutionReads
  <2>2. CASE \/ ReconciliationLookup(j) \/ ReconciliationPositions(j)
             \/ ReconciliationMatched(j) \/ ReconciliationOrders(j)
             \/ ReconciliationDeferred(j) \/ VerifyProtection(j) \/ PositionNotVisible(j)
    BY <2>2, ReconciliationReads
  <2>3. CASE Claim(j) \/ OrderCheck(j) \/ Announce(j) \/ Reply(j) \/ ReplyLost(j) \/ Settle(j)
    BY <2>3, ClaimStep, CheckAndAnnounceStep, ReplyAndSettleStep
  <2>4. CASE \/ Send(j) \/ RepairProtection(j) \/ RepairFails(j) \/ SafeClose(j)
             \/ SafeCloseFails(j) \/ CancelPendingEntries(j) \/ CancelDeclined(j)
    BY <2>4, SendStep, RepairAndCloseStep, CancelStep
  <2>5. CASE LoadCandidates(j) \/ RecordExecution(j)
    BY <2>5, BeginStep, RecordStep
  <2> QED
    BY <1>1, <2>1, <2>2, <2>3, <2>4, <2>5
    DEF JobStep, ExecutionStep, ReconciliationStep, SharedStep, JobFault
<1>2. ASSUME NEW r \in Replicas,
             ExecutionStart(r) \/ ReconciliationStart(r) \/ Restart(r) \/ Crash(r)
      PROVE  IInv'
  BY <1>2, ExecutionStartStep, BeginStep, CrashStep
<1>3. ASSUME NEW s \in Signals, BrokerStep(s) PROVE IInv'
  BY <1>3, BrokerStepInv
<1> QED
  BY <1>1, <1>2, <1>3, BeginStep, WorldStep, KillSwitchStep DEF Next

\* The inductive invariant holds in every reachable state.
THEOREM Invariance == Spec => []IInv
BY InitIInv, NextIInv, PTL DEF Spec

\* Every variable always has its type, for any number of replicas and signals.
THEOREM TypeCorrect == Spec => []TypeOK
<1>1. IInv => TypeOK
  BY DEF IInv
<1> QED
  BY <1>1, Invariance, PTL

\* order_send is called at most once per signal, whatever crashes, races, lapsed
\* leases and lost replies the workers meet.
THEOREM AtMostOneSendHolds == Spec => []AtMostOneSend
<1>1. IInv => AtMostOneSend
  BY DEF IInv, AttemptInv, AtMostOneSend
<1> QED
  BY <1>1, Invariance, PTL

\* An order that was sent is always behind an attempt that is durably announced.
THEOREM SentIsAnnouncedHolds == Spec => []SentIsAnnounced
<1>1. IInv => SentIsAnnounced
  BY DEF IInv, AttemptInv, SentIsAnnounced
<1> QED
  BY <1>1, Invariance, PTL

\* A concluded attempt never contradicts the broker.
THEOREM FinalMatchesBrokerHolds == Spec => []FinalMatchesBroker
<1>1. IInv => FinalMatchesBroker
  BY DEF IInv, AttemptInv, FinalMatchesBroker, Accepted
<1> QED
  BY <1>1, Invariance, PTL

\* A market fill stored as SUCCEEDED has its stop while it is open.
THEOREM SucceededIsProtectedHolds == Spec => []SucceededIsProtected
<1>1. IInv => SucceededIsProtected
  BY DEF IInv
<1> QED
  BY <1>1, Invariance, PTL

\* The rows of record_execution never run ahead of the attempt.
THEOREM RowsFollowAttemptHolds == Spec => []RowsFollowAttempt
<1>1. IInv => RowsFollowAttempt
  BY DEF IInv
<1> QED
  BY <1>1, Invariance, PTL

-----------------------------------------------------------------------------
(***************************************************************************)
(* TradeExecution implements SingleSubmission.                             *)
(***************************************************************************)

\* The steps that neither write an attempt nor send map to stutters.
LEMMA StutterSteps ==
    ASSUME [Next]_vars,
           \A j \in Jobs : ~(\/ Claim(j) \/ OrderCheck(j) \/ Announce(j) \/ Send(j)
                             \/ Reply(j) \/ ReplyLost(j) \/ Settle(j))
    PROVE  UNCHANGED <<attempt, sends>>
<1> USE DEF vars, market
<1>1. ASSUME NEW j \in Jobs, JobStep(j) \/ JobFault(j) PROVE UNCHANGED <<attempt, sends>>
  <2>1. CASE ExecutionStep(j)
    BY <2>1, Zenon DEF ExecutionStep, CancelPendingEntries, CancelEntries, LoadCandidates,
       ExecutionLookup, ExecutionPositions, ExecutionOrders, Block
  <2>2. CASE ReconciliationStep(j)
    BY <2>2, Zenon DEF ReconciliationStep, ReconciliationLookup, ReconciliationPositions,
       ReconciliationMatched, ReconciliationOrders
  <2>3. CASE SharedStep(j)
    BY <2>3, Zenon DEF SharedStep, Finish, VerifyProtection, RepairProtection, SafeClose,
       RecordExecution
  <2>4. CASE JobFault(j)
    BY <2>4, Zenon DEF JobFault, ReconciliationDeferred, PositionNotVisible, RepairFails,
       SafeCloseFails, CancelDeclined, CancelEntries, JobError
  <2> QED
    BY <1>1, <2>1, <2>2, <2>3, <2>4 DEF JobStep
<1>2. ASSUME NEW s \in Signals, BrokerStep(s) PROVE UNCHANGED <<attempt, sends>>
  BY <1>2 DEF BrokerStep, BrokerRefuses, BrokerAccepts, BrokerTriggers, BrokerDrops,
     BrokerExits, BrokerMoves
<1> QED
  BY <1>1, <1>2, Zenon DEF Next, ExecutionStart, ReconciliationStart, Restart, Crash, PickAny, Pick, PickExpired,
     LeaseExpires, SignalExpires, KillSwitch

\* An update is a step of SingleSubmission when its status fits the sends.
LEMMA UpdateRefines ==
    ASSUME IInv, NEW j \in Jobs, sig[j] \in Signals, NEW a, NEW after, UNCHANGED sends,
           Update(j, a, after),
           \/ attempt[sig[j]] = "CLAIMED"
           \/ sends[sig[j]] = 1
    PROVE  [Submission!SubNext]_(Submission!subVars)
<1>1. CASE ~Allowed(attempt[sig[j]], a)
  BY <1>1 DEF Update, Submission!subVars
<1>2. CASE Allowed(attempt[sig[j]], a)
  <2>1. attempt' = [attempt EXCEPT ![sig[j]] = a]
    BY <1>2, SMTT(30) DEF Update
  <2>2. attempt[sig[j]] = "CLAIMED" => sends[sig[j]] = 0
    BY DEF IInv, AttemptInv
  <2>3. \/ Submission!Declined(sig[j]) \/ Submission!Announced(sig[j])
        \/ Submission!Lost(sig[j]) \/ Submission!Concluded(sig[j])
    BY <1>2, <2>1, <2>2, Zenon
    DEF Allowed, Final, Submission!Declined, Submission!Announced, Submission!Lost,
        Submission!Concluded, Submission!Moves, Submission!Unresolved, Submission!Conclusions
  <2> QED
    BY <2>3, Zenon DEF Submission!SubNext
<1> QED
  BY <1>1, <1>2

\* Every step maps to a step of SingleSubmission or to a stutter.
LEMMA StepRefines ==
    ASSUME IInv, [Next]_vars
    PROVE  [Submission!SubNext]_(Submission!subVars)
<1>1. ASSUME NEW j \in Jobs, Claim(j) PROVE [Submission!SubNext]_(Submission!subVars)
  <2>1. sig[j] \in Signals
    BY <1>1, JobFacts, Zenon DEF Claim, At, Working
  <2>2. Submission!Claimed(sig[j]) \/ UNCHANGED <<attempt, sends>>
    BY <1>1, Zenon DEF Claim, market, Submission!Claimed, Submission!Moves
  <2> QED
    BY <2>1, <2>2 DEF Submission!SubNext, Submission!subVars
<1>2. ASSUME NEW j \in Jobs, OrderCheck(j) \/ Announce(j)
      PROVE  [Submission!SubNext]_(Submission!subVars)
  <2>1. sig[j] \in Signals /\ attempt[sig[j]] = "CLAIMED" /\ UNCHANGED sends
    BY <1>2, JobFacts DEF OrderCheck, Announce, At, Working, PreSend, JobInv, market
  <2>2. CASE UNCHANGED attempt
    BY <2>1, <2>2 DEF Submission!subVars
  <2>3. CASE Update(j, "REJECTED", Return(j, "REJECTED")) \/ Update(j, "SUBMITTED", Goto(j, "send"))
    BY <2>1, <2>3, UpdateRefines, SMTT(30)
  <2> QED
    BY <1>2, <2>2, <2>3, SMTT(30) DEF OrderCheck, Announce
<1>3. ASSUME NEW j \in Jobs, Send(j) PROVE [Submission!SubNext]_(Submission!subVars)
  <2>1. sig[j] \in Signals /\ attempt[sig[j]] = "SUBMITTED" /\ sends[sig[j]] = 0
    BY <1>3, JobFacts DEF Send, At, Working, PreSend, JobInv
  <2>2. Submission!Submitted(sig[j])
    BY <1>3, <2>1 DEF Send, Submission!Submitted
  <2> QED
    BY <2>1, <2>2, SMTT(30) DEF Submission!SubNext
<1>4. ASSUME NEW j \in Jobs, Reply(j) \/ ReplyLost(j) \/ Settle(j)
      PROVE  [Submission!SubNext]_(Submission!subVars)
  <2>1. sig[j] \in Signals /\ sends[sig[j]] = 1 /\ UNCHANGED sends
    BY <1>4, JobFacts, Zenon DEF Reply, ReplyLost, Settle, At, Working, Concluding, JobInv, market
  <2>2. CASE UNCHANGED attempt
    BY <2>1, <2>2 DEF Submission!subVars
  <2>3. CASE Reply(j)
    BY <2>1, <2>2, <2>3, UpdateRefines, Zenon DEF Reply
  <2>4. CASE ReplyLost(j)
    BY <2>1, <2>4, UpdateRefines, Zenon DEF ReplyLost
  <2>5. CASE Settle(j)
    BY <2>1, <2>5, UpdateRefines, Zenon DEF Settle
  <2> QED
    BY <1>4, <2>3, <2>4, <2>5
<1>5. CASE UNCHANGED <<attempt, sends>>
  BY <1>5 DEF Submission!subVars
<1> QED
  BY <1>1, <1>2, <1>3, <1>4, <1>5, StutterSteps

\* The workers implement one announced submission and one conclusion per signal.
THEOREM Refinement == Spec => ImplementsSingleSubmission
<1>1. Init => Submission!SubInit
  BY DEF Init, Submission!SubInit
<1>2. IInv /\ [Next]_vars => [Submission!SubNext]_(Submission!subVars)
  BY StepRefines
<1> QED
  BY <1>1, <1>2, Invariance, PTL DEF Spec, ImplementsSingleSubmission, Submission!SubSpec

-----------------------------------------------------------------------------
(***************************************************************************)
(* One position: market orders, one replica, no faults.                    *)
(***************************************************************************)

\* A set whose elements are equal has at most one.
LEMMA CardinalityOfOne ==
    ASSUME NEW S, \A s, t \in S : s = t
    PROVE  Cardinality(S) <= 1
<1> DEFINE Rest(T) == T \ {CHOOSE x : x \in T}
           Counts(f) == f = [T \in SUBSET S |-> IF T = {} THEN 0 ELSE 1 + f[Rest(T)]]
<1>1. \A T \in SUBSET S : T # {} => Rest(T) = {}
  OBVIOUS
<1>2. {} \in SUBSET S /\ S \in SUBSET S
  OBVIOUS
<1>3. Cardinality(S) = (CHOOSE f : Counts(f))[S]
  BY DEF Cardinality
<1> HIDE DEF Rest
<1>4. \E f : Counts(f)
  <2> DEFINE g == [T \in SUBSET S |-> IF T = {} THEN 0 ELSE 1]
  <2>1. \A T \in SUBSET S : g[T] = IF T = {} THEN 0 ELSE 1 + g[Rest(T)]
    BY <1>1, <1>2
  <2>2. Counts(g)
    BY <2>1
  <2> QED
    BY <2>2
<1>5. ASSUME NEW f, Counts(f) PROVE f[S] <= 1
  <2>1. f[{}] = 0
    BY <1>2, <1>5
  <2>2. CASE S = {}
    BY <2>1, <2>2
  <2>3. CASE S # {}
    <3>1. f[S] = 1 + f[Rest(S)]
      BY <1>2, <1>5, <2>3
    <3> QED
      BY <1>1, <1>2, <2>1, <2>3, <3>1
  <2> QED
    BY <2>2, <2>3
<1> HIDE DEF Counts
<1>6. PICK f : f = CHOOSE h : Counts(h)
  OBVIOUS
<1>7. Counts(f)
  BY <1>4, <1>6
<1> QED
  BY <1>3, <1>5, <1>6, <1>7

Exposed  == {"inflight"} \cup Open                          \* is or may become a position
Entering == {"orders", "claim", "check", "submit", "send"}  \* past the read of the positions

\* While an entry is on its way between the read of the positions and the send nothing
\* is exposed; from the send to the reply at most that entry is; and one at a time ever.
AloneInv ==
    /\ \A s \in Signals : broker[s] # "resting"
    /\ \A s, t \in Signals : broker[s] \in Exposed /\ broker[t] \in Exposed => s = t
    /\ \A j \in Jobs : j[2] = "reconciliation" => pc[j] \notin (Entering \ {"orders"}) \cup {"await"}
    /\ \A j \in Jobs : j[2] = "execution" =>
         /\ pc[j] \in Entering => \A s \in Signals : broker[s] \notin Exposed
         /\ \A s \in Signals : broker[s] = "inflight" => pc[j] = "await" /\ sig[j] = s

\* A step that exposes nothing new and moves job j only.
LEMMA AloneStep ==
    ASSUME AloneInv, NEW j \in Jobs,
           \A i \in Jobs \ {j} : pc'[i] = pc[i] /\ sig'[i] = sig[i],
           \A s \in Signals : /\ broker'[s] \in Exposed => broker[s] \in Exposed
                              /\ broker'[s] = "inflight" => broker[s] = "inflight"
                              /\ broker'[s] # "resting",
           j[2] = "reconciliation" => pc'[j] \notin (Entering \ {"orders"}) \cup {"await"},
           j[2] = "execution" =>
             /\ pc'[j] \in Entering => pc[j] \in Entering \/ \A s \in Signals : broker[s] \notin Exposed
             /\ \/ pc'[j] = pc[j] /\ sig'[j] = sig[j]
                \/ pc[j] # "await" \/ broker[sig[j]] # "inflight"
    PROVE  AloneInv'
<1>1. ASSUME NEW i \in Jobs, i[2] = "execution"
      PROVE  /\ pc'[i] \in Entering => \A s \in Signals : broker'[s] \notin Exposed
             /\ \A s \in Signals : broker'[s] = "inflight" => pc'[i] = "await" /\ sig'[i] = s
  <2>1. CASE i = j
    BY <1>1, <2>1 DEF AloneInv
  <2>2. CASE i # j
    BY <1>1, <2>2 DEF AloneInv
  <2> QED
    BY <2>1, <2>2
<1>2. \A i \in Jobs : i[2] = "reconciliation" => pc'[i] \notin (Entering \ {"orders"}) \cup {"await"}
  BY DEF AloneInv
<1> QED
  BY <1>1, <1>2 DEF AloneInv

\* A step of the broker that exposes nothing new.
LEMMA AloneMarket ==
    ASSUME AloneInv, UNCHANGED <<pc, sig>>,
           \A s \in Signals : /\ broker'[s] \in Exposed => broker[s] \in Exposed
                              /\ broker'[s] = "inflight" => broker[s] = "inflight"
                              /\ broker'[s] # "resting"
    PROVE  AloneInv'
BY DEF AloneInv

\* A step of a job that leaves the broker alone.
LEMMA AloneReads ==
    ASSUME IInv, AloneInv, NEW j \in Jobs, NEW p, pc' = [pc EXCEPT ![j] = p], broker' = broker,
           sig' = sig \/ \E s : sig' = [sig EXCEPT ![j] = s],
           p \in Entering => \/ j[2] = "reconciliation" \/ pc[j] \in Entering
                              \/ \A s \in Signals : broker[s] \notin Exposed,
           j[2] = "reconciliation" => p \notin (Entering \ {"orders"}) \cup {"await"},
           pc[j] # "await" \/ broker[sig[j]] # "inflight"
    PROVE  AloneInv'
<1>1. pc \in [Jobs -> PC] /\ sig \in [Jobs -> Signals \cup {NoSignal}]
  BY DEF IInv, TypeOK, ControlTypeOK
<1>2. pc'[j] = p /\ \A i \in Jobs \ {j} : pc'[i] = pc[i] /\ sig'[i] = sig[i]
  BY <1>1
<1>3. \A s \in Signals : broker'[s] = broker[s] /\ broker[s] # "resting"
  BY DEF AloneInv
<1> QED
  BY <1>2, <1>3, AloneStep

\* The job returns an outcome or is over.
LEMMA AloneReturn ==
    ASSUME IInv, AloneInv, NEW j \in Jobs, NEW o, Return(j, o), broker' = broker,
           pc[j] # "await" \/ broker[sig[j]] # "inflight"
    PROVE  AloneInv'
<1>1. pc' = [pc EXCEPT ![j] = "record"] /\ sig' = sig
  BY DEF Return
<1> QED
  BY <1>1, AloneReads DEF Entering

LEMMA AloneEnd ==
    ASSUME IInv, AloneInv, NEW j \in Jobs, NEW ok, End(j, ok), broker' = broker,
           pc[j] # "await" \/ broker[sig[j]] # "inflight"
    PROVE  AloneInv'
<1>1. pc' = [pc EXCEPT ![j] = "idle"] /\ sig' = [sig EXCEPT ![j] = NoSignal]
  BY DEF End
<1> QED
  BY <1>1, AloneReads DEF Entering

\* Update writes the attempt or ends the job.
LEMMA AloneUpdate ==
    ASSUME IInv, AloneInv, NEW j \in Jobs, NEW a, NEW o, Update(j, a, Return(j, o)), broker' = broker,
           pc[j] # "await" \/ broker[sig[j]] # "inflight"
    PROVE  AloneInv'
<1>1. CASE Return(j, o)
  BY <1>1, AloneReturn
<1>2. CASE End(j, FALSE)
  BY <1>2, AloneEnd
<1> QED
  BY <1>1, <1>2 DEF Update

\* No step of a job puts a second order at risk.
LEMMA AloneJob ==
    ASSUME IInv, AloneInv, OrderType = "MARKET", NEW r, Replicas = {r}, NEW j \in Jobs, JobStep(j) \/ PickAny(j)
    PROVE  AloneInv'
<1>0. /\ broker \in [Signals -> {"none", "refused", "cancelled", "closed"} \cup Unsettled]
      /\ pc \in [Jobs -> PC] /\ sig \in [Jobs -> Signals \cup {NoSignal}]
      /\ j[2] \in {"execution", "reconciliation"}
  BY JobParts DEF IInv, TypeOK, ControlTypeOK, DataTypeOK, JobKinds
<1>a. /\ \A s \in Signals : broker[s] # "resting"
      /\ j[2] = "reconciliation" => pc[j] \notin {"claim", "check", "submit", "send", "await"}
  BY DEF AloneInv, Entering
<1>1. CASE CancelPendingEntries(j)
  <2>1. broker' = broker
    BY <1>0, <1>1, <1>a DEF CancelPendingEntries, CancelEntries, Cancelled, Resting
  <2> QED
    BY <1>1, <2>1, AloneEnd DEF CancelPendingEntries, CancelEntries, At
<1>2. CASE LoadCandidates(j) \/ RecordExecution(j) \/ Finish(j) \/ PickAny(j)
  <2>1. /\ broker' = broker /\ pc[j] \in {"load", "record", "pick"}
        /\ sig' = sig \/ \E s : sig' = [sig EXCEPT ![j] = s]
        /\ \E p \in {"pick", "idle", "lookup", "record"} : pc' = [pc EXCEPT ![j] = p]
    BY <1>2, Zenon DEF LoadCandidates, RecordExecution, Finish, PickAny, Pick, PickExpired, At, End, market
  <2> QED
    BY <2>1, AloneReads DEF Entering
<1>3. CASE ExecutionLookup(j) \/ Block(j)
  BY <1>3, AloneReads DEF ExecutionLookup, Block, At, Goto, Return, Entering, market
<1>4. CASE ExecutionPositions(j)
  <2>1. \A s \in Signals : broker[s] \notin Exposed
    <3>1. \A s \in Signals : broker[s] # "inflight"
      BY <1>4 DEF ExecutionPositions, At, AloneInv
    <3> QED
      BY <1>4, <3>1 DEF ExecutionPositions, Exposed
  <2> QED
    BY <1>4, <2>1, AloneReads DEF ExecutionPositions, At, Goto, market
<1>5. CASE ExecutionOrders(j)
  BY <1>5, AloneReads DEF ExecutionOrders, At, Goto, Entering, market
<1>6. CASE Claim(j)
  <2>1. pc[j] = "claim" /\ broker' = broker /\ j[2] = "execution"
    BY <1>0, <1>6, <1>a DEF Claim, At, market
  <2>2. CASE Goto(j, "check")
    BY <2>1, <2>2, AloneReads DEF Goto, Entering
  <2>3. CASE Return(j, OutcomeFromRecord(attempt[sig[j]])) \/ End(j, FALSE)
    BY <2>1, <2>3, AloneReturn, AloneEnd
  <2> QED
    BY <1>6, <2>2, <2>3 DEF Claim
<1>7. CASE OrderCheck(j)
  <2>1. pc[j] = "check" /\ broker' = broker /\ j[2] = "execution"
    BY <1>0, <1>7, <1>a DEF OrderCheck, At, market
  <2>2. CASE Goto(j, "submit")
    BY <2>1, <2>2, AloneReads DEF Goto, Entering
  <2>3. CASE Update(j, "REJECTED", Return(j, "REJECTED"))
    BY <2>1, <2>3, AloneUpdate
  <2> QED
    BY <1>7, <2>2, <2>3 DEF OrderCheck
<1>8. CASE Announce(j)
  <2>1. pc[j] = "submit" /\ broker' = broker /\ j[2] = "execution"
    BY <1>0, <1>8, <1>a DEF Announce, At, market
  <2>2. CASE Goto(j, "send")
    BY <2>1, <2>2, AloneReads DEF Goto, Entering
  <2>3. CASE End(j, FALSE)
    BY <2>1, <2>3, AloneEnd
  <2> QED
    BY <1>8, <2>2, <2>3 DEF Announce, Update
<1>9. CASE Send(j)
  <2>1. /\ pc[j] = "send" /\ j[2] = "execution" /\ pc' = [pc EXCEPT ![j] = "await"] /\ sig' = sig
        /\ broker' = [broker EXCEPT ![sig[j]] = "inflight"]
    BY <1>0, <1>9, <1>a DEF Send, At, Goto
  <2>2. \A s \in Signals : broker[s] \notin Exposed
    BY <2>1 DEF AloneInv, Entering
  <2>3. \A s \in Signals : broker'[s] # "resting" /\ (broker'[s] \in Exposed => s = sig[j])
    BY <1>0, <1>a, <2>1, <2>2
  <2>4. \A i \in Jobs : i[2] = "execution" => i = j
    BY <2>1 DEF Jobs
  <2>5. pc'[j] = "await" /\ sig'[j] = sig[j] /\ \A i \in Jobs \ {j} : pc'[i] = pc[i]
    BY <1>0, <2>1
  <2> QED
    BY <2>1, <2>3, <2>4, <2>5 DEF AloneInv, Exposed, Entering
<1>10. CASE Reply(j)
  <2>1. pc[j] = "await" /\ broker' = broker /\ broker[sig[j]] # "inflight"
    BY <1>10 DEF Reply, At, market
  <2>2. CASE Goto(j, "verify")
    BY <2>1, <2>2, AloneReads DEF Goto, Entering
  <2>3. CASE Update(j, "REJECTED", Return(j, "REJECTED"))
    BY <2>1, <2>3, AloneUpdate
  <2> QED
    BY <1>10, <2>2, <2>3 DEF Reply
<1>11. CASE ReconciliationStep(j)
  <2>1. /\ broker' = broker /\ pc[j] \in {"lookup", "positions", "matched", "orders"} /\ sig' = sig
        /\ \E p \in {"positions", "matched", "orders", "verify", "settle", "record"} :
              pc' = [pc EXCEPT ![j] = p]
        /\ j[2] = "reconciliation" \/ pc' = [pc EXCEPT ![j] = "verify"]
    BY <1>11 DEF ReconciliationStep, ReconciliationLookup, ReconciliationPositions,
       ReconciliationMatched, ReconciliationOrders, At, Goto, Return, Conclude, market
  <2> QED
    BY <2>1, AloneReads DEF Entering
<1>12. CASE VerifyProtection(j)
  BY <1>12, AloneReads DEF VerifyProtection, At, Goto, Conclude, Entering, market
<1>13. CASE RepairProtection(j) \/ SafeClose(j)
  <2>1. /\ pc[j] \in {"repair", "close"} /\ sig' = sig
        /\ \E p \in {"settle", "close"} : pc' = [pc EXCEPT ![j] = p]
        /\ \/ broker' = broker
           \/ broker[sig[j]] \in Open /\ \E b \in {"exact", "closed"} : broker' = [broker EXCEPT ![sig[j]] = b]
    BY <1>13 DEF RepairProtection, SafeClose, At, Goto, Conclude
  <2>2. pc'[j] \in {"settle", "close"} /\ \A i \in Jobs \ {j} : pc'[i] = pc[i] /\ sig'[i] = sig[i]
    BY <1>0, <2>1
  <2>3. \A s \in Signals : /\ broker'[s] \in Exposed => broker[s] \in Exposed
                           /\ broker'[s] = "inflight" => broker[s] = "inflight"
                           /\ broker'[s] # "resting"
    BY <1>0, <1>a, <2>1 DEF Exposed, Open
  <2> QED
    BY <2>1, <2>2, <2>3, AloneStep DEF Entering
<1>14. CASE Settle(j)
  <2>1. pc[j] = "settle" /\ broker' = broker
    BY <1>14 DEF Settle, At, market
  <2> QED
    BY <1>14, <2>1, AloneUpdate DEF Settle
<1> QED
  BY <1>1, <1>2, <1>3, <1>4, <1>5, <1>6, <1>7, <1>8, <1>9, <1>10, <1>11, <1>12, <1>13, <1>14
  DEF JobStep, ExecutionStep, SharedStep

\* No step of a run without faults does.
LEMMA AloneNext ==
    ASSUME OrderType = "MARKET", NEW r, Replicas = {r}
    PROVE  IInv /\ AloneInv /\ [(~calm /\ FaultsCease) \/ (calm /\ Next)]_vars => AloneInv'
<1> SUFFICES ASSUME IInv, AloneInv, [(~calm /\ FaultsCease) \/ (calm /\ Next)]_vars PROVE AloneInv'
  OBVIOUS
<1>0. /\ broker \in [Signals -> {"none", "refused", "cancelled", "closed"} \cup Unsettled]
      /\ pc \in [Jobs -> PC] /\ sig \in [Jobs -> Signals \cup {NoSignal}]
      /\ \A s \in Signals : broker[s] # "resting"
  BY DEF IInv, TypeOK, ControlTypeOK, DataTypeOK, AloneInv
<1>1. CASE \/ FaultsCease \/ UNCHANGED vars \/ (\E k \in JobKinds : LeaseExpires(k))
           \/ (\E s \in Signals : SignalExpires(s))
  <2>1. UNCHANGED <<pc, sig, broker>>
    BY <1>1 DEF FaultsCease, LeaseExpires, SignalExpires, vars, jobs, market
  <2> QED
    BY <1>0, <2>1, AloneMarket
<1>2. CASE calm /\ \E j \in Jobs : JobStep(j) \/ JobFault(j) \/ PickAny(j)
  BY <1>2, AloneJob DEF JobFault
<1>3. CASE calm /\ \E q \in Replicas : ExecutionStart(q) \/ ReconciliationStart(q) \/ Restart(q) \/ Crash(q)
  <2>1. PICK q \in Replicas : ExecutionStart(q) \/ ReconciliationStart(q) \/ Restart(q)
    BY <1>3 DEF Crash
  <2>2. CASE ExecutionStart(q)
    <3>1. PICK j, p : /\ j = <<q, "execution">> /\ p \in {"cancel", "load"} /\ pc[j] = "idle"
                      /\ pc' = [pc EXCEPT ![j] = p] /\ sig' = sig /\ broker' = broker
      BY <2>2 DEF ExecutionStart, market
    <3>2. j \in Jobs
      BY <3>1, JobParts
    <3> QED
      BY <3>1, <3>2, AloneReads DEF Entering
  <2>3. CASE ReconciliationStart(q) \/ Restart(q)
    <3>1. PICK j : /\ j = <<q, "reconciliation">> /\ pc' = [pc EXCEPT ![j] = "pick"]
                   /\ sig' = sig /\ broker' = broker
      BY <2>3 DEF ReconciliationStart, Restart, market
    <3>2. j \in Jobs /\ j[2] = "reconciliation" /\ pc[j] # "await"
      BY <3>1, JobParts DEF AloneInv
    <3> QED
      BY <3>1, <3>2, AloneReads DEF Entering
  <2> QED
    BY <2>1, <2>2, <2>3
<1>4. CASE \E s \in Signals : BrokerStep(s)
  <2>1. PICK s \in Signals : BrokerStep(s)
    BY <1>4
  <2>2. /\ broker[s] \in Exposed /\ UNCHANGED <<pc, sig>>
        /\ \E b \in {"refused", "closed"} \cup Open : broker' = [broker EXCEPT ![s] = b]
    BY <1>0, <2>1, FillAssumption DEF BrokerStep, BrokerRefuses, BrokerAccepts, BrokerTriggers, BrokerDrops,
       BrokerExits, BrokerMoves, Exposed, Open, Protections, jobs
  <2>3. \A t \in Signals : /\ broker'[t] \in Exposed => broker[t] \in Exposed
                           /\ broker'[t] = "inflight" => broker[t] = "inflight"
                           /\ broker'[t] # "resting"
    BY <1>0, <2>2 DEF Open
  <2> QED
    BY <2>2, <2>3, AloneMarket
<1>5. CASE KillSwitch
  <2>1. UNCHANGED <<pc, sig>> /\ \A s \in Signals : broker'[s] = broker[s]
    BY <1>0, <1>5 DEF KillSwitch, Cancelled, Resting, jobs
  <2> QED
    BY <1>0, <2>1, AloneMarket
<1> QED
  BY <1>1, <1>2, <1>3, <1>4, <1>5 DEF Next

\* Without faults, with market orders and one worker process the gates of
\* _execute_serialized keep the account at one open position: what they read about
\* positions is still true when the order is sent.
THEOREM OnePositionHolds ==
    ASSUME OrderType = "MARKET", NEW r, Replicas = {r}
    PROVE  QuietSpec => []OnePosition
<1>1. Init => IInv /\ AloneInv
  <2>1. Init => AloneInv
    BY DEF Init, AloneInv, Exposed, Open, Entering
  <2> QED
    BY <2>1, InitIInv
<1>2. IInv /\ AloneInv /\ [(~calm /\ FaultsCease) \/ (calm /\ Next)]_vars => IInv' /\ AloneInv'
  BY AloneNext, NextIInv, WorldStep
<1>3. AloneInv => OnePosition
  <2> SUFFICES ASSUME AloneInv PROVE OnePosition
    OBVIOUS
  <2>1. PICK S : S = {s \in Signals : broker[s] \in Open}
    OBVIOUS
  <2>2. \A s, t \in S : s = t
    BY <2>1 DEF AloneInv, Exposed
  <2> QED
    BY <2>1, <2>2, CardinalityOfOne DEF OnePosition
<1> QED
  BY <1>1, <1>2, <1>3, PTL DEF QuietSpec

=============================================================================
