--------------------------- MODULE SignalLifecycle ---------------------------
(***************************************************************************)
(* The life of an entry signal row: saved by the scan (save_signal()),     *)
(* approved or rejected by an operator (app/api/v1/signals.py), expired,   *)
(* loaded and executed by the execution job (execute_signals() of          *)
(* app/workers/service.py, expire_signals(), execution_candidates() and    *)
(* record_execution() of app/workers/persistence.py).                      *)
(*                                                                         *)
(* Prices are abstracted to whether the price is inside the entry zone,    *)
(* time to whether expires_at has passed.  What happens between the send   *)
(* and the answer of the broker is the subject of TradeExecution: here an  *)
(* attempt has one of the results the executor can return.                 *)
(***************************************************************************)
EXTENDS Naturals, FiniteSets

CONSTANTS
    Signals,      \* deterministic signal ids the scans come up with
    Operators,    \* concurrent requests to approve or reject
    Modes,        \* the modes the runtime controls take
    MaxMoves,     \* bound: how often the price crosses the border of a zone
    MaxModes,     \* bound: how often the mode changes
    MaxCrashes,   \* bound: how often the execution job dies
    LateRequests  \* whether an operator may answer for a signal that has expired

ASSUME SignalAssumption ==
    /\ Modes \subseteq {"SIGNAL", "SEMI_AUTO", "AUTO"}
    /\ {MaxMoves, MaxModes, MaxCrashes} \subseteq Nat /\ LateRequests \in BOOLEAN

Open     == {"ACTIVE", "APPROVAL_REQUIRED", "APPROVED"}
Settled  == {"EXECUTED", "REJECTED", "EXPIRED", "ERROR"}
Statuses == Open \union Settled \union {"none"}
Results  == {"FILLED", "REJECTED", "UNKNOWN"}   \* of an attempt that was made

VARIABLES
    row,       \* row[s]: status of the Signal row
    past,      \* past[s]: expires_at has passed
    inZone,    \* inZone[s]: the price is inside the entry zone
    left,      \* ghost, left[s]: an execution found the price outside the zone
    mode,      \* the durable trading mode
    request,   \* request[o]: <<signal, status to write>> of an operator, or <<>>
    agreed,    \* ghost, agreed[s]: an operator approved it
    attempt,   \* attempt[s]: the idempotency record: "none" or a result
    job,       \* the execution job: where it is and what it has read
    count      \* how often each bounded thing happened

vars == <<row, past, inZone, left, mode, request, agreed, attempt, job, count>>

Idle == [at |-> "idle", mode |-> "SIGNAL", batch |-> {}, now |-> "none", outcome |-> "none"]

Init ==
    /\ row = [s \in Signals |-> "none"]
    /\ past = [s \in Signals |-> FALSE]
    /\ inZone = [s \in Signals |-> TRUE]
    /\ left = [s \in Signals |-> FALSE]
    /\ mode \in Modes
    /\ request = [o \in Operators |-> << >>]
    /\ agreed = [s \in Signals |-> FALSE]
    /\ attempt = [s \in Signals |-> "none"]
    /\ job = Idle
    /\ count = [moves |-> 0, modes |-> 0, crashes |-> 0]

TypeOK ==
    /\ row \in [Signals -> Statuses]
    /\ {past, inZone, left, agreed} \subseteq [Signals -> BOOLEAN]
    /\ mode \in Modes
    /\ attempt \in [Signals -> Results \union {"none"}]

-----------------------------------------------------------------------------
(***************************************************************************)
(* The scan and the world.                                                 *)
(***************************************************************************)

\* The status save_signal() gives an entry in the mode that was read.
SavedStatus == IF mode = "SEMI_AUTO" THEN "APPROVAL_REQUIRED" ELSE "ACTIVE"

\* save_signal(): a signal id that has a row is left alone.
SaveSignal(s) ==
    /\ row[s] = "none"
    /\ row' = [row EXCEPT ![s] = SavedStatus]
    /\ UNCHANGED <<past, inZone, left, mode, request, agreed, attempt, job, count>>

Expire(s) ==
    /\ row[s] # "none" /\ ~past[s]
    /\ past' = [past EXCEPT ![s] = TRUE]
    /\ UNCHANGED <<row, inZone, left, mode, request, agreed, attempt, job, count>>

PriceMoves(s) ==
    /\ count.moves < MaxMoves
    /\ count' = [count EXCEPT !.moves = @ + 1]
    /\ inZone' = [inZone EXCEPT ![s] = ~@]
    /\ UNCHANGED <<row, past, left, mode, request, agreed, attempt, job>>

ModeChanges(m) ==
    /\ count.modes < MaxModes /\ m # mode
    /\ count' = [count EXCEPT !.modes = @ + 1]
    /\ mode' = m
    /\ UNCHANGED <<row, past, inZone, left, request, agreed, attempt, job>>

-----------------------------------------------------------------------------
(***************************************************************************)
(* approve_signal(): the row is read without a lock, then written.         *)
(***************************************************************************)

ApproveRead(o, s, answer) ==
    /\ request[o] = << >> /\ row[s] # "none"
    /\ LateRequests \/ ~past[s]
    /\ past[s] \/ row[s] \in {"ACTIVE", "APPROVAL_REQUIRED"}   \* else HTTP 409
    /\ request' = [request EXCEPT ![o] = <<s, IF past[s] THEN "EXPIRED" ELSE answer>>]
    /\ UNCHANGED <<row, past, inZone, left, mode, agreed, attempt, job, count>>

ApproveCommit(o) ==
    /\ request[o] # << >>
    /\ LET s == request[o][1]
           answer == request[o][2]
       IN  /\ row' = [row EXCEPT ![s] = answer]
           /\ agreed' = [agreed EXCEPT ![s] = @ \/ answer = "APPROVED"]
    /\ request' = [request EXCEPT ![o] = << >>]
    /\ UNCHANGED <<past, inZone, left, mode, attempt, job, count>>

-----------------------------------------------------------------------------
(***************************************************************************)
(* execute_signals().                                                      *)
(***************************************************************************)

\* Mutant: an approved signal does not expire.
ExpirableUnanswered == {"ACTIVE", "APPROVAL_REQUIRED"}

\* The statuses expire_signals() looks for.
Expirable == Open

ExpireSignals ==
    /\ job.at = "idle"
    /\ row' = [s \in Signals |-> IF row[s] \in Expirable /\ past[s] THEN "EXPIRED" ELSE row[s]]
    /\ job' = [job EXCEPT !.at = "expired"]
    /\ UNCHANGED <<past, inZone, left, mode, request, agreed, attempt, count>>

\* The runtime controls are read.
ReadMode ==
    /\ job.at = "expired"
    /\ job' = [job EXCEPT !.at = "load", !.mode = mode]
    /\ UNCHANGED <<row, past, inZone, left, mode, request, agreed, attempt, count>>

\* Mutant: SEMI_AUTO takes what has not been answered yet.
CandidatesUnanswered ==
    {s \in Signals : ~past[s] /\ \/ job.mode = "AUTO" /\ row[s] = "ACTIVE"
                                 \/ job.mode = "SEMI_AUTO" /\ row[s] \in Open}

\* execution_candidates() of the mode that was read.
Candidates ==
    {s \in Signals : ~past[s] /\ \/ job.mode = "AUTO" /\ row[s] = "ACTIVE"
                                 \/ job.mode = "SEMI_AUTO" /\ row[s] = "APPROVED"}

LoadCandidates ==
    /\ job.at = "load"
    /\ job' = IF Candidates = {} THEN Idle ELSE [job EXCEPT !.at = "pick", !.batch = Candidates]
    /\ UNCHANGED <<row, past, inZone, left, mode, request, agreed, attempt, count>>

\* The next signal of the batch, as it was loaded: first its expiry, then an
\* earlier attempt, then the gates, among them the entry zone.
Pick(s) ==
    /\ job.at = "pick" /\ s \in job.batch
    /\ LET result == CASE past[s] -> "BLOCKED"
                       [] ~past[s] /\ attempt[s] # "none" -> attempt[s]
                       [] ~past[s] /\ attempt[s] = "none" /\ ~inZone[s] -> "BLOCKED"
                       [] OTHER -> "none"
       IN  \/ job' = [job EXCEPT !.at = IF result = "none" THEN "send" ELSE "record",
                                 !.now = s, !.outcome = result]
           \/ result = "none" /\ job' = [job EXCEPT !.at = "record", !.now = s, !.outcome = "BLOCKED"]
    /\ left' = [left EXCEPT ![s] = @ \/ (~past[s] /\ ~inZone[s])]
    /\ UNCHANGED <<row, past, inZone, mode, request, agreed, attempt, count>>

\* Claim, order check and send.
Send(r) ==
    /\ job.at = "send"
    /\ attempt' = [attempt EXCEPT ![job.now] = r]
    /\ job' = [job EXCEPT !.at = "record", !.outcome = r]
    /\ UNCHANGED <<row, past, inZone, left, mode, request, agreed, count>>

\* record_execution(): BLOCKED leaves the status alone.
RecordedStatus(s, outcome) ==
    CASE outcome = "FILLED" -> "EXECUTED"
      [] outcome = "REJECTED" -> "REJECTED"
      [] outcome = "UNKNOWN" -> "ERROR"
      [] OTHER -> row[s]

RecordExecution ==
    /\ job.at = "record"
    /\ row' = [row EXCEPT ![job.now] = RecordedStatus(job.now, job.outcome)]
    /\ LET rest == job.batch \ {job.now}
       IN  job' = IF rest = {} THEN Idle
                  ELSE [job EXCEPT !.at = "pick", !.batch = rest, !.now = "none", !.outcome = "none"]
    /\ UNCHANGED <<past, inZone, left, mode, request, agreed, attempt, count>>

\* The job dies, or raises and is contained by its lease.
Crash ==
    /\ job.at # "idle" /\ count.crashes < MaxCrashes
    /\ count' = [count EXCEPT !.crashes = @ + 1]
    /\ job' = Idle
    /\ UNCHANGED <<row, past, inZone, left, mode, request, agreed, attempt>>

JobStep ==
    \/ ExpireSignals \/ ReadMode \/ LoadCandidates \/ RecordExecution
    \/ \E s \in Signals : Pick(s)
    \/ \E r \in Results : Send(r)

Next ==
    \/ JobStep \/ Crash
    \/ \E s \in Signals : SaveSignal(s) \/ Expire(s) \/ PriceMoves(s)
    \/ \E m \in Modes : ModeChanges(m)
    \/ \E o \in Operators, s \in Signals, answer \in {"APPROVED", "REJECTED"} :
           ApproveRead(o, s, answer)
    \/ \E o \in Operators : ApproveCommit(o)

Spec == Init /\ [][Next]_vars

-----------------------------------------------------------------------------
(***************************************************************************)
(* Properties.                                                             *)
(***************************************************************************)

\* In SEMI_AUTO nothing is sent that no operator approved, whatever the mode was
\* when the signal was saved, and however often the mode changes while the job runs.
ApprovedBeforeSent ==
    [][\A s \in Signals : (attempt'[s] # attempt[s] /\ job.mode = "SEMI_AUTO") => agreed[s]]_vars

\* Every signal is settled in the end, in every mode, also when an approval that
\* was read before the expiry is committed after it.
SettledInTheEnd == \A s \in Signals : row[s] # "none" ~> [](row[s] \in Settled)

\* A filled or an indeterminate attempt stays visible in the row once it is recorded.
ExecutedStays ==
    [][\A s \in Signals : row[s] \in {"EXECUTED", "ERROR"} => row'[s] = row[s]]_vars

\* A setup whose price was found outside the entry zone is over.
LeftZoneIsOver ==
    [][\A s \in Signals : attempt'[s] # attempt[s] => ~left[s]]_vars

=============================================================================
