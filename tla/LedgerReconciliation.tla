------------------------ MODULE LedgerReconciliation ------------------------
(***************************************************************************)
(* Reconciliation of the database with the broker's positions and orders   *)
(* (app/execution/reconciliation.py, SQLAlchemyRecoveryLedger of           *)
(* app/workers/persistence.py), beside the two others who write the same   *)
(* rows: record_execution() and the manual close of the API.               *)
(*                                                                         *)
(* A ticket is one entry of the engine.  The broker holds it as a resting  *)
(* order, then as a position, then not at all.  The pass reads the broker  *)
(* in two calls and the rows in two more, and then repairs row by row, one *)
(* transaction each, while the other actors go on.                         *)
(***************************************************************************)
EXTENDS Naturals

CONSTANTS
    Tickets,       \* the broker tickets of the engine's entries
    RestingUsed,   \* whether entries may rest as pending orders
    LostReplies,   \* whether the reply to an entry may be lost
    Concurrent,    \* whether entries are recorded while a pass is under way
    ManualUsed,    \* whether traders close positions through the API
    MaxBrokenPasses \* bound: how often a pass ends halfway

ASSUME SwitchAssumption == {RestingUsed, LostReplies, Concurrent, ManualUsed} \subseteq BOOLEAN
ASSUME BoundAssumption == MaxBrokenPasses \in Nat

VARIABLES
    broker,    \* broker[t]: "none", "order", "position" or "gone"
    entry,     \* entry[t]: "none", "replied", "unknown" or "recorded"
    result,    \* result[t]: the outcome to record, "PENDING" or "FILLED"
    own,       \* own[t]: status of the order row of the claim; own[t].ticket: it has the ticket
    recovered, \* recovered[t]: status of an order row inserted by the ledger
    position,  \* position[t]: the position row, "none", "open" or "closed"
    trade,     \* trade[t]: its trade row
    passAt,    \* the pass: "idle", "orders", "rows", "orderRows", "repair" or "match"
    sawPositions, sawOrders,  \* tickets in the answers of the broker
    rowStatus, orderStatus,   \* the rows as read
    todo,      \* repairs still to make: <<repair, ticket>>
    crashes    \* how many passes ended halfway

entries == <<entry, result, own>>
rows    == <<recovered, position, trade>>
pass    == <<passAt, sawPositions, sawOrders, rowStatus, orderStatus, todo>>
ledgerVars == <<broker, entries, rows, pass, crashes>>

LedgerInit ==
    /\ broker = [t \in Tickets |-> "none"]
    /\ entry = [t \in Tickets |-> "none"]
    /\ result = [t \in Tickets |-> "FILLED"]
    /\ own = [t \in Tickets |-> [status |-> "none", ticket |-> FALSE]]
    /\ recovered = [t \in Tickets |-> "none"]
    /\ position = [t \in Tickets |-> "none"]
    /\ trade = [t \in Tickets |-> "none"]
    /\ crashes = 0
    /\ passAt = "idle" /\ sawPositions = {} /\ sawOrders = {} /\ todo = {}
    /\ rowStatus = [t \in Tickets |-> "none"]
    /\ orderStatus = [t \in Tickets |-> "none"]

-----------------------------------------------------------------------------
(***************************************************************************)
(* The broker, and the entries of the executor.                            *)
(***************************************************************************)

\* The executor claims (order row, no ticket yet) and sends; the broker fills
\* the entry or lets it rest.
SendEntry(t) ==
    /\ entry[t] = "none"
    /\ \E held \in {"position"} \cup (IF RestingUsed THEN {"order"} ELSE {}) :
          /\ broker' = [broker EXCEPT ![t] = held]
          /\ result' = [result EXCEPT ![t] = IF held = "order" THEN "PENDING" ELSE "FILLED"]
    /\ \E reply \in {"replied"} \cup (IF LostReplies THEN {"unknown"} ELSE {}) :
          entry' = [entry EXCEPT ![t] = reply]
    /\ own' = [own EXCEPT ![t] = [status |-> "PENDING", ticket |-> FALSE]]
    /\ UNCHANGED <<rows, pass, crashes>>

\* A resting order triggers or is dropped; a position is closed at the broker.
BrokerMoves(t) ==
    /\ \/ broker[t] = "order" /\ \E b \in {"position", "gone"} : broker' = [broker EXCEPT ![t] = b]
       \/ broker[t] = "position" /\ broker' = [broker EXCEPT ![t] = "gone"]
    /\ UNCHANGED <<entries, rows, pass, crashes>>

\* record_execution().  Setting the ticket on the claim's row violates
\* uq_order_account_ticket when the ledger inserted a row for it: the
\* transaction rolls back and the next attempt meets the same row.
RecordEntry(t) ==
    /\ entry[t] = "replied"
    /\ Concurrent \/ passAt \in {"idle", "match"}
    /\ recovered[t] = "none"
    /\ entry' = [entry EXCEPT ![t] = "recorded"]
    /\ own' = [own EXCEPT ![t] = [status |-> result[t], ticket |-> TRUE]]
    /\ IF result[t] = "FILLED"
       THEN /\ position' = [position EXCEPT ![t] = IF @ = "none" THEN "open" ELSE @]
            /\ trade' = [trade EXCEPT ![t] = IF @ = "none" THEN "open" ELSE @]
       ELSE UNCHANGED <<position, trade>>
    /\ UNCHANGED <<broker, result, recovered, pass, crashes>>

\* POST /positions/{id}/close in full: mark_closed() closes the position row.
ManualClose(t) ==
    /\ ManualUsed
    /\ broker[t] = "position" /\ position[t] = "open"
    /\ broker' = [broker EXCEPT ![t] = "gone"]
    /\ position' = [position EXCEPT ![t] = "closed"]
    /\ UNCHANGED <<entries, recovered, trade, pass, crashes>>

-----------------------------------------------------------------------------
(***************************************************************************)
(* The pass.                                                               *)
(***************************************************************************)

\* Mutant: a broker that does not answer is taken to have no positions.
ReadPositionsAnyway ==
    /\ passAt = "idle"
    /\ sawPositions' \in {{}, {t \in Tickets : broker[t] = "position"}}
    /\ passAt' = "orders"
    /\ UNCHANGED <<broker, entries, rows, sawOrders, rowStatus, orderStatus, todo, crashes>>

\* A healthy broker answers get_positions(); otherwise the pass is deferred.
ReadPositions ==
    /\ passAt = "idle"
    /\ sawPositions' = {t \in Tickets : broker[t] = "position"}
    /\ passAt' = "orders"
    /\ UNCHANGED <<broker, entries, rows, sawOrders, rowStatus, orderStatus, todo, crashes>>

ReadOrders ==
    /\ passAt = "orders"
    /\ sawOrders' = {t \in Tickets : broker[t] = "order"}
    /\ passAt' = "rows"
    /\ UNCHANGED <<broker, entries, rows, sawPositions, rowStatus, orderStatus, todo, crashes>>

\* ledger.positions(): every row, CLOSED when closed_at is set.
ReadRows ==
    /\ passAt = "rows"
    /\ rowStatus' = position
    /\ passAt' = "orderRows"
    /\ UNCHANGED <<broker, entries, rows, sawPositions, sawOrders, orderStatus, todo, crashes>>

\* ledger.orders(): rows with a ticket; all but CANCELLED are read as PENDING.
LedgerStatus(status) == IF status \in {"none", "CANCELLED"} THEN status ELSE "PENDING"

OrderRow(t) == IF own[t].ticket THEN own[t].status ELSE recovered[t]

\* reconcile(): recover or repair what the broker has, close or cancel what it
\* has not.  A row read back never equals the MT5 position (its signal_id is
\* set), so a row already open is written again as drift.
Repairs ==
    {<<"open", t>> : t \in sawPositions}
    \cup {<<"close", t>> : t \in {u \in Tickets \ sawPositions : rowStatus[u] = "open"}}
    \cup {<<"restore", t>> : t \in sawOrders}
    \cup {<<"cancel", t>> : t \in {u \in Tickets \ sawOrders : orderStatus'[u] = "PENDING"}}

ReadOrderRows ==
    /\ passAt = "orderRows"
    /\ orderStatus' = [t \in Tickets |-> LedgerStatus(OrderRow(t))]
    /\ todo' = Repairs
    /\ passAt' = "repair"
    /\ UNCHANGED <<broker, entries, rows, sawPositions, sawOrders, rowStatus, crashes>>

Due(repair) ==
    CASE repair = "open"    -> TRUE
      [] repair = "close"   -> \A r \in todo : r[1] # "open"
      [] repair = "restore" -> \A r \in todo : r[1] \notin {"open", "close"}
      [] repair = "cancel"  -> \A r \in todo : r[1] = "cancel"

\* A new position row has a trade made from what the broker reports.
RecoveryTrade(t) == IF position[t] = "none" THEN "open" ELSE trade[t]

\* _upsert_position_sync(OPEN): an old row is opened again and its trade is left
\* as it is.
UpsertOpen(t) ==
    /\ position' = [position EXCEPT ![t] = "open"]
    /\ trade' = [trade EXCEPT ![t] = RecoveryTrade(t)]
    /\ UNCHANGED <<own, recovered>>

\* Mutant: the trade of a closed position stays open.
UpsertClosedRowOnly(t) ==
    /\ position' = [position EXCEPT ![t] = "closed"]
    /\ UNCHANGED <<own, recovered, trade>>

\* _upsert_position_sync(CLOSED): the row and its trade are closed.
UpsertClosed(t) ==
    /\ position' = [position EXCEPT ![t] = "closed"]
    /\ trade' = [trade EXCEPT ![t] = "closed"]
    /\ UNCHANGED <<own, recovered>>

\* _upsert_order_sync(): the row with the ticket, or a new one.
UpsertOrder(t, status) ==
    /\ IF own[t].ticket
       THEN own' = [own EXCEPT ![t].status = status] /\ UNCHANGED recovered
       ELSE recovered' = [recovered EXCEPT ![t] = status] /\ UNCHANGED own
    /\ UNCHANGED <<position, trade>>

Repair ==
    /\ passAt = "repair"
    /\ \E r \in todo :
          /\ Due(r[1])
          /\ todo' = todo \ {r}
          /\ \/ r[1] = "open" /\ UpsertOpen(r[2])
             \/ r[1] = "close" /\ UpsertClosed(r[2])
             \/ r[1] = "restore" /\ UpsertOrder(r[2], "PENDING")
             \/ r[1] = "cancel" /\ UpsertOrder(r[2], "CANCELLED")
    /\ UNCHANGED <<broker, entry, result, passAt, sawPositions, sawOrders, rowStatus, orderStatus, crashes>>

\* reconcile() goes on with reconcile_unknown_executions().
PassEnds ==
    /\ passAt = "repair" /\ todo = {}
    /\ passAt' = "match"
    /\ UNCHANGED <<broker, entries, rows, sawPositions, sawOrders, rowStatus, orderStatus, todo, crashes>>

\* reconcile_unknown(): an entry the broker holds is matched and then recorded.
Match(t) ==
    /\ passAt = "match" /\ entry[t] = "unknown"
    /\ broker[t] \in {"order", "position"}
    /\ entry' = [entry EXCEPT ![t] = "replied"]
    /\ result' = [result EXCEPT ![t] = IF broker[t] = "order" THEN "PENDING" ELSE "FILLED"]
    /\ UNCHANGED <<broker, own, rows, pass, crashes>>

Forget ==
    /\ passAt' = "idle" /\ sawPositions' = {} /\ sawOrders' = {} /\ todo' = {}
    /\ rowStatus' = [t \in Tickets |-> "none"]
    /\ orderStatus' = [t \in Tickets |-> "none"]
    /\ UNCHANGED <<broker, entries, rows>>

JobEnds ==
    /\ passAt = "match"
    /\ \A t \in Tickets : entry[t] = "unknown" => broker[t] = "gone"
    /\ Forget
    /\ UNCHANGED crashes

\* The process dies, or a read or a repair raises: the job ends halfway.
CrashPass ==
    /\ passAt # "idle" /\ crashes < MaxBrokenPasses
    /\ crashes' = crashes + 1
    /\ Forget

Pass == ReadPositions \/ ReadOrders \/ ReadRows \/ ReadOrderRows \/ Repair \/ PassEnds \/ JobEnds

LedgerNext ==
    \/ \E t \in Tickets : SendEntry(t) \/ BrokerMoves(t) \/ RecordEntry(t) \/ ManualClose(t) \/ Match(t)
    \/ Pass \/ CrashPass

LedgerSpec == LedgerInit /\ [][LedgerNext]_ledgerVars

-----------------------------------------------------------------------------
(***************************************************************************)
(* Properties.                                                             *)
(***************************************************************************)

\* POST /admin/reconcile: what list_open() and pending() have and the broker
\* has not, and the other way round.
Mismatches ==
    {t \in Tickets : (broker[t] = "position") # (position[t] = "open")}
    \cup {t \in Tickets : (broker[t] = "order") # (OrderRow(t) = "PENDING")}

\* Whatever the pass read while the broker and the executor went on, the rows
\* agree with the broker again and again once faults cease: a position closed by
\* mistake is reopened, a recovered order follows the broker's.
MatchesInTheEnd == []<>(Mismatches = {})

\* A trade whose position is gone at the broker does not stay open for ever: it
\* would hold its risk_amount against every later entry (risk_usage()).
GoneTradesClose == \A t \in Tickets : (broker[t] = "gone" /\ trade[t] = "open") ~> (trade[t] = "closed")

\* A database-only record is closed "only when ... absence is authoritative"
\* (docs/operations.md:41): no trade is closed while its position is open.
AbsenceIsAuthoritative ==
    [][\A t \in Tickets : trade[t] = "open" /\ trade'[t] = "closed" => broker[t] # "position"]_ledgerVars

\* Only "open records" are cancelled (docs/operations.md:41): the row of an order
\* that was filled is not turned into a cancelled one.
FilledStaysFilled ==
    [][\A t \in Tickets : own[t].status = "FILLED" => own'[t].status = "FILLED"]_ledgerVars

\* What the executor sent is recorded: the outcome of an entry reaches the signal,
\* order and position rows in the end.
EntryIsRecorded == \A t \in Tickets : (entry[t] = "replied") ~> (entry[t] = "recorded")

=============================================================================
