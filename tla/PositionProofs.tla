--------------------------- MODULE PositionProofs ---------------------------
(***************************************************************************)
(* Theorems about the positions of the account: at most one of them is on  *)
(* gold, the worker manages it, and reconciliation keeps the rows of it.   *)
(* Each component has inductive invariants of its own.                     *)
(***************************************************************************)
EXTENDS SymbolResolution, LedgerReconciliation, PositionManagement, TLAPS

-----------------------------------------------------------------------------
(***************************************************************************)
(* SymbolResolution. What the gate counts as gold and what the broker      *)
(* holds as gold agree when every name of the metal is recognised.         *)
(***************************************************************************)

\* Every symbol resolve_symbol() may pick is among the equivalents of any other.
GoldIsRecognised == \A s \in Symbols : Score(s) # NoScore => s \in Described \/ CanonicalIsGold(s)

Gold(p) == Score(p[2]) # NoScore

\* Two gold positions are the same one, and theirs is a symbol the broker lists.
GoldInv ==
    /\ \A p \in positions : Gold(p) => p[2] \in Listed
    /\ \A p, q \in positions : Gold(p) /\ Gold(q) => p = q

\* An account without positions satisfies the invariant.
LEMMA InitGold == SymbolsInit => GoldInv
BY DEF SymbolsInit, GoldInv

\* An entry finds every open gold position among the equivalents of its symbol.
LEMMA NextGold == ASSUME GoldIsRecognised PROVE GoldInv /\ [SymbolsNext]_symbolsVars => GoldInv'
<1> SUFFICES ASSUME GoldInv, [SymbolsNext]_symbolsVars PROVE GoldInv'
  OBVIOUS
<1>1. ASSUME NEW s \in Symbols, Enter(s) PROVE GoldInv'
  <2>1. s \in Listed /\ positions' = positions \cup {<<opened, s>>}
    BY <1>1 DEF Enter, Resolved, Ranked
  <2>2. ASSUME NEW p \in positions PROVE ~Gold(p)
    <3>1. p[2] \notin Equivalent(s)
      BY <1>1, <2>2 DEF Enter
    <3> QED
      BY <2>2, <3>1, GoldIsRecognised DEF GoldInv, Equivalent, GoldIsRecognised, Gold, Listed
  <2> QED
    BY <2>1, <2>2 DEF GoldInv, Gold
<1>2. ASSUME NEW s \in Symbols, OwnTrade(s) PROVE GoldInv'
  <2>1. positions' = positions \cup {<<opened, s>>} /\ ~Gold(<<opened, s>>)
    BY <1>2 DEF OwnTrade, Gold
  <2> QED
    BY <2>1 DEF GoldInv
<1>3. ASSUME NEW p \in positions, Close(p) PROVE GoldInv'
  BY <1>3 DEF Close, GoldInv
<1>4. ASSUME NEW s \in Symbols, Toggle(s) PROVE GoldInv'
  BY <1>4 DEF Toggle, GoldInv
<1>5. CASE UNCHANGED symbolsVars
  BY <1>5 DEF symbolsVars, GoldInv
<1> QED
  BY <1>1, <1>2, <1>3, <1>4, <1>5 DEF SymbolsNext

\* The engine never holds two gold positions, whichever instruments the broker
\* opens and closes for trading between two entries.
THEOREM OneGoldPositionHolds == ASSUME GoldIsRecognised PROVE SymbolsSpec => []OneGoldPosition
<1>1. GoldInv => OneGoldPosition
  BY DEF GoldInv, Gold, OneGoldPosition
<1>2. GoldInv /\ [SymbolsNext]_symbolsVars => GoldInv'
  BY NextGold, GoldIsRecognised
<1> QED
  BY <1>1, <1>2, InitGold, PTL DEF SymbolsSpec

-----------------------------------------------------------------------------
(***************************************************************************)
(* LedgerReconciliation. One reconciliation works at a time: what it did   *)
(* not see at the broker was gone, or comes from after its look.           *)
(***************************************************************************)

\* A position row follows a position of the broker, which does not come back once it
\* is gone; and from the answer of the broker to the last repair, an open row whose
\* ticket the broker did not name is one whose position is gone.
GoneInv ==
    /\ broker \in [Tickets -> {"none", "order", "position", "gone"}]
    /\ entry \in [Tickets -> {"none", "replied", "unknown", "recorded"}]
    /\ result \in [Tickets -> {"PENDING", "FILLED"}]
    /\ position \in [Tickets -> {"none", "open", "closed"}]
    /\ trade \in [Tickets -> {"none", "open", "closed"}]
    /\ sawPositions \subseteq Tickets /\ sawOrders \subseteq Tickets
    /\ \A t \in Tickets :
         /\ entry[t] = "none" => broker[t] = "none" /\ position[t] = "none"
         /\ entry[t] # "none" /\ result[t] = "FILLED" => broker[t] \in {"position", "gone"}
         /\ position[t] # "none" \/ t \in sawPositions => broker[t] \in {"position", "gone"}
         /\ passAt \in {"orders", "rows"} /\ position[t] = "open" /\ t \notin sawPositions =>
              broker[t] = "gone"
         /\ passAt = "orderRows" /\ rowStatus[t] = "open" /\ t \notin sawPositions =>
              broker[t] = "gone"
    /\ \A r \in todo : passAt = "repair" /\ r[2] \in Tickets
    /\ \A r \in todo : r[1] = "open" => broker[r[2]] \in {"position", "gone"}
    /\ \A r \in todo : r[1] = "close" => broker[r[2]] = "gone"

Absent ==
    \A t \in Tickets : trade[t] = "open" /\ trade'[t] = "closed" => broker[t] # "position"

LEMMA InitGone == LedgerInit => GoneInv
BY DEF LedgerInit, GoneInv

LEMMA NextGone ==
    ASSUME Concurrent = FALSE, GoneInv, [LedgerNext]_ledgerVars PROVE GoneInv' /\ Absent
<1> USE DEF entries, rows, pass
<1>1. ASSUME NEW t \in Tickets, SendEntry(t) PROVE GoneInv' /\ Absent
  <2>1. PICK h \in {"position", "order"} :
          /\ broker' = [broker EXCEPT ![t] = h]
          /\ result' = [result EXCEPT ![t] = IF h = "order" THEN "PENDING" ELSE "FILLED"]
    BY <1>1 DEF SendEntry
  <2>2. PICK e \in {"replied", "unknown"} : entry' = [entry EXCEPT ![t] = e]
    BY <1>1 DEF SendEntry
  <2>3. entry[t] = "none" /\ UNCHANGED <<rows, pass>>
    BY <1>1 DEF SendEntry
  <2> QED
    BY <2>1, <2>2, <2>3 DEF GoneInv, Absent
<1>2. ASSUME NEW t \in Tickets, BrokerMoves(t) PROVE GoneInv' /\ Absent
  <2>1. PICK b \in {"position", "gone"} :
          /\ broker' = [broker EXCEPT ![t] = b]
          /\ broker[t] = "order" \/ (broker[t] = "position" /\ b = "gone")
    BY <1>2 DEF BrokerMoves
  <2>2. UNCHANGED <<entries, rows, pass>>
    BY <1>2 DEF BrokerMoves
  <2> QED
    BY <2>1, <2>2 DEF GoneInv, Absent
<1>3. ASSUME NEW t \in Tickets, RecordEntry(t) PROVE GoneInv' /\ Absent
  BY <1>3 DEF RecordEntry, GoneInv, Absent
<1>4. ASSUME NEW t \in Tickets, ManualClose(t) PROVE GoneInv' /\ Absent
  BY <1>4 DEF ManualClose, GoneInv, Absent
<1>5. ASSUME NEW t \in Tickets, Match(t) PROVE GoneInv' /\ Absent
  BY <1>5 DEF Match, GoneInv, Absent
<1>6. CASE ReadPositions
  BY <1>6 DEF ReadPositions, GoneInv, Absent
<1>7. CASE ReadOrders
  BY <1>7 DEF ReadOrders, GoneInv, Absent
<1>8. CASE ReadRows
  BY <1>8 DEF ReadRows, GoneInv, Absent
<1>9. CASE ReadOrderRows
  <2>1. /\ passAt = "orderRows" /\ passAt' = "repair" /\ todo' = Repairs
        /\ UNCHANGED <<broker, entries, rows, sawPositions, sawOrders, rowStatus>>
    BY <1>9 DEF ReadOrderRows
  <2>2. \A r \in todo' :
          \E t \in Tickets :
             /\ r[2] = t
             /\ r[1] = "open" => t \in sawPositions
             /\ r[1] = "close" => t \notin sawPositions /\ rowStatus[t] = "open"
    BY <2>1 DEF Repairs, GoneInv
  <2> QED
    BY <2>1, <2>2 DEF GoneInv, Absent
<1>10. CASE Repair
  <2>1. PICK r \in todo :
          /\ todo' = todo \ {r}
          /\ \/ r[1] = "open" /\ UpsertOpen(r[2])
             \/ r[1] = "close" /\ UpsertClosed(r[2])
             \/ r[1] = "restore" /\ UpsertOrder(r[2], "PENDING")
             \/ r[1] = "cancel" /\ UpsertOrder(r[2], "CANCELLED")
    BY <1>10 DEF Repair
  <2>2. UNCHANGED <<broker, entry, result, passAt, sawPositions, sawOrders, rowStatus>>
        /\ r[2] \in Tickets
    BY <1>10 DEF Repair, GoneInv
  <2>3. CASE r[1] = "open" /\ UpsertOpen(r[2])
    BY <2>1, <2>2, <2>3 DEF UpsertOpen, RecoveryTrade, GoneInv, Absent
  <2>4. CASE r[1] = "close" /\ UpsertClosed(r[2])
    BY <2>1, <2>2, <2>4 DEF UpsertClosed, GoneInv, Absent
  <2>5. CASE UNCHANGED <<position, trade>>
    BY <2>1, <2>2, <2>5 DEF GoneInv, Absent
  <2> QED
    BY <2>1, <2>3, <2>4, <2>5 DEF UpsertOrder
<1>11. CASE PassEnds
  BY <1>11 DEF PassEnds, GoneInv, Absent
<1>12. CASE JobEnds \/ CrashPass
  BY <1>12 DEF JobEnds, CrashPass, Forget, GoneInv, Absent
<1>13. CASE UNCHANGED ledgerVars
  BY <1>13 DEF ledgerVars, GoneInv, Absent
<1> QED
  BY <1>1, <1>2, <1>3, <1>4, <1>5, <1>6, <1>7, <1>8, <1>9, <1>10, <1>11, <1>12, <1>13
     DEF LedgerNext, Pass

\* Where no entry is recorded while a pass is under way, a trade is closed only when
\* the position is gone at the broker, for any number of tickets and through passes
\* that end halfway, manual closes and lost replies.
THEOREM AbsenceIsAuthoritativeHolds ==
    ASSUME Concurrent = FALSE PROVE LedgerSpec => AbsenceIsAuthoritative
<1>1. LedgerInit => GoneInv
  BY InitGone
<1>2. GoneInv /\ [LedgerNext]_ledgerVars => GoneInv' /\ Absent
  BY NextGone
<1>3. GoneInv /\ [LedgerNext]_ledgerVars =>
        [\A t \in Tickets :
           trade[t] = "open" /\ trade'[t] = "closed" => broker[t] # "position"]_ledgerVars
  BY <1>2 DEF Absent
<1> QED
  BY <1>1, <1>2, <1>3, PTL DEF LedgerSpec, AbsenceIsAuthoritative

-----------------------------------------------------------------------------
(***************************************************************************)
(* PositionManagement. One process manages the positions: what it holds in *)
(* its locals is then what the row and the broker said when it read them,  *)
(* or what only the market changed since.                                  *)
(***************************************************************************)

\* The positions job runs once at a time (WorkerJobs).
OneManager == \A m, n \in Managers : m = n

Beside ==
    \/ QuoteMoves \/ BrokerExits \/ ExitStarts \/ ExitCloses \/ RecordExit
    \/ LedgerReads \/ LedgerWrites \/ Conclude \/ UNCHANGED manageVars

LEMMA InitType == ManageInit => ManageTypeOK
<1> SUFFICES ASSUME ManageInit PROVE ManageTypeOK
  OBVIOUS
<1>1. sign \in {1, -1} /\ volume \in Nat /\ scenario \in SUBSET Disturbances
  BY DirectionAssumption, VolumeAssumption, ScenarioAssumption DEF ManageInit
<1>2. stop \in Int
  BY <1>1, PriceAssumption DEF ManageInit, InitialStop
<1>3. /\ stateRow \in [state : TradeStates, closed : BOOLEAN]
      /\ NoPlan \in [state : TradeStates, seen : SUBSET Events]
  BY DEF ManageInit, TradeStates, NoPlan
<1> QED
  BY <1>1, <1>2, <1>3 DEF ManageInit, ManageTypeOK

\* What the price, the broker, the exit, the ledger pass and the repair may change.
LEMMA BesideStep ==
    ASSUME ManageTypeOK, Beside
    PROVE  /\ ManageTypeOK'
           /\ UNCHANGED <<scenario, sign, events, tp1, pc, plan, seen, asked>>
           /\ volume' \in {0, volume}
           /\ stop' = stop \/ repair = "modify"
           /\ stateRow' = stateRow \/ exit = "record" \/ ledger # "idle"
           /\ repair' = repair \/ repair # "done"
           /\ exit' = exit \/ "exits" \in scenario \/ exit # "idle"
           /\ ledger' = ledger \/ "ledger" \in scenario \/ ledger # "idle"
<1> USE DEF market, held, ledgers, managing, others
<1>1. CASE QuoteMoves
  BY <1>1 DEF QuoteMoves, ManageTypeOK
<1>2. CASE BrokerExits
  BY <1>2 DEF BrokerExits, ManageTypeOK
<1>3. CASE ExitStarts
  BY <1>3 DEF ExitStarts, ManageTypeOK
<1>4. CASE ExitCloses
  BY <1>4 DEF ExitCloses, ManageTypeOK
<1>5. CASE RecordExit
  BY <1>5 DEF RecordExit, ManageTypeOK, TradeStates, Ends
<1>6. CASE LedgerReads
  BY <1>6 DEF LedgerReads, ManageTypeOK
<1>7. CASE LedgerWrites
  BY <1>7 DEF LedgerWrites, ManageTypeOK, TradeStates, Ends
<1>8. CASE VerifyProtection
  BY <1>8 DEF VerifyProtection, ManageTypeOK
<1>9. CASE RepairProtection
  <2>1. InitialStop \in Int
    BY PriceAssumption DEF InitialStop, ManageTypeOK
  <2> QED
    BY <1>9, <2>1 DEF RepairProtection, ManageTypeOK
<1>10. CASE SafeClose
  BY <1>10 DEF SafeClose, ManageTypeOK
<1>11. CASE UNCHANGED manageVars
  BY <1>11 DEF manageVars, ManageTypeOK
<1> QED
  BY <1>1, <1>2, <1>3, <1>4, <1>5, <1>6, <1>7, <1>8, <1>9, <1>10, <1>11 DEF Beside, Conclude

\* Where the manager is and what it holds, one step later.
Places == {"idle", "positions", "partial", "close", "tp1", "even", "move", "evened", "trail", "pull"}

Holding ==
    /\ pc \in [Managers -> Places]
    /\ plan \in [Managers -> [state : TradeStates, seen : SUBSET Events]]
    /\ seen \in [Managers -> Int] /\ asked \in [Managers -> Int]

LEMMA HoldingTypes == ManageTypeOK => Holding
BY DEF ManageTypeOK, Holding, Places

LEMMA Ending == ASSUME Holding, NEW m \in Managers, End(m) PROVE Holding' /\ pc'[m] = "idle"
<1>1. NoPlan \in [state : TradeStates, seen : SUBSET Events]
  BY DEF NoPlan, TradeStates
<1> QED
  BY <1>1 DEF Holding, End, Goto, Places

LEMMA Going ==
    ASSUME Holding, NEW m \in Managers, NEW p \in Places, Goto(m, p), UNCHANGED <<plan, seen, asked>>
    PROVE  Holding' /\ pc'[m] = p
BY DEF Holding, Goto

LEMMA Asking ==
    ASSUME Holding, NEW m \in Managers, NEW p \in Places, Goto(m, p), UNCHANGED <<plan, seen>>,
           NEW v \in Int, asked' = [asked EXCEPT ![m] = v]
    PROVE  Holding' /\ pc'[m] = p /\ asked'[m] = v
BY DEF Holding, Goto

LEMMA Skipping ==
    ASSUME Holding, NEW m \in Managers, Skip(m)
    PROVE  Holding' /\ pc'[m] \in {"idle", "trail"}
<1>1. CASE End(m)
  BY <1>1, Ending
<1>2. CASE ~End(m)
  <2>1. Goto(m, "trail") /\ UNCHANGED <<plan, seen, asked>>
    BY <1>2 DEF Skip, AfterEven
  <2>2. "trail" \in Places
    BY DEF Places
  <2> QED
    BY <2>1, <2>2, Going
<1> QED
  BY <1>1, <1>2

\* A step of the manager keeps the types.
LEMMA ManagerType ==
    ASSUME ManageTypeOK, NEW m \in Managers, Manage(m) \/ Die(m)
    PROVE  ManageTypeOK' /\ UNCHANGED <<scenario, sign, price, exit, ledger, repair>>
<1>0. Holding
  BY HoldingTypes
<1> USE DEF market, held, ledgers, managing, others
<1> SUFFICES /\ Holding'
             /\ UNCHANGED <<scenario, sign, price, exit, ledger, repair>>
             /\ stop' \in Int /\ volume' \in Nat /\ tp1' \in Nat /\ events' \in SUBSET Events
             /\ stateRow' \in [state : TradeStates, closed : BOOLEAN]
  BY DEF ManageTypeOK, Holding, Places
<1> USE <1>0 DEF ManageTypeOK
<1>1. CASE OpenPositionPlans(m)
  BY <1>1 DEF OpenPositionPlans, Goto, Holding, Places
<1>2. CASE GetPositions(m)
  <2>1. CASE volume = 0
    BY <1>2, <2>1, Ending DEF GetPositions
  <2>2. CASE volume # 0
    BY <1>2, <2>2 DEF GetPositions, Goto, Holding, Places
  <2> QED
    BY <2>1, <2>2
<1>3. CASE PartialClose(m)
  <2>1. CloseVolume \in Int
    BY VolumeAssumption DEF CloseVolume
  <2>2. CASE End(m)
    BY <1>3, <2>2, Ending DEF PartialClose
  <2>3. CASE ~End(m)
    BY <1>3, <2>1, <2>3, Going, Asking DEF PartialClose, Places
  <2> QED
    BY <2>2, <2>3
<1>4. CASE ClosePosition(m)
  <2>1. asked[m] \in Int
    BY DEF Holding
  <2>2. volume' \in Nat /\ tp1' \in Nat
    BY <1>4, <2>1 DEF ClosePosition
  <2>3. End(m) \/ (\E p \in {"even", "tp1"} : Goto(m, p) /\ UNCHANGED <<plan, seen, asked>>)
    BY <1>4 DEF ClosePosition
  <2>4. {"even", "tp1"} \subseteq Places
    BY DEF Places
  <2>5. Holding'
    BY <2>3, <2>4, Ending, Going
  <2> QED
    BY <1>4, <2>2, <2>5 DEF ClosePosition
<1>5. CASE RecordTp1(m)
  <2>1. Tp1State(m) \in TradeStates
    BY DEF Tp1State, TradeStates
  <2>2. stateRow' \in [state : TradeStates, closed : BOOLEAN] /\ events' \in SUBSET Events
    BY <1>5, <2>1 DEF RecordTp1, Events
  <2> QED
    BY <1>5, <2>2 DEF RecordTp1, Goto, Holding, Places
<1>6. CASE MoveToBreakEven(m)
  <2>1. sign * Costs \in Int
    BY PriceAssumption
  <2>2. CASE End(m) \/ Skip(m)
    BY <1>6, <2>2, Ending, Skipping DEF MoveToBreakEven
  <2>3. CASE ~(End(m) \/ Skip(m))
    BY <1>6, <2>1, <2>3, Asking DEF MoveToBreakEven, Places
  <2> QED
    BY <2>2, <2>3
<1>7. CASE ModifyForBreakEven(m)
  <2>1. asked[m] \in Int
    BY DEF Holding
  <2>2. CASE Skip(m)
    BY <1>7, <2>1, <2>2, Skipping DEF ModifyForBreakEven, Modify
  <2>3. CASE ~Skip(m)
    BY <1>7, <2>1, <2>3, Going DEF ModifyForBreakEven, Modify, Places
  <2> QED
    BY <2>2, <2>3
<1>8. CASE RecordBreakEven(m)
  <2>1. CASE volume = 0
    BY <1>8, <2>1, Ending DEF RecordBreakEven
  <2>2. CASE volume # 0
    <3>1. stateRow' \in [state : TradeStates, closed : BOOLEAN] /\ events' \in SUBSET Events
      BY <1>8, <2>2 DEF RecordBreakEven, TradeStates, Events
    <3> QED
      BY <1>8, <2>2, <3>1, Skipping DEF RecordBreakEven
  <2> QED
    BY <2>1, <2>2
<1>9. CASE Trail(m)
  <2>1. price - sign * TrailDistance \in Int
    BY PriceAssumption
  <2>2. CASE End(m)
    BY <1>9, <2>2, Ending DEF Trail
  <2>3. CASE ~End(m)
    BY <1>9, <2>1, <2>3, Asking DEF Trail, Places
  <2> QED
    BY <2>2, <2>3
<1>10. CASE ModifyForTrail(m)
  <2>1. asked[m] \in Int
    BY DEF Holding
  <2> QED
    BY <1>10, <2>1, Ending DEF ModifyForTrail, Modify
<1>11. CASE Die(m)
  BY <1>11, Ending DEF Die
<1> QED
  BY <1>1, <1>2, <1>3, <1>4, <1>5, <1>6, <1>7, <1>8, <1>9, <1>10, <1>11 DEF Manage

\* Partial closes: what is asked for leaves a part that can be traded, the events seen
\* are those recorded until the manager records one, and a partial close that happened
\* is recorded or about to be.
CloseInv ==
    /\ volume = 0 \/ volume >= MinimumVolume
    /\ \A m \in Managers :
         /\ pc[m] = "close" =>
              /\ asked[m] >= MinimumVolume
              /\ volume = 0 \/ volume = asked[m] \/ volume - asked[m] >= MinimumVolume
         /\ pc[m] \in {"positions", "partial", "close"} => plan[m].seen = events
         /\ pc[m] \in {"partial", "close"} => "TP1_HIT" \notin events
    /\ "faults" \notin scenario =>
         /\ tp1 <= 1
         /\ tp1 = 0 \/ "TP1_HIT" \in events \/ \E m \in Managers : pc[m] = "tp1"

LEMMA InitClose == ManageInit => CloseInv
BY VolumeAssumption DEF ManageInit, CloseInv

LEMMA BesideClose == ASSUME ManageTypeOK, CloseInv, Beside PROVE CloseInv'
<1>1. UNCHANGED <<scenario, events, tp1, pc, plan, asked>> /\ volume' \in {0, volume}
  BY BesideStep
<1> QED
  BY <1>1 DEF CloseInv

LEMMA ManagerClose ==
    ASSUME OneManager, ManageTypeOK, CloseInv, NEW m \in Managers, Manage(m) \/ Die(m)
    PROVE  CloseInv'
<1>0. Holding /\ MinimumVolume \in Nat \ {0} /\ volume \in Nat /\ tp1 \in Nat
  BY HoldingTypes, VolumeAssumption DEF ManageTypeOK
<1>a. \A n \in Managers : n = m
  BY DEF OneManager
<1> USE <1>0 DEF market, held, ledgers, managing, others
<1>1. CASE OpenPositionPlans(m)
  BY <1>1, <1>a DEF OpenPositionPlans, Goto, Holding, CloseInv
<1>2. CASE GetPositions(m)
  <2>1. pc'[m] \in {"idle", "even"} \/ (pc'[m] = "partial" /\ plan'[m] = plan[m] /\ Tp1Due(m))
    BY <1>2, Ending DEF GetPositions, Goto, Holding
  <2>2. UNCHANGED <<scenario, volume, events, tp1>> /\ pc[m] = "positions"
    BY <1>2 DEF GetPositions
  <2> QED
    BY <1>a, <2>1, <2>2 DEF CloseInv, Tp1Due
<1>3. CASE PartialClose(m)
  <2>1. CloseVolume \in Int
    BY VolumeAssumption DEF CloseVolume
  <2>2. \/ pc'[m] \in {"idle", "even"}
        \/ pc'[m] = "close" /\ plan'[m] = plan[m] /\ asked'[m] = CloseVolume /\ ValidPartial
    BY <1>3, Ending DEF PartialClose, Goto, Holding
  <2>3. UNCHANGED <<scenario, volume, events, tp1>> /\ pc[m] = "partial"
    BY <1>3 DEF PartialClose
  <2>4. CASE pc'[m] \in {"idle", "even"}
    BY <1>a, <2>3, <2>4 DEF CloseInv
  <2>5. CASE pc'[m] = "close" /\ plan'[m] = plan[m] /\ asked'[m] = CloseVolume /\ ValidPartial
    <3>1. /\ asked'[m] >= MinimumVolume
          /\ volume' = asked'[m] \/ volume' - asked'[m] >= MinimumVolume
      <4>0. volume' = volume
        BY <2>3
      <4>1. asked'[m] = CloseVolume
        BY <2>5
      <4>2. /\ CloseVolume >= MinimumVolume
            /\ volume - CloseVolume = 0 \/ volume - CloseVolume >= MinimumVolume
        BY <2>5 DEF ValidPartial
      <4>3. volume - CloseVolume = 0 => volume = CloseVolume
        BY <2>1
      <4> QED
        BY <4>0, <4>1, <4>2, <4>3
    <3> QED
      BY <1>a, <2>3, <2>5, <3>1 DEF CloseInv
  <2> QED
    BY <2>2, <2>4, <2>5
<1>4. CASE ClosePosition(m)
  <2>1. UNCHANGED <<scenario, events>> /\ pc[m] = "close" /\ asked[m] \in Int
    BY <1>4 DEF ClosePosition, Holding
  <2>2. CASE UNCHANGED <<volume, tp1>>
    <3>1. pc'[m] \in {"idle", "even", "tp1"}
      BY <1>4, Ending DEF ClosePosition, Goto, Holding
    <3> QED
      BY <1>a, <2>1, <2>2, <3>1 DEF CloseInv
  <2>3. CASE ~UNCHANGED <<volume, tp1>>
    <3>1. volume >= asked[m] /\ volume' = volume - asked[m] /\ tp1' = tp1 + 1
      BY <1>4, <2>3 DEF ClosePosition
    <3>2. pc'[m] = "tp1" \/ (pc'[m] = "idle" /\ "faults" \in scenario)
      BY <1>4, <2>3, Ending DEF ClosePosition, Goto, Holding
    <3>3. "TP1_HIT" \notin events /\ ("faults" \notin scenario => tp1 = 0)
      BY <1>a, <2>1 DEF CloseInv
    <3>4. volume' = 0 \/ volume' >= MinimumVolume
      BY <2>1, <3>1 DEF CloseInv
    <3> QED
      BY <1>a, <2>1, <3>1, <3>2, <3>3, <3>4 DEF CloseInv
  <2> QED
    BY <2>2, <2>3
<1>5. CASE RecordTp1(m)
  BY <1>5, <1>a DEF RecordTp1, Goto, Holding, CloseInv
<1>6. CASE MoveToBreakEven(m)
  <2>1. pc'[m] \in {"idle", "trail", "move"}
    BY <1>6, Ending, Skipping DEF MoveToBreakEven, Goto, Holding
  <2>2. UNCHANGED <<scenario, volume, events, tp1>> /\ pc[m] = "even"
    BY <1>6 DEF MoveToBreakEven
  <2> QED
    BY <1>a, <2>1, <2>2 DEF CloseInv
<1>7. CASE ModifyForBreakEven(m)
  <2>1. pc'[m] \in {"idle", "trail", "evened"}
    BY <1>7, Skipping DEF ModifyForBreakEven, Goto, Holding
  <2>2. UNCHANGED <<scenario, volume, events, tp1>> /\ pc[m] = "move"
    BY <1>7 DEF ModifyForBreakEven
  <2> QED
    BY <1>a, <2>1, <2>2 DEF CloseInv
<1>8. CASE RecordBreakEven(m)
  <2>1. pc'[m] \in {"idle", "trail"}
    BY <1>8, Ending, Skipping DEF RecordBreakEven
  <2>2. UNCHANGED <<scenario, volume, tp1>> /\ events \subseteq events' /\ pc[m] = "evened"
    BY <1>8 DEF RecordBreakEven
  <2> QED
    BY <1>a, <2>1, <2>2 DEF CloseInv
<1>9. CASE Trail(m)
  <2>1. pc'[m] \in {"idle", "pull"}
    BY <1>9, Ending DEF Trail, Goto, Holding
  <2>2. UNCHANGED <<scenario, volume, events, tp1>> /\ pc[m] = "trail"
    BY <1>9 DEF Trail
  <2> QED
    BY <1>a, <2>1, <2>2 DEF CloseInv
<1>10. CASE ModifyForTrail(m)
  <2>1. pc'[m] = "idle"
    BY <1>10, Ending DEF ModifyForTrail
  <2>2. UNCHANGED <<scenario, volume, events, tp1>> /\ pc[m] = "pull"
    BY <1>10 DEF ModifyForTrail
  <2> QED
    BY <1>a, <2>1, <2>2 DEF CloseInv
<1>11. CASE Die(m)
  <2>1. pc'[m] = "idle" /\ "faults" \in scenario
    BY <1>11, Ending DEF Die
  <2>2. UNCHANGED <<scenario, volume, events, tp1>>
    BY <1>11 DEF Die
  <2> QED
    BY <1>a, <2>1, <2>2 DEF CloseInv
<1> QED
  BY <1>1, <1>2, <1>3, <1>4, <1>5, <1>6, <1>7, <1>8, <1>9, <1>10, <1>11 DEF Manage

\* The stop: without an attempt to conclude, a stop that is asked for improves the one
\* the broker holds, since nothing else moves it while the change is under way.
StopInv ==
    "unknown" \notin scenario =>
        /\ repair = "done"
        /\ "BREAK_EVEN" \in events => sign * stop >= Costs
        /\ \A m \in Managers :
             /\ pc[m] \in {"move", "pull"} => sign * asked[m] > sign * stop
             /\ pc[m] = "move" => sign * asked[m] = Costs
             /\ pc[m] = "evened" => sign * stop >= Costs

LEMMA InitStop == ManageInit => StopInv
BY DEF ManageInit, StopInv

LEMMA BesideStop ==
    ASSUME ManageTypeOK, StopInv, Beside PROVE StopInv' /\ ("unknown" \notin scenario => stop' = stop)
<1>1. /\ UNCHANGED <<scenario, sign, events, pc, asked>>
      /\ (stop' = stop \/ repair = "modify") /\ (repair' = repair \/ repair # "done")
  BY BesideStep
<1>2. "unknown" \notin scenario => stop' = stop /\ repair' = repair
  BY <1>1, BesideStep DEF StopInv
<1> QED
  BY <1>1, <1>2 DEF StopInv

LEMMA SignTwice == ASSUME NEW s \in {1, -1}, NEW c \in Int PROVE s * (s * c) = c
OBVIOUS

LEMMA ManagerStop ==
    ASSUME OneManager, ManageTypeOK, StopInv, NEW m \in Managers, Manage(m) \/ Die(m)
    PROVE  StopInv' /\ ("unknown" \notin scenario => sign * stop' >= sign * stop)
<1>0. Holding /\ sign \in {1, -1} /\ Costs \in Nat /\ stop \in Int
      /\ price \in Int /\ sign * stop \in Int
  BY HoldingTypes, PriceAssumption DEF ManageTypeOK
<1>a. \A n \in Managers : n = m
  BY DEF OneManager
<1>b. sign * stop >= sign * stop
  BY <1>0
<1>c. UNCHANGED <<scenario, sign, repair>>
  BY ManagerType
<1> USE <1>0, <1>b DEF market, held, ledgers, managing, others
<1>1. CASE OpenPositionPlans(m)
  BY <1>1, <1>a DEF OpenPositionPlans, Goto, Holding, StopInv
<1>2. CASE GetPositions(m)
  <2>1. pc'[m] \in {"idle", "partial", "even"}
    BY <1>2, Ending DEF GetPositions, Goto, Holding
  <2>2. UNCHANGED <<scenario, sign, stop, events, repair>>
    BY <1>2 DEF GetPositions
  <2> QED
    BY <1>a, <2>1, <2>2 DEF StopInv
<1>3. CASE PartialClose(m)
  <2>1. pc'[m] \in {"idle", "even", "close"}
    BY <1>3, Ending DEF PartialClose, Goto, Holding
  <2>2. UNCHANGED <<scenario, sign, stop, events, repair>>
    BY <1>3 DEF PartialClose
  <2> QED
    BY <1>a, <2>1, <2>2 DEF StopInv
<1>4. CASE ClosePosition(m)
  <2>1. pc'[m] \in {"idle", "even", "tp1"}
    BY <1>4, Ending DEF ClosePosition, Goto, Holding
  <2>2. UNCHANGED <<scenario, sign, stop, events, repair>>
    BY <1>4 DEF ClosePosition
  <2> QED
    BY <1>a, <2>1, <2>2 DEF StopInv
<1>5. CASE RecordTp1(m)
  <2>1. pc'[m] = "even" /\ stop' = stop /\ ("BREAK_EVEN" \in events' => "BREAK_EVEN" \in events)
    BY <1>5 DEF RecordTp1, Goto, Holding
  <2> QED
    BY <1>a, <1>c, <2>1 DEF StopInv
<1>6. CASE MoveToBreakEven(m)
  <2>1. \/ pc'[m] \in {"idle", "trail"}
        \/ pc'[m] = "move" /\ asked'[m] = sign * Costs /\ Favours(sign * Costs, stop)
    BY <1>6, Ending, Skipping DEF MoveToBreakEven, Goto, Holding
  <2>2. UNCHANGED <<stop, events>>
    BY <1>6 DEF MoveToBreakEven
  <2>3. sign * (sign * Costs) = Costs
    BY SignTwice
  <2> QED
    BY <1>a, <1>c, <2>1, <2>2, <2>3 DEF StopInv, Favours
<1>7. CASE ModifyForBreakEven(m)
  <2>1. \/ pc'[m] \in {"idle", "trail"} /\ stop' = stop
        \/ pc'[m] = "evened" /\ stop' = asked[m]
    BY <1>7, Skipping DEF ModifyForBreakEven, Modify, Goto, Holding
  <2>2. UNCHANGED events /\ pc[m] = "move"
    BY <1>7 DEF ModifyForBreakEven
  <2>3. "unknown" \notin scenario => sign * asked[m] > sign * stop /\ sign * asked[m] = Costs
    BY <2>2 DEF StopInv
  <2>4. "unknown" \notin scenario => sign * stop' >= sign * stop
    BY <2>1, <2>3
  <2>5. "unknown" \notin scenario /\ "BREAK_EVEN" \in events => sign * stop' >= Costs
    BY <2>1, <2>3 DEF StopInv
  <2>6. "unknown" \notin scenario /\ pc'[m] = "evened" => sign * stop' >= Costs
    BY <2>1, <2>3
  <2> QED
    BY <1>a, <1>c, <2>1, <2>2, <2>4, <2>5, <2>6 DEF StopInv
<1>8. CASE RecordBreakEven(m)
  <2>1. pc'[m] \in {"idle", "trail"}
    BY <1>8, Ending, Skipping DEF RecordBreakEven
  <2>2. UNCHANGED stop /\ pc[m] = "evened"
    BY <1>8 DEF RecordBreakEven
  <2> QED
    BY <1>a, <1>c, <2>1, <2>2 DEF StopInv
<1>9. CASE Trail(m)
  <2>1. \/ pc'[m] = "idle"
        \/ /\ pc'[m] = "pull" /\ asked'[m] = price - sign * TrailDistance
           /\ Favours(price - sign * TrailDistance, stop)
    BY <1>9, Ending DEF Trail, TrailImproves, Goto, Holding
  <2>2. UNCHANGED <<stop, events>>
    BY <1>9 DEF Trail
  <2>3. pc'[m] = "pull" => sign * asked'[m] > sign * stop
    BY <2>1 DEF Favours
  <2>4. pc'[m] \in {"idle", "pull"}
    BY <2>1
  <2> QED
    BY <1>a, <1>c, <2>2, <2>3, <2>4 DEF StopInv
<1>10. CASE ModifyForTrail(m)
  <2>1. pc'[m] = "idle" /\ stop' \in {stop, asked[m]}
    BY <1>10, Ending DEF ModifyForTrail, Modify
  <2>2. UNCHANGED events /\ pc[m] = "pull"
    BY <1>10 DEF ModifyForTrail
  <2>3. "unknown" \notin scenario => sign * asked[m] > sign * stop
    BY <2>2 DEF StopInv
  <2>4. sign * asked[m] \in Int
    BY DEF Holding
  <2>5. "unknown" \notin scenario => sign * stop' >= sign * stop /\ sign * stop' \in Int
    <3>1. CASE stop' = stop
      BY <3>1
    <3>2. CASE stop' = asked[m]
      <4> SUFFICES ASSUME "unknown" \notin scenario
                   PROVE  sign * asked[m] >= sign * stop /\ sign * asked[m] \in Int
        BY <3>2
      <4> QED
        BY <2>3, <2>4
    <3> QED
      BY <2>1, <3>1, <3>2
  <2>6. "unknown" \notin scenario /\ "BREAK_EVEN" \in events => sign * stop' >= Costs
    BY <2>5 DEF StopInv
  <2> QED
    BY <1>a, <1>c, <2>1, <2>2, <2>5, <2>6 DEF StopInv
<1>11. CASE Die(m)
  <2>1. pc'[m] \in {"idle"}
    BY <1>11, Ending DEF Die, Goto, Holding
  <2>2. UNCHANGED <<scenario, sign, stop, events, repair>>
    BY <1>11 DEF Die
  <2> QED
    BY <1>a, <2>1, <2>2 DEF StopInv
<1> QED
  BY <1>1, <1>2, <1>3, <1>4, <1>5, <1>6, <1>7, <1>8, <1>9, <1>10, <1>11 DEF Manage

\* The row, where only the manager writes it: its state is one of three, and the one
\* the manager read until it has recorded TP1.
RowInv ==
    scenario \cap {"exits", "ledger"} = {} =>
        /\ exit = "idle" /\ ledger = "idle"
        /\ stateRow.state \in {"POSITION_OPEN", "TP1_HIT", "BREAK_EVEN"}
        /\ \A m \in Managers :
             pc[m] \in {"positions", "partial", "close", "tp1"} => plan[m].state = stateRow.state

RowStep == scenario \cap {"exits", "ledger"} = {} =>
             stateRow'.state \in {stateRow.state} \cup Allowed(stateRow.state)

LEMMA AfterOpening ==
    /\ {"TP1_HIT", "BREAK_EVEN"} \subseteq Allowed("POSITION_OPEN")
    /\ "BREAK_EVEN" \in Allowed("TP1_HIT")
BY DEF Allowed, Ends

LEMMA InitRow == ManageInit => RowInv
BY DEF ManageInit, RowInv

LEMMA BesideRow == ASSUME ManageTypeOK, RowInv, Beside PROVE RowInv' /\ RowStep
<1>1. /\ UNCHANGED <<scenario, pc, plan>>
      /\ stateRow' = stateRow \/ exit = "record" \/ ledger # "idle"
      /\ exit' = exit \/ "exits" \in scenario \/ exit # "idle"
      /\ ledger' = ledger \/ "ledger" \in scenario \/ ledger # "idle"
  BY BesideStep
<1>2. scenario \cap {"exits", "ledger"} = {} =>
         stateRow' = stateRow /\ exit' = "idle" /\ ledger' = "idle"
  BY <1>1 DEF RowInv
<1> QED
  BY <1>1, <1>2 DEF RowInv, RowStep

LEMMA ManagerRow ==
    ASSUME OneManager, ManageTypeOK, RowInv, NEW m \in Managers, Manage(m) \/ Die(m)
    PROVE  RowInv' /\ RowStep
<1>0. Holding
  BY HoldingTypes
<1>a. \A n \in Managers : n = m
  BY DEF OneManager
<1>c. UNCHANGED <<scenario, exit, ledger>>
  BY ManagerType
<1> USE <1>0 DEF market, held, ledgers, managing, others
<1>1. CASE OpenPositionPlans(m)
  BY <1>1, <1>a, <1>c DEF OpenPositionPlans, Goto, Holding, RowInv, RowStep
<1>2. CASE GetPositions(m)
  <2>1. pc'[m] \in {"idle", "partial", "even"} /\ (pc'[m] = "partial" => plan'[m] = plan[m])
        /\ stateRow' = stateRow
    BY <1>2, Ending DEF GetPositions, Goto, Holding
  <2> QED
    BY <1>2, <1>a, <1>c, <2>1 DEF RowInv, RowStep, GetPositions
<1>3. CASE PartialClose(m)
  <2>1. pc'[m] \in {"idle", "even", "close"} /\ (pc'[m] = "close" => plan'[m] = plan[m])
        /\ stateRow' = stateRow
    BY <1>3, Ending DEF PartialClose, Goto, Holding
  <2> QED
    BY <1>3, <1>a, <1>c, <2>1 DEF RowInv, RowStep, PartialClose
<1>4. CASE ClosePosition(m)
  <2>1. pc'[m] \in {"idle", "even", "tp1"} /\ (pc'[m] = "tp1" => plan'[m] = plan[m])
        /\ stateRow' = stateRow
    BY <1>4, Ending DEF ClosePosition, Goto, Holding
  <2> QED
    BY <1>4, <1>a, <1>c, <2>1 DEF RowInv, RowStep, ClosePosition
<1>5. CASE RecordTp1(m)
  <2>1. pc'[m] = "even" /\ stateRow'.state = Tp1State(m) /\ pc[m] = "tp1"
    BY <1>5 DEF RecordTp1, Goto, Holding, ManageTypeOK
  <2>2. scenario \cap {"exits", "ledger"} = {} =>
           /\ stateRow.state \in {"POSITION_OPEN", "TP1_HIT", "BREAK_EVEN"}
           /\ Tp1State(m) = IF stateRow.state = "BREAK_EVEN" THEN "BREAK_EVEN" ELSE "TP1_HIT"
    BY <2>1 DEF RowInv, Tp1State
  <2>3. RowStep
    BY <2>1, <2>2, AfterOpening DEF RowStep
  <2> QED
    BY <1>a, <1>c, <2>1, <2>2, <2>3 DEF RowInv
<1>6. CASE MoveToBreakEven(m)
  <2>1. pc'[m] \in {"idle", "trail", "move"} /\ stateRow' = stateRow
    BY <1>6, Ending, Skipping DEF MoveToBreakEven, Goto, Holding
  <2> QED
    BY <1>6, <1>a, <1>c, <2>1 DEF RowInv, RowStep, MoveToBreakEven
<1>7. CASE ModifyForBreakEven(m)
  <2>1. pc'[m] \in {"idle", "trail", "evened"} /\ stateRow' = stateRow
    BY <1>7, Ending, Skipping DEF ModifyForBreakEven, Goto, Holding
  <2> QED
    BY <1>7, <1>a, <1>c, <2>1 DEF RowInv, RowStep, ModifyForBreakEven
<1>8. CASE RecordBreakEven(m)
  <2>1. pc'[m] \in {"idle", "trail"}
    BY <1>8, Ending, Skipping DEF RecordBreakEven
  <2>2. stateRow' = stateRow \/ stateRow'.state = "BREAK_EVEN"
    BY <1>8 DEF RecordBreakEven, ManageTypeOK
  <2>3. RowStep
    BY <2>2, AfterOpening DEF RowStep, RowInv
  <2> QED
    BY <1>a, <1>c, <2>1, <2>2, <2>3 DEF RowInv
<1>9. CASE Trail(m)
  <2>1. pc'[m] \in {"idle", "pull"} /\ stateRow' = stateRow
    BY <1>9, Ending DEF Trail, Goto, Holding
  <2> QED
    BY <1>9, <1>a, <1>c, <2>1 DEF RowInv, RowStep, Trail
<1>10. CASE ModifyForTrail(m)
  <2>1. pc'[m] \in {"idle"} /\ stateRow' = stateRow
    BY <1>10, Ending DEF ModifyForTrail, Goto, Holding
  <2> QED
    BY <1>10, <1>a, <1>c, <2>1 DEF RowInv, RowStep, ModifyForTrail
<1>11. CASE Die(m)
  <2>1. pc'[m] \in {"idle"} /\ stateRow' = stateRow
    BY <1>11, Ending DEF Die, Goto, Holding
  <2> QED
    BY <1>11, <1>a, <1>c, <2>1 DEF RowInv, RowStep, Die
<1> QED
  BY <1>1, <1>2, <1>3, <1>4, <1>5, <1>6, <1>7, <1>8, <1>9, <1>10, <1>11 DEF Manage

LEMMA ManageCases == [ManageNext]_manageVars => Beside \/ \E m \in Managers : Manage(m) \/ Die(m)
BY DEF ManageNext, Beside

\* With one manager at a time, part of a position is closed for TP1 once, whatever the
\* ledger pass makes of the row, and repeated partial closes leave nothing or a volume
\* the broker can still trade: for every fraction, minimum and volume.
THEOREM PartialClosesSoundHolds == ASSUME OneManager PROVE ManageSpec => []PartialClosesSound
<1>1. ManageInit => ManageTypeOK /\ CloseInv
  BY InitType, InitClose
<1>2. ManageTypeOK /\ CloseInv /\ [ManageNext]_manageVars => (ManageTypeOK /\ CloseInv)'
  BY ManageCases, BesideStep, ManagerType, BesideClose, ManagerClose
<1>3. CloseInv => PartialClosesSound
  BY DEF CloseInv, PartialClosesSound, Tp1TakenOnce, RemainderTradable
<1> QED
  BY <1>1, <1>2, <1>3, PTL DEF ManageSpec

\* With one manager at a time and no attempt to conclude, no step moves the stop away
\* from the price, although the price moves between the computation of a stop and its
\* change at the broker, and a recorded break-even covers the costs to the end.
THEOREM StopHoldsHolds == ASSUME OneManager PROVE ManageSpec => StopHolds
<1>1. ManageInit => ManageTypeOK /\ StopInv
  BY InitType, InitStop
<1>2. ManageTypeOK /\ StopInv /\ [ManageNext]_manageVars => (ManageTypeOK /\ StopInv)'
  BY ManageCases, BesideStep, ManagerType, BesideStop, ManagerStop
<1>3. StopInv => BreakEvenHolds
  BY DEF StopInv, BreakEvenHolds
<1>4. ManageTypeOK /\ ManageTypeOK' /\ StopInv /\ [ManageNext]_manageVars =>
         [~Favours(stop, stop') \/ "unknown" \in scenario]_manageVars
  <2> SUFFICES ASSUME ManageTypeOK, ManageTypeOK', StopInv, [ManageNext]_manageVars,
                      "unknown" \notin scenario
               PROVE  ~Favours(stop, stop')
    OBVIOUS
  <2>1. stop' = stop \/ sign * stop' >= sign * stop
    BY ManageCases, BesideStop, ManagerStop
  <2>2. sign * stop \in Int /\ sign * stop' \in Int
    BY DEF ManageTypeOK
  <2> QED
    BY <2>1, <2>2 DEF Favours
<1> QED
  BY <1>1, <1>2, <1>3, <1>4, PTL DEF ManageSpec, StopHolds

\* With one manager at a time, and where neither an exit nor a ledger pass writes the
\* row, every change of its state is a transition of the state machine, through
\* crashes of the manager too.
THEOREM RowFollowsLifecycleHolds == ASSUME OneManager PROVE ManageSpec => RowFollowsLifecycle
<1>1. ManageInit => ManageTypeOK /\ RowInv
  BY InitType, InitRow
<1>2. ManageTypeOK /\ RowInv /\ [ManageNext]_manageVars => (ManageTypeOK /\ RowInv)' /\ RowStep
  BY ManageCases, BesideStep, ManagerType, BesideRow, ManagerRow
<1>3. ManageTypeOK /\ RowInv /\ [ManageNext]_manageVars =>
        [scenario \cap {"exits", "ledger"} = {} =>
           stateRow'.state \in {stateRow.state} \cup Allowed(stateRow.state)]_manageVars
  BY <1>2 DEF RowStep
<1> QED
  BY <1>1, <1>2, <1>3, PTL DEF ManageSpec, RowFollowsLifecycle

=============================================================================
