--------------------------- MODULE TradeLifecycle ---------------------------
(***************************************************************************)
(* The lifecycle of a trade (app/domain/state_machine.py): which state may *)
(* follow which.                                                           *)
(***************************************************************************)

Ends == {"CLOSED", "STOPPED_OUT", "EXPIRED", "CANCELLED"}

TradeStates ==
    {"SCANNING", "SIGNAL_FOUND", "WAITING_FOR_ENTRY", "ENTRY_READY", "ORDER_PENDING",
     "ORDER_FILLED", "POSITION_OPEN", "TP1_HIT", "BREAK_EVEN", "CLOSING", "ERROR"} \cup Ends

Leaving == {"CLOSING", "CLOSED", "STOPPED_OUT", "ERROR"}

\* _ALLOWED: the states that may follow state s; none follows an end.
Allowed(s) ==
    CASE s = "SCANNING"          -> {"SIGNAL_FOUND", "ERROR"}
      [] s = "SIGNAL_FOUND"      -> {"WAITING_FOR_ENTRY", "ENTRY_READY", "CANCELLED", "ERROR"}
      [] s = "WAITING_FOR_ENTRY" -> {"ENTRY_READY", "EXPIRED", "CANCELLED", "ERROR"}
      [] s = "ENTRY_READY"       -> {"ORDER_PENDING", "ORDER_FILLED", "EXPIRED", "ERROR"}
      [] s = "ORDER_PENDING"     -> {"ORDER_FILLED", "CANCELLED", "EXPIRED", "ERROR"}
      [] s = "ORDER_FILLED"      -> {"POSITION_OPEN", "ERROR"}
      [] s = "POSITION_OPEN"     -> {"TP1_HIT", "BREAK_EVEN"} \cup Leaving
      [] s = "TP1_HIT"           -> {"BREAK_EVEN"} \cup Leaving
      [] s = "BREAK_EVEN"        -> Leaving
      [] s = "CLOSING"           -> {"CLOSED", "ERROR"}
      [] s = "ERROR"             -> {"CANCELLED", "CLOSING", "CLOSED"}
      [] s \in Ends              -> {}

=============================================================================
