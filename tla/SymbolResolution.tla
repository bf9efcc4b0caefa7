-------------------------- MODULE SymbolResolution --------------------------
(***************************************************************************)
(* Which broker symbol stands for gold, and the duplicate gates that rest  *)
(* on it.  A broker lists several gold instruments (XAUUSD, XAUUSDm, GOLD, *)
(* ...) and opens or closes them for trading; resolve_symbol() of          *)
(* app/brokers/symbols.py picks one for every entry, and the gates compare *)
(* the open positions with the symbols TradeExecutor holds equivalent.     *)
(*                                                                         *)
(* A symbol is abstracted to the shape of its name and to whether the      *)
(* broker gives it the currencies XAU and USD.                             *)
(***************************************************************************)
EXTENDS Naturals, FiniteSets

CONSTANTS
    Symbols,               \* the symbols the broker lists
    Shape,                 \* Shape[s]: the shape of the name
    Described,             \* the symbols with currencies XAU and USD
    Malformed,             \* the symbols whose specification is invalid
    MaximumOpenPositions, MaximumGoldPositions,
    MaxPositions           \* bound: positions

Shapes == {"exact", "alias", "compactAlias", "prefixed", "suffixed", "other"}

ASSUME SymbolAssumption ==
    /\ Shape \in [Symbols -> Shapes]
    /\ Described \subseteq Symbols /\ Malformed \subseteq Symbols
    /\ MaximumOpenPositions \in Nat \ {0} /\ MaximumGoldPositions \in Nat \ {0}

VARIABLES
    enabled,     \* the symbols that are open for trading
    positions,   \* the positions: a sequence number and the symbol of each
    opened       \* positions opened so far

symbolsVars == <<enabled, positions, opened>>

SymbolsInit == enabled \in SUBSET Symbols /\ positions = {} /\ opened = 0

NoScore == 0

\* _score(): the name itself, a known alias, the currencies, a suffix
Score(s) ==
    IF Shape[s] = "exact" THEN 400
    ELSE IF Shape[s] \in {"alias", "compactAlias"} THEN 350
    ELSE IF s \in Described THEN (IF Shape[s] \in {"prefixed", "suffixed"} THEN 310 ELSE 300)
    ELSE IF Shape[s] = "suffixed" THEN 200
    ELSE NoScore

\* get_symbols() skips a symbol whose specification does not validate.
Listed == Symbols \ Malformed

Ranked == {s \in Listed \cap enabled : Score(s) # NoScore}

\* resolve_symbol(): the symbol of the highest score, if there is only one
Resolved ==
    {s \in Ranked : \A t \in Ranked \ {s} : Score(t) < Score(s)}

\* canonical_symbol of _symbol_specification() is XAUUSD
CanonicalIsGold(s) == s \in Described \/ Shape[s] \in {"exact", "compactAlias"}

\* Mutant: only the resolved symbol counts.
EquivalentItself(s) == {s}

\* equivalent_symbols of the executor and of the gates
Equivalent(s) == {t \in Listed : CanonicalIsGold(t) \/ t \in Described} \cup {s}

\* An entry on the resolved symbol: DUPLICATE_POSITION and the two maxima.
Enter(s) ==
    /\ s \in Resolved /\ opened < MaxPositions
    /\ Cardinality(positions) < MaximumOpenPositions
    /\ Cardinality({p \in positions : p[2] \in Equivalent(s)}) < MaximumGoldPositions
    /\ \A p \in positions : p[2] \notin Equivalent(s)
    /\ opened' = opened + 1
    /\ positions' = positions \cup {<<opened, s>>}
    /\ UNCHANGED enabled

\* The owner of the account trades something that is not gold.
OwnTrade(s) ==
    /\ Score(s) = NoScore /\ opened < MaxPositions
    /\ opened' = opened + 1
    /\ positions' = positions \cup {<<opened, s>>}
    /\ UNCHANGED enabled

Close(p) == positions' = positions \ {p} /\ UNCHANGED <<enabled, opened>>

Toggle(s) ==
    /\ enabled' = IF s \in enabled THEN enabled \ {s} ELSE enabled \cup {s}
    /\ UNCHANGED <<positions, opened>>

SymbolsNext ==
    \/ \E s \in Symbols : Enter(s) \/ OwnTrade(s) \/ Toggle(s)
    \/ \E p \in positions : Close(p)

SymbolsSpec == SymbolsInit /\ [][SymbolsNext]_symbolsVars

\* The engine never holds two gold positions, whichever instruments the broker
\* opens and closes between two entries: the symbol a position was opened on
\* is among the equivalents of every symbol a later entry resolves to.
OneGoldPosition ==
    \A p, q \in {p \in positions : Score(p[2]) # NoScore} : p = q

=============================================================================
