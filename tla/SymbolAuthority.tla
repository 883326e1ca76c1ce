-------------------------- MODULE SymbolAuthority --------------------------
(***************************************************************************)
(* What the safe symbol switch promises the rest of the system: the active *)
(* symbol changes only while new entries are paused, at most once for each *)
(* pause, or when the bot is restarted; entries reopen only when the       *)
(* engine trades the active symbol; a switch that fails after the change   *)
(* leaves entries closed and is never rolled back.                         *)
(*                                                                         *)
(* A restart is not one step: the symbol changes at its beginning and the  *)
(* engine follows at its end, and a switch may reopen entries in between.  *)
(* The promise for the engine is kept again from the end of a restart, and *)
(* only a switch that changes the symbol during one, or a restart that     *)
(* fails, leaves it broken, until the next.                                *)
(***************************************************************************)
CONSTANTS Symbols, NoSymbol

VARIABLES
  symbol,    \* the active symbol
  traded,    \* the symbol the engine trades; NoSymbol before it has one
  entries,   \* "open", "paused", "moved" (paused, symbol changed), "blocked"
  restart    \* "none", "begun", "torn"

vars == <<symbol, traded, entries, restart>>

Init ==
  /\ symbol \in Symbols /\ traded = symbol
  /\ entries = "open" /\ restart = "none"

Pause ==
  /\ entries = "open" /\ entries' = "paused"
  /\ UNCHANGED <<symbol, traded, restart>>

Cancel ==
  /\ entries = "paused" /\ entries' = "open"
  /\ UNCHANGED <<symbol, traded, restart>>

Move ==
  /\ entries = "paused" /\ entries' = "moved"
  /\ symbol' \in Symbols \ {symbol}
  /\ restart' = IF restart = "none" THEN "none" ELSE "torn"
  /\ UNCHANGED traded

Follow ==
  /\ entries = "moved"
  /\ traded' = symbol
  /\ UNCHANGED <<symbol, entries, restart>>

Reopen ==
  /\ entries = "moved" /\ entries' = "open"
  /\ traded = symbol \/ restart # "none"
  /\ UNCHANGED <<symbol, traded, restart>>

Block ==
  /\ entries = "moved" /\ entries' = "blocked"
  /\ traded' \in Symbols \cup {traded}
  /\ UNCHANGED <<symbol, restart>>

(* A restart of the bot chooses a symbol and keeps the pause; the engine   *)
(* is a new one; it gets the symbol of the restart.                        *)
BeginRestart ==
  /\ symbol' \in Symbols /\ restart' = "begun"
  /\ UNCHANGED <<traded, entries>>

Rebuild ==
  /\ restart # "none"
  /\ traded' \in Symbols \cup {NoSymbol}
  /\ UNCHANGED <<symbol, entries, restart>>

EndRestart ==
  /\ restart = "begun" /\ restart' = "none"
  /\ traded' = symbol
  /\ UNCHANGED <<symbol, entries>>

FailRestart ==
  /\ restart = "begun" /\ restart' = "torn"
  /\ UNCHANGED <<symbol, traded, entries>>

Next ==
  \/ Pause \/ Cancel \/ Move \/ Follow \/ Reopen \/ Block
  \/ BeginRestart \/ Rebuild \/ EndRestart \/ FailRestart

Spec == Init /\ [][Next]_vars
=============================================================================
