--------------------------- MODULE ConsoleLedger ---------------------------
(***************************************************************************)
(* The review console, one handler at a time, implements the ledger, but   *)
(* for the moments when a handler dies.  A sign-off counts as entered with *)
(* the step that makes it inevitable: the put of a row, or the refusal of  *)
(* a checker; a death takes it back.                                       *)
(***************************************************************************)
EXTENDS ReviewConsole

Worker == CHOOSE w \in Workers : TRUE

Entered ==
    IF call[Worker].step = "record"
      THEN Append(signoffs, call[Worker].event)
      ELSE signoffs

Ledger == INSTANCE SignOffLedger WITH reviews <- store, ledger <- Entered

(* Every step of the console that is not the death of a handler is one of  *)
(* the ledger's, or none: submitted once, signed off step by step, final   *)
(* when terminal, with a trail that tells every step in its order (submit, *)
(* submit_idempotent, dispose and _record together).                       *)
KeepsLedger ==
    /\ Ledger!Init
    /\ [][failures' = failures => [Ledger!Next]_<<store, Entered>>]_vars
=============================================================================
