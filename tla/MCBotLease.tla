----------------------------- MODULE MCBotLease -----------------------------
(* Small instances of BotLease for TLC. *)
EXTENDS BotLease, TLC
=============================================================================
