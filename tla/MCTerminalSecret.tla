-------------------------- MODULE MCTerminalSecret --------------------------
(* The prompts of login for TLC. *)
EXTENDS TerminalSecretProps
=============================================================================
