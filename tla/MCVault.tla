------------------------------ MODULE MCVault ------------------------------
(* A small instance of VaultComponent: two wallets, two would-be callers,  *)
(* three tokens.                                                           *)
EXTENDS VaultComponent

=============================================================================
