----------------------------- MODULE MCWalletCli -----------------------------
(* WalletCli with two slots, a right and a wrong password, two orders that  *)
(* may be in flight together, and a confirmation loop of three polls.       *)
EXTENDS WalletCli

MCAttempts == 3
=============================================================================
