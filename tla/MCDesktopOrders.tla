--------------------------- MODULE MCDesktopOrders ---------------------------
(* DesktopOrders with two operations at once, two orders, a keypair and two *)
(* rounds of poll_confirmation.                                             *)
EXTENDS DesktopOrders

MCPolls == 2
=============================================================================
