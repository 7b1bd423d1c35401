------------------------- MODULE MCDesktopCalculator -------------------------
(* DesktopCalculator with one slot, two operations at once and enough       *)
(* keypairs for the slot, the menu and a page to differ.                    *)
EXTENDS DesktopCalculator
=============================================================================
