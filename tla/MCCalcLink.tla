------------------------------ MODULE MCCalcLink ------------------------------
(* CalcLink with contents of two and of twenty bytes: with a buffer of eight  *)
(* the first takes one raw packet, the second a first, two full ones and a    *)
(* last; with ten a first, one full and a last.                               *)
EXTENDS CalcLink

CONSTANTS short, long

MCFound == {long, Absent}
MCLength == [c \in Contents |-> IF c = short THEN 2 ELSE 20]
=============================================================================
