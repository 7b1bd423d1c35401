------------------------------ MODULE MCCliMain ------------------------------
(* CliMain with a polling thread that gives up after MCPollCycles pings,    *)
(* and the inductive invariant of CliMain_proofs as one more invariant.     *)
EXTENDS CliMain

MCPollCycles == 3
=============================================================================
