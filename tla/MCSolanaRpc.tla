------------------------------ MODULE MCSolanaRpc ------------------------------
(* SolanaRpc with the plans of main.c and ffi.rs: a balance, an airdrop and two *)
(* polls, a transfer and a poll. *)
EXTENDS SolanaRpc

CONSTANTS task1, task2

MCPlans == {<<"getBalance">>,
            <<"requestAirdrop", "getSignatureStatuses", "getSignatureStatuses">>,
            <<"getLatestBlockhash", "sendTransaction", "getSignatureStatuses">>}
MCTasks == {task1, task2}
=============================================================================
