-------------------------- MODULE TransferMessage --------------------------
(* The transfer both programs sign: solana_build_transfer_transaction() of     *)
(* main.c, build_transfer() of transaction.rs, and what a node reads out of    *)
(* the base64 text. Ed25519 is the operator Sign: a signature of the message   *)
(* for a public key with a private key.                                        *)
EXTENDS SolanaEncoding

CONSTANTS
    Sign(_, _, _),      \* <<message, public key, private key>> -> SignatureLen bytes
    KeyLen,             \* WALLET_PUBLIC_KEY_LEN
    SignatureLen,
    AmountBytes,        \* bytes of a lamport count: 8 in the code
    MaxMemo,            \* SOLANA_MAX_MEMO_LENGTH
    MaxMessage,         \* SOLANA_MAX_MESSAGE_LEN
    MaxTransaction,     \* SOLANA_MAX_TRANSACTION_LEN
    MaxBase64,          \* transaction_base64[]
    MemoProgram         \* the bytes of SOLANA_MEMO_PROGRAM_BASE58

SystemProgram == [i \in 1..KeyLen |-> 0]

(* A message with the longest memo: header, four keys and the blockhash, two   *)
(* instructions, each of which counts its accounts and its data.               *)
LongestMessage == (3 + 1 + 4 * KeyLen + KeyLen + 1) + (5 + 4 + AmountBytes) + (3 + MaxMemo)

(* A length fits into a byte, and the longest transfer into the buffers.       *)
ASSUME SizesAssumption ==
    /\ {KeyLen, SignatureLen, AmountBytes, MaxMemo, MaxMessage, MaxTransaction, MaxBase64}
           \subseteq Nat
    /\ KeyLen > 0 /\ MaxMemo < 128 /\ 4 + AmountBytes < 128
    /\ LongestMessage <= MaxMessage
    /\ 1 + SignatureLen + LongestMessage <= MaxTransaction
    /\ EncodedLen(1 + SignatureLen + LongestMessage) < MaxBase64
    /\ MemoProgram \in [1..KeyLen -> Byte] \ {SystemProgram}

(* to_le_bytes: the lowest byte first. *)
LittleEndian(n) ==
    LET shifted[i \in 0..AmountBytes] == IF i = 0 THEN n ELSE shifted[i - 1] \div 256
    IN  [i \in 1..AmountBytes |-> shifted[i - 1] % 256]

(* What an order asks for, once both programs have parsed it: transfer is the *)
(* record of from, to, lamports, blockhash and memo; no memo is <<>>.          *)
HasMemo(transfer) == transfer.memo # <<>>

(* The instruction data: type 2, and the amount. *)
InstructionData(transfer) == <<2, 0, 0, 0>> \o LittleEndian(transfer.lamports)

(* solana_append_u8 and solana_append_bytes: once one piece does not fit, the *)
(* build fails whatever follows.                                               *)
Bounded(data, size) == IF Len(data) <= size THEN data ELSE Refused

(* A fault: every account after the sender's is counted as read-only. *)
CliHeaderAllReadonly(transfer) == <<1, 0, IF HasMemo(transfer) THEN 3 ELSE 2>>

(* Signers, read-only signers, read-only accounts that do not sign. *)
CliHeader(transfer) == <<1, 0, IF HasMemo(transfer) THEN 2 ELSE 1>>

(* main.c: the message, piece by piece. *)
CliMessage(transfer) ==
    LET memo == HasMemo(transfer)
        keys == IF memo THEN 4 ELSE 3
        accounts == transfer.from \o transfer.to \o SystemProgram
                      \o IF memo THEN MemoProgram ELSE <<>>
        memo_instruction ==
            <<keys - 1>> \o Shortvec(0) \o Shortvec(Len(transfer.memo)) \o transfer.memo
    IN  Bounded(CliHeader(transfer)
                  \o Shortvec(keys) \o accounts \o transfer.blockhash
                  \o Shortvec(IF memo THEN 2 ELSE 1)
                  \o <<2>> \o Shortvec(2) \o <<0, 1>>
                  \o Shortvec(Len(InstructionData(transfer))) \o InstructionData(transfer)
                  \o IF memo THEN memo_instruction ELSE <<>>,
                MaxMessage)

(* main.c: signature count, signature, message. *)
CliTransaction(transfer, private_key) ==
    LET message == CliMessage(transfer)
        signed  == Shortvec(1) \o Sign(message, transfer.from, private_key) \o message
    IN  IF Len(transfer.memo) > MaxMemo \/ message = Refused THEN Refused
        ELSE LET transaction == Bounded(signed, MaxTransaction)
             IN  IF transaction = Refused THEN Refused
                 ELSE solana_base64_encode(transaction, MaxBase64)

(* The program accounts, which are what is read-only. *)
DesktopPrograms(transfer) ==
    IF HasMemo(transfer) THEN <<SystemProgram, MemoProgram>> ELSE <<SystemProgram>>

(* A fault: the memo instruction names its program by the count of accounts. *)
DesktopNoteOffByOne(transfer) ==
    <<2 + Len(DesktopPrograms(transfer))>> \o Shortvec(0)
        \o Shortvec(Len(transfer.memo)) \o transfer.memo

(* transaction.rs: the memo instruction. *)
DesktopNote(transfer) ==
    <<1 + Len(DesktopPrograms(transfer))>> \o Shortvec(0)
        \o Shortvec(Len(transfer.memo)) \o transfer.memo

(* transaction.rs: vectors that grow, so that only the memo is bounded. *)
DesktopMessage(transfer) ==
    LET programs == Len(DesktopPrograms(transfer))
        accounts == transfer.from \o transfer.to
                      \o SystemProgram \o IF HasMemo(transfer) THEN MemoProgram ELSE <<>>
        pay      == <<2>> \o Shortvec(2) \o <<0, 1>>
                      \o Shortvec(4 + AmountBytes) \o InstructionData(transfer)
    IN  <<1, 0, programs>> \o Shortvec(2 + programs) \o accounts \o transfer.blockhash
          \o Shortvec(programs) \o pay
          \o IF HasMemo(transfer) THEN DesktopNote(transfer) ELSE <<>>

(* transaction.rs and base64_encode() of ffi.rs, whose buffer is twice the data. *)
DesktopTransaction(transfer, private_key) ==
    LET message == DesktopMessage(transfer)
        transaction == Shortvec(1) \o Sign(message, transfer.from, private_key) \o message
    IN  IF Len(transfer.memo) > MaxMemo THEN Refused
        ELSE solana_base64_encode(transaction, 2 * Len(transaction) + 4)

-----------------------------------------------------------------------------
(* The node. It reads by position, and refuses what it cannot read.            *)
Slice(data, at, len) == SubSeq(data, at, at + len - 1)

(* An instruction: program, account indexes, data, and the place behind it. *)
ReadInstruction(data, at) ==
    LET accounts == ReadShortvec(data, at + 1)
        size     == ReadShortvec(data, accounts.at + accounts.value)
    IN  [program  |-> OctetAt(data, at),
         accounts |-> Slice(data, accounts.at, accounts.value),
         data     |-> Slice(data, size.at, size.value),
         at       |-> size.at + size.value]

(* The message: header, account keys, blockhash, instructions, to its last byte. *)
ReadMessage(data) ==
    LET keys   == ReadShortvec(data, 4)
        hash   == keys.at + keys.value * KeyLen
        count  == ReadShortvec(data, hash + KeyLen)
        first  == ReadInstruction(data, count.at)
        second == ReadInstruction(data, first.at)
        all    == CASE count.value = 1 -> <<first>>
                    [] count.value = 2 -> <<first, second>>
                    [] OTHER -> <<>>
    IN  [signers      |-> OctetAt(data, 1),
         readonly     |-> OctetAt(data, 3),
         keys         |-> [i \in 1..keys.value |-> Slice(data, keys.at + (i - 1) * KeyLen, KeyLen)],
         blockhash    |-> Slice(data, hash, KeyLen),
         instructions |-> all,
         whole        |-> all # <<>> /\ all[Len(all)].at = Len(data) + 1]

(* The amount of a transfer instruction's data, from its highest byte down. *)
AmountOf(bytes) ==
    LET value[i \in 0..AmountBytes] ==
            IF i = 0 THEN 0 ELSE 256 * value[i - 1] + bytes[5 + AmountBytes - i]
    IN  value[AmountBytes]

Taken(from, to, lamports, blockhash, memo) ==
    [from |-> from, to |-> to, lamports |-> lamports, blockhash |-> blockhash, memo |-> memo]

NotTaken == [from |-> Refused, to |-> Refused, lamports |-> 0, blockhash |-> Refused,
             memo |-> <<>>]

(* A message of one signer and distinct accounts that pays from the signer to *)
(* a writable account by the system program, and has at most a memo besides.  *)
IsTransfer(m) ==
    LET keys  == Len(m.keys)
        pay   == m.instructions[1]
        note  == m.instructions[2]
    IN  /\ m.whole /\ m.signers = 1 /\ keys >= 3
        /\ \A i, j \in 1..keys : i # j => m.keys[i] # m.keys[j]
        /\ Len(m.instructions) \in 1..2
        /\ pay.program < keys /\ m.keys[pay.program + 1] = SystemProgram
        /\ pay.accounts = <<0, 1>> /\ 1 < keys - m.readonly
        /\ Len(pay.data) = 4 + AmountBytes /\ SubSeq(pay.data, 1, 4) = <<2, 0, 0, 0>>
        /\ Len(m.instructions) = 2 => /\ note.program < keys
                                      /\ m.keys[note.program + 1] = MemoProgram

(* What the node takes out of the text, if it is a transfer that the owner of *)
(* the paying account signed. Owner maps a public key to its private key.     *)
NodeTakes(text, Owner) ==
    LET data    == Base64Decoded(text)
        count   == ReadShortvec(data, 1)
        message == SubSeq(data, count.at + SignatureLen, Len(data))
        m       == ReadMessage(message)
        signed  == /\ m.keys[1] \in DOMAIN Owner
                   /\ Slice(data, count.at, SignatureLen)
                          = Sign(message, m.keys[1], Owner[m.keys[1]])
    IN  IF Len(data) > SignatureLen /\ count.value = 1 /\ IsTransfer(m) /\ signed
        THEN Taken(m.keys[1], m.keys[2], AmountOf(m.instructions[1].data), m.blockhash,
                   IF Len(m.instructions) = 2 THEN m.instructions[2].data ELSE <<>>)
        ELSE NotTaken
=============================================================================
