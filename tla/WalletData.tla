----------------------------- MODULE WalletData -----------------------------
(* What a wallet is worth from end to end: a key encrypted by one program,     *)
(* stored on the calculator, perhaps damaged there, fetched by either program, *)
(* opened with a password, and a transfer signed with it that a node reads.    *)
EXTENDS StoredWallet, OrderInput, TransferMessage

CONSTANTS
    PrivateKeys,        \* the private keys there are: numbers, in the order they are drawn
    PublicOf,           \* [PrivateKeys -> public keys]
    Passwords,          \* what users type: [kept, whole] records
    Orders,             \* what users type: text of a recipient, amount, length of a memo
    Blockhashes,        \* texts the node answers as blockhash
    MaxWallets,         \* bound on the wallets created, one key each
    MaxDamage           \* bound on the damages done to a stored wallet

Programs == {"cli", "desktop"}

Owner == [public \in {PublicOf[k] : k \in PrivateKeys} |->
            CHOOSE k \in PrivateKeys : PublicOf[k] = public]

(* How many numbers so many bytes hold. *)
Capacity[bytes \in 0..AmountBytes] == IF bytes = 0 THEN 1 ELSE 256 * Capacity[bytes - 1]

ASSUME LimitsAssumption ==
    /\ {MaxWallets, MaxDamage} \subseteq Nat
    /\ AmountLimit = Capacity[AmountBytes] /\ MaxTypedMemo = MaxMemo

(* Every key that is drawn has a public key of its own, and no program's; it   *)
(* fits the buffer that the desktop decodes a name into.                       *)
ASSUME KeysAssumption ==
    /\ KeyLen <= 64
    /\ 1..MaxWallets \subseteq PrivateKeys /\ NoKey \notin PrivateKeys
    /\ PublicOf \in [PrivateKeys -> [1..KeyLen -> Byte] \ {SystemProgram, MemoProgram}]
    /\ \A j, k \in PrivateKeys : PublicOf[j] = PublicOf[k] => j = k

(* A number grouped by a comma has three digits or more behind it. *)
ASSUME OrdersAssumption ==
    /\ \A hash \in Blockhashes : hash \in Seq(Symbol \union {Unknown})
    /\ \A o \in Orders :
          /\ o.text \in Seq(Symbol \union {Unknown})
          /\ o.typed \in Nat
          /\ {o.amount.n, o.amount.head} \subseteq Int
          /\ o.amount.form \in {"integer", "decimal", "suffixed", "grouped", "worded"}
          /\ CliTenths(o.amount) <= Two[MaxExponent]
          /\ o.amount.form = "grouped" /\ o.amount.head > 0 =>
                 o.amount.n >= 1000 * InTenths(o.amount.head)

VARIABLES
    made,       \* every wallet created: program, typed, password, key, entry
    slot,       \* the entry on the calculator, or NoEntry
    damages,    \* how often the entry was damaged
    at,         \* where the operation under way is
    program,    \* the program that runs it
    loaded,     \* the public key and blob that were fetched
    order,      \* what was typed, and what the program made of it
    held,       \* the private key in memory
    wire,       \* the base64 text that is sent
    taken       \* what the node took out of it

vars == <<made, slot, damages, at, program, loaded, order, held, wire, taken>>

NoOrder == [text |-> Refused, to |-> Refused, amount |-> Integer(0), lamports |-> 0,
            typed |-> 0, memo |-> <<>>, password |-> EmptyPassword, blockhash |-> Refused]

NothingLoaded == [public_key |-> Refused, blob |-> Noise]

(* read_password_input() keeps the printable ASCII characters of what is typed, *)
(* up to its buffer, and says nothing of the others; the page keeps them all.   *)
Heard(p, typed) == IF p = "cli" THEN [typed EXCEPT !.whole = TRUE] ELSE typed

(* What overwrites a field, and the absent variable, are no part of a wallet. *)
ASSUME StoredAssumption ==
    \A typed \in Passwords :
        /\ typed = [kept |-> typed.kept, whole |-> typed.whole] /\ typed.whole \in BOOLEAN
        /\ \A p \in Programs, key \in 1..MaxWallets :
              LET blob == Blob(Heard(p, typed), key, key, key)
              IN  blob # Noise /\ blob.mac # Noise /\ Entry(PublicOf[key], blob) # NoEntry

Init ==
    /\ made = <<>>
    /\ slot = NoEntry
    /\ damages = 0
    /\ at = "idle"
    /\ program = "cli"
    /\ loaded = NothingLoaded
    /\ order = NoOrder
    /\ held = NoKey
    /\ wire = Refused
    /\ taken = NotTaken

(* create_encrypted_keypair() and the creation page: the next key, salt and    *)
(* nonce that are drawn, into a slot that may hold another wallet.             *)
Create(p, typed) ==
    /\ at = "idle"
    /\ Len(made) < MaxWallets
    /\ Heard(p, typed) # EmptyPassword
    /\ LET draw  == Len(made) + 1
           blob  == Blob(Heard(p, typed), draw, draw, draw)
           entry == Entry(PublicOf[draw], blob)
       IN  /\ slot' = entry
           /\ made' = Append(made, [program |-> p, typed |-> typed,
                                    password |-> Heard(p, typed), key |-> draw,
                                    entry |-> entry])
    /\ damages' = 0
    /\ UNCHANGED <<at, program, loaded, order, held, wire, taken>>

(* What the calculator may do to a variable: cut it or its length byte, let    *)
(* another wallet's bytes show through, overwrite a field, delete it.          *)
Shortened(entry) == [entry EXCEPT !.size = PayloadLen]
Lengthened(entry) == [entry EXCEPT !.size = PayloadLen + 2]
Prefixed(entry, n) == [entry EXCEPT !.prefix = n]
Renamed(entry, key) == [entry EXCEPT !.public_key = PublicOf[key]]
Overwritten(entry, field, value) ==
    [entry EXCEPT !.blob = [@ EXCEPT ![field] = value]]

BlobFields == {"version", "salt", "nonce", "ciphertext", "mac"}

Damaged(entry) ==
    {Shortened(entry), Lengthened(entry), NoEntry}
        \union {Prefixed(entry, n) : n \in {PayloadLen - 1, PayloadLen + 1}}
        \union {Renamed(entry, key) : key \in PrivateKeys}
        \union {Overwritten(entry, f, Noise) : f \in BlobFields \ {"ciphertext"}}
        \union {Overwritten(entry, "ciphertext", Garbled)}
        \union {Overwritten(entry, f, made[i].entry.blob[f]) :
                   f \in BlobFields, i \in DOMAIN made}

Damage ==
    /\ slot # NoEntry
    /\ damages < MaxDamage
    /\ slot' \in Damaged(slot)
    /\ damages' = damages + 1
    /\ UNCHANGED <<made, at, program, loaded, order, held, wire, taken>>

-----------------------------------------------------------------------------
Fetches(p, entry) == IF p = "cli" THEN CliFetches(entry) ELSE DesktopFetches(entry)

(* fetch_wallet_payload(), fetch_keypair(): both parts, or a report. *)
Fetch(p) ==
    /\ at = "idle"
    /\ program' = p
    /\ IF Fetches(p, slot)
       THEN /\ loaded' = [public_key |-> slot.public_key, blob |-> slot.blob]
            /\ at' = "fetched"
       ELSE at' = "refused" /\ UNCHANGED loaded
    /\ UNCHANGED <<made, slot, damages, order, held, wire, taken>>

(* prompt_base58_public_key(), and the page's validation: KeyLen bytes. *)
RecipientOf(p, text) ==
    LET to == IF p = "cli" THEN solana_base58_decode(text, KeyLen)
              ELSE solana_base58_decode(text, 64)
    IN  IF Len(to) = KeyLen /\ (p = "cli" => Len(text) < 96) THEN to ELSE Refused

(* The prompts, or the fields of the page: what is not accepted is asked again. *)
Order(text, amount, typed) ==
    /\ at = "fetched"
    /\ RecipientOf(program, text) # Refused
    /\ \E lamports \in Lamports(program, amount), memo \in MemoOf(program, typed) :
           order' = [order EXCEPT !.text = text, !.to = RecipientOf(program, text),
                                  !.amount = amount, !.lamports = lamports,
                                  !.typed = typed, !.memo = memo]
    /\ at' = "ordered"
    /\ UNCHANGED <<made, slot, damages, program, loaded, held, wire, taken>>

(* The password, and wallet_decrypt_private_key(). *)
Open(typed) ==
    /\ at = "ordered"
    /\ Heard(program, typed) # EmptyPassword
    /\ held' = wallet_decrypt_private_key(Heard(program, typed), loaded.blob)
    /\ at' = IF held' = NoKey THEN "refused" ELSE "opened"
    /\ order' = [order EXCEPT !.password = typed]
    /\ UNCHANGED <<made, slot, damages, program, loaded, wire, taken>>

Transfer(blockhash) ==
    [from |-> loaded.public_key, to |-> order.to, lamports |-> order.lamports,
     blockhash |-> blockhash, memo |-> order.memo]

Transaction(p, transfer, key) ==
    IF p = "cli" THEN CliTransaction(transfer, key) ELSE DesktopTransaction(transfer, key)

(* No two private keys sign a transfer that can be asked for alike. *)
ASSUME SignAssumption ==
    \A p \in Programs, from \in PrivateKeys, hash \in Blockhashes, o \in Orders :
    \A lamports \in Lamports(p, o.amount), memo \in MemoOf(p, o.typed) :
        LET transfer == [from |-> PublicOf[from], to |-> RecipientOf(p, o.text),
                         lamports |-> lamports, blockhash |-> RecipientOf(p, hash), memo |-> memo]
            message == IF p = "cli" THEN CliMessage(transfer) ELSE DesktopMessage(transfer)
            signature(key) == Sign(message, transfer.from, key)
        IN  Refused \notin {transfer.to, transfer.blockhash} /\ Len(memo) <= MaxMemo =>
                /\ \A key \in PrivateKeys : signature(key) \in [1..SignatureLen -> Byte]
                /\ \A j, k \in PrivateKeys : signature(j) = signature(k) => j = k

(* A fault: the key is zeroed only behind the send. *)
BuildThenForget(hash) ==
    /\ at = "opened"
    /\ LET blockhash == RecipientOf(program, hash)
           text == IF blockhash = Refused THEN Refused
                   ELSE Transaction(program, Transfer(blockhash), held)
       IN  /\ order' = [order EXCEPT !.blockhash = blockhash]
           /\ wire' = text
           /\ at' = IF text = Refused THEN "failed" ELSE "sent"
    /\ UNCHANGED <<made, slot, damages, program, loaded, held, taken>>

(* The latest blockhash, which must decode to KeyLen bytes, and the signed     *)
(* transaction; the command line program zeroes the key at its single exit,    *)
(* the page only behind the last ? of the build.                               *)
Build(hash) ==
    /\ at = "opened"
    /\ LET blockhash == RecipientOf(program, hash)
           text == IF blockhash = Refused THEN Refused
                   ELSE Transaction(program, Transfer(blockhash), held)
       IN  /\ order' = [order EXCEPT !.blockhash = blockhash]
           /\ wire' = text
           /\ at' = IF text = Refused THEN "failed" ELSE "sent"
           /\ held' = IF text = Refused /\ program = "desktop" THEN held ELSE NoKey
    /\ UNCHANGED <<made, slot, damages, program, loaded, taken>>

(* The node reads the text it was sent. *)
NodeReads ==
    /\ at = "sent"
    /\ taken' = NodeTakes(wire, Owner)
    /\ at' = "answered"
    /\ UNCHANGED <<made, slot, damages, program, loaded, order, held, wire>>

(* The end of the operation, or a prompt that is cancelled. *)
Leave ==
    /\ at \in {"fetched", "ordered", "refused", "failed", "answered"}
    /\ at' = "idle"
    /\ program' = "cli"
    /\ loaded' = NothingLoaded
    /\ order' = NoOrder
    /\ held' = NoKey
    /\ wire' = Refused
    /\ taken' = NotTaken
    /\ UNCHANGED <<made, slot, damages>>

Next ==
    \/ \E p \in Programs, typed \in Passwords : Create(p, typed)
    \/ Damage
    \/ \E p \in Programs : Fetch(p)
    \/ \E o \in Orders : Order(o.text, o.amount, o.typed)
    \/ \E typed \in Passwords : Open(typed)
    \/ \E hash \in Blockhashes : Build(hash)
    \/ NodeReads
    \/ Leave

Spec == Init /\ [][Next]_vars

-----------------------------------------------------------------------------
Places == {"idle", "fetched", "ordered", "opened", "refused", "failed", "sent", "answered"}

TypeOK ==
    /\ Len(made) <= MaxWallets
    /\ damages \in 0..MaxDamage
    /\ at \in Places
    /\ program \in Programs
    /\ order.lamports \in 0..(AmountLimit - 1)
    /\ Len(order.memo) <= MaxTypedMemo \/ program = "desktop"
    /\ held \in PrivateKeys \union {NoKey}

(* A key that decryption hands out is one that was encrypted, under the very   *)
(* password that was typed: whatever became of the variable, a wrong password  *)
(* and a mixture of two wallets give nothing (the MAC check of                 *)
(* wallet_decrypt_private_key()).                                              *)
NoWrongKey ==
    held # NoKey =>
        \E i \in DOMAIN made :
            /\ made[i].key = held
            /\ made[i].password = Heard(program, order.password)
            /\ made[i].entry.blob = loaded.blob

(* A wallet is refused only for a reason: the variable was damaged, or the     *)
(* password is another one than the program that made the wallet was given.    *)
(* The desktop takes passwords the command line program cannot be given, and   *)
(* those alone open the wallet in one program and not in the other             *)
(* (read_password_input(), fetch_wallet_payload() and fetch_keypair()).        *)
RefusedForAReason ==
    at = "refused" =>
        IF loaded = NothingLoaded
        THEN made = <<>> \/ damages > 0
        ELSE \A i \in DOMAIN made :
                 made[i].entry.blob = loaded.blob =>
                     \/ made[i].typed # order.password
                     \/ made[i].program # program /\ ~order.password.whole

(* What the node takes is what the user asked for: it pays from the account of *)
(* the wallet that was opened, to the account whose name was typed, with the   *)
(* memo that was typed unless it overflowed the prompt, and the amount that    *)
(* was meant but for half a lamport (prompt_lamports(), which rounds) or one   *)
(* (parse_lamports(), which cuts) and what the roundings of doubles lose.      *)
(* The exceptions are the amounts named by Misread, and each of those is taken *)
(* for something that is more than a lamport off.                              *)
TakenIsMeant ==
    taken # NotTaken =>
        /\ \E i \in DOMAIN made : /\ taken.from = PublicOf[made[i].key]
                                  /\ made[i].password = Heard(program, order.password)
        /\ solana_base58_encode(taken.to, 96) = order.text
        /\ taken.blockhash = order.blockhash
        /\ taken.memo # MeantMemo(program, order.typed) => Overflowed(program, order.typed)
        /\ LET meant == MeantTenths(program, order.amount)
               off == 10 * taken.lamports - meant
           IN  IF Misread(program, order.amount) THEN off \notin -10..10
               ELSE Within(off, Loss(program, meant))

(* A transfer fails only for a reason: it is not built when the blockhash is   *)
(* no key or a memo is too long for build_transfer(), and a node refuses what  *)
(* was sent only when the stored public key is not the wallet's own, or the    *)
(* recipient is an account that the message names already.                     *)
TransferGoesThrough ==
    /\ at = "failed" => order.blockhash = Refused \/ Len(order.memo) > MaxMemo
    /\ at = "answered" /\ taken = NotTaken =>
          \/ order.to \in {loaded.public_key, SystemProgram, MemoProgram}
          \/ \A i \in DOMAIN made :
                 made[i].entry.blob = loaded.blob => PublicOf[made[i].key] # loaded.public_key

(* The two builds give the same text for the same transfer: "mirrors the C     *)
(* implementation exactly - same byte layout, same signing order"              *)
(* (transaction.rs:18).                                                        *)
BothBuildTheSame ==
    at = "opened" =>
        \A hash \in Blockhashes :
            LET blockhash == RecipientOf(program, hash)
                transfer  == Transfer(blockhash)
            IN  blockhash # Refused =>
                    CliTransaction(transfer, held) = DesktopTransaction(transfer, held)

(* The private key does not outlive the operation that opened it, except in    *)
(* the desktop's build that fails: its ? leaves before secure_zero()           *)
(* (send_sol.rs:83).                                                           *)
KeyOutlivesOnlyErrors ==
    held # NoKey /\ at # "opened" => at = "failed" /\ program = "desktop"
=============================================================================
