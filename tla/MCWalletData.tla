---------------------------- MODULE MCWalletData ----------------------------
(* WalletData with keys and signatures of 8 bytes, amounts of 2 bytes, 100     *)
(* lamports to a SOL, and doubles of 11 bits: 51 lamports are one that         *)
(* parse_lamports() cuts to 50, and at 2039.9 the doubles are lamports apart.  *)
EXTENDS WalletData

CONSTANTS secret, other, none

MCKeyLen == 8
MCMinExponent == -21

(* One public key with leading zeros, one as large as can be, one plain. *)
MCPublicOf == <<[i \in 1..8 |-> IF i <= 2 THEN 0 ELSE 10 * i],
                [i \in 1..8 |-> 255],
                [i \in 1..8 |-> 7 * i]>>
MCPrivateKeys == 1..3
MCMemoProgram == [i \in 1..8 |-> 5]
MCDefaultMemo == <<33, 34>>

(* A signature that no other key, and hardly another message, gives. *)
MCSign(message, public, private) ==
    [i \in 1..8 |-> (public[i] + 41 * private + i * Len(message)
                      + 3 * message[i] + message[1 + ((23 * i) % Len(message))]) % 256]

MCEmpty == [kept |-> none, whole |-> TRUE]
MCPasswords == {[kept |-> secret, whole |-> TRUE], [kept |-> secret, whole |-> FALSE],
                [kept |-> other, whole |-> TRUE], [kept |-> none, whole |-> FALSE]}

Name(k) == solana_base58_encode(MCPublicOf[k], 96)

MCOrders ==
    LET asked(text, amount, typed) == [text |-> text, amount |-> amount, typed |-> typed]
        texts == {Name(1), Tail(Name(1)), <<0>> \o Name(1), Name(2), <<0>> \o Name(2),
                  Name(3), [Name(3) EXCEPT ![2] = Unknown], [i \in 1..8 |-> 0], <<>>}
        amounts == {Integer(n) : n \in {-1, 0, 3, 4, 65535, 65536}}
                     \union {Decimal(t) : t \in {-15, 4, 15, 510, 20399, 655350, 655360, 655361, 655760}}
                     \union {Suffixed(2), Grouped(1, 1000500), InLamports(15)}
    IN  {asked(text, Integer(3), 0) : text \in texts}
          \union {asked(Name(3), amount, 1) : amount \in amounts}
          \union {asked(Name(3), Decimal(15), n) : n \in {1, 120, 121, 135, 140, 256}}

(* A blockhash, and one that was cut short. *)
MCBlockhashes ==
    LET hash == solana_base58_encode([i \in 1..8 |-> 90 + i], 96) IN {hash, Tail(hash)}
=============================================================================
