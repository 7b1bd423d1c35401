--------------------------- MODULE SolanaEncoding ---------------------------
(* solana_encoding.c: base58 and base64, and the compact lengths ("shortvec") *)
(* that main.c and transaction.rs append. Data is a sequence of bytes; a text *)
(* is a sequence of positions in the alphabet, with Unknown for a character   *)
(* that is not in it. The empty text stands for the functions' 0: refused.    *)
EXTENDS Integers, Sequences, FiniteSets

Byte == 0..255

Unknown == -1
Symbol == 0..57

Refused == <<>>

(* How many times the sequence starts with a zero. *)
LeadingZeros(s) ==
    CHOOSE n \in 0..Len(s) : /\ \A i \in 1..n : s[i] = 0
                             /\ n < Len(s) => s[n + 1] # 0

(* The sequence from its first digit that is not zero. *)
Significant(s) == SubSeq(s, LeadingZeros(s) + 1, Len(s))

(* buffer * base + digit, in a buffer whose digits are of another radix: the   *)
(* inner loop, from the last digit to the first; a carry out of the first one  *)
(* is dropped.                                                                 *)
MultiplyAdd(buffer, base, radix, digit) ==
    LET size == Len(buffer)
        step[i \in 0..size] ==
            IF i = 0 THEN [carry |-> digit, digits |-> <<>>]
            ELSE LET before == step[i - 1]
                     sum    == before.carry + base * buffer[size - i + 1]
                 IN  [carry |-> sum \div radix, digits |-> <<sum % radix>> \o before.digits]
    IN  step[size].digits

(* The digits of s, of one radix, as a number of size digits of the other. *)
Rebased(s, base, radix, size) ==
    LET buffer[i \in 0..Len(s)] ==
            IF i = 0 THEN [j \in 1..size |-> 0]
            ELSE MultiplyAdd(buffer[i - 1], base, radix, s[i])
    IN  buffer[Len(s)]

ZeroDigits(n) == [i \in 1..n |-> 0]

(* The text of the data, if it and its final zero fit into out_size characters. *)
solana_base58_encode(data, out_size) ==
    LET zeros == LeadingZeros(data)
        rest  == Len(data) - zeros
        digits == IF rest = 0 THEN <<>>
                  ELSE Significant(Rebased(Significant(data), 256, 58,
                                           (rest * 138) \div 100 + 1))
    IN  IF zeros + Len(digits) + 1 <= out_size
        THEN ZeroDigits(zeros) \o digits
        ELSE Refused

(* A fault: the number is aligned to the end of the buffer, and leading ones   *)
(* count for nothing.                                                          *)
DecodeAligned(text, out_size) ==
    LET digits == Significant(text)
        bytes  == Significant(Rebased(digits, 58, 256, (Len(digits) * 733) \div 1000 + 1))
    IN  IF /\ Unknown \notin {text[i] : i \in DOMAIN text}
           /\ Len(bytes) <= out_size
        THEN ZeroDigits(out_size - Len(bytes)) \o bytes
        ELSE Refused

(* The bytes of the text, if every character is known and they fit. *)
solana_base58_decode(text, out_size) ==
    LET zeros  == LeadingZeros(text)
        digits == Significant(text)
        bytes  == Significant(Rebased(digits, 58, 256, (Len(digits) * 733) \div 1000 + 1))
    IN  IF /\ Unknown \notin {text[i] : i \in DOMAIN text}
           /\ zeros + Len(bytes) <= out_size
        THEN ZeroDigits(zeros) \o bytes
        ELSE Refused

-----------------------------------------------------------------------------
Pad == 64

EncodedLen(n) == 4 * ((n + 2) \div 3)

(* The octet at a place, 0 behind the end. *)
OctetAt(data, i) == IF i <= Len(data) THEN data[i] ELSE 0

(* The k-th character: group (k-1)/4 of three octets holds four sextets. *)
Sextet(data, k) ==
    LET first == 3 * ((k - 1) \div 4) + 1
        a == OctetAt(data, first)
        b == OctetAt(data, first + 1)
        c == OctetAt(data, first + 2)
        place == (k - 1) % 4
    IN  CASE place = 0 -> a \div 4
          [] place = 1 -> (a % 4) * 16 + b \div 16
          [] place = 2 -> IF first + 1 <= Len(data) THEN (b % 16) * 4 + c \div 64 ELSE Pad
          [] place = 3 -> IF first + 2 <= Len(data) THEN c % 64 ELSE Pad

solana_base64_encode(data, out_size) ==
    IF out_size >= EncodedLen(Len(data)) + 1
    THEN [k \in 1..EncodedLen(Len(data)) |-> Sextet(data, k)]
    ELSE Refused

(* What a reader of base64 makes of it: its length is a multiple of four, and *)
(* padding closes it.                                                         *)
SextetAt(text, k) == IF text[k] = Pad THEN 0 ELSE text[k]

Octet(text, i) ==
    LET k == 4 * ((i - 1) \div 3) + 1
        place == (i - 1) % 3
    IN  CASE place = 0 -> SextetAt(text, k) * 4 + SextetAt(text, k + 1) \div 16
          [] place = 1 -> (SextetAt(text, k + 1) % 16) * 16 + SextetAt(text, k + 2) \div 4
          [] place = 2 -> (SextetAt(text, k + 2) % 4) * 64 + SextetAt(text, k + 3)

Base64Decoded(text) ==
    LET n == Len(text)
        pads == Cardinality({i \in 1..n : text[i] = Pad})
    IN  IF n % 4 = 0 /\ pads <= 2 /\ \A i \in 1..n : text[i] = Pad => i > n - pads
        THEN [i \in 1..((3 * n) \div 4 - pads) |-> Octet(text, i)]
        ELSE Refused

-----------------------------------------------------------------------------
(* append_shortvec: seven bits a byte, the high bit set on all but the last, *)
(* of a length that 21 bits hold.                                            *)
Shortvec(value) ==
    CASE value < 128 -> <<value>>
      [] value \in 128..(128 * 128 - 1) -> <<128 + (value % 128), value \div 128>>
      [] OTHER -> <<128 + (value % 128), 128 + ((value \div 128) % 128), value \div (128 * 128)>>

(* A length read at a place of the data: its value, and the place behind it. *)
ReadShortvec(data, at) ==
    LET byte == OctetAt(data, at)
        next == OctetAt(data, at + 1)
    IN  IF byte < 128
        THEN [value |-> byte, at |-> at + 1]
        ELSE [value |-> byte - 128 + 128 * next, at |-> at + 2]
=============================================================================
