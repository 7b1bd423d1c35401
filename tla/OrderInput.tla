----------------------------- MODULE OrderInput -----------------------------
(* What a user types for an amount and a memo, and what the programs make of   *)
(* it: prompt_lamports() and the memo loop of main.c, parse_lamports() and the *)
(* memo field of send_sol.rs. A number with a point is counted in tenths of a  *)
(* lamport, one without is the integer itself; digits and spaces are left out. *)
(* Both programs compute amounts of SOL in doubles.                            *)
EXTENDS Doubles, Sequences

CONSTANTS
    AmountLimit,        \* one more than a uint64_t holds
    LamportsPerSol,     \* SOLANA_LAMPORTS_PER_SOL
    SmallAmount,        \* the largest integer the desktop takes for SOL: 100
    MaxTypedMemo,       \* SOLANA_MAX_MEMO_LENGTH
    MemoLine,           \* characters that read_line takes into input_buffer[]
    DefaultMemo         \* SOLANA_DEFAULT_MEMO

ASSUME InputAssumption ==
    /\ {AmountLimit, LamportsPerSol, SmallAmount, MaxTypedMemo, MemoLine} \subseteq Nat \ {0}
    /\ MaxTypedMemo < MemoLine
    /\ LamportsPerSol >= 100 /\ SmallAmount * LamportsPerSol < AmountLimit
    /\ Two[Precision] <= AmountLimit /\ AmountLimit <= Two[MaxExponent]
    /\ 10 * LamportsPerSol * Two[Precision] <= Two[-MinExponent]
    /\ DefaultMemo \in Seq(0..255) /\ Len(DefaultMemo) <= MaxTypedMemo

(* What can be typed: an integer, a number with a point, an integer before     *)
(* "sol", a number grouped by a comma ("1,000.5"), of which head is what       *)
(* stands before the comma, and a number of tenths before another word than    *)
(* SOL ("1.5 lamports").                                                       *)
Integer(n)       == [form |-> "integer", n |-> n, head |-> 0]
Decimal(tenths)  == [form |-> "decimal", n |-> tenths, head |-> 0]
Suffixed(sol)    == [form |-> "suffixed", n |-> sol, head |-> 0]
Grouped(head, tenths) == [form |-> "grouped", n |-> tenths, head |-> head]
InLamports(tenths) == [form |-> "worded", n |-> tenths, head |-> 0]

InTenths(sol) == 10 * LamportsPerSol * sol

(* strtod() stops at the comma or the word, and nobody looks where it stopped. *)
CliTenths(amount) ==
    CASE amount.form = "suffixed" -> InTenths(amount.n)
      [] amount.form = "grouped"  -> InTenths(amount.head)
      [] amount.form = "worded"   -> LamportsPerSol * amount.n
      [] OTHER -> amount.n

(* strtod(), parse::<f64>(): the SOL that are so many tenths of a lamport.      *)
Sol(tenths) == Nearest(tenths, InTenths(1))

(* The bound is compared by >, as a double; at the bound itself the conversion  *)
(* is undefined: 0 where it wraps, the largest value where it saturates.        *)
CliFromSol(tenths) ==
    LET sol == Sol(tenths)
        rounded == Floor(PlusHalf(Times(sol, LamportsPerSol)))
        converted == IF rounded < AmountLimit THEN {rounded} ELSE {0, AmountLimit - 1}
    IN  IF tenths <= 0 \/ Exceeds(sol, Nearest(AmountLimit, LamportsPerSol)) THEN {}
        ELSE converted \ {0}

(* strtoull(): ERANGE above the limit, and a minus sign negates modulo it. *)
CliFromInteger(n) ==
    IF n \notin (1 - AmountLimit)..(AmountLimit - 1) \/ n = 0 THEN {} ELSE {n % AmountLimit}

(* A fault: the bound on SOL amounts is not checked. *)
PromptUnbounded(amount) ==
    IF amount.form = "integer" THEN CliFromInteger(amount.n)
    ELSE IF CliTenths(amount) <= 0 THEN {}
    ELSE {Floor(PlusHalf(Times(Sol(CliTenths(amount)), LamportsPerSol)))} \ {0}

(* The amounts prompt_lamports() may return; none when it asks again. *)
prompt_lamports(amount) ==
    IF amount.form = "integer" THEN CliFromInteger(amount.n) ELSE CliFromSol(CliTenths(amount))

(* parse_lamports(): a point makes it SOL, whose product with LamportsPerSol is  *)
(* rounded to a double and cut to a lamport by a cast that saturates; an integer *)
(* is SOL up to SmallAmount and lamports above it; other text does not parse.    *)
parse_lamports(amount) ==
    CASE amount.form = "decimal" /\ amount.n > 0 ->
           LET cut == Floor(Times(Sol(amount.n), LamportsPerSol))
           IN  {IF cut < AmountLimit THEN cut ELSE AmountLimit - 1}
      [] amount.form = "integer" /\ amount.n \in 1..SmallAmount -> {amount.n * LamportsPerSol}
      [] amount.form = "integer" /\ amount.n \in (SmallAmount + 1)..(AmountLimit - 1) -> {amount.n}
      [] OTHER -> {}

Lamports(program, amount) ==
    IF program = "cli" THEN prompt_lamports(amount) ELSE parse_lamports(amount)

(* What the one who typed it meant, in tenths of a lamport: the prompt says    *)
(* "lamports or SOL, e.g. 200000 or 0.0002", the page's label "Amount (SOL)".  *)
MeantTenths(program, amount) ==
    CASE amount.form \in {"decimal", "grouped", "worded"} -> amount.n
      [] amount.form = "suffixed" -> InTenths(amount.n)
      [] amount.form = "integer" ->
           IF program = "cli" THEN 10 * amount.n ELSE InTenths(amount.n)

(* The amounts that are accepted and taken for something else: a negative      *)
(* integer, what strtod() reads in front of a comma or a word, lamports taken  *)
(* to the page that asks for SOL, and more than there can be.                  *)
Misread(program, amount) ==
    \/ program = "cli" /\ amount.form = "integer" /\ amount.n < 0
    \/ program = "cli" /\ amount.form \in {"grouped", "worded"}
    \/ program = "desktop" /\ amount.form = "integer" /\ amount.n > SmallAmount
    \/ program = "desktop" /\ amount.form = "decimal" /\ amount.n > 10 * AmountLimit

(* What is lost of any other amount of so many tenths: main.c rounds to the    *)
(* nearest lamport, send_sol.rs cuts to the one below, each after computing in *)
(* doubles, off by up to five parts in Two[Precision]. In tenths of a lamport, *)
(* times Two[Precision].                                                       *)
Loss(program, tenths) ==
    (IF program = "cli" THEN 5 ELSE 10) * Two[Precision] + 5 * (tenths + 5)

(* So many tenths of a lamport are within that.                                *)
Within(off, loss) == off * Two[Precision] \in -loss..loss

-----------------------------------------------------------------------------
(* A typed memo of n characters. *)
Typed(n) == [i \in 1..n |-> 65 + (i % 26)]

(* The memos the command line program may take from a line of n characters:    *)
(* fgets() takes MemoLine of them, a line it has too much of is refused, and   *)
(* its rest, or the bare end of it, answers the question that follows.         *)
CliMemo(n) ==
    LET left == n % MemoLine
    IN  CASE left = 0 -> {DefaultMemo}
          [] left \in 1..MaxTypedMemo -> {SubSeq(Typed(n), n - left + 1, n)}
          [] OTHER -> {}

(* The page passes on what is typed, and build_transfer() checks its length. *)
MemoOf(program, n) == IF program = "cli" THEN CliMemo(n) ELSE {Typed(n)}

(* What was meant: a blank line asks the command line program for its default. *)
MeantMemo(program, n) == IF program = "cli" /\ n = 0 THEN DefaultMemo ELSE Typed(n)

(* The line did not fit the buffer of the prompt. *)
Overflowed(program, n) == program = "cli" /\ n >= MemoLine
=============================================================================
