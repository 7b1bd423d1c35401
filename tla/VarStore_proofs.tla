---------------------------- MODULE VarStore_proofs ----------------------------
(***************************************************************************)
(* Either link protocol keeps the promise of VarStore, whatever is lost,   *)
(* damaged or late, for any contents, lengths and sizes of buffers, any    *)
(* number of operations and of faults.                                     *)
(*                                                                         *)
(* LinkInv is the invariant. Beside the types and the fragments of         *)
(* CalcLink_proofs it has two parts.                                       *)
(*                                                                         *)
(* SafeInv is about every operation, also one that begins while packets of *)
(* an earlier one are still under way. A content goes to the variable that *)
(* the last packet before it opened, in the queue or in the calculator, so *)
(* what is said is that each content under way was offered to the variable *)
(* opened last before it (InOrder), and that once a send has put its own   *)
(* RTS behind all the others the variable open at the end is its own       *)
(* (IsMine): the content it appends next goes there. Over the direct cable *)
(* this needs that only contents are cut (UsbShape): the calculator drops  *)
(* what has no end for the packet behind it, and an RTS so dropped would   *)
(* open nothing for the content that follows.                              *)
(*                                                                         *)
(* SlvClean and UsbClean are about an operation that began with nothing    *)
(* under way. Its acknowledgements are its own: one RTS is one answer,     *)
(* which is a packet, in the calculator's hands, still to be said or on    *)
(* its way back, and never two of these at once (Opening); when the        *)
(* content's acknowledgement is on its way back the content is in its      *)
(* variable (Done) and no transfer is open that could take it away. A      *)
(* fetch hears of no variable but the one it asked for.                    *)
(***************************************************************************)
EXTENDS CalcLink_proofs

USE AbsentAssumption, FoundAssumption, BoundsAssumption, GrantsAssumption, LengthAssumption,
    CommandAssumption

-----------------------------------------------------------------------------
(* What a queue of packets does to the variables. On either cable: a packet *)
(* that opens a transfer, the variable it names, and the content a packet   *)
(* is of. A content goes to the variable opened last before it (Opened); 0   *)
(* stands for the one the calculator has open already.                     *)

Begins(k, p) == IF k = "SLV" THEN p.cmd = "RTS" ELSE p.kind \in Data /\ p.v.type = "RTS"
Named(k, p) ==
    {s \in Slots : Begins(k, p) /\ IF k = "SLV" THEN p.arg # Damaged /\ p.arg = s ELSE p.v.arg = s}
Held(k, p) ==
    {c \in Contents : IF k = "SLV" THEN p.cmd = "XDP" /\ p.arg # Damaged /\ p.arg = c
                      ELSE p.kind \in Data /\ p.v.type = "VAR_CNTS" /\ p.v.arg = c}

NoneAmong(k, q, from, to) == \A n \in from..to : ~Begins(k, q[n])
Opened(k, q, aim, i) == IF i = 0 THEN aim ELSE Named(k, q[i])

Deliverable(k, q, aim, of) ==
    \A i \in 0..Len(q), j \in 1..Len(q) :
        i < j /\ NoneAmong(k, q, i + 1, j - 1) =>
            \A s \in Opened(k, q, aim, i), c \in Held(k, q[j]) : c \in of[s]
Mine(k, q, aim, x) ==
    \A i \in 0..Len(q) :
        NoneAmong(k, q, i + 1, Len(q)) => Opened(k, q, aim, i) \subseteq {x}

LEMMA QueueTaken ==
  ASSUME NEW S, NEW q \in Seq(S), q # <<>>, NEW k, NEW aim, NEW of, NEW x, NEW next,
         next \subseteq IF Begins(k, Head(q)) THEN Named(k, Head(q)) ELSE aim
  PROVE  /\ Deliverable(k, q, aim, of) => Deliverable(k, Tail(q), next, of)
         /\ Mine(k, q, aim, x) => Mine(k, Tail(q), next, x)
  <1> DEFINE r == Tail(q)
  <1>1. /\ Len(q) \in Nat \ {0} /\ Head(q) = q[1] /\ Len(r) = Len(q) - 1
        /\ \A i \in 1..Len(r) : r[i] = q[i + 1]
    BY TailIs
  <1> HIDE DEF r
  <1>2. ASSUME NEW i \in 0..Len(r), NEW j \in 0..Len(r), NoneAmong(k, r, i + 1, j)
        PROVE  \E h \in 0..Len(q) : /\ h <= i + 1 /\ NoneAmong(k, q, h + 1, j + 1)
                                    /\ Opened(k, r, next, i) \subseteq Opened(k, q, aim, h)
    <2>1. NoneAmong(k, q, i + 2, j + 1)
      <3> SUFFICES ASSUME NEW n \in (i + 2)..(j + 1) PROVE ~Begins(k, q[n])
        BY DEF NoneAmong
      <3>1. n - 1 \in (i + 1)..j /\ n - 1 \in 1..Len(r) /\ (n - 1) + 1 = n
        BY <1>1
      <3>2. ~Begins(k, r[n - 1])
        BY <1>2, <3>1 DEF NoneAmong
      <3> QED
        BY <1>1, <3>1, <3>2
    <2>2. CASE i > 0
      <3>1. i \in 1..Len(r) /\ i + 1 \in 0..Len(q) /\ (i + 1) + 1 = i + 2 /\ i + 1 # 0
        BY <1>1, <2>2
      <3>2. Opened(k, r, next, i) = Opened(k, q, aim, i + 1)
        BY <1>1, <2>2, <3>1 DEF Opened
      <3> QED
        BY <2>1, <3>1, <3>2
    <2>3. CASE i = 0 /\ Begins(k, q[1])
      <3>1. Opened(k, r, next, i) \subseteq Opened(k, q, aim, 1)
        BY <1>1, <2>3 DEF Opened
      <3> QED
        BY <1>1, <2>1, <2>3, <3>1
    <2>4. CASE i = 0 /\ ~Begins(k, q[1])
      <3>1. Opened(k, r, next, i) \subseteq Opened(k, q, aim, 0)
        BY <1>1, <2>4 DEF Opened
      <3>2. NoneAmong(k, q, 1, j + 1)
        BY <1>1, <2>1, <2>4 DEF NoneAmong
      <3> QED
        BY <1>1, <2>4, <3>1, <3>2
    <2> QED
      BY <2>2, <2>3, <2>4
  <1>3. ASSUME Deliverable(k, q, aim, of)
        PROVE  Deliverable(k, r, next, of)
    <2> SUFFICES ASSUME NEW i \in 0..Len(r), NEW j \in 1..Len(r),
                        i < j, NoneAmong(k, r, i + 1, j - 1),
                        NEW s \in Opened(k, r, next, i), NEW c \in Held(k, r[j])
                 PROVE  c \in of[s]
      BY DEF Deliverable
    <2>1. j - 1 \in 0..Len(r) /\ j + 1 \in 1..Len(q) /\ (j - 1) + 1 = (j + 1) - 1 /\ r[j] = q[j + 1]
      BY <1>1
    <2>2. PICK h \in 0..Len(q) : /\ h <= i + 1 /\ NoneAmong(k, q, h + 1, (j - 1) + 1)
                                 /\ Opened(k, r, next, i) \subseteq Opened(k, q, aim, h)
      BY <1>2, <2>1
    <2>3. h < j + 1
      BY <1>1, <2>2
    <2> QED
      BY <1>3, <2>1, <2>2, <2>3 DEF Deliverable
  <1>4. ASSUME Mine(k, q, aim, x)
        PROVE  Mine(k, r, next, x)
    <2> SUFFICES ASSUME NEW i \in 0..Len(r), NoneAmong(k, r, i + 1, Len(r))
                 PROVE  Opened(k, r, next, i) \subseteq {x}
      BY DEF Mine
    <2>1. Len(r) \in 0..Len(r) /\ Len(r) + 1 = Len(q)
      BY <1>1
    <2>2. PICK h \in 0..Len(q) : /\ NoneAmong(k, q, h + 1, Len(r) + 1)
                                 /\ Opened(k, r, next, i) \subseteq Opened(k, q, aim, h)
      BY <1>2, <2>1
    <2> QED
      BY <1>4, <2>1, <2>2 DEF Mine
  <1> QED
    BY <1>3, <1>4 DEF r

LEMMA HeadIsOffered ==
  ASSUME NEW S, NEW q \in Seq(S), q # <<>>, NEW k, NEW aim, NEW of, Deliverable(k, q, aim, of),
         NEW s \in aim, NEW c \in Held(k, Head(q))
  PROVE  c \in of[s]
  <1>1. Len(q) \in Nat \ {0} /\ Head(q) = q[1]
    BY TailIs
  <1>2. 0 \in 0..Len(q) /\ 1 \in 1..Len(q) /\ NoneAmong(k, q, 0 + 1, 1 - 1)
    BY <1>1 DEF NoneAmong
  <1> QED
    BY <1>1, <1>2 DEF Deliverable, Opened

LEMMA QueueGets ==
  ASSUME NEW S, NEW q \in Seq(S), NEW p \in S, NEW k, NEW aim, NEW of, NEW x
  PROVE  /\ Deliverable(k, q, aim, of) /\ Held(k, p) = {} => Deliverable(k, Append(q, p), aim, of)
         /\ /\ Deliverable(k, q, aim, of) /\ Mine(k, q, aim, x) /\ Held(k, p) \subseteq of[x]
            => Deliverable(k, Append(q, p), aim, of)
         /\ Mine(k, q, aim, x) /\ ~Begins(k, p) => Mine(k, Append(q, p), aim, x)
         /\ Begins(k, p) /\ Named(k, p) \subseteq {x} => Mine(k, Append(q, p), aim, x)
  <1> DEFINE r == Append(q, p)
  <1>1. /\ Len(q) \in Nat /\ Len(r) = Len(q) + 1 /\ r[Len(q) + 1] = p
        /\ \A i \in 1..Len(q) : r[i] = q[i]
    BY AppendIs
  <1> HIDE DEF r
  <1>2. ASSUME NEW i \in 0..Len(q)
        PROVE  Opened(k, r, aim, i) = Opened(k, q, aim, i)
    BY <1>1 DEF Opened
  <1>3. ASSUME NEW i \in 0..Len(q), NEW j \in 0..Len(q), NoneAmong(k, r, i + 1, j)
        PROVE  NoneAmong(k, q, i + 1, j)
    BY <1>1, <1>3 DEF NoneAmong
  <1>4. ASSUME Deliverable(k, q, aim, of),
               Held(k, p) = {} \/ (Mine(k, q, aim, x) /\ Held(k, p) \subseteq of[x])
        PROVE  Deliverable(k, r, aim, of)
    <2> SUFFICES ASSUME NEW i \in 0..Len(r), NEW j \in 1..Len(r),
                        i < j, NoneAmong(k, r, i + 1, j - 1),
                        NEW s \in Opened(k, r, aim, i), NEW c \in Held(k, r[j])
                 PROVE  c \in of[s]
      BY DEF Deliverable
    <2>1. i \in 0..Len(q) /\ j - 1 \in 0..Len(q)
      BY <1>1
    <2>2. NoneAmong(k, q, i + 1, j - 1) /\ s \in Opened(k, q, aim, i)
      BY <1>2, <1>3, <2>1
    <2>3. CASE j \in 1..Len(q)
      BY <1>1, <1>4, <2>1, <2>2, <2>3 DEF Deliverable
    <2>4. CASE j = Len(q) + 1
      <3>1. r[j] = p /\ j - 1 = Len(q)
        BY <1>1, <2>4
      <3> QED
        BY <1>4, <2>1, <2>2, <3>1 DEF Mine
    <2> QED
      BY <1>1, <2>3, <2>4
  <1>5. ASSUME Mine(k, q, aim, x), ~Begins(k, p)
        PROVE  Mine(k, r, aim, x)
    <2> SUFFICES ASSUME NEW i \in 0..Len(r), NoneAmong(k, r, i + 1, Len(r))
                 PROVE  Opened(k, r, aim, i) \subseteq {x}
      BY DEF Mine
    <2>1. CASE i \in 0..Len(q)
      <3>1. NoneAmong(k, r, i + 1, Len(q))
        BY <1>1, <2>1 DEF NoneAmong
      <3> QED
        BY <1>1, <1>2, <1>3, <1>5, <2>1, <3>1 DEF Mine
    <2>2. CASE i = Len(q) + 1
      BY <1>1, <1>5, <2>2 DEF Opened, Named
    <2> QED
      BY <1>1, <2>1, <2>2
  <1>6. ASSUME Begins(k, p), Named(k, p) \subseteq {x}
        PROVE  Mine(k, r, aim, x)
    <2> SUFFICES ASSUME NEW i \in 0..Len(r), NoneAmong(k, r, i + 1, Len(r))
                 PROVE  Opened(k, r, aim, i) \subseteq {x}
      BY DEF Mine
    <2>1. i = Len(q) + 1
      BY <1>1, <1>6 DEF NoneAmong
    <2> QED
      BY <1>1, <1>6, <2>1 DEF Opened
  <1> QED
    BY <1>4, <1>5, <1>6 DEF r

LEMMA QueueLost ==
  ASSUME NEW k, NEW aim, NEW of, NEW x
  PROVE  /\ Deliverable(k, <<>>, aim, of)
         /\ aim \subseteq {x} => Mine(k, <<>>, aim, x)
  BY DEF Deliverable, Mine, Opened

LEMMA QueueKept ==
  ASSUME NEW k, NEW q, NEW aim, NEW next, next \subseteq aim, NEW of, NEW x
  PROVE  /\ Deliverable(k, q, aim, of) => Deliverable(k, q, next, of)
         /\ Mine(k, q, aim, x) => Mine(k, q, next, x)
  <1>1. \A i : Opened(k, q, next, i) \subseteq Opened(k, q, aim, i)
    BY DEF Opened
  <1> QED
    BY <1>1 DEF Deliverable, Mine

LEMMA MoreOffered ==
  ASSUME NEW k, NEW q, NEW aim, aim \subseteq Slots, NEW of, NEW more,
         \A s \in Slots : of[s] \subseteq more[s], Deliverable(k, q, aim, of)
  PROVE  Deliverable(k, q, aim, more)
  <1>1. \A i : Opened(k, q, aim, i) \subseteq Slots
    BY DEF Opened, Named
  <1> QED
    BY <1>1 DEF Deliverable

LEMMA QueueDamaged ==
  ASSUME NEW S, NEW q \in Seq(S), q # <<>>, NEW r \in Seq(S), Len(r) = Len(q),
         \A i \in 2..Len(q) : r[i] = q[i],
         NEW k, NEW aim, NEW of, NEW x,
         Begins(k, r[1]) <=> Begins(k, q[1]), Named(k, r[1]) = {}, Held(k, r[1]) = {}
  PROVE  /\ Deliverable(k, q, aim, of) => Deliverable(k, r, aim, of)
         /\ Mine(k, q, aim, x) => Mine(k, r, aim, x)
  <1>1. Len(q) \in Nat \ {0}
    BY TailIs
  <1>2. \A n \in 1..Len(q) : Begins(k, r[n]) <=> Begins(k, q[n])
    BY <1>1
  <1>3. \A i \in 0..Len(q) : Opened(k, r, aim, i) \subseteq Opened(k, q, aim, i)
    <2> SUFFICES ASSUME NEW i \in 0..Len(q)
                 PROVE  Opened(k, r, aim, i) \subseteq Opened(k, q, aim, i)
      OBVIOUS
    <2>1. i = 0 \/ i = 1 \/ i \in 2..Len(q)
      BY <1>1
    <2> QED
      BY <2>1 DEF Opened
  <1>4. \A i \in 1..Len(q) : Held(k, r[i]) \subseteq Held(k, q[i])
    <2> SUFFICES ASSUME NEW i \in 1..Len(q)
                 PROVE  Held(k, r[i]) \subseteq Held(k, q[i])
      OBVIOUS
    <2>1. i = 1 \/ i \in 2..Len(q)
      BY <1>1
    <2> QED
      BY <2>1
  <1>5. \A i \in 0..Len(q), j \in 0..Len(q) : NoneAmong(k, r, i + 1, j) => NoneAmong(k, q, i + 1, j)
    BY <1>1, <1>2 DEF NoneAmong
  <1>6. ASSUME Deliverable(k, q, aim, of) PROVE Deliverable(k, r, aim, of)
    <2> SUFFICES ASSUME NEW i \in 0..Len(q), NEW j \in 1..Len(q),
                        i < j, NoneAmong(k, r, i + 1, j - 1),
                        NEW s \in Opened(k, r, aim, i), NEW c \in Held(k, r[j])
                 PROVE  c \in of[s]
      BY DEF Deliverable
    <2>1. j - 1 \in 0..Len(q)
      BY <1>1
    <2>2. NoneAmong(k, q, i + 1, j - 1) /\ s \in Opened(k, q, aim, i) /\ c \in Held(k, q[j])
      BY <1>3, <1>4, <1>5, <2>1
    <2> QED
      BY <1>6, <2>2 DEF Deliverable
  <1>7. ASSUME Mine(k, q, aim, x) PROVE Mine(k, r, aim, x)
    <2> SUFFICES ASSUME NEW i \in 0..Len(q), NoneAmong(k, r, i + 1, Len(q))
                 PROVE  Opened(k, r, aim, i) \subseteq {x}
      BY DEF Mine
    <2>1. NoneAmong(k, q, i + 1, Len(q))
      BY <1>1, <1>5
    <2> QED
      BY <1>3, <1>7, <2>1 DEF Mine
  <1> QED
    BY <1>6, <1>7

-----------------------------------------------------------------------------
(* What is kept of any operation                                           *)

Collects(type) == calc.in # <<>> /\ calc.in[1].v.type = type
Aim ==
    {s \in Slots : IF Collects("RTS") THEN calc.in[1].v.arg = s
                   ELSE calc.doing = "taking" /\ calc.slot = s}

\* A send has put its RTS on the cable and not yet ended.
HasBegun ==
    \/ at \in {"RTS_ACK", "SKP", "ACK", "XDP", "XDP_ACK", "VAR_CNTS", "CNTS_ACK"}
    \/ at = "RTS" /\ cable = "USB" /\ out.phase # "first"

OfferedOk ==
    /\ offered \in [Slots -> SUBSET (Contents \cup {Absent})]
    /\ \A s \in Slots : Absent \in offered[s]
    /\ at # "idle" /\ op.kind = "send" => op.content \in offered[op.slot]
InOrder == Deliverable(cable, toCalc, Aim, offered)
IsMine == HasBegun => Mine(cable, toCalc, Aim, op.slot)

SlvShape == calc.in = <<>> /\ (at = "ackXDP" => got \in Contents)

CommandsWhole ==
    \A i \in 1..Len(toCalc) :
        toCalc[i].kind \in Data /\ toCalc[i].v.type # "VAR_CNTS" =>
            toCalc[i].kind = "LAST" /\ toCalc[i].from = 0
Collecting ==
    /\ calc.in = <<>> \/ calc.out = <<>>
    /\ Collects("VAR_CNTS") => \A s \in Aim : calc.in[1].v.arg \in offered[s]
Saying ==
    /\ \A i \in 1..Len(calc.out) : calc.out[i].type # "VAR_CNTS" => calc.out[i].size <= CommandSize
    /\ calc.waiting /\ calc.out[1].type # "VAR_CNTS" => calc.said >= calc.out[1].size
Sending ==
    /\ at \in Sends \ {"VAR_CNTS"} /\ out.phase # "first" => out.final /\ out.phase # "next"
    /\ at \notin Awaits => ~in.begun
UsbShape == CommandsWhole /\ Collecting /\ Saying /\ Sending

SafeInv ==
    /\ OfferedOk /\ InOrder /\ IsMine
    /\ cable = "SLV" => SlvShape
    /\ cable = "USB" => UsbShape

-----------------------------------------------------------------------------
(* Steps of the program and of the calculator, whichever the cable         *)

LEMMA AimIs ==
  /\ Aim \subseteq Slots
  /\ UNCHANGED calc => Aim' = Aim
  /\ calc' = CalcIdle => Aim' = {}
  BY DEF Aim, Collects, CalcIdle

LEMMA BeginSafe ==
  ASSUME OpT, StoreT, OfferedOk, InOrder, UNCHANGED cable,
         NEW kind, NEW s, NEW c, NEW first, kind = "send" => s \in Slots /\ c \in Contents,
         Begin(kind, s, c, first)
  PROVE  OfferedOk' /\ InOrder'
  <1>1. op' = [kind |-> kind, slot |-> s, content |-> c, clean |-> Quiet]
    BY DEF Begin
  <1>2. op'.kind = kind /\ op'.slot = s /\ op'.content = c
    BY <1>1
  <1>3. offered' = IF kind = "send" THEN [offered EXCEPT ![s] = @ \cup {c}] ELSE offered
    BY DEF Begin
  <1>4. OfferedOk' /\ \A x \in Slots : offered[x] \subseteq offered'[x]
    <2>1. CASE kind = "send"
      BY <1>2, <1>3, <2>1 DEF OfferedOk
    <2>2. CASE kind # "send"
      BY <1>2, <1>3, <2>2 DEF OfferedOk
    <2> QED
      BY <2>1, <2>2
  <1>5. toCalc' = toCalc /\ Aim' = Aim
    BY AimIs DEF Begin, wire, calculator
  <1>6. InOrder'
    BY <1>4, <1>5, AimIs, MoreOffered DEF InOrder
  <1> QED
    BY <1>4, <1>6

LEMMA OfferedKept ==
  ASSUME OfferedOk, at # "idle" \/ at' = at, UNCHANGED <<op, offered>>
  PROVE  OfferedOk'
  BY DEF OfferedOk

LEMMA HostHears ==
  ASSUME InOrder, IsMine, UNCHANGED <<toCalc, calc, op, offered, cable>>, HasBegun' => HasBegun
  PROVE  InOrder' /\ IsMine'
  BY AimIs DEF InOrder, IsMine

LEMMA HostPuts ==
  ASSUME InOrder, IsMine, UNCHANGED <<calc, op, offered, cable>>,
         NEW S, toCalc \in Seq(S), NEW p \in S, Put(p),
         \/ ~Begins(cable, p) /\ Held(cable, p) = {} /\ (HasBegun' => HasBegun)
         \/ ~Begins(cable, p) /\ Held(cable, p) \subseteq offered[op.slot] /\ HasBegun
         \/ Begins(cable, p) /\ Named(cable, p) \subseteq {op.slot} /\ Held(cable, p) = {}
  PROVE  InOrder' /\ IsMine'
  <1>1. toCalc' = Append(toCalc, p) /\ Aim' = Aim
    BY AimIs DEF Put
  <1>2. InOrder'
    BY <1>1, QueueGets DEF InOrder, IsMine
  <1>3. IsMine'
    BY <1>1, QueueGets DEF IsMine
  <1> QED
    BY <1>2, <1>3

LEMMA CalcTakes ==
  ASSUME InOrder, IsMine, UNCHANGED <<op, at, offered, cable, out>>,
         NEW S, toCalc \in Seq(S), CalcHears,
         Aim' \subseteq IF Begins(cable, Head(toCalc)) THEN Named(cable, Head(toCalc)) ELSE Aim
  PROVE  InOrder' /\ IsMine'
  <1>1. toCalc # <<>> /\ toCalc' = Tail(toCalc) /\ (HasBegun' <=> HasBegun)
    BY DEF CalcHears, HasBegun
  <1>2. InOrder'
    BY <1>1, QueueTaken DEF InOrder
  <1>3. IsMine'
    BY <1>1, QueueTaken DEF IsMine
  <1> QED
    BY <1>2, <1>3

LEMMA CalcKeeps ==
  ASSUME InOrder, IsMine, UNCHANGED <<op, at, offered, cable, out, toCalc>>, Aim' \subseteq Aim
  PROVE  InOrder' /\ IsMine'
  <1>1. HasBegun' <=> HasBegun
    BY DEF HasBegun
  <1> QED
    BY <1>1, QueueKept DEF InOrder, IsMine

LEMMA CalcStopsSafe ==
  ASSUME InOrder, IsMine, CalcStops, UNCHANGED <<cable, out>>
  PROVE  InOrder' /\ IsMine'
  <1>1. Aim' = {}
    BY AimIs DEF CalcStops
  <1>2. CASE toCalc' = <<>>
    BY <1>1, <1>2, QueueLost DEF InOrder, IsMine
  <1>3. CASE toCalc' = toCalc
    BY <1>1, <1>3, CalcKeeps DEF CalcStops
  <1> QED
    BY <1>2, <1>3 DEF CalcStops

-----------------------------------------------------------------------------
(* Over a SilverLink                                                       *)

LEMMA SlvHostSafe ==
  ASSUME CommonT, SlvT, cable = "SLV", UNCHANGED cable, OfferedOk, InOrder, IsMine, SlvShape,
         DbusHost
  PROVE  OfferedOk' /\ InOrder' /\ IsMine' /\ SlvShape'
  <1>0. /\ toCalc \in Seq(Packets)
        /\ at \in SendSteps => op.slot \in Slots /\ op.content \in Contents /\ op.kind = "send"
        /\ at \in RecvSteps => op.slot \in Slots
    BY DEF SlvT, SlvWire, CommonT, OpT, AtT
  <1>1. at # "idle" /\ UNCHANGED <<op, offered, calc>>
    BY DEF DbusHost, SendRDY, RecvReady, SendRTS, RecvRTSAck, RecvSKP, SendACK, SendXDP, RecvXDPAck,
           SendEOT, SendREQ, RecvREQAck, RecvVAR, AckVAR, SendCTS, RecvCTSAck, RecvXDP, AckXDP,
           DbusGivesUp, DbusSend, DbusExpect, DbusRecv, WriteFails, PutFails, ReadTimesOut, GoOn, Fail, Finish,
           calculator, DbusPuts, DbusGets
  <1>2. OfferedOk'
    BY <1>1, OfferedKept
  <1>3. SlvShape'
    <2>1. CASE RecvXDP
      <3>1. Heard \in Packets
        BY <2>1, HeardT DEF RecvXDP
      <3>2. CASE Intact(Heard) /\ Heard.cmd = "XDP"
        BY <1>1, <2>1, <3>1, <3>2 DEF RecvXDP, Intact, Packets, SlvShape
      <3>3. CASE ~(Intact(Heard) /\ Heard.cmd = "XDP")
        BY <1>1, <2>1, <3>3 DEF RecvXDP, SlvShape, Fail, Finish
      <3> QED
        BY <3>2, <3>3
    <2>2. CASE ~RecvXDP
      <3>1. at' # "ackXDP"
        BY <2>2 DEF DbusHost, SendRDY, RecvReady, SendRTS, RecvRTSAck, RecvSKP, SendACK, SendXDP,
           RecvXDPAck, SendEOT, SendREQ, RecvREQAck, RecvVAR, AckVAR, SendCTS, RecvCTSAck, AckXDP,
           DbusGivesUp, DbusSend, DbusExpect, WriteFails, PutFails, ReadTimesOut, GoOn, Fail, Finish
      <3> QED
        BY <1>1, <3>1 DEF SlvShape
    <2> QED
      BY <2>1, <2>2
  <1>4. InOrder' /\ IsMine'
    <2>1. CASE SendRTS
      <3>1. op.slot \in Slots /\ Put(Packet("RTS", op.slot))
        BY <1>0, <2>1 DEF SendRTS, DbusSend, SendSteps
      <3>2. /\ Begins(cable, Packet("RTS", op.slot))
            /\ Named(cable, Packet("RTS", op.slot)) \subseteq {op.slot}
            /\ Held(cable, Packet("RTS", op.slot)) = {}
        BY DEF Begins, Named, Held, Packet
      <3> QED
        BY <1>0, <1>1, <3>1, <3>2, PacketT, HostPuts
    <2>2. CASE SendXDP
      <3>1. /\ op.slot \in Slots /\ op.content \in Contents /\ op.content \in offered[op.slot]
            /\ HasBegun /\ Put(Packet("XDP", op.content))
        BY <1>0, <1>1, <2>2 DEF SendXDP, DbusSend, SendSteps, OfferedOk, HasBegun
      <3>2. /\ ~Begins(cable, Packet("XDP", op.content))
            /\ Held(cable, Packet("XDP", op.content)) \subseteq offered[op.slot]
        BY <3>1 DEF Begins, Held, Packet
      <3> QED
        BY <1>0, <1>1, <3>1, <3>2, PacketT, HostPuts
    <2>3. CASE SendRDY \/ SendACK \/ SendEOT \/ SendREQ \/ AckVAR \/ SendCTS \/ AckXDP
      <3>1. PICK p \in Packets : Put(p) /\ p.cmd \notin {"RTS", "XDP"}
        <4>1. \A cmd \in {"RDY", "ACK", "EOT", "CTS", "REQ"}, arg \in Slots \cup {None} :
                Packet(cmd, arg).cmd = cmd
          BY DEF Packet
        <4>2. CASE SendREQ
          <5>1. op.slot \in Slots
            BY <1>0, <4>2 DEF SendREQ, DbusSend, RecvSteps
          <5> QED
            BY <4>1, <4>2, <5>1, PacketT DEF SendREQ, DbusSend
        <4>3. CASE ~SendREQ
          BY <2>3, <4>1, <4>3, PacketT
          DEF SendRDY, SendACK, SendEOT, AckVAR, SendCTS, AckXDP, DbusSend
        <4> QED
          BY <4>2, <4>3
      <3>2. ~Begins(cable, p) /\ Held(cable, p) = {}
        BY <3>1 DEF Begins, Held
      <3>3. HasBegun' => HasBegun
        BY <2>3 DEF HasBegun, SendRDY, SendACK, SendEOT, SendREQ, AckVAR, SendCTS, AckXDP, DbusSend,
           GoOn, Finish, Fail
      <3> QED
        BY <1>0, <1>1, <3>1, <3>2, <3>3, HostPuts
    <2>4. CASE UNCHANGED toCalc
      <3>1. CASE SendRDY \/ SendRTS \/ SendACK \/ SendXDP \/ SendEOT \/ SendREQ \/ AckVAR \/ SendCTS
                   \/ AckXDP
        <4>1. PICK p \in Packets : Put(p)
          BY <1>0, <3>1, PacketT DEF SendRDY, SendRTS, SendACK, SendXDP, SendEOT, SendREQ, AckVAR,
             SendCTS, AckXDP, DbusSend, SendSteps, RecvSteps
        <4> QED
          BY <1>0, <2>4, <4>1, AppendIs DEF Put
      <3>2. CASE ~(SendRDY \/ SendRTS \/ SendACK \/ SendXDP \/ SendEOT \/ SendREQ \/ AckVAR
                     \/ SendCTS \/ AckXDP)
        <4>1. HasBegun' => HasBegun
          BY <3>2 DEF HasBegun, DbusHost, RecvReady, RecvRTSAck, RecvSKP, RecvXDPAck, RecvREQAck,
             RecvVAR, RecvCTSAck, RecvXDP, DbusGivesUp, DbusExpect, DbusRecv, WriteFails, PutFails,
             ReadTimesOut, GoOn, Fail, Finish
        <4> QED
          BY <1>1, <2>4, <4>1, HostHears
      <3> QED
        BY <3>1, <3>2
    <2> QED
      BY <2>1, <2>2, <2>3, <2>4
      DEF DbusHost, RecvReady, RecvRTSAck, RecvSKP, RecvXDPAck, RecvREQAck, RecvVAR, RecvCTSAck,
          RecvXDP, DbusGivesUp, DbusExpect, WriteFails, PutFails, ReadTimesOut, wire
  <1> QED
    BY <1>2, <1>3, <1>4

Damages(q, r) == q # <<>> /\ r = [q EXCEPT ![1].arg = Damaged]

LEMMA OneChanged ==
  ASSUME NEW S, NEW q \in Seq(S), q # <<>>, NEW d \in S, NEW r, r = [q EXCEPT ![1] = d]
  PROVE  /\ r \in Seq(S) /\ Len(r) = Len(q) /\ Len(q) \in Nat \ {0}
         /\ \A i \in 2..Len(q) : r[i] = q[i]
         /\ r[1] = d
  <1>1. Len(q) \in Nat \ {0} /\ 1 \in 1..Len(q)
    BY TailIs
  <1>2. /\ r \in Seq(S) /\ Len(r) = Len(q)
        /\ \A i \in 1..Len(q) : r[i] = IF i = 1 THEN d ELSE q[i]
    BY <1>1, ExceptSeq
  <1> QED
    BY <1>1, <1>2

LEMMA DamagedIs ==
  ASSUME NEW q \in Seq(Packets), NEW r, Damages(q, r)
  PROVE  /\ r \in Seq(Packets) /\ Len(r) = Len(q) /\ Len(q) \in Nat \ {0}
         /\ \A i \in 2..Len(q) : r[i] = q[i]
         /\ r[1].cmd = q[1].cmd /\ r[1].arg = Damaged
  <1> DEFINE d == [q[1] EXCEPT !.arg = Damaged]
  <1>1. Len(q) \in Nat \ {0} /\ q[1] \in Packets /\ 1 \in 1..Len(q)
    BY TailIs DEF Damages
  <1>2. d \in Packets /\ d.cmd = q[1].cmd /\ d.arg = Damaged
    BY <1>1 DEF Packets
  <1>3. r = [q EXCEPT ![1] = d]
    BY DEF Damages
  <1> HIDE DEF d
  <1> QED
    BY <1>1, <1>2, <1>3, OneChanged DEF Damages

LEMMA SlvAim ==
  ASSUME SlvShape
  PROVE  Aim = {s \in Slots : calc.doing = "taking" /\ calc.slot = s}
  BY DEF SlvShape, Aim, Collects

LEMMA SlvCalcSafe ==
  ASSUME CommonT, SlvT, cable = "SLV", UNCHANGED <<cable, out>>, OfferedOk, InOrder, IsMine,
         SlvShape, DbusCalc
  PROVE  OfferedOk' /\ InOrder' /\ IsMine' /\ SlvShape'
  <1>0. toCalc \in Seq(Packets) /\ (toCalc # <<>> => Head(toCalc) \in Packets /\ Head(toCalc) = toCalc[1])
    BY TailIs DEF SlvT, SlvWire
  <1>1. UNCHANGED <<op, at, offered, got>>
    BY DEF DbusCalc, CalcOnRDY, CalcOnRTS, CalcOnACK, CalcOnXDP, CalcOnEOT, CalcOnREQ, CalcOnCTS,
       Damage, CalcStops, CalcTurn
  <1>2. OfferedOk'
    BY <1>1, OfferedKept
  <1>a. \A doing, s : /\ Calc(doing, s).in = <<>> /\ Calc(doing, s).doing = doing
                      /\ Calc(doing, s).slot = s
    BY DEF Calc, CalcIdle
  <1>3. SlvShape'
    <2>1. calc' = calc \/ calc' = CalcIdle \/ \E doing, s : calc' = Calc(doing, s)
      BY DEF DbusCalc, CalcOnRDY, CalcOnRTS, CalcOnACK, CalcOnXDP, CalcOnEOT, CalcOnREQ, CalcOnCTS,
         Damage, CalcStops, CalcTurn, calculator, ErrReply
    <2>2. calc'.in = <<>>
      BY <1>a, <2>1 DEF SlvShape, CalcIdle
    <2> QED
      BY <1>1, <2>2 DEF SlvShape
  <1>4. ASSUME CalcHears, calc' = calc \/ Aim' = {}, ~Begins(cable, Head(toCalc))
        PROVE  InOrder' /\ IsMine'
    BY <1>0, <1>1, <1>4, AimIs, CalcTakes
  <1>5. ASSUME NEW cmd, CalcTurn(cmd), cmd # "RTS"
        PROVE  CalcHears /\ ~Begins(cable, Head(toCalc))
    BY <1>5 DEF CalcTurn, Begins
  <1>6. CASE CalcOnRTS
    <2>1. CalcHears /\ toCalc # <<>> /\ Head(toCalc).cmd = "RTS"
      BY <1>6 DEF CalcOnRTS, CalcTurn, CalcHears
    <2>2. \/ calc' = CalcIdle
          \/ Head(toCalc).arg # Damaged /\ calc' = Calc("taking", Head(toCalc).arg)
      BY <1>6 DEF CalcOnRTS, ErrReply
    <2>3. Begins(cable, Head(toCalc)) /\ Aim' \subseteq Named(cable, Head(toCalc))
      <3>1. CASE calc' = CalcIdle
        BY <2>1, <3>1, AimIs DEF Begins
      <3>2. CASE Head(toCalc).arg # Damaged /\ calc' = Calc("taking", Head(toCalc).arg)
        BY <1>a, <2>1, <3>2 DEF Begins, Named, Aim, Collects
      <3> QED
        BY <2>2, <3>1, <3>2
    <2>4. InOrder' /\ IsMine'
      BY <1>0, <1>1, <2>1, <2>3, CalcTakes
    <2> QED
      BY <1>2, <1>3, <2>4
  <1>7. CASE CalcOnREQ
    <2>1. calc' = CalcIdle \/ \E s : calc' = Calc("giving", s)
      BY <1>7 DEF CalcOnREQ, ErrReply
    <2>2. Aim' = {}
      BY <1>a, <1>3, <2>1, AimIs DEF SlvShape, Aim, Collects
    <2> QED
      BY <1>2, <1>3, <1>4, <1>5, <1>7, <2>2 DEF CalcOnREQ
  <1>8. CASE CalcOnRDY \/ CalcOnACK \/ CalcOnXDP \/ CalcOnEOT \/ CalcOnCTS
    <2>1. calc' = calc \/ calc' = CalcIdle
      BY <1>8 DEF CalcOnRDY, CalcOnACK, CalcOnXDP, CalcOnEOT, CalcOnCTS, calculator, ErrReply
    <2>2. CalcHears /\ ~Begins(cable, Head(toCalc))
      BY <1>5, <1>8 DEF CalcOnRDY, CalcOnACK, CalcOnXDP, CalcOnEOT, CalcOnCTS
    <2> QED
      BY <1>2, <1>3, <1>4, <2>1, <2>2, AimIs
  <1>9. CASE Damage
    <2>1. calc' = calc /\ Aim' = Aim /\ (HasBegun' <=> HasBegun)
      BY <1>1, <1>9, AimIs DEF Damage, calculator, HasBegun
    <2>2. CASE UNCHANGED toCalc
      BY <1>1, <2>1, <2>2, HostHears, <1>2, <1>3
    <2>3. CASE Damages(toCalc, toCalc')
      <3>2. /\ toCalc' \in Seq(Packets) /\ Len(toCalc') = Len(toCalc)
            /\ \A i \in 2..Len(toCalc) : toCalc'[i] = toCalc[i]
            /\ toCalc'[1].cmd = toCalc[1].cmd /\ toCalc'[1].arg = Damaged
        BY <1>0, <2>3, DamagedIs
      <3>4. /\ Begins(cable, toCalc'[1]) <=> Begins(cable, toCalc[1])
            /\ Named(cable, toCalc'[1]) = {} /\ Held(cable, toCalc'[1]) = {}
        BY <3>2 DEF Begins, Named, Held
      <3>a. /\ Deliverable(cable, toCalc, Aim, offered) => Deliverable(cable, toCalc', Aim, offered)
            /\ Mine(cable, toCalc, Aim, op.slot) => Mine(cable, toCalc', Aim, op.slot)
        <4> DEFINE r == toCalc'
        <4>1. /\ r \in Seq(Packets) /\ Len(r) = Len(toCalc) /\ \A i \in 2..Len(toCalc) : r[i] = toCalc[i]
              /\ (Begins(cable, r[1]) <=> Begins(cable, toCalc[1]))
              /\ Named(cable, r[1]) = {} /\ Held(cable, r[1]) = {}
          BY <3>2, <3>4
        <4> HIDE DEF r
        <4>2. toCalc \in Seq(Packets) /\ toCalc # <<>>
          BY <1>0, <2>3 DEF Damages
        <4>3. /\ Deliverable(cable, toCalc, Aim, offered) => Deliverable(cable, r, Aim, offered)
              /\ Mine(cable, toCalc, Aim, op.slot) => Mine(cable, r, Aim, op.slot)
          BY <4>1, <4>2, QueueDamaged
        <4> QED
          BY <4>3 DEF r
      <3>5. InOrder'
        BY <1>1, <2>1, <3>a DEF InOrder
      <3>6. IsMine'
        BY <1>1, <2>1, <3>a DEF IsMine
      <3> QED
        BY <1>2, <1>3, <3>5, <3>6
    <2> QED
      BY <1>9, <2>2, <2>3 DEF Damage, Damages
  <1>10. CASE CalcStops
    BY <1>2, <1>3, <1>10, CalcStopsSafe
  <1> QED
    BY <1>6, <1>7, <1>8, <1>9, <1>10 DEF DbusCalc

LEMMA SlvSafe ==
  ASSUME TypeInv, SafeInv, OnDbus(DbusNext)
  PROVE  SafeInv'
  <1>0. /\ cable = "SLV" /\ UNCHANGED <<cable, out>> /\ CommonT /\ SlvT /\ OpT /\ StoreT
        /\ OfferedOk /\ InOrder /\ IsMine /\ SlvShape
    BY DEF OnDbus, TypeInv, CommonT, SafeInv, dusbVars
  <1>1. CASE DbusBegin
    <2>1. PICK kind, x, c, first :
             /\ first \in {"RDY", "RTS", "REQ"} /\ (kind = "send" => x \in Slots /\ c \in Contents)
             /\ Begin(kind, x, c, first)
      <3>1. CASE Begin("ready", Absent, Absent, "RDY")
        BY <3>1
      <3>2. CASE \E s \in Slots, c \in Contents : Begin("send", s, c, "RTS")
        BY <3>2
      <3>3. CASE \E s \in Slots : Begin("recv", s, Absent, "REQ")
        BY <3>3
      <3> QED
        BY <1>1, <3>1, <3>2, <3>3 DEF DbusBegin
    <2>2. OfferedOk' /\ InOrder'
      BY <1>0, <2>1, BeginSafe
    <2>3. at' \in {"RDY", "RTS", "REQ"} /\ UNCHANGED <<calc, cable>>
      BY <1>0, <2>1 DEF Begin, calculator
    <2> QED
      BY <1>0, <2>2, <2>3 DEF IsMine, HasBegun, SlvShape, SafeInv
  <1>2. CASE DbusHost
    BY <1>0, <1>2, SlvHostSafe DEF SafeInv
  <1>3. CASE DbusCalc
    BY <1>0, <1>3, SlvCalcSafe DEF SafeInv
  <1> QED
    BY <1>1, <1>2, <1>3 DEF OnDbus, DbusNext

-----------------------------------------------------------------------------
(* Over the direct cable                                                   *)

LEMMA VirtualIs ==
  ASSUME NEW type, NEW arg
  PROVE  /\ Virtual(type, arg).type = type /\ Virtual(type, arg).arg = arg
         /\ type # "VAR_CNTS" => Virtual(type, arg).size <= CommandSize
  <1>1. Virtual(type, arg).type = type /\ Virtual(type, arg).arg = arg
    BY DEF Virtual
  <1>2. ASSUME type = "EOT" PROVE Virtual(type, arg).size <= CommandSize
    BY <1>2 DEF Virtual
  <1>3. ASSUME type \notin {"EOT", "VAR_CNTS"} PROVE Virtual(type, arg).size <= CommandSize
    BY <1>3 DEF Virtual
  <1> QED
    BY <1>1, <1>2, <1>3

LEMMA WholeTail ==
  ASSUME UsbWire, CommandsWhole, CalcHears
  PROVE  CommandsWhole'
  BY TailIs DEF UsbWire, CommandsWhole, CalcHears

LEMMA WholePut ==
  ASSUME UsbWire, CommandsWhole, NEW p \in Raws, Put(p),
         p.kind \in Data /\ p.v.type # "VAR_CNTS" => p.kind = "LAST" /\ p.from = 0
  PROVE  CommandsWhole'
  <1>1. toCalc \in Seq(Raws) /\ toCalc' = Append(toCalc, p)
    BY DEF UsbWire, Put
  <1>2. /\ Len(toCalc) \in Nat /\ Len(toCalc') = Len(toCalc) + 1
        /\ \A i \in 1..Len(toCalc) : toCalc'[i] = toCalc[i]
        /\ toCalc'[Len(toCalc) + 1] = p
    BY <1>1, AppendIs
  <1>3. \A i \in 1..Len(toCalc') : i \in 1..Len(toCalc) \/ i = Len(toCalc) + 1
    BY <1>2
  <1> QED
    BY <1>2, <1>3 DEF CommandsWhole

LEMMA CollectingKept ==
  ASSUME Collecting, UNCHANGED <<calc, offered>>
  PROVE  Collecting'
  BY AimIs DEF Collecting, Collects

LEMMA SayingKept ==
  ASSUME Saying, UNCHANGED calc
  PROVE  Saying'
  BY DEF Saying

UsbSafe == OfferedOk /\ InOrder /\ IsMine /\ UsbShape

LEMMA UsbHostSafe ==
  ASSUME CommonT, UsbT, cable = "USB", UNCHANGED cable, UsbSafe, DusbHost
  PROVE  UsbSafe'
  <1>0. /\ UsbWire /\ toCalc \in Seq(Raws) /\ OpT /\ AtT /\ MaxlenT /\ Sized /\ OutT
        /\ at \notin Sends => out = Fresh
        /\ at \in SendSteps => op.slot \in Slots /\ op.content \in Contents /\ op.kind = "send"
        /\ OfferedOk /\ InOrder /\ IsMine /\ CommandsWhole /\ Collecting /\ Saying /\ Sending
    BY DEF UsbT, UsbWire, CommonT, OpT, AtT, OutT, UsbSafe, UsbShape
  <1>1. at # "idle" /\ UNCHANGED <<op, offered, calc>>
    BY DEF DusbHost, BufSizeRequest, BufSizeAlloc, SendFirst, RecvAcknowledge, SendNext, RecvData,
           DusbGivesUp, Transmit, Acknowledged, Delivered, WriteFails, PutFails, ReadTimesOut, GoOn, Fail,
           Finish, calculator, Sends, Awaits
  <1>2. OfferedOk' /\ Collecting' /\ Saying'
    BY <1>0, <1>1, OfferedKept, CollectingKept, SayingKept
  <1>3. SUFFICES InOrder' /\ IsMine' /\ CommandsWhole' /\ Sending'
    BY <1>2 DEF UsbSafe, UsbShape
  <1>4. ASSUME NEW p \in Raws, Put(p), p.kind \notin Data, HasBegun' => HasBegun, Sending'
        PROVE  InOrder' /\ IsMine' /\ CommandsWhole' /\ Sending'
    <2>1. ~Begins(cable, p) /\ Held(cable, p) = {}
      BY <1>4 DEF Begins, Held
    <2> QED
      BY <1>0, <1>1, <1>4, <2>1, HostPuts, WholePut
  <1>5. ASSUME UNCHANGED toCalc, HasBegun' => HasBegun, Sending'
        PROVE  InOrder' /\ IsMine' /\ CommandsWhole' /\ Sending'
    BY <1>0, <1>1, <1>5, HostHears DEF CommandsWhole
  <1>6. ASSUME at' = "idle", in' = in \/ in' = Nothing, at \in Awaits => in' = Nothing
        PROVE  ~HasBegun' /\ Sending'
    BY <1>0, <1>6 DEF HasBegun, Sending, Sends, Nothing
  <1>7. CASE BufSizeRequest
    <2>1. /\ at' = "sizeAlloc" /\ UNCHANGED <<out, in>> /\ Put(Size("SIZE_REQ", 1024))
          /\ at = "sizeReq"
      BY <1>7 DEF BufSizeRequest, GoOn, dusbVars
    <2>2. ~HasBegun' /\ Sending'
      BY <1>0, <2>1 DEF HasBegun, Sending, Sends, Awaits
    <2>3. Size("SIZE_REQ", 1024) \in Raws /\ Size("SIZE_REQ", 1024).kind \notin Data
      BY SizeT DEF Size, Raw, Data
    <2> QED
      BY <1>4, <2>1, <2>2, <2>3
  <1>8. CASE BufSizeAlloc
    <2>1. at = "sizeAlloc" /\ at' \in {"idle", "PING"} /\ UNCHANGED <<out, in, toCalc>>
      BY <1>8 DEF BufSizeAlloc, GoOn, Fail, Finish
    <2>2. ~HasBegun' /\ Sending'
      BY <1>0, <2>1 DEF HasBegun, Sending, Sends, Awaits, Fresh
    <2> QED
      BY <1>5, <2>1, <2>2
  <1>a. at \in Sends => /\ Outgoing \in Virtuals /\ Outgoing.type = at
                        /\ at = "RTS" => Outgoing.arg = op.slot
                        /\ at = "VAR_CNTS" => Outgoing.arg = op.content
                        /\ at # "VAR_CNTS" => Outgoing.size <= CommandSize
    BY <1>0, OutgoingT, VirtualIs DEF Outgoing
  <1>b. ASSUME at \in Sends, NEW kind \in Data, NEW from \in Nat, NEW to \in Nat,
               Put(Raw(kind, Outgoing, from, to)),
               at # "VAR_CNTS" => kind = "LAST" /\ from = 0,
               at \in {"RTS", "VAR_CNTS"} \/ ~HasBegun', Sending'
        PROVE  InOrder' /\ IsMine' /\ CommandsWhole' /\ Sending'
    <2> DEFINE p == Raw(kind, Outgoing, from, to)
    <2>1. /\ p \in Raws /\ p.kind = kind /\ p.v = Outgoing /\ p.from = from
          /\ kind \in {"SIZE_REQ", "SIZE_ALLOC", "DATA", "LAST", "ACK"}
      BY <1>a, <1>b, RawT DEF Raw, Data
    <2>2. Put(p)
      BY <1>b
    <2> HIDE DEF p
    <2>3. CommandsWhole'
      BY <1>0, <1>a, <1>b, <2>1, <2>2, WholePut
    <2>4. CASE at = "RTS"
      <3>1. Begins(cable, p) /\ Named(cable, p) \subseteq {op.slot} /\ Held(cable, p) = {}
        BY <1>a, <1>b, <2>1, <2>4 DEF Begins, Named, Held
      <3> QED
        BY <1>0, <1>1, <1>b, <2>1, <2>2, <2>3, <3>1, HostPuts
    <2>5. CASE at = "VAR_CNTS"
      <3>1. HasBegun /\ op.content \in offered[op.slot]
        BY <1>0, <2>5 DEF HasBegun, OfferedOk, SendSteps
      <3>2. ~Begins(cable, p) /\ Held(cable, p) \subseteq offered[op.slot]
        BY <1>a, <1>b, <2>1, <2>5, <3>1 DEF Begins, Held
      <3> QED
        BY <1>0, <1>1, <1>b, <2>1, <2>2, <2>3, <3>1, <3>2, HostPuts
    <2>6. CASE at \notin {"RTS", "VAR_CNTS"}
      <3>1. ~Begins(cable, p) /\ Held(cable, p) = {}
        BY <1>a, <1>b, <2>1, <2>6 DEF Begins, Held
      <3> QED
        BY <1>0, <1>1, <1>b, <2>1, <2>2, <2>3, <2>6, <3>1, HostPuts
    <2> QED
      BY <2>4, <2>5, <2>6
  <1>9. CASE SendFirst
    <2> DEFINE room == maxlen - HeaderSize
    <2>1. /\ at \in Sends /\ at' = at /\ in' = in /\ maxlen \in Grants /\ maxlen \in Nat
          /\ out.phase = "first" /\ room \in Nat /\ CommandSize <= room
      BY <1>0, <1>9 DEF SendFirst, Transmit, HeaderSize, Sized
    <2>2. at \in {"RTS", "VAR_CNTS"} \/ ~HasBegun'
      BY <2>1 DEF HasBegun, Sends
    <2>3. CASE Outgoing.size <= room
      <3>1. /\ Put(Raw("LAST", Outgoing, 0, Outgoing.size))
            /\ out' = [out EXCEPT !.phase = "ack", !.sent = Outgoing.size, !.final = TRUE]
        BY <1>9, <2>3 DEF SendFirst, Transmit, Raw
      <3>2. out'.final /\ out'.phase = "ack"
        BY <1>0, <3>1 DEF OutT
      <3>3. Sending' /\ Outgoing.size \in Nat
        BY <1>0, <1>a, <2>1, <3>2 DEF Sending, Virtuals
      <3> QED
        BY <1>b, <2>1, <2>2, <3>1, <3>3 DEF Data
    <2>4. CASE ~(Outgoing.size <= room)
      <3>1. Put(Raw("DATA", Outgoing, 0, room))
        BY <1>9, <2>4 DEF SendFirst, Transmit
      <3>2. Outgoing.size \in Nat
        BY <1>a, <2>1 DEF Virtuals
      <3>3. at = "VAR_CNTS"
        BY <1>a, <2>1, <2>4, <3>2
      <3>4. Sending'
        BY <1>0, <2>1, <3>3 DEF Sending
      <3> QED
        BY <1>b, <2>1, <2>2, <3>1, <3>3, <3>4 DEF Data
    <2> QED
      BY <2>3, <2>4
  <1>10. CASE RecvAcknowledge
    <2>0. /\ at \in Sends /\ out.phase \in {"ack", "ackOnly"} /\ in' = in
          /\ toHost # <<>> /\ Heard \in HostRaws /\ Heard.to \in Nat
      BY <1>0, <1>10, UsbHeardT DEF RecvAcknowledge
    <2>1. CASE Heard.kind = "SIZE_REQ" /\ out.phase = "ack"
      <3>1. \/ /\ Put(Size("SIZE_ALLOC", Heard.to)) /\ at' = at
               /\ out' = [out EXCEPT !.phase = "ackOnly"]
            \/ at' = "idle" /\ UNCHANGED toCalc
        BY <1>10, <2>1 DEF RecvAcknowledge, GoOn, PutFails, Fail, Finish
      <3>2. CASE /\ Put(Size("SIZE_ALLOC", Heard.to)) /\ at' = at
                 /\ out' = [out EXCEPT !.phase = "ackOnly"]
        <4>1. out'.final = out.final /\ out'.phase = "ackOnly"
          BY <1>0, <3>2 DEF OutT
        <4>2. Sending' /\ (HasBegun' => HasBegun)
          BY <1>0, <2>0, <2>1, <3>2, <4>1 DEF Sending, HasBegun
        <4>3. Size("SIZE_ALLOC", Heard.to) \in Raws /\ Size("SIZE_ALLOC", Heard.to).kind \notin Data
          BY <2>0, SizeT DEF Size, Raw, Data
        <4> QED
          BY <1>4, <3>2, <4>2, <4>3
      <3>3. CASE at' = "idle" /\ UNCHANGED toCalc
        BY <1>5, <1>6, <2>0, <3>3 DEF Sends, Awaits
      <3> QED
        BY <3>1, <3>2, <3>3
    <2>2. CASE ~(Heard.kind = "SIZE_REQ" /\ out.phase = "ack") /\ Heard.kind = "ACK"
      <3>1. UNCHANGED toCalc /\ Acknowledged
        BY <1>10, <2>2 DEF RecvAcknowledge
      <3>2. CASE ~out.final
        <4>1. at = "VAR_CNTS" /\ at' = at
          BY <1>0, <2>0, <3>1, <3>2 DEF Sending, Acknowledged, GoOn
        <4> QED
          BY <1>0, <1>5, <2>0, <3>1, <4>1 DEF Sending, HasBegun
      <3>3. CASE out.final
        <4>1. out' = Fresh /\ at' \in {"idle", After[at]} /\ (at = "EOT" => at' = "idle")
          BY <3>1, <3>3 DEF Acknowledged, Finish, GoOn
        <4>2. at' \in {"idle", "MODE_SET", "RTS_ACK", "CNTS_ACK", "VAR_HDR"}
          BY <2>0, <4>1 DEF Sends, After
        <4>3. HasBegun' => HasBegun
          BY <1>0, <2>0, <4>1, <4>2 DEF HasBegun, Sends, After
        <4>4. Sending'
          BY <1>0, <2>0, <4>1, <4>2 DEF Sending, Fresh, Sends, Awaits
        <4> QED
          BY <1>5, <3>1, <4>3, <4>4
      <3> QED
        BY <3>2, <3>3
    <2>3. CASE ~(Heard.kind = "SIZE_REQ" /\ out.phase = "ack") /\ Heard.kind # "ACK"
      <3>1. at' = "idle" /\ UNCHANGED toCalc
        BY <1>10, <2>3 DEF RecvAcknowledge, Fail, Finish
      <3> QED
        BY <1>5, <1>6, <2>0, <3>1 DEF Sends, Awaits
    <2> QED
      BY <2>1, <2>2, <2>3
  <1>11. CASE SendNext
    <2>1. /\ at = "VAR_CNTS" /\ at \in Sends /\ at' = at /\ in' = in
          /\ out.sent \in Nat /\ out.rest \in Nat /\ maxlen \in Nat
      BY <1>0, <1>11 DEF SendNext, Sending, OutT, MaxlenT, Sends
    <2>2. PICK kind \in Data, to \in Nat : Put(Raw(kind, Outgoing, out.sent, to))
      <3>1. out.sent + maxlen \in Nat /\ out.sent + out.rest \in Nat
        BY <2>1
      <3> QED
        BY <1>11, <3>1 DEF SendNext, Data
    <2>3. Sending'
      BY <1>0, <2>1 DEF Sending
    <2> QED
      BY <1>b, <2>1, <2>2, <2>3
  <1>12. CASE RecvData
    <2>1. at \in Awaits /\ at \notin Sends /\ UNCHANGED out /\ out = Fresh
      BY <1>0, <1>12 DEF RecvData, Sends, Awaits
    <2>2. \/ at' = "idle" /\ in' = Nothing
          \/ at' = at
          \/ at' = After[at] /\ at \notin {"MODE_SET", "CONTENT"} /\ in' = Nothing
      BY <1>12, Zenon DEF RecvData, PutFails, Delivered, GoOn, Fail, Finish
    <2>3. Sending' /\ (HasBegun' => HasBegun)
      <3>1. CASE at' = "idle" /\ in' = Nothing
        BY <1>6, <3>1
      <3>2. CASE at' = at
        BY <2>1, <3>2 DEF Sending, HasBegun, Awaits
      <3>3. CASE at' = After[at] /\ at \notin {"MODE_SET", "CONTENT"} /\ in' = Nothing
        <4>1. \/ at = "RTS_ACK" /\ at' = "VAR_CNTS"
              \/ at = "CNTS_ACK" /\ at' = "EOT"
              \/ at = "VAR_HDR" /\ at' = "CONTENT"
          BY <2>1, <3>3 DEF Awaits, After
        <4> QED
          BY <2>1, <3>3, <4>1 DEF Sending, HasBegun, Awaits, Fresh, Nothing
      <3> QED
        BY <2>2, <3>1, <3>2, <3>3
    <2>4. UNCHANGED toCalc \/ Put(Acknowledge)
      BY <1>12, Zenon DEF RecvData, PutFails
    <2>5. Acknowledge \in Raws /\ Acknowledge.kind \notin Data
      BY AckT DEF Acknowledge, Raw, Data
    <2> QED
      BY <1>4, <1>5, <2>3, <2>4, <2>5
  <1>13. CASE DusbGivesUp
    <2>1. at' = "idle" /\ in' = Nothing /\ UNCHANGED toCalc
      BY <1>13 DEF DusbGivesUp, WriteFails, PutFails, ReadTimesOut, Fail, Finish, wire
    <2> QED
      BY <1>5, <1>6, <2>1
  <1> QED
    BY <1>7, <1>8, <1>9, <1>10, <1>11, <1>12, <1>13 DEF DusbHost

\* What the calculator makes of a packet it carries out: the commands and the
\* contents it has to say then, and what becomes of the variables.
Says(v) ==
    /\ calc'.in = <<>> /\ calc'.waiting = FALSE
    /\ \A i \in 1..Len(calc'.out) :
          /\ calc'.out[i].type # "VAR_CNTS" => calc'.out[i].size <= CommandSize
          /\ calc'.out[i].type = "VAR_CNTS" => v.type = "VAR_REQ" /\ calc'.out[i].arg = store[v.arg]
          /\ calc'.out[i].type = "DATA_ACK" =>
                \/ v.type = "RTS"
                \/ /\ v.type = "VAR_CNTS" /\ calc.doing = "taking"
                   /\ store' = [store EXCEPT ![calc.slot] = v.arg]
    /\ \A i, j \in 1..Len(calc'.out) :
          calc'.out[i].type = "DATA_ACK" /\ calc'.out[j].type = "DATA_ACK" => i = j
Stores(v) ==
    /\ calc'.doing = "taking" => v.type = "RTS" /\ calc'.slot = v.arg
    /\ \/ UNCHANGED store
       \/ v.type = "RTS" /\ v.arg \in Slots /\ store' = [store EXCEPT ![v.arg] = Absent]
       \/ /\ v.type = "VAR_CNTS" /\ calc.doing = "taking" /\ calc.slot \in Slots
          /\ v.arg \in Contents /\ store' = [store EXCEPT ![calc.slot] = v.arg]

LEMMA Joined ==
  ASSUME NEW d
  PROVE  /\ \A w : <<d>> \o <<w>> = <<d, w>>
         /\ \A a, b : <<d>> \o <<a, b>> = <<d, a, b>>
  <1>1. ASSUME NEW w PROVE <<d>> \o <<w>> = <<d, w>>
    <2> DEFINE S == {d, w} q == <<d>> \o <<w>>
    <2>1. <<d>> \in Seq(S) /\ <<w>> \in Seq(S) /\ <<d, w>> \in Seq(S)
      OBVIOUS
    <2>2. /\ q \in Seq(S) /\ Len(q) = 2 /\ q[1] = d /\ q[2] = w
      BY <2>1, ConcatProperties
    <2> HIDE DEF q
    <2>3. \A i \in 1..2 : q[i] = <<d, w>>[i]
      BY <2>2
    <2> QED
      BY <2>1, <2>2, <2>3, SeqEqual DEF q
  <1>2. ASSUME NEW a, NEW b PROVE <<d>> \o <<a, b>> = <<d, a, b>>
    <2> DEFINE S == {d, a, b} q == <<d>> \o <<a, b>>
    <2>1. <<d>> \in Seq(S) /\ <<a, b>> \in Seq(S) /\ <<d, a, b>> \in Seq(S)
      OBVIOUS
    <2>2. /\ q \in Seq(S) /\ Len(q) = 3 /\ q[1] = d /\ q[2] = a /\ q[3] = b
      BY <2>1, ConcatProperties
    <2> HIDE DEF q
    <2>3. \A i \in 1..3 : q[i] = <<d, a, b>>[i]
      BY <2>2
    <2> QED
      BY <2>1, <2>2, <2>3, SeqEqual DEF q
  <1> QED
    BY <1>1, <1>2

LEMMA Obeyed ==
  ASSUME CommonT, UsbT, CalcObeys
  PROVE  Says(calc.in[1].v) /\ Stores(calc.in[1].v)
  <1> DEFINE v == calc.in[1].v
  <1>0. /\ v \in Virtuals /\ StoreT
        /\ v.type \in {"RTS", "VAR_REQ"} => v.arg \in Slots
        /\ v.type = "VAR_CNTS" => v.arg \in Contents
        /\ calc.doing = "taking" => calc.slot \in Slots
    BY CalcTypes DEF CommonT, CalcObeys, Complete, Virtuals, CalcT
  <1> DEFINE d == Virtual("DELAY", Absent)
  <1>1. \A type, arg : /\ Virtual(type, arg).type = type /\ Virtual(type, arg).arg = arg
                       /\ type # "VAR_CNTS" => Virtual(type, arg).size <= CommandSize
    BY VirtualIs
  <1>d. d.type = "DELAY" /\ d.size <= CommandSize
    BY <1>1
  <1> HIDE DEF v, d
  <1>2. ASSUME NEW vs, calc' = [CalcIdle EXCEPT !.out = vs]
        PROVE  /\ calc'.in = <<>> /\ calc'.out = vs /\ calc'.doing = "nothing"
               /\ calc'.waiting = FALSE
    BY <1>2 DEF CalcIdle
  <1>3. ASSUME Refuse PROVE Says(v) /\ Stores(v)
    <2> DEFINE w == Virtual("ERROR", Absent)
    <2>1. w.type = "ERROR" /\ w.size <= CommandSize
      BY <1>1
    <2>2. calc' = [CalcIdle EXCEPT !.out = <<w>>] /\ UNCHANGED store
      BY <1>3 DEF Refuse, Answer
    <2> HIDE DEF w
    <2>3. calc'.in = <<>> /\ calc'.out = <<w>> /\ calc'.doing = "nothing" /\ calc'.waiting = FALSE
      BY <1>2, <2>2
    <2> QED
      BY <2>1, <2>2, <2>3 DEF Says, Stores
  <1>4. ASSUME ~Refuse PROVE Says(v) /\ Stores(v)
    <2>1. PICK delay \in {<<>>, <<d>>} :
             CASE v.type = "PING" ->
                    Answer(delay \o <<Virtual("MODE_SET", Absent)>>) /\ UNCHANGED store
               [] v.type = "RTS" ->
                    /\ calc' = [CalcIdle EXCEPT !.doing = "taking", !.slot = v.arg,
                                                !.out = delay \o <<Virtual("DATA_ACK", Absent)>>]
                    /\ \E keep \in BOOLEAN :
                         store' = IF keep THEN store ELSE [store EXCEPT ![v.arg] = Absent]
               [] v.type = "VAR_CNTS" /\ calc.doing = "taking" ->
                    /\ calc' = [CalcIdle EXCEPT !.out = delay \o <<Virtual("DATA_ACK", Absent)>>]
                    /\ store' = [store EXCEPT ![calc.slot] = v.arg]
               [] v.type = "VAR_REQ" /\ store[v.arg] # Absent ->
                    /\ Answer(delay \o <<Virtual("VAR_HDR", v.arg), Virtual("VAR_CNTS", store[v.arg])>>)
                    /\ UNCHANGED store
               [] v.type = "EOT" -> calc' = CalcIdle /\ UNCHANGED store
               [] OTHER -> Refuse
      BY <1>4 DEF CalcObeys, v, d
    <2>2. \A w : delay \o <<w>> = <<w>> \/ delay \o <<w>> = <<d, w>>
      <3>1. CASE delay = <<>>
        BY <3>1
      <3>2. CASE delay = <<d>>
        BY <3>2, Joined
      <3> QED
        BY <2>1, <3>1, <3>2, Zenon
    <2>3. \A a, b : delay \o <<a, b>> = <<a, b>> \/ delay \o <<a, b>> = <<d, a, b>>
      <3>1. CASE delay = <<>>
        BY <3>1
      <3>2. CASE delay = <<d>>
        BY <3>2, Joined
      <3> QED
        BY <2>1, <3>1, <3>2, Zenon
    <2>4. ASSUME NEW w, calc'.out = delay \o <<w>>, calc'.in = <<>>, calc'.waiting = FALSE,
                 w.type # "VAR_CNTS", w.size <= CommandSize,
                 w.type = "DATA_ACK" => \/ v.type = "RTS"
                                        \/ /\ v.type = "VAR_CNTS" /\ calc.doing = "taking"
                                           /\ store' = [store EXCEPT ![calc.slot] = v.arg]
          PROVE  Says(v)
      <3>1. CASE calc'.out = <<w>>
        BY <2>4, <3>1 DEF Says
      <3>2. CASE calc'.out = <<d, w>>
        <4>1. Len(calc'.out) = 2 /\ calc'.out[1] = d /\ calc'.out[2] = w
          BY <3>2
        <4>2. \A i \in 1..Len(calc'.out) : i = 1 \/ i = 2
          BY <4>1
        <4> QED
          BY <1>d, <2>4, <4>1, <4>2 DEF Says
      <3> QED
        BY <2>2, <2>4, <3>1, <3>2
    <2> DEFINE mode == Virtual("MODE_SET", Absent) ack == Virtual("DATA_ACK", Absent)
    <2>a. /\ mode.type = "MODE_SET" /\ mode.size <= CommandSize
          /\ ack.type = "DATA_ACK" /\ ack.size <= CommandSize
      BY <1>1
    <2>5. CASE v.type = "PING"
      <3>1. calc' = [CalcIdle EXCEPT !.out = delay \o <<mode>>] /\ UNCHANGED store
        BY <2>1, <2>5 DEF Answer
      <3> HIDE DEF mode, ack
      <3>2. calc'.in = <<>> /\ calc'.out = delay \o <<mode>> /\ calc'.doing = "nothing"
            /\ calc'.waiting = FALSE
        BY <1>2, <3>1
      <3>4. Stores(v)
        BY <3>1, <3>2 DEF Stores
      <3> QED
        BY <2>4, <2>a, <3>2, <3>4
    <2>6. CASE v.type = "RTS"
      <3>1. /\ calc' = [CalcIdle EXCEPT !.doing = "taking", !.slot = v.arg, !.out = delay \o <<ack>>]
            /\ \E keep \in BOOLEAN :
                  store' = IF keep THEN store ELSE [store EXCEPT ![v.arg] = Absent]
        BY <2>1, <2>6
      <3> HIDE DEF mode, ack
      <3>2. calc'.in = <<>> /\ calc'.out = delay \o <<ack>> /\ calc'.slot = v.arg
            /\ calc'.waiting = FALSE
        BY <3>1 DEF CalcIdle
      <3>3. Says(v)
        BY <2>4, <2>6, <2>a, <3>2
      <3>4. Stores(v)
        BY <1>0, <2>6, <3>1, <3>2 DEF Stores
      <3> QED
        BY <3>3, <3>4
    <2>7. CASE v.type = "VAR_CNTS" /\ calc.doing = "taking"
      <3>1. /\ calc' = [CalcIdle EXCEPT !.out = delay \o <<ack>>]
            /\ store' = [store EXCEPT ![calc.slot] = v.arg]
        BY <2>1, <2>7
      <3> HIDE DEF mode, ack
      <3>2. calc'.in = <<>> /\ calc'.out = delay \o <<ack>> /\ calc'.doing = "nothing"
            /\ calc'.waiting = FALSE
        BY <1>2, <3>1
      <3>3. Says(v)
        BY <2>4, <2>7, <2>a, <3>1, <3>2
      <3>4. Stores(v)
        BY <1>0, <2>7, <3>1, <3>2 DEF Stores
      <3> QED
        BY <3>3, <3>4
    <2>8. CASE v.type = "VAR_REQ" /\ store[v.arg] # Absent
      <3> DEFINE a == Virtual("VAR_HDR", v.arg) b == Virtual("VAR_CNTS", store[v.arg])
      <3>1. /\ calc' = [CalcIdle EXCEPT !.out = delay \o <<a, b>>] /\ UNCHANGED store
        BY <2>1, <2>8 DEF Answer
      <3>2. /\ a.type = "VAR_HDR" /\ a.size <= CommandSize
            /\ b.type = "VAR_CNTS" /\ b.arg = store[v.arg]
        BY <1>1
      <3> HIDE DEF a, b, mode, ack
      <3>3. calc'.in = <<>> /\ calc'.out = delay \o <<a, b>> /\ calc'.doing = "nothing"
            /\ calc'.waiting = FALSE
        BY <1>2, <3>1
      <3>4. \A i \in 1..Len(calc'.out) : calc'.out[i] \in {d, a, b}
        <4>1. CASE calc'.out = <<a, b>>
          BY <4>1
        <4>2. CASE calc'.out = <<d, a, b>>
          <5>1. Len(calc'.out) = 3 /\ calc'.out[1] = d /\ calc'.out[2] = a /\ calc'.out[3] = b
            BY <4>2
          <5>2. \A i \in 1..Len(calc'.out) : i = 1 \/ i = 2 \/ i = 3
            BY <5>1
          <5> QED
            BY <5>1, <5>2
        <4> QED
          BY <2>3, <3>3, <4>1, <4>2
      <3>5. Says(v)
        <4>1. \A i \in 1..Len(calc'.out) :
                 /\ calc'.out[i].type # "DATA_ACK"
                 /\ calc'.out[i].type # "VAR_CNTS" => calc'.out[i].size <= CommandSize
                 /\ calc'.out[i].type = "VAR_CNTS" => calc'.out[i].arg = store[v.arg]
          BY <1>d, <3>2, <3>4
        <4> QED
          BY <2>8, <3>3, <4>1 DEF Says
      <3>6. Stores(v)
        BY <3>1, <3>3 DEF Stores
      <3> QED
        BY <3>5, <3>6
    <2>9. CASE v.type = "EOT"
      <3>1. calc' = CalcIdle /\ UNCHANGED store
        BY <2>1, <2>9
      <3>2. calc'.in = <<>> /\ calc'.out = <<>> /\ calc'.doing = "nothing" /\ calc'.waiting = FALSE
        BY <3>1 DEF CalcIdle
      <3> QED
        BY <3>1, <3>2 DEF Says, Stores
    <2>10. CASE /\ v.type \notin {"PING", "RTS", "EOT"}
                /\ ~(v.type = "VAR_CNTS" /\ calc.doing = "taking")
                /\ ~(v.type = "VAR_REQ" /\ store[v.arg] # Absent)
      BY <1>4, <2>1, <2>10
    <2> QED
      BY <2>5, <2>6, <2>7, <2>8, <2>9, <2>10
  <1> QED
    BY <1>3, <1>4 DEF v

LEMMA UsbCalcSafe ==
  ASSUME CommonT, UsbT, cable = "USB", UNCHANGED cable, UsbSafe, DusbCalc
  PROVE  UsbSafe'
  <1>0. /\ UsbWire /\ toCalc \in Seq(Raws) /\ CalcT
        /\ OfferedOk /\ InOrder /\ IsMine /\ CommandsWhole /\ Collecting /\ Saying /\ Sending
    BY DEF UsbT, UsbWire, CommonT, UsbSafe, UsbShape
  <1>1. UNCHANGED <<op, at, offered, out, in>>
    BY DEF DusbCalc, CalcAllocates, CalcCollects, CalcAccepts, CalcObeys, CalcSpeaks, CalcIsHeard,
           CalcStops, HostUnchanged, dusbVars
  <1>2. OfferedOk' /\ Sending'
    BY <1>0, <1>1, OfferedKept DEF Sending
  <1>3. SUFFICES InOrder' /\ IsMine' /\ CommandsWhole' /\ Collecting' /\ Saying'
    BY <1>2 DEF UsbSafe, UsbShape
  <1>4. ASSUME calc' = CalcIdle
        PROVE  Aim' = {} /\ Collecting' /\ Saying'
    <2>1. calc'.in = <<>> /\ calc'.out = <<>> /\ calc'.waiting = FALSE
      BY <1>4 DEF CalcIdle
    <2> QED
      BY <1>4, <2>1, AimIs DEF Collecting, Saying, Collects
  <1>5. ASSUME CalcHears, Head(toCalc).kind \notin Data, Aim' \subseteq Aim
        PROVE  InOrder' /\ IsMine' /\ CommandsWhole'
    <2>1. ~Begins(cable, Head(toCalc))
      BY <1>5 DEF Begins
    <2> QED
      BY <1>0, <1>1, <1>5, <2>1, CalcTakes, WholeTail
  <1>6. ASSUME UNCHANGED toCalc, Aim' \subseteq Aim
        PROVE  InOrder' /\ IsMine' /\ CommandsWhole'
    BY <1>0, <1>1, <1>6, CalcKeeps DEF CommandsWhole
  <1>7. CASE CalcAllocates
    BY <1>4, <1>5, <1>7 DEF CalcAllocates, Data
  <1>8. CASE CalcCollects
    <2> DEFINE raw == Head(toCalc)
               end == IF raw.from = 0 /\ calc.in # <<>> THEN CalcIdle ELSE calc
               Began(p) == /\ calc' = [end EXCEPT !.in = <<p>>, !.out = <<>>, !.waiting = FALSE]
                           /\ p.v = raw.v
                           /\ raw.from > 0 => calc.in # <<>> /\ calc.in[1].v = raw.v
    <2>1. /\ CalcHears /\ toCalc # <<>> /\ raw \in Raws /\ raw = toCalc[1] /\ raw.kind \in Data
          /\ 1 \in 1..Len(toCalc) /\ calc \in Calcs
      BY <1>0, <1>8, HearT, TailIs, CalcTypes DEF CalcCollects
    <2>e. end \in Calcs /\ (end = calc \/ end.doing = "nothing")
      BY <2>1, CalcIdleT
    <2>2. raw.v \in Virtuals /\ (raw.v.type # "VAR_CNTS" => raw.kind = "LAST" /\ raw.from = 0)
      BY <1>0, <2>1 DEF CommandsWhole, Raws
    <2>4. CASE UNCHANGED calc /\ raw.from > 0
      <3>1. ~Begins(cable, raw) /\ Aim' = Aim
        BY <2>2, <2>4, AimIs DEF Begins
      <3> QED
        BY <1>0, <1>1, <2>1, <2>4, <3>1, CalcTakes, WholeTail, CollectingKept, SayingKept
    <2>5. CASE \E p : Began(p)
      <3>1. PICK p : Began(p)
        BY <2>5
      <3>2. /\ calc' = [end EXCEPT !.in = <<p>>, !.out = <<>>, !.waiting = FALSE]
            /\ p.v = raw.v
            /\ raw.from > 0 => calc.in # <<>> /\ calc.in[1].v = raw.v
        BY <3>1
      <3>e. end = calc => calc.in = <<>> \/ raw.from > 0
        <4>1. raw.from \in Nat
          BY <2>1 DEF Raws
        <4> QED
          BY <4>1 DEF CalcIdle
      <3> HIDE DEF Began, raw, end
      <3>3. /\ calc'.in = <<p>> /\ calc'.out = <<>> /\ calc'.waiting = FALSE
            /\ calc'.doing = end.doing /\ calc'.slot = end.slot
        BY <2>e, <3>2 DEF Calcs
      <3>4. calc'.in # <<>> /\ calc'.in[1] = p
        BY <3>3
      <3>5. Saying'
        BY <3>3 DEF Saying
      <3>6. CommandsWhole'
        BY <1>0, <2>1, WholeTail
      <3>7. CASE raw.v.type = "RTS"
        <4>1. Begins(cable, raw)
          BY <2>1, <3>7 DEF Begins
        <4>2. Aim' \subseteq Named(cable, raw)
          BY <3>2, <3>4, <3>7, <4>1 DEF Aim, Collects, Named
        <4>3. InOrder' /\ IsMine'
          BY <1>0, <1>1, <2>1, <4>1, <4>2, CalcTakes DEF raw
        <4>4. Collecting'
          BY <3>2, <3>3, <3>4, <3>7 DEF Collecting, Collects
        <4> QED
          BY <3>5, <3>6, <4>3, <4>4
      <3>8. CASE raw.v.type # "RTS"
        <4>1. ~Begins(cable, raw)
          BY <3>8 DEF Begins
        <4>2. Aim' \subseteq Aim
          <5>1. ~Collects("RTS")'
            BY <3>2, <3>4, <3>8 DEF Collects
          <5>2. CASE end = calc
            <6>1. ~Collects("RTS")
              BY <3>2, <3>8, <3>e, <5>2 DEF Collects
            <6> QED
              BY <3>3, <5>1, <5>2, <6>1 DEF Aim
          <5>3. CASE end.doing = "nothing"
            BY <3>3, <5>1, <5>3 DEF Aim
          <5> QED
            BY <2>e, <5>2, <5>3
        <4>3. InOrder' /\ IsMine'
          BY <1>0, <1>1, <2>1, <4>1, <4>2, CalcTakes DEF raw
        <4>4. raw.v.type = "VAR_CNTS" => \A s \in Aim : raw.v.arg \in offered[s]
          <5> SUFFICES ASSUME raw.v.type = "VAR_CNTS", NEW s \in Aim
                       PROVE  raw.v.arg \in offered[s]
            OBVIOUS
          <5>1. raw.v.arg \in Held(cable, raw)
            BY <2>1, <2>2 DEF Held, Virtuals
          <5> QED
            BY <1>0, <2>1, <5>1, HeadIsOffered DEF InOrder, raw
        <4>5. Collecting'
          BY <1>1, <3>2, <3>3, <3>4, <3>8, <4>2, <4>4 DEF Collecting, Collects
        <4> QED
          BY <3>5, <3>6, <4>3, <4>5
      <3> QED
        BY <3>7, <3>8
    <2>6. (UNCHANGED calc /\ raw.from > 0) \/ \E p : Began(p)
      <3> DEFINE part == [v |-> raw.v, size |-> raw.to, whole |-> raw.kind = "LAST",
                          asking |-> FALSE]
                 asks == [part EXCEPT !.asking = TRUE]
      <3>1. part.v = raw.v /\ asks.v = raw.v
        OBVIOUS
      <3>2. \/ UNCHANGED calc /\ raw.from > 0
            \/ /\ raw.from > 0 => calc.in # <<>> /\ calc.in[1].v = raw.v
               /\ \/ calc' = [end EXCEPT !.in = <<part>>, !.out = <<>>, !.waiting = FALSE]
                  \/ calc' = [end EXCEPT !.in = <<asks>>, !.out = <<>>, !.waiting = FALSE]
        BY <1>8, Zenon DEF CalcCollects
      <3> HIDE DEF part, asks, raw, end
      <3> QED
        BY <3>1, <3>2
    <2> QED
      BY <2>4, <2>5, <2>6
  <1>9. CASE CalcAccepts
    <2>1. CalcHears /\ Head(toCalc).kind \notin Data /\ calc \in Calcs
      BY <1>0, <1>9, CalcTypes DEF CalcAccepts, Data
    <2>2. CASE calc.in # <<>> /\ calc.in[1].asking
      <3>1. calc' = [calc EXCEPT !.in[1].asking = FALSE] /\ calc.in \in Seq(Parts)
            /\ calc.in[1] \in Parts /\ 1 \in 1..Len(calc.in)
        BY <1>0, <1>9, <2>2, CalcTypes DEF CalcAccepts
      <3> DEFINE part == [calc.in[1] EXCEPT !.asking = FALSE]
                 parts == [calc.in EXCEPT ![1] = part]
      <3>2. part.v = calc.in[1].v /\ part.whole = calc.in[1].whole /\ part.asking = FALSE
            /\ part \in Parts
        BY <3>1 DEF Parts
      <3>3. calc' = [calc EXCEPT !.in = parts]
        BY <3>1
      <3> HIDE DEF part
      <3>4. parts[1] = part /\ parts # <<>>
        BY <3>1, <3>2, ExceptSeq, EmptySeq
      <3> HIDE DEF parts
      <3>5. /\ calc'.in = parts /\ calc'.out = calc.out /\ calc'.waiting = calc.waiting
            /\ calc'.doing = calc.doing /\ calc'.slot = calc.slot /\ calc'.said = calc.said
        BY <2>1, <3>3 DEF Calcs
      <3>6. /\ \A type : Collects(type)' <=> Collects(type)
            /\ calc'.in # <<>> /\ calc'.in[1].whole = calc.in[1].whole
            /\ ~calc'.in[1].asking /\ calc'.in[1].v = calc.in[1].v
        BY <2>2, <3>2, <3>4, <3>5 DEF Collects
      <3>7. Aim' = Aim
        BY <3>5, <3>6 DEF Aim
      <3>8. Collecting' /\ Saying'
        BY <1>0, <1>1, <2>2, <3>5, <3>6, <3>7 DEF Collecting, Saying
      <3> QED
        BY <1>5, <2>1, <3>7, <3>8
    <2>3. CASE ~(calc.in # <<>> /\ calc.in[1].asking)
      <3>1. UNCHANGED calc
        BY <1>9, <2>3 DEF CalcAccepts
      <3> QED
        BY <1>0, <1>1, <1>5, <2>1, <3>1, AimIs, CollectingKept, SayingKept
    <2> QED
      BY <2>2, <2>3
  <1>10. CASE CalcObeys
    <2> DEFINE v == calc.in[1].v
    <2>1. Says(v) /\ Stores(v) /\ calc.in # <<>> /\ UNCHANGED toCalc
      BY <1>10, Obeyed DEF CalcObeys, Complete, wire
    <2>2. Aim' \subseteq Aim
      BY <2>1 DEF Says, Stores, Aim, Collects
    <2>3. Collecting' /\ Saying'
      BY <2>1 DEF Says, Collecting, Saying, Collects
    <2> QED
      BY <1>6, <2>1, <2>2, <2>3
  <1>a. ASSUME UNCHANGED <<calc.in, calc.doing, calc.slot>>
        PROVE  Aim' = Aim /\ \A type : Collects(type)' <=> Collects(type)
    BY <1>a DEF Aim, Collects
  <1>11. CASE CalcSpeaks
    <2> DEFINE v == Head(calc.out)
    <2>1. /\ calc.out # <<>> /\ calc \in Calcs /\ v \in Virtuals /\ v.size \in Nat /\ v = calc.out[1]
          /\ 1 \in 1..Len(calc.out) /\ UNCHANGED toCalc
      BY <1>0, <1>11, CalcTypes, TailIs DEF CalcSpeaks
    <2>2. PICK n \in Nat : /\ calc' = [calc EXCEPT !.said = n, !.waiting = TRUE]
                           /\ v.type # "VAR_CNTS" => n >= v.size
      <3>1. CASE calc' = [calc EXCEPT !.said = v.size, !.waiting = TRUE]
        <4>1. v.size >= v.size
          BY <2>1
        <4> HIDE DEF v
        <4> QED
          BY <2>1, <3>1, <4>1
      <3>2. CASE calc' = [calc EXCEPT !.said = v.size \div 2, !.waiting = TRUE] /\ v.size > CommandSize
        <4>1. v.type = "VAR_CNTS"
          BY <1>0, <2>1, <3>2 DEF Saying
        <4>2. v.size \div 2 \in Nat
          BY <2>1
        <4> QED
          BY <3>2, <4>1, <4>2
      <3> QED
        BY <1>11, <3>1, <3>2 DEF CalcSpeaks
    <2>3. /\ calc'.in = calc.in /\ calc'.doing = calc.doing /\ calc'.slot = calc.slot
          /\ calc'.out = calc.out /\ calc'.said = n
      BY <2>1, <2>2 DEF Calcs
    <2>4. Aim' = Aim /\ \A type : Collects(type)' <=> Collects(type)
      BY <1>a, <2>3
    <2>5. Collecting'
      BY <1>0, <1>1, <2>3, <2>4 DEF Collecting
    <2>6. Saying'
      BY <1>0, <2>1, <2>2, <2>3 DEF Saying
    <2> QED
      BY <1>6, <2>1, <2>4, <2>5, <2>6
  <1>12. CASE CalcIsHeard
    <2>1. CalcHears /\ Head(toCalc).kind \notin Data /\ calc \in Calcs /\ calc.out \in Seq(Virtuals)
      BY <1>0, <1>12, CalcTypes DEF CalcIsHeard, Data
    <2>2. CASE UNCHANGED calc
      BY <1>0, <1>1, <1>5, <2>1, <2>2, AimIs, CollectingKept, SayingKept
    <2>3. CASE calc' = [calc EXCEPT !.waiting = FALSE]
      <3>1. /\ calc'.in = calc.in /\ calc'.doing = calc.doing /\ calc'.slot = calc.slot
            /\ calc'.out = calc.out /\ calc'.waiting = FALSE
        BY <2>1, <2>3 DEF Calcs
      <3>2. Aim' = Aim /\ \A type : Collects(type)' <=> Collects(type)
        BY <1>a, <3>1
      <3>3. Collecting' /\ Saying'
        BY <1>0, <1>1, <3>1, <3>2 DEF Collecting, Saying
      <3> QED
        BY <1>5, <2>1, <3>2, <3>3
    <2>4. CASE /\ calc.waiting
               /\ calc' = [calc EXCEPT !.waiting = FALSE, !.said = 0, !.out = Tail(@)]
      <3>1. /\ calc'.in = calc.in /\ calc'.doing = calc.doing /\ calc'.slot = calc.slot
            /\ calc'.out = Tail(calc.out) /\ calc'.waiting = FALSE
        BY <2>1, <2>4 DEF Calcs
      <3>2. Aim' = Aim /\ \A type : Collects(type)' <=> Collects(type)
        BY <1>a, <3>1
      <3>3. calc.out # <<>> /\ calc.in = <<>>
        BY <1>0, <2>4 DEF CalcT, Collecting
      <3>4. Collecting'
        BY <1>0, <1>1, <3>1, <3>2, <3>3 DEF Collecting
      <3>5. Saying'
        BY <1>0, <2>1, <3>1, <3>3, TailIs DEF Saying
      <3> QED
        BY <1>5, <2>1, <3>2, <3>4, <3>5
    <2> QED
      BY <1>12, <2>2, <2>3, <2>4 DEF CalcIsHeard
  <1>13. CASE CalcStops
    <2>1. CommandsWhole'
      BY <1>0, <1>13 DEF CalcStops, CommandsWhole
    <2> QED
      BY <1>0, <1>1, <1>4, <1>13, <2>1, CalcStopsSafe DEF CalcStops
  <1> QED
    BY <1>7, <1>8, <1>9, <1>10, <1>11, <1>12, <1>13 DEF DusbCalc

LEMMA UsbNextSafe ==
  ASSUME TypeInv, SafeInv, OnDusb(DusbNext)
  PROVE  SafeInv'
  <1>0. /\ cable = "USB" /\ UNCHANGED cable /\ CommonT /\ UsbT /\ OpT /\ StoreT
        /\ OfferedOk /\ InOrder /\ IsMine /\ UsbShape /\ UsbSafe
    BY DEF OnDusb, TypeInv, CommonT, SafeInv, UsbSafe
  <1>1. CASE DusbBegin
    <2>1. PICK kind, x, c, first :
             /\ first \in {"sizeReq", "RTS", "VAR_REQ"}
             /\ (kind = "send" => x \in Slots /\ c \in Contents)
             /\ Begin(kind, x, c, first)
      <3>1. CASE Begin("ready", Absent, Absent, "sizeReq")
        BY <3>1
      <3>2. CASE \E s \in Slots, c \in Contents : Begin("send", s, c, "RTS")
        BY <3>2
      <3>3. CASE \E s \in Slots : Begin("recv", s, Absent, "VAR_REQ")
        BY <3>3
      <3> QED
        BY <1>1, <3>1, <3>2, <3>3 DEF DusbBegin
    <2>2. OfferedOk' /\ InOrder'
      BY <1>0, <2>1, BeginSafe
    <2>3. /\ at = "idle" /\ at' \in {"sizeReq", "RTS", "VAR_REQ"}
          /\ UNCHANGED <<toCalc, calc, cable, out, in>>
      BY <1>0, <1>1, <2>1 DEF Begin, wire, calculator, DusbBegin, dusbVars
    <2>4. out = Fresh
      BY <1>0, <2>3 DEF UsbT, OutT, Sends
    <2>5. IsMine' /\ CommandsWhole' /\ Saying' /\ Sending'
      BY <1>0, <2>3, <2>4
      DEF IsMine, HasBegun, UsbShape, CommandsWhole, Saying, Sending, Fresh, Awaits
    <2>6. Collecting'
      <3>1. \A s \in Slots : offered[s] \subseteq offered'[s]
        BY <1>0, <2>1 DEF Begin, OfferedOk
      <3>2. Aim' = Aim /\ Aim \subseteq Slots
        BY <2>3, AimIs
      <3> QED
        BY <1>0, <2>3, <3>1, <3>2 DEF UsbShape, Collecting, Collects
    <2> QED
      BY <1>0, <2>2, <2>5, <2>6 DEF SafeInv, UsbShape
  <1>2. CASE DusbHost
    BY <1>0, <1>2, UsbHostSafe DEF SafeInv, UsbSafe
  <1>3. CASE DusbCalc
    BY <1>0, <1>3, UsbCalcSafe DEF SafeInv, UsbSafe
  <1> QED
    BY <1>1, <1>2, <1>3 DEF OnDusb, DusbNext

LEMMA NextSafe ==
  ASSUME TypeInv, SafeInv, [Next]_vars
  PROVE  SafeInv'
  <1>1. CASE UNCHANGED vars
    <2>1. UNCHANGED <<op, at, got, toCalc, calc, offered, cable, out, in>>
      BY <1>1 DEF vars, linkVars, dusbVars, wire, calculator
    <2>2. Aim' = Aim
      BY <2>1, AimIs
    <2> QED
      BY <2>1, <2>2
      DEF SafeInv, OfferedOk, InOrder, IsMine, HasBegun, SlvShape, UsbShape, CommandsWhole,
          Collecting, Collects, Saying, Sending
  <1> QED
    BY <1>1, SlvSafe, UsbNextSafe DEF Next

LEMMA InitSafe ==
  ASSUME Init
  PROVE  SafeInv
  <1>1. /\ op = NoOp /\ at = "idle" /\ toCalc = <<>> /\ calc = CalcIdle
        /\ offered = [s \in Slots |-> {store[s], Absent}] /\ out = Fresh /\ in = Nothing
        /\ StoreT
    BY InitTyped DEF Init, LinkInit, DusbInit, TypeInv, CommonT
  <1>2. OfferedOk /\ IsMine /\ InOrder
    <2>1. OfferedOk
      BY <1>1 DEF OfferedOk, StoreT
    <2> QED
      BY <1>1, <2>1, QueueLost DEF IsMine, HasBegun, InOrder
  <1>3. SlvShape /\ UsbShape
    BY <1>1 DEF SlvShape, UsbShape, CommandsWhole, Collecting, Collects, Saying, Sending, CalcIdle,
                Sends, Nothing
  <1> QED
    BY <1>2, <1>3 DEF SafeInv

-----------------------------------------------------------------------------
(* Queues of named packets: the command over a SilverLink, the virtual      *)
(* packet a raw one is of over the direct cable                            *)

Name(k, p) == IF k = "SLV" THEN p.cmd ELSE IF p.kind \in Data THEN p.v.type ELSE p.kind
Arg(k, p) == IF k = "SLV" THEN p.arg ELSE p.v.arg

Without(k, q, names) == \A i \in 1..Len(q) : Name(k, q[i]) \notin names
AtMostOne(k, q, names) ==
    \A i, j \in 1..Len(q) : Name(k, q[i]) \in names /\ Name(k, q[j]) \in names => i = j
Carries(k, q, name, args) == \A i \in 1..Len(q) : Name(k, q[i]) = name => Arg(k, q[i]) \in args

\* Whatever is missing in one queue is missing in the other.
Thinner(k, q, r) ==
    /\ \A names : /\ Without(k, q, names) => Without(k, r, names)
                  /\ AtMostOne(k, q, names) => AtMostOne(k, r, names)
    /\ \A name, args : Carries(k, q, name, args) => Carries(k, r, name, args)

LEMMA ThinnerTail ==
  ASSUME NEW S, NEW q \in Seq(S), q # <<>>, NEW k
  PROVE  /\ Thinner(k, q, Tail(q))
         /\ \A names : Without(k, q, names) => Name(k, Head(q)) \notin names
         /\ \A names : AtMostOne(k, q, names) /\ Name(k, Head(q)) \in names =>
                          Without(k, Tail(q), names)
         /\ \A name, args : Carries(k, q, name, args) /\ Name(k, Head(q)) = name =>
                          Arg(k, Head(q)) \in args
  <1> DEFINE r == Tail(q)
  <1>1. /\ Len(q) \in Nat \ {0} /\ Head(q) = q[1] /\ Len(r) = Len(q) - 1
        /\ \A i \in 1..Len(r) : r[i] = q[i + 1] /\ i + 1 \in 1..Len(q) /\ i + 1 # 1
        /\ \A i, j \in 1..Len(r) : i + 1 = j + 1 => i = j
    BY TailIs
  <1> HIDE DEF r
  <1>2. Thinner(k, q, r)
    BY <1>1 DEF Thinner, Without, AtMostOne, Carries
  <1>3. \A names : Without(k, q, names) => Name(k, Head(q)) \notin names
    BY <1>1 DEF Without
  <1>4. \A names : AtMostOne(k, q, names) /\ Name(k, Head(q)) \in names => Without(k, r, names)
    BY <1>1 DEF AtMostOne, Without
  <1>5. \A name, args : Carries(k, q, name, args) /\ Name(k, Head(q)) = name =>
                          Arg(k, Head(q)) \in args
    BY <1>1 DEF Carries
  <1> QED
    BY <1>2, <1>3, <1>4, <1>5 DEF r

LEMMA WithoutTail ==
  ASSUME NEW S, NEW q \in Seq(S), q # <<>>, NEW k, NEW names, Without(k, Tail(q), names),
         Name(k, Head(q)) \notin names
  PROVE  Without(k, q, names)
  <1> DEFINE r == Tail(q)
  <1>1. /\ Len(q) \in Nat \ {0} /\ Head(q) = q[1] /\ Len(r) = Len(q) - 1
        /\ \A i \in 1..Len(r) : r[i] = q[i + 1]
    BY TailIs
  <1> HIDE DEF r
  <1>2. \A i \in 1..Len(q) : i = 1 \/ (i - 1 \in 1..Len(r) /\ r[i - 1] = q[i])
    BY <1>1
  <1>3. Without(k, r, names)
    BY DEF r
  <1> QED
    BY <1>1, <1>2, <1>3 DEF Without

LEMMA WithoutAppend ==
  ASSUME NEW S, NEW q \in Seq(S), NEW p \in S, NEW k, NEW names, Name(k, p) \in names
  PROVE  ~Without(k, Append(q, p), names)
  <1> DEFINE r == Append(q, p)
  <1>1. Len(q) \in Nat /\ Len(r) = Len(q) + 1 /\ r[Len(q) + 1] = p
    BY AppendIs
  <1> HIDE DEF r
  <1>2. ~Without(k, r, names)
    BY <1>1 DEF Without
  <1> QED
    BY <1>2 DEF r

LEMMA ThinnerFront ==
  ASSUME NEW S, NEW q \in Seq(S), q # <<>>, NEW k
  PROVE  Thinner(k, q, SubSeq(q, 1, Len(q) - 1))
  <1> DEFINE r == SubSeq(q, 1, Len(q) - 1)
  <1>1. /\ Len(q) \in Nat \ {0} /\ Len(r) = Len(q) - 1
        /\ \A i \in 1..(Len(q) - 1) : r[i] = q[i]
    BY FrontIs
  <1> HIDE DEF r
  <1>2. Thinner(k, q, r)
    BY <1>1 DEF Thinner, Without, AtMostOne, Carries
  <1> QED
    BY <1>2 DEF r

LEMMA ThinnerEmpty ==
  ASSUME NEW k
  PROVE  /\ \A q : Thinner(k, q, <<>>) /\ Thinner(k, q, q)
         /\ \A names : Without(k, <<>>, names) /\ AtMostOne(k, <<>>, names)
         /\ \A name, args : Carries(k, <<>>, name, args)
  BY DEF Thinner, Without, AtMostOne, Carries

LEMMA WithoutIsOne ==
  ASSUME NEW k, NEW q, NEW names, Without(k, q, names)
  PROVE  AtMostOne(k, q, names) /\ \A name, args : name \in names => Carries(k, q, name, args)
  BY DEF Without, AtMostOne, Carries

LEMMA NamedAppend ==
  ASSUME NEW S, NEW q \in Seq(S), NEW p \in S, NEW k
  PROVE  /\ \A names : Without(k, q, names) /\ Name(k, p) \notin names =>
                          Without(k, Append(q, p), names)
         /\ \A names : AtMostOne(k, q, names) /\ Name(k, p) \notin names =>
                          AtMostOne(k, Append(q, p), names)
         /\ \A names : Without(k, q, names) => AtMostOne(k, Append(q, p), names)
         /\ \A name, args : Carries(k, q, name, args) /\ (Name(k, p) = name => Arg(k, p) \in args) =>
                          Carries(k, Append(q, p), name, args)
  <1> DEFINE r == Append(q, p)
  <1>1. /\ Len(q) \in Nat /\ Len(r) = Len(q) + 1 /\ r[Len(q) + 1] = p
        /\ \A i \in 1..Len(q) : r[i] = q[i]
        /\ \A i \in 1..(Len(q) + 1) : i \in 1..Len(q) \/ i = Len(q) + 1
    BY AppendIs
  <1> HIDE DEF r
  <1>2. \A names : Without(k, q, names) /\ Name(k, p) \notin names => Without(k, r, names)
    BY <1>1 DEF Without
  <1>3. \A names : AtMostOne(k, q, names) /\ Name(k, p) \notin names => AtMostOne(k, r, names)
    BY <1>1 DEF AtMostOne
  <1>4. \A names : Without(k, q, names) => AtMostOne(k, r, names)
    BY <1>1 DEF AtMostOne, Without
  <1>5. \A name, args : Carries(k, q, name, args) /\ (Name(k, p) = name => Arg(k, p) \in args) =>
                          Carries(k, r, name, args)
    BY <1>1 DEF Carries
  <1> QED
    BY <1>2, <1>3, <1>4, <1>5 DEF r

LEMMA NamedDamaged ==
  ASSUME NEW q \in Seq(Packets), NEW r, Damages(q, r)
  PROVE  /\ \A names : /\ Without("SLV", q, names) => Without("SLV", r, names)
                       /\ AtMostOne("SLV", q, names) => AtMostOne("SLV", r, names)
         /\ \A name, args : Carries("SLV", q, name, args) /\ Damaged \in args =>
                               Carries("SLV", r, name, args)
         /\ r # <<>> /\ \A names : Without("SLV", r, names) => Without("SLV", q, names)
  <1>1. /\ r \in Seq(Packets) /\ Len(r) = Len(q) /\ Len(q) \in Nat \ {0}
        /\ \A i \in 1..Len(q) : i = 1 \/ r[i] = q[i]
        /\ r[1].cmd = q[1].cmd /\ r[1].arg = Damaged
    BY DamagedIs
  <1>2. \A i \in 1..Len(q) : /\ Name("SLV", r[i]) = Name("SLV", q[i])
                             /\ Arg("SLV", r[i]) \in {Damaged, Arg("SLV", q[i])}
    <2> SUFFICES ASSUME NEW i \in 1..Len(q)
                 PROVE  /\ Name("SLV", r[i]) = Name("SLV", q[i])
                        /\ Arg("SLV", r[i]) \in {Damaged, Arg("SLV", q[i])}
      OBVIOUS
    <2>1. CASE i = 1
      BY <1>1, <2>1 DEF Name, Arg
    <2>2. CASE r[i] = q[i]
      BY <2>2
    <2> QED
      BY <1>1, <2>1, <2>2
  <1>3. r # <<>>
    BY <1>1, EmptySeq
  <1>4. \A names : /\ Without("SLV", q, names) => Without("SLV", r, names)
                   /\ AtMostOne("SLV", q, names) => AtMostOne("SLV", r, names)
                   /\ Without("SLV", r, names) => Without("SLV", q, names)
    BY <1>1, <1>2 DEF Without, AtMostOne
  <1>5. \A name, args : Carries("SLV", q, name, args) /\ Damaged \in args =>
                           Carries("SLV", r, name, args)
    BY <1>1, <1>2 DEF Carries
  <1> QED
    BY <1>3, <1>4, <1>5

-----------------------------------------------------------------------------
(* A transfer that began clean over a SilverLink                           *)

StoreOk == store[op.slot] = op.content
Done == StoreOk /\ calc.doing # "taking"

SlvSend ==
    /\ Without("SLV", toCalc, {"RDY", "REQ", "CTS"})
    /\ Carries("SLV", toCalc, "XDP", {op.content, Damaged})
    /\ at \in {"RTS", "SKP", "ACK", "XDP"} =>
          Without("SLV", toCalc, {"RTS", "XDP"}) /\ Without("SLV", toHost, {"ACK"})
    /\ at = "RTS_ACK" =>
          /\ Without("SLV", toCalc, {"XDP"}) /\ AtMostOne("SLV", toCalc, {"RTS"})
          /\ AtMostOne("SLV", toHost, {"ACK"})
          /\ Without("SLV", toCalc, {"RTS"}) \/ Without("SLV", toHost, {"ACK"})
    /\ at = "XDP_ACK" =>
          Without("SLV", toCalc, {"RTS"}) /\ (Without("SLV", toHost, {"ACK"}) \/ Done)
    /\ at = "EOT" => Done /\ Without("SLV", toCalc, {"RTS"})

SlvRecv ==
    /\ Without("SLV", toCalc, {"RTS", "XDP", "RDY"})
    /\ Carries("SLV", toCalc, "REQ", {op.slot, Damaged})
    /\ at = "REQ" => toCalc = <<>> /\ toHost = <<>>
    /\ at = "REQ_ACK" =>
          /\ Without("SLV", toCalc, {"CTS"}) /\ AtMostOne("SLV", toCalc, {"REQ"})
          /\ Without("SLV", toCalc, {"REQ"}) \/ toHost = <<>>
    /\ at \notin {"REQ", "REQ_ACK"} => Without("SLV", toCalc, {"REQ"})
    /\ at # "REQ" /\ Without("SLV", toCalc, {"REQ"}) =>
          calc.doing # "taking" /\ (calc.doing = "giving" => calc.slot = op.slot)
    /\ Carries("SLV", toHost, "XDP", {store[op.slot], Damaged})
    /\ at = "ackXDP" => got = store[op.slot]

SlvClean ==
    cable = "SLV" /\ at # "idle" /\ op.clean =>
        (op.kind = "send" => SlvSend) /\ (op.kind = "recv" => SlvRecv)

LEMMA SlvSendAt ==
  ASSUME SlvAt, AtT, op.kind = "send", at # "idle"
  PROVE  at \in {"RTS", "RTS_ACK", "SKP", "ACK", "XDP", "XDP_ACK", "EOT"}
  BY DEF SlvAt, AtT, DbusPuts, DbusGets, ReadySteps, RecvSteps

LEMMA SlvHostSend ==
  ASSUME CommonT, SlvT, SlvSend, op.kind = "send", DbusHost, at' # "idle"
  PROVE  SlvSend'
  <1>0. /\ toCalc \in Seq(Packets) /\ toHost \in Seq(Packets) /\ AtT /\ SlvAt
        /\ op.slot \in Slots /\ op.content \in Contents
    BY DEF SlvT, SlvWire, CommonT, OpT
  <1>1. UNCHANGED <<op, calc, store>>
    BY DEF DbusHost, SendRDY, RecvReady, SendRTS, RecvRTSAck, RecvSKP, SendACK, SendXDP, RecvXDPAck,
           SendEOT, SendREQ, RecvREQAck, RecvVAR, AckVAR, SendCTS, RecvCTSAck, RecvXDP, AckXDP,
           DbusGivesUp, DbusSend, DbusExpect, DbusRecv, WriteFails, PutFails, ReadTimesOut, GoOn, Fail, Finish,
           calculator
  <1>2. Done' <=> Done
    BY <1>1 DEF Done, StoreOk
  <1>3. ASSUME NEW here, DbusRecv(here)
        PROVE  /\ Thinner("SLV", toHost, toHost') /\ toHost # <<>>
               /\ Without("SLV", toHost, {"ACK"}) => Heard.cmd # "ACK"
               /\ AtMostOne("SLV", toHost, {"ACK"}) /\ Heard.cmd = "ACK" =>
                     Without("SLV", toHost', {"ACK"})
    <2>1. toHost # <<>> /\ toHost' = Tail(toHost) /\ Heard = Head(toHost)
      BY <1>3 DEF DbusRecv, Heard
    <2>2. Name("SLV", Heard) = Heard.cmd
      BY DEF Name
    <2> QED
      BY <1>0, <2>1, <2>2, ThinnerTail
  <1>4. CASE SendRTS
    <2> DEFINE p == Packet("RTS", op.slot)
    <2>1. p \in Packets /\ Name("SLV", p) = "RTS"
      BY <1>0, PacketT DEF Packet, Name
    <2>2. /\ at = "RTS" /\ at' = "RTS_ACK" /\ toCalc' = Append(toCalc, p) /\ toHost' = toHost
      BY <1>4 DEF SendRTS, DbusSend, Put, GoOn
    <2> HIDE DEF p
    <2>3. /\ Without("SLV", toCalc', {"RDY", "REQ", "CTS"}) /\ Without("SLV", toCalc', {"XDP"})
          /\ AtMostOne("SLV", toCalc', {"RTS"})
          /\ Carries("SLV", toCalc', "XDP", {op.content, Damaged})
      <3>1. /\ Without("SLV", toCalc, {"RDY", "REQ", "CTS"}) /\ Without("SLV", toCalc, {"RTS", "XDP"})
            /\ Carries("SLV", toCalc, "XDP", {op.content, Damaged})
        BY <2>2 DEF SlvSend
      <3>2. Without("SLV", toCalc, {"RTS"}) /\ Without("SLV", toCalc, {"XDP"})
        BY <3>1 DEF Without
      <3> QED
        BY <1>0, <2>1, <2>2, <3>1, <3>2, NamedAppend
    <2>4. Without("SLV", toHost', {"ACK"}) /\ AtMostOne("SLV", toHost', {"ACK"})
      BY <2>2, WithoutIsOne DEF SlvSend
    <2> QED
      BY <1>1, <2>2, <2>3, <2>4 DEF SlvSend
  <1>a. Without("SLV", toCalc, {"RTS", "XDP"}) <=>
           Without("SLV", toCalc, {"RTS"}) /\ Without("SLV", toCalc, {"XDP"})
    BY DEF Without
  <1>5. CASE RecvRTSAck
    <2>1. /\ at = "RTS_ACK" /\ at' = "SKP" /\ Heard.cmd = "ACK" /\ DbusRecv("RTS_ACK")
          /\ toCalc' = toCalc
      BY <1>5 DEF RecvRTSAck, DbusExpect, DbusRecv, GoOn, Fail, Finish
    <2>2. Without("SLV", toHost', {"ACK"}) /\ ~Without("SLV", toHost, {"ACK"})
      BY <1>3, <2>1 DEF SlvSend
    <2>3. Without("SLV", toCalc, {"RTS", "XDP"})
      BY <1>a, <2>1, <2>2 DEF SlvSend
    <2> QED
      BY <1>1, <2>1, <2>2, <2>3 DEF SlvSend
  <1>6. CASE RecvSKP
    <2>1. at = "SKP" /\ at' = "ACK" /\ DbusRecv("SKP") /\ toCalc' = toCalc
      BY <1>6 DEF RecvSKP, DbusRecv, GoOn, Fail, Finish
    <2>2. Without("SLV", toHost', {"ACK"})
      BY <1>3, <2>1 DEF SlvSend, Thinner
    <2> QED
      BY <1>1, <2>1, <2>2 DEF SlvSend
  <1>7. CASE SendACK
    <2> DEFINE p == Packet("ACK", None)
    <2>1. p \in Packets /\ Name("SLV", p) = "ACK"
      BY PacketT DEF Packet, Name
    <2>2. at = "ACK" /\ at' = "XDP" /\ toCalc' = Append(toCalc, p) /\ toHost' = toHost
      BY <1>7 DEF SendACK, Put, GoOn, Fail, Finish
    <2> HIDE DEF p
    <2>3. /\ Without("SLV", toCalc', {"RDY", "REQ", "CTS"}) /\ Without("SLV", toCalc', {"RTS", "XDP"})
          /\ Carries("SLV", toCalc', "XDP", {op.content, Damaged})
      BY <1>0, <2>1, <2>2, NamedAppend DEF SlvSend
    <2> QED
      BY <1>1, <2>2, <2>3 DEF SlvSend
  <1>8. CASE SendXDP
    <2> DEFINE p == Packet("XDP", op.content)
    <2>1. p \in Packets /\ Name("SLV", p) = "XDP" /\ Arg("SLV", p) = op.content
      BY <1>0, PacketT DEF Packet, Name, Arg
    <2>2. at = "XDP" /\ at' = "XDP_ACK" /\ toCalc' = Append(toCalc, p) /\ toHost' = toHost
      BY <1>8 DEF SendXDP, DbusSend, Put, GoOn
    <2> HIDE DEF p
    <2>3. /\ Without("SLV", toCalc', {"RDY", "REQ", "CTS"}) /\ Without("SLV", toCalc', {"RTS"})
          /\ Carries("SLV", toCalc', "XDP", {op.content, Damaged})
      BY <1>0, <1>a, <2>1, <2>2, NamedAppend DEF SlvSend
    <2> QED
      BY <1>1, <2>2, <2>3 DEF SlvSend
  <1>9. CASE RecvXDPAck
    <2>1. /\ at = "XDP_ACK" /\ at' = "EOT" /\ Heard.cmd = "ACK" /\ DbusRecv("XDP_ACK")
          /\ toCalc' = toCalc
      BY <1>9 DEF RecvXDPAck, DbusExpect, DbusRecv, GoOn, Fail, Finish
    <2>2. ~Without("SLV", toHost, {"ACK"})
      BY <1>3, <2>1
    <2> QED
      BY <1>1, <1>2, <2>1, <2>2 DEF SlvSend
  <1> QED
    <2>1. at \in {"RTS", "RTS_ACK", "SKP", "ACK", "XDP", "XDP_ACK", "EOT"} \/ at = "idle"
      BY <1>0, SlvSendAt
    <2> QED
      BY <1>4, <1>5, <1>6, <1>7, <1>8, <1>9, <2>1
      DEF DbusHost, SendRDY, RecvReady, SendEOT, SendREQ, RecvREQAck, RecvVAR, AckVAR, SendCTS,
          RecvCTSAck, RecvXDP, AckXDP, DbusGivesUp, DbusSend, DbusExpect, DbusRecv, WriteFails, PutFails,
          ReadTimesOut, Fail, Finish

\* What the calculator does to the queue it reads from.
LEMMA SlvTurn ==
  ASSUME SlvWire, NEW cmd, CalcTurn(cmd)
  PROVE  /\ toCalc # <<>> /\ Head(toCalc).cmd = cmd /\ Head(toCalc) \in Packets
         /\ Thinner("SLV", toCalc, toCalc')
         /\ \A names : cmd \in names => ~Without("SLV", toCalc, names)
         /\ \A names : cmd \in names /\ AtMostOne("SLV", toCalc, names) =>
                          Without("SLV", toCalc', names)
         /\ \A args : Carries("SLV", toCalc, cmd, args) => Head(toCalc).arg \in args
         /\ UNCHANGED <<op, at, got>>
  <1>1. /\ toCalc \in Seq(Packets) /\ toCalc # <<>> /\ toCalc' = Tail(toCalc)
        /\ Head(toCalc).cmd = cmd /\ UNCHANGED <<op, at, got>>
    BY DEF SlvWire, CalcTurn, CalcHears
  <1>2. Name("SLV", Head(toCalc)) = cmd /\ Arg("SLV", Head(toCalc)) = Head(toCalc).arg
    BY <1>1 DEF Name, Arg
  <1>3. Head(toCalc) \in Packets
    BY <1>1, TailIs
  <1> DEFINE h == Head(toCalc)
  <1>4. /\ Thinner("SLV", toCalc, Tail(toCalc))
        /\ \A names : Without("SLV", toCalc, names) => Name("SLV", h) \notin names
        /\ \A names : AtMostOne("SLV", toCalc, names) /\ Name("SLV", h) \in names =>
                         Without("SLV", Tail(toCalc), names)
        /\ \A name, args : Carries("SLV", toCalc, name, args) /\ Name("SLV", h) = name =>
                         Arg("SLV", h) \in args
    BY <1>1, ThinnerTail
  <1>5. h \in Packets /\ h.cmd = cmd /\ Name("SLV", h) = cmd /\ Arg("SLV", h) = h.arg
    BY <1>1, <1>2, <1>3
  <1> HIDE DEF h
  <1>6. /\ \A names : cmd \in names => ~Without("SLV", toCalc, names)
        /\ \A names : cmd \in names /\ AtMostOne("SLV", toCalc, names) =>
                         Without("SLV", toCalc', names)
        /\ \A args : Carries("SLV", toCalc, cmd, args) => h.arg \in args
        /\ Thinner("SLV", toCalc, toCalc')
    BY <1>1, <1>4, <1>5
  <1> QED
    BY <1>1, <1>5, <1>6 DEF h

\* One packet to the program, or two.
LEMMA SlvSays ==
  ASSUME SlvWire, NEW a \in Packets, NEW b \in Packets, CalcSays(<<a>>) \/ CalcSays(<<a, b>>)
  PROVE  /\ \A names : /\ Without("SLV", toHost, names) /\ a.cmd \notin names /\ b.cmd \notin names =>
                             Without("SLV", toHost', names)
                       /\ Without("SLV", toHost, names) /\ b.cmd \notin names =>
                             AtMostOne("SLV", toHost', names)
         /\ \A name, args : /\ Carries("SLV", toHost, name, args)
                            /\ a.cmd = name => a.arg \in args
                            /\ b.cmd = name => b.arg \in args
                            => Carries("SLV", toHost', name, args)
  <1>0. toHost \in Seq(Packets)
    BY DEF SlvWire
  <1>1. \A p : Name("SLV", p) = p.cmd /\ Arg("SLV", p) = p.arg
    BY DEF Name, Arg
  <1> DEFINE q == Append(toHost, a)
  <1>2. q \in Seq(Packets) /\ (toHost' = q \/ toHost' = Append(q, b))
    <2>1. q \in Seq(Packets) /\ toHost \o <<a>> = q
      BY <1>0, AppendIs
    <2>2. toHost \o <<a, b>> = Append(q, b)
      <3> DEFINE r == toHost \o <<a, b>>
      <3>1. Len(toHost) \in Nat /\ Len(q) = Len(toHost) + 1 /\ q[Len(toHost) + 1] = a
            /\ \A i \in 1..Len(toHost) : q[i] = toHost[i]
        BY <1>0, AppendIs
      <3>2. <<a, b>> \in Seq(Packets) /\ Len(<<a, b>>) = 2 /\ <<a, b>>[1] = a /\ <<a, b>>[2] = b
        OBVIOUS
      <3>3. r \in Seq(Packets) /\ Len(r) = Len(toHost) + 2
            /\ \A i \in 1..(Len(toHost) + 2) :
                  r[i] = IF i <= Len(toHost) THEN toHost[i] ELSE <<a, b>>[i - Len(toHost)]
        BY <1>0, <3>2, ConcatProperties
      <3> HIDE DEF q, r
      <3>4. /\ Append(q, b) \in Seq(Packets) /\ Len(Append(q, b)) = Len(q) + 1
            /\ Append(q, b)[Len(q) + 1] = b
            /\ \A i \in 1..Len(q) : Append(q, b)[i] = q[i]
        BY <2>1, AppendIs
      <3>5. \A i \in 1..Len(r) : r[i] = Append(q, b)[i]
        <4> SUFFICES ASSUME NEW i \in 1..Len(r) PROVE r[i] = Append(q, b)[i]
          OBVIOUS
        <4>1. CASE i \in 1..Len(toHost)
          BY SMTT(30), <3>1, <3>3, <3>4, <4>1
        <4>2. CASE i = Len(toHost) + 1
          <5>1. i - Len(toHost) = 1 /\ ~(i <= Len(toHost)) /\ i \in 1..(Len(toHost) + 2)
            BY <3>1, <4>2
          <5>2. r[i] = a
            BY <3>2, <3>3, <5>1
          <5> QED
            BY <3>1, <3>4, <4>2, <5>2
        <4>3. CASE i = Len(toHost) + 2
          <5>1. i - Len(toHost) = 2 /\ ~(i <= Len(toHost)) /\ i \in 1..(Len(toHost) + 2)
                /\ i = Len(q) + 1
            BY <3>1, <4>3
          <5>2. r[i] = b
            BY <3>2, <3>3, <5>1
          <5> QED
            BY <3>4, <5>1, <5>2
        <4> QED
          BY <3>1, <3>3, <4>1, <4>2, <4>3
      <3> QED
        <4>1. Len(r) = Len(Append(q, b))
          BY <3>1, <3>3, <3>4
        <4>2. r = Append(q, b)
          BY <3>3, <3>4, <3>5, <4>1, SeqEqual
        <4> QED
          BY <4>2 DEF r
    <2> HIDE DEF q
    <2> QED
      BY <2>1, <2>2 DEF CalcSays
  <1> HIDE DEF q
  <1>3. /\ \A names : Without("SLV", toHost, names) /\ a.cmd \notin names => Without("SLV", q, names)
        /\ \A names : Without("SLV", toHost, names) => AtMostOne("SLV", q, names)
        /\ \A name, args : Carries("SLV", toHost, name, args) /\ (a.cmd = name => a.arg \in args) =>
                              Carries("SLV", q, name, args)
    BY <1>0, <1>1, NamedAppend DEF q
  <1>4. CASE toHost' = q
    BY <1>3, <1>4
  <1>5. CASE toHost' = Append(q, b)
    <2>1. /\ \A names : Without("SLV", q, names) /\ b.cmd \notin names =>
                           Without("SLV", toHost', names)
          /\ \A names : AtMostOne("SLV", q, names) /\ b.cmd \notin names =>
                           AtMostOne("SLV", toHost', names)
          /\ \A name, args : Carries("SLV", q, name, args) /\ (b.cmd = name => b.arg \in args) =>
                                Carries("SLV", toHost', name, args)
      BY <1>1, <1>2, <1>5, NamedAppend
    <2> QED
      BY <1>3, <2>1
  <1> QED
    BY <1>2, <1>4, <1>5

LEMMA SlvSendKept ==
  ASSUME SlvSend, UNCHANGED <<op, at>>, Thinner("SLV", toCalc, toCalc'),
         Thinner("SLV", toHost, toHost'), Done => Done'
  PROVE  SlvSend'
  BY DEF SlvSend, Thinner

LEMMA SlvCalcSend ==
  ASSUME CommonT, SlvT, cable = "SLV", IsMine, SlvShape, SlvSend, op.kind = "send", at # "idle",
         DbusCalc
  PROVE  SlvSend'
  <1>0. /\ SlvWire /\ toCalc \in Seq(Packets) /\ toHost \in Seq(Packets) /\ CalcT /\ StoreT
        /\ op.slot \in Slots /\ op.content \in Contents
        /\ at \in {"RTS", "RTS_ACK", "SKP", "ACK", "XDP", "XDP_ACK", "EOT"}
    BY SlvSendAt DEF SlvT, SlvWire, CommonT, OpT
  <1>a. /\ UNCHANGED toHost => Thinner("SLV", toHost, toHost')
        /\ UNCHANGED toCalc => Thinner("SLV", toCalc, toCalc')
        /\ UNCHANGED <<op, store, calc>> => (Done => Done')
    BY DEF Thinner, Done, StoreOk
  <1>1. CASE CalcOnRDY \/ CalcOnREQ \/ CalcOnCTS
    <2>1. PICK cmd \in {"RDY", "REQ", "CTS"} : CalcTurn(cmd)
      BY <1>1 DEF CalcOnRDY, CalcOnREQ, CalcOnCTS
    <2>2. ~Without("SLV", toCalc, {"RDY", "REQ", "CTS"})
      BY <1>0, <2>1, SlvTurn
    <2> QED
      BY <2>2 DEF SlvSend
  <1>2. CASE CalcOnEOT
    <2>1. Thinner("SLV", toCalc, toCalc') /\ UNCHANGED <<op, at, store, calc, toHost>>
      <3>1. CalcTurn("EOT") /\ UNCHANGED <<store, calc, toHost>>
        BY <1>2 DEF CalcOnEOT, calculator
      <3> QED
        BY <1>0, <3>1, SlvTurn
    <2> QED
      BY <1>a, <2>1, SlvSendKept
  <1>3. CASE CalcOnACK
    <2>1. Thinner("SLV", toCalc, toCalc') /\ UNCHANGED <<op, at, calc, toHost>>
      <3>1. CalcTurn("ACK") /\ UNCHANGED <<calc, toHost>>
        BY <1>3 DEF CalcOnACK
      <3> QED
        BY <1>0, <3>1, SlvTurn
    <2>2. Done => Done'
      BY <1>3, <2>1 DEF CalcOnACK, Done, StoreOk
    <2> QED
      BY <1>a, <2>1, <2>2, SlvSendKept
  <1>4. CASE CalcOnXDP
    <2> DEFINE c == Head(toCalc).arg
    <2>0. CalcTurn("XDP")
      BY <1>4 DEF CalcOnXDP
    <2>1. /\ Thinner("SLV", toCalc, toCalc') /\ UNCHANGED <<op, at>>
          /\ ~Without("SLV", toCalc, {"RTS", "XDP"}) /\ ~Without("SLV", toCalc, {"XDP"})
          /\ c \in {op.content, Damaged}
      BY <1>0, <2>0, SlvTurn DEF SlvSend
    <2>2. at \in {"XDP_ACK", "EOT"} /\ Without("SLV", toCalc, {"RTS"})
      BY <1>0, <2>1 DEF SlvSend
    <2>3. CASE calc.doing # "taking"
      <3>1. UNCHANGED <<store, calc, toHost>>
        BY <1>4, <2>3 DEF CalcOnXDP, calculator
      <3> QED
        BY <1>a, <2>1, <3>1, SlvSendKept
    <2>4. CASE calc.doing = "taking"
      <3>1. at = "XDP_ACK" /\ Without("SLV", toHost, {"ACK"})
        BY <2>2, <2>4 DEF SlvSend, Done
      <3>2. CASE c = Damaged
        <4>1. CalcSays(<<Packet("ERR", None)>>)
          BY <1>4, <2>4, <3>2 DEF CalcOnXDP, ErrReply
        <4>2. Packet("ERR", None) \in Packets /\ Packet("ERR", None).cmd \notin {"ACK"}
          BY PacketT DEF Packet
        <4>3. Without("SLV", toHost', {"ACK"})
          BY <1>0, <3>1, <4>1, <4>2, SlvSays
        <4> QED
          BY <2>1, <2>2, <3>1, <4>3 DEF SlvSend, Thinner
      <3>3. CASE c # Damaged
        <4>1. store' = [store EXCEPT ![calc.slot] = c] /\ calc' = CalcIdle
          BY <1>4, <2>4, <3>3 DEF CalcOnXDP
        <4>2. calc.slot \in Slots /\ Aim = {calc.slot}
          BY <1>0, <2>4, SlvAim DEF CalcT
        <4>3. NoneAmong("SLV", toCalc, 1, Len(toCalc))
          BY <2>2 DEF NoneAmong, Without, Begins, Name
        <4>4. Aim \subseteq {op.slot}
          <5>1. Mine(cable, toCalc, Aim, op.slot)
            BY <3>1 DEF IsMine, HasBegun
          <5>2. 0 \in 0..Len(toCalc)
            BY <1>0, TailIs, EmptySeq
          <5> QED
            BY <5>1, <5>2, <4>3 DEF Mine, Opened
        <4>5. Done'
          BY <1>0, <2>1, <3>3, <4>1, <4>2, <4>4 DEF Done, StoreOk, StoreT, CalcIdle
        <4> QED
          BY <2>1, <2>2, <3>1, <4>5 DEF SlvSend, Thinner
      <3> QED
        BY <3>2, <3>3
    <2> QED
      BY <2>3, <2>4
  <1>5. CASE CalcOnRTS
    <2>0. CalcTurn("RTS")
      BY <1>5 DEF CalcOnRTS
    <2>1. /\ Thinner("SLV", toCalc, toCalc') /\ UNCHANGED <<op, at>>
          /\ ~Without("SLV", toCalc, {"RTS", "XDP"}) /\ ~Without("SLV", toCalc, {"RTS"})
          /\ AtMostOne("SLV", toCalc, {"RTS"}) => Without("SLV", toCalc', {"RTS"})
      BY <1>0, <2>0, SlvTurn
    <2>2. at = "RTS_ACK" /\ Without("SLV", toHost, {"ACK"}) /\ Without("SLV", toCalc', {"RTS"})
      BY <1>0, <2>1 DEF SlvSend
    <2>3. PICK a \in Packets, b \in Packets :
             b.cmd # "ACK" /\ (CalcSays(<<a>>) \/ CalcSays(<<a, b>>))
      <3>1. /\ Packet("ERR", None) \in Packets /\ Packet("ACK", None) \in Packets
            /\ Packet("CTS", None) \in Packets /\ \A why \in Refusals : Packet("SKP", why) \in Packets
        BY PacketT
      <3>2. \A cmd, arg : Packet(cmd, arg).cmd = cmd
        BY DEF Packet
      <3> QED
        BY <1>5, <3>1, <3>2 DEF CalcOnRTS, ErrReply
    <2>4. AtMostOne("SLV", toHost', {"ACK"})
      <3>1. b.cmd \notin {"ACK"}
        BY <2>3
      <3> QED
        BY <1>0, <2>2, <2>3, <3>1, SlvSays
    <2>5. AtMostOne("SLV", toCalc', {"RTS"})
      BY <2>2, WithoutIsOne
    <2> QED
      BY <2>1, <2>2, <2>4, <2>5 DEF SlvSend, Thinner
  <1>6. CASE Damage
    <2>1. UNCHANGED <<op, at, calc, store>>
      BY <1>6 DEF Damage, calculator
    <2>2. CASE Damages(toCalc, toCalc') /\ UNCHANGED toHost
      <3>1. /\ \A names : /\ Without("SLV", toCalc, names) => Without("SLV", toCalc', names)
                          /\ AtMostOne("SLV", toCalc, names) => AtMostOne("SLV", toCalc', names)
            /\ \A name, args : Carries("SLV", toCalc, name, args) /\ Damaged \in args =>
                                  Carries("SLV", toCalc', name, args)
        BY <1>0, <2>2, NamedDamaged
      <3> QED
        BY <2>1, <2>2, <3>1 DEF SlvSend, Done, StoreOk
    <2>3. CASE Damages(toHost, toHost') /\ UNCHANGED toCalc
      <3>1. \A names : /\ Without("SLV", toHost, names) => Without("SLV", toHost', names)
                       /\ AtMostOne("SLV", toHost, names) => AtMostOne("SLV", toHost', names)
        BY <1>0, <2>3, NamedDamaged
      <3> QED
        BY <2>1, <2>3, <3>1 DEF SlvSend, Done, StoreOk
    <2> QED
      BY <1>6, <2>2, <2>3 DEF Damage, Damages
  <1>7. CASE CalcStops
    <2>1. Thinner("SLV", toCalc, toCalc') /\ Thinner("SLV", toHost, toHost')
      <3>1. CASE toCalc' = <<>> /\ UNCHANGED toHost
        BY <1>a, <3>1, ThinnerEmpty
      <3>2. CASE /\ toHost # <<>> /\ toHost' = SubSeq(toHost, 1, Len(toHost) - 1)
                 /\ UNCHANGED toCalc
        BY <1>0, <1>a, <3>2, ThinnerFront
      <3> QED
        BY <1>7, <3>1, <3>2 DEF CalcStops
    <2>2. UNCHANGED <<op, at, store>> /\ calc' = CalcIdle
      BY <1>7 DEF CalcStops
    <2>3. Done => Done'
      BY <2>2 DEF Done, StoreOk, CalcIdle
    <2> QED
      BY <2>1, <2>2, <2>3, SlvSendKept
  <1> QED
    BY <1>1, <1>2, <1>3, <1>4, <1>5, <1>6, <1>7 DEF DbusCalc

LEMMA SlvRecvAt ==
  ASSUME SlvAt, AtT, op.kind = "recv", at # "idle"
  PROVE  at \in {"REQ", "REQ_ACK", "VAR", "ackVAR", "CTS", "CTS_ACK", "getXDP", "ackXDP"}
  BY DEF SlvAt, AtT, DbusPuts, DbusGets, ReadySteps, SendSteps

\* Once the request has been answered.
Asked == at \notin {"idle", "REQ", "REQ_ACK"}
SlvAsked ==
    /\ Without("SLV", toCalc, {"RTS", "XDP", "RDY"}) /\ Without("SLV", toCalc, {"REQ"})
    /\ calc.doing # "taking" /\ (calc.doing = "giving" => calc.slot = op.slot)
    /\ Carries("SLV", toHost, "XDP", {store[op.slot], Damaged})
    /\ at = "ackXDP" => got = store[op.slot]

LEMMA SlvAskedIs ==
  /\ Asked => (SlvRecv <=> SlvAsked)
  /\ at = "REQ_ACK" /\ SlvRecv /\ toHost # <<>> =>
        /\ Without("SLV", toCalc, {"RTS", "XDP", "RDY"}) /\ Without("SLV", toCalc, {"REQ"})
        /\ calc.doing # "taking" /\ (calc.doing = "giving" => calc.slot = op.slot)
        /\ Carries("SLV", toHost, "XDP", {store[op.slot], Damaged})
  <1>1. Without("SLV", toCalc, {"REQ"}) => Carries("SLV", toCalc, "REQ", {op.slot, Damaged})
    BY WithoutIsOne
  <1> QED
    BY <1>1 DEF Asked, SlvAsked, SlvRecv

LEMMA SlvHostRecv ==
  ASSUME CommonT, SlvT, SlvRecv, op.kind = "recv", DbusHost, at' # "idle"
  PROVE  SlvRecv'
  <1>0. /\ toCalc \in Seq(Packets) /\ toHost \in Seq(Packets) /\ AtT /\ SlvAt /\ op.slot \in Slots
    BY DEF SlvT, SlvWire, CommonT, OpT
  <1>1. UNCHANGED <<op, calc, store>>
    BY DEF DbusHost, SendRDY, RecvReady, SendRTS, RecvRTSAck, RecvSKP, SendACK, SendXDP, RecvXDPAck,
           SendEOT, SendREQ, RecvREQAck, RecvVAR, AckVAR, SendCTS, RecvCTSAck, RecvXDP, AckXDP,
           DbusGivesUp, DbusSend, DbusExpect, DbusRecv, WriteFails, PutFails, ReadTimesOut, GoOn, Fail, Finish,
           calculator
  <1>2. ASSUME NEW here, DbusRecv(here)
        PROVE  /\ Thinner("SLV", toHost, toHost') /\ toHost # <<>>
               /\ \A args : Carries("SLV", toHost, "XDP", args) /\ Heard.cmd = "XDP" =>
                               Heard.arg \in args
    <2>1. toHost # <<>> /\ toHost' = Tail(toHost) /\ Heard = Head(toHost)
      BY <1>2 DEF DbusRecv, Heard
    <2>2. Name("SLV", Heard) = Heard.cmd /\ Arg("SLV", Heard) = Heard.arg
      BY DEF Name, Arg
    <2>3. /\ Thinner("SLV", toHost, toHost')
          /\ \A name, args : Carries("SLV", toHost, name, args) /\ Name("SLV", Heard) = name =>
                                Arg("SLV", Heard) \in args
      BY <1>0, <2>1, ThinnerTail
    <2> QED
      BY <2>1, <2>2, <2>3
  <1>3. CASE SendREQ
    <2> DEFINE p == Packet("REQ", op.slot)
    <2>1. p \in Packets /\ Name("SLV", p) = "REQ" /\ Arg("SLV", p) = op.slot
      BY <1>0, PacketT DEF Packet, Name, Arg
    <2>2. /\ at = "REQ" /\ at' = "REQ_ACK" /\ toCalc' = Append(toCalc, p) /\ toHost' = toHost
      BY <1>3 DEF SendREQ, DbusSend, Put, GoOn
    <2> HIDE DEF p
    <2>3. /\ toCalc = <<>> /\ toHost' = <<>> /\ Without("SLV", toCalc, {"REQ"})
          /\ Without("SLV", toCalc, {"CTS"})
      BY <2>2, ThinnerEmpty DEF SlvRecv
    <2>4. /\ Without("SLV", toCalc', {"RTS", "XDP", "RDY"}) /\ Without("SLV", toCalc', {"CTS"})
          /\ AtMostOne("SLV", toCalc', {"REQ"}) /\ ~Without("SLV", toCalc', {"REQ"})
          /\ Carries("SLV", toCalc', "REQ", {op.slot, Damaged})
      <3>1. ~Without("SLV", toCalc', {"REQ"})
        BY <1>0, <2>1, <2>2, WithoutAppend
      <3>2. /\ Without("SLV", toCalc, {"RTS", "XDP", "RDY"})
            /\ Carries("SLV", toCalc, "REQ", {op.slot, Damaged})
        BY DEF SlvRecv
      <3>3. Without("SLV", toCalc', {"RTS", "XDP", "RDY"}) /\ Without("SLV", toCalc', {"CTS"})
        BY <1>0, <2>1, <2>2, <2>3, <3>2, NamedAppend
      <3>4. AtMostOne("SLV", toCalc', {"REQ"})
        BY <1>0, <2>1, <2>2, <2>3, NamedAppend
      <3>5. Carries("SLV", toCalc', "REQ", {op.slot, Damaged})
        BY <1>0, <2>1, <2>2, <3>2, NamedAppend
      <3> QED
        BY <3>1, <3>3, <3>4, <3>5
    <2>5. Carries("SLV", toHost', "XDP", {store[op.slot], Damaged})
      BY <2>3, ThinnerEmpty
    <2> QED
      BY <1>1, <2>2, <2>3, <2>4, <2>5 DEF SlvRecv
  <1>4. ASSUME UNCHANGED toCalc, NEW here, DbusRecv(here), at = "REQ_ACK" \/ Asked, Asked',
               at' = "ackXDP" => got' = store[op.slot]
        PROVE  SlvRecv'
    <2>1. toHost # <<>> /\ Thinner("SLV", toHost, toHost')
      BY <1>2, <1>4
    <2>2. SlvAsked'
      <3>1. /\ Without("SLV", toCalc, {"RTS", "XDP", "RDY"}) /\ Without("SLV", toCalc, {"REQ"})
            /\ calc.doing # "taking" /\ (calc.doing = "giving" => calc.slot = op.slot)
            /\ Carries("SLV", toHost, "XDP", {store[op.slot], Damaged})
        <4>1. CASE at = "REQ_ACK"
          BY <2>1, <4>1, SlvAskedIs
        <4>2. CASE Asked
          BY <4>2, SlvAskedIs DEF SlvAsked
        <4> QED
          BY <1>4, <4>1, <4>2
      <3> QED
        BY <1>1, <1>4, <2>1, <3>1 DEF SlvAsked, Thinner
    <2>3. Asked' => (SlvRecv' <=> SlvAsked')
      BY SlvAskedIs, PTL
    <2> QED
      BY <1>4, <2>2, <2>3
  <1>5. CASE RecvREQAck
    <2>1. /\ UNCHANGED toCalc /\ DbusRecv("REQ_ACK") /\ at = "REQ_ACK" /\ at' = "VAR"
      BY <1>5 DEF RecvREQAck, DbusExpect, DbusRecv, GoOn, Fail, Finish
    <2> QED
      BY <1>4, <2>1 DEF Asked
  <1>6. CASE RecvVAR
    <2>1. /\ UNCHANGED toCalc /\ DbusRecv("VAR") /\ at = "VAR" /\ at' = "ackVAR"
      BY <1>6 DEF RecvVAR, DbusExpect, DbusRecv, GoOn, Fail, Finish
    <2> QED
      BY <1>4, <2>1 DEF Asked
  <1>7. CASE RecvCTSAck
    <2>1. /\ UNCHANGED toCalc /\ DbusRecv("CTS_ACK") /\ at = "CTS_ACK" /\ at' = "getXDP"
      BY <1>7 DEF RecvCTSAck, DbusRecv, GoOn, Fail, Finish
    <2> QED
      BY <1>4, <2>1 DEF Asked
  <1>8. CASE RecvXDP
    <2>1. /\ UNCHANGED toCalc /\ DbusRecv("getXDP") /\ at = "getXDP" /\ at' = "ackXDP"
          /\ Heard.cmd = "XDP" /\ Heard.arg # Damaged /\ got' = Heard.arg
      BY <1>8 DEF RecvXDP, DbusRecv, Intact, GoOn, Fail, Finish
    <2>2. Asked
      BY <2>1 DEF Asked
    <2>3. Heard.arg \in {store[op.slot], Damaged}
      BY <1>2, <2>1, <2>2, SlvAskedIs DEF SlvAsked
    <2> QED
      BY <1>4, <2>1, <2>2, <2>3 DEF Asked
  <1>9. CASE AckVAR \/ SendCTS
    <2>1. PICK p \in Packets :
             /\ p.cmd \in {"ACK", "CTS"} /\ toCalc' = Append(toCalc, p) /\ UNCHANGED <<toHost, got>>
             /\ at \in {"ackVAR", "CTS"} /\ at' \in {"CTS", "CTS_ACK"}
      <3>1. /\ Packet("ACK", None) \in Packets /\ Packet("ACK", None).cmd = "ACK"
            /\ Packet("CTS", None) \in Packets /\ Packet("CTS", None).cmd = "CTS"
        BY PacketT DEF Packet
      <3> QED
        BY <1>9, <3>1 DEF AckVAR, SendCTS, DbusSend, Put, GoOn
    <2>2. Name("SLV", p) \in {"ACK", "CTS"} /\ Asked /\ Asked' /\ at' # "ackXDP"
      BY <2>1 DEF Name, Asked
    <2>3. SlvAsked
      BY <2>2, SlvAskedIs
    <2>4. Without("SLV", toCalc', {"RTS", "XDP", "RDY"}) /\ Without("SLV", toCalc', {"REQ"})
      BY <1>0, <2>1, <2>2, <2>3, NamedAppend DEF SlvAsked
    <2>5. SlvAsked'
      BY <1>1, <2>1, <2>2, <2>3, <2>4 DEF SlvAsked
    <2>6. Asked' => (SlvRecv' <=> SlvAsked')
      BY SlvAskedIs, PTL
    <2> QED
      BY <2>2, <2>5, <2>6
  <1> QED
    <2>1. at \in {"REQ", "REQ_ACK", "VAR", "ackVAR", "CTS", "CTS_ACK", "getXDP", "ackXDP"}
             \/ at = "idle"
      BY <1>0, SlvRecvAt
    <2> QED
      BY <1>3, <1>5, <1>6, <1>7, <1>8, <1>9, <2>1
      DEF DbusHost, SendRDY, RecvReady, SendRTS, RecvRTSAck, RecvSKP, SendACK, SendXDP, RecvXDPAck,
          SendEOT, AckXDP, DbusGivesUp, DbusSend, DbusExpect, DbusRecv, WriteFails, PutFails, ReadTimesOut,
          Fail, Finish

LEMMA SlvRecvKept ==
  ASSUME SlvRecv, UNCHANGED <<op, at, got>>, at # "REQ", Thinner("SLV", toCalc, toCalc'),
         Carries("SLV", toHost', "XDP", {store'[op.slot], Damaged}),
         Without("SLV", toCalc, {"REQ"}) => store' = store,
         toHost = <<>> => toHost' = <<>> \/ Without("SLV", toCalc', {"REQ"}),
         Without("SLV", toCalc', {"REQ"}) =>
            calc'.doing # "taking" /\ (calc'.doing = "giving" => calc'.slot = op.slot)
  PROVE  SlvRecv'
  <1>1. at = "ackXDP" => Without("SLV", toCalc, {"REQ"})
    BY DEF SlvRecv
  <1> QED
    BY <1>1 DEF SlvRecv, Thinner

LEMMA SlvCalcRecv ==
  ASSUME CommonT, SlvT, SlvRecv, op.kind = "recv", at # "idle", DbusCalc
  PROVE  SlvRecv'
  <1>0. /\ SlvWire /\ toCalc \in Seq(Packets) /\ toHost \in Seq(Packets) /\ CalcT /\ StoreT
        /\ op.slot \in Slots
        /\ at \in {"REQ", "REQ_ACK", "VAR", "ackVAR", "CTS", "CTS_ACK", "getXDP", "ackXDP"}
    BY SlvRecvAt DEF SlvT, SlvWire, CommonT, OpT
  <1>a. ASSUME NEW cmd, CalcTurn(cmd)
        PROVE  /\ UNCHANGED <<op, at, got>> /\ at # "REQ" /\ Thinner("SLV", toCalc, toCalc')
               /\ cmd # "REQ" /\ Without("SLV", toCalc', {"REQ"}) => Without("SLV", toCalc, {"REQ"})
    <2>1. /\ toCalc # <<>> /\ toCalc' = Tail(toCalc) /\ Name("SLV", Head(toCalc)) = cmd
      BY <1>a DEF CalcTurn, CalcHears, Name
    <2>2. cmd # "REQ" /\ Without("SLV", toCalc', {"REQ"}) => Without("SLV", toCalc, {"REQ"})
      BY <1>0, <2>1, WithoutTail
    <2>3. at # "REQ"
      BY <2>1 DEF SlvRecv
    <2>4. UNCHANGED <<op, at, got>> /\ Thinner("SLV", toCalc, toCalc')
      BY <1>0, <1>a, SlvTurn
    <2> QED
      BY <2>2, <2>3, <2>4
  <1>b. Carries("SLV", toHost, "XDP", {store[op.slot], Damaged})
    BY DEF SlvRecv
  <1>c. at # "REQ" /\ Without("SLV", toCalc, {"REQ"}) =>
           calc.doing # "taking" /\ (calc.doing = "giving" => calc.slot = op.slot)
    BY DEF SlvRecv
  <1>1. CASE CalcOnRDY \/ CalcOnRTS \/ CalcOnXDP
    <2>1. PICK cmd \in {"RDY", "RTS", "XDP"} : CalcTurn(cmd)
      BY <1>1 DEF CalcOnRDY, CalcOnRTS, CalcOnXDP
    <2>2. ~Without("SLV", toCalc, {"RTS", "XDP", "RDY"})
      BY <1>0, <2>1, SlvTurn
    <2> QED
      BY <2>2 DEF SlvRecv
  <1>2. CASE CalcOnEOT
    <2>1. CalcTurn("EOT") /\ UNCHANGED <<store, calc, toHost>>
      BY <1>2 DEF CalcOnEOT, calculator
    <2>2. /\ UNCHANGED <<op, at, got>> /\ at # "REQ" /\ Thinner("SLV", toCalc, toCalc')
          /\ Without("SLV", toCalc', {"REQ"}) => Without("SLV", toCalc, {"REQ"})
      BY <2>1, <1>a
    <2> QED
      BY <1>b, <1>c, <2>1, <2>2, SlvRecvKept
  <1>3. CASE CalcOnACK
    <2>1. CalcTurn("ACK") /\ UNCHANGED <<calc, toHost>>
      BY <1>3 DEF CalcOnACK
    <2>2. /\ UNCHANGED <<op, at, got>> /\ at # "REQ" /\ Thinner("SLV", toCalc, toCalc')
          /\ Without("SLV", toCalc', {"REQ"}) => Without("SLV", toCalc, {"REQ"})
      BY <2>1, <1>a
    <2>3. Without("SLV", toCalc, {"REQ"}) => store' = store
      BY <1>3, <1>c, <2>2 DEF CalcOnACK
    <2>4. Carries("SLV", toHost', "XDP", {store'[op.slot], Damaged})
      <3>1. CASE Without("SLV", toCalc, {"REQ"})
        BY <1>b, <2>1, <2>3, <3>1
      <3>2. CASE ~Without("SLV", toCalc, {"REQ"})
        <4>1. at = "REQ_ACK" /\ toHost = <<>>
          BY <2>2, <3>2 DEF SlvRecv
        <4> QED
          BY <2>1, <4>1, ThinnerEmpty
      <3> QED
        BY <3>1, <3>2
    <2> QED
      BY <1>c, <2>1, <2>2, <2>3, <2>4, SlvRecvKept
  <1>4. CASE CalcOnREQ
    <2> DEFINE s == Head(toCalc).arg
    <2>0. CalcTurn("REQ")
      BY <1>4 DEF CalcOnREQ
    <2>1. /\ UNCHANGED <<op, at, got>> /\ at # "REQ" /\ Thinner("SLV", toCalc, toCalc')
      BY <2>0, <1>a
    <2>2. /\ s \in {op.slot, Damaged} /\ ~Without("SLV", toCalc, {"REQ"})
          /\ AtMostOne("SLV", toCalc, {"REQ"}) => Without("SLV", toCalc', {"REQ"})
      BY <1>0, <2>0, SlvTurn DEF SlvRecv
    <2>3. at = "REQ_ACK" /\ toHost = <<>> /\ Without("SLV", toCalc', {"REQ"})
      BY <2>1, <2>2 DEF SlvRecv
    <2>4. /\ store' = store
          /\ calc' = CalcIdle \/ (s # Damaged /\ calc' = Calc("giving", s))
      BY <1>4 DEF CalcOnREQ, ErrReply
    <2>5. calc'.doing # "taking" /\ (calc'.doing = "giving" => calc'.slot = op.slot)
      <3>1. CalcIdle.doing = "nothing" /\ Calc("giving", s).doing = "giving" /\ Calc("giving", s).slot = s
        BY DEF Calc, CalcIdle
      <3> QED
        BY <2>2, <2>4, <3>1
    <2>6. Carries("SLV", toHost', "XDP", {store'[op.slot], Damaged})
      <3>1. /\ Packet("ERR", None) \in Packets /\ Packet("ACK", None) \in Packets
            /\ Packet("SKP", "exit") \in Packets /\ \A x \in Slots : Packet("VAR", x) \in Packets
        BY PacketT
      <3>2. \A cmd, arg : Packet(cmd, arg).cmd = cmd
        BY DEF Packet
      <3>3. PICK a \in Packets, b \in Packets :
               /\ a.cmd # "XDP" /\ b.cmd # "XDP"
               /\ CalcSays(<<a>>) \/ CalcSays(<<a, b>>)
        <4>1. CASE s = Damaged
          <5>1. CalcSays(<<Packet("ERR", None)>>)
            BY <1>4, <4>1 DEF CalcOnREQ, ErrReply
          <5>2. Packet("ERR", None).cmd # "XDP"
            BY <3>2
          <5> QED
            BY <3>1, <5>1, <5>2
        <4>2. CASE s # Damaged
          <5>1. Packet("VAR", s) \in Packets
            BY <1>0, <2>2, <3>1, <4>2
          <5> QED
            BY ZenonT(60), <1>4, <3>1, <3>2, <4>2, <5>1 DEF CalcOnREQ
        <4> QED
          BY <4>1, <4>2
      <3> QED
        BY <1>0, <1>b, <2>4, <3>3, SlvSays
    <2> QED
      BY <2>1, <2>3, <2>4, <2>5, <2>6, SlvRecvKept
  <1>5. CASE CalcOnCTS
    <2>1. CalcTurn("CTS") /\ UNCHANGED <<calc, store>>
      BY <1>5 DEF CalcOnCTS, calculator
    <2>2. /\ UNCHANGED <<op, at, got>> /\ at # "REQ" /\ Thinner("SLV", toCalc, toCalc')
          /\ Without("SLV", toCalc', {"REQ"}) => Without("SLV", toCalc, {"REQ"})
      BY <2>1, <1>a
    <2>3. ~Without("SLV", toCalc, {"CTS"})
      BY <1>0, <2>1, SlvTurn
    <2>4. Without("SLV", toCalc, {"REQ"}) /\ Without("SLV", toCalc', {"REQ"})
      BY <2>2, <2>3 DEF SlvRecv, Thinner
    <2>5. CASE UNCHANGED toHost
      BY <1>b, <1>c, <2>1, <2>2, <2>4, <2>5, SlvRecvKept
    <2>6. CASE ~UNCHANGED toHost
      <3>1. /\ calc.slot = op.slot /\ store[op.slot] \in Contents
            /\ CalcSays(<<Packet("ACK", None), Packet("XDP", store[op.slot])>>)
        BY <1>0, <1>5, <1>c, <2>2, <2>4, <2>6 DEF CalcOnCTS, StoreT
      <3> DEFINE a == Packet("ACK", None)
                 b == Packet("XDP", store[op.slot])
      <3>2. a \in Packets /\ b \in Packets /\ a.cmd = "ACK" /\ b.cmd = "XDP" /\ b.arg = store[op.slot]
        BY <3>1, PacketT DEF Packet
      <3>3. CalcSays(<<a, b>>)
        BY <3>1
      <3> HIDE DEF a, b
      <3>4. Carries("SLV", toHost', "XDP", {store[op.slot], Damaged})
        BY <1>0, <1>b, <3>2, <3>3, SlvSays
      <3> QED
        BY <1>c, <2>1, <2>2, <2>4, <3>4, SlvRecvKept
    <2> QED
      BY <2>5, <2>6
  <1>6. CASE Damage
    <2>1. UNCHANGED <<op, at, got, calc, store>> /\ at # "REQ"
      BY <1>6 DEF Damage, calculator, SlvRecv
    <2>2. CASE Damages(toCalc, toCalc') /\ UNCHANGED toHost
      <3>1. /\ \A names : /\ Without("SLV", toCalc, names) => Without("SLV", toCalc', names)
                          /\ Without("SLV", toCalc', names) => Without("SLV", toCalc, names)
                          /\ AtMostOne("SLV", toCalc, names) => AtMostOne("SLV", toCalc', names)
            /\ \A name, args : Carries("SLV", toCalc, name, args) /\ Damaged \in args =>
                                  Carries("SLV", toCalc', name, args)
        BY <1>0, <2>2, NamedDamaged
      <3> QED
        BY <2>1, <2>2, <3>1 DEF SlvRecv
    <2>3. CASE Damages(toHost, toHost') /\ UNCHANGED toCalc
      <3>1. toHost # <<>> /\ Carries("SLV", toHost', "XDP", {store[op.slot], Damaged})
        BY ZenonT(60), <1>0, <1>b, <2>3, NamedDamaged DEF Damages
      <3> QED
        BY <1>c, <2>1, <2>3, <3>1, ThinnerEmpty, SlvRecvKept
    <2> QED
      BY <1>6, <2>2, <2>3 DEF Damage, Damages
  <1>7. CASE CalcStops
    <2>1. UNCHANGED <<op, at, got, store>> /\ at # "REQ" /\ calc' = CalcIdle
      BY <1>7 DEF CalcStops, SlvRecv
    <2>2. calc'.doing # "taking" /\ calc'.doing # "giving"
      BY <2>1 DEF CalcIdle
    <2>3. CASE toCalc' = <<>> /\ UNCHANGED toHost
      BY <1>b, <2>1, <2>2, <2>3, ThinnerEmpty, SlvRecvKept
    <2>4. CASE /\ toHost # <<>> /\ toHost' = SubSeq(toHost, 1, Len(toHost) - 1)
               /\ UNCHANGED toCalc
      <3>1. Carries("SLV", toHost', "XDP", {store[op.slot], Damaged})
        BY <1>0, <1>b, <2>4, ThinnerFront DEF Thinner
      <3> QED
        BY <2>1, <2>2, <2>4, <3>1, ThinnerEmpty, SlvRecvKept
    <2> QED
      BY <1>7, <2>3, <2>4 DEF CalcStops
  <1> QED
    BY <1>1, <1>2, <1>3, <1>4, <1>5, <1>6, <1>7 DEF DbusCalc

LEMMA SlvCleanKept ==
  ASSUME TypeInv, SafeInv, SlvClean, OnDbus(DbusNext)
  PROVE  SlvClean'
  <1>0. cable = "SLV" /\ CommonT /\ SlvT /\ IsMine /\ SlvShape
    BY DEF OnDbus, TypeInv, SafeInv
  <1> SUFFICES ASSUME at' # "idle", op'.clean
               PROVE  (op'.kind = "send" => SlvSend') /\ (op'.kind = "recv" => SlvRecv')
    BY DEF SlvClean
  <1>1. CASE DbusBegin
    <2>1. PICK kind, x, c, first :
             /\ kind = "send" => first = "RTS"
             /\ kind = "recv" => first = "REQ"
             /\ Begin(kind, x, c, first)
      <3>1. CASE Begin("ready", Absent, Absent, "RDY")
        BY <3>1
      <3>2. CASE \E s \in Slots, c \in Contents : Begin("send", s, c, "RTS")
        BY <3>2
      <3>3. CASE \E s \in Slots : Begin("recv", s, Absent, "REQ")
        BY <3>3
      <3> QED
        BY <1>1, <3>1, <3>2, <3>3 DEF DbusBegin
    <2>2. /\ op'.kind = kind /\ at' = first /\ Quiet /\ UNCHANGED <<toCalc, toHost>>
      BY <2>1 DEF Begin, wire
    <2>3. toCalc' = <<>> /\ toHost' = <<>>
      BY <2>2 DEF Quiet
    <2>4. /\ \A names : Without("SLV", toCalc', names) /\ Without("SLV", toHost', names)
          /\ \A name, args : /\ Carries("SLV", toCalc', name, args)
                             /\ Carries("SLV", toHost', name, args)
      BY <2>3, ThinnerEmpty
    <2>5. at' = "RTS" => SlvSend'
      BY <2>4 DEF SlvSend
    <2>6. at' = "REQ" => SlvRecv'
      BY <2>3, <2>4 DEF SlvRecv
    <2> QED
      BY <2>1, <2>2, <2>5, <2>6
  <1>2. CASE DbusHost
    <2>1. at # "idle" /\ op' = op
      BY <1>2 DEF DbusHost, SendRDY, RecvReady, SendRTS, RecvRTSAck, RecvSKP, SendACK, SendXDP,
         RecvXDPAck, SendEOT, SendREQ, RecvREQAck, RecvVAR, AckVAR, SendCTS, RecvCTSAck, RecvXDP,
         AckXDP, DbusGivesUp, DbusSend, DbusExpect, DbusRecv, WriteFails, PutFails, ReadTimesOut, GoOn, Fail,
         Finish, DbusPuts, DbusGets
    <2> QED
      BY <1>0, <1>2, <2>1, SlvHostSend, SlvHostRecv DEF SlvClean
  <1>3. CASE DbusCalc
    <2>1. UNCHANGED <<op, at>>
      BY <1>3 DEF DbusCalc, CalcOnRDY, CalcOnRTS, CalcOnACK, CalcOnXDP, CalcOnEOT, CalcOnREQ,
         CalcOnCTS, Damage, CalcStops, CalcTurn
    <2> QED
      BY <1>0, <1>3, <2>1, SlvCalcSend, SlvCalcRecv DEF SlvClean
  <1> QED
    BY <1>1, <1>2, <1>3 DEF OnDbus, DbusNext

-----------------------------------------------------------------------------
(* A transfer that began clean over the direct cable. Of FragInv it needs   *)
(* that one packet at most is under way to be answered.                     *)

\* The calculator cuts contents only, so what begins and does not end is one, or has
\* lost its header.
CutOf(q) == \A i \in 1..Len(q) : q[i].kind = "DATA" => q[i].v.type = "VAR_CNTS"
Declares == in.begun /\ in.v # Headerless
Cut == CutOf(toHost) /\ (Declares => in.v.type = "VAR_CNTS")

\* An answer to RTS or to a content that the calculator has still to say.
ToSay == \E i \in 1..Len(calc.out) : calc.out[i].type = "DATA_ACK" /\ (i > 1 \/ ~calc.waiting)
NoAck == Without("USB", toHost, {"DATA_ACK"}) /\ ~ToSay

\* One RTS is one answer: as the packet, as what the calculator has in hand, as
\* what it has still to say, or on its way back.
Opening ==
    /\ Without("USB", toCalc, VirtualTypes \ {"RTS"})
    /\ calc.in # <<>> => Collects("RTS")
    /\ ~Without("USB", toCalc, {"RTS"}) => calc.in = <<>> /\ calc.out = <<>>
    /\ ~Without("USB", toCalc, {"RTS"}) \/ calc.in # <<>> => Without("USB", toHost, {"DATA_ACK"})
    /\ AtMostOne("USB", toHost, {"DATA_ACK"})
    /\ \A i, j \in 1..Len(calc.out) :
          calc.out[i].type = "DATA_ACK" /\ calc.out[j].type = "DATA_ACK" => i = j
    /\ Without("USB", toHost, {"DATA_ACK"}) \/ ~ToSay

UsbSend ==
    /\ Carries("USB", toCalc, "VAR_CNTS", {op.content})
    /\ Collects("VAR_CNTS") => calc.in[1].v.arg = op.content
    /\ at = "RTS" /\ out.phase = "first" => Quiet
    /\ at \in {"RTS", "RTS_ACK"} => Opening
    /\ at \in {"VAR_CNTS", "CNTS_ACK", "EOT"} =>
          Without("USB", toCalc, {"RTS"}) /\ ~Collects("RTS")
    /\ at \in {"VAR_CNTS", "CNTS_ACK"} => NoAck \/ Done
    /\ at = "EOT" => Done

UsbRecv ==
    /\ Without("USB", toCalc, VirtualTypes \ {"VAR_REQ"})
    /\ Carries("USB", toCalc, "VAR_REQ", {op.slot})
    /\ calc.in # <<>> => Collects("VAR_REQ") /\ calc.in[1].v.arg = op.slot
    /\ \A i \in 1..Len(calc.out) : calc.out[i].type = "VAR_CNTS" => calc.out[i].arg = store[op.slot]
    /\ Carries("USB", toHost, "VAR_CNTS", {store[op.slot]})
    /\ Declares => in.v.arg = store[op.slot]

UsbClean ==
    cable = "USB" /\ at # "idle" /\ op.clean =>
        (op.kind = "send" => UsbSend) /\ (op.kind = "recv" => UsbRecv)

CutInv == cable = "USB" => Cut

\* A packet with data goes by the type of its virtual packet, and no other does.
LEMMA NameIs ==
  ASSUME NEW p
  PROVE  /\ p.kind \in Data => Name("USB", p) = p.v.type /\ Arg("USB", p) = p.v.arg
         /\ p.kind \in {"SIZE_REQ", "SIZE_ALLOC", "ACK"} => Name("USB", p) \notin VirtualTypes
  BY DEF Name, Arg, Data, VirtualTypes, Sends

LEMMA FreeOfData ==
  ASSUME NEW q \in Seq(Raws), Free(q, Data), NEW names \in SUBSET VirtualTypes
  PROVE  Without("USB", q, names)
  <1> SUFFICES ASSUME NEW i \in 1..Len(q) PROVE Name("USB", q[i]) \notin names
    BY DEF Without
  <1>1. q[i] \in Raws /\ q[i].kind \notin Data
    BY ElementOfSeq DEF Free
  <1>2. q[i].kind \in {"SIZE_REQ", "SIZE_ALLOC", "ACK"}
    BY <1>1 DEF Raws, Data
  <1> QED
    BY <1>2, NameIs

\* No more packets with data.
NoMore(q, r) ==
    /\ \A names \in SUBSET VirtualTypes :
          /\ Without("USB", q, names) => Without("USB", r, names)
          /\ AtMostOne("USB", q, names) => AtMostOne("USB", r, names)
    /\ \A name, args : name \in VirtualTypes /\ Carries("USB", q, name, args) =>
                          Carries("USB", r, name, args)
    /\ CutOf(q) => CutOf(r)

LEMMA UsbQueues ==
  ASSUME UsbWire
  PROVE  toHost \in Seq(Raws) /\ toCalc \in Seq(Raws)
  BY SeqMonotonic DEF UsbWire, HostRaws

LEMMA NoMoreIs ==
  ASSUME NEW q \in Seq(Raws)
  PROVE  /\ NoMore(q, q) /\ NoMore(q, <<>>)
         /\ q # <<>> => NoMore(q, Tail(q)) /\ NoMore(q, SubSeq(q, 1, Len(q) - 1))
         /\ \A p \in Raws : p.kind \notin Data => NoMore(q, Append(q, p))
  <1>1. NoMore(q, q) /\ NoMore(q, <<>>)
    BY DEF NoMore, Without, AtMostOne, Carries, CutOf
  <1>2. ASSUME q # <<>> PROVE NoMore(q, Tail(q))
    <2>1. Thinner("USB", q, Tail(q))
      BY <1>2, ThinnerTail
    <2>2. CutOf(q) => CutOf(Tail(q))
      <3> DEFINE r == Tail(q)
      <3>1. /\ Len(q) \in Nat \ {0} /\ Len(r) = Len(q) - 1
            /\ \A i \in 1..Len(r) : r[i] = q[i + 1] /\ i + 1 \in 1..Len(q)
        BY <1>2, TailIs
      <3> HIDE DEF r
      <3>2. CutOf(q) => CutOf(r)
        BY <3>1 DEF CutOf
      <3> QED
        BY <3>2 DEF r
    <2> QED
      BY <2>1, <2>2 DEF NoMore, Thinner
  <1>3. ASSUME q # <<>> PROVE NoMore(q, SubSeq(q, 1, Len(q) - 1))
    <2> DEFINE r == SubSeq(q, 1, Len(q) - 1)
    <2>1. Thinner("USB", q, r)
      BY <1>3, ThinnerFront
    <2>2. /\ Len(q) \in Nat \ {0} /\ Len(r) = Len(q) - 1
          /\ \A i \in 1..(Len(q) - 1) : r[i] = q[i]
      BY <1>3, FrontIs
    <2> HIDE DEF r
    <2>3. CutOf(q) => CutOf(r)
      BY <2>2 DEF CutOf
    <2>4. NoMore(q, r)
      BY <2>1, <2>3 DEF NoMore, Thinner
    <2> QED
      BY <2>4 DEF r
  <1>4. ASSUME NEW p \in Raws, p.kind \notin Data PROVE NoMore(q, Append(q, p))
    <2> DEFINE r == Append(q, p)
    <2>1. Name("USB", p) \notin VirtualTypes /\ p.kind # "DATA"
      <3>1. p.kind \in {"SIZE_REQ", "SIZE_ALLOC", "ACK"}
        BY <1>4 DEF Raws, Data
      <3> QED
        BY <3>1, NameIs
    <2>2. \A names \in SUBSET VirtualTypes :
             /\ Without("USB", q, names) => Without("USB", r, names)
             /\ AtMostOne("USB", q, names) => AtMostOne("USB", r, names)
      BY <2>1, NamedAppend
    <2>3. \A name, args : name \in VirtualTypes /\ Carries("USB", q, name, args) =>
                             Carries("USB", r, name, args)
      BY <2>1, NamedAppend
    <2>4. CutOf(q) => CutOf(r)
      <3>1. /\ Len(q) \in Nat /\ Len(r) = Len(q) + 1 /\ r[Len(q) + 1] = p
            /\ \A i \in 1..Len(q) : r[i] = q[i]
            /\ \A i \in 1..(Len(q) + 1) : i \in 1..Len(q) \/ i = Len(q) + 1
        BY AppendIs
      <3> HIDE DEF r
      <3> QED
        BY <2>1, <3>1 DEF CutOf
    <2> QED
      BY <2>2, <2>3, <2>4 DEF NoMore
  <1> QED
    BY <1>1, <1>2, <1>3, <1>4

\* What a step of the calculator does, but for carrying out a packet: it hears or
\* forgets, and has no more to say than before; it takes a packet with data in hand;
\* or it says the first packet of those it has to say.
LessToSay ==
    /\ ToSay' => ToSay
    /\ (\A i, j \in 1..Len(calc.out) :
            calc.out[i].type = "DATA_ACK" /\ calc.out[j].type = "DATA_ACK" => i = j) =>
       \A i, j \in 1..Len(calc'.out) :
            calc'.out[i].type = "DATA_ACK" /\ calc'.out[j].type = "DATA_ACK" => i = j
    /\ \A x : (\A i \in 1..Len(calc.out) : calc.out[i].type = "VAR_CNTS" => calc.out[i].arg = x) =>
              \A i \in 1..Len(calc'.out) : calc'.out[i].type = "VAR_CNTS" => calc'.out[i].arg = x
    /\ calc.out = <<>> => calc'.out = <<>>
Heeds ==
    /\ NoMore(toCalc, toCalc') /\ NoMore(toHost, toHost') /\ LessToSay /\ UNCHANGED store
    /\ calc'.doing = "nothing" \/ (calc'.doing = calc.doing /\ calc'.slot = calc.slot)
    /\ calc'.in = <<>> \/ (calc.in # <<>> /\ calc'.in # <<>> /\ calc'.in[1].v = calc.in[1].v)
Takes ==
    /\ CalcHears /\ Head(toCalc).kind \in Data
    /\ NoMore(toHost, toHost')
    /\ UNCHANGED store
    /\ calc'.doing = "nothing" \/ (calc'.doing = calc.doing /\ calc'.slot = calc.slot)
    /\ calc'.in # <<>> /\ calc'.in[1].v = Head(toCalc).v /\ calc'.out = <<>>
Utters ==
    /\ calc.out # <<>> /\ ~calc.waiting /\ calc'.waiting
    /\ \E kind \in Data, from \in Nat, to \in Nat :
          /\ CalcSays(<<Raw(kind, calc.out[1], from, to)>>)
          /\ kind = "DATA" => calc.out[1].type = "VAR_CNTS"
    /\ UNCHANGED <<toCalc, store>>
    /\ calc'.doing = calc.doing /\ calc'.slot = calc.slot
    /\ calc'.in = calc.in /\ calc'.out = calc.out

LEMMA LessIs ==
  /\ calc'.out = <<>> => LessToSay
  /\ calc' = calc => LessToSay
  /\ calc'.out = calc.out /\ calc'.waiting = calc.waiting => LessToSay
  <1>1. calc'.out = <<>> => LessToSay
    BY DEF LessToSay, ToSay
  <1>2. calc'.out = calc.out /\ calc'.waiting = calc.waiting => LessToSay
    BY DEF LessToSay, ToSay
  <1> QED
    BY <1>1, <1>2

LEMMA UsbTurns ==
  ASSUME CommonT, UsbT, Collecting, Saying, DusbCalc
  PROVE  Heeds \/ Takes \/ Utters \/ CalcObeys
  <1>0. /\ UsbWire /\ toCalc \in Seq(Raws) /\ toHost \in Seq(Raws) /\ CalcT /\ calc \in Calcs
        /\ calc.out \in Seq(Virtuals)
    BY CalcTypes, UsbQueues DEF UsbT, UsbWire, CommonT
  <1>1. ASSUME CalcHears PROVE NoMore(toCalc, toCalc')
    BY <1>0, <1>1, NoMoreIs DEF CalcHears
  <1>2. ASSUME NEW p \in Raws, p.kind \notin Data, CalcSays(<<p>>)
        PROVE  NoMore(toHost, toHost')
    <2>1. toHost' = Append(toHost, p)
      BY <1>0, <1>2, AppendIs DEF CalcSays
    <2> QED
      BY <1>0, <1>2, <2>1, NoMoreIs
  <1>3. Acknowledge \in Raws /\ Acknowledge.kind \notin Data
    BY AckT DEF Acknowledge, Raw, Data
  <1>4. \A m \in Grants, kind \in {"SIZE_REQ", "SIZE_ALLOC"} :
           Size(kind, m) \in Raws /\ Size(kind, m).kind \notin Data
    <2> SUFFICES ASSUME NEW m \in Grants, NEW kind \in {"SIZE_REQ", "SIZE_ALLOC"}
                 PROVE  Size(kind, m) \in Raws /\ Size(kind, m).kind \notin Data
      OBVIOUS
    <2>1. m \in Nat
      OBVIOUS
    <2> QED
      BY <2>1, SizeT DEF Size, Raw, Data
  <1>5. NoMore(toHost, toHost) /\ NoMore(toCalc, toCalc)
    BY <1>0, NoMoreIs
  <1>6. CalcIdle.doing = "nothing" /\ CalcIdle.in = <<>> /\ CalcIdle.out = <<>>
    BY DEF CalcIdle
  <1>7. CASE CalcAllocates
    <2>1. PICK m \in Grants : CalcSays(<<Size("SIZE_ALLOC", m)>>)
      BY <1>7 DEF CalcAllocates
    <2>2. NoMore(toHost, toHost')
      BY <1>2, <1>4, <2>1
    <2>3. CalcHears /\ calc' = CalcIdle /\ UNCHANGED store
      BY <1>7 DEF CalcAllocates
    <2> QED
      BY <1>1, <1>6, <2>2, <2>3, LessIs DEF Heeds
  <1>8. CASE CalcCollects
    <2> DEFINE raw == Head(toCalc)
               part == [v |-> raw.v, size |-> raw.to, whole |-> raw.kind = "LAST", asking |-> FALSE]
               asks == [part EXCEPT !.asking = TRUE]
               end == IF raw.from = 0 /\ calc.in # <<>> THEN CalcIdle ELSE calc
    <2>1. CalcHears /\ raw.kind \in Data /\ UNCHANGED store
      BY <1>8 DEF CalcCollects
    <2>2. part.v = raw.v /\ asks.v = raw.v
      OBVIOUS
    <2>3. \/ UNCHANGED <<toHost, calc>>
          \/ /\ CalcSays(<<Acknowledge>>)
             /\ calc' = [end EXCEPT !.in = <<part>>, !.out = <<>>, !.waiting = FALSE]
          \/ /\ \E m \in Grants : CalcSays(<<Size("SIZE_REQ", m)>>)
             /\ calc' = [end EXCEPT !.in = <<asks>>, !.out = <<>>, !.waiting = FALSE]
      BY <1>8, Zenon DEF CalcCollects
    <2>e. end \in Calcs /\ (end = calc \/ end.doing = "nothing")
      BY <1>0, CalcIdleT
    <2> HIDE DEF part, asks, raw, end
    <2>4. CASE UNCHANGED <<toHost, calc>>
      BY <1>1, <1>5, <2>1, <2>4, LessIs DEF Heeds
    <2>5. ASSUME ~UNCHANGED <<toHost, calc>> PROVE Takes
      <3>1. PICK p : /\ p.v = raw.v
                     /\ calc' = [end EXCEPT !.in = <<p>>, !.out = <<>>, !.waiting = FALSE]
        BY <2>2, <2>3, <2>5
      <3>2. /\ calc'.in = <<p>> /\ calc'.out = <<>> /\ calc'.doing = end.doing
            /\ calc'.slot = end.slot
        BY <2>e, <3>1 DEF Calcs
      <3>3. calc'.in # <<>> /\ calc'.in[1] = p
        BY <3>2
      <3>4. NoMore(toHost, toHost')
        BY <1>2, <1>3, <1>4, <2>3, <2>5
      <3> QED
        BY <2>1, <2>e, <3>1, <3>2, <3>3, <3>4 DEF Takes, raw
    <2> QED
      BY <2>4, <2>5
  <1>9. CASE CalcAccepts
    <2>1. CalcHears /\ UNCHANGED store
      BY <1>9 DEF CalcAccepts
    <2>2. CASE calc.in # <<>> /\ calc.in[1].asking
      <3>1. /\ calc' = [calc EXCEPT !.in[1].asking = FALSE] /\ CalcSays(<<Acknowledge>>)
            /\ calc.in \in Seq(Parts) /\ calc.in[1] \in Parts /\ 1 \in 1..Len(calc.in)
        BY <1>0, <1>9, <2>2, CalcTypes DEF CalcAccepts
      <3> DEFINE part == [calc.in[1] EXCEPT !.asking = FALSE]
                 parts == [calc.in EXCEPT ![1] = part]
      <3>2. part.v = calc.in[1].v /\ part \in Parts
        BY <3>1 DEF Parts
      <3>3. calc' = [calc EXCEPT !.in = parts]
        BY <3>1
      <3> HIDE DEF part
      <3>4. parts[1] = part /\ parts # <<>>
        BY <3>1, <3>2, ExceptSeq, EmptySeq
      <3> HIDE DEF parts
      <3>5. /\ calc'.in = parts /\ calc'.out = calc.out /\ calc'.waiting = calc.waiting
            /\ calc'.doing = calc.doing /\ calc'.slot = calc.slot
        BY <1>0, <3>3 DEF Calcs
      <3>6. NoMore(toHost, toHost')
        BY <1>2, <1>3, <3>1
      <3>7. LessToSay
        BY <3>5, LessIs
      <3> QED
        BY <1>1, <2>1, <2>2, <3>2, <3>4, <3>5, <3>6, <3>7 DEF Heeds
    <2>3. CASE ~(calc.in # <<>> /\ calc.in[1].asking)
      <3>1. UNCHANGED <<toHost, calc>>
        BY <1>9, <2>3 DEF CalcAccepts
      <3> QED
        BY <1>1, <1>5, <2>1, <3>1, LessIs DEF Heeds
    <2> QED
      BY <2>2, <2>3
  <1>10. CASE CalcSpeaks
    <2> DEFINE v == calc.out[1]
    <2>1. /\ calc.out # <<>> /\ ~calc.waiting /\ UNCHANGED <<toCalc, store>> /\ calc.said \in Nat
          /\ v \in Virtuals /\ v.size \in Nat /\ Head(calc.out) = v /\ 1 \in 1..Len(calc.out)
      BY <1>0, <1>10, CalcTypes, TailIs DEF CalcSpeaks
    <2>2. PICK kind \in Data, from \in Nat, to \in Nat :
             /\ CalcSays(<<Raw(kind, v, from, to)>>)
             /\ kind = "DATA" => v.type = "VAR_CNTS"
             /\ calc' = [calc EXCEPT !.said = to, !.waiting = TRUE]
      <3>1. v.size > CommandSize => v.type = "VAR_CNTS"
        BY <2>1 DEF Saying
      <3>2. v.size \div 2 \in Nat /\ "LAST" \in Data /\ "DATA" \in Data /\ "LAST" # "DATA"
        BY <2>1 DEF Data
      <3>3. \/ /\ CalcSays(<<Raw("LAST", v, calc.said, v.size)>>)
               /\ calc' = [calc EXCEPT !.said = v.size, !.waiting = TRUE]
            \/ /\ v.size > CommandSize
               /\ CalcSays(<<Raw("DATA", v, 0, v.size \div 2)>>)
               /\ calc' = [calc EXCEPT !.said = v.size \div 2, !.waiting = TRUE]
        BY <1>10, <2>1 DEF CalcSpeaks
      <3> HIDE DEF v
      <3> QED
        BY <2>1, <3>1, <3>2, <3>3
    <2>3. /\ calc'.in = calc.in /\ calc'.doing = calc.doing /\ calc'.slot = calc.slot
          /\ calc'.out = calc.out /\ calc'.waiting
      BY <1>0, <2>2 DEF Calcs
    <2> QED
      BY <2>1, <2>2, <2>3 DEF Utters
  <1>11. CASE CalcIsHeard
    <2>1. CalcHears /\ UNCHANGED <<toHost, store>>
      BY <1>11 DEF CalcIsHeard
    <2>2. CASE UNCHANGED calc
      BY <1>1, <1>5, <2>1, <2>2, LessIs DEF Heeds
    <2>3. CASE /\ calc.waiting /\ calc.said < Head(calc.out).size
               /\ calc' = [calc EXCEPT !.waiting = FALSE]
      <3>1. /\ calc'.in = calc.in /\ calc'.doing = calc.doing /\ calc'.slot = calc.slot
            /\ calc'.out = calc.out
        BY <1>0, <2>3 DEF Calcs
      <3>2. calc.out # <<>> /\ calc.out[1].type = "VAR_CNTS"
        <4>1. calc.out # <<>> /\ calc.out[1] = Head(calc.out) /\ Head(calc.out).size \in Nat
              /\ calc.said \in Nat
          BY <1>0, <2>3, CalcTypes, TailIs DEF CalcT
        <4> DEFINE n == calc.out[1].size
        <4>2. n \in Nat /\ calc.said < n /\ calc.said \in Nat
          BY <2>3, <4>1
        <4>3. calc.out[1].type # "VAR_CNTS" => calc.said >= n
          BY <2>3 DEF Saying
        <4> HIDE DEF n
        <4> QED
          BY <4>1, <4>2, <4>3
      <3>3. LessToSay
        <4>1. ToSay' => ToSay
          BY <3>1, <3>2 DEF ToSay
        <4> QED
          BY <3>1, <4>1 DEF LessToSay
      <3> QED
        BY <1>1, <1>5, <2>1, <3>1, <3>3 DEF Heeds
    <2>4. CASE /\ calc.waiting
               /\ calc' = [calc EXCEPT !.waiting = FALSE, !.said = 0, !.out = Tail(@)]
      <3>1. /\ calc'.in = calc.in /\ calc'.doing = calc.doing /\ calc'.slot = calc.slot
            /\ calc'.out = Tail(calc.out)
        BY <1>0, <2>4 DEF Calcs
      <3>2. calc.out # <<>>
        BY <1>0, <2>4 DEF CalcT
      <3>3. LessToSay
        <4> DEFINE q == calc.out  r == calc'.out
        <4>1. /\ Len(q) \in Nat \ {0} /\ Len(r) = Len(q) - 1
              /\ \A i \in 1..Len(r) : r[i] = q[i + 1] /\ i + 1 \in 1..Len(q) /\ i + 1 > 1
              /\ \A i, j \in 1..Len(r) : i + 1 = j + 1 => i = j
          BY <1>0, <3>1, <3>2, TailIs
        <4>2. ToSay' => ToSay
          <5>1. ToSay' => \E i \in 1..Len(r) : r[i].type = "DATA_ACK"
            BY DEF ToSay
          <5>2. (\E i \in 1..Len(r) : r[i].type = "DATA_ACK") => ToSay
            <6> SUFFICES ASSUME NEW i \in 1..Len(r), r[i].type = "DATA_ACK" PROVE ToSay
              OBVIOUS
            <6>1. i + 1 \in 1..Len(calc.out) /\ i + 1 > 1 /\ calc.out[i + 1].type = "DATA_ACK"
              BY <4>1
            <6> QED
              BY <6>1 DEF ToSay
          <5> QED
            BY <5>1, <5>2
        <4>3. (\A i, j \in 1..Len(q) : q[i].type = "DATA_ACK" /\ q[j].type = "DATA_ACK" => i = j) =>
                 \A i, j \in 1..Len(r) : r[i].type = "DATA_ACK" /\ r[j].type = "DATA_ACK" => i = j
          <5> HIDE DEF q, r
          <5> QED
            BY <4>1
        <4>4. \A x : (\A i \in 1..Len(q) : q[i].type = "VAR_CNTS" => q[i].arg = x) =>
                        \A i \in 1..Len(r) : r[i].type = "VAR_CNTS" => r[i].arg = x
          <5> HIDE DEF q, r
          <5> QED
            BY <4>1
        <4> QED
          BY <3>2, <4>2, <4>3, <4>4 DEF LessToSay
      <3> QED
        BY <1>1, <1>5, <2>1, <3>1, <3>3 DEF Heeds
    <2> QED
      BY <1>11, <2>2, <2>3, <2>4 DEF CalcIsHeard
  <1>12. CASE CalcStops
    <2>1. calc' = CalcIdle /\ UNCHANGED store
      BY <1>12 DEF CalcStops
    <2>2. NoMore(toCalc, toCalc') /\ NoMore(toHost, toHost')
      <3>1. CASE toCalc' = <<>> /\ UNCHANGED toHost
        BY <1>0, <1>5, <3>1, NoMoreIs
      <3>2. CASE /\ toHost # <<>> /\ toHost' = SubSeq(toHost, 1, Len(toHost) - 1)
                 /\ UNCHANGED toCalc
        BY <1>0, <1>5, <3>2, NoMoreIs
      <3> QED
        BY <1>12, <3>1, <3>2 DEF CalcStops
    <2> QED
      BY <1>6, <2>1, <2>2, LessIs DEF Heeds
  <1> QED
    BY <1>7, <1>8, <1>9, <1>10, <1>11, <1>12 DEF DusbCalc

\* What it says is then on its way to the program, and no longer to be said.
OneAnswer ==
    \A i, j \in 1..Len(calc.out) :
        calc.out[i].type = "DATA_ACK" /\ calc.out[j].type = "DATA_ACK" => i = j

LEMMA Uttered ==
  ASSUME CommonT, UsbT, Utters
  PROVE  /\ \A names :
               /\ Without("USB", toHost, names) /\ calc.out[1].type \notin names =>
                     Without("USB", toHost', names)
               /\ AtMostOne("USB", toHost, names) /\ calc.out[1].type \notin names =>
                     AtMostOne("USB", toHost', names)
               /\ Without("USB", toHost, names) => AtMostOne("USB", toHost', names)
         /\ \A name, args :
               Carries("USB", toHost, name, args) /\ (calc.out[1].type = name => calc.out[1].arg \in args) =>
                  Carries("USB", toHost', name, args)
         /\ CutOf(toHost) => CutOf(toHost')
         /\ calc.out[1].type = "DATA_ACK" => ToSay
         /\ calc.out[1].type = "DATA_ACK" /\ OneAnswer => ~ToSay'
         /\ ToSay' => ToSay
         /\ 1 \in 1..Len(calc.out)
  <1>0. toHost \in Seq(Raws) /\ calc.out \in Seq(Virtuals) /\ calc.waiting \in BOOLEAN
    BY UsbQueues, CalcTypes DEF CommonT, UsbT
  <1>1. calc.out # <<>> /\ ~calc.waiting /\ calc'.waiting /\ calc'.out = calc.out
    BY DEF Utters
  <1>2. calc.out[1] \in Virtuals /\ 1 \in 1..Len(calc.out)
    BY <1>0, <1>1, TailIs
  <1> DEFINE v == calc.out[1]
  <1>3. PICK kind \in Data, from \in Nat, to \in Nat :
           /\ CalcSays(<<Raw(kind, v, from, to)>>)
           /\ kind = "DATA" => v.type = "VAR_CNTS"
    BY DEF Utters
  <1> DEFINE p == Raw(kind, v, from, to)
  <1>4. p \in Raws /\ p.kind = kind /\ p.v = v
    BY <1>2, RawT DEF Raw, Data
  <1>5. Name("USB", p) = v.type /\ Arg("USB", p) = v.arg
    BY <1>4, NameIs
  <1>6. toHost' = Append(toHost, p)
    BY <1>0, <1>3, <1>4, AppendIs DEF CalcSays
  <1> HIDE DEF p
  <1>7. CutOf(toHost) => CutOf(toHost')
    <2>1. /\ Len(toHost) \in Nat /\ Len(toHost') = Len(toHost) + 1 /\ toHost'[Len(toHost) + 1] = p
          /\ \A i \in 1..Len(toHost) : toHost'[i] = toHost[i]
          /\ \A i \in 1..(Len(toHost) + 1) : i \in 1..Len(toHost) \/ i = Len(toHost) + 1
      BY <1>0, <1>4, <1>6, AppendIs
    <2> QED
      BY <1>3, <1>4, <2>1 DEF CutOf
  <1>8. /\ \A names :
              /\ Without("USB", toHost, names) /\ v.type \notin names => Without("USB", toHost', names)
              /\ AtMostOne("USB", toHost, names) /\ v.type \notin names => AtMostOne("USB", toHost', names)
              /\ Without("USB", toHost, names) => AtMostOne("USB", toHost', names)
        /\ \A name, args : Carries("USB", toHost, name, args) /\ (v.type = name => v.arg \in args) =>
              Carries("USB", toHost', name, args)
    BY <1>0, <1>4, <1>5, <1>6, NamedAppend
  <1>9. /\ v.type = "DATA_ACK" => ToSay
        /\ v.type = "DATA_ACK" /\ OneAnswer => ~ToSay'
        /\ ToSay' => ToSay
    BY <1>1, <1>2 DEF ToSay, OneAnswer
  <1> QED
    BY <1>2, <1>7, <1>8, <1>9

\* With nothing under way the calculator does nothing over the direct cable.
LEMMA QuietStill ==
  ASSUME DusbCalc
  PROVE  ~Quiet
  BY DEF DusbCalc, CalcAllocates, CalcCollects, CalcAccepts, CalcObeys, CalcSpeaks, CalcIsHeard,
         CalcStops, CalcHears, Complete, Quiet

LEMMA CutByCalc ==
  ASSUME CommonT, UsbT, UsbShape, Cut, DusbCalc
  PROVE  Cut'
  <1>1. in' = in
    BY DEF DusbCalc, CalcAllocates, CalcCollects, CalcAccepts, CalcObeys, CalcSpeaks, CalcIsHeard,
           CalcStops, HostUnchanged, dusbVars
  <1>2. Heeds \/ Takes \/ Utters \/ CalcObeys
    BY UsbTurns DEF UsbShape
  <1>3. CutOf(toHost')
    <2>1. CASE Heeds \/ Takes
      BY <2>1 DEF Heeds, Takes, NoMore, Cut
    <2>2. CASE Utters
      BY <2>2, Uttered DEF Cut
    <2>3. CASE CalcObeys
      BY <2>3 DEF CalcObeys, wire, Cut
    <2> QED
      BY <1>2, <2>1, <2>2, <2>3
  <1> QED
    BY <1>1, <1>3 DEF Cut, Declares

\* What the program reads, and what it still expects of a packet that is cut.
LEMMA CutByHost ==
  ASSUME CommonT, UsbT, Cut, DusbHost
  PROVE  Cut'
  <1>0. toHost \in Seq(Raws)
    BY UsbQueues DEF UsbT
  <1>1. toHost' = toHost \/ (toHost # <<>> /\ toHost' = Tail(toHost))
    BY DEF DusbHost, BufSizeRequest, BufSizeAlloc, SendFirst, Transmit, RecvAcknowledge, SendNext,
           RecvData, DusbGivesUp, WriteFails, PutFails, ReadTimesOut, wire
  <1>2. CutOf(toHost')
    BY <1>0, <1>1, NoMoreIs DEF NoMore, Cut
  <1>3. \/ in' = in \/ ~in'.begun
        \/ /\ RecvData /\ Heard.kind = "DATA" /\ toHost # <<>>
           /\ (in'.v = in.v /\ in.begun) \/ in'.v \in {Heard.v, Headerless}
    <2>1. CASE RecvData
      <3>1. /\ Nothing.begun = FALSE
            /\ [Nothing EXCEPT !.delayed = TRUE].begun = FALSE
        BY DEF Nothing
      <3>2. in' = Nothing \/ in' = [Nothing EXCEPT !.delayed = TRUE] \/ Heard.kind = "DATA"
        BY <2>1 DEF RecvData, Delivered
      <3>3. ASSUME Heard.kind = "DATA", in' # Nothing
          PROVE  (in'.v = in.v /\ in.begun) \/ in'.v \in {Heard.v, Headerless}
        <4> DEFINE v == IF in.begun THEN in.v ELSE IF Heard.from = 0 THEN Heard.v ELSE Headerless
        <4>1. \E size : in' = [in EXCEPT !.begun = TRUE, !.v = v, !.size = size]
          BY ZenonT(60), <2>1, <3>3 DEF RecvData
        <4> HIDE DEF v
        <4>2. in'.v = v
          BY <4>1 DEF UsbT, InT
        <4> QED
          BY <4>2 DEF v
      <3>4. toHost # <<>>
        BY <2>1 DEF RecvData
      <3> QED
        BY <2>1, <3>1, <3>2, <3>3, <3>4
    <2>2. CASE DusbGivesUp
      BY <2>2 DEF DusbGivesUp, Nothing
    <2>3. CASE BufSizeRequest \/ BufSizeAlloc \/ SendFirst \/ RecvAcknowledge \/ SendNext
      BY <2>3 DEF BufSizeRequest, BufSizeAlloc, SendFirst, Transmit, RecvAcknowledge, SendNext,
                  dusbVars
    <2> QED
      BY <2>1, <2>2, <2>3 DEF DusbHost
  <1>4. toHost # <<>> /\ Heard.kind = "DATA" => Heard.v.type = "VAR_CNTS"
    <2>1. toHost # <<>> => Heard = toHost[1] /\ Len(toHost) \in Nat \ {0}
      BY <1>0, TailIs DEF Heard
    <2> QED
      BY <2>1 DEF Cut, CutOf
  <1>5. Declares' => in'.v.type = "VAR_CNTS"
    <2>1. Headerless' = Headerless
      BY DEF Headerless, NoData
    <2> QED
      BY <1>3, <1>4, <2>1 DEF Declares, Cut
  <1> QED
    BY <1>2, <1>5 DEF Cut

\* The packet in front, by its name.
LEMMA TakenIs ==
  ASSUME UsbWire, toCalc # <<>>, Head(toCalc).kind \in Data
  PROVE  /\ Head(toCalc).v.type \in VirtualTypes
         /\ \A names : /\ Without("USB", toCalc, names) => Head(toCalc).v.type \notin names
                       /\ AtMostOne("USB", toCalc, names) /\ Head(toCalc).v.type \in names =>
                             Without("USB", Tail(toCalc), names)
         /\ \A name, args : Carries("USB", toCalc, name, args) /\ Head(toCalc).v.type = name =>
                               Head(toCalc).v.arg \in args
  <1>0. toCalc \in Seq(Raws)
    BY UsbQueues
  <1>1. Head(toCalc) \in Raws
    BY <1>0, TailIs
  <1>2. Name("USB", Head(toCalc)) = Head(toCalc).v.type /\ Arg("USB", Head(toCalc)) = Head(toCalc).v.arg
    BY NameIs
  <1>3. Head(toCalc).v.type \in VirtualTypes
    BY <1>1 DEF Raws, Virtuals
  <1>4. /\ \A names : Without("USB", toCalc, names) => Name("USB", Head(toCalc)) \notin names
        /\ \A names : AtMostOne("USB", toCalc, names) /\ Name("USB", Head(toCalc)) \in names =>
                         Without("USB", Tail(toCalc), names)
        /\ \A name, args : Carries("USB", toCalc, name, args) /\ Name("USB", Head(toCalc)) = name =>
                         Arg("USB", Head(toCalc)) \in args
    BY <1>0, ThinnerTail
  <1> QED
    BY <1>2, <1>3, <1>4

LEMMA CalcIsAlone ==
  ASSUME DusbCalc
  PROVE  UNCHANGED <<op, at, told, got, offered, ops, maxlen, out, in>>
  BY DEF DusbCalc, CalcAllocates, CalcCollects, CalcAccepts, CalcObeys, CalcSpeaks, CalcIsHeard,
         CalcStops, HostUnchanged, dusbVars

LEMMA UsbCalcRecv ==
  ASSUME CommonT, UsbT, UsbShape, UsbRecv, op.kind = "recv", DusbCalc
  PROVE  UsbRecv'
  <1>0. UsbWire /\ Collecting /\ Saying /\ calc.in \in Seq(Parts)
    BY CalcTypes DEF UsbT, UsbShape, CommonT
  <1>1. UNCHANGED <<op, in>>
    BY CalcIsAlone
  <1>2. /\ VirtualTypes \ {"VAR_REQ"} \in SUBSET VirtualTypes
        /\ "VAR_REQ" \in VirtualTypes /\ "VAR_CNTS" \in VirtualTypes
    BY DEF VirtualTypes, Sends
  <1>3. ASSUME NoMore(toCalc, toCalc')
        PROVE  /\ Without("USB", toCalc', VirtualTypes \ {"VAR_REQ"})
               /\ Carries("USB", toCalc', "VAR_REQ", {op.slot})
    BY <1>2, <1>3 DEF NoMore, UsbRecv
  <1>4. ASSUME NoMore(toHost, toHost')
        PROVE  Carries("USB", toHost', "VAR_CNTS", {store[op.slot]})
    BY <1>2, <1>4 DEF NoMore, UsbRecv
  <1>5. CASE Heeds
    <2>1. calc'.in # <<>> => Collects("VAR_REQ")' /\ calc'.in[1].v.arg = op.slot
      BY <1>5 DEF Heeds, UsbRecv, Collects
    <2>2. \A i \in 1..Len(calc'.out) :
             calc'.out[i].type = "VAR_CNTS" => calc'.out[i].arg = store[op.slot]
      BY <1>5 DEF Heeds, UsbRecv, LessToSay
    <2>3. UNCHANGED store /\ NoMore(toCalc, toCalc') /\ NoMore(toHost, toHost')
      BY <1>5 DEF Heeds
    <2> QED
      BY <1>1, <1>3, <1>4, <2>1, <2>2, <2>3 DEF UsbRecv, Declares
  <1>6. CASE Takes
    <2>1. /\ toCalc # <<>> /\ toCalc' = Tail(toCalc) /\ Head(toCalc).kind \in Data
          /\ UNCHANGED store /\ NoMore(toHost, toHost')
          /\ calc'.in # <<>> /\ calc'.in[1].v = Head(toCalc).v /\ calc'.out = <<>>
      BY <1>6 DEF Takes, CalcHears
    <2>2. Head(toCalc).v.type = "VAR_REQ" /\ Head(toCalc).v.arg = op.slot
      BY <1>0, <2>1, TakenIs DEF UsbRecv
    <2>3. NoMore(toCalc, toCalc')
      BY <1>0, <2>1, UsbQueues, NoMoreIs
    <2>4. calc'.in # <<>> => Collects("VAR_REQ")' /\ calc'.in[1].v.arg = op.slot
      BY <2>1, <2>2 DEF Collects
    <2>5. \A i \in 1..Len(calc'.out) :
             calc'.out[i].type = "VAR_CNTS" => calc'.out[i].arg = store[op.slot]
      BY <2>1
    <2> QED
      BY <1>1, <1>3, <1>4, <2>1, <2>3, <2>4, <2>5 DEF UsbRecv, Declares
  <1>7. CASE Utters
    <2>1. UNCHANGED <<toCalc, store>> /\ calc'.in = calc.in /\ calc'.out = calc.out
      BY <1>7 DEF Utters
    <2>2. calc.out[1].type = "VAR_CNTS" => calc.out[1].arg \in {store[op.slot]}
      BY <1>7, Uttered DEF UsbRecv
    <2>3. Carries("USB", toHost', "VAR_CNTS", {store[op.slot]})
      BY <1>7, <2>2, Uttered DEF UsbRecv
    <2> QED
      BY <1>1, <2>1, <2>3 DEF UsbRecv, Declares, Collects
  <1>8. CASE CalcObeys
    <2> DEFINE v == calc.in[1].v
    <2>1. v.type = "VAR_REQ" /\ v.arg = op.slot
      BY <1>8 DEF CalcObeys, Complete, UsbRecv, Collects
    <2>2. Says(v) /\ Stores(v) /\ UNCHANGED <<toCalc, toHost>>
      BY <1>8, Obeyed DEF CalcObeys, wire
    <2> HIDE DEF v
    <2>3. UNCHANGED store
      BY <2>1, <2>2 DEF Stores
    <2>4. calc'.in = <<>>
      BY <2>2 DEF Says
    <2>5. \A i \in 1..Len(calc'.out) :
             calc'.out[i].type = "VAR_CNTS" => calc'.out[i].arg = store[op.slot]
      BY <2>1, <2>2 DEF Says
    <2> QED
      BY <1>1, <2>2, <2>3, <2>4, <2>5 DEF UsbRecv, Declares
  <1> QED
    BY <1>0, <1>5, <1>6, <1>7, <1>8, UsbTurns

LEMMA Names ==
  /\ VirtualTypes \ {"RTS"} \in SUBSET VirtualTypes
  /\ {"RTS"} \in SUBSET VirtualTypes /\ {"DATA_ACK"} \in SUBSET VirtualTypes
  /\ "VAR_CNTS" \in VirtualTypes /\ "RTS" \in VirtualTypes /\ "DATA_ACK" \in VirtualTypes
  BY DEF VirtualTypes, Sends

\* One packet at most waits for an answer: behind the one that is taken there is
\* none with data.
LEMMA LastTaken ==
  ASSUME UsbWire, Tokens, at # "idle", Takes
  PROVE  \A names \in SUBSET VirtualTypes : Without("USB", toCalc', names)
  <1>0. toCalc \in Seq(Raws)
    BY UsbQueues
  <1>1. Single(toCalc, ToAnswer)
    BY FreeIsSingle DEF Tokens, Calm, OneToken
  <1>2. toCalc # <<>> /\ toCalc' = Tail(toCalc) /\ Head(toCalc).kind \in ToAnswer
    BY DEF Takes, CalcHears, Data, ToAnswer
  <1>3. Free(toCalc', ToAnswer) /\ toCalc' \in Seq(Raws)
    BY <1>0, <1>1, <1>2, QueueTail, TailIs
  <1>4. Free(toCalc', Data)
    BY <1>3 DEF Free, Data, ToAnswer
  <1> QED
    BY <1>3, <1>4, FreeOfData

\* Packets are read or lost on the way, and the calculator has no more to say.
LEMMA OpeningHeeded ==
  ASSUME Opening, Heeds
  PROVE  Opening'
  <1>1. /\ NoMore(toCalc, toCalc') /\ NoMore(toHost, toHost') /\ LessToSay
        /\ calc'.in = <<>> \/ (calc.in # <<>> /\ calc'.in # <<>> /\ calc'.in[1].v = calc.in[1].v)
    BY DEF Heeds
  <1>2. OneAnswer /\ OneAnswer' /\ (ToSay' => ToSay) /\ (calc.out = <<>> => calc'.out = <<>>)
    BY <1>1 DEF LessToSay, OneAnswer, Opening
  <1>3. calc'.in # <<>> => Collects("RTS")' /\ calc.in # <<>>
    BY <1>1 DEF Collects, Opening
  <1>4. /\ Without("USB", toCalc', VirtualTypes \ {"RTS"})
        /\ Without("USB", toCalc, {"RTS"}) => Without("USB", toCalc', {"RTS"})
        /\ Without("USB", toHost, {"DATA_ACK"}) => Without("USB", toHost', {"DATA_ACK"})
        /\ AtMostOne("USB", toHost', {"DATA_ACK"})
    BY <1>1, Names DEF NoMore, Opening
  <1>5. /\ ~Without("USB", toCalc', {"RTS"}) => calc'.in = <<>> /\ calc'.out = <<>>
        /\ ~Without("USB", toCalc', {"RTS"}) \/ calc'.in # <<>> => Without("USB", toHost', {"DATA_ACK"})
        /\ Without("USB", toHost', {"DATA_ACK"}) \/ ~ToSay'
    BY <1>1, <1>2, <1>3, <1>4 DEF Opening
  <1> QED
    BY <1>2, <1>3, <1>4, <1>5 DEF Opening, OneAnswer

LEMMA DoneHeeded ==
  ASSUME Heeds, UNCHANGED op
  PROVE  (Done => Done') /\ (NoAck => NoAck')
  BY Names DEF Heeds, NoMore, LessToSay, Done, StoreOk, NoAck

LEMMA OpeningByCalc ==
  ASSUME CommonT, UsbT, UsbShape, Tokens, at # "idle", Opening, DusbCalc
  PROVE  Opening'
  <1>0. UsbWire /\ Collecting /\ Saying /\ toCalc \in Seq(Raws) /\ toHost \in Seq(Raws)
    BY UsbQueues DEF UsbT, UsbShape
  <1>1. /\ OneAnswer /\ Without("USB", toCalc, VirtualTypes \ {"RTS"})
        /\ calc.in # <<>> => Collects("RTS")
        /\ ~Without("USB", toCalc, {"RTS"}) => calc.in = <<>> /\ calc.out = <<>>
        /\ ~Without("USB", toCalc, {"RTS"}) \/ calc.in # <<>> => Without("USB", toHost, {"DATA_ACK"})
        /\ AtMostOne("USB", toHost, {"DATA_ACK"})
        /\ Without("USB", toHost, {"DATA_ACK"}) \/ ~ToSay
    BY DEF Opening, OneAnswer
  <1>2. ASSUME OneAnswer', Without("USB", toCalc', VirtualTypes \ {"RTS"}),
               calc'.in # <<>> => Collects("RTS")',
               ~Without("USB", toCalc', {"RTS"}) => calc'.in = <<>> /\ calc'.out = <<>>,
               ~Without("USB", toCalc', {"RTS"}) \/ calc'.in # <<>> =>
                  Without("USB", toHost', {"DATA_ACK"}),
               AtMostOne("USB", toHost', {"DATA_ACK"}),
               Without("USB", toHost', {"DATA_ACK"}) \/ ~ToSay'
        PROVE  Opening'
    BY <1>2 DEF Opening, OneAnswer
  <1>3. ASSUME NoMore(toCalc, toCalc')
        PROVE  /\ Without("USB", toCalc', VirtualTypes \ {"RTS"})
               /\ Without("USB", toCalc, {"RTS"}) => Without("USB", toCalc', {"RTS"})
    BY <1>1, <1>3, Names DEF NoMore
  <1>4. ASSUME NoMore(toHost, toHost')
        PROVE  /\ Without("USB", toHost, {"DATA_ACK"}) => Without("USB", toHost', {"DATA_ACK"})
               /\ AtMostOne("USB", toHost', {"DATA_ACK"})
    BY <1>1, <1>4, Names DEF NoMore
  <1>5. CASE Heeds
    BY <1>5, OpeningHeeded
  <1>6. CASE Takes
    <2>1. /\ toCalc # <<>> /\ toCalc' = Tail(toCalc) /\ Head(toCalc).kind \in Data
          /\ NoMore(toHost, toHost') /\ calc'.in # <<>> /\ calc'.in[1].v = Head(toCalc).v
          /\ calc'.out = <<>>
      BY <1>6 DEF Takes, CalcHears
    <2>2. Head(toCalc).v.type = "RTS" /\ ~Without("USB", toCalc, {"RTS"})
      BY <1>0, <1>1, <2>1, TakenIs
    <2>3. Without("USB", toCalc', {"RTS"}) /\ Without("USB", toCalc', VirtualTypes \ {"RTS"})
      BY <1>0, <1>6, Names, LastTaken
    <2>4. OneAnswer' /\ ~ToSay'
      BY <2>1 DEF OneAnswer, ToSay
    <2>5. Collects("RTS")'
      BY <2>1, <2>2 DEF Collects
    <2> QED
      BY <1>1, <1>2, <1>4, <2>1, <2>2, <2>3, <2>4, <2>5
  <1>7. CASE Utters
    <2>1. /\ calc.out # <<>> /\ UNCHANGED toCalc /\ calc'.in = calc.in /\ calc'.out = calc.out
      BY <1>7 DEF Utters
    <2>2. calc.in = <<>> /\ Without("USB", toCalc, {"RTS"})
      BY <1>0, <1>1, <2>1 DEF Collecting
    <2>3. OneAnswer'
      BY <1>1, <2>1 DEF OneAnswer
    <2>4. AtMostOne("USB", toHost', {"DATA_ACK"}) /\ (Without("USB", toHost', {"DATA_ACK"}) \/ ~ToSay')
      <3>1. CASE calc.out[1].type = "DATA_ACK"
        BY <1>1, <1>7, <3>1, Uttered
      <3>2. CASE calc.out[1].type # "DATA_ACK"
        <4>1. calc.out[1].type \notin {"DATA_ACK"}
          BY <3>2
        <4>2. AtMostOne("USB", toHost', {"DATA_ACK"})
          BY <1>1, <1>7, <4>1, Uttered
        <4>3. /\ Without("USB", toHost, {"DATA_ACK"}) => Without("USB", toHost', {"DATA_ACK"})
              /\ ToSay' => ToSay
          BY <1>7, <4>1, Uttered
        <4> QED
          BY <1>1, <4>2, <4>3
      <3> QED
        BY <3>1, <3>2
    <2> QED
      BY <1>1, <1>2, <2>1, <2>2, <2>3, <2>4
  <1>8. CASE CalcObeys
    <2>1. calc.in # <<>> /\ UNCHANGED <<toCalc, toHost>>
      BY <1>8 DEF CalcObeys, Complete, wire
    <2>2. Says(calc.in[1].v)
      BY <1>8, Obeyed
    <2>3. calc'.in = <<>> /\ OneAnswer'
      BY <2>2 DEF Says, OneAnswer
    <2> QED
      BY <1>1, <1>2, <2>1, <2>3
  <1> QED
    BY <1>0, <1>5, <1>6, <1>7, <1>8, UsbTurns

\* Past the answer to RTS: the next answer comes with the content in its variable,
\* and nothing takes it away again.
LEMMA DoneByCalc ==
  ASSUME CommonT, UsbT, UsbShape, IsMine, cable = "USB", at \in {"VAR_CNTS", "CNTS_ACK", "EOT"},
         op.kind = "send", UsbSend, DusbCalc
  PROVE  (Done => Done') /\ (NoAck => NoAck' \/ Done')
  <1>0. /\ UsbWire /\ Collecting /\ Saying /\ StoreT /\ op.slot \in Slots /\ op' = op
        /\ ~Collects("RTS") /\ Without("USB", toCalc, {"RTS"})
    BY CalcIsAlone DEF UsbT, UsbShape, CommonT, OpT, UsbSend
  <1>1. ASSUME NoMore(toHost, toHost'), ToSay' => ToSay PROVE NoAck => NoAck'
    BY <1>1, Names DEF NoMore, NoAck
  <1>2. ASSUME UNCHANGED store, calc.doing # "taking" => calc'.doing # "taking" PROVE Done => Done'
    BY <1>0, <1>2 DEF Done, StoreOk
  <1>3. CASE Heeds
    BY <1>0, <1>3, DoneHeeded
  <1>4. CASE Takes
    <2>1. ~ToSay'
      BY <1>4 DEF Takes, ToSay
    <2> QED
      BY <1>1, <1>2, <1>4, <2>1 DEF Takes
  <1>5. CASE Utters
    <2>1. Done => Done'
      BY <1>2, <1>5 DEF Utters
    <2>2. ASSUME NoAck PROVE NoAck'
      <3>1. calc.out[1].type \notin {"DATA_ACK"}
        BY <1>5, <2>2, Uttered DEF NoAck
      <3>2. Without("USB", toHost', {"DATA_ACK"})
        BY <1>5, <2>2, <3>1, Uttered DEF NoAck
      <3>3. ~ToSay'
        BY <1>5, <2>2, Uttered DEF NoAck
      <3> QED
        BY <3>2, <3>3 DEF NoAck
    <2> QED
      BY <2>1, <2>2
  <1>6. CASE CalcObeys
    <2> DEFINE v == calc.in[1].v
    <2>1. calc.in # <<>> /\ UNCHANGED <<toCalc, toHost>> /\ Says(v) /\ Stores(v)
      BY <1>6, Obeyed DEF CalcObeys, Complete, wire
    <2>2. v.type # "RTS"
      BY <1>0, <2>1 DEF Collects
    <2>3. v.type = "VAR_CNTS" => v.arg = op.content
      BY <2>1 DEF UsbSend, Collects
    <2>4. calc.doing = "taking" /\ calc.slot \in Slots /\ at # "EOT" => calc.slot = op.slot
      <3>1. ASSUME calc.doing = "taking", calc.slot \in Slots, at # "EOT" PROVE calc.slot \in Aim
        BY <1>0, <3>1 DEF Aim
      <3>2. at # "EOT" => Mine("USB", toCalc, Aim, op.slot)
        BY DEF IsMine, HasBegun
      <3>3. NoneAmong("USB", toCalc, 0 + 1, Len(toCalc)) /\ 0 \in 0..Len(toCalc)
        <4>1. Len(toCalc) \in Nat
          BY <1>0, LenProperties, UsbQueues
        <4>2. \A n \in 1..Len(toCalc) : ~Begins("USB", toCalc[n])
          BY <1>0, NameIs DEF Begins, Without
        <4> QED
          BY <4>1, <4>2 DEF NoneAmong
      <3>4. at # "EOT" => Opened("USB", toCalc, Aim, 0) \subseteq {op.slot}
        BY <3>2, <3>3 DEF Mine
      <3>5. Opened("USB", toCalc, Aim, 0) = Aim
        BY DEF Opened
      <3> QED
        BY <3>1, <3>4, <3>5
    <2>5. calc'.doing # "taking"
      BY <2>1, <2>2 DEF Stores
    <2> HIDE DEF v
    <2>6. ASSUME calc.doing = "taking", v.type = "VAR_CNTS", calc.slot \in Slots,
                 store' = [store EXCEPT ![calc.slot] = v.arg], at # "EOT"
          PROVE  Done'
      <3>1. store'[op.slot] = op.content
        BY <1>0, <2>3, <2>4, <2>6 DEF StoreT
      <3> QED
        BY <1>0, <2>5, <3>1 DEF Done, StoreOk
    <2>7. UNCHANGED store /\ Done => Done'
      BY <1>2, <2>5
    <2>8. \/ UNCHANGED store
          \/ /\ v.type = "VAR_CNTS" /\ calc.doing = "taking" /\ calc.slot \in Slots
             /\ store' = [store EXCEPT ![calc.slot] = v.arg]
      BY <2>1, <2>2 DEF Stores
    <2>9. Done => Done'
      BY <2>7, <2>8 DEF Done
    <2>10. ASSUME NoAck PROVE NoAck' \/ Done'
      <3>1. CASE ~ToSay'
        BY <2>1, <2>10, <3>1 DEF NoAck
      <3>2. CASE ToSay'
        <4>1. /\ v.type = "VAR_CNTS" /\ calc.doing = "taking"
              /\ store' = [store EXCEPT ![calc.slot] = v.arg]
          <5>1. PICK i \in 1..Len(calc'.out) : calc'.out[i].type = "DATA_ACK"
            BY <3>2 DEF ToSay
          <5> QED
            BY <2>1, <2>2, <5>1 DEF Says
        <4>2. calc.slot \in Slots
          BY <4>1 DEF CommonT, CalcT
        <4>3. CASE at # "EOT"
          BY <2>6, <4>1, <4>2, <4>3
        <4>4. CASE at = "EOT"
          BY <4>1, <4>4 DEF UsbSend, Done
        <4> QED
          BY <4>3, <4>4
      <3> QED
        BY <3>1, <3>2
    <2> QED
      BY <2>9, <2>10
  <1> QED
    BY <1>0, <1>3, <1>4, <1>5, <1>6, UsbTurns

LEMMA UsbSendAt ==
  ASSUME UsbAt, AtT, op.kind = "send", at # "idle"
  PROVE  at \in {"RTS", "RTS_ACK", "VAR_CNTS", "CNTS_ACK", "EOT"}
  BY DEF UsbAt, AtT, Sends, Awaits, ReadySteps, RecvSteps

LEMMA UsbCalcSend ==
  ASSUME CommonT, UsbT, UsbShape, IsMine, Tokens, cable = "USB", at # "idle",
         op.kind = "send", UsbSend, DusbCalc
  PROVE  UsbSend'
  <1>0. /\ UsbWire /\ Collecting /\ Saying /\ UNCHANGED <<op, at, out>>
        /\ toCalc \in Seq(Raws)
        /\ Heeds \/ Takes \/ Utters \/ CalcObeys
    BY CalcIsAlone, UsbQueues, UsbTurns DEF UsbT, UsbShape
  <1>1. at = "RTS" /\ out.phase = "first" => FALSE
    BY QuietStill DEF UsbSend
  <1>2. at \in {"RTS", "RTS_ACK"} => Opening'
    BY OpeningByCalc DEF UsbSend
  <1>3. /\ at \in {"VAR_CNTS", "CNTS_ACK"} => NoAck' \/ Done'
        /\ at = "EOT" => Done'
    BY DoneByCalc DEF UsbSend
  <1>4. ASSUME NoMore(toCalc, toCalc')
        PROVE  /\ Carries("USB", toCalc', "VAR_CNTS", {op.content})
               /\ at \in {"VAR_CNTS", "CNTS_ACK", "EOT"} => Without("USB", toCalc', {"RTS"})
    BY <1>4, Names DEF NoMore, UsbSend
  <1>5. /\ Carries("USB", toCalc', "VAR_CNTS", {op.content})
        /\ Collects("VAR_CNTS")' => calc'.in[1].v.arg = op.content
        /\ at \in {"VAR_CNTS", "CNTS_ACK", "EOT"} =>
              Without("USB", toCalc', {"RTS"}) /\ ~Collects("RTS")'
    <2>1. CASE Heeds
      BY <1>4, <2>1 DEF Heeds, Collects, UsbSend
    <2>2. CASE Takes
      <3>1. /\ toCalc # <<>> /\ toCalc' = Tail(toCalc) /\ Head(toCalc).kind \in Data
            /\ calc'.in # <<>> /\ calc'.in[1].v = Head(toCalc).v
        BY <2>2 DEF Takes, CalcHears
      <3>2. NoMore(toCalc, toCalc')
        <4>1. toCalc \in Seq(Raws)
          BY <1>0
        <4> QED
          BY <3>1, <4>1, NoMoreIs
      <3>3. /\ Head(toCalc).v.type = "VAR_CNTS" => Head(toCalc).v.arg \in {op.content}
            /\ at \in {"VAR_CNTS", "CNTS_ACK", "EOT"} => Head(toCalc).v.type \notin {"RTS"}
        BY <1>0, <3>1, TakenIs DEF UsbSend
      <3> QED
        BY <1>4, <3>1, <3>2, <3>3 DEF Collects
    <2>3. CASE Utters
      BY <2>3 DEF Utters, Collects, UsbSend
    <2>4. CASE CalcObeys
      <3>1. UNCHANGED toCalc /\ calc'.in = <<>>
        BY <2>4, Obeyed DEF CalcObeys, wire, Says
      <3> QED
        BY <3>1 DEF Collects, UsbSend
    <2> QED
      BY <1>0, <2>1, <2>2, <2>3, <2>4
  <1> QED
    BY <1>0, <1>1, <1>2, <1>3, <1>5 DEF UsbSend

-----------------------------------------------------------------------------
(* The program's steps                                                     *)

\* It sends a packet with data, or hears and goes on: at the same step, past an
\* acknowledgement, or past the virtual packet it awaited.
Transmits ==
    /\ at \in Sends /\ at' = at /\ UNCHANGED <<toHost, in>>
    /\ out'.phase = "ack" /\ (at = "RTS" => out.phase = "first")
    /\ \E p \in Raws : p.kind \in Data /\ p.v = Outgoing /\ Put(p)
Hears ==
    /\ NoMore(toCalc, toCalc') /\ NoMore(toHost, toHost')
    /\ \/ at' = at /\ (at \in Sends => out'.phase # "first")
       \/ at \in Sends \ {"EOT"} /\ at' = After[at]
       \/ /\ at \in Awaits /\ at' = After[at]
          /\ at \in {"RTS_ACK", "CNTS_ACK"} =>
                /\ toHost # <<>> /\ toHost' = Tail(toHost)
                /\ Heard.kind \in Data /\ Heard.v.type = "DATA_ACK"
       \/ at \in {"sizeReq", "sizeAlloc"} /\ at' \in {"sizeAlloc", "PING"}

LEMMA HostIsAlone ==
  ASSUME DusbHost
  PROVE  at # "idle" /\ UNCHANGED <<op, offered, ops, calc, store>>
  BY DEF DusbHost, BufSizeRequest, BufSizeAlloc, SendFirst, RecvAcknowledge, SendNext, RecvData,
         DusbGivesUp, Transmit, Acknowledged, Delivered, WriteFails, PutFails, ReadTimesOut, GoOn, Fail,
         Finish, calculator, Sends, Awaits

LEMMA UsbHostTurns ==
  ASSUME CommonT, UsbT, UsbShape, Cut, DusbHost, at' # "idle"
  PROVE  Transmits \/ Hears
  <1>0. /\ UsbWire /\ OpT /\ AtT /\ OutT /\ Sized /\ MaxlenT /\ Sending
        /\ toCalc \in Seq(Raws) /\ toHost \in Seq(Raws)
        /\ at \in Sends => Outgoing \in Virtuals /\ Outgoing.size \in Nat
    BY UsbQueues, OutgoingT DEF UsbT, CommonT, UsbShape, Virtuals
  <1>1. NoMore(toCalc, toCalc) /\ NoMore(toHost, toHost)
        /\ (toHost # <<>> => NoMore(toHost, Tail(toHost)))
    BY <1>0, NoMoreIs
  <1>2. ASSUME NEW p \in Raws, p.kind \notin Data, Put(p) PROVE NoMore(toCalc, toCalc')
    BY <1>0, <1>2, NoMoreIs DEF Put
  <1>3. ASSUME at \in Sends, NEW kind \in Data, NEW from \in Nat, NEW to \in Nat,
               Put(Raw(kind, Outgoing, from, to))
        PROVE  \E p \in Raws : p.kind \in Data /\ p.v = Outgoing /\ Put(p)
    <2> DEFINE p == Raw(kind, Outgoing, from, to)
    <2>1. p \in Raws /\ p.kind = kind /\ p.v = Outgoing
      BY <1>0, <1>3, RawT DEF Raw, Data
    <2> QED
      BY <1>3, <2>1
  <1>4. CASE BufSizeRequest
    <2>1. Size("SIZE_REQ", 1024) \in Raws /\ Size("SIZE_REQ", 1024).kind \notin Data
      BY SizeT DEF Size, Raw, Data
    <2>2. /\ Put(Size("SIZE_REQ", 1024)) /\ toHost' = toHost /\ at = "sizeReq" /\ at' = "sizeAlloc"
      BY <1>4 DEF BufSizeRequest, GoOn
    <2> QED
      BY <1>1, <1>2, <2>1, <2>2 DEF Hears
  <1>5. CASE BufSizeAlloc
    <2>1. /\ at = "sizeAlloc" /\ at' = "PING" /\ toCalc' = toCalc
          /\ toHost # <<>> /\ toHost' = Tail(toHost)
      BY <1>5 DEF BufSizeAlloc, GoOn, Fail, Finish
    <2> QED
      BY <1>1, <2>1 DEF Hears
  <1>6. CASE SendFirst
    <2> DEFINE room == maxlen - HeaderSize
    <2>1. /\ at \in Sends /\ at' = at /\ UNCHANGED <<toHost, in>> /\ out.phase = "first"
          /\ room \in Nat /\ 0 \in Nat
      BY <1>0, <1>6 DEF SendFirst, Transmit, HeaderSize, Sized
    <2>2. PICK raw : Transmit(raw)
      BY <1>6 DEF SendFirst
    <2>3. out'.phase = "ack"
      BY <1>0, <2>2 DEF Transmit, OutT
    <2>4. \E p \in Raws : p.kind \in Data /\ p.v = Outgoing /\ Put(p)
      <3>1. CASE Put(Raw("LAST", Outgoing, 0, Outgoing.size))
        BY <1>0, <1>3, <2>1, <3>1 DEF Data
      <3>2. CASE Put(Raw("DATA", Outgoing, 0, room))
        BY <1>3, <2>1, <3>2 DEF Data
      <3> QED
        BY <1>6, <3>1, <3>2 DEF SendFirst, Transmit
    <2> QED
      BY <2>1, <2>3, <2>4 DEF Transmits
  <1>7. CASE RecvAcknowledge
    <2>0. /\ at \in Sends /\ out.phase \in {"ack", "ackOnly"}
          /\ toHost # <<>> /\ toHost' = Tail(toHost) /\ Heard \in HostRaws /\ Heard.to \in Nat
      BY <1>0, <1>7, UsbHeardT DEF RecvAcknowledge
    <2>1. CASE Heard.kind = "SIZE_REQ" /\ out.phase = "ack"
      <3>0. ~PutFails
        BY DEF PutFails, Fail, Finish
      <3>1. /\ Put(Size("SIZE_ALLOC", Heard.to)) /\ at' = at
            /\ out' = [out EXCEPT !.phase = "ackOnly"]
        BY <1>7, <2>1, <3>0 DEF RecvAcknowledge, GoOn
      <3>2. out'.phase = "ackOnly"
        BY <1>0, <3>1 DEF OutT
      <3>3. Size("SIZE_ALLOC", Heard.to) \in Raws /\ Size("SIZE_ALLOC", Heard.to).kind \notin Data
        BY <2>0, SizeT DEF Size, Raw, Data
      <3> QED
        BY <1>1, <1>2, <2>0, <3>1, <3>2, <3>3 DEF Hears
    <2>2. CASE ~(Heard.kind = "SIZE_REQ" /\ out.phase = "ack") /\ Heard.kind = "ACK"
      <3>1. UNCHANGED toCalc /\ Acknowledged
        BY <1>7, <2>2 DEF RecvAcknowledge
      <3>2. CASE ~out.final
        <4>1. at' = at /\ out' = [Count EXCEPT !.phase = "next"]
          BY <3>1, <3>2 DEF Acknowledged, GoOn
        <4>2. Count \in [phase : {"first", "ack", "ackOnly", "next"}, sent : Nat, full : Int,
                         rest : Nat, final : BOOLEAN]
          <5>1. out.full # Unknown => Count = out
            BY DEF Count
          <5>2. ASSUME out.full = Unknown
                PROVE  Count = [out EXCEPT !.full = (Outgoing.size - out.sent) \div maxlen,
                                           !.rest = (Outgoing.size - out.sent) % maxlen]
            BY <5>2 DEF Count
          <5>3. /\ (Outgoing.size - out.sent) \div maxlen \in Int
                /\ (Outgoing.size - out.sent) % maxlen \in Nat
            <6>1. maxlen \in Grants
              BY <1>0, <2>0 DEF Sized
            <6>2. maxlen \in Nat /\ maxlen > 0
              BY <6>1
            <6>3. Outgoing.size \in Nat /\ out.sent \in Nat
              BY <1>0, <2>0 DEF OutT
            <6>4. Outgoing.size - out.sent \in Int
              BY <6>3
            <6> QED
              BY <6>2, <6>4, Division
          <5> QED
            BY <1>0, <5>1, <5>2, <5>3 DEF OutT
        <4>3. out'.phase = "next"
          BY <4>1, <4>2
        <4> QED
          BY <1>1, <2>0, <3>1, <4>1, <4>3 DEF Hears
      <3>3. CASE out.final
        <4>1. at # "EOT" /\ at' = After[at]
          BY <3>1, <3>3 DEF Acknowledged, Finish, GoOn
        <4> QED
          BY <1>1, <2>0, <3>1, <4>1 DEF Hears
      <3> QED
        BY <3>2, <3>3
    <2>3. CASE ~(Heard.kind = "SIZE_REQ" /\ out.phase = "ack") /\ Heard.kind # "ACK"
      BY <1>7, <2>3 DEF RecvAcknowledge, Fail, Finish
    <2> QED
      BY <2>1, <2>2, <2>3
  <1>8. CASE SendNext
    <2>1. /\ at = "VAR_CNTS" /\ at \in Sends /\ at' = at /\ UNCHANGED <<toHost, in>>
          /\ out.sent \in Nat /\ out.rest \in Nat /\ maxlen \in Nat
      BY <1>0, <1>8 DEF SendNext, Sending, OutT, MaxlenT, Sends
    <2>2. PICK kind \in Data, to \in Nat : Put(Raw(kind, Outgoing, out.sent, to))
      <3>1. out.sent + maxlen \in Nat /\ out.sent + out.rest \in Nat
        BY <2>1
      <3> QED
        BY <1>8, <3>1 DEF SendNext, Data
    <2>3. out'.phase = "ack"
      BY <1>0, <1>8 DEF SendNext, OutT
    <2> QED
      BY <1>3, <2>1, <2>2, <2>3 DEF Transmits
  <1>9. CASE RecvData
    <2>1. at \in Awaits /\ at \notin Sends /\ toHost # <<>> /\ toHost' = Tail(toHost)
      BY <1>9 DEF RecvData, Sends, Awaits
    <2>2. UNCHANGED toCalc \/ Put(Acknowledge)
      BY <1>9 DEF RecvData, PutFails
    <2>3. Acknowledge \in Raws /\ Acknowledge.kind \notin Data
      BY AckT DEF Acknowledge, Raw, Data
    <2>4. NoMore(toCalc, toCalc') /\ NoMore(toHost, toHost')
      BY <1>1, <1>2, <2>1, <2>2, <2>3
    <2>5. CASE at' = at
      BY <2>1, <2>4, <2>5 DEF Hears
    <2>6. CASE at' # at
      <3> DEFINE v == IF in.begun THEN in.v ELSE IF Heard.from = 0 THEN Heard.v ELSE Headerless
      <3>0. ~Fail /\ ~PutFails
        BY DEF PutFails, Fail, Finish
      <3>1. Heard.kind = "LAST" /\ Delivered(v)
        BY <1>9, <2>6, <3>0 DEF RecvData, GoOn, Data
      <3>2. v.type = Expected[at] /\ at' = After[at]
        BY <2>6, <3>0, <3>1 DEF Delivered, GoOn, Finish
      <3>3. ASSUME at \in {"RTS_ACK", "CNTS_ACK"} PROVE Heard.v.type = "DATA_ACK"
        <4>1. v.type = "DATA_ACK" /\ v # Headerless
          BY <3>2, <3>3, HeaderlessT DEF Expected
        <4>2. ~in.begun
          BY <4>1 DEF Cut, Declares
        <4> QED
          BY <4>1, <4>2
      <3> QED
        BY <2>1, <2>4, <3>1, <3>2, <3>3 DEF Hears, Data
    <2> QED
      BY <2>5, <2>6
  <1>10. CASE DusbGivesUp
    BY <1>10 DEF DusbGivesUp, WriteFails, PutFails, ReadTimesOut, Fail, Finish
  <1> QED
    BY <1>4, <1>5, <1>6, <1>7, <1>8, <1>9, <1>10 DEF DusbHost

LEMMA HeardIsHeeded ==
  ASSUME NoMore(toCalc, toCalc'), NoMore(toHost, toHost'), UNCHANGED <<calc, store>>
  PROVE  Heeds
  BY LessIs DEF Heeds

\* What Transmits adds to the queue.
LEMMA TransmittedIs ==
  ASSUME CommonT, UsbT, Transmits
  PROVE  /\ \A names : Without("USB", toCalc, names) /\ at \notin names =>
                          Without("USB", toCalc', names)
         /\ \A name, args : Carries("USB", toCalc, name, args) /\ (at = name => Outgoing.arg \in args) =>
                          Carries("USB", toCalc', name, args)
  <1>1. PICK p \in Raws : p.kind \in Data /\ p.v = Outgoing /\ Put(p)
    BY DEF Transmits
  <1>2. Outgoing.type = at
    BY OutgoingT DEF Transmits, CommonT
  <1>3. Name("USB", p) = at /\ Arg("USB", p) = Outgoing.arg
    BY <1>1, <1>2, NameIs
  <1>4. toCalc \in Seq(Raws) /\ toCalc' = Append(toCalc, p)
    BY <1>1, UsbQueues DEF Put, UsbT
  <1> QED
    BY <1>1, <1>3, <1>4, NamedAppend

LEMMA UsbHostSend ==
  ASSUME CommonT, UsbT, UsbShape, Cut, op.kind = "send", UsbSend, DusbHost, at' # "idle"
  PROVE  UsbSend'
  <1>0. /\ at # "idle" /\ UNCHANGED <<op, calc, store>>
        /\ at \in {"RTS", "RTS_ACK", "VAR_CNTS", "CNTS_ACK", "EOT"}
        /\ toCalc \in Seq(Raws) /\ toHost \in Seq(Raws)
    BY HostIsAlone, UsbSendAt, UsbQueues DEF UsbT, CommonT
  <1>1. (Done' <=> Done) /\ (ToSay' <=> ToSay) /\ \A type : Collects(type)' <=> Collects(type)
    BY <1>0 DEF Done, StoreOk, ToSay, Collects
  <1>2. CASE Transmits
    <2>1. /\ at \in Sends /\ at' = at /\ UNCHANGED toHost /\ out'.phase = "ack"
          /\ at = "RTS" => out.phase = "first"
          /\ at = "VAR_CNTS" => Outgoing.arg = op.content
      BY <1>2, VirtualIs DEF Transmits, Outgoing
    <2>2. Carries("USB", toCalc', "VAR_CNTS", {op.content})
      BY <1>2, <2>1, TransmittedIs DEF UsbSend
    <2>3. at \in {"VAR_CNTS", "EOT"} => Without("USB", toCalc', {"RTS"})
      <3>1. at \in {"VAR_CNTS", "EOT"} => at \notin {"RTS"} /\ Without("USB", toCalc, {"RTS"})
        BY DEF UsbSend
      <3> QED
        BY <1>2, <3>1, TransmittedIs
    <2>4. at = "RTS" => Opening'
      <3>1. ASSUME at = "RTS"
            PROVE  /\ toCalc = <<>> /\ toHost' = <<>> /\ calc'.in = <<>> /\ calc'.out = <<>>
        BY <1>0, <2>1, <3>1 DEF UsbSend, Quiet
      <3>2. at = "RTS" => Without("USB", toCalc', VirtualTypes \ {"RTS"})
        <4>1. Without("USB", <<>>, VirtualTypes \ {"RTS"})
          BY ThinnerEmpty
        <4>2. at = "RTS" => at \notin VirtualTypes \ {"RTS"}
          OBVIOUS
        <4> QED
          BY <1>2, <3>1, <4>1, <4>2, TransmittedIs
      <3>3. Without("USB", <<>>, {"DATA_ACK"}) /\ AtMostOne("USB", <<>>, {"DATA_ACK"})
        BY ThinnerEmpty
      <3> QED
        BY <3>1, <3>2, <3>3 DEF Opening
    <2>5. at # "RTS_ACK" /\ at # "CNTS_ACK"
      BY <2>1 DEF Sends
    <2>6. at = "VAR_CNTS" => NoAck' \/ Done'
      BY <1>1, <2>1 DEF UsbSend, NoAck
    <2>7. at \in {"VAR_CNTS", "EOT"} => ~Collects("RTS")'
      BY <1>1 DEF UsbSend
    <2>8. Collects("VAR_CNTS")' => calc'.in[1].v.arg = op'.content
      BY <1>0, <1>1 DEF UsbSend
    <2>9. at = "EOT" => Done'
      BY <1>1 DEF UsbSend
    <2> QED
      BY <1>0, <2>1, <2>2, <2>3, <2>4, <2>5, <2>6, <2>7, <2>8, <2>9 DEF UsbSend
  <1>3. CASE Hears
    <2>1. Heeds /\ NoMore(toCalc, toCalc') /\ NoMore(toHost, toHost')
      BY <1>0, <1>3, HeardIsHeeded DEF Hears
    <2>2. at \in {"RTS", "RTS_ACK"} => Opening'
      BY <2>1, OpeningHeeded DEF UsbSend
    <2>3. NoAck \/ Done => NoAck' \/ Done'
      BY <1>0, <2>1, DoneHeeded
    <2>4. /\ Carries("USB", toCalc', "VAR_CNTS", {op.content})
          /\ Without("USB", toCalc, {"RTS"}) => Without("USB", toCalc', {"RTS"})
      BY <2>1, Names DEF NoMore, UsbSend
    <2>5. Collects("VAR_CNTS")' => calc'.in[1].v.arg = op'.content
      BY <1>0, <1>1 DEF UsbSend
    <2>6. CASE at' = at /\ (at \in Sends => out'.phase # "first")
      <3>1. at = "RTS" => out'.phase # "first"
        BY <2>6 DEF Sends
      <3> QED
        BY <1>0, <1>1, <2>2, <2>3, <2>4, <2>5, <2>6, <3>1 DEF UsbSend
    <2>7. CASE at \in Sends \ {"EOT"} /\ at' = After[at]
      <3>1. (at = "RTS" /\ at' = "RTS_ACK") \/ (at = "VAR_CNTS" /\ at' = "CNTS_ACK")
        BY <1>0, <2>7 DEF Sends, After
      <3> QED
        BY <1>0, <1>1, <2>2, <2>3, <2>4, <2>5, <3>1 DEF UsbSend
    <2>8. CASE at \in Awaits /\ at' = After[at]
      <3>1. (at = "RTS_ACK" /\ at' = "VAR_CNTS") \/ (at = "CNTS_ACK" /\ at' = "EOT")
        BY <1>0, <2>8 DEF Awaits, After
      <3>2. /\ toHost # <<>> /\ toHost' = Tail(toHost)
            /\ Heard.kind \in Data /\ Heard.v.type = "DATA_ACK"
        BY <1>3, <2>8, <3>1 DEF Hears, After, Sends
      <3>3. Name("USB", Head(toHost)) \in {"DATA_ACK"}
        BY <3>2, NameIs DEF Heard
      <3>4. /\ ~Without("USB", toHost, {"DATA_ACK"})
            /\ AtMostOne("USB", toHost, {"DATA_ACK"}) => Without("USB", toHost', {"DATA_ACK"})
        BY <1>0, <3>2, <3>3, ThinnerTail
      <3>5. CASE at = "RTS_ACK" /\ at' = "VAR_CNTS"
        <4>1. /\ Without("USB", toCalc, {"RTS"}) /\ calc.in = <<>> /\ ~ToSay
              /\ AtMostOne("USB", toHost, {"DATA_ACK"})
          BY <3>4, <3>5 DEF UsbSend, Opening
        <4>2. NoAck'
          BY <1>1, <3>4, <4>1 DEF NoAck
        <4>3. ~Collects("RTS")'
          BY <1>1, <4>1 DEF Collects
        <4> QED
          BY <1>0, <2>4, <2>5, <3>5, <4>1, <4>2, <4>3 DEF UsbSend
      <3>6. CASE at = "CNTS_ACK" /\ at' = "EOT"
        <4>1. Done'
          BY <1>1, <3>4, <3>6 DEF UsbSend, NoAck
        <4>2. Without("USB", toCalc', {"RTS"}) /\ ~Collects("RTS")'
          BY <1>1, <2>4, <3>6 DEF UsbSend
        <4> QED
          BY <1>0, <2>4, <2>5, <3>6, <4>1, <4>2 DEF UsbSend
      <3> QED
        BY <3>1, <3>5, <3>6
    <2> QED
      BY <1>0, <1>3, <2>6, <2>7, <2>8 DEF Hears
  <1> QED
    BY <1>0, <1>2, <1>3, UsbHostTurns

LEMMA UsbHostRecv ==
  ASSUME CommonT, UsbT, UsbShape, Cut, op.kind = "recv", UsbRecv, DusbHost, at' # "idle"
  PROVE  UsbRecv'
  <1>0. /\ at # "idle" /\ UNCHANGED <<op, calc, store>> /\ OpT /\ AtT
        /\ toCalc \in Seq(Raws) /\ toHost \in Seq(Raws)
    BY HostIsAlone, UsbQueues DEF UsbT, CommonT
  <1>1. at \in Sends => at = "VAR_REQ"
    BY <1>0 DEF AtT, Sends, SendSteps, ReadySteps
  <1>2. at \in Sends => Outgoing.arg = op.slot
    BY <1>1, VirtualIs DEF Outgoing
  <1>3. VirtualTypes \ {"VAR_REQ"} \in SUBSET VirtualTypes /\ "VAR_REQ" \in VirtualTypes
    BY DEF VirtualTypes, Sends
  <1>4. /\ Without("USB", toCalc', VirtualTypes \ {"VAR_REQ"})
        /\ Carries("USB", toCalc', "VAR_REQ", {op.slot})
        /\ Carries("USB", toHost', "VAR_CNTS", {store[op.slot]})
    <2>1. CASE Transmits
      <3>1. at \in Sends /\ UNCHANGED toHost
        BY <2>1 DEF Transmits
      <3>2. at \notin VirtualTypes \ {"VAR_REQ"} /\ Outgoing.arg \in {op.slot}
        BY <1>1, <1>2, <3>1
      <3>3. Without("USB", toCalc', VirtualTypes \ {"VAR_REQ"})
        BY <2>1, <3>2, TransmittedIs DEF UsbRecv
      <3>4. Carries("USB", toCalc', "VAR_REQ", {op.slot})
        BY <2>1, <3>2, TransmittedIs DEF UsbRecv
      <3> QED
        BY <3>1, <3>3, <3>4 DEF UsbRecv
    <2>2. CASE Hears
      BY <1>3, <2>2, Names DEF Hears, NoMore, UsbRecv
    <2> QED
      BY <2>1, <2>2, UsbHostTurns
  <1>5. Declares' => in'.v.arg = store[op.slot]
    <2>0. Headerless' = Headerless
      BY DEF Headerless, NoData
    <2>1. CASE RecvData
      <3>1. /\ Nothing.begun = FALSE
            /\ [Nothing EXCEPT !.delayed = TRUE].begun = FALSE
        BY DEF Nothing
      <3>2. in' = Nothing \/ in' = [Nothing EXCEPT !.delayed = TRUE] \/ Heard.kind = "DATA"
        BY <2>1 DEF RecvData, Delivered
      <3> DEFINE v == IF in.begun THEN in.v ELSE IF Heard.from = 0 THEN Heard.v ELSE Headerless
      <3>3. ASSUME Heard.kind = "DATA", in' # Nothing
            PROVE  (in'.v = in.v /\ in.begun) \/ in'.v \in {Heard.v, Headerless}
        <4>1. \E size : in' = [in EXCEPT !.begun = TRUE, !.v = v, !.size = size]
          BY ZenonT(60), <2>1, <3>3 DEF RecvData
        <4> HIDE DEF v
        <4>2. in'.v = v
          BY <4>1 DEF UsbT, InT
        <4> QED
          BY <4>2 DEF v
      <3>4. Heard.kind = "DATA" => Heard.v.arg = store[op.slot]
        <4>1. toHost # <<>> /\ Heard = Head(toHost) /\ Heard = toHost[1] /\ 1 \in 1..Len(toHost)
          BY <1>0, <2>1, TailIs DEF RecvData, Heard
        <4>2. Heard.kind = "DATA" => Heard.v.type = "VAR_CNTS"
          BY <4>1 DEF Cut, CutOf
        <4>3. Heard.kind = "DATA" => Name("USB", toHost[1]) = Heard.v.type
                                       /\ Arg("USB", toHost[1]) = Heard.v.arg
          BY <4>1, NameIs DEF Data
        <4> QED
          BY <4>1, <4>2, <4>3 DEF UsbRecv, Carries
      <3> QED
        BY <2>0, <3>1, <3>2, <3>3, <3>4 DEF UsbRecv, Declares
    <2>2. CASE DusbGivesUp
      BY <2>2 DEF DusbGivesUp, Nothing, Declares
    <2>3. CASE BufSizeRequest \/ BufSizeAlloc \/ SendFirst \/ RecvAcknowledge \/ SendNext
      <3>1. in' = in
        BY <2>3 DEF BufSizeRequest, BufSizeAlloc, SendFirst, Transmit, RecvAcknowledge, SendNext,
                    dusbVars
      <3> QED
        BY <2>0, <3>1 DEF UsbRecv, Declares
    <2> QED
      BY <2>1, <2>2, <2>3 DEF DusbHost
  <1>6. calc'.in # <<>> => Collects("VAR_REQ")' /\ calc'.in[1].v.arg = op'.slot
    BY <1>0 DEF UsbRecv, Collects
  <1>7. \A i \in 1..Len(calc'.out) :
           calc'.out[i].type = "VAR_CNTS" => calc'.out[i].arg = store'[op'.slot]
    BY <1>0 DEF UsbRecv
  <1> QED
    BY <1>0, <1>4, <1>5, <1>6, <1>7 DEF UsbRecv

LEMMA UsbBegins ==
  ASSUME DusbBegin
  PROVE  \E kind, x, c, first :
            /\ kind = "send" => first = "RTS"
            /\ kind = "recv" => first = "VAR_REQ"
            /\ Begin(kind, x, c, first) /\ UNCHANGED <<out, in>>
  <1>1. UNCHANGED <<out, in>>
    BY DEF DusbBegin, dusbVars
  <1>2. CASE Begin("ready", Absent, Absent, "sizeReq")
    BY <1>1, <1>2
  <1>3. CASE \E s \in Slots, c \in Contents : Begin("send", s, c, "RTS")
    BY <1>1, <1>3
  <1>4. CASE \E s \in Slots : Begin("recv", s, Absent, "VAR_REQ")
    BY <1>1, <1>4
  <1> QED
    BY <1>2, <1>3, <1>4 DEF DusbBegin

LEMMA UsbCleanKept ==
  ASSUME TypeInv, FragInv, SafeInv, UsbClean, CutInv, OnDusb(DusbNext)
  PROVE  UsbClean' /\ CutInv'
  <1>0. /\ cable = "USB" /\ cable' = cable /\ CommonT /\ UsbT /\ IsMine /\ UsbShape /\ Cut
        /\ Sending /\ (op.clean => Tokens)
    BY DEF OnDusb, TypeInv, FragInv, SafeInv, CutInv, UsbShape
  <1>1. CASE DusbBegin
    <2>1. PICK kind, x, c, first :
             /\ kind = "send" => first = "RTS"
             /\ kind = "recv" => first = "VAR_REQ"
             /\ Begin(kind, x, c, first) /\ UNCHANGED <<out, in>>
      BY <1>1, UsbBegins
    <2>2. /\ at = "idle" /\ op' = [kind |-> kind, slot |-> x, content |-> c, clean |-> Quiet]
          /\ at' = first /\ UNCHANGED <<toCalc, toHost, calc, store, in>>
      BY <2>1 DEF Begin, wire, calculator
    <2>3. CutInv'
      BY <1>0, <2>2 DEF CutInv, Cut, Declares
    <2>4. ASSUME op'.clean PROVE (op'.kind = "send" => UsbSend') /\ (op'.kind = "recv" => UsbRecv')
      <3>1. Quiet /\ Quiet' /\ op'.kind = kind
        BY <2>2, <2>4 DEF Quiet
      <3>2. toCalc' = <<>> /\ toHost' = <<>> /\ calc'.in = <<>> /\ calc'.out = <<>>
        BY <3>1 DEF Quiet
      <3>3. \A names, name, args : Without("USB", <<>>, names) /\ Carries("USB", <<>>, name, args)
                                     /\ AtMostOne("USB", <<>>, names)
        BY ThinnerEmpty
      <3>4. ~in'.begun
        BY <1>0, <2>2 DEF Sending, Awaits
      <3>5. at' = "RTS" => UsbSend'
        BY <3>1, <3>2, <3>3 DEF UsbSend, Opening, Collects
      <3>6. at' = "VAR_REQ" => UsbRecv'
        BY SMTT(30), <3>2, <3>3, <3>4 DEF UsbRecv, Declares
      <3> QED
        BY <2>1, <2>2, <3>1, <3>5, <3>6
    <2> QED
      BY <2>3, <2>4 DEF UsbClean
  <1>2. CASE DusbHost
    <2>1. at # "idle" /\ op' = op
      BY <1>2, HostIsAlone
    <2>2. CutInv'
      BY <1>0, <1>2, CutByHost DEF CutInv
    <2> QED
      BY <1>0, <1>2, <2>1, <2>2, UsbHostSend, UsbHostRecv DEF UsbClean
  <1>3. CASE DusbCalc
    <2>1. UNCHANGED <<op, at>>
      BY <1>3, CalcIsAlone
    <2>2. CutInv'
      BY <1>0, <1>3, CutByCalc DEF CutInv
    <2> QED
      BY <1>0, <1>3, <2>1, <2>2, UsbCalcSend, UsbCalcRecv DEF UsbClean
  <1> QED
    BY <1>1, <1>2, <1>3 DEF OnDusb, DusbNext

-----------------------------------------------------------------------------
(* The invariant                                                           *)

LinkInv == TypeInv /\ FragInv /\ SafeInv /\ SlvClean /\ UsbClean /\ CutInv

LEMMA InitLink == ASSUME Init PROVE LinkInv
  <1>1. /\ at = "idle" /\ toCalc = <<>> /\ toHost = <<>> /\ out = Fresh /\ in = Nothing
        /\ ~Nothing.begun
    BY DEF Init, LinkInit, DusbInit, Nothing
  <1>2. SlvClean /\ UsbClean /\ CutInv
    BY <1>1 DEF SlvClean, UsbClean, CutInv, Cut, CutOf, Declares
  <1>3. FragInv
    <2>1. RawsAddUp(<<>>)
      BY DEF RawsAddUp
    <2> QED
      BY <1>1, <2>1 DEF FragInv, Fragments, Tokens, Steady, Counts, Awaiting, Sends
  <1> QED
    BY <1>2, <1>3, InitTyped, InitSafe DEF LinkInv

LEMMA NextLink == ASSUME LinkInv, [Next]_vars PROVE LinkInv'
  <1>0. TypeInv /\ FragInv /\ SafeInv /\ SlvClean /\ UsbClean /\ CutInv
    BY DEF LinkInv
  <1>1. TypeInv' /\ FragInv' /\ SafeInv'
    BY <1>0, NextTyped, NextAddsUp, NextSafe
  <1>2. CASE OnDbus(DbusNext)
    <2>1. cable' # "USB"
      BY <1>2 DEF OnDbus
    <2> QED
      BY <1>0, <1>1, <1>2, <2>1, SlvCleanKept DEF LinkInv, UsbClean, CutInv
  <1>3. CASE OnDusb(DusbNext)
    <2>1. cable' # "SLV"
      BY <1>3 DEF OnDusb
    <2> QED
      BY <1>0, <1>1, <1>3, <2>1, UsbCleanKept DEF LinkInv, SlvClean
  <1>4. CASE UNCHANGED vars
    <2>1. UNCHANGED <<cable, op, at, got, toCalc, toHost, calc, store, out, in>>
      BY <1>4 DEF vars, linkVars, dusbVars, wire, calculator
    <2>2. SlvClean'
      BY <1>0, <2>1 DEF SlvClean, SlvSend, SlvRecv, Done, StoreOk
    <2>3. UsbClean' /\ CutInv'
      BY <1>0, <2>1 DEF UsbClean, UsbSend, UsbRecv, CutInv, Cut, Declares, Collects, Opening, NoAck, ToSay,
                        Done, StoreOk, Quiet
    <2> QED
      BY <1>1, <2>2, <2>3 DEF LinkInv
  <1> QED
    BY <1>2, <1>3, <1>4 DEF Next

-----------------------------------------------------------------------------
(* The promise. An operation that begins asks, one that ends reports, and   *)
(* of what is between only a change of a variable is seen.                  *)

LEMMA OpIsAsked ==
  ASSUME TypeInv, at # "idle"
  PROVE  op # NoOp /\ op \in Ops
  <1>1. at \in ReadySteps \cup SendSteps \cup RecvSteps
    BY DEF TypeInv, SlvT, SlvAt, UsbT, UsbAt, DbusPuts, DbusGets, Sends, Awaits, ReadySteps,
           SendSteps, RecvSteps
  <1>2. op.kind \in Kinds
    BY <1>1 DEF TypeInv, CommonT, AtT, Kinds
  <1>3. op.kind # "none"
    BY <1>2 DEF Kinds
  <1>4. NoOp.kind = "none"
    BY DEF NoOp
  <1> QED
    BY <1>3, <1>4 DEF TypeInv, CommonT, OpT

LEMMA BeginAsks ==
  ASSUME NEW kind \in Kinds, NEW s \in Slots \cup {Absent}, NEW c \in Contents \cup {Absent},
         NEW first, first # "idle", Begin(kind, s, c, first)
  PROVE  Var!Next
  <1> DEFINE o == [kind |-> kind, slot |-> s, content |-> c, clean |-> Quiet]
  <1>1. /\ at = "idle" /\ at' = first /\ at' # "idle" /\ op' = o /\ told' = "nothing"
        /\ UNCHANGED store
        /\ offered' = IF kind = "send" THEN [offered EXCEPT ![s] = @ \cup {c}] ELSE offered
    BY DEF Begin, calculator
  <1>2. Quiet \in BOOLEAN
    BY DEF Quiet
  <1>3. o \in Var!Operations /\ o.kind = kind /\ o.slot = s /\ o.content = c
    BY <1>2 DEF Var!Operations, Kinds
  <1> HIDE DEF o
  <1>4. Var!Ask(o)
    BY <1>1, <1>3 DEF Var!Ask, Var!Idle, NoOp
  <1> QED
    BY <1>3, <1>4 DEF Var!Next

LEMMA FinishReports ==
  ASSUME TypeInv, at # "idle", UNCHANGED store,
         NEW news \in {"ready", "stored", "declined", "fetched", "failed"},
         NEW c \in Contents \cup {Absent}, Finish(news, c),
         news \in {"stored", "declined"} => op.kind = "send",
         news = "fetched" => op.kind = "recv",
         news = "ready" => op.kind = "ready",
         op.clean /\ news = "stored" => store[op.slot] = op.content,
         op.clean /\ news = "fetched" => c = store[op.slot],
         c # Absent <=> news = "fetched"
  PROVE  Var!Next
  <1>1. /\ at' = "idle" /\ told' = news /\ got' = c /\ UNCHANGED <<op, offered>>
    BY DEF Finish
  <1>2. op # NoOp
    BY OpIsAsked
  <1>3. Var!Report(news, c)
    BY <1>1, <1>2 DEF Var!Report, Var!Idle, NoOp
  <1> QED
    BY <1>3 DEF Var!Next

LEMMA FailReports ==
  ASSUME TypeInv, at # "idle", UNCHANGED store, Fail
  PROVE  Var!Next
  BY FinishReports DEF Fail

LEMMA GoesOn ==
  ASSUME at # "idle", at' # "idle", UNCHANGED <<op, offered, store, told>>
  PROVE  UNCHANGED Var!vars
  BY DEF Var!vars

LEMMA CalcChanges ==
  ASSUME UNCHANGED <<op, at, told, got, offered>>,
         UNCHANGED store \/ \E s \in Slots : \E c \in offered[s] : store' = [store EXCEPT ![s] = c]
  PROVE  [Var!Next]_Var!vars
  <1>1. CASE UNCHANGED store
    BY <1>1 DEF Var!vars
  <1>2. CASE \E s \in Slots : \E c \in offered[s] : store' = [store EXCEPT ![s] = c]
    <2>1. PICK s \in Slots : \E c \in offered[s] : store' = [store EXCEPT ![s] = c]
      BY <1>2
    <2>2. PICK c \in offered[s] : store' = [store EXCEPT ![s] = c]
      BY <2>1
    <2>3. Var!Change(s, c)
      BY <2>2 DEF Var!Change
    <2> QED
      BY <2>3 DEF Var!Next
  <1> QED
    BY <1>1, <1>2

LEMMA SlvHostMaps ==
  ASSUME LinkInv, OnDbus(DbusHost)
  PROVE  [Var!Next]_Var!vars
  <1>0. /\ TypeInv /\ OpT /\ AtT /\ cable = "SLV" /\ SlvClean /\ DbusHost
        /\ at = "ackXDP" => got \in Contents
    BY DEF LinkInv, OnDbus, TypeInv, CommonT, SafeInv, SlvShape
  <1>1. at # "idle" /\ UNCHANGED <<op, offered, store>>
    BY <1>0 DEF DbusHost, SendRDY, RecvReady, SendRTS, RecvRTSAck, RecvSKP, SendACK, SendXDP, RecvXDPAck,
         SendEOT, SendREQ, RecvREQAck, RecvVAR, AckVAR, SendCTS, RecvCTSAck, RecvXDP, AckXDP,
         DbusGivesUp, DbusSend, DbusExpect, DbusRecv, WriteFails, PutFails, ReadTimesOut, GoOn, Fail, Finish,
         calculator, DbusPuts, DbusGets
  <1>2. ASSUME Fail PROVE Var!Next
    BY <1>0, <1>1, <1>2, FailReports
  <1>3. ASSUME UNCHANGED told, at' # "idle" PROVE UNCHANGED Var!vars
    BY <1>1, <1>3, GoesOn
  <1>4. CASE RecvReady
    <2>1. op.kind = "ready"
      BY <1>0, <1>4 DEF RecvReady, DbusRecv, AtT, ReadySteps
    <2>2. ASSUME Finish("ready", Absent) PROVE Var!Next
      BY <1>0, <1>1, <2>1, <2>2, FinishReports
    <2> QED
      BY <1>2, <1>4, <2>2 DEF RecvReady
  <1>5. CASE SendACK
    <2>1. op.kind = "send"
      BY <1>0, <1>5 DEF SendACK, AtT, SendSteps
    <2>2. ASSUME Finish("declined", Absent) PROVE Var!Next
      BY <1>0, <1>1, <2>1, <2>2, FinishReports
    <2> QED
      BY <1>2, <1>3, <1>5, <2>2 DEF SendACK, GoOn
  <1>6. CASE SendEOT
    <2>1. at = "EOT" /\ op.kind = "send" /\ Finish("stored", Absent)
      BY <1>0, <1>6 DEF SendEOT, AtT, SendSteps
    <2>2. op.clean => store[op.slot] = op.content
      BY <1>0, <2>1 DEF SlvClean, SlvSend, Done, StoreOk
    <2> QED
      BY <1>0, <1>1, <2>1, <2>2, FinishReports
  <1>7. CASE AckXDP
    <2>1. at = "ackXDP" /\ op.kind = "recv" /\ Finish("fetched", got)
      BY <1>0, <1>7 DEF AckXDP, AtT, RecvSteps
    <2>2. op.clean => got = store[op.slot]
      BY <1>0, <2>1 DEF SlvClean, SlvRecv
    <2>3. got \in Contents /\ got # Absent
      BY <1>0, <2>1
    <2> QED
      BY <1>0, <1>1, <2>1, <2>2, <2>3, FinishReports
  <1>8. CASE SendRDY \/ SendRTS \/ SendXDP \/ SendREQ \/ AckVAR \/ SendCTS
    BY <1>3, <1>8 DEF SendRDY, SendRTS, SendXDP, SendREQ, AckVAR, SendCTS, DbusSend, GoOn
  <1>9. CASE RecvRTSAck \/ RecvXDPAck \/ RecvREQAck \/ RecvVAR
    BY <1>2, <1>3, <1>9 DEF RecvRTSAck, RecvXDPAck, RecvREQAck, RecvVAR, DbusExpect, GoOn
  <1>10. CASE RecvSKP \/ RecvCTSAck \/ RecvXDP
    BY <1>2, <1>3, <1>10 DEF RecvSKP, RecvCTSAck, RecvXDP, GoOn
  <1>11. CASE DbusGivesUp
    BY <1>2, <1>11 DEF DbusGivesUp, WriteFails, PutFails, ReadTimesOut
  <1> QED
    BY <1>0, <1>4, <1>5, <1>6, <1>7, <1>8, <1>9, <1>10, <1>11 DEF DbusHost

LEMMA SlvCalcMaps ==
  ASSUME LinkInv, OnDbus(DbusCalc)
  PROVE  [Var!Next]_Var!vars
  <1>0. /\ cable = "SLV" /\ DbusCalc /\ OfferedOk /\ InOrder /\ SlvShape
        /\ toCalc \in Seq(Packets) /\ CalcT
    BY DEF LinkInv, OnDbus, TypeInv, CommonT, SafeInv, SlvT, SlvWire
  <1>1. UNCHANGED <<op, at, told, got, offered>>
    BY <1>0 DEF DbusCalc, CalcOnRDY, CalcOnRTS, CalcOnACK, CalcOnXDP, CalcOnEOT, CalcOnREQ, CalcOnCTS,
       Damage, CalcStops, CalcTurn
  <1>2. calc.doing = "taking" => calc.slot \in Slots
    BY <1>0 DEF CalcT
  <1>3. CASE CalcOnACK
    <2>1. \/ UNCHANGED store
          \/ calc.doing = "taking" /\ store' = [store EXCEPT ![calc.slot] = Absent]
      BY <1>3 DEF CalcOnACK
    <2>2. calc.doing = "taking" => Absent \in offered[calc.slot]
      BY <1>0, <1>2 DEF OfferedOk
    <2> QED
      BY <1>1, <1>2, <2>1, <2>2, CalcChanges
  <1>4. CASE CalcOnXDP
    <2> DEFINE p == Head(toCalc)
    <2>1. \/ UNCHANGED store
          \/ /\ calc.doing = "taking" /\ p.arg # Damaged /\ p.cmd = "XDP" /\ toCalc # <<>>
             /\ store' = [store EXCEPT ![calc.slot] = p.arg]
      BY <1>4 DEF CalcOnXDP, CalcTurn, CalcHears, ErrReply, calculator
    <2>2. ASSUME calc.doing = "taking", p.arg # Damaged, p.cmd = "XDP", toCalc # <<>>
          PROVE  p.arg \in offered[calc.slot]
      <3>1. p \in Packets
        BY <1>0, <2>2, TailIs
      <3>2. p.arg \in Contents
        BY <2>2, <3>1 DEF Packets
      <3>3. p.arg \in Held("SLV", p)
        BY <2>2, <3>2 DEF Held
      <3>4. calc.slot \in Aim
        BY <1>0, <1>2, <2>2, SlvAim
      <3>5. Deliverable("SLV", toCalc, Aim, offered)
        BY <1>0 DEF InOrder
      <3> QED
        BY <1>0, <2>2, <3>3, <3>4, <3>5, HeadIsOffered
    <2> QED
      BY <1>1, <1>2, <2>1, <2>2, CalcChanges
  <1>5. CASE ~CalcOnACK /\ ~CalcOnXDP
    <2>1. UNCHANGED store
      BY <1>0, <1>5 DEF DbusCalc, CalcOnRDY, CalcOnRTS, CalcOnEOT, CalcOnREQ, CalcOnCTS, Damage,
                        CalcStops, ErrReply, calculator
    <2> QED
      BY <1>1, <2>1, CalcChanges
  <1> QED
    BY <1>3, <1>4, <1>5

LEMMA UsbHostMaps ==
  ASSUME LinkInv, OnDusb(DusbHost)
  PROVE  [Var!Next]_Var!vars
  <1>0. /\ TypeInv /\ OpT /\ AtT /\ UsbWire /\ InT /\ cable = "USB" /\ UsbClean /\ DusbHost
        /\ toHost \in Seq(Raws)
    BY UsbQueues DEF LinkInv, OnDusb, TypeInv, CommonT, UsbT
  <1>1. at # "idle" /\ UNCHANGED <<op, offered, store>>
    BY <1>0, HostIsAlone
  <1>2. ASSUME Fail PROVE Var!Next
    BY <1>0, <1>1, <1>2, FailReports
  <1>3. ASSUME UNCHANGED told, at' # "idle" PROVE UNCHANGED Var!vars
    BY <1>1, <1>3, GoesOn
  <1>4. CASE BufSizeRequest \/ BufSizeAlloc
    BY <1>2, <1>3, <1>4 DEF BufSizeRequest, BufSizeAlloc, GoOn
  <1>5. CASE SendFirst \/ SendNext
    BY <1>1, <1>3, <1>5 DEF SendFirst, SendNext, Transmit
  <1>6. CASE RecvAcknowledge
    <2>0. at \in Sends
      BY <1>6 DEF RecvAcknowledge
    <2>1. ASSUME Acknowledged PROVE [Var!Next]_Var!vars
      <3>1. CASE ~out.final
        BY <1>1, <1>3, <2>1, <3>1 DEF Acknowledged, GoOn
      <3>2. CASE out.final /\ at # "EOT"
        <4>1. at' = After[at] /\ UNCHANGED told
          BY <2>1, <3>2 DEF Acknowledged, GoOn
        <4>2. After[at] # "idle"
          BY <2>0, <3>2 DEF After, Sends
        <4> QED
          BY <1>3, <4>1, <4>2
      <3>3. CASE out.final /\ at = "EOT"
        <4>1. Finish("stored", Absent) /\ op.kind = "send"
          BY <1>0, <2>1, <3>3 DEF Acknowledged, AtT, SendSteps
        <4>2. op.clean => store[op.slot] = op.content
          BY <1>0, <3>3, <4>1 DEF UsbClean, UsbSend, Done, StoreOk
        <4> QED
          BY <1>0, <1>1, <4>1, <4>2, FinishReports
      <3> QED
        BY <3>1, <3>2, <3>3
    <2>2. Fail \/ Acknowledged \/ GoOn(at)
      BY <1>6 DEF RecvAcknowledge, PutFails
    <2> QED
      BY <1>1, <1>2, <1>3, <2>1, <2>2 DEF GoOn
  <1>7. CASE RecvData
    <2> DEFINE v == IF in.begun THEN in.v ELSE IF Heard.from = 0 THEN Heard.v ELSE Headerless
    <2>0. /\ at \in Awaits /\ toHost # <<>>
          /\ Fail \/ GoOn(at) \/ (Heard.kind \in Data /\ Delivered(v))
      <3>1. at \in Awaits /\ toHost # <<>>
        BY <1>7 DEF RecvData
      <3>2. Fail \/ GoOn(at) \/ (Heard.kind \in Data /\ Delivered(v))
        BY ZenonT(60), <1>7 DEF RecvData, Data, PutFails
      <3> QED
        BY <3>1, <3>2
    <2>1. v.type # "EOT" => v \in Virtuals
      <3>1. in.v \in Declared /\ Heard.v \in Declared /\ Headerless \in Declared
        BY <1>0, <2>0, UsbHeardT DEF InT, Declared
      <3>2. v \in Declared
        BY <3>1
      <3> HIDE DEF v
      <3> QED
        BY <3>2, HeaderlessT
    <2>2. ASSUME op.clean, op.kind = "recv", v.type = "VAR_CNTS", Heard.kind \in Data
          PROVE  v.arg = store[op.slot]
      <3>0. v # Headerless
        BY <2>2, HeaderlessT
      <3>1. UsbRecv
        BY <1>0, <1>1, <2>2 DEF UsbClean
      <3>2. CASE in.begun
        BY <3>0, <3>1, <3>2 DEF UsbRecv, Declares
      <3>3. CASE ~in.begun
        <4>0. v = Heard.v
          BY <3>0, <3>3
        <4>1. Name("USB", Head(toHost)) = "VAR_CNTS" /\ Arg("USB", Head(toHost)) = v.arg
          BY <2>2, <4>0, NameIs DEF Heard
        <4>2. Carries("USB", toHost, "VAR_CNTS", {store[op.slot]})
          BY <3>1 DEF UsbRecv
        <4>3. Arg("USB", Head(toHost)) \in {store[op.slot]}
          BY <1>0, <2>0, <4>1, <4>2, ThinnerTail
        <4> QED
          BY <4>1, <4>3
      <3> QED
        BY <3>2, <3>3
    <2> HIDE DEF v
    <2>3. ASSUME Heard.kind \in Data, Delivered(v), at' # at, ~Fail PROVE [Var!Next]_Var!vars
      <3>0. v.type = Expected[at]
        BY <2>3 DEF Delivered, GoOn
      <3>1. CASE at = "MODE_SET"
        <4>1. Finish("ready", Absent) /\ op.kind = "ready"
          BY <1>0, <2>3, <3>0, <3>1 DEF Delivered, GoOn, AtT, ReadySteps
        <4> QED
          BY <1>0, <1>1, <4>1, FinishReports
      <3>2. CASE at = "CONTENT"
        <4>1. Finish("fetched", v.arg) /\ op.kind = "recv" /\ v.type = "VAR_CNTS"
          BY <1>0, <2>3, <3>0, <3>2 DEF Delivered, GoOn, AtT, RecvSteps, Expected
        <4>2. v.arg \in Contents /\ v.arg # Absent
          BY <2>1, <4>1 DEF Virtuals
        <4>3. op.clean => v.arg = store[op.slot]
          BY <2>2, <2>3, <4>1
        <4> QED
          BY <1>0, <1>1, <4>1, <4>2, <4>3, FinishReports
      <3>3. CASE at \notin {"MODE_SET", "CONTENT"}
        <4>1. GoOn(After[at])
          BY <2>3, <3>0, <3>3 DEF Delivered, GoOn
        <4>2. After[at] # "idle"
          BY <2>0, <3>3 DEF After, Awaits
        <4> QED
          BY <1>3, <4>1, <4>2 DEF GoOn
      <3> QED
        BY <3>1, <3>2, <3>3
    <2>4. ASSUME Delivered(v), at' = at PROVE UNCHANGED told
      BY <1>1, <2>4 DEF Delivered, GoOn, Fail, Finish
    <2> QED
      BY <1>1, <1>2, <1>3, <2>0, <2>3, <2>4 DEF GoOn
  <1>8. CASE DusbGivesUp
    BY <1>2, <1>8 DEF DusbGivesUp, WriteFails, PutFails, ReadTimesOut
  <1> QED
    BY <1>0, <1>4, <1>5, <1>6, <1>7, <1>8 DEF DusbHost

LEMMA UsbCalcMaps ==
  ASSUME LinkInv, OnDusb(DusbCalc)
  PROVE  [Var!Next]_Var!vars
  <1>0. /\ cable = "USB" /\ DusbCalc /\ OfferedOk /\ Collecting /\ Saying /\ CommonT /\ UsbT
    BY DEF LinkInv, OnDusb, TypeInv, SafeInv, UsbShape
  <1>1. UNCHANGED <<op, at, told, got, offered>>
    BY <1>0, CalcIsAlone
  <1>2. CASE Heeds \/ Takes \/ Utters
    BY <1>1, <1>2, CalcChanges DEF Heeds, Takes, Utters
  <1>3. CASE CalcObeys
    <2> DEFINE v == calc.in[1].v
    <2>1. calc.in # <<>> /\ Stores(v)
      BY <1>0, <1>3, Obeyed DEF CalcObeys, Complete
    <2>2. ASSUME v.type = "VAR_CNTS", calc.doing = "taking", calc.slot \in Slots
          PROVE  v.arg \in offered[calc.slot]
      <3>1. Collects("VAR_CNTS") /\ ~Collects("RTS")
        BY <2>1, <2>2 DEF Collects
      <3>2. calc.slot \in Aim
        BY <2>2, <3>1 DEF Aim
      <3> QED
        BY <1>0, <3>1, <3>2 DEF Collecting
    <2> HIDE DEF v
    <2>3. CASE UNCHANGED store
      BY <1>1, <2>3, CalcChanges
    <2>4. CASE v.arg \in Slots /\ store' = [store EXCEPT ![v.arg] = Absent]
      <3>1. Absent \in offered[v.arg]
        BY <1>0, <2>4 DEF OfferedOk
      <3> QED
        BY <1>1, <2>4, <3>1, CalcChanges
    <2>5. CASE /\ v.type = "VAR_CNTS" /\ calc.doing = "taking" /\ calc.slot \in Slots
               /\ store' = [store EXCEPT ![calc.slot] = v.arg]
      BY <1>1, <2>2, <2>5, CalcChanges
    <2> QED
      BY <2>1, <2>3, <2>4, <2>5 DEF Stores
  <1> QED
    BY <1>0, <1>2, <1>3, UsbTurns

LEMMA BeginMaps ==
  ASSUME LinkInv, OnDbus(DbusBegin) \/ OnDusb(DusbBegin)
  PROVE  Var!Next
  <1>0. /\ "ready" \in Kinds /\ "send" \in Kinds /\ "recv" \in Kinds
    BY DEF Kinds
  <1>1. \/ \E first \in {"RDY", "sizeReq"} : Begin("ready", Absent, Absent, first)
        \/ \E s \in Slots, c \in Contents : Begin("send", s, c, "RTS")
        \/ \E s \in Slots, first \in {"REQ", "VAR_REQ"} : Begin("recv", s, Absent, first)
    BY DEF OnDbus, OnDusb, DbusBegin, DusbBegin
  <1>2. CASE \E first \in {"RDY", "sizeReq"} : Begin("ready", Absent, Absent, first)
    BY <1>0, <1>2, BeginAsks
  <1>3. CASE \E s \in Slots, c \in Contents : Begin("send", s, c, "RTS")
    BY <1>0, <1>3, BeginAsks
  <1>4. CASE \E s \in Slots, first \in {"REQ", "VAR_REQ"} : Begin("recv", s, Absent, first)
    BY <1>0, <1>4, BeginAsks
  <1> QED
    BY <1>1, <1>2, <1>3, <1>4

\* Whatever is lost, damaged or late, over either cable and for any contents and
\* sizes of buffers: a string variable of the calculator only ever holds what it
\* held at first, what was sent to it, or nothing; and if nothing was under way
\* when an operation began, "stored" is reported only of a variable that holds the
\* content, and what is fetched is what the variable asked for holds
\* (ticalcs_calc_send_var and ticalcs_calc_recv_var, calc_xx.cc).
THEOREM ImplementsVarStore == Spec => KeepsVariables
  <1>1. Init => Var!Init
    <2>1. SUFFICES ASSUME Init PROVE Var!Init
      OBVIOUS
    <2>2. /\ at = "idle" /\ op = NoOp /\ told = "nothing" /\ got = Absent /\ StoreT
          /\ offered = [s \in Slots |-> {store[s], Absent}]
      BY <2>1, InitTyped DEF Init, LinkInit, TypeInv, CommonT
    <2> QED
      BY <2>2 DEF Var!Init, Var!Idle, NoOp, StoreT
  <1>2. LinkInv /\ [Next]_vars => [Var!Next]_Var!vars
    <2>1. SUFFICES ASSUME LinkInv, [Next]_vars PROVE [Var!Next]_Var!vars
      OBVIOUS
    <2>2. CASE OnDbus(DbusNext)
      <3>1. OnDbus(DbusBegin) \/ OnDbus(DbusHost) \/ OnDbus(DbusCalc)
        BY <2>2 DEF OnDbus, DbusNext
      <3> QED
        BY <2>1, <3>1, BeginMaps, SlvHostMaps, SlvCalcMaps
    <2>3. CASE OnDusb(DusbNext)
      <3>1. OnDusb(DusbBegin) \/ OnDusb(DusbHost) \/ OnDusb(DusbCalc)
        BY <2>3 DEF OnDusb, DusbNext
      <3> QED
        BY <2>1, <3>1, BeginMaps, UsbHostMaps, UsbCalcMaps
    <2>4. CASE UNCHANGED vars
      <3>1. UNCHANGED <<op, at, told, got, store, offered>>
        BY <2>4 DEF vars, linkVars, calculator
      <3> QED
        BY <3>1 DEF Var!vars
    <2> QED
      BY <2>1, <2>2, <2>3, <2>4 DEF Next
  <1>3. Spec => []LinkInv
    BY InitLink, NextLink, PTL DEF Spec
  <1> QED
    BY <1>1, <1>2, <1>3, PTL DEF Spec, KeepsVariables, Var!Spec

=============================================================================
