---------------------------- MODULE CalcLink_proofs ----------------------------
(***************************************************************************)
(* CalcLink for any contents, lengths and buffer sizes, any number of      *)
(* operations and of faults, over either cable.                            *)
(*                                                                         *)
(* TypeInv is TypeOK with the packets on the wire typed by what they say,  *)
(* and with the step an operation is at in agreement with its kind.        *)
(* FragInv adds, for an operation that began clean, that one packet at     *)
(* most awaits an answer (Tokens) and, as long as the calculator asks for  *)
(* no other size between two chunks (Steady), that what is sent and what   *)
(* is counted make up the virtual packet (Counts): with two answers under  *)
(* way a late one would have the chunks counted before the buffer's size   *)
(* changed.                                                                *)
(***************************************************************************)
EXTENDS CalcLink, SequenceTheorems, TLAPS

USE AbsentAssumption, FoundAssumption, BoundsAssumption, GrantsAssumption, LengthAssumption

-----------------------------------------------------------------------------
(* Queues. Free: no packet of these kinds; Single: at most one.            *)

Free(q, kinds) == \A i \in 1..Len(q) : q[i].kind \notin kinds
Single(q, kinds) ==
    \A i, j \in 1..Len(q) : q[i].kind \in kinds /\ q[j].kind \in kinds => i = j

LEMMA TailIs ==
  ASSUME NEW S, NEW q \in Seq(S), q # <<>>
  PROVE  /\ Head(q) \in S /\ Head(q) = q[1] /\ Len(q) \in Nat \ {0}
         /\ Tail(q) \in Seq(S) /\ Len(Tail(q)) = Len(q) - 1
         /\ \A i \in 1..Len(Tail(q)) : Tail(q)[i] = q[i + 1]
  BY HeadTailProperties, EmptySeq

LEMMA QueueTail ==
  ASSUME NEW S, NEW q \in Seq(S), q # <<>>, NEW kinds
  PROVE  /\ Free(q, kinds) => Free(Tail(q), kinds) /\ Head(q).kind \notin kinds
         /\ Single(q, kinds) => Single(Tail(q), kinds)
         /\ Single(q, kinds) /\ Head(q).kind \in kinds => Free(Tail(q), kinds)
  BY TailIs DEF Free, Single

LEMMA AppendIs ==
  ASSUME NEW S, NEW q \in Seq(S), NEW p \in S
  PROVE  /\ Append(q, p) \in Seq(S) /\ q \o <<p>> = Append(q, p)
         /\ Len(q) \in Nat /\ Len(Append(q, p)) = Len(q) + 1
         /\ \A i \in 1..Len(q) : Append(q, p)[i] = q[i]
         /\ Append(q, p)[Len(q) + 1] = p
  BY AppendProperties, ConcatProperties

LEMMA QueueAppend ==
  ASSUME NEW S, NEW q \in Seq(S), NEW p \in S, NEW kinds
  PROVE  /\ Free(q, kinds) => Single(Append(q, p), kinds)
         /\ Free(q, kinds) /\ p.kind \notin kinds => Free(Append(q, p), kinds)
         /\ Single(q, kinds) /\ p.kind \notin kinds => Single(Append(q, p), kinds)
  BY AppendIs DEF Free, Single

LEMMA FrontIs ==
  ASSUME NEW S, NEW q \in Seq(S), q # <<>>
  PROVE  /\ Len(q) \in Nat \ {0}
         /\ SubSeq(q, 1, Len(q) - 1) \in Seq(S)
         /\ Len(SubSeq(q, 1, Len(q) - 1)) = Len(q) - 1
         /\ \A i \in 1..(Len(q) - 1) : SubSeq(q, 1, Len(q) - 1)[i] = q[i]
  <1>1. Len(q) \in Nat \ {0}
    BY TailIs
  <1>2. ASSUME NEW n \in Nat, n + 1 = Len(q)
        PROVE  /\ SubSeq(q, 1, n) \in Seq(S)
               /\ Len(SubSeq(q, 1, n)) = n
               /\ \A i \in 1..n : SubSeq(q, 1, n)[i] = q[i]
    <2>1. SubSeq(q, 1, n) \in Seq(S)
      BY <1>2, SMT
    <2>2. Len(SubSeq(q, 1, n)) = n
      BY <1>2, SMT
    <2>3. \A i \in 1..n : SubSeq(q, 1, n)[i] = q[i]
      BY <1>2, SMT
    <2> QED
      BY <2>1, <2>2, <2>3
  <1>3. Len(q) - 1 \in Nat /\ Len(q) - 1 + 1 = Len(q)
    BY <1>1
  <1> QED
    BY <1>1, <1>2, <1>3

LEMMA QueueFront ==
  ASSUME NEW S, NEW q \in Seq(S), q # <<>>, NEW kinds
  PROVE  /\ Free(q, kinds) => Free(SubSeq(q, 1, Len(q) - 1), kinds)
         /\ Single(q, kinds) => Single(SubSeq(q, 1, Len(q) - 1), kinds)
  <1> DEFINE r == SubSeq(q, 1, Len(q) - 1)
  <1>1. /\ Len(q) \in Nat \ {0} /\ Len(r) = Len(q) - 1
        /\ \A i \in 1..(Len(q) - 1) : r[i] = q[i]
    BY FrontIs
  <1> HIDE DEF r
  <1>2. Free(q, kinds) => Free(r, kinds)
    BY <1>1 DEF Free
  <1>3. Single(q, kinds) => Single(r, kinds)
    BY <1>1 DEF Single
  <1> QED
    BY <1>2, <1>3 DEF r

LEMMA QueueEmpty ==
  ASSUME NEW S, NEW kinds
  PROVE  <<>> \in Seq(S) /\ Free(<<>>, kinds) /\ Single(<<>>, kinds)
  BY DEF Free, Single

LEMMA FreeIsSingle ==
  ASSUME NEW q, NEW kinds, Free(q, kinds)
  PROVE  Single(q, kinds)
  BY DEF Free, Single

LEMMA Division ==
  ASSUME NEW n \in Int, NEW m \in Nat, m > 0
  PROVE  /\ n \div m \in Int /\ n % m \in Nat
         /\ ((n \div m) * m) + (n % m) = n
         /\ n \in Nat => n \div m \in Nat
  OBVIOUS

LEMMA OneLess ==
  ASSUME NEW k \in Nat, k > 0, NEW m \in Nat
  PROVE  k - 1 \in Nat /\ (k - 1) * m + m = k * m /\ k * m \in Nat /\ (k - 1) * m \in Nat
  OBVIOUS

-----------------------------------------------------------------------------
(* Types. A step of an operation is one of its kind, and names what it      *)
(* sends; a packet carries what its type says.                             *)

ReadySteps == {"sizeReq", "sizeAlloc", "PING", "MODE_SET", "RDY", "RDY_ACK"}
SendSteps == {"RTS", "RTS_ACK", "VAR_CNTS", "CNTS_ACK", "EOT", "SKP", "ACK", "XDP", "XDP_ACK"}
RecvSteps == {"VAR_REQ", "VAR_HDR", "CONTENT", "REQ", "REQ_ACK", "VAR", "ackVAR", "CTS",
              "CTS_ACK", "getXDP", "ackXDP"}

VirtualTypes == Sends \cup {"MODE_SET", "DATA_ACK", "VAR_HDR", "DELAY", "ERROR"}
Virtuals ==
    {v \in [type : VirtualTypes, arg : Slots \cup Contents \cup {Absent}, size : Nat] :
        /\ v.type \in {"RTS", "VAR_REQ"} => v.arg \in Slots
        /\ v.type = "VAR_CNTS" => v.arg \in Contents}
Raws == [kind : {"SIZE_REQ", "SIZE_ALLOC", "DATA", "LAST", "ACK"}, v : Virtuals, from : Nat, to : Nat]
HostRaws == {raw \in Raws : raw.kind \in {"SIZE_REQ", "SIZE_ALLOC"} => raw.to \in Grants}
Parts == [v : Virtuals, size : Nat, whole : BOOLEAN, asking : BOOLEAN]

Packets ==
    {p \in [cmd : {"RDY", "RTS", "ACK", "XDP", "EOT", "REQ", "CTS", "SKP", "VAR", "ERR"},
            arg : Slots \cup Contents \cup Refusals \cup {None, "notReady", "exit", Damaged}] :
        /\ p.cmd \in {"RTS", "REQ"} => p.arg \in Slots \cup {Damaged}
        /\ p.cmd = "XDP" => p.arg \in Contents \cup {Damaged}
        /\ p.cmd = "SKP" => p.arg \in Refusals \cup {"exit", Damaged}}

Calcs == [doing : {"nothing", "taking", "giving"}, slot : Slots \cup {Absent},
          in : Seq(Parts), out : Seq(Virtuals), said : Nat, waiting : BOOLEAN]

OpT ==
    /\ op \in Ops \cup {NoOp}
    /\ op.kind = "send" => op.slot \in Slots /\ op.content \in Contents
    /\ op.kind = "recv" => op.slot \in Slots
    /\ told \in News
    /\ got \in Contents \cup {Absent}
AtT ==
    /\ at \in ReadySteps => op.kind = "ready"
    /\ at \in SendSteps => op.kind = "send"
    /\ at \in RecvSteps => op.kind = "recv"
StoreT == store \in [Slots -> Contents \cup {Absent}]
CalcT ==
    /\ calc \in Calcs
    /\ calc.doing # "nothing" => calc.slot \in Slots
    /\ calc.waiting => calc.out # <<>>
BoundsT == ops \in 0..MaxOps /\ faults \in 0..MaxFaults

SlvAt == at \in {"idle"} \cup DbusPuts \cup DbusGets
SlvWire == toCalc \in Seq(Packets) /\ toHost \in Seq(Packets)
RejT == rej \in Refusals \cup {None, "exit"}

UsbAt == at \in {"idle", "sizeReq", "sizeAlloc"} \cup Sends \cup Awaits
UsbWire == toCalc \in Seq(Raws) /\ toHost \in Seq(HostRaws)
MaxlenT == maxlen \in Grants \cup {0}
Sized == at \in Sends \cup Awaits => maxlen \in Grants
OutT ==
    /\ out \in [phase : {"first", "ack", "ackOnly", "next"}, sent : Nat, full : Int, rest : Nat,
                 final : BOOLEAN]
    /\ at \notin Sends => out = Fresh
Declared == Virtuals \cup {Headerless}
InT == in \in [begun : BOOLEAN, v : Declared, size : Int, delayed : BOOLEAN]
ResizedT == resized \in BOOLEAN

CommonT == OpT /\ AtT /\ StoreT /\ CalcT /\ BoundsT /\ RejT /\ MaxlenT
SlvT == SlvAt /\ SlvWire
UsbT == UsbAt /\ UsbWire /\ Sized /\ OutT /\ InT

TypeInv ==
    /\ cable \in {"SLV", "USB"}
    /\ CommonT /\ ResizedT
    /\ cable = "SLV" => SlvT
    /\ cable = "USB" => UsbT

LEMMA VirtualT ==
  ASSUME NEW type \in VirtualTypes, NEW arg \in Slots \cup Contents \cup {Absent},
         type \in {"RTS", "VAR_REQ"} => arg \in Slots,
         type = "VAR_CNTS" => arg \in Contents
  PROVE  /\ Virtual(type, arg) \in Virtuals
         /\ Virtual(type, arg).type = type /\ Virtual(type, arg).arg = arg
  <1> DEFINE size == CASE type = "VAR_CNTS" -> Length[arg]
                       [] type = "EOT" -> 0
                       [] OTHER -> CommandSize
  <1>1. size \in Nat
    OBVIOUS
  <1>2. Virtual(type, arg) = [type |-> type, arg |-> arg, size |-> size]
    BY DEF Virtual
  <1> HIDE DEF size
  <1> QED
    BY <1>1, <1>2 DEF Virtuals

LEMMA NoDataT == NoData \in Virtuals /\ NoData.type = "EOT"
  BY VirtualT DEF NoData, VirtualTypes, Sends

\* What is read where a header should be is nothing that is waited for.
LEMMA HeaderlessT ==
  /\ Headerless.type = "EOT" /\ Headerless.size \in Int
  /\ \A w \in Declared : w.type # "EOT" => w \in Virtuals
  <1>1. NoData \in [type : VirtualTypes, arg : Slots \cup Contents \cup {Absent}, size : Nat]
    BY NoDataT DEF Virtuals
  <1>2. Headerless.type = NoData.type /\ Headerless.size = Unknown
    BY <1>1 DEF Headerless
  <1> QED
    BY <1>2, NoDataT DEF Declared, Unknown

LEMMA RawT ==
  ASSUME NEW kind \in {"SIZE_REQ", "SIZE_ALLOC", "DATA", "LAST", "ACK"}, NEW v \in Virtuals,
         NEW from \in Nat, NEW to \in Nat
  PROVE  Raw(kind, v, from, to) \in Raws
  BY DEF Raw, Raws

LEMMA SizeT ==
  ASSUME NEW kind \in {"SIZE_REQ", "SIZE_ALLOC"}, NEW n \in Nat
  PROVE  Size(kind, n) \in Raws /\ (n \in Grants => Size(kind, n) \in HostRaws)
  BY NoDataT, RawT DEF Size, HostRaws, Raw

LEMMA AckT == Acknowledge \in Raws /\ Acknowledge \in HostRaws
  BY NoDataT, RawT DEF Acknowledge, HostRaws, Raw

LEMMA PacketT ==
  /\ \A cmd \in {"RDY", "ACK", "EOT", "CTS", "ERR"} : Packet(cmd, None) \in Packets
  /\ Packet("ACK", "notReady") \in Packets
  /\ \A s \in Slots : Packet("RTS", s) \in Packets /\ Packet("REQ", s) \in Packets
                        /\ Packet("VAR", s) \in Packets
  /\ \A c \in Contents : Packet("XDP", c) \in Packets
  /\ \A why \in Refusals \cup {"exit"} : Packet("SKP", why) \in Packets
  BY DEF Packet, Packets

LEMMA TwoMore ==
  ASSUME NEW S, NEW q \in Seq(S), NEW a \in S, NEW b \in S
  PROVE  q \o <<a, b>> \in Seq(S)
  BY ConcatProperties

LEMMA CalcIdleT == CalcIdle \in Calcs /\ CalcIdle.doing = "nothing" /\ ~CalcIdle.waiting
  BY EmptySeq DEF CalcIdle, Calcs

LEMMA OutgoingT ==
  ASSUME OpT, AtT, at \in Sends
  PROVE  Outgoing \in Virtuals /\ Outgoing.type = at
  <1>1. at = "VAR_CNTS" => op.content \in Contents
    BY DEF OpT, AtT, SendSteps
  <1>2. at \in {"RTS", "VAR_REQ"} => op.slot \in Slots
    BY DEF OpT, AtT, SendSteps, RecvSteps
  <1>3. op.slot \in Slots \cup Contents \cup {Absent}
    BY DEF OpT, Ops, NoOp
  <1> QED
    BY <1>1, <1>2, <1>3, VirtualT DEF Outgoing, VirtualTypes, Sends

-----------------------------------------------------------------------------
LEMMA InitTyped == ASSUME Init PROVE TypeInv
  <1> USE DEF Init, LinkInit, DbusInit, DusbInit
  <1>1. cable \in {"SLV", "USB"}
    OBVIOUS
  <1>2. OpT /\ AtT /\ BoundsT /\ RejT /\ MaxlenT
    BY DEF OpT, AtT, BoundsT, RejT, MaxlenT, NoOp, News, ReadySteps, SendSteps, RecvSteps
  <1>3. StoreT
    BY DEF StoreT
  <1>4. CalcT
    BY CalcIdleT DEF CalcT
  <1>5. SlvAt /\ SlvWire
    BY EmptySeq DEF SlvAt, SlvWire
  <1>6. UsbAt /\ UsbWire /\ Sized
    BY EmptySeq DEF UsbAt, UsbWire, Sized, Sends, Awaits
  <1>7. OutT
    BY DEF OutT, Fresh, Unknown
  <1>8. InT
    BY NoDataT DEF InT, Nothing, Declared
  <1> QED
    BY <1>1, <1>2, <1>3, <1>4, <1>5, <1>6, <1>7, <1>8 DEF TypeInv, CommonT, SlvT, UsbT, ResizedT

-----------------------------------------------------------------------------
(* Types: what an operation under way does to itself                       *)

SameKind(a, b) ==
    /\ b \in ReadySteps => a \in ReadySteps
    /\ b \in SendSteps => a \in SendSteps
    /\ b \in RecvSteps => a \in RecvSteps

LEMMA GoOnT ==
  ASSUME OpT, AtT, NEW next, GoOn(next), SameKind(at, next)
  PROVE  OpT' /\ AtT' /\ at' = next
  BY DEF OpT, AtT, GoOn, SameKind

LEMMA FinishT ==
  ASSUME OpT, NEW news \in News, NEW c \in Contents \cup {Absent}, Finish(news, c)
  PROVE  OpT' /\ AtT' /\ at' = "idle"
  BY DEF OpT, AtT, Finish, ReadySteps, SendSteps, RecvSteps

LEMMA FailT ==
  ASSUME OpT, Fail
  PROVE  OpT' /\ AtT' /\ at' = "idle"
  BY FinishT DEF Fail, News

LEMMA SameOpT ==
  ASSUME OpT, AtT, UNCHANGED <<op, at, told, got>>
  PROVE  OpT' /\ AtT' /\ at' = at
  BY DEF OpT, AtT

LEMMA SameCalcT ==
  ASSUME StoreT, CalcT, UNCHANGED calculator
  PROVE  StoreT' /\ CalcT'
  BY DEF StoreT, CalcT, calculator

LEMMA SameBoundsT ==
  ASSUME BoundsT, UNCHANGED ops, UNCHANGED faults \/ (faults < MaxFaults /\ faults' = faults + 1)
  PROVE  BoundsT'
  BY DEF BoundsT

LEMMA BeginT ==
  ASSUME OpT, AtT, BoundsT, NEW kind \in Kinds, NEW s, NEW c, NEW first,
         kind = "ready" => s = Absent /\ c = Absent /\ first \in ReadySteps,
         kind = "send" => s \in Slots /\ c \in Contents /\ first \in SendSteps,
         kind = "recv" => s \in Slots /\ c = Absent /\ first \in RecvSteps,
         Begin(kind, s, c, first)
  PROVE  OpT' /\ AtT' /\ BoundsT' /\ at' = first /\ UNCHANGED <<wire, calculator, faults>>
  <1>1. op' = [kind |-> kind, slot |-> s, content |-> c, clean |-> Quiet]
    BY DEF Begin
  <1>2. op' \in Ops /\ op'.kind = kind /\ op'.slot = s /\ op'.content = c
    BY <1>1 DEF Ops, Kinds, Quiet
  <1>3. OpT'
    BY <1>2 DEF OpT, Begin, News, Kinds
  <1>4. AtT'
    BY <1>2 DEF AtT, Begin, Kinds, ReadySteps, SendSteps, RecvSteps
  <1>5. BoundsT'
    BY DEF BoundsT, Begin
  <1> QED
    BY <1>3, <1>4, <1>5 DEF Begin

-----------------------------------------------------------------------------
(* Types: the steps over a SilverLink                                      *)

LEMMA DbusSendTyped ==
  ASSUME CommonT, SlvT, NEW here, NEW p \in Packets, NEW next \in DbusGets \cup DbusPuts,
         DbusSend(here, p, next), SameKind(here, next), UNCHANGED maxlen
  PROVE  CommonT' /\ SlvT'
  <1>1. OpT' /\ AtT' /\ SlvAt'
    BY GoOnT DEF DbusSend, CommonT, SlvAt
  <1>2. StoreT' /\ CalcT' /\ BoundsT'
    BY SameCalcT, SameBoundsT DEF DbusSend, CommonT, GoOn
  <1>3. SlvWire'
    BY AppendIs DEF DbusSend, Put, SlvT, SlvWire
  <1> QED
    BY <1>1, <1>2, <1>3 DEF CommonT, SlvT, RejT, MaxlenT, DbusSend

LEMMA DbusRecvTyped ==
  ASSUME CommonT, SlvT, NEW here, DbusRecv(here), OpT', AtT', SlvAt', RejT',
         UNCHANGED <<toCalc, calculator, faults, ops, maxlen>>
  PROVE  CommonT' /\ SlvT'
  <1>1. StoreT' /\ CalcT' /\ BoundsT'
    BY SameCalcT, SameBoundsT DEF CommonT
  <1>2. SlvWire'
    BY TailIs DEF DbusRecv, SlvT, SlvWire
  <1> QED
    BY <1>1, <1>2 DEF CommonT, SlvT, MaxlenT

LEMMA HeardT ==
  ASSUME SlvT, NEW here, DbusRecv(here)
  PROVE  Heard \in Packets
  BY TailIs DEF SlvT, SlvWire, DbusRecv, Heard

LEMMA DbusExpectTyped ==
  ASSUME CommonT, SlvT, NEW here, NEW cmd, NEW next \in DbusGets \cup DbusPuts,
         DbusExpect(here, cmd, next), SameKind(here, next), UNCHANGED maxlen
  PROVE  CommonT' /\ SlvT'
  <1>1. OpT' /\ AtT' /\ SlvAt'
    BY GoOnT, FailT DEF DbusExpect, DbusRecv, CommonT, SlvAt
  <1>2. UNCHANGED ops
    BY DEF DbusExpect, GoOn, Fail, Finish
  <1> QED
    BY <1>1, <1>2, DbusRecvTyped DEF DbusExpect, CommonT, RejT

LEMMA DbusHostTyped ==
  ASSUME CommonT, SlvT, DbusHost, UNCHANGED maxlen
  PROVE  CommonT' /\ SlvT'
  <1> USE DEF DbusGets, DbusPuts
  <1>0. /\ at \in SendSteps => op.slot \in Slots /\ op.content \in Contents
        /\ at \in RecvSteps => op.slot \in Slots
    BY DEF CommonT, OpT, AtT
  <1>1. CASE SendRDY \/ SendRTS \/ SendXDP \/ SendREQ \/ AckVAR \/ SendCTS
    <2> USE DEF SameKind, ReadySteps, SendSteps, RecvSteps
    <2>1. CASE SendRDY
      BY <2>1, PacketT, DbusSendTyped DEF SendRDY
    <2>2. CASE SendRTS
      BY <2>2, <1>0, PacketT, DbusSendTyped DEF SendRTS, DbusSend
    <2>3. CASE SendXDP
      BY <2>3, <1>0, PacketT, DbusSendTyped DEF SendXDP, DbusSend
    <2>4. CASE SendREQ
      BY <2>4, <1>0, PacketT, DbusSendTyped DEF SendREQ, DbusSend
    <2>5. CASE AckVAR
      BY <2>5, PacketT, DbusSendTyped DEF AckVAR
    <2>6. CASE SendCTS
      BY <2>6, PacketT, DbusSendTyped DEF SendCTS
    <2> QED
      BY <1>1, <2>1, <2>2, <2>3, <2>4, <2>5, <2>6
  <1>2. CASE RecvRTSAck \/ RecvXDPAck \/ RecvREQAck \/ RecvVAR
    <2> USE DEF SameKind, ReadySteps, SendSteps, RecvSteps
    <2>1. CASE RecvRTSAck
      BY <2>1, DbusExpectTyped DEF RecvRTSAck
    <2>2. CASE RecvXDPAck
      BY <2>2, DbusExpectTyped DEF RecvXDPAck
    <2>3. CASE RecvREQAck
      BY <2>3, DbusExpectTyped DEF RecvREQAck
    <2>4. CASE RecvVAR
      BY <2>4, DbusExpectTyped DEF RecvVAR
    <2> QED
      BY <1>2, <2>1, <2>2, <2>3, <2>4
  <1>3. CASE RecvReady
    <2>1. OpT' /\ AtT' /\ at' = "idle" /\ UNCHANGED <<ops, toCalc, calculator, faults, rej>>
      BY <1>3, FinishT, FailT DEF RecvReady, CommonT, News, Finish, Fail
    <2>2. SlvAt' /\ RejT'
      BY <2>1 DEF SlvAt, CommonT, RejT
    <2> QED
      BY <1>3, <2>1, <2>2, DbusRecvTyped DEF RecvReady
  <1>4. CASE RecvSKP
    <2>1. /\ OpT' /\ AtT' /\ at' \in {"idle", "ACK"}
          /\ UNCHANGED <<ops, toCalc, calculator, faults>>
      BY <1>4, GoOnT, FailT
      DEF RecvSKP, DbusRecv, CommonT, GoOn, Fail, Finish, SameKind, ReadySteps, SendSteps, RecvSteps
    <2>2. Heard \in Packets
      BY <1>4, HeardT DEF RecvSKP
    <2>3. RejT'
      BY <1>4, <2>2 DEF RecvSKP, RejT, Intact, Packets
    <2> QED
      BY <1>4, <2>1, <2>3, DbusRecvTyped DEF RecvSKP, SlvAt
  <1>5. CASE RecvCTSAck
    <2>1. /\ OpT' /\ AtT' /\ at' \in {"idle", "getXDP"}
          /\ UNCHANGED <<ops, toCalc, calculator, faults, rej>>
      BY <1>5, GoOnT, FailT
      DEF RecvCTSAck, DbusRecv, CommonT, GoOn, Fail, Finish, SameKind, ReadySteps, SendSteps, RecvSteps
    <2> QED
      BY <1>5, <2>1, DbusRecvTyped DEF RecvCTSAck, SlvAt, CommonT, RejT
  <1>6. CASE RecvXDP
    <2>1. Heard \in Packets
      BY <1>6, HeardT DEF RecvXDP
    <2>2. CASE Intact(Heard) /\ Heard.cmd = "XDP"
      <3>1. Heard.arg \in Contents
        BY <2>1, <2>2 DEF Intact, Packets
      <3>2. /\ got' = Heard.arg /\ at' = "ackXDP" /\ UNCHANGED <<op, offered, ops, told>>
            /\ at = "getXDP" /\ UNCHANGED <<toCalc, calculator, faults, rej>>
        BY <1>6, <2>2 DEF RecvXDP, DbusRecv
      <3>3. OpT' /\ AtT' /\ SlvAt' /\ RejT'
        BY <3>1, <3>2 DEF CommonT, OpT, AtT, SlvAt, RejT, ReadySteps, SendSteps, RecvSteps
      <3> QED
        BY <1>6, <3>2, <3>3, DbusRecvTyped DEF RecvXDP
    <2>3. CASE ~(Intact(Heard) /\ Heard.cmd = "XDP")
      <3>1. /\ OpT' /\ AtT' /\ at' = "idle" /\ UNCHANGED <<ops, toCalc, calculator, faults, rej>>
        BY <1>6, <2>3, FailT DEF RecvXDP, CommonT, Fail, Finish
      <3> QED
        BY <1>6, <3>1, DbusRecvTyped DEF RecvXDP, SlvAt, CommonT, RejT
    <2> QED
      BY <2>2, <2>3
  <1>7. CASE SendACK \/ SendEOT \/ AckXDP
    <2>1. PICK p \in Packets : Put(p)
      BY <1>7, PacketT DEF SendACK, SendEOT, AckXDP
    <2>2. /\ OpT' /\ AtT' /\ SlvAt'
          /\ UNCHANGED <<ops, toHost, calculator, faults>>
      <3>1. CASE SendACK
        BY <3>1, GoOnT, FinishT, FailT
        DEF SendACK, CommonT, News, GoOn, Fail, Finish, SameKind, ReadySteps, SendSteps, RecvSteps, SlvAt
      <3>2. CASE SendEOT
        BY <3>2, FinishT DEF SendEOT, CommonT, News, Finish, SlvAt
      <3>3. CASE AckXDP
        BY <3>3, FinishT DEF AckXDP, CommonT, OpT, News, Finish, SlvAt
      <3> QED
        BY <1>7, <3>1, <3>2, <3>3
    <2>3. RejT'
      BY <1>7 DEF SendACK, SendEOT, AckXDP, CommonT, RejT
    <2>4. StoreT' /\ CalcT' /\ BoundsT'
      BY <2>2, SameCalcT, SameBoundsT DEF CommonT
    <2>5. SlvWire'
      BY <2>1, <2>2, AppendIs DEF Put, SlvT, SlvWire
    <2> QED
      BY <2>2, <2>3, <2>4, <2>5 DEF CommonT, SlvT, MaxlenT
  <1>8. CASE DbusGivesUp
    <2>1. /\ Fail /\ UNCHANGED <<wire, calculator>> /\ rej' = None
          /\ UNCHANGED faults \/ (faults < MaxFaults /\ faults' = faults + 1)
      BY <1>8 DEF DbusGivesUp, WriteFails, PutFails, ReadTimesOut, wire
    <2>2. OpT' /\ AtT' /\ SlvAt' /\ UNCHANGED ops
      BY <2>1, FailT DEF CommonT, Fail, Finish, SlvAt
    <2>3. StoreT' /\ CalcT' /\ BoundsT'
      BY <2>1, <2>2, SameCalcT, SameBoundsT DEF CommonT
    <2> QED
      BY <2>1, <2>2, <2>3 DEF CommonT, SlvT, SlvWire, RejT, MaxlenT, wire
  <1> QED
    BY <1>1, <1>2, <1>3, <1>4, <1>5, <1>6, <1>7, <1>8 DEF DbusHost

LEMMA CalcTurnTyped ==
  ASSUME CommonT, SlvT, NEW cmd, CalcTurn(cmd), UNCHANGED maxlen, StoreT', CalcT',
         toHost' \in Seq(Packets)
  PROVE  CommonT' /\ SlvT'
  <1>1. OpT' /\ AtT' /\ BoundsT' /\ RejT' /\ SlvAt'
    BY SameOpT, SameBoundsT DEF CalcTurn, CommonT, RejT, SlvT, SlvAt
  <1>2. toCalc' \in Seq(Packets)
    BY TailIs DEF CalcTurn, CalcHears, SlvT, SlvWire
  <1> QED
    BY <1>1, <1>2 DEF CommonT, MaxlenT, SlvT, SlvWire

LEMMA CalcStopsTyped ==
  ASSUME OpT, AtT, StoreT, BoundsT, CalcStops
  PROVE  OpT' /\ AtT' /\ StoreT' /\ CalcT' /\ BoundsT' /\ at' = at
  <1>1. OpT' /\ AtT' /\ at' = at
    BY SameOpT DEF CalcStops
  <1>2. StoreT' /\ BoundsT'
    BY SameBoundsT DEF CalcStops, StoreT
  <1>3. CalcT'
    BY CalcIdleT DEF CalcStops, CalcT
  <1> QED
    BY <1>1, <1>2, <1>3

LEMMA Stored ==
  ASSUME StoreT, NEW s, NEW c \in Contents \cup {Absent}, store' = [store EXCEPT ![s] = c]
  PROVE  StoreT'
  BY DEF StoreT

LEMMA DbusCalcTyped ==
  ASSUME CommonT, SlvT, DbusCalc, UNCHANGED maxlen
  PROVE  CommonT' /\ SlvT'
  <1>0. StoreT /\ CalcT /\ toHost \in Seq(Packets) /\ toCalc \in Seq(Packets)
    BY DEF CommonT, SlvT, SlvWire
  <1>a. ASSUME NEW s \in Slots, NEW doing \in {"taking", "giving"}
        PROVE  Calc(doing, s) \in Calcs /\ Calc(doing, s).slot = s /\ ~Calc(doing, s).waiting
    BY <1>a, EmptySeq DEF Calc, CalcIdle, Calcs
  <1>b. toCalc # <<>> => Head(toCalc) \in Packets
    BY <1>0, TailIs
  <1>c. calc' = CalcIdle => CalcT'
    BY CalcIdleT DEF CalcT
  <1>d. UNCHANGED store => StoreT'
    BY <1>0 DEF StoreT
  <1>e. ErrReply => StoreT' /\ CalcT' /\ toHost' \in Seq(Packets)
    BY <1>0, <1>c, <1>d, PacketT, AppendIs DEF ErrReply, CalcSays
  <1>1. CASE CalcOnRDY
    <2>1. toHost' \in Seq(Packets)
      BY <1>1, <1>0, PacketT, AppendIs DEF CalcOnRDY, CalcSays
    <2> QED
      BY <1>1, <2>1, <1>c, <1>d, CalcTurnTyped DEF CalcOnRDY
  <1>2. CASE CalcOnRTS
    <2> DEFINE s == Head(toCalc).arg
    <2>1. CASE s = Damaged
      BY <1>2, <2>1, <1>e, CalcTurnTyped DEF CalcOnRTS
    <2>2. CASE s # Damaged
      <3>1. s \in Slots
        BY <1>2, <2>2, <1>b DEF CalcOnRTS, CalcTurn, CalcHears, Packets
      <3>2. StoreT'
        BY <1>2, <2>2, <1>d DEF CalcOnRTS
      <3>3. CASE CalcSays(<<Packet("ACK", None), Packet("CTS", None)>>) /\ calc' = Calc("taking", s)
        <4>1. CalcT'
          BY <3>1, <3>3, <1>a DEF CalcT
        <4>2. toHost' \in Seq(Packets)
          BY <3>3, <1>0, PacketT, TwoMore DEF CalcSays
        <4> QED
          BY <1>2, <3>2, <4>1, <4>2, CalcTurnTyped DEF CalcOnRTS
      <3>4. ASSUME NEW why \in Refusals,
                   CalcSays(<<Packet("ACK", None), Packet("SKP", why)>>), calc' = CalcIdle
            PROVE  CommonT' /\ SlvT'
        <4>1. toHost' \in Seq(Packets)
          BY <3>4, <1>0, PacketT, TwoMore DEF CalcSays
        <4> QED
          BY <1>2, <3>2, <3>4, <4>1, <1>c, CalcTurnTyped DEF CalcOnRTS
      <3> QED
        BY <1>2, <2>2, <3>3, <3>4 DEF CalcOnRTS
    <2> QED
      BY <2>1, <2>2
  <1>3. CASE CalcOnACK
    <2>1. StoreT'
      BY <1>3, <1>d, <1>0, Stored DEF CalcOnACK
    <2>2. CalcT' /\ toHost' \in Seq(Packets)
      BY <1>3, <1>0 DEF CalcOnACK, CalcT
    <2> QED
      BY <1>3, <2>1, <2>2, CalcTurnTyped DEF CalcOnACK
  <1>4. CASE CalcOnXDP
    <2> DEFINE c == Head(toCalc).arg
    <2>1. CASE calc.doing # "taking"
      <3>1. StoreT' /\ CalcT' /\ toHost' \in Seq(Packets)
        BY <1>4, <2>1, <1>0, SameCalcT DEF CalcOnXDP
      <3> QED
        BY <1>4, <3>1, CalcTurnTyped DEF CalcOnXDP
    <2>2. CASE calc.doing = "taking" /\ c = Damaged
      BY <1>4, <2>2, <1>e, CalcTurnTyped DEF CalcOnXDP
    <2>3. CASE calc.doing = "taking" /\ c # Damaged
      <3>1. c \in Contents
        BY <1>4, <2>3, <1>b DEF CalcOnXDP, CalcTurn, CalcHears, Packets
      <3>2. /\ CalcSays(<<Packet("ACK", None)>>)
            /\ store' = [store EXCEPT ![calc.slot] = c]
            /\ calc' = CalcIdle
        BY <1>4, <2>3 DEF CalcOnXDP
      <3>3. StoreT' /\ CalcT'
        BY <3>1, <3>2, <1>0, <1>c, Stored
      <3>4. Packet("ACK", None) \in Packets
        BY PacketT
      <3>5. toHost' \in Seq(Packets)
        BY <3>2, <3>4, <1>0, AppendIs DEF CalcSays
      <3> QED
        BY <1>4, <3>3, <3>5, CalcTurnTyped DEF CalcOnXDP
    <2> QED
      BY <2>1, <2>2, <2>3
  <1>5. CASE CalcOnEOT
    <2>1. StoreT' /\ CalcT' /\ toHost' \in Seq(Packets)
      BY <1>5, <1>0, SameCalcT DEF CalcOnEOT
    <2> QED
      BY <1>5, <2>1, CalcTurnTyped DEF CalcOnEOT
  <1>6. CASE CalcOnREQ
    <2> DEFINE s == Head(toCalc).arg
               reply == IF store[s] = Absent THEN Packet("SKP", "exit") ELSE Packet("VAR", s)
    <2>1. CASE s = Damaged
      BY <1>6, <2>1, <1>e, CalcTurnTyped DEF CalcOnREQ
    <2>2. CASE s # Damaged
      <3>1. s \in Slots
        BY <1>6, <2>2, <1>b DEF CalcOnREQ, CalcTurn, CalcHears, Packets
      <3>2. reply \in Packets
        BY <3>1, PacketT
      <3>3. /\ CalcSays(<<Packet("ACK", None), reply>>)
            /\ calc' = IF store[s] = Absent THEN CalcIdle ELSE Calc("giving", s)
            /\ UNCHANGED store
        BY <1>6, <2>2 DEF CalcOnREQ
      <3>4. CalcT'
        BY <3>1, <3>3, <1>a, <1>c DEF CalcT
      <3>5. toHost' \in Seq(Packets)
        <4> HIDE DEF reply
        <4> QED
          BY <3>2, <3>3, <1>0, PacketT, TwoMore DEF CalcSays
      <3> QED
        BY <1>6, <3>3, <3>4, <3>5, <1>d, CalcTurnTyped DEF CalcOnREQ
    <2> QED
      BY <2>1, <2>2
  <1>7. CASE CalcOnCTS
    <2>1. StoreT' /\ CalcT'
      BY <1>7, <1>0, SameCalcT DEF CalcOnCTS
    <2>2. toHost' \in Seq(Packets)
      <3>1. CASE calc.doing = "giving" /\ store[calc.slot] # Absent
        <4>1. store[calc.slot] \in Contents
          BY <3>1, <1>0 DEF StoreT, CalcT
        <4>2. Packet("XDP", store[calc.slot]) \in Packets
          BY <4>1, PacketT
        <4>3. Packet("ACK", None) \in Packets
          BY PacketT
        <4>4. toHost' = toHost \o <<Packet("ACK", None), Packet("XDP", store[calc.slot])>>
          BY <1>7, <3>1 DEF CalcOnCTS, CalcSays
        <4> QED
          BY <4>2, <4>3, <4>4, <1>0, TwoMore
      <3> QED
        BY <1>7, <3>1, <1>0 DEF CalcOnCTS
    <2> QED
      BY <1>7, <2>1, <2>2, CalcTurnTyped DEF CalcOnCTS
  <1>8. CASE Damage
    <2>1. ASSUME NEW q \in Seq(Packets), q # <<>>, Head(q).cmd \in WithData
          PROVE  [q EXCEPT ![1].arg = Damaged] \in Seq(Packets)
      <3>1. q[1] \in Packets /\ 1 \in 1..Len(q) /\ Head(q) = q[1]
        BY <2>1, TailIs
      <3>2. [q[1] EXCEPT !.arg = Damaged] \in Packets
        BY <2>1, <3>1 DEF Packets, WithData
      <3> QED
        BY <3>1, <3>2, ExceptSeq
    <2>2. SlvWire'
      BY <1>8, <2>1, <1>0 DEF Damage, SlvWire, Heard
    <2>3. OpT' /\ AtT' /\ BoundsT' /\ RejT' /\ SlvAt' /\ StoreT' /\ CalcT'
      BY <1>8, SameOpT, SameBoundsT, SameCalcT DEF Damage, CommonT, RejT, SlvT, SlvAt
    <2> QED
      BY <2>2, <2>3 DEF CommonT, MaxlenT, SlvT
  <1>9. CASE CalcStops /\ UNCHANGED rej
    <2>1. toCalc' = <<>> /\ UNCHANGED toHost => SlvWire'
      BY <1>0, EmptySeq DEF SlvWire
    <2>2. /\ toHost # <<>> /\ toHost' = SubSeq(toHost, 1, Len(toHost) - 1)
          /\ UNCHANGED toCalc
          => SlvWire'
      BY <1>0, FrontIs DEF SlvWire
    <2>3. SlvWire'
      BY <1>9, <2>1, <2>2 DEF CalcStops
    <2> QED
      BY <1>9, <2>3, CalcStopsTyped DEF CommonT, RejT, MaxlenT, SlvT, SlvAt
  <1> QED
    BY <1>1, <1>2, <1>3, <1>4, <1>5, <1>6, <1>7, <1>8, <1>9 DEF DbusCalc

LEMMA DbusTyped ==
  ASSUME CommonT, SlvT, DbusNext, UNCHANGED maxlen
  PROVE  CommonT' /\ SlvT'
  <1>1. CASE DbusBegin
    <2>1. PICK kind \in Kinds, s \in Slots \cup {Absent}, c \in Contents \cup {Absent},
               first \in {"RDY", "RTS", "REQ"} :
             /\ Begin(kind, s, c, first)
             /\ kind = "ready" => s = Absent /\ c = Absent /\ first = "RDY"
             /\ kind = "send" => s \in Slots /\ c \in Contents /\ first = "RTS"
             /\ kind = "recv" => s \in Slots /\ c = Absent /\ first = "REQ"
      BY <1>1 DEF DbusBegin, Kinds
    <2>2. OpT' /\ AtT' /\ BoundsT' /\ at' = first /\ UNCHANGED <<wire, calculator, faults>>
      BY <2>1, BeginT DEF CommonT, ReadySteps, SendSteps, RecvSteps
    <2>3. StoreT' /\ CalcT' /\ SlvAt' /\ SlvWire'
      BY <2>2, SameCalcT DEF CommonT, SlvT, SlvWire, SlvAt, DbusPuts, wire
    <2> QED
      BY <1>1, <2>2, <2>3 DEF DbusBegin, CommonT, RejT, MaxlenT, SlvT
  <1> QED
    BY <1>1, DbusHostTyped, DbusCalcTyped DEF DbusNext

-----------------------------------------------------------------------------
(* Types: the steps over the direct cable                                  *)

LEMMA HostTyped ==
  ASSUME CommonT, UsbT, OpT', AtT', RejT', UNCHANGED <<ops, calculator>>,
         UNCHANGED faults \/ (faults < MaxFaults /\ faults' = faults + 1),
         UsbAt', UsbWire', MaxlenT', Sized', OutT', InT'
  PROVE  CommonT' /\ UsbT'
  <1>1. StoreT' /\ CalcT' /\ BoundsT'
    BY SameCalcT, SameBoundsT DEF CommonT
  <1> QED
    BY <1>1 DEF CommonT, UsbT

LEMMA UsbHeardT ==
  ASSUME UsbWire, toHost # <<>>
  PROVE  /\ Heard \in HostRaws /\ Heard \in Raws
         /\ Heard.kind = "SIZE_ALLOC" \/ Heard.kind = "SIZE_REQ" => Heard.to \in Grants
         /\ Heard.to \in Nat /\ Heard.from \in Nat /\ Heard.v \in Virtuals
         /\ Tail(toHost) \in Seq(HostRaws)
  BY TailIs DEF UsbWire, Heard, HostRaws, Raws

LEMMA DusbHostTyped ==
  ASSUME CommonT, UsbT, DusbHost, UNCHANGED rej
  PROVE  CommonT' /\ UsbT'
  <1>0. OpT /\ AtT /\ RejT /\ RejT' /\ UsbAt /\ UsbWire /\ MaxlenT /\ Sized /\ OutT /\ InT
    BY DEF CommonT, UsbT, RejT
  <1>a. Fresh \in [phase : {"first", "ack", "ackOnly", "next"}, sent : Nat, full : Int, rest : Nat,
                   final : BOOLEAN]
    BY DEF Fresh, Unknown
  <1>b. Nothing \in [begun : BOOLEAN, v : Declared, size : Int, delayed : BOOLEAN]
    BY NoDataT DEF Nothing, Declared
  <1>c. \A m \in Grants : m \in Nat /\ m > 6
    OBVIOUS
  <1>d. ASSUME NEW p \in Raws, Put(p), UNCHANGED toHost
        PROVE  UsbWire'
    BY <1>0, <1>d, AppendIs DEF Put, UsbWire
  <1>1. CASE BufSizeRequest
    <2>1. UsbWire'
      BY <1>1, <1>d, SizeT DEF BufSizeRequest
    <2>2. OpT' /\ AtT' /\ at' = "sizeAlloc"
      BY <1>1, <1>0, GoOnT DEF BufSizeRequest, SameKind, ReadySteps, SendSteps, RecvSteps
    <2>3. UNCHANGED <<ops, calculator, faults, maxlen, out, in>>
      BY <1>1 DEF BufSizeRequest, GoOn, dusbVars
    <2>4. UsbAt' /\ MaxlenT' /\ Sized' /\ OutT' /\ InT'
      BY <2>2, <2>3, <1>0, <1>1
      DEF UsbAt, MaxlenT, Sized, OutT, InT, Sends, Awaits, BufSizeRequest
    <2> QED
      BY <2>1, <2>2, <2>3, <2>4, <1>0, HostTyped
  <1>2. CASE BufSizeAlloc
    <2>1. UsbWire'
      BY <1>2, <1>0, UsbHeardT DEF BufSizeAlloc, UsbWire
    <2>2. OpT' /\ AtT' /\ at' \in {"idle", "PING"} /\ (at' = "PING" => Heard.kind = "SIZE_ALLOC")
      BY <1>2, <1>0, GoOnT, FailT
      DEF BufSizeAlloc, SameKind, ReadySteps, SendSteps, RecvSteps
    <2>3. UNCHANGED <<ops, calculator, faults, out, in>>
      BY <1>2 DEF BufSizeAlloc, GoOn, Fail, Finish
    <2>4. MaxlenT' /\ Sized'
      BY <2>2, <1>0, <1>2, UsbHeardT
      DEF MaxlenT, Sized, Sends, Awaits, BufSizeAlloc
    <2>5. UsbAt' /\ OutT' /\ InT'
      BY <2>2, <2>3, <1>0, <1>2 DEF UsbAt, OutT, InT, Sends, BufSizeAlloc
    <2> QED
      BY <2>1, <2>2, <2>3, <2>4, <2>5, <1>0, HostTyped
  <1>3. ASSUME NEW raw \in Raws, Put(raw), UNCHANGED <<op, at, told, got, ops, toHost, calculator, faults, maxlen, in>>,
               OutT'
        PROVE  CommonT' /\ UsbT'
    <2>1. UsbWire'
      BY <1>3, <1>d
    <2>2. OpT' /\ AtT'
      BY <1>3, <1>0, SameOpT
    <2>3. UsbAt' /\ MaxlenT' /\ Sized' /\ InT'
      BY <1>3, <1>0 DEF UsbAt, MaxlenT, Sized, InT
    <2> QED
      BY <1>3, <2>1, <2>2, <2>3, <1>0, HostTyped
  <1>4. CASE SendFirst
    <2>1. at \in Sends /\ maxlen \in Nat /\ maxlen > 6 /\ Outgoing \in Virtuals /\ Outgoing.size \in Nat
      BY <1>4, <1>0, <1>c, OutgoingT DEF SendFirst, Sized, Virtuals
    <2>2. PICK raw : /\ Transmit(raw)
                     /\ \/ raw = Raw("LAST", Outgoing, 0, Outgoing.size)
                        \/ raw = Raw("DATA", Outgoing, 0, maxlen - HeaderSize)
      BY <1>4, Zenon DEF SendFirst
    <2>3. raw \in Raws /\ raw.to \in Nat
      <3>1. maxlen - HeaderSize \in Nat
        BY <2>1 DEF HeaderSize
      <3>2. raw.to = Outgoing.size \/ raw.to = maxlen - HeaderSize
        BY <2>2 DEF Raw
      <3> QED
        BY <2>1, <2>2, <3>1, <3>2, RawT
    <2>4. out' \in [phase : {"first", "ack", "ackOnly", "next"}, sent : Nat, full : Int, rest : Nat,
                    final : BOOLEAN]
      BY <2>2, <2>3, <1>0 DEF Transmit, OutT
    <2>5. OutT'
      BY <2>1, <2>2, <2>4 DEF OutT, Transmit
    <2> QED
      BY <2>2, <2>3, <2>5, <1>3 DEF Transmit
  <1>5. CASE SendNext
    <2>1. at \in Sends /\ maxlen \in Nat /\ Outgoing \in Virtuals
      BY <1>5, <1>0, <1>c, OutgoingT DEF SendNext, Sized
    <2>2. out.sent \in Nat /\ out.rest \in Nat /\ out.full \in Int
      BY <1>0 DEF OutT
    <2>3. PICK raw \in Raws : Put(raw)
      <3>1. Raw("DATA", Outgoing, out.sent, out.sent + maxlen) \in Raws
        BY <2>1, <2>2, RawT
      <3>2. Raw("LAST", Outgoing, out.sent, out.sent + out.rest) \in Raws
        BY <2>1, <2>2, RawT
      <3> QED
        BY <1>5, <3>1, <3>2 DEF SendNext
    <2>4. out' \in [phase : {"first", "ack", "ackOnly", "next"}, sent : Nat, full : Int, rest : Nat,
                    final : BOOLEAN]
      <3>1. CASE out.full > 0
        <4>1. out' = [out EXCEPT !.phase = "ack", !.sent = @ + maxlen, !.full = @ - 1]
          BY <1>5, <3>1 DEF SendNext
        <4>2. out.sent + maxlen \in Nat /\ out.full - 1 \in Int
          BY <2>1, <2>2
        <4> QED
          BY <4>1, <4>2, <1>0 DEF OutT
      <3>2. CASE ~(out.full > 0)
        <4>1. out' = [out EXCEPT !.phase = "ack", !.sent = @ + out.rest, !.final = TRUE]
          BY <1>5, <3>2 DEF SendNext
        <4>2. out.sent + out.rest \in Nat
          BY <2>1, <2>2
        <4> QED
          BY <4>1, <4>2, <1>0 DEF OutT
      <3> QED
        BY <3>1, <3>2
    <2>5. OutT'
      BY <1>5, <2>1, <2>4 DEF OutT, SendNext
    <2>6. UNCHANGED <<op, at, told, got, ops, toHost, calculator, faults, maxlen, in>>
      BY <1>5 DEF SendNext
    <2> QED
      BY <2>3, <2>5, <2>6, <1>3
  <1>6. CASE RecvAcknowledge
    <2>1. /\ at \in Sends /\ toHost # <<>> /\ toHost' = Tail(toHost)
          /\ UNCHANGED <<calculator, in>>
      BY <1>6 DEF RecvAcknowledge
    <2>2. maxlen \in Nat /\ maxlen > 6 /\ Outgoing \in Virtuals /\ Outgoing.size \in Nat
      BY <2>1, <1>0, <1>c, OutgoingT DEF Sized, Virtuals
    <2>3. toHost' \in Seq(HostRaws)
      BY <2>1, <1>0, UsbHeardT
    <2>4. CASE Heard.kind = "SIZE_REQ" /\ out.phase = "ack"
      <3>1. /\ maxlen' = Heard.to
            /\ \/ /\ Put(Size("SIZE_ALLOC", Heard.to))
                  /\ out' = [out EXCEPT !.phase = "ackOnly"]
                  /\ GoOn(at) /\ UNCHANGED faults
               \/ PutFails /\ out' = Fresh
        BY <1>6, <2>4 DEF RecvAcknowledge
      <3>2. Heard.to \in Grants
        BY <2>1, <2>4, <1>0, UsbHeardT
      <3>3. CASE /\ Put(Size("SIZE_ALLOC", Heard.to))
                 /\ out' = [out EXCEPT !.phase = "ackOnly"]
                 /\ GoOn(at) /\ UNCHANGED faults
        <4>1. UsbWire'
          BY <2>3, <3>2, <3>3, <1>0, SizeT, AppendIs DEF Put, UsbWire
        <4>2. OpT' /\ AtT' /\ at' = at /\ UNCHANGED ops
          BY <3>3, <1>0, GoOnT DEF GoOn, SameKind
        <4>3. UsbAt' /\ MaxlenT' /\ Sized' /\ InT' /\ OutT'
          BY <2>1, <3>1, <3>2, <3>3, <4>2, <1>0 DEF UsbAt, MaxlenT, Sized, InT, OutT
        <4> QED
          BY <2>1, <3>3, <4>1, <4>2, <4>3, <1>0, HostTyped
      <3>4. CASE PutFails /\ out' = Fresh
        <4>1. Fail /\ UNCHANGED toCalc /\ faults < MaxFaults /\ faults' = faults + 1
          BY <3>4 DEF PutFails
        <4>2. UsbWire'
          BY <2>3, <4>1, <1>0 DEF UsbWire
        <4>3. OpT' /\ AtT' /\ at' = "idle" /\ UNCHANGED ops
          BY <4>1, <1>0, FailT DEF Fail, Finish
        <4>4. UsbAt' /\ MaxlenT' /\ Sized' /\ InT' /\ OutT'
          BY <2>1, <3>1, <3>2, <3>4, <4>3, <1>0, <1>a
          DEF UsbAt, MaxlenT, Sized, InT, OutT, Sends, Awaits
        <4> QED
          BY <2>1, <4>1, <4>2, <4>3, <4>4, <1>0, HostTyped
      <3> QED
        BY <3>1, <3>3, <3>4
    <2>5. CASE Heard.kind = "ACK"
      <3>1. UNCHANGED <<toCalc, maxlen, faults>> /\ Acknowledged
        BY <1>6, <2>5 DEF RecvAcknowledge
      <3>2. UsbWire'
        BY <2>3, <3>1, <1>0 DEF UsbWire
      <3>3. CASE ~out.final
        <4>1. out' = [Count EXCEPT !.phase = "next"] /\ GoOn(at)
          BY <3>1, <3>3 DEF Acknowledged
        <4>2. OpT' /\ AtT' /\ at' = at /\ UNCHANGED ops
          BY <4>1, <1>0, GoOnT DEF GoOn, SameKind
        <4>3. Count \in [phase : {"first", "ack", "ackOnly", "next"}, sent : Nat, full : Int,
                         rest : Nat, final : BOOLEAN]
          <5>1. Outgoing.size - out.sent \in Int /\ maxlen > 0
            BY <2>2, <1>0 DEF OutT
          <5>2. /\ (Outgoing.size - out.sent) \div maxlen \in Int
                /\ (Outgoing.size - out.sent) % maxlen \in Nat
            BY <5>1, <2>2, Division
          <5> QED
            BY <5>2, <1>0 DEF Count, OutT
        <4>4. UsbAt' /\ MaxlenT' /\ Sized' /\ InT' /\ OutT'
          BY <2>1, <3>1, <4>1, <4>2, <4>3, <1>0 DEF UsbAt, MaxlenT, Sized, InT, OutT
        <4> QED
          BY <2>1, <3>1, <3>2, <4>2, <4>4, <1>0, HostTyped
      <3>4. CASE out.final
        <4>1. out' = Fresh /\ IF at = "EOT" THEN Finish("stored", Absent) ELSE GoOn(After[at])
          BY <3>1, <3>4 DEF Acknowledged
        <4>2. at # "EOT" => After[at] \in Awaits /\ SameKind(at, After[at])
          BY <2>1 DEF Sends, Awaits, After, SameKind, ReadySteps, SendSteps, RecvSteps
        <4>3. OpT' /\ AtT' /\ at' \in Awaits \cup {"idle"} /\ UNCHANGED ops
          BY <4>1, <4>2, <1>0, GoOnT, FinishT DEF GoOn, Finish, News
        <4>4. UsbAt' /\ MaxlenT' /\ Sized' /\ InT' /\ OutT'
          BY <2>1, <3>1, <4>1, <4>3, <1>0, <1>a DEF UsbAt, MaxlenT, Sized, InT, OutT
        <4> QED
          BY <2>1, <3>1, <3>2, <4>3, <4>4, <1>0, HostTyped
      <3> QED
        BY <3>3, <3>4, <1>0 DEF OutT
    <2>6. CASE ~(Heard.kind = "SIZE_REQ" /\ out.phase = "ack") /\ Heard.kind # "ACK"
      <3>1. Fail /\ out' = Fresh /\ UNCHANGED <<toCalc, maxlen, faults>>
        BY <1>6, <2>6 DEF RecvAcknowledge
      <3>2. UsbWire'
        BY <2>3, <3>1, <1>0 DEF UsbWire
      <3>3. OpT' /\ AtT' /\ at' = "idle" /\ UNCHANGED ops
        BY <3>1, <1>0, FailT DEF Fail, Finish
      <3>4. UsbAt' /\ MaxlenT' /\ Sized' /\ InT' /\ OutT'
        BY <2>1, <3>1, <3>3, <1>0, <1>a DEF UsbAt, MaxlenT, Sized, InT, OutT, Sends, Awaits
      <3> QED
        BY <2>1, <3>1, <3>2, <3>3, <3>4, <1>0, HostTyped
    <2> QED
      BY <2>4, <2>5, <2>6
  <1>7. CASE DusbGivesUp
    <2>1. /\ Fail /\ UNCHANGED <<wire, calculator>> /\ out' = Fresh /\ in' = Nothing
          /\ UNCHANGED maxlen
          /\ UNCHANGED faults \/ (faults < MaxFaults /\ faults' = faults + 1)
      BY <1>7 DEF DusbGivesUp, WriteFails, PutFails, ReadTimesOut, wire
    <2>2. OpT' /\ AtT' /\ at' = "idle" /\ UNCHANGED ops
      BY <2>1, <1>0, FailT DEF Fail, Finish
    <2>3. UsbAt' /\ UsbWire' /\ MaxlenT' /\ Sized' /\ InT' /\ OutT'
      BY <2>1, <2>2, <1>0, <1>a, <1>b
      DEF UsbAt, UsbWire, MaxlenT, Sized, InT, OutT, Sends, Awaits, wire
    <2> QED
      BY <2>1, <2>2, <2>3, <1>0, HostTyped
  <1>8. CASE RecvData
    <2> DEFINE bytes == Heard.to - Heard.from
               size == IF in.begun THEN in.size + bytes
                       ELSE IF Heard.from = 0 THEN bytes ELSE bytes - HeaderSize
               v == IF in.begun THEN in.v ELSE IF Heard.from = 0 THEN Heard.v ELSE Headerless
    <2>a. /\ at \in Awaits /\ toHost # <<>> /\ toHost' = Tail(toHost)
          /\ UNCHANGED <<calculator, maxlen, out>>
          /\ \/ Fail /\ in' = Nothing /\ UNCHANGED <<toCalc, faults>>
             \/ PutFails /\ in' = Nothing
             \/ /\ Put(Acknowledge) /\ UNCHANGED faults
                /\ \/ in' = [in EXCEPT !.begun = TRUE, !.v = v, !.size = size] /\ GoOn(at)
                   \/ Delivered(v)
                   \/ Fail /\ in' = Nothing
      BY <1>8, Zenon DEF RecvData
    <2>3. v \in Declared /\ size \in Int
      <3>1. Heard.to - Heard.from \in Int /\ in.size \in Int /\ in.v \in Declared
            /\ Heard.v \in Declared /\ Headerless \in Declared
        BY <2>a, <1>0, UsbHeardT DEF InT, Declared
      <3> QED
        BY <3>1 DEF HeaderSize
    <2> HIDE DEF size, v
    <2>1. /\ at \in Awaits /\ toHost # <<>> /\ toHost' = Tail(toHost)
          /\ UNCHANGED <<calculator, maxlen, out>>
          /\ UNCHANGED toCalc \/ Put(Acknowledge)
          /\ UNCHANGED faults \/ (faults < MaxFaults /\ faults' = faults + 1)
      BY <2>a, Zenon DEF PutFails
    <2>2. UsbWire'
      <3>1. toHost' \in Seq(HostRaws)
        BY <2>1, <1>0, UsbHeardT
      <3>0. Append(toCalc, Acknowledge) \in Seq(Raws) /\ toCalc \in Seq(Raws)
        BY <1>0, AckT, AppendIs DEF UsbWire
      <3>2. toCalc' \in Seq(Raws)
        BY <2>1, <3>0 DEF Put
      <3> QED
        BY <3>1, <3>2 DEF UsbWire
    <2>4. \/ Fail /\ in' = Nothing
          \/ in' = [in EXCEPT !.begun = TRUE, !.v = v, !.size = size] /\ GoOn(at)
          \/ Delivered(v)
      BY <2>a, Zenon DEF PutFails
    <2>5. OpT' /\ AtT' /\ at' \in Awaits \cup Sends \cup {"idle"} /\ UNCHANGED ops /\ InT'
      <3>1. CASE Fail /\ in' = Nothing
        BY <3>1, <1>0, <1>b, FailT DEF Fail, Finish, InT
      <3>2. CASE in' = [in EXCEPT !.begun = TRUE, !.v = v, !.size = size] /\ GoOn(at)
        <4>1. InT'
          BY <3>2, <2>3, <1>0 DEF InT
        <4> QED
          BY <3>2, <2>1, <4>1, <1>0, GoOnT DEF GoOn, SameKind
      <3>3. CASE Delivered(v)
        <4>1. CASE v.type = "DELAY" /\ ~in.delayed
          <5>0. v.type # Expected[at]
            BY <2>1, <4>1 DEF Expected, Awaits
          <5>1. in' = [Nothing EXCEPT !.delayed = TRUE] /\ GoOn(at)
            BY <3>3, <4>1, <5>0 DEF Delivered
          <5>2. InT'
            BY <5>1, <1>b DEF InT
          <5> QED
            BY <2>1, <5>1, <5>2, <1>0, GoOnT DEF GoOn, SameKind
        <4>2. CASE ~(v.type = "DELAY" /\ ~in.delayed) /\ v.type = Expected[at]
          <5>1. /\ in' = Nothing
                /\ CASE at = "MODE_SET" -> Finish("ready", Absent)
                     [] at = "CONTENT" -> Finish("fetched", v.arg)
                     [] OTHER -> GoOn(After[at])
            BY <3>3, <4>2 DEF Delivered
          <5>2. CASE at = "MODE_SET"
            BY <5>1, <5>2, <1>0, <1>b, FinishT DEF News, Finish, InT
          <5>3. CASE at = "CONTENT"
            <6>1. v.arg \in Contents
              BY <4>2, <5>3, <2>3, HeaderlessT DEF Expected, Virtuals
            <6> QED
              BY <5>1, <5>3, <6>1, <1>0, <1>b, FinishT DEF News, Finish, InT
          <5>4. CASE at \in {"RTS_ACK", "CNTS_ACK", "VAR_HDR"}
            <6>1. After[at] \in Awaits \cup Sends /\ SameKind(at, After[at])
              BY <5>4 DEF Sends, Awaits, After, SameKind, ReadySteps, SendSteps, RecvSteps
            <6>2. GoOn(After[at])
              BY <5>1, <5>4
            <6> QED
              BY <5>1, <6>1, <6>2, <1>0, <1>b, GoOnT DEF GoOn, InT
          <5> QED
            BY <2>1, <5>2, <5>3, <5>4 DEF Awaits
        <4>3. CASE ~(v.type = "DELAY" /\ ~in.delayed) /\ v.type # Expected[at]
          <5>1. Fail /\ in' = Nothing
            BY <3>3, <4>3 DEF Delivered
          <5> QED
            BY <5>1, <3>1
        <4> QED
          BY <4>1, <4>2, <4>3
      <3> QED
        BY <2>4, <3>1, <3>2, <3>3
    <2>6. out = Fresh
      BY <2>1, <1>0 DEF OutT, Awaits, Sends
    <2>7. UsbAt' /\ MaxlenT' /\ Sized' /\ OutT'
      BY <2>1, <2>5, <2>6, <1>0, <1>a DEF UsbAt, MaxlenT, Sized, OutT
    <2> QED
      BY <2>1, <2>2, <2>5, <2>7, <1>0, HostTyped
  <1> QED
    BY <1>1, <1>2, <1>4, <1>5, <1>6, <1>7, <1>8 DEF DusbHost

LEMMA DusbCalcTyped ==
  ASSUME CommonT, UsbT, OpT', AtT', UNCHANGED <<at, ops, rej, dusbVars>>, StoreT', CalcT', UsbWire',
         UNCHANGED faults \/ (faults < MaxFaults /\ faults' = faults + 1)
  PROVE  CommonT' /\ UsbT'
  <1>1. BoundsT' /\ RejT' /\ MaxlenT'
    BY SameBoundsT DEF CommonT, RejT, MaxlenT, dusbVars
  <1>2. UsbAt' /\ Sized' /\ OutT' /\ InT'
    BY DEF UsbT, UsbAt, Sized, OutT, InT, dusbVars
  <1> QED
    BY <1>1, <1>2 DEF CommonT, UsbT

\* What a step of the calculator that keeps the wires in their types does.
LEMMA DusbTurnTyped ==
  ASSUME CommonT, UsbT, HostUnchanged, UNCHANGED rej, StoreT', CalcT', UsbWire'
  PROVE  CommonT' /\ UsbT'
  <1>1. OpT' /\ AtT'
    BY SameOpT DEF HostUnchanged, CommonT
  <1> QED
    BY <1>1, DusbCalcTyped DEF HostUnchanged

LEMMA HearT ==
  ASSUME UsbWire, CalcHears
  PROVE  /\ toCalc # <<>> /\ Head(toCalc) \in Raws /\ toCalc' \in Seq(Raws)
         /\ Head(toCalc).from \in Nat /\ Head(toCalc).to \in Nat /\ Head(toCalc).v \in Virtuals
  <1>1. toCalc \in Seq(Raws) /\ toCalc # <<>> /\ toCalc' = Tail(toCalc)
    BY DEF UsbWire, CalcHears
  <1>2. Head(toCalc) \in Raws /\ Tail(toCalc) \in Seq(Raws)
    BY <1>1, TailIs
  <1> QED
    BY <1>1, <1>2 DEF Raws

LEMMA SayT ==
  ASSUME UsbWire, NEW raw \in HostRaws, CalcSays(<<raw>>)
  PROVE  toHost' \in Seq(HostRaws)
  BY AppendIs DEF UsbWire, CalcSays

LEMMA AnswerT ==
  ASSUME NEW vs \in Seq(Virtuals), Answer(vs)
  PROVE  CalcT'
  <1>1. [CalcIdle EXCEPT !.out = vs] \in Calcs
    BY EmptySeq DEF CalcIdle, Calcs
  <1>2. [CalcIdle EXCEPT !.out = vs].doing = "nothing" /\ ~[CalcIdle EXCEPT !.out = vs].waiting
    BY DEF CalcIdle
  <1> QED
    BY <1>1, <1>2 DEF Answer, CalcT

LEMMA CalcTypes ==
  ASSUME CalcT
  PROVE  /\ calc \in Calcs /\ calc.in \in Seq(Parts) /\ calc.out \in Seq(Virtuals)
         /\ calc.said \in Nat /\ calc.waiting \in BOOLEAN
         /\ calc.doing \in {"nothing", "taking", "giving"} /\ calc.slot \in Slots \cup {Absent}
         /\ calc.in # <<>> => /\ calc.in[1] \in Parts /\ 1 \in 1..Len(calc.in)
                               /\ calc.in[1].v \in Virtuals /\ calc.in[1].size \in Nat
         /\ calc.out # <<>> => /\ Head(calc.out) \in Virtuals /\ Head(calc.out).size \in Nat
                               /\ Tail(calc.out) \in Seq(Virtuals)
  <1>1. /\ calc \in Calcs /\ calc.in \in Seq(Parts) /\ calc.out \in Seq(Virtuals)
        /\ calc.said \in Nat /\ calc.waiting \in BOOLEAN
        /\ calc.doing \in {"nothing", "taking", "giving"} /\ calc.slot \in Slots \cup {Absent}
    BY DEF CalcT, Calcs
  <1>2. ASSUME calc.in # <<>>
        PROVE  calc.in[1] \in Parts /\ 1 \in 1..Len(calc.in)
    BY <1>1, <1>2, TailIs
  <1>3. ASSUME calc.out # <<>>
        PROVE  Head(calc.out) \in Virtuals /\ Tail(calc.out) \in Seq(Virtuals)
    BY <1>1, <1>3, TailIs
  <1> QED
    BY <1>1, <1>2, <1>3 DEF Parts, Virtuals

LEMMA DusbCalcStepsTyped ==
  ASSUME CommonT, UsbT, DusbCalc, UNCHANGED rej
  PROVE  CommonT' /\ UsbT'
  <1>0. OpT /\ AtT /\ StoreT /\ CalcT /\ BoundsT /\ UsbWire /\ toHost \in Seq(HostRaws)
    BY DEF CommonT, UsbT, UsbWire
  <1>a. \A m \in Grants : m \in Nat
    OBVIOUS
  <1>b. UNCHANGED store => StoreT'
    BY <1>0 DEF StoreT
  <1>c. UNCHANGED calc => CalcT'
    BY <1>0 DEF CalcT
  <1>d. calc' = CalcIdle => CalcT'
    BY CalcIdleT DEF CalcT
  <1>e. toCalc' \in Seq(Raws) /\ UNCHANGED toHost => UsbWire'
    BY <1>0 DEF UsbWire
  <1>1. CASE CalcAllocates
    <2>1. PICK m \in Grants : CalcSays(<<Size("SIZE_ALLOC", m)>>)
      BY <1>1 DEF CalcAllocates
    <2>2. UsbWire'
      BY <1>1, <2>1, <1>0, <1>a, HearT, SayT, SizeT DEF CalcAllocates, UsbWire
    <2> QED
      BY <1>1, <2>2, <1>b, <1>d, DusbTurnTyped DEF CalcAllocates
  <1>2. CASE CalcCollects
    <2> DEFINE raw == Head(toCalc)
               part == [v |-> raw.v, size |-> raw.to, whole |-> raw.kind = "LAST", asking |-> FALSE]
               end == IF raw.from = 0 /\ calc.in # <<>> THEN CalcIdle ELSE calc
    <2>1. /\ CalcHears /\ UNCHANGED store /\ HostUnchanged
          /\ \/ UNCHANGED <<toHost, calc>>
             \/ /\ CalcSays(<<Acknowledge>>)
                /\ calc' = [end EXCEPT !.in = <<part>>, !.out = <<>>, !.waiting = FALSE]
             \/ \E m \in Grants :
                /\ CalcSays(<<Size("SIZE_REQ", m)>>)
                /\ calc' = [end EXCEPT !.in = <<[part EXCEPT !.asking = TRUE]>>,
                                       !.out = <<>>, !.waiting = FALSE]
      BY <1>2, Zenon DEF CalcCollects
    <2>2. part \in Parts /\ [part EXCEPT !.asking = TRUE] \in Parts /\ toCalc' \in Seq(Raws)
      BY <2>1, <1>0, HearT DEF Parts
    <2>a. end \in Calcs /\ (end.doing # "nothing" => end.slot \in Slots)
      BY <1>0, CalcIdleT DEF CalcT
    <2> HIDE DEF part, end
    <2>3. ASSUME NEW p \in Parts,
                 calc' = [end EXCEPT !.in = <<p>>, !.out = <<>>, !.waiting = FALSE]
          PROVE  CalcT'
      <3>1. <<p>> \in Seq(Parts) /\ <<>> \in Seq(Virtuals)
        OBVIOUS
      <3> QED
        BY <2>3, <2>a, <3>1 DEF CalcT, Calcs
    <2>4. CASE UNCHANGED <<toHost, calc>>
      BY <2>1, <2>2, <2>4, <1>b, <1>c, <1>e, DusbTurnTyped
    <2>5. CASE /\ CalcSays(<<Acknowledge>>)
               /\ calc' = [end EXCEPT !.in = <<part>>, !.out = <<>>, !.waiting = FALSE]
      <3>1. UsbWire'
        BY <2>2, <2>5, <1>0, AckT, SayT DEF UsbWire
      <3>2. CalcT'
        BY <2>2, <2>3, <2>5
      <3> QED
        BY <2>1, <3>1, <3>2, <1>b, DusbTurnTyped
    <2>6. ASSUME NEW m \in Grants, CalcSays(<<Size("SIZE_REQ", m)>>),
                 calc' = [end EXCEPT !.in = <<[part EXCEPT !.asking = TRUE]>>,
                                     !.out = <<>>, !.waiting = FALSE]
          PROVE  CommonT' /\ UsbT'
      <3>1. UsbWire'
        BY <2>2, <2>6, <1>0, <1>a, SizeT, SayT DEF UsbWire
      <3>2. CalcT'
        BY <2>2, <2>3, <2>6
      <3> QED
        BY <2>1, <3>1, <3>2, <1>b, DusbTurnTyped
    <2> QED
      BY <2>1, <2>4, <2>5, <2>6
  <1>3. CASE CalcAccepts
    <2>1. toCalc' \in Seq(Raws)
      BY <1>3, <1>0, HearT DEF CalcAccepts
    <2>2. CASE calc.in # <<>> /\ calc.in[1].asking
      <3>1. CalcSays(<<Acknowledge>>) /\ calc' = [calc EXCEPT !.in[1].asking = FALSE]
        BY <1>3, <2>2 DEF CalcAccepts
      <3>2. UsbWire'
        BY <2>1, <3>1, <1>0, AckT, SayT DEF UsbWire
      <3>3. [calc.in EXCEPT ![1] = [calc.in[1] EXCEPT !.asking = FALSE]] \in Seq(Parts)
        <4>1. [calc.in[1] EXCEPT !.asking = FALSE] \in Parts
          BY <2>2, <1>0, CalcTypes DEF Parts
        <4> QED
          BY <2>2, <4>1, <1>0, CalcTypes, ExceptSeq
      <3>4. CalcT'
        BY <3>1, <3>3, <1>0 DEF CalcT, Calcs
      <3> QED
        BY <1>3, <3>2, <3>4, <1>b, DusbTurnTyped DEF CalcAccepts
    <2>3. CASE ~(calc.in # <<>> /\ calc.in[1].asking)
      BY <1>3, <2>1, <2>3, <1>b, <1>c, <1>e, DusbTurnTyped DEF CalcAccepts
    <2> QED
      BY <2>2, <2>3
  <1>4. CASE CalcObeys
    <2>1. HostUnchanged /\ UsbWire' /\ calc.in # <<>> /\ calc.in[1].v \in Virtuals
      BY <1>4, <1>0, CalcTypes DEF CalcObeys, UsbWire, wire, Complete
    <2> DEFINE v == calc.in[1].v
    <2>2. Refuse => StoreT' /\ CalcT'
      <3>1. <<Virtual("ERROR", Absent)>> \in Seq(Virtuals)
        BY VirtualT DEF VirtualTypes
      <3> QED
        BY <3>1, <1>b, AnswerT DEF Refuse
    <2>3. ASSUME NEW delay \in {<<>>, <<Virtual("DELAY", Absent)>>},
                 CASE v.type = "PING" ->
                        Answer(delay \o <<Virtual("MODE_SET", Absent)>>) /\ UNCHANGED store
                   [] v.type = "RTS" ->
                        /\ calc' = [CalcIdle EXCEPT !.doing = "taking", !.slot = v.arg,
                                                    !.out = delay \o <<Virtual("DATA_ACK", Absent)>>]
                        /\ \E keep \in BOOLEAN :
                             store' = IF keep THEN store ELSE [store EXCEPT ![v.arg] = Absent]
                   [] v.type = "VAR_CNTS" /\ calc.doing = "taking" ->
                        /\ calc' = [CalcIdle EXCEPT !.out = delay \o <<Virtual("DATA_ACK", Absent)>>]
                        /\ store' = [store EXCEPT ![calc.slot] = v.arg]
                   [] v.type = "VAR_REQ" /\ store[v.arg] # Absent ->
                        /\ Answer(delay \o <<Virtual("VAR_HDR", v.arg), Virtual("VAR_CNTS", store[v.arg])>>)
                        /\ UNCHANGED store
                   [] v.type = "EOT" -> calc' = CalcIdle /\ UNCHANGED store
                   [] OTHER -> Refuse
          PROVE  StoreT' /\ CalcT'
      <3>0. v \in Virtuals /\ v.type \in VirtualTypes
        BY <2>1 DEF Virtuals
      <3>a. delay \in Seq(Virtuals)
        <4>1. Virtual("DELAY", Absent) \in Virtuals
          BY VirtualT DEF VirtualTypes
        <4>2. \A w \in Virtuals : <<w>> \in Seq(Virtuals) /\ <<>> \in Seq(Virtuals)
          OBVIOUS
        <4> QED
          BY <4>1, <4>2, Zenon
      <3>b. ASSUME NEW w \in Virtuals
            PROVE  delay \o <<w>> \in Seq(Virtuals)
        BY <3>a, AppendIs
      <3>c. Virtual("MODE_SET", Absent) \in Virtuals /\ Virtual("DATA_ACK", Absent) \in Virtuals
        BY VirtualT DEF VirtualTypes
      <3> HIDE DEF v
      <3>1. CASE v.type = "PING"
        BY <2>3, <3>1, <3>b, <3>c, <1>b, AnswerT
      <3>2. CASE v.type = "RTS"
        <4>1. v.arg \in Slots
          BY <3>0, <3>2 DEF Virtuals
        <4>2. /\ calc' = [CalcIdle EXCEPT !.doing = "taking", !.slot = v.arg,
                                          !.out = delay \o <<Virtual("DATA_ACK", Absent)>>]
              /\ \E keep \in BOOLEAN :
                    store' = IF keep THEN store ELSE [store EXCEPT ![v.arg] = Absent]
          BY <2>3, <3>2
        <4>3. StoreT'
          BY <4>2, <1>0, Stored DEF StoreT
        <4>4. delay \o <<Virtual("DATA_ACK", Absent)>> \in Seq(Virtuals)
          BY <3>b, <3>c
        <4>5. CalcT'
          BY <4>1, <4>2, <4>4, EmptySeq DEF CalcT, Calcs, CalcIdle
        <4> QED
          BY <4>3, <4>5
      <3>3. CASE v.type = "VAR_CNTS" /\ calc.doing = "taking"
        <4>1. v.arg \in Contents
          BY <3>0, <3>3 DEF Virtuals
        <4>2. /\ Answer(delay \o <<Virtual("DATA_ACK", Absent)>>)
              /\ store' = [store EXCEPT ![calc.slot] = v.arg]
          BY <2>3, <3>3 DEF Answer
        <4>3. StoreT'
          BY <4>1, <4>2, <1>0, Stored
        <4> QED
          BY <4>2, <4>3, <3>b, <3>c, AnswerT
      <3>4. CASE v.type = "VAR_REQ" /\ store[v.arg] # Absent
        <4>1. v.arg \in Slots /\ store[v.arg] \in Contents
          BY <3>0, <3>4, <1>0 DEF Virtuals, StoreT
        <4>2. Virtual("VAR_HDR", v.arg) \in Virtuals /\ Virtual("VAR_CNTS", store[v.arg]) \in Virtuals
          BY <4>1, VirtualT DEF VirtualTypes, Sends
        <4>3. delay \o <<Virtual("VAR_HDR", v.arg), Virtual("VAR_CNTS", store[v.arg])>> \in Seq(Virtuals)
          BY <4>2, <3>a, TwoMore
        <4> QED
          BY <2>3, <3>4, <4>3, <1>b, AnswerT
      <3>5. CASE v.type = "EOT"
        BY <2>3, <3>5, <1>b, <1>d
      <3>6. CASE /\ v.type \notin {"PING", "RTS", "EOT"}
                 /\ ~(v.type = "VAR_CNTS" /\ calc.doing = "taking")
                 /\ ~(v.type = "VAR_REQ" /\ store[v.arg] # Absent)
        BY <2>3, <3>6, <2>2
      <3> QED
        BY <3>1, <3>2, <3>3, <3>4, <3>5, <3>6
    <2>4. StoreT' /\ CalcT'
      <3>1. CASE Refuse
        BY <3>1, <2>2
      <3>2. CASE ~Refuse
        <4> HIDE DEF v
        <4> QED
          BY <1>4, <3>2, <2>3 DEF CalcObeys, v
      <3> QED
        BY <3>1, <3>2
    <2> QED
      BY <2>1, <2>4, DusbTurnTyped
  <1>5. CASE CalcSpeaks
    <2> DEFINE v == Head(calc.out)
    <2>1. /\ calc.out # <<>> /\ UNCHANGED <<toCalc, store>> /\ HostUnchanged
          /\ v \in Virtuals /\ v.size \in Nat /\ calc.said \in Nat /\ calc.waiting \in BOOLEAN
      BY <1>5, <1>0, CalcTypes DEF CalcSpeaks
    <2>2. v.size \div 2 \in Nat
      BY <2>1, Division
    <2> HIDE DEF v
    <2>3. \E kind \in {"LAST", "DATA"}, from \in Nat, to \in Nat :
             /\ CalcSays(<<Raw(kind, v, from, to)>>)
             /\ calc' = [calc EXCEPT !.said = to, !.waiting = TRUE]
      BY <1>5, <2>1, <2>2 DEF CalcSpeaks, v
    <2>4. PICK kind \in {"LAST", "DATA"}, from \in Nat, to \in Nat :
             /\ CalcSays(<<Raw(kind, v, from, to)>>)
             /\ calc' = [calc EXCEPT !.said = to, !.waiting = TRUE]
      BY <2>3
    <2>5. Raw(kind, v, from, to) \in HostRaws
      BY <2>1, RawT DEF HostRaws, Raw
    <2>6. UsbWire'
      BY <2>1, <2>4, <2>5, <1>0, SayT DEF UsbWire
    <2>7. CalcT'
      BY <2>1, <2>4, <1>0 DEF CalcT, Calcs
    <2> QED
      BY <2>1, <2>6, <2>7, <1>b, DusbTurnTyped
  <1>6. CASE CalcIsHeard
    <2>1. toCalc' \in Seq(Raws)
      BY <1>6, <1>0, HearT DEF CalcIsHeard
    <2>2. CalcT'
      <3>1. CASE ~calc.waiting
        BY <1>6, <3>1, <1>c DEF CalcIsHeard
      <3>2. CASE calc.waiting /\ calc.said < Head(calc.out).size
        BY <1>6, <3>2, <1>0 DEF CalcIsHeard, CalcT, Calcs
      <3>3. CASE calc.waiting /\ ~(calc.said < Head(calc.out).size)
        <4>1. calc' = [calc EXCEPT !.waiting = FALSE, !.said = 0, !.out = Tail(@)]
          BY <1>6, <3>3 DEF CalcIsHeard
        <4>2. Tail(calc.out) \in Seq(Virtuals)
          BY <3>3, <1>0, CalcTypes DEF CalcT
        <4> QED
          BY <4>1, <4>2, <1>0 DEF CalcT, Calcs
      <3> QED
        BY <3>1, <3>2, <3>3
    <2> QED
      BY <1>6, <2>1, <2>2, <1>b, <1>e, DusbTurnTyped DEF CalcIsHeard
  <1>7. CASE CalcStops /\ UNCHANGED dusbVars
    <2>1. toCalc' = <<>> /\ UNCHANGED toHost => UsbWire'
      BY <1>0, EmptySeq DEF UsbWire
    <2>2. (/\ toHost # <<>> /\ toHost' = SubSeq(toHost, 1, Len(toHost) - 1)
           /\ UNCHANGED toCalc)
          => UsbWire'
      BY <1>0, FrontIs DEF UsbWire
    <2>3. UsbWire'
      BY <1>7, <2>1, <2>2 DEF CalcStops
    <2> QED
      BY <1>7, <2>3, <1>0, CalcStopsTyped, DusbCalcTyped DEF CalcStops
  <1> QED
    BY <1>1, <1>2, <1>3, <1>4, <1>5, <1>6, <1>7 DEF DusbCalc

LEMMA DusbTyped ==
  ASSUME CommonT, UsbT, DusbNext, UNCHANGED rej
  PROVE  CommonT' /\ UsbT'
  <1>1. CASE DusbBegin
    <2>1. PICK kind \in Kinds, s \in Slots \cup {Absent}, c \in Contents \cup {Absent},
               first \in {"sizeReq", "RTS", "VAR_REQ"} :
             /\ Begin(kind, s, c, first)
             /\ kind = "ready" => s = Absent /\ c = Absent /\ first = "sizeReq"
             /\ kind = "send" => s \in Slots /\ c \in Contents /\ first = "RTS"
             /\ kind = "recv" => s \in Slots /\ c = Absent /\ first = "VAR_REQ"
             /\ first # "sizeReq" => maxlen > 0
      BY <1>1 DEF DusbBegin, Kinds
    <2>2. OpT' /\ AtT' /\ BoundsT' /\ at' = first /\ UNCHANGED <<wire, calculator, faults>>
      BY <2>1, BeginT DEF CommonT, ReadySteps, SendSteps, RecvSteps
    <2>3. StoreT' /\ CalcT' /\ RejT' /\ MaxlenT'
      BY <1>1, <2>2, SameCalcT DEF CommonT, RejT, MaxlenT, DusbBegin, dusbVars
    <2>4. out = Fresh
      BY <1>1 DEF DusbBegin, Begin, UsbT, OutT, Sends
    <2>5. UsbAt' /\ UsbWire' /\ OutT' /\ InT'
      BY <1>1, <2>2, <2>4 DEF UsbT, UsbAt, UsbWire, OutT, InT, Sends, DusbBegin, dusbVars, wire
    <2>6. Sized'
      BY <1>1, <2>1, <2>2 DEF Sized, Sends, Awaits, DusbBegin, dusbVars, CommonT, MaxlenT
    <2> QED
      BY <2>2, <2>3, <2>5, <2>6 DEF CommonT, UsbT
  <1> QED
    BY <1>1, DusbHostTyped, DusbCalcStepsTyped DEF DusbNext

LEMMA NextTyped ==
  ASSUME TypeInv, [Next]_vars
  PROVE  TypeInv'
  <1>1. CASE OnDbus(DbusNext)
    <2>1. CommonT' /\ SlvT'
      BY <1>1, DbusTyped DEF OnDbus, TypeInv, dusbVars
    <2> QED
      BY <1>1, <2>1 DEF OnDbus, TypeInv, ResizedT
  <1>2. CASE OnDusb(DusbNext)
    <2>1. CommonT' /\ UsbT'
      BY <1>2, DusbTyped DEF OnDusb, TypeInv, dbusVars
    <2>2. ResizedT'
      <3>1. resized' = FALSE \/ UNCHANGED resized \/ (\E x : resized' = (resized \/ x))
        BY <1>2, Zenon DEF OnDusb, DusbNext, DusbBegin, DusbHost, DusbCalc, CalcCollects
      <3> QED
        BY <3>1 DEF TypeInv, ResizedT
    <2> QED
      BY <1>2, <2>1, <2>2 DEF OnDusb, TypeInv
  <1>3. CASE UNCHANGED vars
    <2> USE <1>3 DEF vars, linkVars, dbusVars, dusbVars, wire, calculator
    <2>1. OpT' /\ AtT' /\ StoreT' /\ CalcT' /\ BoundsT' /\ RejT' /\ MaxlenT'
      BY DEF TypeInv, CommonT, OpT, AtT, StoreT, CalcT, BoundsT, RejT, MaxlenT
    <2>2. cable' = cable /\ (cable = "SLV" => SlvT')
      BY DEF TypeInv, SlvT, SlvAt, SlvWire
    <2>3. cable = "USB" => UsbT'
      BY DEF TypeInv, UsbT, UsbAt, UsbWire, Sized, OutT, InT
    <2> QED
      BY <2>1, <2>2, <2>3 DEF TypeInv, CommonT, ResizedT
  <1> QED
    BY <1>1, <1>2, <1>3 DEF Next

\* Types, whatever the cable: what is fetched is a content, what is stored is a
\* content or nothing, and an operation is at a step of its own protocol
\* (calc_73.cc, calc_84p.cc).
THEOREM TypeCorrect == Spec => []TypeOK
  <1>1. TypeInv => TypeOK
    BY DEF TypeInv, CommonT, SlvT, SlvAt, UsbT, UsbAt, OpT, StoreT, BoundsT, RejT, MaxlenT,
           ResizedT, TypeOK
  <1>2. Spec => []TypeInv
    BY InitTyped, NextTyped, PTL DEF Spec
  <1> QED
    BY <1>1, <1>2, PTL

-----------------------------------------------------------------------------
(* An operation that began clean. One packet at most is under way that the *)
(* program or the calculator has still to answer: none while the program   *)
(* is about to send (Tokens). The raw packets add up (Fragments) as long   *)
(* as the calculator asks for no other size between two chunks (Steady).   *)

ToAnswer == {"DATA", "LAST", "SIZE_ALLOC"}
Answers == {"SIZE_REQ", "ACK"}

RawsAddUp(q) ==
    \A i \in 1..Len(q) :
        q[i].kind \in Data =>
            /\ q[i].from <= q[i].to /\ q[i].to <= q[i].v.size
            /\ q[i].kind = "LAST" => q[i].to = q[i].v.size
Later(q) == \A i \in 1..Len(q) : q[i].kind \in Data => q[i].from > 0
AsksFor(q, m) == \A i \in 1..Len(q) : q[i].kind = "SIZE_REQ" => q[i].to = m

Calm == Free(toCalc, ToAnswer) /\ Free(toHost, Answers)
OneToken ==
    /\ Single(toCalc, ToAnswer) /\ Single(toHost, Answers)
    /\ (Free(toCalc, ToAnswer) \/ Free(toHost, Answers))

Awaiting == at \in Sends /\ out.phase \in {"ack", "ackOnly"}

Tokens ==
    /\ at # "idle" /\ ~Awaiting => Calm
    /\ Awaiting => OneToken
    /\ Awaiting /\ out.phase = "ackOnly" => Free(toCalc, Data) /\ Free(toHost, {"SIZE_REQ"})

Steady ==
    Awaiting =>
        /\ ~out.final => Free(toCalc, {"LAST"})
        /\ out.full # Unknown => Later(toCalc)
        /\ out.full # Unknown /\ ~out.final => AsksFor(toHost, maxlen)

Counts ==
    at \in Sends =>
        /\ out.phase = "first" => out = Fresh
        /\ out.phase = "next" => out.full # Unknown /\ ~out.final
        /\ out.phase # "first" /\ out.full = Unknown =>
              out.sent <= Outgoing.size /\ (~out.final => out.sent > 0)
        /\ out.full # Unknown /\ ~out.final =>
              /\ out.sent > 0 /\ out.full \in Nat
              /\ out.sent + (out.full * maxlen) + out.rest = Outgoing.size

Fragments == RawsAddUp(toCalc) /\ Steady /\ Counts
FragInv == cable = "USB" /\ op.clean => Tokens /\ (~resized => Fragments)

-----------------------------------------------------------------------------
(* Queues that lose packets, or gain one that needs no answer              *)

Keeps(q, r, kinds) == (Free(q, kinds) => Free(r, kinds)) /\ (Single(q, kinds) => Single(r, kinds))
NoAnswer(q, r) ==
    /\ Keeps(q, r, Answers) /\ Keeps(q, r, {"SIZE_REQ"})
    /\ \A m : AsksFor(q, m) => AsksFor(r, m)
Fewer(q, r) ==
    /\ Keeps(q, r, ToAnswer) /\ Keeps(q, r, Data) /\ Keeps(q, r, {"LAST"})
    /\ NoAnswer(q, r)
    /\ RawsAddUp(q) => RawsAddUp(r)
    /\ Later(q) => Later(r)

LEMMA FewerTail ==
  ASSUME NEW S, NEW q \in Seq(S), q # <<>>
  PROVE  Fewer(q, Tail(q))
  <1>1. \A kinds : Keeps(q, Tail(q), kinds)
    BY QueueTail DEF Keeps
  <1>2. /\ RawsAddUp(q) => RawsAddUp(Tail(q))
        /\ Later(q) => Later(Tail(q))
        /\ \A m : AsksFor(q, m) => AsksFor(Tail(q), m)
    BY TailIs DEF RawsAddUp, Later, AsksFor
  <1> QED
    BY <1>1, <1>2 DEF Fewer, NoAnswer

LEMMA FewerFront ==
  ASSUME NEW S, NEW q \in Seq(S), q # <<>>
  PROVE  Fewer(q, SubSeq(q, 1, Len(q) - 1))
  <1> DEFINE r == SubSeq(q, 1, Len(q) - 1)
  <1>1. \A kinds : Keeps(q, r, kinds)
    BY QueueFront DEF Keeps
  <1>2. /\ Len(q) \in Nat \ {0} /\ Len(r) = Len(q) - 1
        /\ \A i \in 1..(Len(q) - 1) : r[i] = q[i]
    BY FrontIs
  <1> HIDE DEF r
  <1>3. /\ RawsAddUp(q) => RawsAddUp(r)
        /\ Later(q) => Later(r)
        /\ \A m : AsksFor(q, m) => AsksFor(r, m)
    BY <1>2 DEF RawsAddUp, Later, AsksFor
  <1>4. Fewer(q, r)
    BY <1>1, <1>3 DEF Fewer, NoAnswer
  <1> QED
    BY <1>4 DEF r

LEMMA FewerEmpty == \A q : Fewer(q, <<>>)
  BY QueueEmpty DEF Fewer, NoAnswer, Keeps, RawsAddUp, Later, AsksFor

LEMMA FewerSame == \A q : Fewer(q, q)
  BY DEF Fewer, NoAnswer, Keeps

LEMMA AppendAddsUp ==
  ASSUME NEW q \in Seq(Raws), NEW p \in Raws,
         p.kind \in Data => /\ p.from <= p.to /\ p.to <= p.v.size
                            /\ p.kind = "LAST" => p.to = p.v.size
  PROVE  /\ RawsAddUp(q) => RawsAddUp(Append(q, p))
         /\ Free(q, Data) /\ p.from > 0 => Later(Append(q, p))
  <1>1. /\ Len(q) \in Nat /\ Len(Append(q, p)) = Len(q) + 1
        /\ \A i \in 1..Len(q) : Append(q, p)[i] = q[i]
        /\ Append(q, p)[Len(q) + 1] = p
    BY AppendIs
  <1> DEFINE r == Append(q, p)
  <1> HIDE DEF r
  <1>2. \A i \in 1..Len(r) : (i \in 1..Len(q) /\ r[i] = q[i]) \/ r[i] = p
    BY <1>1 DEF r
  <1>3. RawsAddUp(q) => RawsAddUp(r)
    BY <1>2 DEF RawsAddUp
  <1>4. Free(q, Data) /\ p.from > 0 => Later(r)
    BY <1>2 DEF Later, Free
  <1> QED
    BY <1>3, <1>4 DEF r

\* Fewer to answer, and no further answer.
LEMMA TokensKept ==
  ASSUME Tokens, UNCHANGED <<at, out>>, Fewer(toCalc, toCalc'), NoAnswer(toHost, toHost')
  PROVE  Tokens'
  <1>1. Awaiting' <=> Awaiting
    BY DEF Awaiting
  <1>2. /\ Calm => Calm'
        /\ OneToken => OneToken'
        /\ Free(toCalc, Data) => Free(toCalc, Data)'
        /\ Free(toHost, {"SIZE_REQ"}) => Free(toHost, {"SIZE_REQ"})'
    BY DEF Fewer, NoAnswer, Keeps, Calm, OneToken
  <1> QED
    BY <1>1, <1>2, Zenon DEF Tokens

LEMMA SteadyKept ==
  ASSUME Steady, UNCHANGED <<at, out, maxlen>>, Fewer(toCalc, toCalc'), NoAnswer(toHost, toHost')
  PROVE  Steady'
  <1>1. Awaiting' <=> Awaiting
    BY DEF Awaiting
  <1>2. /\ Free(toCalc, {"LAST"}) => Free(toCalc, {"LAST"})'
        /\ Later(toCalc) => Later(toCalc)'
        /\ AsksFor(toHost, maxlen) => AsksFor(toHost, maxlen)'
    BY DEF Fewer, NoAnswer, Keeps
  <1> QED
    BY <1>1, <1>2, Zenon DEF Steady

\* A packet is answered: by a request for another size only if it is one with data.
LEMMA TokensAnswered ==
  ASSUME Tokens, UNCHANGED <<at, out>>, UsbWire, NEW answer \in HostRaws,
         toCalc # <<>>, toCalc' = Tail(toCalc), Head(toCalc).kind \in ToAnswer,
         toHost' = Append(toHost, answer), answer.kind \in Answers,
         answer.kind = "SIZE_REQ" => Head(toCalc).kind \in Data
  PROVE  Tokens'
  <1>0. toCalc \in Seq(Raws) /\ toHost \in Seq(HostRaws)
    BY DEF UsbWire
  <1>1. Awaiting' <=> Awaiting
    BY DEF Awaiting
  <1>2. ~Free(toCalc, ToAnswer)
    BY <1>0, QueueTail
  <1>3. CASE at = "idle"
    BY <1>3 DEF Tokens, Awaiting, Sends
  <1>4. CASE at # "idle"
    <2>1. Awaiting /\ OneToken /\ Free(toHost, Answers)
      BY <1>2, <1>4 DEF Tokens, Calm, OneToken
    <2>2. Free(toCalc', ToAnswer) /\ Single(toCalc', ToAnswer) /\ Single(toHost', Answers)
      BY <2>1, <1>0, QueueTail, QueueAppend DEF OneToken
    <2>3. Fewer(toCalc, toCalc')
      BY <1>0, FewerTail
    <2>4. out.phase = "ackOnly" => answer.kind # "SIZE_REQ"
      <3>1. Free(toCalc, Data) => Head(toCalc).kind \notin Data
        BY <1>0, QueueTail
      <3> QED
        BY <2>1, <3>1 DEF Tokens
    <2>5. Free(toHost, {"SIZE_REQ"}) /\ answer.kind # "SIZE_REQ" => Free(toHost', {"SIZE_REQ"})
      BY <1>0, QueueAppend
    <2> QED
      BY <2>1, <2>2, <2>3, <2>4, <2>5, <1>1 DEF Tokens, OneToken, Fewer, Keeps
  <1> QED
    BY <1>3, <1>4

\* And between two chunks only by a request for the size it has.
LEMMA SteadyAnswered ==
  ASSUME Steady, UNCHANGED <<at, out, maxlen>>, UsbWire, NEW answer \in HostRaws,
         toCalc # <<>>, toCalc' = Tail(toCalc), toHost' = Append(toHost, answer),
         answer.kind = "SIZE_REQ" =>
            /\ Head(toCalc).kind \in Data
            /\ Head(toCalc).kind = "DATA" /\ Head(toCalc).from > 0 => answer.to = maxlen
  PROVE  Steady'
  <1>0. toCalc \in Seq(Raws) /\ toHost \in Seq(HostRaws)
    BY DEF UsbWire
  <1>1. Awaiting' <=> Awaiting
    BY DEF Awaiting
  <1>2. Fewer(toCalc, toCalc')
    BY <1>0, FewerTail
  <1>3. /\ Free(toCalc, {"LAST"}) => Head(toCalc).kind # "LAST"
        /\ Later(toCalc) /\ Head(toCalc).kind \in Data => Head(toCalc).from > 0
    BY <1>0, TailIs, QueueTail DEF Later
  <1>4. AsksFor(toHost, maxlen) /\ (answer.kind = "SIZE_REQ" => answer.to = maxlen)
        => AsksFor(toHost', maxlen)
    BY <1>0, AppendIs DEF AsksFor
  <1>5. /\ Free(toCalc, {"LAST"}) => Free(toCalc', {"LAST"})
        /\ Later(toCalc) => Later(toCalc')
    BY <1>2 DEF Fewer, Keeps
  <1>6. ASSUME Awaiting, out.full # Unknown, ~out.final
        PROVE  AsksFor(toHost', maxlen)
    BY <1>3, <1>4, <1>6 DEF Steady, Data
  <1> QED
    BY <1>1, <1>5, <1>6 DEF Steady

-----------------------------------------------------------------------------
(* Tokens: what the program does                                           *)

LEMMA IdleOk ==
  ASSUME at' = "idle"
  PROVE  Tokens' /\ (RawsAddUp(toCalc)' => Fragments')
  BY DEF Fragments, Tokens, Steady, Counts, Awaiting, Sends

LEMMA CalmOk ==
  ASSUME out' = Fresh, Calm'
  PROVE  Tokens' /\ (RawsAddUp(toCalc)' => Fragments')
  <1>1. out'.phase = "first" /\ out'.full = Unknown
    BY DEF Fresh
  <1> QED
    BY <1>1 DEF Fragments, Tokens, Steady, Counts, Awaiting

\* A packet to the calculator that needs no answer.
LEMMA Unanswered ==
  ASSUME UsbWire, Calm, NEW p \in Raws, p.kind \notin ToAnswer, Put(p)
  PROVE  Free(toCalc, ToAnswer)' /\ (RawsAddUp(toCalc) => RawsAddUp(toCalc)')
  <1>1. toCalc \in Seq(Raws) /\ toCalc' = Append(toCalc, p) /\ p.kind \notin Data
    BY DEF UsbWire, Put, ToAnswer, Data
  <1> QED
    BY <1>1, QueueAppend, AppendAddsUp DEF Calm

\* A raw packet of a virtual one is sent.
LEMMA Transmitted ==
  ASSUME UsbWire, Tokens, at \in Sends, out.phase \in {"first", "next"},
         NEW p \in Raws, p.kind \in Data,
         Put(p), UNCHANGED <<at, toHost>>, out'.phase = "ack"
  PROVE  Tokens'
  <1>1. toCalc \in Seq(Raws) /\ toCalc' = Append(toCalc, p)
    BY DEF UsbWire, Put
  <1>2. Calm
    BY DEF Tokens, Awaiting, Sends
  <1>3. Single(toCalc', ToAnswer)
    BY <1>1, <1>2, QueueAppend DEF Calm
  <1>4. Single(toHost, Answers) /\ Free(toHost, Answers)
    BY <1>2, FreeIsSingle DEF Calm
  <1>5. Awaiting'
    BY DEF Awaiting
  <1> QED
    BY <1>3, <1>4, <1>5 DEF Tokens, OneToken

LEMMA TransmittedAddsUp ==
  ASSUME UsbWire, Tokens, RawsAddUp(toCalc), at \in Sends, out.phase \in {"first", "next"},
         NEW p \in Raws, p.kind \in Data, p.from <= p.to, p.to <= p.v.size,
         p.kind = "LAST" => p.to = p.v.size,
         p.kind = "LAST" => out'.final,
         Put(p), UNCHANGED <<at, toHost>>,
         out'.full # Unknown => p.from > 0
  PROVE  RawsAddUp(toCalc)' /\ Steady'
  <1>1. toCalc \in Seq(Raws) /\ toCalc' = Append(toCalc, p)
    BY DEF UsbWire, Put
  <1>2. Calm
    BY DEF Tokens, Awaiting, Sends
  <1>3. Free(toCalc, Data) /\ Free(toCalc, {"LAST"})
    BY <1>2 DEF Calm, Free, Data, ToAnswer
  <1>4. RawsAddUp(toCalc') /\ (out'.full # Unknown => Later(toCalc'))
    BY <1>1, <1>3, AppendAddsUp
  <1>5. p.kind # "LAST" => Free(toCalc', {"LAST"})
    BY <1>1, <1>3, QueueAppend
  <1>6. \A m : AsksFor(toHost', m)
    BY <1>2 DEF Calm, AsksFor, Free, Answers
  <1> QED
    BY <1>4, <1>5, <1>6 DEF Steady

LEMMA AcknowledgedTokens ==
  ASSUME CommonT, UsbT, Tokens, RecvAcknowledge
  PROVE  Tokens'
  <1>1. /\ toHost \in Seq(HostRaws) /\ toCalc \in Seq(Raws)
        /\ at \in Sends /\ Awaiting
        /\ toHost # <<>> /\ toHost' = Tail(toHost) /\ Heard = Head(toHost) /\ Heard \in HostRaws
    BY UsbHeardT DEF UsbT, UsbWire, RecvAcknowledge, Awaiting, Heard
  <1>2. OneToken
    BY <1>1 DEF Tokens
  <1>o. out = [phase |-> out.phase, sent |-> out.sent, full |-> out.full, rest |-> out.rest,
               final |-> out.final]
    BY DEF UsbT, OutT
  <1>3. Fail => Tokens'
    BY IdleOk DEF Fail, Finish
  <1>4. Heard.kind \in Answers =>
           Free(toCalc, ToAnswer) /\ Free(toHost', Answers)
    BY <1>1, <1>2, QueueTail DEF OneToken
  <1>5. CASE Heard.kind = "SIZE_REQ" /\ out.phase = "ack"
    <2> DEFINE p == Size("SIZE_ALLOC", Heard.to)
    <2>1. (Put(p) /\ out' = [out EXCEPT !.phase = "ackOnly"] /\ GoOn(at)) \/ Fail
      BY <1>5 DEF RecvAcknowledge, PutFails
    <2>2. p \in Raws /\ p.kind = "SIZE_ALLOC"
      BY <1>1, SizeT DEF Size, Raw, HostRaws, Raws
    <2> HIDE DEF p
    <2>3. ASSUME Put(p), out' = [out EXCEPT !.phase = "ackOnly"], GoOn(at)
          PROVE  Tokens'
      <3>1. toCalc' = Append(toCalc, p) /\ out'.phase = "ackOnly" /\ at' = at
        BY <2>3, <1>o DEF Put, GoOn
      <3>2. Free(toCalc, Data) /\ Free(toHost', {"SIZE_REQ"})
        BY <1>4, <1>5 DEF Free, Data, ToAnswer, Answers
      <3>3. Single(toCalc', ToAnswer) /\ Free(toCalc', Data)
        BY <3>1, <3>2, <2>2, <1>1, <1>4, <1>5, QueueAppend DEF Answers, Data
      <3>4. Free(toHost', Answers) /\ Single(toHost', Answers)
        BY <1>4, <1>5, FreeIsSingle DEF Answers
      <3> QED
        BY <3>1, <3>2, <3>3, <3>4, <1>1 DEF Tokens, OneToken, Awaiting, Sends
    <2> QED
      BY <2>1, <2>3, <1>3
  <1>6. CASE Heard.kind = "ACK"
    <2>1. UNCHANGED toCalc /\ Acknowledged
      BY <1>6 DEF RecvAcknowledge
    <2>2. Calm'
      BY <2>1, <1>4, <1>6 DEF Calm, Answers
    <2>3. CASE out.final
      <3>1. out' = Fresh
        BY <2>1, <2>3 DEF Acknowledged
      <3> QED
        BY <3>1, <2>2, CalmOk
    <2>4. CASE ~out.final
      <3>1. out' = [Count EXCEPT !.phase = "next"]
        BY <2>1, <2>4 DEF Acknowledged
      <3>2. out'.phase = "next"
        BY <3>1, <1>o DEF Count
      <3> QED
        BY <3>2, <2>2 DEF Tokens, Awaiting
    <2> QED
      BY <2>3, <2>4
  <1>7. CASE ~(Heard.kind = "SIZE_REQ" /\ out.phase = "ack") /\ Heard.kind # "ACK"
    BY <1>3, <1>7 DEF RecvAcknowledge
  <1> QED
    BY <1>5, <1>6, <1>7

-----------------------------------------------------------------------------
(* Fragments: what the program does                                        *)

LEMMA SendFirstAddsUp ==
  ASSUME CommonT, UsbT, Tokens, SendFirst
  PROVE  Tokens' /\ (Fragments => Fragments')
  <1> DEFINE room == maxlen - HeaderSize
  <1>1. UsbWire /\ maxlen \in Nat /\ room \in Nat /\ room > 0
    <2>1. UsbWire /\ maxlen \in Nat /\ maxlen > 6
      BY DEF UsbT, Sized, SendFirst
    <2> QED
      BY <2>1 DEF HeaderSize
  <1>2. Outgoing \in Virtuals /\ Outgoing.size \in Nat
    BY OutgoingT DEF CommonT, SendFirst, Virtuals
  <1>3. Fragments => out = Fresh
    BY DEF SendFirst, Fragments, Counts
  <1>o. out = [phase |-> out.phase, sent |-> out.sent, full |-> out.full, rest |-> out.rest,
               final |-> out.final]
    BY DEF UsbT, OutT
  <1>4. ASSUME NEW kind \in Data, NEW to \in Nat, to <= Outgoing.size,
               kind = "LAST" => to = Outgoing.size,
               kind = "DATA" => to > 0,
               Transmit(Raw(kind, Outgoing, 0, to))
        PROVE  Tokens' /\ (Fragments => Fragments')
    <2> DEFINE p == Raw(kind, Outgoing, 0, to)
    <2>1. /\ p \in Raws /\ p.kind = kind /\ p.v = Outgoing /\ p.from = 0 /\ p.to = to
      BY <1>2, <1>4, RawT DEF Raw, Data
    <2>2. /\ Put(p) /\ UNCHANGED <<op, at, toHost>>
          /\ out' = [out EXCEPT !.phase = "ack", !.sent = p.to, !.final = (p.kind = "LAST")]
      BY <1>4 DEF Transmit
    <2> HIDE DEF p
    <2>3. /\ out'.phase = "ack" /\ out'.full = out.full /\ out'.sent = to
          /\ out'.final = (kind = "LAST")
      BY <2>1, <2>2, <1>o
    <2>4. Tokens'
      BY <2>1, <2>2, <2>3, <1>1, <1>4, Transmitted DEF SendFirst
    <2>5. Outgoing' = Outgoing
      BY <2>2 DEF Outgoing
    <2>6. ASSUME Fragments PROVE Fragments'
      <3>1. out'.full = Unknown
        BY <2>3, <2>6, <1>3 DEF Fresh
      <3>2. RawsAddUp(toCalc)' /\ Steady'
        <4>1. at \in Sends /\ out.phase \in {"first", "next"} /\ RawsAddUp(toCalc)
          BY <2>6 DEF SendFirst, Fragments
        <4>2. p.from <= p.to /\ p.to <= p.v.size /\ (p.kind = "LAST" => p.to = p.v.size)
          BY <2>1, <1>4
        <4>3. p.kind = "LAST" => out'.final
          BY <2>1, <2>3
        <4> QED
          BY <4>1, <4>2, <4>3, <3>1, <2>1, <2>2, <1>1, <1>4, TransmittedAddsUp
      <3>3. Counts'
        BY <3>1, <2>3, <2>5, <1>4 DEF Counts, Data
      <3> QED
        BY <3>2, <3>3 DEF Fragments
    <2> QED
      BY <2>4, <2>6
  <1> HIDE DEF room
  <1>5. CASE Outgoing.size <= room
    <2>1. Transmit(Raw("LAST", Outgoing, 0, Outgoing.size))
      BY <1>5 DEF SendFirst, room
    <2> QED
      BY <2>1, <1>2, <1>4 DEF Data
  <1>6. CASE ~(Outgoing.size <= room)
    <2>1. Transmit(Raw("DATA", Outgoing, 0, room))
      BY <1>6 DEF SendFirst, room
    <2> QED
      BY <2>1, <1>1, <1>2, <1>4, <1>6 DEF Data
  <1> QED
    BY <1>5, <1>6

LEMMA SendNextTokens ==
  ASSUME CommonT, UsbT, Tokens, SendNext
  PROVE  Tokens'
  <1>1. /\ UsbWire /\ maxlen \in Nat /\ at \in Sends /\ out.phase = "next" /\ UNCHANGED <<at, toHost>>
        /\ out.sent \in Nat /\ out.rest \in Nat
    BY DEF UsbT, Sized, OutT, SendNext
  <1>2. Outgoing \in Virtuals
    BY <1>1, OutgoingT DEF CommonT
  <1>3. PICK kind \in Data, to \in Nat : Put(Raw(kind, Outgoing, out.sent, to))
    <2>1. "DATA" \in Data /\ "LAST" \in Data /\ out.sent + maxlen \in Nat /\ out.sent + out.rest \in Nat
      BY <1>1 DEF Data
    <2> QED
      BY <2>1, Zenon DEF SendNext
  <1>4. Raw(kind, Outgoing, out.sent, to) \in Raws /\ Raw(kind, Outgoing, out.sent, to).kind \in Data
    BY <1>1, <1>2, RawT DEF Raw, Data
  <1>5. out'.phase = "ack"
    <2>1. out = [phase |-> out.phase, sent |-> out.sent, full |-> out.full, rest |-> out.rest,
                 final |-> out.final]
      BY DEF UsbT, OutT
    <2> QED
      BY <2>1 DEF SendNext
  <1> QED
    BY <1>1, <1>3, <1>4, <1>5, Transmitted

LEMMA SendNextAddsUp ==
  ASSUME CommonT, UsbT, Tokens, Fragments, SendNext
  PROVE  Fragments'
  <1>1. /\ UsbWire /\ maxlen \in Nat /\ maxlen > 6
        /\ at \in Sends /\ out.phase = "next"
        /\ UNCHANGED <<op, at, toHost, maxlen>>
    BY DEF UsbT, Sized, SendNext
  <1>2. Outgoing \in Virtuals /\ Outgoing.size \in Nat /\ Outgoing' = Outgoing
    BY <1>1, OutgoingT DEF CommonT, Virtuals, Outgoing
  <1>3. /\ ~out.final /\ out.sent \in Nat /\ out.sent > 0 /\ out.full \in Nat /\ out.rest \in Nat
        /\ out.sent + (out.full * maxlen) + out.rest = Outgoing.size
    BY <1>1 DEF Fragments, Counts, UsbT, OutT
  <1>o. out = [phase |-> out.phase, sent |-> out.sent, full |-> out.full, rest |-> out.rest,
               final |-> out.final]
    BY DEF UsbT, OutT
  <1>4. CASE out.full > 0
    <2> DEFINE p == Raw("DATA", Outgoing, out.sent, out.sent + maxlen)
    <2>1. /\ (out.full - 1) * maxlen + maxlen = out.full * maxlen
          /\ (out.full - 1) * maxlen \in Nat /\ out.full - 1 \in Nat
          /\ out.full * maxlen \in Nat
      BY <1>1, <1>3, <1>4, OneLess
    <2>2. out.sent + maxlen <= Outgoing.size
      BY <1>1, <1>2, <1>3, <2>1
    <2>3. /\ p \in Raws /\ p.kind = "DATA" /\ p.v = Outgoing /\ p.from = out.sent
          /\ p.to = out.sent + maxlen
      BY <1>1, <1>2, <1>3, RawT DEF Raw
    <2>4. Put(p)
      BY <1>4 DEF SendNext
    <2> HIDE DEF p
    <2>5. out' = [out EXCEPT !.phase = "ack", !.sent = out.sent + maxlen, !.full = out.full - 1]
      BY <1>4 DEF SendNext
    <2>6. /\ out'.phase = "ack" /\ out'.sent = out.sent + maxlen /\ out'.full = out.full - 1
          /\ out'.rest = out.rest /\ out'.final = out.final
      BY <2>5, <1>o
    <2>7. RawsAddUp(toCalc)' /\ Steady'
      BY <2>2, <2>3, <2>4, <2>6, <1>1, <1>3, TransmittedAddsUp DEF Data, Fragments
    <2>8. out'.sent + (out'.full * maxlen) + out'.rest = Outgoing.size
      BY <2>1, <2>6, <1>1, <1>3
    <2>9. Counts'
      BY <2>1, <2>6, <2>8, <1>1, <1>2, <1>3 DEF Counts, Unknown
    <2> QED
      BY <2>7, <2>9 DEF Fragments
  <1>5. CASE ~(out.full > 0)
    <2> DEFINE p == Raw("LAST", Outgoing, out.sent, out.sent + out.rest)
    <2>1. out.full = 0 /\ out.full * maxlen = 0 /\ out.sent + out.rest = Outgoing.size
      BY <1>1, <1>2, <1>3, <1>5
    <2>2. /\ p \in Raws /\ p.kind = "LAST" /\ p.v = Outgoing /\ p.from = out.sent
          /\ p.to = Outgoing.size
      BY <2>1, <1>2, <1>3, RawT DEF Raw
    <2>3. Put(p)
      BY <1>5 DEF SendNext
    <2> HIDE DEF p
    <2>4. out' = [out EXCEPT !.phase = "ack", !.sent = out.sent + out.rest, !.final = TRUE]
      BY <1>5 DEF SendNext
    <2>5. out'.phase = "ack" /\ out'.full = 0 /\ out'.final
      BY <2>1, <2>4, <1>o
    <2>6. RawsAddUp(toCalc)' /\ Steady'
      BY <2>1, <2>2, <2>3, <2>5, <1>1, <1>2, <1>3, TransmittedAddsUp DEF Data, Fragments
    <2>7. Counts'
      BY <2>5 DEF Counts, Unknown
    <2> QED
      BY <2>6, <2>7 DEF Fragments
  <1> QED
    BY <1>4, <1>5

LEMMA AcknowledgedAddsUp ==
  ASSUME CommonT, UsbT, Tokens, Fragments, RecvAcknowledge
  PROVE  Fragments'
  <1>1. /\ UsbWire /\ maxlen \in Nat /\ maxlen > 0
        /\ toHost \in Seq(HostRaws) /\ toCalc \in Seq(Raws)
        /\ at \in Sends /\ Awaiting
        /\ toHost # <<>> /\ toHost' = Tail(toHost) /\ Heard = Head(toHost) /\ Heard \in HostRaws
    BY UsbHeardT DEF UsbT, UsbWire, Sized, RecvAcknowledge, Awaiting, Heard
  <1>2. OneToken /\ RawsAddUp(toCalc) /\ Steady /\ Counts
    BY <1>1 DEF Fragments, Tokens
  <1>3. Outgoing \in Virtuals /\ Outgoing.size \in Nat
    BY <1>1, OutgoingT DEF CommonT, Virtuals
  <1>o. /\ out = [phase |-> out.phase, sent |-> out.sent, full |-> out.full, rest |-> out.rest,
                  final |-> out.final]
        /\ out.sent \in Nat
    BY DEF UsbT, OutT
  <1>4. Heard.kind \in Answers =>
           Free(toCalc, ToAnswer) /\ Free(toHost', Answers)
    BY <1>1, <1>2, QueueTail DEF OneToken
  <1>f. Fail /\ UNCHANGED toCalc => Fragments'
    BY <1>2, IdleOk DEF Fail, Finish
  <1>5. CASE Heard.kind = "SIZE_REQ" /\ out.phase = "ack"
    <2> DEFINE p == Size("SIZE_ALLOC", Heard.to)
    <2>1. /\ maxlen' = Heard.to
          /\ \/ Put(p) /\ out' = [out EXCEPT !.phase = "ackOnly"] /\ GoOn(at)
             \/ Fail /\ UNCHANGED toCalc
      BY <1>5 DEF RecvAcknowledge, PutFails
    <2>2. p \in Raws /\ p.kind = "SIZE_ALLOC"
      BY <1>1, SizeT DEF Size, Raw, HostRaws, Raws
    <2> HIDE DEF p
    <2>3. ASSUME Put(p), out' = [out EXCEPT !.phase = "ackOnly"], GoOn(at)
          PROVE  Fragments'
      <3>1. toCalc' = Append(toCalc, p) /\ p.kind \notin Data
        BY <2>2, <2>3 DEF Put, Data
      <3>2. /\ out'.phase = "ackOnly" /\ out'.sent = out.sent /\ out'.full = out.full
            /\ out'.rest = out.rest /\ out'.final = out.final
        BY <2>3, <1>o
      <3>3. at' = at /\ op' = op /\ Outgoing' = Outgoing
        BY <2>3 DEF GoOn, Outgoing
      <3>4. Free(toCalc, Data) /\ \A m : AsksFor(toHost', m)
        BY <1>4, <1>5 DEF Free, AsksFor, Data, ToAnswer, Answers
      <3>5. RawsAddUp(toCalc') /\ Free(toCalc', Data)
        BY <3>1, <3>4, <2>2, <1>1, <1>2, QueueAppend, AppendAddsUp
      <3>6. Later(toCalc') /\ Free(toCalc', {"LAST"})
        BY <3>5 DEF Later, Free, Data
      <3>7. Steady'
        BY <3>4, <3>6 DEF Steady
      <3>8. out.full # Unknown /\ ~out.final => maxlen' = maxlen
        <4>1. AsksFor(toHost, maxlen) => Heard.to = maxlen
          BY <1>1, <1>5, TailIs DEF AsksFor
        <4> QED
          BY <4>1, <2>1, <1>1, <1>2 DEF Steady
      <3>9. Counts'
        BY <3>2, <3>3, <3>8, <1>1, <1>2, <1>5 DEF Counts
      <3> QED
        BY <3>5, <3>7, <3>9 DEF Fragments
    <2> QED
      BY <2>1, <2>3, <1>f
  <1>6. CASE Heard.kind = "ACK"
    <2>1. UNCHANGED <<toCalc, maxlen>> /\ Acknowledged
      BY <1>6, Zenon DEF RecvAcknowledge
    <2>2. Calm' /\ RawsAddUp(toCalc)'
      BY <2>1, <1>2, <1>4, <1>6 DEF Calm, Answers
    <2>3. CASE out.final
      <3>1. out' = Fresh
        BY <2>1, <2>3 DEF Acknowledged
      <3> QED
        BY <3>1, <2>2, CalmOk
    <2>4. CASE ~out.final
      <3>1. out' = [Count EXCEPT !.phase = "next"] /\ GoOn(at)
        BY <2>1, <2>4 DEF Acknowledged
      <3>2. at' = at /\ op' = op /\ Outgoing' = Outgoing /\ maxlen' = maxlen
        BY <2>1, <3>1 DEF GoOn, Outgoing
      <3>3. out'.phase = "next" /\ out'.sent = out.sent /\ out'.final = out.final
        BY <3>1, <1>o DEF Count
      <3>4. /\ out.sent > 0 /\ out'.full \in Nat
            /\ out.sent + (out'.full * maxlen) + out'.rest = Outgoing.size
        <4>1. CASE out.full # Unknown
          <5>1. out'.full = out.full /\ out'.rest = out.rest
            BY <3>1, <4>1, <1>o DEF Count
          <5> QED
            BY <5>1, <4>1, <2>4, <1>1, <1>2 DEF Counts
        <4>2. CASE out.full = Unknown
          <5> DEFINE left == Outgoing.size - out.sent
          <5>1. out.sent <= Outgoing.size /\ out.sent > 0
            BY <4>2, <2>4, <1>1, <1>2 DEF Counts, Awaiting
          <5>2. left \in Nat /\ out.sent + left = Outgoing.size
            BY <5>1, <1>3, <1>o
          <5>3. out'.full = left \div maxlen /\ out'.rest = left % maxlen
            BY <3>1, <4>2, <1>o DEF Count
          <5> HIDE DEF left
          <5>4. /\ left \div maxlen \in Nat /\ left % maxlen \in Nat
                /\ ((left \div maxlen) * maxlen) + (left % maxlen) = left
            BY <5>2, <1>1, Division
          <5>5. ASSUME NEW q \in Nat, NEW r \in Nat, q + r = left
                PROVE  out.sent + q + r = Outgoing.size
            BY <5>2, <5>5, <1>3, <1>o
          <5>6. (left \div maxlen) * maxlen \in Nat
            <6>1. \A a, b \in Nat : a * b \in Nat
              OBVIOUS
            <6> QED
              BY <5>4, <6>1, <1>1
          <5>7. out.sent + ((left \div maxlen) * maxlen) + (left % maxlen) = Outgoing.size
            BY <5>4, <5>5, <5>6
          <5> QED
            BY <5>1, <5>3, <5>4, <5>7
        <4> QED
          BY <4>1, <4>2
      <3>5. Steady'
        BY <3>3 DEF Steady, Awaiting
      <3>6. Counts'
        BY <3>2, <3>3, <3>4, <2>4 DEF Counts, Unknown
      <3> QED
        BY <3>5, <3>6, <2>2 DEF Fragments
    <2> QED
      BY <2>3, <2>4
  <1>7. CASE ~(Heard.kind = "SIZE_REQ" /\ out.phase = "ack") /\ Heard.kind # "ACK"
    <2>1. Fail /\ UNCHANGED toCalc
      BY <1>7 DEF RecvAcknowledge
    <2> QED
      BY <2>1, <1>f
  <1> QED
    BY <1>5, <1>6, <1>7

LEMMA HostAddsUp ==
  ASSUME CommonT, UsbT, Tokens, DusbHost
  PROVE  Tokens' /\ (Fragments => Fragments')
  <1>0. /\ UsbWire /\ toHost \in Seq(HostRaws) /\ toCalc \in Seq(Raws)
        /\ at \notin Sends => out = Fresh
        /\ Fragments => RawsAddUp(toCalc)
    BY DEF UsbT, UsbWire, OutT, Fragments
  <1>a. at \notin Sends \cup {"idle"} => Calm
    BY DEF Tokens, Awaiting
  <1>b. ASSUME toHost # <<>>, toHost' = Tail(toHost), Calm
        PROVE  Free(toHost, Answers)'
    BY <1>0, <1>b, QueueTail DEF Calm
  <1>1. CASE BufSizeRequest
    <2> DEFINE p == Size("SIZE_REQ", 1024)
    <2>1. p \in Raws /\ p.kind \notin ToAnswer
      BY SizeT DEF Size, Raw, ToAnswer
    <2>2. Put(p) /\ UNCHANGED toHost /\ out' = out /\ at \notin Sends \cup {"idle"}
      BY <1>1 DEF BufSizeRequest, dusbVars, Sends
    <2> HIDE DEF p
    <2>3. Free(toCalc, ToAnswer)' /\ (RawsAddUp(toCalc) => RawsAddUp(toCalc)') /\ Free(toHost, Answers)
      BY <2>1, <2>2, <1>0, <1>a, Unanswered DEF Calm
    <2> QED
      BY <2>2, <2>3, <1>0, CalmOk DEF Calm
  <1>2. CASE BufSizeAlloc
    <2>1. /\ at \notin Sends \cup {"idle"} /\ toHost # <<>> /\ toHost' = Tail(toHost)
          /\ UNCHANGED <<toCalc, out>>
      BY <1>2 DEF BufSizeAlloc, Sends
    <2> QED
      BY <2>1, <1>0, <1>a, <1>b, CalmOk DEF Calm
  <1>3. CASE RecvData
    <2>1. /\ at \notin Sends \cup {"idle"} /\ toHost # <<>> /\ toHost' = Tail(toHost)
          /\ UNCHANGED out
          /\ UNCHANGED toCalc \/ Put(Acknowledge)
      <3>1. at \in Awaits => at \notin Sends \cup {"idle"}
        BY DEF Sends, Awaits
      <3> QED
        BY <1>3, <3>1, Zenon DEF RecvData, PutFails
    <2>2. Acknowledge \in Raws /\ Acknowledge.kind \notin ToAnswer
      BY AckT DEF Acknowledge, Raw, ToAnswer
    <2>3. Free(toCalc, ToAnswer)' /\ (RawsAddUp(toCalc) => RawsAddUp(toCalc)')
      <3>1. CASE UNCHANGED toCalc
        BY <2>1, <3>1, <1>0, <1>a DEF Calm
      <3>2. CASE Put(Acknowledge)
        BY <2>1, <2>2, <3>2, <1>0, <1>a, Unanswered
      <3> QED
        BY <2>1, <3>1, <3>2
    <2> QED
      BY <2>1, <2>3, <1>0, <1>a, <1>b, CalmOk DEF Calm
  <1>4. CASE DusbGivesUp
    <2>1. Fail /\ UNCHANGED toCalc
      BY <1>4 DEF DusbGivesUp, WriteFails, PutFails, ReadTimesOut, wire
    <2> QED
      BY <2>1, <1>0, IdleOk DEF Fail, Finish
  <1> QED
    BY <1>1, <1>2, <1>3, <1>4, SendFirstAddsUp, SendNextTokens, SendNextAddsUp, AcknowledgedTokens,
       AcknowledgedAddsUp DEF DusbHost

-----------------------------------------------------------------------------
(* Fragments: what the calculator does                                     *)

LEMMA SameCounts ==
  ASSUME Counts, UNCHANGED <<op, at, out, maxlen>>
  PROVE  Counts'
  <1>1. Outgoing' = Outgoing
    BY DEF Outgoing
  <1> QED
    BY <1>1 DEF Counts

LEMMA KeptOk ==
  ASSUME Tokens, UNCHANGED <<op, at, out, maxlen>>, Fewer(toCalc, toCalc'),
         NoAnswer(toHost, toHost')
  PROVE  Tokens' /\ (Fragments => Fragments')
  BY TokensKept, SteadyKept, SameCounts DEF Fragments, Fewer

LEMMA AnsweredOk ==
  ASSUME Tokens, HostUnchanged, UsbWire, NEW answer \in HostRaws,
         toCalc # <<>>, toCalc' = Tail(toCalc), Head(toCalc).kind \in ToAnswer,
         CalcSays(<<answer>>), answer.kind \in Answers,
         answer.kind = "SIZE_REQ" => Head(toCalc).kind \in Data
  PROVE  /\ Tokens'
         /\ Fragments /\ (/\ answer.kind = "SIZE_REQ"
                          /\ Head(toCalc).kind = "DATA" /\ Head(toCalc).from > 0
                          => answer.to = maxlen)
            => Fragments'
  <1>0. toCalc \in Seq(Raws) /\ toHost \in Seq(HostRaws)
    BY DEF UsbWire
  <1>1. toHost' = Append(toHost, answer)
    BY <1>0, AppendIs DEF CalcSays
  <1>2. Tokens' /\ UNCHANGED <<op, at, out, maxlen>>
    BY <1>1, TokensAnswered DEF HostUnchanged, dusbVars
  <1>3. ASSUME Fragments,
               /\ answer.kind = "SIZE_REQ" /\ Head(toCalc).kind = "DATA" /\ Head(toCalc).from > 0
               => answer.to = maxlen
        PROVE  Fragments'
    <2>1. Steady'
      BY <1>1, <1>2, <1>3, SteadyAnswered DEF Fragments
    <2>2. RawsAddUp(toCalc)'
      BY <1>0, <1>3, FewerTail DEF Fewer, Fragments
    <2> QED
      BY <2>1, <2>2, <1>2, <1>3, SameCounts DEF Fragments
  <1> QED
    BY <1>2, <1>3

\* What is said and answers nothing.
LEMMA SaidKept ==
  ASSUME UsbWire, NEW p \in HostRaws, CalcSays(<<p>>), p.kind \notin Answers
  PROVE  NoAnswer(toHost, toHost')
  <1>1. toHost \in Seq(HostRaws) /\ toHost' = Append(toHost, p) /\ p.kind \notin {"SIZE_REQ"}
    BY AppendIs DEF UsbWire, CalcSays, Answers
  <1>2. \A m : AsksFor(toHost, m) => AsksFor(toHost', m)
    BY <1>1, AppendIs DEF AsksFor
  <1> QED
    BY <1>1, <1>2, QueueAppend DEF NoAnswer, Keeps

LEMMA CalcAddsUp ==
  ASSUME CommonT, UsbT, Tokens, ~resized => Fragments, DusbCalc
  PROVE  Tokens' /\ (~resized' => Fragments')
  <1>0. UsbWire /\ toHost \in Seq(HostRaws) /\ toCalc \in Seq(Raws) /\ CalcT
    BY DEF CommonT, UsbT, UsbWire
  <1>a. \A m \in Grants : m \in Nat
    OBVIOUS
  <1>b. CalcHears => Fewer(toCalc, toCalc')
    BY <1>0, FewerTail DEF CalcHears
  <1>c. UNCHANGED toHost => NoAnswer(toHost, toHost')
    BY DEF NoAnswer, Keeps
  <1>d. Acknowledge \in HostRaws /\ Acknowledge.kind = "ACK"
    BY AckT DEF Acknowledge, Raw
  <1>e. HostUnchanged => UNCHANGED <<op, at, out, maxlen>>
    BY DEF HostUnchanged, dusbVars
  <1>1. CASE CalcAllocates /\ UNCHANGED resized
    <2>1. PICK m \in Grants : CalcSays(<<Size("SIZE_ALLOC", m)>>)
      BY <1>1 DEF CalcAllocates
    <2>2. Size("SIZE_ALLOC", m) \in HostRaws /\ Size("SIZE_ALLOC", m).kind \notin Answers
      BY <1>a, SizeT DEF Size, Raw, Answers
    <2>3. NoAnswer(toHost, toHost')
      BY <2>1, <2>2, <1>0, SaidKept
    <2> QED
      BY <1>1, <2>3, <1>b, <1>e, KeptOk DEF CalcAllocates
  <1>2. CASE CalcCollects
    <2> DEFINE raw == Head(toCalc)
    <2>1. /\ CalcHears /\ HostUnchanged /\ raw.kind \in Data
          /\ \/ UNCHANGED <<toHost, resized>>
             \/ CalcSays(<<Acknowledge>>) /\ UNCHANGED resized
             \/ \E m \in Grants :
                   /\ CalcSays(<<Size("SIZE_REQ", m)>>)
                   /\ resized' = (resized \/ (raw.kind = "DATA" /\ raw.from > 0 /\ m # maxlen))
      BY <1>2, Zenon DEF CalcCollects
    <2> HIDE DEF raw
    <2>2. /\ Head(toCalc).kind \in ToAnswer /\ Head(toCalc).kind \in Data /\ raw = Head(toCalc)
          /\ toCalc # <<>> /\ toCalc' = Tail(toCalc)
      BY <2>1 DEF Data, ToAnswer, CalcHears, raw
    <2>3. CASE UNCHANGED <<toHost, resized>>
      BY <2>1, <2>3, <1>b, <1>c, <1>e, KeptOk
    <2>4. CASE CalcSays(<<Acknowledge>>) /\ UNCHANGED resized
      BY <2>1, <2>2, <2>4, <1>0, <1>d, AnsweredOk DEF Answers
    <2>5. ASSUME NEW m \in Grants, CalcSays(<<Size("SIZE_REQ", m)>>),
                 resized' = (resized \/ (raw.kind = "DATA" /\ raw.from > 0 /\ m # maxlen))
          PROVE  Tokens' /\ (~resized' => Fragments')
      <3>1. /\ Size("SIZE_REQ", m) \in HostRaws /\ Size("SIZE_REQ", m).kind \in Answers
            /\ Size("SIZE_REQ", m).to = m
        BY <1>a, SizeT DEF Size, Raw, Answers
      <3> QED
        BY <2>1, <2>2, <2>5, <3>1, <1>0, AnsweredOk
    <2> QED
      BY <2>1, <2>3, <2>4, <2>5
  <1>3. CASE CalcAccepts /\ UNCHANGED resized
    <2>1. /\ CalcHears /\ HostUnchanged /\ Head(toCalc).kind \in ToAnswer
          /\ toCalc # <<>> /\ toCalc' = Tail(toCalc)
          /\ UNCHANGED toHost \/ CalcSays(<<Acknowledge>>)
      BY <1>3 DEF CalcAccepts, CalcHears, ToAnswer
    <2>2. CASE UNCHANGED toHost
      BY <1>3, <2>1, <2>2, <1>b, <1>c, <1>e, KeptOk
    <2>3. CASE CalcSays(<<Acknowledge>>)
      BY <1>3, <2>1, <2>3, <1>0, <1>d, AnsweredOk DEF Answers
    <2> QED
      BY <2>1, <2>2, <2>3
  <1>4. CASE CalcObeys /\ UNCHANGED resized
    <2>1. UNCHANGED wire /\ HostUnchanged
      BY <1>4 DEF CalcObeys
    <2> QED
      BY <1>4, <2>1, <1>c, <1>e, FewerSame, KeptOk DEF wire
  <1>5. CASE CalcSpeaks /\ UNCHANGED resized
    <2> DEFINE v == Head(calc.out)
    <2>1. /\ calc.out # <<>> /\ UNCHANGED toCalc /\ HostUnchanged
          /\ v \in Virtuals /\ v.size \in Nat /\ calc.said \in Nat
      BY <1>5, <1>0, CalcTypes DEF CalcSpeaks
    <2>2. v.size \div 2 \in Nat
      BY <2>1, Division
    <2> HIDE DEF v
    <2>3. \E kind \in {"LAST", "DATA"}, from \in Nat, to \in Nat :
             CalcSays(<<Raw(kind, v, from, to)>>)
      BY <1>5, <2>1, <2>2 DEF CalcSpeaks, v
    <2>4. PICK kind \in {"LAST", "DATA"}, from \in Nat, to \in Nat :
             CalcSays(<<Raw(kind, v, from, to)>>)
      BY <2>3
    <2>5. Raw(kind, v, from, to) \in HostRaws /\ Raw(kind, v, from, to).kind \notin Answers
      BY <2>1, RawT DEF HostRaws, Raw, Answers
    <2> QED
      BY <1>5, <2>1, <2>4, <2>5, <1>0, <1>e, SaidKept, FewerSame, KeptOk
  <1>6. CASE CalcIsHeard /\ UNCHANGED resized
    BY <1>6, <1>b, <1>c, <1>e, KeptOk DEF CalcIsHeard
  <1>7. CASE CalcStops /\ UNCHANGED dusbVars /\ UNCHANGED resized
    <2>1. UNCHANGED <<op, at, out, maxlen>>
      BY <1>7 DEF CalcStops, dusbVars
    <2>2. CASE toCalc' = <<>> /\ UNCHANGED toHost
      BY <1>7, <2>1, <2>2, <1>c, FewerEmpty, KeptOk
    <2>3. CASE /\ toHost # <<>> /\ toHost' = SubSeq(toHost, 1, Len(toHost) - 1)
               /\ UNCHANGED toCalc
      BY <1>7, <2>1, <2>3, <1>0, FewerFront, FewerSame, KeptOk DEF Fewer
    <2> QED
      BY <1>7, <2>2, <2>3 DEF CalcStops
  <1> QED
    BY <1>1, <1>2, <1>3, <1>4, <1>5, <1>6, <1>7 DEF DusbCalc

LEMMA BeginAddsUp ==
  ASSUME UsbT, DusbBegin, op'.clean
  PROVE  Tokens' /\ Fragments'
  <1>0. PICK kind, s, c, first : Begin(kind, s, c, first)
    BY DEF DusbBegin
  <1>1. /\ at = "idle" /\ UNCHANGED <<toCalc, toHost, out>>
        /\ op' = [kind |-> kind, slot |-> s, content |-> c, clean |-> Quiet]
    BY <1>0 DEF DusbBegin, Begin, wire, dusbVars
  <1>2. toCalc' = <<>> /\ toHost' = <<>>
    BY <1>1 DEF Quiet
  <1>3. out' = Fresh
    BY <1>1 DEF UsbT, OutT, Sends
  <1>4. RawsAddUp(<<>>) /\ Free(<<>>, ToAnswer) /\ Free(<<>>, Answers)
    BY DEF RawsAddUp, Free
  <1> QED
    BY <1>2, <1>3, <1>4, CalmOk DEF Calm

LEMMA NextAddsUp ==
  ASSUME TypeInv, FragInv, [Next]_vars
  PROVE  FragInv'
  <1> SUFFICES ASSUME cable' = "USB", op'.clean
               PROVE  Tokens' /\ (~resized' => Fragments')
    BY DEF FragInv
  <1>1. CASE OnDusb(DusbBegin)
    BY <1>1, BeginAddsUp DEF OnDusb, TypeInv
  <1>2. CASE OnDusb(DusbHost)
    <2>1. CommonT /\ UsbT /\ DusbHost /\ cable = "USB" /\ UNCHANGED resized
      BY <1>2 DEF OnDusb, TypeInv, DusbHost
    <2>2. op' = op
      BY <2>1 DEF DusbHost, BufSizeRequest, BufSizeAlloc, SendFirst, Transmit, RecvAcknowledge,
                  Acknowledged, SendNext, RecvData, Delivered, DusbGivesUp, WriteFails, PutFails,
                  ReadTimesOut, GoOn, Fail, Finish
    <2> QED
      BY <2>1, <2>2, HostAddsUp DEF FragInv
  <1>3. CASE OnDusb(DusbCalc)
    <2>1. CommonT /\ UsbT /\ DusbCalc /\ cable = "USB"
      BY <1>3 DEF OnDusb, TypeInv
    <2>2. op' = op
      BY <2>1, Zenon DEF DusbCalc, CalcAllocates, CalcCollects, CalcAccepts, CalcObeys, CalcSpeaks,
                  CalcIsHeard, CalcStops, HostUnchanged
    <2> QED
      BY <2>1, <2>2, CalcAddsUp DEF FragInv
  <1>4. CASE OnDbus(DbusNext)
    BY <1>4 DEF OnDbus
  <1>5. CASE UNCHANGED vars
    <2>1. UNCHANGED <<cable, op, at, out, maxlen, toCalc, toHost, resized>>
      BY <1>5 DEF vars, linkVars, dusbVars, wire
    <2>2. Fewer(toCalc, toCalc') /\ NoAnswer(toHost, toHost')
      BY <2>1, FewerSame DEF Fewer
    <2> QED
      BY <2>1, <2>2, KeptOk DEF FragInv
  <1> QED
    BY <1>1, <1>2, <1>3, <1>4, <1>5 DEF Next, OnDusb, DusbNext

\* The raw packets of a virtual one add up to it, for every length and every size of
\* buffer, in an operation that began with nothing under way, unless the calculator
\* asks for another size after a chunk between the first and the last: of what was
\* counted before (dusb_vpkt.cc:612) nothing is claimed then.
THEOREM PacketsAddUp == Spec => []FragmentsAddUp
  <1>1. Init => FragInv
    <2>1. Init => out = Fresh /\ toCalc = <<>> /\ toHost = <<>> /\ at = "idle"
      BY DEF Init, LinkInit, DusbInit
    <2>2. RawsAddUp(<<>>)
      BY DEF RawsAddUp
    <2> QED
      BY <2>1, <2>2 DEF FragInv, Fragments, Tokens, Steady, Counts, Awaiting, Sends
  <1>2. TypeInv /\ FragInv => FragmentsAddUp
    <2>1. TypeInv /\ cable = "USB" => DOMAIN toCalc = 1..Len(toCalc)
      BY LenProperties DEF TypeInv, UsbT, UsbWire
    <2> QED
      BY <2>1 DEF FragInv, Fragments, RawsAddUp, FragmentsAddUp
  <1>3. Spec => [](TypeInv /\ FragInv)
    BY <1>1, InitTyped, NextTyped, NextAddsUp, PTL DEF Spec
  <1> QED
    BY <1>2, <1>3, PTL
=============================================================================
