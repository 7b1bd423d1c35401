------------------------------- MODULE DusbLink -------------------------------
(***************************************************************************)
(* The direct USB protocol (DUSB) of calc_84p.cc: is_ready, send_var and   *)
(* recv_var over virtual packets (dusb_cmd.cc), which dusb_vpkt.cc cuts    *)
(* into raw packets no larger than the calculator's buffer and             *)
(* acknowledges one by one.                                                *)
(*                                                                         *)
(* A virtual packet is a type, a variable or content, and a size; a raw    *)
(* one is the bytes from..to of its virtual packet. What the first one     *)
(* declares in its header is the virtual packet.                           *)
(***************************************************************************)
EXTENDS Link, Integers

CONSTANTS
    Grants,       \* buffer sizes the calculator asks for or allocates
    Length,       \* the length of each content
    CommandSize   \* and of any other virtual packet

ASSUME GrantsAssumption == Grants \subseteq Nat /\ \A m \in Grants : m > 6
ASSUME LengthAssumption == Length \in [Contents -> Nat] /\ CommandSize \in Nat
\* A packet without a content is some thirty bytes at most and a buffer 250 or more
\* (dusb_rpkt.cc:154,159): it is never cut.
ASSUME CommandAssumption == \A m \in Grants : CommandSize + 6 <= m

VARIABLES
    maxlen,  \* dusb_rpkt_maxlen
    out,     \* the virtual packet being sent: bytes sent, full chunks left, the rest
    in,      \* the one being received
    resized  \* a history: the calculator asked for another size between two chunks

dusbVars == <<maxlen, out, in>>

HeaderSize == 6
Unknown == -1    \* q and r are computed after the first acknowledgement; a garbled size

Virtual(type, arg) ==
    [type |-> type, arg |-> arg, size |-> CASE type = "VAR_CNTS" -> Length[arg]
                                            [] type = "EOT" -> 0
                                            [] OTHER -> CommandSize]
Raw(kind, v, from, to) == [kind |-> kind, v |-> v, from |-> from, to |-> to]
NoData == Virtual("EOT", Absent)
Headerless == [NoData EXCEPT !.size = Unknown]
Size(kind, n) == Raw(kind, NoData, 0, n)
Acknowledge == Raw("ACK", NoData, 0, 0)
Data == {"DATA", "LAST"}

Fresh == [phase |-> "first", sent |-> 0, full |-> Unknown, rest |-> 0, final |-> FALSE]
Nothing == [begun |-> FALSE, v |-> NoData, size |-> 0, delayed |-> FALSE]

DusbInit == maxlen = 0 /\ out = Fresh /\ in = Nothing /\ resized = FALSE

\* The virtual packets a program sends and awaits, and what follows each.
Sends == {"PING", "RTS", "VAR_CNTS", "EOT", "VAR_REQ"}
Awaits == {"MODE_SET", "RTS_ACK", "CNTS_ACK", "VAR_HDR", "CONTENT"}
Expected == [MODE_SET |-> "MODE_SET", RTS_ACK |-> "DATA_ACK", CNTS_ACK |-> "DATA_ACK",
             VAR_HDR |-> "VAR_HDR", CONTENT |-> "VAR_CNTS"]
After == [PING |-> "MODE_SET", RTS |-> "RTS_ACK", RTS_ACK |-> "VAR_CNTS",
          VAR_CNTS |-> "CNTS_ACK", CNTS_ACK |-> "EOT", VAR_REQ |-> "VAR_HDR", VAR_HDR |-> "CONTENT"]

Outgoing == Virtual(at, IF at = "VAR_CNTS" THEN op.content ELSE op.slot)

-----------------------------------------------------------------------------
(* dusb_cmd_s_mode_set: the buffer's size, then the ping *)

BufSizeRequest ==
    /\ at = "sizeReq"
    /\ Put(Size("SIZE_REQ", 1024))
    /\ GoOn("sizeAlloc")
    /\ UNCHANGED <<toHost, calculator, faults, dusbVars>>

BufSizeAlloc ==
    /\ at = "sizeAlloc"
    /\ toHost # <<>> /\ toHost' = Tail(toHost)
    /\ IF Heard.kind = "SIZE_ALLOC"
       THEN maxlen' = Heard.to /\ GoOn("PING")
       ELSE Fail /\ UNCHANGED maxlen
    /\ UNCHANGED <<toCalc, calculator, faults, out, in>>

-----------------------------------------------------------------------------
(* dusb_send_data *)

\* A fault: the chunks that remain are counted when the first packet is sent.
TransmitCounted(raw) ==
    /\ Put(raw)
    /\ out' = [out EXCEPT !.phase = "ack", !.sent = raw.to, !.final = (raw.kind = "LAST"),
                          !.full = (Outgoing.size - raw.to) \div maxlen,
                          !.rest = (Outgoing.size - raw.to) % maxlen]
    /\ UNCHANGED <<op, at, told, got, offered, ops, toHost, calculator, faults, maxlen, in>>

Transmit(raw) ==
    /\ Put(raw)
    /\ out' = [out EXCEPT !.phase = "ack", !.sent = raw.to, !.final = (raw.kind = "LAST")]
    /\ UNCHANGED <<op, at, told, got, offered, ops, toHost, calculator, faults, maxlen, in>>

SendFirst ==
    /\ at \in Sends
    /\ out.phase = "first"
    /\ LET room == maxlen - HeaderSize IN
       IF Outgoing.size <= room
       THEN Transmit(Raw("LAST", Outgoing, 0, Outgoing.size))
       ELSE Transmit(Raw("DATA", Outgoing, 0, room))

\* The chunks that remain are counted with the buffer's size as it is once the
\* first packet is acknowledged.
Count ==
    IF out.full # Unknown THEN out
    ELSE [out EXCEPT !.full = (Outgoing.size - out.sent) \div maxlen,
                     !.rest = (Outgoing.size - out.sent) % maxlen]

Acknowledged ==
    IF ~out.final THEN out' = [Count EXCEPT !.phase = "next"] /\ GoOn(at)
    ELSE /\ out' = Fresh
         /\ IF at = "EOT" THEN Finish("stored", Absent) ELSE GoOn(After[at])

\* dusb_recv_acknowledge: in place of an acknowledgement, of whichever raw packet,
\* the calculator may ask for another buffer size, and then has to acknowledge. The
\* size is taken over also when the answer cannot be sent (dusb_send_buf_size_alloc).
RecvAcknowledge ==
    /\ at \in Sends
    /\ out.phase \in {"ack", "ackOnly"}
    /\ toHost # <<>> /\ toHost' = Tail(toHost)
    /\ CASE Heard.kind = "SIZE_REQ" /\ out.phase = "ack" ->
              /\ maxlen' = Heard.to
              /\ \/ /\ Put(Size("SIZE_ALLOC", Heard.to))
                    /\ out' = [out EXCEPT !.phase = "ackOnly"]
                    /\ GoOn(at) /\ UNCHANGED faults
                 \/ PutFails /\ out' = Fresh
         [] Heard.kind = "ACK" -> UNCHANGED <<toCalc, maxlen, faults>> /\ Acknowledged
         [] OTHER -> Fail /\ out' = Fresh /\ UNCHANGED <<toCalc, maxlen, faults>>
    /\ UNCHANGED <<calculator, in>>

\* Full chunks, then the last one, which may be empty.
SendNext ==
    /\ at \in Sends
    /\ out.phase = "next"
    /\ IF out.full > 0
       THEN /\ Put(Raw("DATA", Outgoing, out.sent, out.sent + maxlen))
            /\ out' = [out EXCEPT !.phase = "ack", !.sent = @ + maxlen, !.full = @ - 1]
       ELSE /\ Put(Raw("LAST", Outgoing, out.sent, out.sent + out.rest))
            /\ out' = [out EXCEPT !.phase = "ack", !.sent = @ + out.rest, !.final = TRUE]
    /\ UNCHANGED <<op, at, told, got, offered, ops, toHost, calculator, faults, maxlen, in>>

-----------------------------------------------------------------------------
(* dusb_recv_data, and what the callers in dusb_cmd.cc make of the packet *)

\* One delay is waited for; every other unexpected packet is an error.
Delivered(v) ==
    CASE v.type = "DELAY" /\ ~in.delayed ->
           in' = [Nothing EXCEPT !.delayed = TRUE] /\ GoOn(at)
      [] v.type = Expected[at] ->
           /\ in' = Nothing
           /\ CASE at = "MODE_SET" -> Finish("ready", Absent)
                [] at = "CONTENT" -> Finish("fetched", v.arg)
                [] OTHER -> GoOn(After[at])
      [] OTHER -> Fail /\ in' = Nothing

\* What a first packet without a header declares is not the size of anything.
\* Every raw packet is acknowledged before the next, the last one included, but a
\* first one too short for a header.
RecvData ==
    /\ at \in Awaits
    /\ toHost # <<>> /\ toHost' = Tail(toHost)
    /\ LET bytes == Heard.to - Heard.from
           size == IF in.begun THEN in.size + bytes
                   ELSE IF Heard.from = 0 THEN bytes ELSE bytes - HeaderSize
           v == IF in.begun THEN in.v ELSE IF Heard.from = 0 THEN Heard.v ELSE Headerless
       IN \/ /\ Heard.kind \notin Data \/ (~in.begun /\ size < 0)
             /\ Fail /\ in' = Nothing /\ UNCHANGED <<toCalc, faults>>
          \/ /\ Heard.kind \in Data /\ (in.begun \/ size >= 0)
             /\ \/ PutFails /\ in' = Nothing
                \/ /\ Put(Acknowledge) /\ UNCHANGED faults
                   /\ CASE Heard.kind = "DATA" ->
                             in' = [in EXCEPT !.begun = TRUE, !.v = v, !.size = size] /\ GoOn(at)
                        [] Heard.kind = "LAST" /\ size = v.size -> Delivered(v)
                        [] OTHER -> Fail /\ in' = Nothing
    /\ UNCHANGED <<calculator, maxlen, out>>

DusbGivesUp ==
    /\ \/ WriteFails({"sizeReq"} \cup Sends)
       \/ out.phase # "first" /\ out.phase # "next" /\ ReadTimesOut(Sends)
       \/ ReadTimesOut({"sizeAlloc"} \cup Awaits)
    /\ out' = Fresh /\ in' = Nothing
    /\ UNCHANGED maxlen

-----------------------------------------------------------------------------
(* The calculator's end *)

HostUnchanged == UNCHANGED <<op, at, told, got, offered, ops, faults, dusbVars>>
Answer(vs) == calc' = [CalcIdle EXCEPT !.out = vs]

CalcAllocates ==
    /\ CalcHears /\ Head(toCalc).kind = "SIZE_REQ"
    /\ \E m \in Grants : CalcSays(<<Size("SIZE_ALLOC", m)>>)
    /\ calc' = CalcIdle
    /\ UNCHANGED store /\ HostUnchanged

Complete == calc.in # <<>> /\ calc.in[1].whole /\ ~calc.in[1].asking

\* It carries out a packet before it takes the next, and ignores bytes that continue
\* nothing. A header in place of what it waits for ends the exchange it was in. It
\* may ask for another size before it acknowledges a packet, whichever it is: the
\* library lets it (dusb_recv_acknowledge).
CalcCollects ==
    /\ CalcHears
    /\ ~Complete
    /\ LET raw == Head(toCalc)
           part == [v |-> raw.v, size |-> raw.to, whole |-> raw.kind = "LAST", asking |-> FALSE]
           end == IF raw.from = 0 /\ calc.in # <<>> THEN CalcIdle ELSE calc
       IN
       /\ raw.kind \in Data
       /\ IF raw.from > 0 /\ (calc.in = <<>> \/ calc.in[1].v # raw.v \/ calc.in[1].size # raw.from)
          THEN UNCHANGED <<toHost, calc, resized>>
          ELSE \/ /\ CalcSays(<<Acknowledge>>)
                  /\ calc' = [end EXCEPT !.in = <<part>>, !.out = <<>>, !.waiting = FALSE]
                  /\ UNCHANGED resized
               \/ /\ \E m \in Grants :
                        /\ CalcSays(<<Size("SIZE_REQ", m)>>)
                        /\ resized' = (resized \/ (raw.kind = "DATA" /\ raw.from > 0 /\ m # maxlen))
                  /\ calc' = [end EXCEPT !.in = <<[part EXCEPT !.asking = TRUE]>>,
                                         !.out = <<>>, !.waiting = FALSE]
    /\ UNCHANGED store /\ HostUnchanged

CalcAccepts ==
    /\ CalcHears /\ Head(toCalc).kind = "SIZE_ALLOC"
    /\ IF calc.in # <<>> /\ calc.in[1].asking
       THEN CalcSays(<<Acknowledge>>) /\ calc' = [calc EXCEPT !.in[1].asking = FALSE]
       ELSE UNCHANGED <<toHost, calc>>
    /\ UNCHANGED store /\ HostUnchanged

\* A virtual packet that is complete is carried out: at once, after a delay it
\* announces, or not at all.
Refuse == Answer(<<Virtual("ERROR", Absent)>>) /\ UNCHANGED store

CalcObeys ==
    /\ Complete
    /\ \/ Refuse
       \/ LET v == calc.in[1].v IN
          /\ calc.in[1].size = v.size
          /\ \E delay \in {<<>>, <<Virtual("DELAY", Absent)>>} :
             CASE v.type = "PING" ->
                    Answer(delay \o <<Virtual("MODE_SET", Absent)>>) /\ UNCHANGED store
               [] v.type = "RTS" ->
                    /\ calc' = [CalcIdle EXCEPT !.doing = "taking", !.slot = v.arg,
                                                !.out = delay \o <<Virtual("DATA_ACK", Absent)>>]
                    /\ \E keep \in BOOLEAN :
                         store' = IF keep THEN store ELSE [store EXCEPT ![v.arg] = Absent]
               [] v.type = "VAR_CNTS" /\ calc.doing = "taking" ->
                    /\ calc' = [CalcIdle EXCEPT !.out = delay \o <<Virtual("DATA_ACK", Absent)>>]
                    /\ store' = [store EXCEPT ![calc.slot] = v.arg]
               [] v.type = "VAR_REQ" /\ store[v.arg] # Absent ->
                    /\ Answer(delay \o <<Virtual("VAR_HDR", v.arg), Virtual("VAR_CNTS", store[v.arg])>>)
                    /\ UNCHANGED store
               [] v.type = "EOT" -> calc' = CalcIdle /\ UNCHANGED store
               [] OTHER -> Refuse
    /\ UNCHANGED wire /\ HostUnchanged

\* It cuts its own packets in one or in two.
CalcSpeaks ==
    /\ calc.out # <<>> /\ ~calc.waiting
    /\ LET v == Head(calc.out) IN
       \/ /\ CalcSays(<<Raw("LAST", v, calc.said, v.size)>>)
          /\ calc' = [calc EXCEPT !.said = v.size, !.waiting = TRUE]
       \/ /\ calc.said = 0 /\ v.size > CommandSize
          /\ CalcSays(<<Raw("DATA", v, 0, v.size \div 2)>>)
          /\ calc' = [calc EXCEPT !.said = v.size \div 2, !.waiting = TRUE]
    /\ UNCHANGED <<toCalc, store>> /\ HostUnchanged

CalcIsHeard ==
    /\ CalcHears /\ Head(toCalc).kind = "ACK"
    /\ IF ~calc.waiting THEN UNCHANGED calc
       ELSE IF calc.said < Head(calc.out).size THEN calc' = [calc EXCEPT !.waiting = FALSE]
       ELSE calc' = [calc EXCEPT !.waiting = FALSE, !.said = 0, !.out = Tail(@)]
    /\ UNCHANGED <<toHost, store>> /\ HostUnchanged

-----------------------------------------------------------------------------
DusbBegin ==
    /\ \/ Begin("ready", Absent, Absent, "sizeReq")
       \/ \E s \in Slots :
            /\ maxlen > 0
            /\ \/ \E c \in Contents : Begin("send", s, c, "RTS")
               \/ Begin("recv", s, Absent, "VAR_REQ")
    /\ resized' = FALSE
    /\ UNCHANGED dusbVars

DusbHost ==
    /\ \/ BufSizeRequest \/ BufSizeAlloc
       \/ SendFirst \/ RecvAcknowledge \/ SendNext \/ RecvData
       \/ DusbGivesUp
    /\ UNCHANGED resized

DusbCalc ==
    \/ CalcCollects
    \/ /\ \/ CalcAllocates \/ CalcAccepts \/ CalcObeys \/ CalcSpeaks \/ CalcIsHeard
          \/ CalcStops /\ UNCHANGED dusbVars
       /\ UNCHANGED resized

DusbNext == DusbBegin \/ DusbHost \/ DusbCalc

=============================================================================
