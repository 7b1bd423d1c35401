------------------------------- MODULE CalcLink -------------------------------
(***************************************************************************)
(* A calculator behind either cable, and the operations a wallet asks of   *)
(* it: calc_session_open chooses the SilverLink and the D-BUS protocol for *)
(* the family DBUS, the direct cable for the others; from then on every    *)
(* operation goes through the function table of the model.                 *)
(***************************************************************************)
EXTENDS DbusLink, DusbLink

VARIABLE cable   \* CABLE_SLV or CABLE_USB

vars == <<linkVars, dbusVars, dusbVars, resized, cable>>

Init ==
    /\ cable \in {"SLV", "USB"}
    /\ LinkInit /\ DbusInit /\ DusbInit

OnDbus(A) == cable = "SLV" /\ A /\ UNCHANGED <<dusbVars, resized, cable>>
OnDusb(A) == cable = "USB" /\ A /\ UNCHANGED <<dbusVars, cable>>

Next == OnDbus(DbusNext) \/ OnDusb(DusbNext)

Spec == Init /\ [][Next]_vars

\* The program goes on, and its reads end. A calculator that never moves again is
\* one that has stopped (CalcStops).
FairSpec ==
    /\ Spec
    /\ WF_vars(OnDbus(DbusHost)) /\ WF_vars(OnDbus(DbusCalc))
    /\ WF_vars(OnDusb(DusbHost)) /\ WF_vars(OnDusb(DusbCalc))

-----------------------------------------------------------------------------
TypeOK ==
    /\ cable \in {"SLV", "USB"}
    /\ op \in Ops \cup {NoOp}
    /\ at \in {"idle"} \cup (IF cable = "SLV" THEN DbusPuts \cup DbusGets
                             ELSE {"sizeReq", "sizeAlloc"} \cup Sends \cup Awaits)
    /\ told \in News
    /\ got \in Contents \cup {Absent}
    /\ store \in [Slots -> Contents \cup {Absent}]
    /\ ops \in 0..MaxOps /\ faults \in 0..MaxFaults
    /\ rej \in Refusals \cup {None, "exit"}
    /\ maxlen \in Grants \cup {0} /\ resized \in BOOLEAN

\* The promise of VarStore, whichever cable: a variable holds the old content,
\* the new or nothing, whatever is lost on the way; a success is reported only of
\* what the calculator holds, a refusal with REJ_SKIP excepted; what is fetched is
\* what the variable asked for holds.
Var == INSTANCE VarStore WITH
    asked <- IF at = "idle" THEN NoOp ELSE op,
    got <- IF at = "idle" THEN got ELSE Absent
KeepsVariables == Var!Spec

\* The raw packets of a virtual packet are its bytes, no more and no fewer: none
\* reaches past the end, and the last one ends it (dusb_send_data). So it is also
\* when the calculator asks for another buffer size after the first raw packet, or
\* the last; so it is not when it asks for one after a chunk between them, which
\* dusb_recv_acknowledge takes too (dusb_vpkt.cc:631): q and r were counted with the
\* old size (dusb_vpkt.cc:612), each chunk that follows has the new one. Only of an
\* operation that began clean: a late acknowledgement of an earlier one has q and r
\* counted before the change.
FragmentsAddUp ==
    cable = "USB" /\ op.clean /\ ~resized =>
        \A i \in DOMAIN toCalc :
            LET raw == toCalc[i] IN
            raw.kind \in Data =>
                /\ raw.from <= raw.to /\ raw.to <= raw.v.size
                /\ raw.kind = "LAST" => raw.to = raw.v.size

\* An operation ends: every wait has a time-out, and no loop goes on for ever.
OperationEnds == at # "idle" ~> at = "idle"

\* What the wallet prints after a transfer, "Encrypted keypair stored in Str<n>.":
\* send_var returned 0, so the variable holds the content.
ReturnsZero == at # "idle" /\ at' = "idle" /\ told' \in {"stored", "declined"}
StoredMeansHeld == [][ReturnsZero /\ op.clean => store'[op.slot] = op.content]_vars
=============================================================================
