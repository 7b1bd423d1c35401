-------------------------- MODULE WalletData_proofs --------------------------
(***************************************************************************)
(* For any keys, passwords, orders and blockhashes, any number of wallets  *)
(* and any damage:                                                         *)
(*   - a key that comes out of the encryption is the one that went in      *)
(*     under that password, and only a desktop build that fails leaves it  *)
(*     in memory;                                                          *)
(*   - an operation is refused, and a transfer fails, only for a reason    *)
(*     that the user gave or that lies in the variable's contents;         *)
(*   - both programs build the same text for the same transfer;            *)
(*   - what the node takes out of that text is what the user asked for,    *)
(*     the amount to within what rounding it in doubles loses.             *)
(*                                                                         *)
(* The last three rest on what the encodings do with data of any length:   *)
(* the parts of the message are read where they were put, base64 gives     *)
(* back the octets, and base58 the name.  Induction over data is by the    *)
(* least counterexample, a least element of a set of natural numbers.      *)
(***************************************************************************)
EXTENDS WalletData, SequenceTheorems, FiniteSetTheorems, WellFoundedInduction, TLAPS

-----------------------------------------------------------------------------
(* Blobs, entries, and the wallets that were made. *)

IsBlob(b) ==
    b = [version |-> b.version, salt |-> b.salt, nonce |-> b.nonce,
         ciphertext |-> b.ciphertext, mac |-> b.mac]

IsEntry(e) ==
    e = [size |-> e.size, prefix |-> e.prefix, public_key |-> e.public_key, blob |-> e.blob]

(* Any field may be anything, but a MAC is noise or the MAC of some wallet. *)
Traceable(b) ==
    /\ IsBlob(b)
    /\ b.mac = Noise \/ \E i \in 1..Len(made) : b.mac = made[i].entry.blob.mac

MadeByEncryption ==
    /\ Len(made) \in Nat
    /\ \A i \in 1..Len(made) :
          made[i].entry.blob = Blob(made[i].password, made[i].key, i, i)

StoredTraceable ==
    /\ slot # NoEntry => IsEntry(slot) /\ Traceable(slot.blob)
    /\ at \in {"fetched", "ordered"} => Traceable(loaded.blob)

KeyInPlace ==
    held # NoKey => at = "opened" \/ (at = "failed" /\ program = "desktop")

(* made is a sequence. *)
SomeSeq(s) == s \in Seq({s[i] : i \in DOMAIN s})

(* What was opened is one wallet, whole, under its own password. *)
KeyIsMade ==
    held # NoKey =>
        \E i \in 1..Len(made) :
            /\ made[i].key = held
            /\ made[i].password = Heard(program, order.password)
            /\ made[i].entry.blob = loaded.blob

Sound == /\ SomeSeq(made)
         /\ MadeByEncryption /\ StoredTraceable /\ KeyInPlace /\ KeyIsMade

-----------------------------------------------------------------------------
(* The encryption. A blob whose MAC is right under a password is, field by     *)
(* field, the blob the MAC was made with, and gives the key that was in it.    *)
LEMMA MacNamesAll ==
    ASSUME NEW p, NEW q, NEW key, NEW s, NEW n, NEW b, IsBlob(b),
           Blob(q, key, s, n).mac
               = Mac(StreamKey(MasterKey(p, b.salt), b.nonce, "MAC"), b.nonce, b.ciphertext)
    PROVE  p = q /\ b.salt = s /\ b.nonce = n
           /\ b.ciphertext = Cipher(StreamKey(MasterKey(q, s), n, "ENC"), key)
  BY DEF Blob, Mac, StreamKey, MasterKey, Cipher

LEMMA OpensOneWallet ==
    ASSUME NEW p, NEW q, NEW key, NEW s, NEW n, NEW b, IsBlob(b),
           b.mac = Blob(q, key, s, n).mac,
           wallet_decrypt_private_key(p, b) # NoKey
    PROVE  p = q /\ b = Blob(q, key, s, n) /\ wallet_decrypt_private_key(p, b) = key
  <1> DEFINE master == MasterKey(p, b.salt)
             mac == Mac(StreamKey(master, b.nonce, "MAC"), b.nonce, b.ciphertext)
             plain == Deciphered(StreamKey(master, b.nonce, "ENC"), b.ciphertext)
  <1>1. b.version = Version /\ b.mac = mac /\ wallet_decrypt_private_key(p, b) = plain
    BY DEF wallet_decrypt_private_key
  <1>2. /\ p = q /\ b.salt = s /\ b.nonce = n
        /\ b.ciphertext = Cipher(StreamKey(MasterKey(q, s), n, "ENC"), key)
    <2>1. Blob(q, key, s, n).mac = mac BY <1>1
    <2> HIDE DEF plain
    <2> QED BY <2>1, MacNamesAll
  <1>3. plain = key BY <1>2 DEF Deciphered, Cipher
  <1>4. b = Blob(q, key, s, n) BY <1>1, <1>2 DEF IsBlob, Blob
  <1> QED BY <1>1, <1>2, <1>3, <1>4

LEMMA NoiseOpensNothing ==
    ASSUME NEW p, NEW b, b.mac = Noise PROVE wallet_decrypt_private_key(p, b) = NoKey
  BY DEF wallet_decrypt_private_key

(* Damage leaves entries entries, and MACs traceable. *)
LEMMA OverwrittenTraceable ==
    ASSUME NEW e, IsEntry(e), Traceable(e.blob), NEW f \in BlobFields, NEW v,
           f = "mac" => v = Noise \/ \E i \in 1..Len(made) : v = made[i].entry.blob.mac
    PROVE  IsEntry(Overwritten(e, f, v)) /\ Traceable(Overwritten(e, f, v).blob)
  <1> DEFINE b == [e.blob EXCEPT ![f] = v]
  <1>1. IsEntry(Overwritten(e, f, v)) /\ Overwritten(e, f, v).blob = b
    BY DEF IsEntry, Overwritten
  <1>2. IsBlob(b) /\ (f = "mac" => b.mac = v) /\ (f # "mac" => b.mac = e.blob.mac)
    <2>1. IsBlob(e.blob) BY DEF Traceable
    <2>2. CASE f = "version" BY <2>1, <2>2 DEF IsBlob
    <2>3. CASE f = "salt" BY <2>1, <2>3 DEF IsBlob
    <2>4. CASE f = "nonce" BY <2>1, <2>4 DEF IsBlob
    <2>5. CASE f = "ciphertext" BY <2>1, <2>5 DEF IsBlob
    <2>6. CASE f = "mac" BY <2>1, <2>6 DEF IsBlob
    <2> QED BY <2>2, <2>3, <2>4, <2>5, <2>6 DEF BlobFields
  <1>3. Traceable(b) BY <1>2 DEF Traceable
  <1> QED BY <1>1, <1>3

LEMMA DamagedTraceable ==
    ASSUME NEW e, IsEntry(e), Traceable(e.blob), Len(made) \in Nat, DOMAIN made = 1..Len(made),
           NEW d \in Damaged(e), d # NoEntry
    PROVE  IsEntry(d) /\ Traceable(d.blob)
  <1>1. CASE d \in {Shortened(e), Lengthened(e)}
    BY <1>1 DEF IsEntry, Shortened, Lengthened
  <1>2. ASSUME NEW n, d = Prefixed(e, n) PROVE IsEntry(d) /\ Traceable(d.blob)
    BY <1>2 DEF IsEntry, Prefixed
  <1>3. ASSUME NEW key, d = Renamed(e, key) PROVE IsEntry(d) /\ Traceable(d.blob)
    BY <1>3 DEF IsEntry, Renamed
  <1>4. ASSUME NEW f \in BlobFields, d = Overwritten(e, f, Noise)
        PROVE  IsEntry(d) /\ Traceable(d.blob)
    BY <1>4, OverwrittenTraceable
  <1>5. CASE d = Overwritten(e, "ciphertext", Garbled)
    BY <1>5, OverwrittenTraceable DEF BlobFields
  <1>6. ASSUME NEW f \in BlobFields, NEW i \in DOMAIN made,
               d = Overwritten(e, f, made[i].entry.blob[f])
        PROVE  IsEntry(d) /\ Traceable(d.blob)
    <2>1. f = "mac" => made[i].entry.blob[f] = made[i].entry.blob.mac OBVIOUS
    <2> QED BY <1>6, <2>1, OverwrittenTraceable
  <1> QED BY <1>1, <1>2, <1>3, <1>4, <1>5, <1>6 DEF Damaged

LEMMA ASequence ==
    ASSUME NEW S, NEW s \in Seq(S)
    PROVE  SomeSeq(s) /\ Len(s) \in Nat /\ DOMAIN s = 1..Len(s)
  <1>1. Len(s) \in Nat /\ DOMAIN s = 1..Len(s) OBVIOUS
  <1>2. \A i \in 1..Len(s) : s[i] \in {s[j] : j \in DOMAIN s} BY <1>1
  <1>3. s = [i \in 1..Len(s) |-> s[i]] OBVIOUS
  <1> QED BY <1>1, <1>2, <1>3 DEF SomeSeq

LEMMA AppendKeeps ==
    ASSUME SomeSeq(made), NEW w, made' = Append(made, w)
    PROVE  /\ SomeSeq(made') /\ Len(made') = Len(made) + 1 /\ Len(made) \in Nat
           /\ \A i \in 1..Len(made) : made'[i] = made[i]
           /\ made'[Len(made) + 1] = w
  <1> DEFINE S == {made[i] : i \in DOMAIN made} \union {w}
  <1>1. made \in Seq(S) BY DEF SomeSeq
  <1> HIDE DEF S
  <1>2. w \in S /\ made \in Seq(S) BY <1>1 DEF S
  <1>3. /\ Append(made, w) \in Seq(S) /\ Len(Append(made, w)) = Len(made) + 1
        /\ \A i \in 1..Len(made) : Append(made, w)[i] = made[i]
        /\ Append(made, w)[Len(made) + 1] = w
    BY <1>2, AppendProperties
  <1>4. SomeSeq(Append(made, w)) /\ Len(made) \in Nat BY <1>2, <1>3, ASequence
  <1> QED BY <1>3, <1>4

-----------------------------------------------------------------------------
(* The invariant, action by action. *)
LEMMA SoundInit == Init => Sound
  BY DEF Init, Sound, SomeSeq, MadeByEncryption, StoredTraceable, KeyInPlace, KeyIsMade

LEMMA CreateSound ==
    ASSUME Sound, NEW p, NEW typed, Create(p, typed) PROVE Sound'
  <1> DEFINE draw == Len(made) + 1
             blob == Blob(Heard(p, typed), draw, draw, draw)
             entry == Entry(PublicOf[draw], blob)
             w == [program |-> p, typed |-> typed, password |-> Heard(p, typed),
                   key |-> draw, entry |-> entry]
  <1>1. made' = Append(made, w) /\ slot' = entry /\ at = "idle"
        /\ UNCHANGED <<at, program, loaded, order, held>>
    BY DEF Create
  <1>2. /\ SomeSeq(made') /\ Len(made') = Len(made) + 1 /\ Len(made) \in Nat
        /\ \A i \in 1..Len(made) : made'[i] = made[i]
        /\ made'[Len(made) + 1] = w
    BY <1>1, AppendKeeps DEF Sound
  <1>3. w.entry.blob = Blob(w.password, w.key, draw, draw) /\ w.entry = entry /\ entry.blob = blob
    BY DEF Entry
  <1> HIDE DEF w, entry, blob
  <1>4. MadeByEncryption' BY <1>2, <1>3 DEF Sound, MadeByEncryption
  <1>5. StoredTraceable'
    <2>1. IsEntry(entry) BY DEF IsEntry, entry, Entry
    <2>2. IsBlob(blob) BY DEF IsBlob, blob, Blob
    <2>3. IsBlob(slot'.blob) /\ slot'.blob.mac = made'[Len(made')].entry.blob.mac
          /\ Len(made') \in 1..Len(made')
      BY <1>1, <1>2, <1>3, <2>2
    <2>4. Traceable(slot.blob)' BY <2>3 DEF Traceable
    <2> QED BY <1>1, <2>1, <2>4 DEF StoredTraceable
  <1>6. held = NoKey BY <1>1 DEF Sound, KeyInPlace
  <1> QED BY <1>1, <1>2, <1>4, <1>5, <1>6 DEF Sound, KeyInPlace, KeyIsMade

LEMMA DamageSound == ASSUME Sound, Damage PROVE Sound'
  <1>1. Len(made) \in Nat /\ DOMAIN made = 1..Len(made) /\ SomeSeq(made')
    BY ASequence DEF Sound, SomeSeq, Damage
  <1>2. slot' # NoEntry => IsEntry(slot') /\ Traceable(slot'.blob)
    BY <1>1, DamagedTraceable DEF Damage, Sound, StoredTraceable
  <1>3. StoredTraceable' BY <1>2 DEF Damage, Sound, StoredTraceable, Traceable
  <1> QED BY <1>1, <1>3 DEF Damage, Sound, MadeByEncryption, KeyInPlace, KeyIsMade

LEMMA FetchSound == ASSUME Sound, NEW p \in Programs, Fetch(p) PROVE Sound'
  <1>1. UNCHANGED <<made, slot, order, held>> /\ held = NoKey
    BY DEF Fetch, Sound, KeyInPlace
  <1>2. Fetches(p, slot) => slot # NoEntry BY DEF Fetches, CliFetches, DesktopFetches, Programs
  <1>3. at' = "fetched" => Traceable(loaded'.blob)
    BY <1>2 DEF Fetch, Sound, StoredTraceable
  <1>4. StoredTraceable' BY <1>1, <1>3 DEF Fetch, Sound, StoredTraceable, Traceable
  <1> QED BY <1>1, <1>4 DEF Sound, SomeSeq, MadeByEncryption, KeyInPlace, KeyIsMade

LEMMA OrderSound == ASSUME Sound, NEW text, NEW amount, NEW typed, Order(text, amount, typed)
                    PROVE Sound'
  <1>1. UNCHANGED <<made, slot, loaded, program, held>> /\ held = NoKey /\ at = "fetched"
    BY DEF Order, Sound, KeyInPlace
  <1> QED BY <1>1 DEF Sound, SomeSeq, MadeByEncryption, StoredTraceable, Traceable, KeyInPlace, KeyIsMade

LEMMA BuildSound == ASSUME Sound, NEW hash, Build(hash) PROVE Sound'
  <1>1. UNCHANGED <<made, slot, loaded, program>> /\ held' \in {held, NoKey}
        /\ at' \in {"failed", "sent"}
        /\ order'.password = order.password
    BY DEF Build
  <1>2. KeyInPlace' BY <1>1 DEF Build, KeyInPlace
  <1> QED BY <1>1, <1>2 DEF Sound, SomeSeq, MadeByEncryption, StoredTraceable, Traceable, KeyIsMade

LEMMA OpenSound == ASSUME Sound, NEW typed, Open(typed) PROVE Sound'
  <1> DEFINE p == Heard(program, typed)
  <1>1. UNCHANGED <<made, slot, loaded, program>> /\ at = "ordered" /\ at' \in {"refused", "opened"}
    BY DEF Open
  <1>2. held' = wallet_decrypt_private_key(p, loaded.blob) BY DEF Open
  <1>3. held' # NoKey => at' = "opened" BY DEF Open
  <1>4. order'.password = typed BY DEF Open
  <1>5. ASSUME held' # NoKey
        PROVE  \E i \in 1..Len(made) : /\ made[i].key = held' /\ made[i].password = p
                                      /\ made[i].entry.blob = loaded.blob
    <2>1. Traceable(loaded.blob) /\ loaded.blob.mac # Noise
      BY <1>1, <1>2, <1>5, NoiseOpensNothing DEF Sound, StoredTraceable
    <2>2. PICK i \in 1..Len(made) : loaded.blob.mac = made[i].entry.blob.mac
      BY <2>1 DEF Traceable
    <2>3. made[i].entry.blob = Blob(made[i].password, made[i].key, i, i)
      BY DEF Sound, MadeByEncryption
    <2>4. p = made[i].password /\ loaded.blob = made[i].entry.blob /\ held' = made[i].key
      BY <1>2, <1>5, <2>1, <2>2, <2>3, OpensOneWallet DEF Traceable
    <2> QED BY <2>4
  <1>6. KeyIsMade' BY <1>1, <1>4, <1>5 DEF KeyIsMade
  <1> QED BY <1>1, <1>3, <1>6 DEF Sound, SomeSeq, MadeByEncryption, StoredTraceable, Traceable, KeyInPlace

LEMMA SoundNext == Sound /\ [Next]_vars => Sound'
  <1> SUFFICES ASSUME Sound, [Next]_vars PROVE Sound' OBVIOUS
  <1>1. ASSUME NEW p \in Programs, NEW typed \in Passwords, Create(p, typed) PROVE Sound'
    BY <1>1, CreateSound
  <1>2. CASE Damage BY <1>2, DamageSound
  <1>3. ASSUME NEW p \in Programs, Fetch(p) PROVE Sound' BY <1>3, FetchSound
  <1>4. ASSUME NEW o \in Orders, Order(o.text, o.amount, o.typed) PROVE Sound'
    BY <1>4, OrderSound
  <1>5. ASSUME NEW typed \in Passwords, Open(typed) PROVE Sound' BY <1>5, OpenSound
  <1>6. ASSUME NEW hash \in Blockhashes, Build(hash) PROVE Sound' BY <1>6, BuildSound
  <1>7. CASE NodeReads
    <2>1. UNCHANGED <<made, slot, loaded, program, order, held>> /\ at = "sent" /\ at' = "answered"
      BY <1>7 DEF NodeReads
    <2> QED BY <2>1 DEF Sound, SomeSeq, MadeByEncryption, StoredTraceable, Traceable,
                        KeyInPlace, KeyIsMade
  <1>8. CASE Leave
    <2>1. UNCHANGED <<made, slot>> /\ held' = NoKey /\ at' = "idle" BY <1>8 DEF Leave
    <2> QED BY <2>1 DEF Sound, SomeSeq, MadeByEncryption, StoredTraceable, Traceable,
                        KeyInPlace, KeyIsMade
  <1>9. CASE UNCHANGED vars
    BY <1>9 DEF vars, Sound, SomeSeq, MadeByEncryption, StoredTraceable, Traceable,
                KeyInPlace, KeyIsMade
  <1> QED BY <1>1, <1>2, <1>3, <1>4, <1>5, <1>6, <1>7, <1>8, <1>9 DEF Next

LEMMA SoundAlways == Spec => []Sound
  BY SoundInit, SoundNext, PTL DEF Spec

-----------------------------------------------------------------------------
(* Whatever becomes of the variable on the calculator, a key that             *)
(* wallet_decrypt_private_key() hands out is the one that was encrypted under  *)
(* the password that was typed, from a blob of which nothing was changed.      *)
THEOREM DecryptedIsMade == Spec => []NoWrongKey
  <1>1. Sound => NoWrongKey
    <2>1. Sound => DOMAIN made = 1..Len(made) BY ASequence DEF Sound, SomeSeq
    <2> QED BY <2>1 DEF Sound, KeyIsMade, NoWrongKey
  <1> QED BY <1>1, SoundAlways, PTL

(* The private key is zeroed whatever way an operation takes, but for the ?    *)
(* of the desktop's build (send_sol.rs:83).                                    *)
THEOREM KeyIsZeroed == Spec => []KeyOutlivesOnlyErrors
  <1>1. Sound => KeyOutlivesOnlyErrors BY DEF Sound, KeyInPlace, KeyOutlivesOnlyErrors
  <1> QED BY <1>1, SoundAlways, PTL

-----------------------------------------------------------------------------
(* The wallets and the variable, and what was fetched of it. *)
Drawn ==
    /\ Len(made) \in 0..MaxWallets
    /\ \A i \in 1..Len(made) :
          /\ made[i].typed \in Passwords /\ made[i].program \in Programs
          /\ made[i].password = Heard(made[i].program, made[i].typed)
          /\ made[i].password # EmptyPassword
          /\ made[i].key = i
          /\ made[i].entry = Entry(PublicOf[i], Blob(made[i].password, i, i, i))

(* Who may own a stored key. *)
Publics == {PublicOf[k] : k \in PrivateKeys}

Kept ==
    /\ damages \in 0..MaxDamage
    /\ damages = 0 => slot = IF Len(made) = 0 THEN NoEntry ELSE made[Len(made)].entry
    /\ slot # NoEntry => IsEntry(slot) /\ slot.public_key \in Publics

InUse == {"fetched", "ordered", "opened", "sent", "failed", "answered"}

Loaded ==
    /\ at \in Places /\ program \in Programs
    /\ at = "idle" => loaded = NothingLoaded
    /\ at # "idle" /\ loaded = NothingLoaded => Len(made) = 0 \/ damages > 0
    /\ at \in InUse => loaded.public_key \in Publics

(* What was ordered is what one of the orders says. *)
OrderedAs(o) ==
    /\ order.text = o.text /\ order.to = RecipientOf(program, o.text) /\ order.to # Refused
    /\ order.amount = o.amount /\ order.typed = o.typed
    /\ order.lamports \in Lamports(program, o.amount)
    /\ order.memo \in MemoOf(program, o.typed)

OrderMade ==
    /\ order = [text |-> order.text, to |-> order.to, amount |-> order.amount,
                lamports |-> order.lamports, typed |-> order.typed, memo |-> order.memo,
                password |-> order.password, blockhash |-> order.blockhash]
    /\ at \in {"idle", "fetched"} => order = NoOrder
    /\ order = NoOrder \/ \E o \in Orders : OrderedAs(o)
    /\ at \in {"ordered", "opened", "sent", "failed", "answered"} => order.to # Refused

(* The wallet that was opened. *)
Opens(i) == /\ made[i].entry.blob = loaded.blob
            /\ made[i].password = Heard(program, order.password)

(* What is built of the order with the wallet's key. *)
BuiltWith(i) ==
    IF order.blockhash = Refused THEN Refused
    ELSE Transaction(program, Transfer(order.blockhash), made[i].key)

Sent ==
    /\ at = "opened" => held # NoKey
    /\ at \in {"sent", "failed", "answered"} =>
          \E i \in 1..Len(made) :
              /\ Opens(i)
              /\ \E hash \in Blockhashes : order.blockhash = RecipientOf(program, hash)
              /\ IF at = "failed" THEN BuiltWith(i) = Refused
                 ELSE wire = BuiltWith(i) /\ wire # Refused
    /\ IF at = "answered" THEN taken = NodeTakes(wire, Owner) ELSE taken = NotTaken

Whole == Drawn /\ Kept /\ Loaded /\ OrderMade /\ Sent /\ RefusedForAReason

LEMMA WholeInit == Init => Whole
  <1> SUFFICES ASSUME Init PROVE Whole OBVIOUS
  <1>1. Drawn BY LimitsAssumption DEF Init, Drawn
  <1>2. Kept BY LimitsAssumption DEF Init, Kept
  <1>3. Loaded BY DEF Init, Loaded, InUse, Places, Programs
  <1>4. OrderMade BY DEF Init, OrderMade, NoOrder
  <1>5. Sent BY DEF Init, Sent
  <1>6. RefusedForAReason BY DEF Init, RefusedForAReason
  <1> QED BY <1>1, <1>2, <1>3, <1>4, <1>5, <1>6 DEF Whole

(* A blob names the salt that it was made with. *)
LEMMA BlobSalt == ASSUME NEW p, NEW k, NEW s, NEW n PROVE Blob(p, k, s, n).salt = s
  BY DEF Blob

LEMMA CreateWhole ==
    ASSUME Sound, Whole, NEW p \in Programs, NEW typed \in Passwords, Create(p, typed)
    PROVE  Whole'
  <1> DEFINE draw == Len(made) + 1
             blob == Blob(Heard(p, typed), draw, draw, draw)
             entry == Entry(PublicOf[draw], blob)
             w == [program |-> p, typed |-> typed, password |-> Heard(p, typed),
                   key |-> draw, entry |-> entry]
  <1>1. made' = Append(made, w) /\ slot' = entry /\ at = "idle" /\ damages' = 0
        /\ UNCHANGED <<at, program, loaded, order, held, wire, taken>>
        /\ Heard(p, typed) # EmptyPassword /\ Len(made) < MaxWallets
    BY DEF Create
  <1>2. /\ SomeSeq(made') /\ Len(made') = Len(made) + 1 /\ Len(made) \in Nat
        /\ \A i \in 1..Len(made) : made'[i] = made[i]
        /\ made'[Len(made) + 1] = w
    BY <1>1, AppendKeeps DEF Sound
  <1>3. /\ w.typed = typed /\ w.program = p /\ w.password = Heard(p, typed) /\ w.key = draw
        /\ w.entry = entry /\ entry = Entry(PublicOf[draw], Blob(w.password, draw, draw, draw))
    OBVIOUS
  <1>4. entry.public_key = PublicOf[draw] /\ IsEntry(entry) BY DEF Entry, IsEntry
  <1>5. draw \in PrivateKeys BY <1>1, <1>2, KeysAssumption, LimitsAssumption
  <1> HIDE DEF w, entry, blob
  <1>6. Drawn'
    <2>1. Len(made)' \in 0..MaxWallets BY <1>1, <1>2, LimitsAssumption
    <2>2. ASSUME NEW i \in 1..Len(made')
          PROVE  /\ made'[i].typed \in Passwords /\ made'[i].program \in Programs
                 /\ made'[i].password = Heard(made'[i].program, made'[i].typed)
                 /\ made'[i].password # EmptyPassword
                 /\ made'[i].key = i
                 /\ made'[i].entry = Entry(PublicOf[i], Blob(made'[i].password, i, i, i))
      <3>1. CASE i \in 1..Len(made) BY <3>1, <1>2 DEF Whole, Drawn
      <3>2. CASE i = draw BY <3>2, <1>1, <1>2, <1>3
      <3> QED BY <3>1, <3>2, <1>2
    <2> QED BY <2>1, <2>2 DEF Drawn
  <1>7. Kept'
    <2>1. slot' = made'[Len(made')].entry /\ Len(made') # 0 BY <1>1, <1>2, <1>3
    <2>2. slot'.public_key \in Publics BY <1>1, <1>4, <1>5 DEF Publics
    <2> QED BY <1>1, <1>4, <2>1, <2>2, LimitsAssumption DEF Kept
  <1>8. Loaded' BY <1>1 DEF Whole, Loaded, InUse
  <1>9. OrderMade' BY <1>1 DEF Whole, OrderMade, OrderedAs
  <1>10. Sent' BY <1>1 DEF Whole, Sent
  <1>11. RefusedForAReason' BY <1>1 DEF RefusedForAReason
  <1> QED BY <1>6, <1>7, <1>8, <1>9, <1>10, <1>11 DEF Whole

LEMMA DamageWhole == ASSUME Sound, Whole, Damage PROVE Whole'
  <1>1. UNCHANGED <<made, at, program, loaded, order, held, wire, taken>>
        /\ slot # NoEntry /\ slot' \in Damaged(slot) /\ damages < MaxDamage /\ damages' = damages + 1
    BY DEF Damage
  <1>2. Len(made) \in Nat /\ DOMAIN made = 1..Len(made)
    BY ASequence DEF Sound, SomeSeq
  <1>3. damages \in Nat /\ damages' \in 0..MaxDamage /\ damages' > 0
    BY <1>1, LimitsAssumption DEF Whole, Kept
  <1>4. slot' # NoEntry => IsEntry(slot')
    BY <1>1, <1>2, DamagedTraceable DEF Sound, StoredTraceable
  <1>5. slot' # NoEntry => slot'.public_key \in Publics
    <2> DEFINE e == slot
    <2> SUFFICES ASSUME slot' # NoEntry PROVE slot'.public_key \in Publics OBVIOUS
    <2>1. IsEntry(e) /\ e.public_key \in Publics BY <1>1 DEF Whole, Kept
    <2>2. CASE slot' \in {Shortened(e), Lengthened(e)}
      BY <2>1, <2>2 DEF IsEntry, Shortened, Lengthened
    <2>3. ASSUME NEW n, slot' = Prefixed(e, n) PROVE slot'.public_key \in Publics
      BY <2>1, <2>3 DEF IsEntry, Prefixed
    <2>4. ASSUME NEW key \in PrivateKeys, slot' = Renamed(e, key) PROVE slot'.public_key \in Publics
      BY <2>1, <2>4 DEF IsEntry, Renamed, Publics
    <2>5. ASSUME NEW f, NEW v, slot' = Overwritten(e, f, v) PROVE slot'.public_key \in Publics
      BY <2>1, <2>5 DEF IsEntry, Overwritten
    <2> HIDE DEF e
    <2>6. slot' \in Damaged(e) BY <1>1 DEF e
    <2> QED BY <2>2, <2>3, <2>4, <2>5, <2>6 DEF Damaged
  <1>6. Kept' BY <1>3, <1>4, <1>5 DEF Kept
  <1>7. Drawn' BY <1>1 DEF Whole, Drawn
  <1>8. Loaded' BY <1>1, <1>3 DEF Whole, Loaded, InUse
  <1>9. OrderMade' BY <1>1 DEF Whole, OrderMade, OrderedAs
  <1>10. Sent' BY <1>1 DEF Whole, Sent, Opens, BuiltWith, Transfer
  <1>11. RefusedForAReason'
    BY <1>1, <1>3 DEF Whole, RefusedForAReason
  <1> QED BY <1>6, <1>7, <1>8, <1>9, <1>10, <1>11 DEF Whole

(* An entry that nothing happened to is fetched by either program. *)
LEMMA WholeIsFetched ==
    ASSUME NEW p, NEW key, NEW blob, Entry(key, blob) # NoEntry PROVE Fetches(p, Entry(key, blob))
  BY PayloadAssumption DEF Fetches, CliFetches, DesktopFetches, Entry

LEMMA FetchWhole == ASSUME Sound, Whole, NEW p \in Programs, Fetch(p) PROVE Whole'
  <1>1. UNCHANGED <<made, slot, damages, order, held, wire, taken>> /\ at = "idle" /\ program' = p
        /\ IF Fetches(p, slot)
           THEN at' = "fetched" /\ loaded' = [public_key |-> slot.public_key, blob |-> slot.blob]
           ELSE at' = "refused" /\ loaded' = loaded
    BY DEF Fetch
  <1>2. Fetches(p, slot) => slot # NoEntry BY DEF Fetches, CliFetches, DesktopFetches
  <1>3. order = NoOrder /\ loaded = NothingLoaded BY <1>1 DEF Whole, OrderMade, Loaded
  <1>4. ASSUME Len(made) # 0, damages = 0
        PROVE  /\ Fetches(p, slot) /\ slot.blob # Noise
    <2> DEFINE i == Len(made)
    <2>1. i \in 1..Len(made) /\ slot = made[i].entry BY <1>4 DEF Whole, Kept, Drawn
    <2>2. /\ made[i].typed \in Passwords /\ made[i].program \in Programs
          /\ made[i].password = Heard(made[i].program, made[i].typed)
          /\ made[i].entry = Entry(PublicOf[i], Blob(made[i].password, i, i, i))
      BY <2>1 DEF Whole, Drawn
    <2>3. i \in 1..MaxWallets BY <2>1, LimitsAssumption DEF Whole, Drawn
    <2> HIDE DEF i
    <2>4. LET blob == Blob(made[i].password, i, i, i)
          IN  blob # Noise /\ Entry(PublicOf[i], blob) # NoEntry
      BY <2>2, <2>3, StoredAssumption
    <2>5. Fetches(p, slot) BY <2>1, <2>2, <2>4, WholeIsFetched
    <2>6. slot.blob = Blob(made[i].password, i, i, i) BY <2>1, <2>2 DEF Entry
    <2> QED BY <2>4, <2>5, <2>6
  <1>5. Loaded'
    <2>1. Fetches(p, slot) => loaded'.public_key \in Publics /\ loaded'.blob = slot.blob
      BY <1>1, <1>2 DEF Whole, Kept
    <2>2. loaded' = NothingLoaded => Len(made) = 0 \/ damages > 0
      <3> SUFFICES ASSUME loaded' = NothingLoaded, Len(made) # 0, ~(damages > 0) PROVE FALSE OBVIOUS
      <3>1. damages = 0 BY LimitsAssumption DEF Whole, Kept
      <3>2. loaded'.blob = Noise BY DEF NothingLoaded
      <3> QED BY <1>4, <2>1, <3>1, <3>2
    <2>3. at' \in {"fetched", "refused"} /\ (at' = "fetched" => Fetches(p, slot)) BY <1>1
    <2>4. at' \in InUse => loaded'.public_key \in Publics BY <2>1, <2>3 DEF InUse
    <2> QED BY <1>1, <2>2, <2>3, <2>4 DEF Loaded, Places
  <1>6. RefusedForAReason'
    <2> SUFFICES ASSUME at' = "refused" PROVE (loaded = NothingLoaded /\ (made = <<>> \/ damages > 0))'
      BY DEF RefusedForAReason
    <2>1. loaded' = NothingLoaded /\ ~Fetches(p, slot) BY <1>1, <1>3
    <2>2. Len(made) = 0 \/ damages # 0 BY <1>4, <2>1
    <2>3. Len(made) = 0 => made = <<>> BY DEF Sound, SomeSeq
    <2>4. damages # 0 => damages > 0 BY LimitsAssumption DEF Whole, Kept
    <2> QED BY <1>1, <2>1, <2>2, <2>3, <2>4
  <1>7. Drawn' /\ Kept' BY <1>1 DEF Whole, Drawn, Kept
  <1>8. OrderMade'
    <2>1. order' = NoOrder /\ at' \in {"fetched", "refused"} BY <1>1, <1>3
    <2> QED BY <2>1, <1>1 DEF OrderMade, NoOrder
  <1>9. Sent' BY <1>1 DEF Whole, Sent
  <1> QED BY <1>5, <1>6, <1>7, <1>8, <1>9 DEF Whole

LEMMA OrderWhole ==
    ASSUME Sound, Whole, NEW o \in Orders, Order(o.text, o.amount, o.typed) PROVE Whole'
  <1>1. PICK lamports \in Lamports(program, o.amount), memo \in MemoOf(program, o.typed) :
            order' = [order EXCEPT !.text = o.text, !.to = RecipientOf(program, o.text),
                                   !.amount = o.amount, !.lamports = lamports,
                                   !.typed = o.typed, !.memo = memo]
    BY DEF Order
  <1>2. UNCHANGED <<made, slot, damages, program, loaded, held, wire, taken>>
        /\ at = "fetched" /\ at' = "ordered" /\ RecipientOf(program, o.text) # Refused
    BY DEF Order
  <1>3. order = NoOrder BY <1>2 DEF Whole, OrderMade
  <1>4. OrderedAs(o)' BY <1>1, <1>2, <1>3 DEF OrderedAs, NoOrder
  <1>5. OrderMade'
    <2>1. order' = [text |-> order'.text, to |-> order'.to, amount |-> order'.amount,
                lamports |-> order'.lamports, typed |-> order'.typed, memo |-> order'.memo,
                password |-> order'.password, blockhash |-> order'.blockhash]
      BY <1>1, <1>3 DEF NoOrder
    <2> QED BY <1>2, <1>4, <2>1 DEF OrderMade, OrderedAs
  <1>6. Drawn' /\ Kept' /\ RefusedForAReason'
    BY <1>2 DEF Whole, Drawn, Kept, RefusedForAReason
  <1>7. Loaded' BY <1>2 DEF Whole, Loaded, InUse, Places
  <1>8. Sent' BY <1>2 DEF Whole, Sent
  <1> QED BY <1>5, <1>6, <1>7, <1>8 DEF Whole

(* A wallet opens under what both programs make of its password. *)
LEMMA WholeOpens ==
    ASSUME NEW p, NEW key, NEW s, NEW n, p # EmptyPassword, Blob(p, key, s, n).mac # Noise
    PROVE  wallet_decrypt_private_key(p, Blob(p, key, s, n)) = key
  BY DEF wallet_decrypt_private_key, Blob, Deciphered, Cipher

LEMMA OpenWhole == ASSUME Sound, Sound', Whole, NEW typed \in Passwords, Open(typed) PROVE Whole'
  <1> DEFINE p == Heard(program, typed)
  <1>1. UNCHANGED <<made, slot, damages, program, loaded, wire, taken>> /\ at = "ordered"
        /\ p # EmptyPassword /\ held' = wallet_decrypt_private_key(p, loaded.blob)
        /\ at' = (IF held' = NoKey THEN "refused" ELSE "opened")
        /\ order' = [order EXCEPT !.password = typed]
    BY DEF Open
  <1>2. OrderMade'
    <2>1. order.to # Refused BY <1>1 DEF Whole, OrderMade
    <2>2. PICK o \in Orders : OrderedAs(o) BY <2>1 DEF Whole, OrderMade, NoOrder
    <2>3. /\ order' = [text |-> order.text, to |-> order.to, amount |-> order.amount,
                       lamports |-> order.lamports, typed |-> order.typed, memo |-> order.memo,
                       password |-> typed, blockhash |-> order.blockhash]
      BY <1>1 DEF Whole, OrderMade
    <2>4. OrderedAs(o)' BY <1>1, <2>2, <2>3 DEF OrderedAs
    <2>5. at' \in {"opened", "refused"} BY <1>1
    <2>6. order' = [text |-> order'.text, to |-> order'.to, amount |-> order'.amount,
                lamports |-> order'.lamports, typed |-> order'.typed, memo |-> order'.memo,
                password |-> order'.password, blockhash |-> order'.blockhash]
      BY <2>3
    <2> QED BY <2>1, <2>3, <2>4, <2>5, <2>6 DEF OrderMade
  <1>3. order'.password = typed BY <1>1 DEF Whole, OrderMade
  <1>4. RefusedForAReason'
    <2> SUFFICES ASSUME at' = "refused", loaded # NothingLoaded, NEW i \in DOMAIN made,
                        made[i].entry.blob = loaded.blob, made[i].typed = typed,
                        made[i].program = program \/ typed.whole
                 PROVE  FALSE
      <3>1. at' = "refused" /\ loaded = NothingLoaded => made = <<>> \/ damages > 0
        <4>1. Len(made) = 0 => made = <<>> BY DEF Sound, SomeSeq
        <4> QED BY <1>1, <4>1 DEF Whole, Loaded
      <3> QED BY <1>1, <1>3, <3>1 DEF RefusedForAReason
    <2>1. i \in 1..Len(made) BY ASequence DEF Sound, SomeSeq
    <2>2. /\ made[i].program \in Programs /\ made[i].password = Heard(made[i].program, typed)
          /\ made[i].key = i /\ made[i].entry = Entry(PublicOf[i], Blob(made[i].password, i, i, i))
      BY <2>1 DEF Whole, Drawn
    <2>3. program \in Programs BY DEF Whole, Loaded
    <2>4. made[i].password = p
      <3>1. CASE made[i].program = program BY <3>1, <2>2
      <3>2. CASE typed.whole
        <4>1. typed = [kept |-> typed.kept, whole |-> TRUE]
          <5>1. typed = [kept |-> typed.kept, whole |-> typed.whole] /\ typed.whole \in BOOLEAN
            BY StoredAssumption
          <5> QED BY <3>2, <5>1
        <4>2. Heard("cli", typed) = typed /\ Heard("desktop", typed) = typed BY <4>1 DEF Heard
        <4> QED BY <2>2, <2>3, <4>2 DEF Programs
      <3> QED BY <3>1, <3>2
    <2>5. i \in 1..MaxWallets BY <2>1, LimitsAssumption DEF Whole, Drawn
    <2>6. Blob(p, i, i, i).mac # Noise BY <2>3, <2>5, StoredAssumption
    <2>7. loaded.blob = Blob(p, i, i, i) BY <2>2, <2>4 DEF Entry
    <2>8. held' = i BY <1>1, <2>6, <2>7, WholeOpens
    <2>9. held' = NoKey BY <1>1
    <2> QED BY <2>5, <2>8, <2>9, KeysAssumption
  <1>5. Drawn' /\ Kept' BY <1>1 DEF Whole, Drawn, Kept
  <1>6. Loaded' BY <1>1 DEF Whole, Loaded, InUse, Places
  <1>7. Sent' BY <1>1 DEF Whole, Sent
  <1> QED BY <1>2, <1>4, <1>5, <1>6, <1>7 DEF Whole

LEMMA BuildWhole == ASSUME Sound, Whole, NEW hash \in Blockhashes, Build(hash) PROVE Whole'
  <1> DEFINE blockhash == RecipientOf(program, hash)
             text == IF blockhash = Refused THEN Refused
                     ELSE Transaction(program, Transfer(blockhash), held)
  <1>1. UNCHANGED <<made, slot, damages, program, loaded, taken>> /\ at = "opened"
        /\ order' = [order EXCEPT !.blockhash = blockhash] /\ wire' = text
        /\ at' = (IF text = Refused THEN "failed" ELSE "sent")
    BY DEF Build
  <1> HIDE DEF text
  <1>2. PICK o \in Orders : OrderedAs(o)
    <2>1. order.to # Refused BY <1>1 DEF Whole, OrderMade
    <2> QED BY <2>1 DEF Whole, OrderMade, NoOrder
  <1>3. /\ order' = [text |-> order.text, to |-> order.to, amount |-> order.amount,
                     lamports |-> order.lamports, typed |-> order.typed, memo |-> order.memo,
                     password |-> order.password, blockhash |-> blockhash]
    BY <1>1 DEF Whole, OrderMade
  <1> HIDE DEF blockhash
  <1>4. OrderMade'
    <2>1. OrderedAs(o)' BY <1>1, <1>2, <1>3 DEF OrderedAs
    <2>2. at' \in {"failed", "sent"} /\ order.to # Refused BY <1>1 DEF Whole, OrderMade
    <2>3. order' = [text |-> order'.text, to |-> order'.to, amount |-> order'.amount,
                lamports |-> order'.lamports, typed |-> order'.typed, memo |-> order'.memo,
                password |-> order'.password, blockhash |-> order'.blockhash]
      BY <1>3
    <2> QED BY <1>3, <2>1, <2>2, <2>3 DEF OrderMade
  <1>5. Sent'
    <2>1. held # NoKey BY <1>1 DEF Whole, Sent
    <2>2. PICK i \in 1..Len(made) : made[i].key = held /\ Opens(i)
      BY <2>1 DEF Sound, KeyIsMade, Opens
    <2>3. Opens(i)' BY <1>1, <1>3, <2>2 DEF Opens
    <2>4. Transfer(blockhash)' = Transfer(blockhash)
      BY <1>1, <1>3 DEF Transfer, blockhash
    <2>5. BuiltWith(i)' = text
      <3>1. order'.blockhash = blockhash BY <1>3
      <3>2. Transfer(order.blockhash)' = Transfer(blockhash) BY <1>1, <1>3 DEF Transfer
      <3> QED BY <1>1, <2>2, <3>1, <3>2 DEF BuiltWith, text
    <2>6. order'.blockhash = RecipientOf(program', hash) BY <1>1, <1>3 DEF blockhash
    <2>7. IF at' = "failed" THEN text = Refused ELSE wire' = text /\ wire' # Refused BY <1>1
    <2>8. at' \in {"failed", "sent"} /\ taken = NotTaken BY <1>1 DEF Whole, Sent
    <2> QED BY <1>1, <2>2, <2>3, <2>5, <2>6, <2>7, <2>8 DEF Sent
  <1>6. Drawn' /\ Kept' BY <1>1 DEF Whole, Drawn, Kept
  <1>7. Loaded' BY <1>1 DEF Whole, Loaded, InUse, Places
  <1>8. RefusedForAReason' BY <1>1 DEF RefusedForAReason
  <1> QED BY <1>4, <1>5, <1>6, <1>7, <1>8 DEF Whole

LEMMA NodeReadsWhole == ASSUME Sound, Whole, NodeReads PROVE Whole'
  <1>1. UNCHANGED <<made, slot, damages, program, loaded, order, held, wire>>
        /\ at = "sent" /\ at' = "answered" /\ taken' = NodeTakes(wire, Owner)
    BY DEF NodeReads
  <1>2. Drawn' /\ Kept' /\ RefusedForAReason' BY <1>1 DEF Whole, Drawn, Kept, RefusedForAReason
  <1>3. Loaded' BY <1>1 DEF Whole, Loaded, InUse, Places
  <1>4. OrderMade' BY <1>1 DEF Whole, OrderMade, OrderedAs
  <1>5. Sent'
    <2>1. \A i : BuiltWith(i)' = BuiltWith(i) /\ (Opens(i)' <=> Opens(i))
      BY <1>1 DEF BuiltWith, Opens, Transfer
    <2>2. PICK i \in 1..Len(made) :
              /\ Opens(i)
              /\ \E hash \in Blockhashes : order.blockhash = RecipientOf(program, hash)
              /\ wire = BuiltWith(i) /\ wire # Refused
      BY <1>1 DEF Whole, Sent
    <2> QED BY <1>1, <2>1, <2>2 DEF Sent
  <1> QED BY <1>2, <1>3, <1>4, <1>5 DEF Whole

LEMMA LeaveWhole == ASSUME Sound, Whole, Leave PROVE Whole'
  <1>1. UNCHANGED <<made, slot, damages>> /\ at' = "idle" /\ program' = "cli" /\ taken' = NotTaken
        /\ loaded' = NothingLoaded /\ order' = NoOrder
    BY DEF Leave
  <1>2. Drawn' /\ Kept' /\ RefusedForAReason' BY <1>1 DEF Whole, Drawn, Kept, RefusedForAReason
  <1>3. Loaded' BY <1>1 DEF Loaded, InUse, Places, Programs
  <1>4. OrderMade' BY <1>1 DEF OrderMade, NoOrder
  <1>5. Sent' BY <1>1 DEF Sent
  <1> QED BY <1>2, <1>3, <1>4, <1>5 DEF Whole

LEMMA WholeNext == Sound /\ Sound' /\ Whole /\ [Next]_vars => Whole'
  <1> SUFFICES ASSUME Sound, Sound', Whole, [Next]_vars PROVE Whole' OBVIOUS
  <1>1. ASSUME NEW p \in Programs, NEW typed \in Passwords, Create(p, typed) PROVE Whole'
    BY <1>1, CreateWhole
  <1>2. CASE Damage BY <1>2, DamageWhole
  <1>3. ASSUME NEW p \in Programs, Fetch(p) PROVE Whole' BY <1>3, FetchWhole
  <1>4. ASSUME NEW o \in Orders, Order(o.text, o.amount, o.typed) PROVE Whole'
    BY <1>4, OrderWhole
  <1>5. ASSUME NEW typed \in Passwords, Open(typed) PROVE Whole' BY <1>5, OpenWhole
  <1>6. ASSUME NEW hash \in Blockhashes, Build(hash) PROVE Whole' BY <1>6, BuildWhole
  <1>7. CASE NodeReads BY <1>7, NodeReadsWhole
  <1>8. CASE Leave BY <1>8, LeaveWhole
  <1>9. CASE UNCHANGED vars
    <2>1. UNCHANGED <<made, slot, damages, at, program, loaded, order, held, wire, taken>>
      BY <1>9 DEF vars
    <2>2. Drawn' /\ Kept' /\ RefusedForAReason' /\ Loaded'
      BY <2>1 DEF Whole, Drawn, Kept, RefusedForAReason, Loaded
    <2>3. OrderMade' BY <2>1 DEF Whole, OrderMade, OrderedAs
    <2>4. Sent' BY <2>1 DEF Whole, Sent, Opens, BuiltWith, Transfer
    <2> QED BY <2>2, <2>3, <2>4 DEF Whole
  <1> QED BY <1>1, <1>2, <1>3, <1>4, <1>5, <1>6, <1>7, <1>8, <1>9 DEF Next

LEMMA WholeAlways == Spec => []Whole
  BY SoundAlways, WholeInit, WholeNext, PTL DEF Spec

(* Neither program refuses an entry as it was stored, under the password of    *)
(* the wallet in it: fetch_wallet_payload(), calc_fetch_binary_string() and    *)
(* wallet_decrypt_private_key() refuse what was damaged, never written, or     *)
(* typed wrong.                                                                *)
THEOREM RefusedOnlyForAReason == Spec => []RefusedForAReason
  <1>1. Whole => RefusedForAReason BY DEF Whole
  <1> QED BY <1>1, WholeAlways, PTL

-----------------------------------------------------------------------------
(* Induction, by the least counterexample, and definition by recursion over    *)
(* the first n numbers.                                                        *)
LEMMA NatMin == ASSUME NEW S \in SUBSET Nat, S # {} PROVE \E m \in S : \A k \in S : m <= k
  <1>1. PICK x \in S : \A y \in S : ~(<<y, x>> \in OpToRel(<, Nat))
    BY NatLessThanWellFounded, WFMin
  <1>2. \A y \in S : ~(y < x) BY <1>1 DEF OpToRel
  <1> QED BY <1>2

(* A set of numbers that has 0 and the successor of each below n has n. *)
LEMMA Induction ==
    ASSUME NEW n \in Nat, NEW S, 0 \in S, \A i \in 1..n : i - 1 \in S => i \in S
    PROVE  0..n \subseteq S
  <1> DEFINE B == {i \in 0..n : i \notin S}
  <1> SUFFICES ASSUME B # {} PROVE FALSE OBVIOUS
  <1>1. B \in SUBSET Nat OBVIOUS
  <1>2. PICK m \in B : \A k \in B : m <= k
    <2> HIDE DEF B
    <2> QED BY <1>1, NatMin
  <1>3. m \in 1..n /\ m - 1 \in 0..n /\ m - 1 \notin B BY <1>2
  <1> QED BY <1>3

Defined(n, S, a, F) == \E f \in [0..n -> S] : f[0] = a /\ \A i \in 1..n : f[i] = F[i][f[i - 1]]

LEMMA Recursion ==
    ASSUME NEW n \in Nat, NEW S, NEW a \in S, NEW F \in [1..n -> [S -> S]]
    PROVE  Defined(n, S, a, F)
  <1> DEFINE Is(f, m) == f[0] = a /\ \A i \in 1..m : f[i] = F[i][f[i - 1]]
             Has == {m \in 0..n : \E f \in [0..m -> S] : Is(f, m)}
  <1>1. 0 \in Has
    <2> DEFINE f == [i \in 0..0 |-> a]
    <2>1. f \in [0..0 -> S] /\ Is(f, 0) OBVIOUS
    <2> HIDE DEF f, Is
    <2> QED BY <2>1
  <1>2. ASSUME NEW m \in 1..n, m - 1 \in Has PROVE m \in Has
    <2>1. PICK f \in [0..(m - 1) -> S] : Is(f, m - 1) BY <1>2
    <2> DEFINE g == [i \in 0..m |-> IF i = m THEN F[m][f[m - 1]] ELSE f[i]]
    <2>2. f[m - 1] \in S OBVIOUS
    <2>3. F[m][f[m - 1]] \in S BY <2>2
    <2>4. g \in [0..m -> S] BY <2>3
    <2>5. \A i \in 0..m : g[i] = IF i = m THEN F[m][f[m - 1]] ELSE f[i] OBVIOUS
    <2> HIDE DEF g
    <2>6. g[0] = a /\ g[m] = F[m][f[m - 1]] /\ g[m - 1] = f[m - 1] BY <2>1, <2>5
    <2>7. ASSUME NEW i \in 1..(m - 1) PROVE g[i] = F[i][g[i - 1]]
      <3>1. i \in 0..m /\ i - 1 \in 0..m /\ i # m /\ i - 1 # m OBVIOUS
      <3>2. g[i] = f[i] /\ g[i - 1] = f[i - 1] BY <2>5, <3>1
      <3> QED BY <2>1, <3>2
    <2>8. \A i \in 1..m : i = m \/ i \in 1..(m - 1) OBVIOUS
    <2>9. \A i \in 1..m : g[i] = F[i][g[i - 1]] BY <2>6, <2>7, <2>8
    <2>10. Is(g, m) BY <2>6, <2>9
    <2> HIDE DEF Is
    <2>11. m \in 0..n OBVIOUS
    <2> QED BY <2>4, <2>10, <2>11
  <1>3. n \in Has
    <2> HIDE DEF Has
    <2>1. 0..n \subseteq Has BY <1>1, <1>2, Induction
    <2> QED BY <2>1
  <1> QED BY <1>3 DEF Defined


(* By recursion over all of them. *)
Steps(f, a, F) == f[0] = a /\ \A i \in Nat : f[i + 1] = F[i + 1][f[i]]

LEMMA NatRecursion ==
    ASSUME NEW S, NEW a \in S, NEW F \in [Nat -> [S -> S]]
    PROVE  \E f \in [Nat -> S] : Steps(f, a, F)
  <1> DEFINE Is(g, n) == g \in [0..n -> S] /\ g[0] = a /\ \A i \in 1..n : g[i] = F[i][g[i - 1]]
             G(n) == CHOOSE g : Is(g, n)
  <1>1. ASSUME NEW n \in Nat PROVE Is(G(n), n)
    <2> DEFINE E == [i \in 1..n |-> F[i]]
    <2>1. E \in [1..n -> [S -> S]] /\ \A i \in 1..n : E[i] = F[i] OBVIOUS
    <2> HIDE DEF E
    <2>2. Defined(n, S, a, E) BY <2>1, Recursion
    <2>3. PICK g \in [0..n -> S] : g[0] = a /\ \A i \in 1..n : g[i] = E[i][g[i - 1]]
      BY <2>2 DEF Defined
    <2>4. Is(g, n) BY <2>1, <2>3
    <2> HIDE DEF Is
    <2> QED BY <2>4
  <1> HIDE DEF G
  <1>2. ASSUME NEW n \in Nat PROVE G(n + 1)[n] = G(n)[n]
    <2> DEFINE T == {i \in 0..n : G(n + 1)[i] = G(n)[i]}
    <2>1. Is(G(n), n) /\ Is(G(n + 1), n + 1) BY <1>1
    <2>2. 0 \in T BY <2>1
    <2>3. ASSUME NEW i \in 1..n, i - 1 \in T PROVE i \in T
      <3>1. i \in 1..(n + 1) /\ i \in 0..n OBVIOUS
      <3>2. G(n)[i] = F[i][G(n)[i - 1]] /\ G(n + 1)[i] = F[i][G(n + 1)[i - 1]] BY <2>1, <3>1
      <3> QED BY <2>3, <3>1, <3>2
    <2>4. 0..n \subseteq T
      <3> HIDE DEF T
      <3> QED BY <2>2, <2>3, Induction
    <2> QED BY <2>4
  <1> DEFINE f == [n \in Nat |-> G(n)[n]]
  <1>3. ASSUME NEW n \in Nat PROVE f[n] \in S
    <2>1. Is(G(n), n) /\ n \in 0..n BY <1>1
    <2> QED BY <2>1
  <1>4. f \in [Nat -> S] BY <1>3
  <1>5. f[0] = a
    <2>1. Is(G(0), 0) BY <1>1
    <2> QED BY <2>1
  <1>6. ASSUME NEW n \in Nat PROVE f[n + 1] = F[n + 1][f[n]]
    <2>1. Is(G(n + 1), n + 1) /\ n + 1 \in 1..(n + 1) /\ (n + 1) - 1 = n /\ n + 1 \in Nat BY <1>1
    <2>2. G(n + 1)[n + 1] = F[n + 1][G(n + 1)[n]] BY <2>1
    <2> QED BY <2>1, <2>2, <1>2
  <1>7. Steps(f, a, F) BY <1>5, <1>6 DEF Steps
  <1> HIDE DEF f
  <1> QED BY <1>4, <1>7

-----------------------------------------------------------------------------
(* Powers, and products. *)
Powers(r) == CHOOSE f \in [Nat -> Nat] : f[0] = 1 /\ \A i \in Nat : f[i + 1] = r * f[i]

LEMMA PowersValues ==
    ASSUME NEW r \in Nat
    PROVE  /\ Powers(r) \in [Nat -> Nat] /\ Powers(r)[0] = 1
           /\ \A i \in Nat : Powers(r)[i + 1] = r * Powers(r)[i]
  <1>1. PICK F \in [Nat -> [Nat -> Nat]] : \A i \in Nat, v \in Nat : F[i][v] = r * v
    <2> DEFINE F == [i \in Nat |-> [v \in Nat |-> r * v]]
    <2>1. \A v \in Nat : r * v \in Nat OBVIOUS
    <2>2. F \in [Nat -> [Nat -> Nat]] BY <2>1
    <2>3. \A i \in Nat, v \in Nat : F[i][v] = r * v OBVIOUS
    <2> QED BY <2>2, <2>3
  <1>2. PICK f \in [Nat -> Nat] : Steps(f, 1, F) BY NatRecursion
  <1>3. ASSUME NEW i \in Nat PROVE f[i + 1] = r * f[i]
    <2>1. f[i] \in Nat /\ i + 1 \in Nat OBVIOUS
    <2>2. F[i + 1][f[i]] = r * f[i] BY <1>1, <2>1
    <2> QED BY <1>2, <2>2 DEF Steps
  <1>4. f[0] = 1 BY <1>2 DEF Steps
  <1> QED BY <1>3, <1>4 DEF Powers

LEMMA PowersPositive ==
    ASSUME NEW r \in Nat, r > 0, NEW n \in Nat PROVE Powers(r)[n] > 0
  <1> DEFINE P == Powers(r)
             T == {i \in 0..n : P[i] > 0}
  <1>1. P \in [Nat -> Nat] /\ P[0] = 1 /\ \A i \in Nat : P[i + 1] = r * P[i] BY PowersValues
  <1> HIDE DEF P
  <1>2. 0 \in T BY <1>1
  <1>3. ASSUME NEW i \in 1..n, i - 1 \in T PROVE i \in T
    <2>1. P[(i - 1) + 1] = r * P[i - 1] /\ (i - 1) + 1 = i /\ P[i - 1] \in Nat BY <1>1
    <2>2. r * P[i - 1] > 0 BY <1>3, <2>1
    <2> QED BY <2>1, <2>2
  <1>4. 0..n \subseteq T
    <2> HIDE DEF T
    <2> QED BY <1>2, <1>3, Induction
  <1> QED BY <1>4 DEF P

LEMMA Products ==
    ASSUME NEW a \in Nat, NEW b \in Nat, NEW x \in Nat, NEW y \in Nat, a <= x, b <= y
    PROVE  a * b <= x * y /\ a * b \in Nat /\ x * y \in Nat
  <1>1. a * b <= x * b /\ x * b \in Nat /\ a * b \in Nat OBVIOUS
  <1>2. x * b <= x * y /\ x * y \in Nat OBVIOUS
  <1> QED BY <1>1, <1>2

-----------------------------------------------------------------------------
(* Doubles: how far what is read or computed is from the number it stands for. *)
LEMMA TwoValues ==
    /\ Two[0] = 1
    /\ \A k \in Nat : Two[k] \in Nat /\ Two[k] > 0 /\ Two[k + 1] = 2 * Two[k]
  <1> DEFINE f == Powers(2)
  <1>1. f \in [Nat -> Nat] /\ f[0] = 1 /\ \A k \in Nat : f[k + 1] = 2 * f[k] BY PowersValues
  <1>2. \A k \in Nat : f[k] > 0 BY PowersPositive
  <1> HIDE DEF f
  <1>3. f = [k \in Nat |-> IF k = 0 THEN 1 ELSE 2 * f[k - 1]]
    <2>1. ASSUME NEW k \in Nat PROVE f[k] = IF k = 0 THEN 1 ELSE 2 * f[k - 1]
      <3>1. CASE k = 0 BY <3>1, <1>1
      <3>2. CASE k # 0
        <4>1. k - 1 \in Nat /\ (k - 1) + 1 = k BY <3>2
        <4>2. f[(k - 1) + 1] = 2 * f[k - 1] BY <4>1, <1>1
        <4> QED BY <4>1, <4>2, <3>2
      <3> QED BY <3>1, <3>2
    <2> QED BY <1>1, <2>1
  <1>4. Two = [k \in Nat |-> IF k = 0 THEN 1 ELSE 2 * Two[k - 1]]
    BY ZenonT(60), <1>3 DEF Two
  <1> DEFINE T == {k \in Nat : Two[k] \in Nat /\ Two[k] > 0}
  <1>5. Two[0] = 1 BY <1>4
  <1>6. ASSUME NEW k \in Nat PROVE Two[k + 1] = 2 * Two[k]
    <2>1. k + 1 \in Nat /\ k + 1 # 0 /\ (k + 1) - 1 = k OBVIOUS
    <2> QED BY <1>4, <2>1
  <1>7. ASSUME NEW n \in Nat PROVE n \in T
    <2>1. 0 \in T BY <1>5
    <2>2. ASSUME NEW i \in 1..n, i - 1 \in T PROVE i \in T
      <3>1. Two[(i - 1) + 1] = 2 * Two[i - 1] /\ (i - 1) + 1 = i BY <1>6, <2>2
      <3> QED BY <2>2, <3>1
    <2>3. 0..n \subseteq T
      <3> HIDE DEF T
      <3> QED BY <2>1, <2>2, Induction
    <2> QED BY <2>3
  <1> QED BY <1>5, <1>6, <1>7

(* The significands, the finest unit and the coarsest one. *)
Scale == Two[Precision]
Finest == Two[-MinExponent]
Coarsest == Two[MaxExponent]

LEMMA Scales ==
    /\ Scale \in Nat /\ Scale >= 8 /\ Finest \in Nat /\ Finest > 0 /\ Coarsest \in Nat /\ Coarsest > 0
    /\ AmountLimit \in Nat /\ AmountLimit >= Scale /\ AmountLimit <= Coarsest
    /\ LamportsPerSol \in Nat /\ LamportsPerSol >= 100
    /\ 10 * LamportsPerSol * Scale <= Finest
  <1>1. Precision \in Nat /\ Precision >= 3 /\ MaxExponent \in Nat /\ -MinExponent \in Nat
    BY DoublesAssumption
  <1>2. /\ Scale \in Nat /\ Scale > 0 /\ Finest \in Nat /\ Finest > 0 /\ Coarsest \in Nat /\ Coarsest > 0
    BY <1>1, TwoValues DEF Scale, Finest, Coarsest
  <1>3. Scale >= 8
    <2> DEFINE T == {k \in 0..(Precision - 3) : Two[k + 3] >= 8}
    <2>1. 0 \in T
      <3>1. Two[1] = 2 * Two[0] /\ Two[2] = 2 * Two[1] /\ Two[3] = 2 * Two[2]
        <4>1. Two[0 + 1] = 2 * Two[0] /\ Two[1 + 1] = 2 * Two[1] /\ Two[2 + 1] = 2 * Two[2]
          BY TwoValues
        <4> QED BY <4>1
      <3>2. Two[3] = 8 BY <3>1, TwoValues
      <3> QED BY <1>1, <3>2
    <2>2. ASSUME NEW i \in 1..(Precision - 3), i - 1 \in T PROVE i \in T
      <3>1. (i - 1) + 3 \in Nat /\ ((i - 1) + 3) + 1 = i + 3 BY <1>1
      <3>2. Two[((i - 1) + 3) + 1] = 2 * Two[(i - 1) + 3] /\ Two[(i - 1) + 3] \in Nat
        BY <3>1, TwoValues
      <3> QED BY <1>1, <2>2, <3>1, <3>2
    <2>3. 0..(Precision - 3) \subseteq T
      <3> HIDE DEF T
      <3> QED BY <1>1, <2>1, <2>2, Induction
    <2>4. Precision - 3 \in T /\ (Precision - 3) + 3 = Precision BY <1>1, <2>3
    <2> QED BY <2>4 DEF Scale
  <1> QED BY <1>2, <1>3, InputAssumption DEF Scale, Finest, Coarsest

(* n/d in the units of e. *)
InUnits(n, e) == n * Below(e)
Units(d, e) == d * Above(e)

LEMMA UnitValues ==
    ASSUME NEW n \in Nat \ {0}, NEW d \in Nat \ {0}, NEW e \in MinExponent..MaxExponent
    PROVE  /\ Above(e) \in Nat /\ Above(e) > 0 /\ Below(e) \in Nat /\ Below(e) > 0
           /\ InUnits(n, e) \in Nat /\ InUnits(n, e) > 0 /\ Units(d, e) \in Nat /\ Units(d, e) > 0
  <1>1. e \in Int /\ (e < 0 => -e \in Nat) /\ (~(e < 0) => e \in Nat) BY DoublesAssumption
  <1>2. Above(e) \in Nat /\ Above(e) > 0 /\ Below(e) \in Nat /\ Below(e) > 0
    BY <1>1, TwoValues DEF Above, Below
  <1> QED BY <1>2 DEF InUnits, Units

(* A quotient is less than a bound when the dividend is less than that many times. *)
LEMMA QuotientBelow ==
    ASSUME NEW a \in Nat, NEW b \in Nat \ {0}, NEW c \in Nat
    PROVE  a \div b < c <=> a < c * b
  <1> DEFINE q == a \div b
             r == a % b
  <1>1. q \in Nat /\ r \in 0..(b - 1) /\ a = b * q + r OBVIOUS
  <1> HIDE DEF q, r
  <1>2. ASSUME q < c PROVE a < c * b
    <2>1. (q + 1) * b <= c * b /\ (q + 1) * b = b * q + b BY <1>1, <1>2
    <2> QED BY <1>1, <2>1
  <1>3. ASSUME ~(q < c) PROVE ~(a < c * b)
    <2>1. c * b <= q * b /\ q * b = b * q BY <1>1, <1>3
    <2> QED BY <1>1, <2>1
  <1> QED BY <1>2, <1>3 DEF q

LEMMA FitsIs ==
    ASSUME NEW n \in Nat \ {0}, NEW d \in Nat \ {0}, NEW e \in MinExponent..MaxExponent
    PROVE  Fits(n, d, e) <=> InUnits(n, e) < Scale * Units(d, e)
  <1>1. /\ Above(e) \in Nat /\ Above(e) > 0 /\ Below(e) \in Nat /\ Below(e) > 0
        /\ Units(d, e) \in Nat /\ Units(d, e) > 0
    BY UnitValues
  <1>2. Scale \in Nat /\ Scale >= 8 /\ Scale * d \in Nat /\ Scale * d >= 1
    <2>1. Scale \in Nat /\ Scale >= 8 BY Scales
    <2> QED BY <2>1
  <1>3. CASE e < 0
    <2> DEFINE m == Scale * d
               b == Below(e)
    <2>1. Above(e) = 1 /\ Units(d, e) = d BY <1>3 DEF Above, Units
    <2>2. Fits(n, d, e) <=> n <= (m - 1) \div b BY <1>3 DEF Fits, Scale
    <2>3. m - 1 \in Nat /\ b \in Nat \ {0} BY <1>1, <1>2
    <2> HIDE DEF m, b
    <2>4. (m - 1) \div b < n <=> m - 1 < n * b BY <2>3, QuotientBelow
    <2>5. (m - 1) \div b \in Nat /\ n * b \in Nat BY <2>3
    <2>6. Fits(n, d, e) <=> ~(m - 1 < n * b) BY <2>2, <2>4, <2>5
    <2>7. m \in Int BY <2>3, <1>2 DEF m
    <2>8. Fits(n, d, e) <=> n * b < m BY <2>5, <2>6, <2>7
    <2> QED BY <2>1, <2>8 DEF m, b, InUnits
  <1>4. CASE ~(e < 0)
    <2>1. Below(e) = 1 /\ InUnits(n, e) = n BY <1>4 DEF Below, InUnits
    <2>2. Fits(n, d, e) <=> n \div Units(d, e) < Scale
      BY <1>4 DEF Fits, Scale, Units, Above
    <2> QED BY <1>1, <1>2, <2>1, <2>2, QuotientBelow
  <1> QED BY <1>3, <1>4

(* What is neither too large nor too small has a unit of which it takes half   *)
(* of the significands or more, and less than all.                             *)
LEMMA ExponentIs ==
    ASSUME NEW n \in Nat \ {0}, NEW d \in Nat \ {0}, n * Finest >= Scale * d, n < Scale * d * Coarsest
    PROVE  /\ Exponent(n, d) \in MinExponent..MaxExponent
           /\ Scale * Units(d, Exponent(n, d)) <= 2 * InUnits(n, Exponent(n, d))
  <1> DEFINE Is(e) == Fits(n, d, e) /\ (e = MinExponent \/ ~Fits(n, d, e - 1))
             S == {k \in 0..(MaxExponent - MinExponent) : Fits(n, d, MinExponent + k)}
  <1>1. MinExponent \in Int /\ MinExponent < 0 /\ MaxExponent \in Nat BY DoublesAssumption
  <1>2. Scale \in Nat /\ Scale >= 8 /\ Coarsest \in Nat /\ Finest \in Nat BY Scales
  <1>3. MaxExponent - MinExponent \in S
    <2>1. MaxExponent \in MinExponent..MaxExponent /\ MinExponent + (MaxExponent - MinExponent) = MaxExponent
          /\ MaxExponent - MinExponent \in 0..(MaxExponent - MinExponent)
      BY <1>1
    <2>2. InUnits(n, MaxExponent) = n /\ Units(d, MaxExponent) = d * Coarsest
      BY <1>1 DEF InUnits, Units, Above, Below, Coarsest
    <2>3. Scale * d * Coarsest = Scale * (d * Coarsest) BY <1>2
    <2>4. Fits(n, d, MaxExponent) BY <2>1, <2>2, <2>3, FitsIs
    <2> QED BY <2>1, <2>4
  <1>4. PICK m \in S : \A k \in S : m <= k
    <2>1. S \in SUBSET Nat /\ S # {} BY <1>3
    <2> HIDE DEF S
    <2> QED BY <2>1, NatMin
  <1>5. Is(MinExponent + m) /\ MinExponent + m \in MinExponent..MaxExponent
    <2>1. Fits(n, d, MinExponent + m) /\ m \in 0..(MaxExponent - MinExponent) BY <1>4
    <2>2. CASE m = 0 BY <1>1, <2>1, <2>2
    <2>3. CASE m # 0
      <3>1. m - 1 \in 0..(MaxExponent - MinExponent) /\ MinExponent + (m - 1) = (MinExponent + m) - 1
        BY <1>1, <2>1, <2>3
      <3>2. ~(m <= m - 1) BY <2>1
      <3>3. m - 1 \notin S BY <1>4, <3>2
      <3>4. ~Fits(n, d, MinExponent + (m - 1)) BY <3>1, <3>3
      <3>5. ~Fits(n, d, (MinExponent + m) - 1) BY <3>1, <3>4
      <3> QED BY <1>1, <2>1, <3>5
    <2> QED BY <2>2, <2>3
  <1> DEFINE e == Exponent(n, d)
  <1>6. e \in MinExponent..MaxExponent /\ Is(e)
    <2> HIDE DEF Is
    <2>1. \E x \in MinExponent..MaxExponent : Is(x) BY <1>5
    <2>2. e = CHOOSE x \in MinExponent..MaxExponent : Is(x) BY DEF Exponent, Is
    <2> HIDE DEF e
    <2> QED BY <2>1, <2>2
  <1> HIDE DEF e
  <1>7. /\ InUnits(n, e) \in Nat /\ Units(d, e) \in Nat
        /\ InUnits(n, e) < Scale * Units(d, e)
    BY <1>6, FitsIs, UnitValues
  <1>8. e # MinExponent
    <2> SUFFICES ASSUME e = MinExponent PROVE FALSE OBVIOUS
    <2>1. InUnits(n, e) = n * Finest /\ Units(d, e) = d
      BY <1>1 DEF InUnits, Units, Above, Below, Finest
    <2> QED BY <1>2, <1>7, <2>1
  <1>9. e - 1 \in MinExponent..MaxExponent /\ ~Fits(n, d, e - 1) BY <1>1, <1>6, <1>8
  <1>10. /\ InUnits(n, e - 1) \in Nat /\ Units(d, e - 1) \in Nat
         /\ Scale * Units(d, e - 1) <= InUnits(n, e - 1)
    <2>1. InUnits(n, e - 1) \in Nat /\ Units(d, e - 1) \in Nat BY <1>9, UnitValues
    <2>2. Scale * Units(d, e - 1) \in Nat BY <1>2, <2>1
    <2> QED BY <1>9, <2>1, <2>2, FitsIs
  <1>11. CASE e <= 0
    <2>1. Below(e - 1) = 2 * Below(e) /\ Above(e - 1) = 1 /\ Above(e) = 1
      <3>1. -e \in Nat /\ -(e - 1) = -e + 1 /\ e - 1 < 0 BY <1>1, <1>6, <1>11
      <3>2. Two[-e + 1] = 2 * Two[-e] BY <3>1, TwoValues
      <3>3. CASE e < 0 BY <3>1, <3>2, <3>3 DEF Above, Below
      <3>4. CASE e = 0
        <4>1. Two[1] = 2 * Two[0] BY <3>2, <3>4
        <4>2. Two[0] = 1 BY TwoValues
        <4>3. Below(-1) = Two[1] /\ Below(0) = 1 /\ Above(-1) = 1 /\ Above(0) = Two[0]
          BY DEF Above, Below
        <4> QED BY <3>4, <4>1, <4>2, <4>3
      <3> QED BY <1>1, <1>6, <1>11, <3>3, <3>4
    <2>2. Below(e) \in Nat BY <1>6, UnitValues
    <2>3. n * (2 * Below(e)) = 2 * (n * Below(e)) BY <2>2
    <2>4. InUnits(n, e - 1) = 2 * InUnits(n, e) /\ Units(d, e - 1) = Units(d, e)
      BY <2>1, <2>3 DEF InUnits, Units
    <2> QED BY <1>6, <1>10, <2>4 DEF e
  <1>12. CASE e > 0
    <2>1. Above(e) = 2 * Above(e - 1) /\ Below(e) = 1 /\ Below(e - 1) = 1
      <3>1. e - 1 \in Nat /\ (e - 1) + 1 = e BY <1>1, <1>6, <1>12
      <3>2. Two[(e - 1) + 1] = 2 * Two[e - 1] BY <3>1, TwoValues
      <3> QED BY <1>12, <3>1, <3>2 DEF Above, Below
    <2>2. Above(e - 1) \in Nat BY <1>9, UnitValues
    <2>3. d * (2 * Above(e - 1)) = 2 * (d * Above(e - 1)) BY <2>2
    <2>4. InUnits(n, e - 1) = InUnits(n, e) /\ Units(d, e) = 2 * Units(d, e - 1)
      BY <2>1, <2>3 DEF InUnits, Units
    <2>5. Scale * (2 * Units(d, e - 1)) = 2 * (Scale * Units(d, e - 1)) BY <1>2, <1>10
    <2>6. Scale * Units(d, e - 1) \in Nat BY <1>2, <1>10
    <2> QED BY <1>6, <1>7, <1>10, <2>4, <2>5, <2>6 DEF e
  <1> QED BY <1>1, <1>6, <1>11, <1>12

LEMMA RoundedIs ==
    ASSUME NEW a \in Nat, NEW b \in Nat \ {0}
    PROVE  /\ RoundedEven(a, b) \in Nat
           /\ 2 * (RoundedEven(a, b) * b) <= 2 * a + b
           /\ 2 * a <= 2 * (RoundedEven(a, b) * b) + b
  <1> DEFINE low == a \div b
             r == a % b
  <1>1. low \in Nat /\ r \in 0..(b - 1) /\ a = b * low + r OBVIOUS
  <1>2. RoundedEven(a, b) = IF 2 * r > b \/ (2 * r = b /\ low % 2 = 1) THEN low + 1 ELSE low
    BY DEF RoundedEven
  <1> HIDE DEF low, r
  <1>3. b * low = low * b /\ (low + 1) * b = low * b + b /\ low * b \in Nat BY <1>1
  <1>4. CASE RoundedEven(a, b) = low + 1 /\ 2 * r >= b BY <1>1, <1>3, <1>4
  <1>5. CASE RoundedEven(a, b) = low /\ 2 * r <= b BY <1>1, <1>3, <1>5
  <1> QED BY <1>1, <1>2, <1>4, <1>5

(* A fraction x is n/d but for c of its last bits. *)
Near(x, n, d, c) ==
    /\ x[1] \in Nat \ {0} /\ x[2] \in Nat \ {0}
    /\ Scale * (x[1] * d) <= (Scale + c) * (n * x[2])
    /\ (Scale - c) * (n * x[2]) <= Scale * (x[1] * d)

LEMMA NearestIs ==
    ASSUME NEW n \in Nat \ {0}, NEW d \in Nat \ {0},
           n * Finest >= Scale * d, n < Scale * d * Coarsest
    PROVE  Near(Nearest(n, d), n, d, 1)
  <1> DEFINE e == Exponent(n, d)
             a == InUnits(n, e)
             b == Units(d, e)
             q == RoundedEven(a, b)
  <1>1. e \in MinExponent..MaxExponent /\ Scale * b <= 2 * a BY ExponentIs
  <1>2. /\ Above(e) \in Nat /\ Above(e) > 0 /\ Below(e) \in Nat /\ Below(e) > 0
        /\ a \in Nat /\ a > 0 /\ b \in Nat /\ b > 0
    BY <1>1, UnitValues
  <1>3. Nearest(n, d) = <<q * Above(e), Below(e)>> BY DEF Nearest, InUnits, Units
  <1>4. n * Below(e) = a /\ d * Above(e) = b BY DEF InUnits, Units
  <1> HIDE DEF e, a, b
  <1>5. q \in Nat /\ 2 * (q * b) <= 2 * a + b /\ 2 * a <= 2 * (q * b) + b
    <2>1. a \in Nat /\ b \in Nat \ {0} BY <1>2
    <2> QED BY <2>1, RoundedIs
  <1> HIDE DEF q
  <1>6. Scale \in Nat /\ Scale >= 8 BY Scales
  <1>7. q > 0
    <2> SUFFICES ASSUME q = 0 PROVE FALSE BY <1>5
    <2>1. q * b = 0 /\ Scale * b >= 8 * b BY <1>2, <1>6
    <2> QED BY <1>1, <1>2, <1>5, <1>6, <2>1
  <1>8. q * Above(e) \in Nat /\ q * Above(e) > 0 /\ (q * Above(e)) * d = q * b
    <2>1. (q * Above(e)) * d = q * (d * Above(e)) BY <1>2, <1>5
    <2> QED BY <1>2, <1>4, <1>5, <1>7, <2>1
  <1> DEFINE p == q * b
  <1>9. p \in Nat BY <1>2, <1>5
  <1>10. 2 * p <= 2 * a + b /\ 2 * a <= 2 * p + b BY <1>5
  <1> HIDE DEF p
  <1>11. Scale * (2 * p) <= Scale * (2 * a + b) /\ Scale * (2 * a) <= Scale * (2 * p + b)
    BY <1>2, <1>6, <1>9, <1>10
  <1>12. /\ Scale * (2 * p) = 2 * (Scale * p) /\ Scale * (2 * a) = 2 * (Scale * a)
         /\ Scale * (2 * a + b) = 2 * (Scale * a) + Scale * b
         /\ Scale * (2 * p + b) = 2 * (Scale * p) + Scale * b
    BY <1>2, <1>6, <1>9
  <1>13. /\ (Scale + 1) * a = Scale * a + a /\ (Scale - 1) * a = Scale * a - a
         /\ Scale * a \in Nat /\ Scale * p \in Nat /\ Scale * b \in Nat
    BY <1>2, <1>6, <1>9
  <1>14. Scale * p <= (Scale + 1) * a /\ (Scale - 1) * a <= Scale * p
    BY <1>1, <1>2, <1>11, <1>12, <1>13
  <1> QED BY <1>2, <1>3, <1>4, <1>8, <1>14 DEF Near, p

(* What is lost adds up. *)
LEMMA Cancelled ==
    ASSUME NEW x \in Int, NEW y \in Int, NEW z \in Nat \ {0}, x * z <= y * z PROVE x <= y
  <1> SUFFICES ASSUME x > y PROVE FALSE OBVIOUS
  <1>1. x * z - y * z = (x - y) * z /\ (x - y) * z > 0 OBVIOUS
  <1>2. x * z \in Int /\ y * z \in Int OBVIOUS
  <1> QED BY <1>1, <1>2

LEMMA MoreIsLost ==
    ASSUME NEW a \in Nat, NEW b \in Nat, NEW m \in Nat, NEW c \in Nat, c <= Scale,
           Scale * a <= (Scale + 1) * b, (Scale - 1) * b <= Scale * a,
           Scale * b <= (Scale + c) * m, (Scale - c) * m <= Scale * b
    PROVE  Scale * a <= (Scale + (c + 2)) * m /\ (Scale - (c + 2)) * m <= Scale * a
  <1>1. Scale \in Nat /\ Scale >= 8 BY Scales
  <1> DEFINE A == Scale * a
             B == Scale * b
             M == Scale * m
             C == c * m
  <1>2. A \in Nat /\ B \in Nat /\ M \in Nat /\ C \in Nat /\ Scale * M \in Nat /\ Scale * C \in Nat
    BY <1>1
  <1>3. /\ (Scale + 1) * b = B + b /\ (Scale - 1) * b = B - b
        /\ (Scale + c) * m = M + C /\ (Scale - c) * m = M - C
        /\ (Scale + (c + 2)) * m = M + C + 2 * m /\ (Scale - (c + 2)) * m = M - C - 2 * m
    BY <1>1
  <1>4. C <= M BY <1>1
  <1>5. A <= B + b /\ B - b <= A /\ B <= M + C /\ M - C <= B BY <1>3
  <1> HIDE DEF A, C
  <1>6. B <= 2 * M BY <1>2, <1>4, <1>5
  <1>7. b <= 2 * m
    <2>1. b * Scale <= (2 * m) * Scale BY <1>1, <1>6
    <2> QED BY <1>1, <2>1, Cancelled
  <1> HIDE DEF B, M
  <1>8. A <= M + C + 2 * m /\ M - C - 2 * m <= A BY <1>2, <1>5, <1>7
  <1> QED BY <1>3, <1>8 DEF A

LEMMA NearNear ==
    ASSUME NEW x, NEW y, NEW n \in Nat, NEW d \in Nat \ {0}, NEW k \in Nat, NEW c \in Nat,
           c <= Scale, Near(x, n, d, c), Near(y, x[1] * k, x[2], 1)
    PROVE  Near(y, n * k, d, c + 2)
  <1> DEFINE x1 == x[1]
             x2 == x[2]
             y1 == y[1]
             y2 == y[2]
             a == y1 * x2
             b == (x1 * k) * y2
             f == x1 * d
             g == n * x2
             ky == k * y2
             u == y1 * d
             v == (n * k) * y2
  <1>1. x1 \in Nat /\ x2 \in Nat \ {0} /\ y1 \in Nat \ {0} /\ y2 \in Nat \ {0} BY DEF Near
  <1>2. Scale \in Nat /\ Scale >= 8 BY Scales
  <1>3. /\ Scale * f <= (Scale + c) * g /\ (Scale - c) * g <= Scale * f
        /\ Scale * a <= (Scale + 1) * b /\ (Scale - 1) * b <= Scale * a
    BY DEF Near
  <1> HIDE DEF x1, x2, y1, y2
  <1>4. f \in Nat /\ g \in Nat /\ a \in Nat /\ b \in Nat /\ ky \in Nat /\ u \in Nat /\ v \in Nat
    <2>1. x1 * k \in Nat /\ n * k \in Nat BY <1>1
    <2> QED BY <1>1, <2>1
  <1>5. a * d = u * x2 /\ b * d = f * ky /\ g * ky = v * x2 BY <1>1
  <1> HIDE DEF f, g, a, b, ky, u, v
  <1>6. /\ Scale * (a * d) <= (Scale + 1) * (b * d) /\ (Scale - 1) * (b * d) <= Scale * (a * d)
        /\ a * d \in Nat /\ b * d \in Nat
    <2>1. (Scale * a) * d <= ((Scale + 1) * b) * d /\ ((Scale - 1) * b) * d <= (Scale * a) * d
      BY <1>2, <1>3, <1>4
    <2>2. /\ (Scale * a) * d = Scale * (a * d) /\ ((Scale + 1) * b) * d = (Scale + 1) * (b * d)
          /\ ((Scale - 1) * b) * d = (Scale - 1) * (b * d)
      BY <1>2, <1>4
    <2> QED BY <1>4, <2>1, <2>2
  <1>7. /\ Scale * (f * ky) <= (Scale + c) * (g * ky) /\ (Scale - c) * (g * ky) <= Scale * (f * ky)
        /\ g * ky \in Nat
    <2>1. (Scale * f) * ky <= ((Scale + c) * g) * ky /\ ((Scale - c) * g) * ky <= (Scale * f) * ky
      BY <1>2, <1>3, <1>4
    <2>2. /\ (Scale * f) * ky = Scale * (f * ky) /\ ((Scale + c) * g) * ky = (Scale + c) * (g * ky)
          /\ ((Scale - c) * g) * ky = (Scale - c) * (g * ky)
      BY <1>2, <1>4
    <2> QED BY <1>4, <2>1, <2>2
  <1>8. /\ Scale * (a * d) <= (Scale + (c + 2)) * (g * ky)
        /\ (Scale - (c + 2)) * (g * ky) <= Scale * (a * d)
    BY <1>5, <1>6, <1>7, MoreIsLost
  <1>9. /\ (Scale * u) * x2 <= ((Scale + (c + 2)) * v) * x2
        /\ ((Scale - (c + 2)) * v) * x2 <= (Scale * u) * x2
    <2>1. /\ Scale * (u * x2) = (Scale * u) * x2
          /\ (Scale + (c + 2)) * (v * x2) = ((Scale + (c + 2)) * v) * x2
          /\ (Scale - (c + 2)) * (v * x2) = ((Scale - (c + 2)) * v) * x2
      BY <1>1, <1>2, <1>4
    <2> QED BY <1>5, <1>8, <2>1
  <1>10. Scale * u \in Int /\ (Scale + (c + 2)) * v \in Int /\ (Scale - (c + 2)) * v \in Int
    BY <1>2, <1>4
  <1>11. Scale * u <= (Scale + (c + 2)) * v /\ (Scale - (c + 2)) * v <= Scale * u
    BY <1>1, <1>9, <1>10, Cancelled
  <1> QED BY <1>1, <1>11 DEF Near, u, v, y1, y2

(* SOL that are so many tenths of a lamport, and the lamports they are. *)
LEMMA SolNear ==
    ASSUME NEW n \in Nat \ {0}, n <= Coarsest PROVE Near(Sol(n), n, InTenths(1), 1)
  <1> DEFINE d == InTenths(1)
  <1>1. d = 10 * LamportsPerSol BY Scales DEF InTenths
  <1>2. d \in Nat \ {0} BY <1>1, Scales
  <1>3. Scale * d <= Finest
    <2>1. Scale * (10 * LamportsPerSol) = 10 * LamportsPerSol * Scale BY Scales
    <2> QED BY <1>1, <2>1, Scales
  <1>4. /\ Scale \in Nat /\ Scale >= 8 /\ Finest \in Nat /\ Coarsest \in Nat /\ Coarsest > 0
        /\ Scale * d \in Nat /\ Scale * d > 1
    <2>1. /\ Scale \in Nat /\ Scale >= 8 /\ Finest \in Nat /\ Coarsest \in Nat /\ Coarsest > 0
      BY Scales
    <2> HIDE DEF d
    <2> QED BY <1>2, <2>1
  <1> HIDE DEF d
  <1>5. n * Finest >= Scale * d
    <2>1. n * Finest >= Finest BY <1>4
    <2> QED BY <1>3, <1>4, <2>1
  <1>6. n < (Scale * d) * Coarsest
    <2>1. (Scale * d) * Coarsest > Coarsest BY <1>4
    <2> QED BY <1>4, <2>1
  <1>7. Near(Nearest(n, d), n, d, 1) BY <1>2, <1>5, <1>6, NearestIs
  <1> QED BY <1>7 DEF Sol, d

(* The same fraction. *)
LEMMA NearScaled ==
    ASSUME NEW x, NEW n \in Nat, NEW d \in Nat \ {0}, NEW k \in Nat \ {0}, NEW c \in Nat,
           Near(x, n * k, d * k, c)
    PROVE  Near(x, n, d, c)
  <1> DEFINE x1 == x[1]
             x2 == x[2]
             u == x1 * d
             v == n * x2
  <1>1. x1 \in Nat \ {0} /\ x2 \in Nat \ {0} BY DEF Near
  <1>2. /\ Scale * (x1 * (d * k)) <= (Scale + c) * ((n * k) * x2)
        /\ (Scale - c) * ((n * k) * x2) <= Scale * (x1 * (d * k))
    BY DEF Near
  <1> HIDE DEF x1, x2
  <1>3. u \in Nat /\ v \in Nat /\ Scale \in Nat BY <1>1, Scales
  <1>4. x1 * (d * k) = u * k /\ (n * k) * x2 = v * k BY <1>1
  <1> HIDE DEF u, v
  <1>5. /\ Scale * (u * k) = (Scale * u) * k
        /\ (Scale + c) * (v * k) = ((Scale + c) * v) * k
        /\ (Scale - c) * (v * k) = ((Scale - c) * v) * k
    BY <1>3
  <1>6. Scale * u \in Int /\ (Scale + c) * v \in Int /\ (Scale - c) * v \in Int BY <1>3
  <1>7. Scale * u <= (Scale + c) * v /\ (Scale - c) * v <= Scale * u
    BY <1>2, <1>4, <1>5, <1>6, Cancelled
  <1> QED BY <1>1, <1>7 DEF Near, x1, x2, u, v

LEMMA ProductNear ==
    ASSUME NEW n \in Nat \ {0}, n <= Coarsest
    PROVE  Near(Times(Sol(n), LamportsPerSol), n, 10, 3)
  <1> DEFINE x == Sol(n)
             x1 == x[1]
             x2 == x[2]
             l == LamportsPerSol
             p == x1 * l
             W == Coarsest
  <1>1. /\ Scale \in Nat /\ Scale >= 8 /\ Finest \in Nat /\ W \in Nat /\ W > 0
        /\ l \in Nat /\ l >= 100 /\ 10 * l * Scale <= Finest
    BY Scales
  <1>2. InTenths(1) = 10 * l BY Scales DEF InTenths
  <1>3. Near(x, n, 10 * l, 1) BY <1>2, SolNear
  <1>4. /\ x1 \in Nat \ {0} /\ x2 \in Nat \ {0}
        /\ Scale * (x1 * (10 * l)) <= (Scale + 1) * (n * x2)
        /\ (Scale - 1) * (n * x2) <= Scale * (x1 * (10 * l))
    BY <1>3 DEF Near
  <1> HIDE DEF x, x1, x2, l, W
  <1>5. p \in Nat \ {0} /\ x1 * (10 * l) = 10 * p BY <1>1, <1>4
  <1> HIDE DEF p
  <1>6. n * x2 \in Nat /\ n * x2 >= x2 /\ n * x2 <= W * x2 /\ W * x2 \in Nat
    <2>1. n <= W BY DEF W
    <2>2. n * x2 <= W * x2 /\ n * x2 \in Nat /\ W * x2 \in Nat BY <1>1, <1>4, <2>1, Products
    <2> QED BY <1>4, <2>2
  <1> DEFINE g == n * x2
             h == W * x2
  <1>7. g \in Nat /\ h \in Nat /\ g >= x2 /\ g <= h /\ h >= 1 BY <1>1, <1>4, <1>6
  <1>8. Scale * (10 * p) <= (Scale + 1) * g /\ (Scale - 1) * g <= Scale * (10 * p)
    BY <1>4, <1>5
  <1> HIDE DEF g, h
  <1>9. p <= h
    <2>1. (Scale + 1) * g <= (2 * h) * Scale
      <3>1. (Scale + 1) * g = Scale * g + g /\ (2 * h) * Scale = Scale * h + Scale * h
            /\ Scale * g <= Scale * h /\ Scale * h >= h
            /\ Scale * g \in Nat /\ Scale * h \in Nat
        BY <1>1, <1>7
      <3> QED BY <1>1, <1>7, <3>1
    <2>2. Scale * (10 * p) = (10 * p) * Scale BY <1>1, <1>5
    <2>3. (10 * p) * Scale <= (2 * h) * Scale
      <3>1. (10 * p) * Scale \in Nat /\ (2 * h) * Scale \in Nat /\ (Scale + 1) * g \in Nat
        BY <1>1, <1>5, <1>7
      <3> QED BY <1>8, <2>1, <2>2, <3>1
    <2>4. 10 * p <= 2 * h BY <1>1, <1>5, <1>7, <2>3, Cancelled
    <2> QED BY <1>5, <1>7, <2>4
  <1>10. p < Scale * x2 * W
    <2>1. Scale * x2 * W = Scale * h BY <1>1, <1>4 DEF h
    <2>2. Scale * h >= 8 * h BY <1>1, <1>7
    <2> QED BY <1>1, <1>5, <1>7, <1>9, <2>1, <2>2
  <1>11. x2 <= 20 * p
    <2>1. x2 * (Scale - 1) <= (20 * p) * (Scale - 1)
      <3>1. (Scale - 1) * x2 <= (Scale - 1) * g BY <1>1, <1>4, <1>7
      <3>2. Scale * (10 * p) = (10 * p) * Scale
            /\ (20 * p) * (Scale - 1) = (10 * p) * Scale + (10 * p) * (Scale - 2)
            /\ (10 * p) * (Scale - 2) >= 0 /\ (10 * p) * (Scale - 2) \in Int
            /\ (10 * p) * Scale \in Int
        BY <1>1, <1>5
      <3>3. x2 * (Scale - 1) = (Scale - 1) * x2 /\ (Scale - 1) * x2 \in Int /\ (Scale - 1) * g \in Int
        BY <1>1, <1>4, <1>7
      <3> QED BY <1>8, <3>1, <3>2, <3>3
    <2> QED BY <1>1, <1>4, <1>5, <2>1, Cancelled
  <1>12. p * Finest >= Scale * x2
    <2>1. p * Finest >= p * (10 * l * Scale) BY <1>1, <1>5
    <2>2. p * (10 * l * Scale) = (10 * l * p) * Scale BY <1>1, <1>5
    <2>3. 10 * l * p >= 20 * p BY <1>1, <1>5
    <2>4. (10 * l * p) * Scale >= x2 * Scale
      <3>1. 10 * l * p \in Nat BY <1>1, <1>5
      <3>2. 10 * l * p >= x2 BY <1>4, <1>5, <1>11, <2>3, <3>1
      <3> QED BY <1>1, <1>4, <3>1, <3>2
    <2>5. x2 * Scale = Scale * x2 /\ x2 * Scale \in Nat BY <1>1, <1>4
    <2>6. p * Finest \in Nat /\ p * (10 * l * Scale) \in Nat BY <1>1, <1>5
    <2> QED BY <2>1, <2>2, <2>4, <2>5, <2>6
  <1> DEFINE y == Nearest(p, x2)
  <1>13. Near(y, p, x2, 1) BY <1>4, <1>5, <1>10, <1>12, NearestIs DEF W
  <1> HIDE DEF y
  <1>14. 10 * l \in Nat \ {0} BY <1>1
  <1>15. Near(y, n * l, 10 * l, 3)
    <2>1. Near(y, n * l, 10 * l, 1 + 2)
      <3>1. Near(y, x[1] * l, x[2], 1) BY <1>13 DEF p, x1, x2
      <3> QED BY <1>1, <1>3, <1>14, <3>1, NearNear
    <2> QED BY <2>1
  <1>16. Near(y, n, 10, 3) BY <1>1, <1>15, NearScaled
  <1> QED BY <1>16 DEF y, p, x1, x2, Times, l, x

LEMMA HalfNear ==
    ASSUME NEW n \in Nat \ {0}, n <= Coarsest
    PROVE  Near(PlusHalf(Times(Sol(n), LamportsPerSol)), n + 5, 10, 5)
  <1> DEFINE y == Times(Sol(n), LamportsPerSol)
             y1 == y[1]
             y2 == y[2]
             W == Coarsest
             z == <<2 * y1 + y2, 2 * y2>>
             p == 2 * y1 + y2
             q == 2 * y2
             g == n * y2
             h == W * y2
  <1>1. /\ Scale \in Nat /\ Scale >= 8 /\ Finest \in Nat /\ W \in Nat /\ W > 0
        /\ LamportsPerSol \in Nat /\ LamportsPerSol >= 100
        /\ 10 * LamportsPerSol * Scale <= Finest
    BY Scales
  <1>2. Near(y, n, 10, 3) BY ProductNear
  <1>3. /\ y1 \in Nat \ {0} /\ y2 \in Nat \ {0}
        /\ Scale * (y1 * 10) <= (Scale + 3) * g /\ (Scale - 3) * g <= Scale * (y1 * 10)
    BY <1>2 DEF Near
  <1> HIDE DEF y, y1, y2, W
  <1>4. g \in Nat /\ h \in Nat /\ g <= h /\ h >= y2
    <2>1. n <= W BY DEF W
    <2>2. g <= h /\ g \in Nat /\ h \in Nat BY <1>1, <1>3, <2>1, Products
    <2>3. W * y2 >= y2 BY <1>1, <1>3
    <2> QED BY <2>2, <2>3
  <1>5. p \in Nat \ {0} /\ q \in Nat \ {0} BY <1>3
  <1>6. p * 10 = 2 * (y1 * 10) + 10 * y2 /\ (n + 5) * q = 2 * g + 10 * y2 BY <1>3
  <1> HIDE DEF g, h
  <1>7. Near(z, n + 5, 10, 3)
    <2>1. /\ Scale * (2 * (y1 * 10) + 10 * y2) = 2 * (Scale * (y1 * 10)) + Scale * (10 * y2)
          /\ (Scale + 3) * (2 * g + 10 * y2) = 2 * ((Scale + 3) * g) + Scale * (10 * y2) + 30 * y2
          /\ (Scale - 3) * (2 * g + 10 * y2) = 2 * ((Scale - 3) * g) + Scale * (10 * y2) - 30 * y2
      BY <1>1, <1>3, <1>4
    <2>2. /\ Scale * (y1 * 10) \in Int /\ Scale * (10 * y2) \in Int /\ (Scale + 3) * g \in Int
          /\ (Scale - 3) * g \in Int
      BY <1>1, <1>3, <1>4
    <2>3. /\ Scale * (p * 10) <= (Scale + 3) * ((n + 5) * q)
          /\ (Scale - 3) * ((n + 5) * q) <= Scale * (p * 10)
      <3> HIDE DEF p, q
      <3> QED BY <1>3, <1>6, <2>1, <2>2
    <2>4. z[1] = p /\ z[2] = q OBVIOUS
    <2> HIDE DEF z, p, q
    <2> QED BY <1>5, <2>3, <2>4 DEF Near
  <1>8. p * Finest >= Scale * q
    <2>1. Finest >= 2 * Scale
      <3>1. 10 * LamportsPerSol * Scale >= 2 * Scale BY <1>1
      <3>2. 10 * LamportsPerSol * Scale \in Nat BY <1>1
      <3> QED BY <1>1, <3>1, <3>2
    <2>2. p >= y2 BY <1>3
    <2>3. p * Finest >= y2 * (2 * Scale)
      <3> HIDE DEF p, q
      <3>1. y2 * (2 * Scale) <= p * Finest BY <1>1, <1>3, <1>5, <2>1, <2>2, Products
      <3> QED BY <3>1
    <2>4. y2 * (2 * Scale) = Scale * q BY <1>1, <1>3
    <2> QED BY <2>3, <2>4
  <1>9. p < Scale * q * W
    <2>1. 10 * y1 <= 2 * h
      <3>1. (Scale + 3) * g <= (2 * h) * Scale
        <4>1. (Scale + 3) * g = Scale * g + 3 * g /\ (2 * h) * Scale = Scale * h + Scale * h
              /\ Scale * g <= Scale * h /\ Scale * h >= 8 * h
              /\ Scale * g \in Nat /\ Scale * h \in Nat
          BY <1>1, <1>4
        <4> QED BY <1>1, <1>4, <4>1
      <3>2. Scale * (y1 * 10) = (10 * y1) * Scale BY <1>1, <1>3
      <3>3. (10 * y1) * Scale \in Nat /\ (2 * h) * Scale \in Nat /\ (Scale + 3) * g \in Nat
        BY <1>1, <1>3, <1>4
      <3>4. (10 * y1) * Scale <= (2 * h) * Scale BY <1>3, <3>1, <3>2, <3>3
      <3> QED BY <1>1, <1>3, <1>4, <3>4, Cancelled
    <2>2. p <= 2 * h BY <1>3, <1>4, <2>1
    <2>3. Scale * q * W = (2 * h) * Scale BY <1>1, <1>3 DEF h
    <2>4. (2 * h) * Scale >= (2 * h) * 8 BY <1>1, <1>4
    <2>5. (2 * h) * Scale \in Nat BY <1>1, <1>4
    <2> HIDE DEF p
    <2>6. p < (2 * h) * Scale BY <1>3, <1>4, <1>5, <2>2, <2>4, <2>5
    <2> QED BY <2>3, <2>6
  <1> DEFINE s == Nearest(p, q)
  <1>10. Near(s, p, q, 1)
    <2> HIDE DEF p, q
    <2> QED BY <1>5, <1>8, <1>9, NearestIs DEF W
  <1> HIDE DEF s
  <1>11. Near(s, (n + 5) * 1, 10, 3 + 2)
    <2>1. z[1] * 1 = p /\ z[2] = q BY <1>5
    <2>2. Near(s, z[1] * 1, z[2], 1) BY <1>10, <2>1
    <2> HIDE DEF z
    <2> QED BY <1>1, <1>7, <2>2, NearNear
  <1>12. Near(s, n + 5, 10, 5) BY <1>11
  <1> QED BY <1>12 DEF s, p, q, y1, y2, PlusHalf, y

-----------------------------------------------------------------------------
(* What is typed for an amount and a memo. *)
LEMMA Sizes ==
    /\ AmountLimit \in Nat /\ AmountLimit > 1 /\ LamportsPerSol \in Nat /\ LamportsPerSol >= 100
    /\ SmallAmount \in Nat /\ MaxTypedMemo \in Nat /\ MemoLine \in Nat /\ MaxTypedMemo < MemoLine
    /\ SmallAmount > 0 /\ MaxTypedMemo = MaxMemo /\ SmallAmount * LamportsPerSol < AmountLimit
  <1>1. /\ AmountLimit \in Nat \ {0} /\ LamportsPerSol \in Nat \ {0} /\ SmallAmount \in Nat \ {0}
        /\ MaxTypedMemo \in Nat \ {0} /\ MemoLine \in Nat \ {0}
    BY InputAssumption
  <1>2. MaxTypedMemo < MemoLine /\ LamportsPerSol >= 100 /\ SmallAmount * LamportsPerSol < AmountLimit
    BY InputAssumption
  <1>3. SmallAmount * LamportsPerSol >= 1 BY <1>1
  <1> QED BY <1>1, <1>2, <1>3, LimitsAssumption

LEMMA TenthsAreIntegers ==
    ASSUME NEW o \in Orders
    PROVE  /\ o.amount.n \in Int /\ o.amount.head \in Int /\ CliTenths(o.amount) \in Int
           /\ InTenths(o.amount.n) \in Int
  <1>1. o.amount.n \in Int /\ o.amount.head \in Int BY OrdersAssumption
  <1>2. InTenths(o.amount.n) \in Int /\ InTenths(o.amount.head) \in Int
    BY <1>1, Sizes DEF InTenths
  <1>3. LamportsPerSol * o.amount.n \in Int BY <1>1, Sizes
  <1> QED BY <1>1, <1>2, <1>3 DEF CliTenths

(* Cut to a whole number. *)
LEMMA FloorIs ==
    ASSUME NEW x, NEW n \in Nat, NEW c \in Nat, Near(x, n, 10, c)
    PROVE  /\ Floor(x) \in Nat
           /\ Scale * (10 * Floor(x)) <= (Scale + c) * n
           /\ (Scale - c) * n <= Scale * (10 * Floor(x)) + 10 * Scale
  <1> DEFINE a == x[1]
             b == x[2]
             q == Floor(x)
             g == n * b
  <1>1. a \in Nat \ {0} /\ b \in Nat \ {0} BY DEF Near
  <1>2. Scale * (a * 10) <= (Scale + c) * g /\ (Scale - c) * g <= Scale * (a * 10)
    BY DEF Near
  <1>3. q = a \div b BY DEF Floor
  <1> HIDE DEF a, b, q
  <1>4. q \in Nat /\ q * b <= a /\ a <= q * b + b
    <2> DEFINE r == a % b
    <2>1. q \in Nat /\ r \in 0..(b - 1) /\ a = b * q + r BY <1>1, <1>3
    <2>2. q * b = b * q /\ b * q \in Int BY <1>1, <2>1
    <2> HIDE DEF r
    <2> QED BY <1>1, <2>1, <2>2
  <1>5. Scale \in Nat BY Scales
  <1>6. g \in Nat /\ q * b \in Nat BY <1>1, <1>4
  <1> DEFINE f == q * b
  <1>7. f \in Nat /\ f <= a /\ a <= f + b BY <1>4, <1>6
  <1>8. Scale * (f * 10) <= Scale * (a * 10) /\ Scale * (a * 10) <= Scale * (f * 10) + (10 * Scale) * b
    <2> HIDE DEF f
    <2>1. Scale * (f * 10) <= Scale * (a * 10) BY <1>1, <1>5, <1>7
    <2>2. Scale * (a * 10) <= Scale * ((f + b) * 10) BY <1>1, <1>5, <1>7
    <2>3. Scale * ((f + b) * 10) = Scale * (f * 10) + (10 * Scale) * b BY <1>1, <1>5, <1>7
    <2> QED BY <2>1, <2>2, <2>3
  <1>9. Scale * (f * 10) = (Scale * (10 * q)) * b BY <1>1, <1>4, <1>5
  <1>10. (Scale + c) * g = ((Scale + c) * n) * b /\ (Scale - c) * g = ((Scale - c) * n) * b
    BY <1>1, <1>5
  <1> DEFINE u == Scale * (10 * q)
             v == (Scale + c) * n
             w == (Scale - c) * n
  <1>11. u \in Int /\ v \in Int /\ w \in Int /\ u + 10 * Scale \in Int BY <1>4, <1>5
  <1>12. u * b <= v * b /\ w * b <= u * b + (10 * Scale) * b
    <2>1. /\ Scale * (a * 10) \in Int /\ Scale * (f * 10) \in Int /\ (10 * Scale) * b \in Int
          /\ (Scale + c) * g \in Int /\ (Scale - c) * g \in Int
      BY <1>1, <1>5, <1>6, <1>7
    <2> HIDE DEF f, g, u, v, w
    <2>2. u * b = Scale * (f * 10) /\ v * b = (Scale + c) * g /\ w * b = (Scale - c) * g
      BY <1>9, <1>10 DEF u, v, w
    <2> QED BY <1>2, <1>8, <2>1, <2>2
  <1> HIDE DEF u, v, w
  <1>13. u <= v BY <1>1, <1>11, <1>12, Cancelled
  <1>14. w <= u + 10 * Scale
    <2>1. (u + 10 * Scale) * b = u * b + (10 * Scale) * b BY <1>1, <1>5, <1>11
    <2>2. w * b <= (u + 10 * Scale) * b BY <1>12, <2>1
    <2> QED BY <1>1, <1>11, <2>2, Cancelled
  <1> QED BY <1>4, <1>13, <1>14 DEF u, v, w, q

(* At the bound itself, which is that of a double, an amount is no more than   *)
(* what two roundings lose above the limit.                                    *)
LEMMA BoundNear ==
    ASSUME NEW n \in Nat \ {0}, n <= Coarsest,
           ~Exceeds(Sol(n), Nearest(AmountLimit, LamportsPerSol))
    PROVE  (Scale - 1) * n <= (Scale + 1) * (10 * AmountLimit)
  <1> DEFINE x == Sol(n)
             y == Nearest(AmountLimit, LamportsPerSol)
             x1 == x[1]
             x2 == x[2]
             y1 == y[1]
             y2 == y[2]
             l == LamportsPerSol
             A == AmountLimit
             W == Coarsest
  <1>1. /\ Scale \in Nat /\ Scale >= 8 /\ Finest \in Nat /\ W \in Nat /\ W > 0
        /\ l \in Nat /\ l >= 100 /\ 10 * l * Scale <= Finest
        /\ A \in Nat /\ A >= Scale /\ A <= W
    BY Scales
  <1>2. InTenths(1) = 10 * l BY Scales DEF InTenths
  <1>3. Near(x, n, 10 * l, 1) BY <1>2, SolNear
  <1>4. /\ x1 \in Nat \ {0} /\ x2 \in Nat \ {0}
        /\ (Scale - 1) * (n * x2) <= Scale * (x1 * (10 * l))
    BY <1>3 DEF Near
  <1>5. Near(y, A, l, 1)
    <2> HIDE DEF x, l, A, W, y
    <2>1. A * Finest >= Scale * l
      <3>1. Scale * l <= Finest
        <4>1. 10 * l * Scale = 10 * (Scale * l) /\ Scale * l \in Nat BY <1>1
        <4> QED BY <1>1, <4>1
      <3>2. Finest <= A * Finest BY <1>1
      <3>3. Scale * l \in Nat /\ A * Finest \in Nat BY <1>1
      <3> QED BY <1>1, <3>1, <3>2, <3>3
    <2>2. A < Scale * l * W
      <3>1. Scale * l \in Nat /\ Scale * l >= 2 BY <1>1
      <3>2. Scale * l * W >= 2 * W BY <1>1, <3>1
      <3>3. Scale * l * W \in Nat BY <1>1, <3>1
      <3> QED BY <1>1, <3>2, <3>3
    <2>3. A \in Nat \ {0} /\ l \in Nat \ {0} BY <1>1
    <2>4. Near(Nearest(A, l), A, l, 1) BY <2>1, <2>2, <2>3, NearestIs DEF W
    <2> QED BY <2>4 DEF y, A, l
  <1>6. /\ y1 \in Nat \ {0} /\ y2 \in Nat \ {0} /\ Scale * (y1 * l) <= (Scale + 1) * (A * y2)
    BY <1>5 DEF Near
  <1>7. x1 * y2 <= y1 * x2
    <2> HIDE DEF x, y
    <2>1. x1 * y2 \in Int /\ y1 * x2 \in Int BY <1>4, <1>6
    <2> HIDE DEF x1, x2, y1, y2
    <2>2. ~(x1 * y2 > y1 * x2) BY DEF Exceeds, x, y, x1, x2, y1, y2
    <2> QED BY <2>1, <2>2
  <1> HIDE DEF x, y, x1, x2, y1, y2, l, A, W
  <1> DEFINE z == x2 * y2
             s == 10 * l * Scale
             u == (Scale - 1) * n
             v == (Scale + 1) * (10 * A)
  <1>8. z \in Nat \ {0} /\ s \in Nat /\ u \in Int /\ v \in Int BY <1>1, <1>4, <1>6
  <1>9. u * z <= s * (x1 * y2)
    <2>1. ((Scale - 1) * (n * x2)) * y2 <= (Scale * (x1 * (10 * l))) * y2
      <3>1. (Scale - 1) * (n * x2) \in Int /\ Scale * (x1 * (10 * l)) \in Int BY <1>1, <1>4
      <3> DEFINE a == (Scale - 1) * (n * x2)
                 b == Scale * (x1 * (10 * l))
      <3>2. a \in Int /\ b \in Int /\ a <= b BY <1>4, <3>1
      <3> HIDE DEF a, b
      <3>3. a * y2 <= b * y2 BY <1>6, <3>2
      <3> QED BY <3>3 DEF a, b
    <2>2. ((Scale - 1) * (n * x2)) * y2 = u * z BY <1>1, <1>4, <1>6
    <2>3. (Scale * (x1 * (10 * l))) * y2 = s * (x1 * y2) BY <1>1, <1>4, <1>6
    <2> QED BY <2>1, <2>2, <2>3
  <1>10. s * (x1 * y2) <= s * (y1 * x2)
    <2>1. x1 * y2 \in Nat /\ y1 * x2 \in Nat BY <1>4, <1>6
    <2> HIDE DEF s
    <2> QED BY <1>7, <1>8, <2>1, Products
  <1>11. s * (y1 * x2) <= v * z
    <2> DEFINE a == Scale * (y1 * l)
               b == (Scale + 1) * (A * y2)
    <2>1. a \in Int /\ b \in Int /\ a <= b BY <1>1, <1>6
    <2>2. s * (y1 * x2) = a * (10 * x2) /\ v * z = b * (10 * x2) BY <1>1, <1>4, <1>6
    <2>3. 10 * x2 \in Nat BY <1>4
    <2> HIDE DEF a, b, s, v, z
    <2>4. a * (10 * x2) <= b * (10 * x2) BY <2>1, <2>3
    <2> QED BY <2>2, <2>4
  <1>12. u * z <= v * z
    <2>1. u * z \in Int /\ v * z \in Int /\ s * (x1 * y2) \in Int /\ s * (y1 * x2) \in Int
      <3>1. x1 * y2 \in Nat /\ y1 * x2 \in Nat BY <1>4, <1>6
      <3> HIDE DEF u, v, s, z
      <3> QED BY <1>8, <3>1
    <2> HIDE DEF u, v, s, z
    <2> QED BY <1>9, <1>10, <1>11, <2>1
  <1>13. u <= v
    <2> HIDE DEF u, v, z
    <2> QED BY <1>8, <1>12, Cancelled
  <1> QED BY <1>13 DEF u, v, A

(* A loss within so many is one that a multiple of Scale is within. *)
LEMMA WithinIs ==
    ASSUME NEW p, NEW off \in Int, NEW n \in Int,
           LET loss == (IF p = "cli" THEN 5 ELSE 10) * Scale + 5 * (n + 5)
           IN  -loss <= Scale * off /\ Scale * off <= loss
    PROVE  Within(off, Loss(p, n))
  <1>1. Scale \in Nat BY Scales
  <1>2. Scale * off = off * Scale /\ off * Scale \in Int BY <1>1
  <1> DEFINE k == IF p = "cli" THEN 5 ELSE 10
  <1>3. k \in Int OBVIOUS
  <1> HIDE DEF k
  <1>4. k * Scale + 5 * (n + 5) \in Int BY <1>1, <1>3
  <1>5. Loss(p, n) = k * Scale + 5 * (n + 5) BY DEF Loss, Scale, k
  <1>6. -Loss(p, n) <= off * Scale /\ off * Scale <= Loss(p, n) BY <1>2, <1>5 DEF k
  <1>7. off * Scale \in -Loss(p, n)..Loss(p, n) BY <1>2, <1>4, <1>5, <1>6
  <1> QED BY <1>7 DEF Within, Scale

LEMMA RoundedMeant ==
    ASSUME NEW tenths \in Int, tenths <= Coarsest, NEW lamports \in CliFromSol(tenths)
    PROVE  /\ tenths > 0 /\ lamports \in 0..(AmountLimit - 1)
           /\ (Scale - 5) * (tenths + 5) <= Scale * (10 * lamports) + 10 * Scale
           /\ Scale * (10 * lamports) <= (Scale + 5) * (tenths + 5)
  <1> DEFINE x == PlusHalf(Times(Sol(tenths), LamportsPerSol))
             rounded == Floor(x)
             A == AmountLimit
             t == tenths + 5
  <1>1. A \in Nat /\ Scale \in Nat /\ Scale >= 8 /\ A >= Scale /\ Coarsest \in Nat BY Scales
  <1>2. /\ tenths > 0 /\ ~Exceeds(Sol(tenths), Nearest(A, LamportsPerSol)) /\ lamports # 0
        /\ lamports \in IF rounded < A THEN {rounded} ELSE {0, A - 1}
    BY DEF CliFromSol
  <1>3. tenths \in Nat \ {0} /\ t \in Nat BY <1>2
  <1>4. Near(x, t, 10, 5) BY <1>3, HalfNear
  <1>5. /\ rounded \in Nat
        /\ Scale * (10 * rounded) <= (Scale + 5) * t
        /\ (Scale - 5) * t <= Scale * (10 * rounded) + 10 * Scale
    <2> HIDE DEF x
    <2> QED BY <1>3, <1>4, FloorIs
  <1> HIDE DEF rounded
  <1>6. CASE rounded < A
    <2>1. lamports = rounded BY <1>2, <1>6
    <2> QED BY <1>1, <1>2, <1>5, <1>6, <2>1
  <1>7. CASE ~(rounded < A)
    <2>1. lamports = A - 1 BY <1>2, <1>7
    <2>2. (Scale - 1) * tenths <= (Scale + 1) * (10 * A) BY <1>2, <1>3, BoundNear
    <2> DEFINE ST == Scale * tenths
               SA == Scale * (10 * A)
               SR == Scale * (10 * rounded)
               SB == Scale * (10 * (A - 1))
    <2>3. ST \in Nat /\ SA \in Nat /\ SR \in Nat /\ SA <= SR BY <1>1, <1>3, <1>5, <1>7
    <2>4. /\ (Scale - 1) * tenths = ST - tenths /\ (Scale + 1) * (10 * A) = SA + 10 * A
          /\ SB = SA - 10 * Scale
          /\ (Scale + 5) * t = ST + 5 * Scale + 5 * tenths + 25
          /\ (Scale - 5) * t = ST + 5 * Scale - 5 * tenths - 25
      BY <1>1, <1>3
    <2>5. ST - tenths <= SA + 10 * A BY <2>2, <2>4
    <2>6. 80 * A <= 13 * t
      <3>1. 8 * ((Scale + 5) * t) <= (13 * t) * Scale
        <4>1. 8 * ((Scale + 5) * t) = 8 * (Scale * t) + 40 * t /\ (13 * t) * Scale = 13 * (Scale * t)
              /\ Scale * t >= 8 * t /\ Scale * t \in Nat
          BY <1>1, <1>3
        <4> QED BY <1>3, <4>1
      <3>2. (80 * A) * Scale = 8 * SA BY <1>1
      <3>3. (80 * A) * Scale <= (13 * t) * Scale
        <4>1. (80 * A) * Scale \in Int /\ (13 * t) * Scale \in Int /\ (Scale + 5) * t \in Int
          BY <1>1, <1>3
        <4> HIDE DEF SA, SR, t
        <4> QED BY <1>5, <2>3, <3>1, <3>2, <4>1 DEF SR
      <3>4. 80 * A \in Int /\ 13 * t \in Int BY <1>1, <1>3
      <3> QED BY <1>1, <3>3, <3>4, Cancelled
    <2>7. ST + 5 * Scale - 5 * tenths - 25 <= SA
      <3> HIDE DEF ST, SA
      <3>1. 80 * A <= 13 * tenths + 65 BY <1>3, <2>6
      <3> QED BY <1>1, <1>3, <2>3, <2>5, <3>1
    <2> HIDE DEF ST, SA, SR, SB, t
    <2>8. (Scale - 5) * t <= SB + 10 * Scale BY <1>1, <1>3, <2>3, <2>4, <2>7
    <2>9. SB <= (Scale + 5) * t
      <3>1. (Scale + 5) * t \in Int BY <1>1, <1>3
      <3>2. SR <= (Scale + 5) * t BY <1>5 DEF SR
      <3> QED BY <1>1, <2>3, <2>4, <3>1, <3>2
    <2>10. lamports \in 0..(A - 1) BY <1>1, <2>1
    <2> QED BY <1>2, <2>1, <2>8, <2>9, <2>10 DEF SB, t
  <1> QED BY <1>6, <1>7

LEMMA TypedIntegerMeant ==
    ASSUME NEW n \in Int, NEW lamports \in CliFromInteger(n)
    PROVE  /\ lamports \in 0..(AmountLimit - 1)
           /\ 10 * lamports = IF n < 0 THEN 10 * n + 10 * AmountLimit ELSE 10 * n
  <1>1. AmountLimit \in Nat /\ AmountLimit > 1 BY Scales
  <1>2. n \in (1 - AmountLimit)..(AmountLimit - 1) /\ n # 0 /\ lamports = n % AmountLimit
    BY <1>1 DEF CliFromInteger
  <1>3. CASE n >= 0
    <2>1. n % AmountLimit = n BY <1>1, <1>2, <1>3
    <2> QED BY <1>1, <1>2, <1>3, <2>1
  <1>4. CASE n < 0
    <2>1. n % AmountLimit = n + AmountLimit
      <3>1. n + AmountLimit \in 0..(AmountLimit - 1) /\ n = AmountLimit * (-1) + (n + AmountLimit)
        BY <1>1, <1>2, <1>4
      <3> QED BY <1>1, <3>1
    <2> QED BY <1>1, <1>2, <1>4, <2>1
  <1> QED BY <1>3, <1>4

LEMMA CutMeant ==
    ASSUME NEW n \in Nat \ {0}, n <= Coarsest, NEW lamports,
           LET cut == Floor(Times(Sol(n), LamportsPerSol))
           IN  lamports = IF cut < AmountLimit THEN cut ELSE AmountLimit - 1
    PROVE  /\ lamports \in 0..(AmountLimit - 1)
           /\ Scale * (10 * lamports) <= Scale * n + 3 * n
           /\ n > 10 * AmountLimit \/ Scale * n - 3 * n <= Scale * (10 * lamports) + 10 * Scale
  <1> DEFINE x == Times(Sol(n), LamportsPerSol)
             cut == Floor(x)
             A == AmountLimit
  <1>1. A \in Nat /\ Scale \in Nat /\ Scale >= 8 /\ A >= Scale BY Scales
  <1>2. Near(x, n, 10, 3) BY ProductNear
  <1>3. /\ cut \in Nat /\ Scale * (10 * cut) <= (Scale + 3) * n
        /\ (Scale - 3) * n <= Scale * (10 * cut) + 10 * Scale
    <2> HIDE DEF x
    <2> QED BY <1>2, FloorIs
  <1>4. lamports = IF cut < A THEN cut ELSE A - 1 OBVIOUS
  <1> HIDE DEF cut
  <1>5. (Scale + 3) * n = Scale * n + 3 * n /\ (Scale - 3) * n = Scale * n - 3 * n BY <1>1
  <1>6. CASE cut < A BY <1>1, <1>3, <1>4, <1>5, <1>6
  <1>7. CASE ~(cut < A)
    <2>1. lamports \in 0..(A - 1) /\ lamports < cut /\ lamports = A - 1 BY <1>1, <1>3, <1>4, <1>7
    <2>2. Scale * (10 * lamports) <= Scale * (10 * cut)
          /\ Scale * (10 * lamports) \in Int /\ Scale * (10 * cut) \in Int /\ Scale * n \in Int
      BY <1>1, <1>3, <2>1
    <2>3. ASSUME n <= 10 * A PROVE Scale * n <= Scale * (10 * lamports) + 10 * Scale
      <3>1. n <= 10 * lamports + 10 BY <1>1, <2>1, <2>3
      <3>2. Scale * n <= Scale * (10 * lamports + 10) BY <1>1, <2>1, <3>1
      <3>3. Scale * (10 * lamports + 10) = Scale * (10 * lamports) + 10 * Scale BY <1>1, <2>1
      <3> QED BY <3>2, <3>3
    <2>4. n > 10 * A \/ Scale * n - 3 * n <= Scale * (10 * lamports) + 10 * Scale
      BY <1>1, <2>2, <2>3
    <2> QED BY <1>3, <1>5, <2>1, <2>2, <2>4
  <1> QED BY <1>6, <1>7

(* Every amount that is accepted is one that an account can hold. *)
LEMMA LamportsBounded ==
    ASSUME NEW p \in Programs, NEW o \in Orders, NEW lamports \in Lamports(p, o.amount)
    PROVE  lamports \in 0..(AmountLimit - 1)
  <1> DEFINE n == o.amount.n
             tenths == CliTenths(o.amount)
  <1>1. n \in Int /\ tenths \in Int /\ tenths <= Coarsest
    BY TenthsAreIntegers, OrdersAssumption DEF Coarsest
  <1> HIDE DEF tenths
  <1>2. CASE p = "cli" /\ o.amount.form = "integer"
    <2>1. lamports \in CliFromInteger(n) BY <1>2 DEF Lamports, prompt_lamports
    <2> QED BY <1>1, <2>1, TypedIntegerMeant
  <1>3. CASE p = "cli" /\ o.amount.form # "integer"
    <2>1. lamports \in CliFromSol(tenths) BY <1>3 DEF Lamports, prompt_lamports, tenths
    <2> QED BY <1>1, <2>1, RoundedMeant
  <1>4. CASE p = "desktop"
    <2>1. lamports \in parse_lamports(o.amount) BY <1>4 DEF Lamports
    <2>2. CASE o.amount.form = "decimal" /\ n > 0
      <3>1. tenths = n BY <2>2 DEF tenths, CliTenths
      <3>2. LET cut == Floor(Times(Sol(n), LamportsPerSol))
            IN  lamports = IF cut < AmountLimit THEN cut ELSE AmountLimit - 1
        BY <2>1, <2>2 DEF parse_lamports
      <3> QED BY <1>1, <2>2, <3>1, <3>2, CutMeant
    <2>3. CASE o.amount.form = "integer" /\ n \in 1..SmallAmount
      <3>1. lamports = n * LamportsPerSol BY <2>1, <2>3, Sizes DEF parse_lamports
      <3>2. n * LamportsPerSol \in Nat /\ n * LamportsPerSol <= SmallAmount * LamportsPerSol
        BY <2>3, Sizes
      <3> QED BY <3>1, <3>2, Sizes
    <2>4. CASE o.amount.form = "integer" /\ n \in (SmallAmount + 1)..(AmountLimit - 1)
      BY <2>1, <2>4, Sizes DEF parse_lamports
    <2> QED BY <2>1, <2>2, <2>3, <2>4 DEF parse_lamports
  <1> QED BY <1>2, <1>3, <1>4 DEF Programs

(* Every memo is a text, and the command line program's are no longer than its buffer. *)
LEMMA MemoBounded ==
    ASSUME NEW p \in Programs, NEW o \in Orders, NEW memo \in MemoOf(p, o.typed)
    PROVE  memo \in Seq(Byte) /\ (p = "cli" => Len(memo) <= MaxTypedMemo)
  <1> DEFINE n == o.typed
             left == n % MemoLine
  <1>1. n \in Nat /\ MemoLine \in Nat \ {0} BY OrdersAssumption, InputAssumption
  <1>2. left \in 0..(MemoLine - 1) /\ left <= n BY <1>1
  <1>3. Typed(n) \in Seq(Byte) /\ Len(Typed(n)) = n
    <2>1. \A i \in 1..n : 65 + (i % 26) \in Byte BY <1>1 DEF Byte
    <2>2. Typed(n) \in [1..n -> Byte] BY <2>1 DEF Typed
    <2> QED BY <2>2, <1>1
  <1> HIDE DEF left
  <1>4. CASE p = "cli"
    <2>1. memo \in CliMemo(n) BY <1>4 DEF MemoOf
    <2>2. CASE left = 0
      <3>1. memo = DefaultMemo BY <2>1, <2>2 DEF CliMemo, left
      <3> QED BY <3>1, InputAssumption DEF Byte
    <2>3. CASE left \in 1..MaxTypedMemo
      <3>1. memo = SubSeq(Typed(n), n - left + 1, n) BY <2>1, <2>3, <1>2 DEF CliMemo, left
      <3>2. n - left + 1 \in 1..(n + 1) /\ n - left + 1 <= n BY <1>1, <1>2, <2>3
      <3>3. SubSeq(Typed(n), n - left + 1, n) \in Seq(Byte)
            /\ Len(SubSeq(Typed(n), n - left + 1, n)) = n - (n - left + 1) + 1
        BY <3>2, <1>1, <1>3, SubSeqProperties
      <3>4. n - (n - left + 1) + 1 = left BY <1>1, <1>2
      <3> QED BY <3>1, <3>3, <3>4, <2>3
    <2> QED BY <2>1, <2>2, <2>3 DEF CliMemo, left
  <1>5. CASE p # "cli" BY <1>3, <1>5 DEF MemoOf
  <1> QED BY <1>4, <1>5

(* Every variable of the model keeps to its type. What that says of the code:  *)
(* prompt_lamports() and parse_lamports() accept no amount above the 64 bits,  *)
(* and what is decoded as a name is as long as a key.                          *)
THEOREM TypesKept == Spec => []TypeOK
  <1> USE DEF TypeOK
  <1>1. Sound /\ Whole => TypeOK
    <2> SUFFICES ASSUME Sound, Whole PROVE TypeOK OBVIOUS
    <2>1. Len(made) <= MaxWallets /\ damages \in 0..MaxDamage
      BY LimitsAssumption DEF Whole, Drawn, Kept
    <2>2. at \in Places /\ program \in Programs BY DEF Whole, Loaded
    <2>3. order.lamports \in 0..(AmountLimit - 1)
          /\ (Len(order.memo) <= MaxTypedMemo \/ program = "desktop")
      <3>1. CASE order = NoOrder
        <4>1. order.lamports = 0 /\ order.memo = <<>> BY <3>1 DEF NoOrder
        <4> QED BY <4>1, Sizes
      <3>2. CASE \E o \in Orders : OrderedAs(o)
        <4>1. PICK o \in Orders : OrderedAs(o) BY <3>2
        <4> QED BY <4>1, <2>2, LamportsBounded, MemoBounded DEF OrderedAs, Programs
      <3> QED BY <3>1, <3>2 DEF Whole, OrderMade
    <2>4. held \in PrivateKeys \union {NoKey}
      <3> SUFFICES ASSUME held # NoKey PROVE held \in PrivateKeys OBVIOUS
      <3>1. PICK i \in 1..Len(made) : made[i].key = held BY DEF Sound, KeyIsMade
      <3> QED BY <3>1, KeysAssumption, LimitsAssumption DEF Whole, Drawn
    <2> QED BY <2>1, <2>2, <2>3, <2>4
  <1> QED BY <1>1, SoundAlways, WholeAlways, PTL

-----------------------------------------------------------------------------
(* Numbers and their digits. *)
(* The number that the first i digits of s write, and the one the last i do.   *)
Upper(s, r) == CHOOSE f \in [0..Len(s) -> Nat] :
                   f[0] = 0 /\ \A i \in 1..Len(s) : f[i] = r * f[i - 1] + s[i]
Lower(s, r) == CHOOSE f \in [0..Len(s) -> Nat] :
                   f[0] = 0 /\ \A i \in 1..Len(s) :
                       f[i] = f[i - 1] + s[Len(s) - i + 1] * Powers(r)[i - 1]

Digit(r) == 0..(r - 1)

LEMMA UpperValues ==
    ASSUME NEW r \in Nat, NEW s \in Seq(Nat)
    PROVE  /\ Upper(s, r) \in [0..Len(s) -> Nat] /\ Upper(s, r)[0] = 0
           /\ \A i \in 1..Len(s) : Upper(s, r)[i] = r * Upper(s, r)[i - 1] + s[i]
  <1> DEFINE L == Len(s)
  <1>0. L \in Nat /\ \A i \in 1..L : s[i] \in Nat OBVIOUS
  <1> HIDE DEF L
  <1>1. PICK F \in [1..L -> [Nat -> Nat]] : \A i \in 1..L, v \in Nat : F[i][v] = r * v + s[i]
    <2> DEFINE F == [i \in 1..L |-> [v \in Nat |-> r * v + s[i]]]
    <2>1. \A v \in Nat, i \in 1..L : r * v + s[i] \in Nat BY <1>0
    <2>2. F \in [1..L -> [Nat -> Nat]] BY <2>1
    <2>3. \A i \in 1..L, v \in Nat : F[i][v] = r * v + s[i] OBVIOUS
    <2> QED BY <2>2, <2>3
  <1>2. PICK f \in [0..L -> Nat] : f[0] = 0 /\ \A i \in 1..L : f[i] = F[i][f[i - 1]]
    <2>1. Defined(L, Nat, 0, F) BY <1>0, Recursion
    <2> QED BY <2>1 DEF Defined
  <1>3. ASSUME NEW i \in 1..L PROVE f[i] = r * f[i - 1] + s[i]
    <2>1. f[i - 1] \in Nat BY <1>0
    <2>2. F[i][f[i - 1]] = r * f[i - 1] + s[i] BY <1>1, <2>1
    <2> QED BY <1>2, <2>2
  <1> QED BY <1>2, <1>3 DEF Upper, L

LEMMA LowerValues ==
    ASSUME NEW r \in Nat, NEW s \in Seq(Nat)
    PROVE  /\ Lower(s, r) \in [0..Len(s) -> Nat] /\ Lower(s, r)[0] = 0
           /\ \A i \in 1..Len(s) :
                 Lower(s, r)[i] = Lower(s, r)[i - 1] + s[Len(s) - i + 1] * Powers(r)[i - 1]
  <1> DEFINE L == Len(s)
             d == [i \in 1..L |-> s[L - i + 1] * Powers(r)[i - 1]]
  <1>0. L \in Nat /\ \A i \in 1..L : s[i] \in Nat OBVIOUS
  <1> HIDE DEF L
  <1>1. ASSUME NEW i \in 1..L PROVE d[i] \in Nat /\ d[i] = s[L - i + 1] * Powers(r)[i - 1]
    <2>1. L - i + 1 \in 1..L /\ i - 1 \in Nat BY <1>0
    <2>2. s[L - i + 1] \in Nat /\ Powers(r)[i - 1] \in Nat BY <1>0, <2>1, PowersValues
    <2> QED BY <2>2
  <1> HIDE DEF d
  <1>2. PICK F \in [1..L -> [Nat -> Nat]] : \A i \in 1..L, v \in Nat : F[i][v] = v + d[i]
    <2> DEFINE F == [i \in 1..L |-> [v \in Nat |-> v + d[i]]]
    <2>1. \A v \in Nat, i \in 1..L : v + d[i] \in Nat BY <1>1
    <2>2. F \in [1..L -> [Nat -> Nat]] BY <2>1
    <2>3. \A i \in 1..L, v \in Nat : F[i][v] = v + d[i] OBVIOUS
    <2> QED BY <2>2, <2>3
  <1>3. PICK f \in [0..L -> Nat] : f[0] = 0 /\ \A i \in 1..L : f[i] = F[i][f[i - 1]]
    <2>1. Defined(L, Nat, 0, F) BY <1>0, Recursion
    <2> QED BY <2>1 DEF Defined
  <1>4. ASSUME NEW i \in 1..L PROVE f[i] = f[i - 1] + s[L - i + 1] * Powers(r)[i - 1]
    <2>1. f[i - 1] \in Nat BY <1>0
    <2>2. F[i][f[i - 1]] = f[i - 1] + d[i] BY <1>2, <2>1
    <2> QED BY <1>1, <1>3, <2>2
  <1> QED BY <1>3, <1>4 DEF Lower, L

Number(s, r) == Upper(s, r)[Len(s)]

(* Both ways of reading a number come to the same. *)
LEMMA UpperIsLower ==
    ASSUME NEW r \in Nat, NEW s \in Seq(Nat) PROVE Number(s, r) = Lower(s, r)[Len(s)]
  <1> DEFINE L == Len(s)
             u == Upper(s, r)
             w == Lower(s, r)
             p == Powers(r)
             T == {i \in 0..L : u[i] * p[L - i] + w[L - i] = w[L]}
  <1>1. L \in Nat /\ \A i \in 1..L : s[i] \in Nat OBVIOUS
  <1>2. u \in [0..L -> Nat] /\ u[0] = 0 /\ \A i \in 1..L : u[i] = r * u[i - 1] + s[i]
    BY UpperValues
  <1>3. /\ w \in [0..L -> Nat] /\ w[0] = 0
        /\ \A i \in 1..L : w[i] = w[i - 1] + s[L - i + 1] * p[i - 1]
    BY LowerValues
  <1>4. p \in [Nat -> Nat] /\ p[0] = 1 /\ \A i \in Nat : p[i + 1] = r * p[i] BY PowersValues
  <1>5. Number(s, r) = u[L] BY DEF Number
  <1> HIDE DEF u, w, p, L
  <1>6. 0 \in T
    <2>1. p[L] \in Nat /\ w[L] \in Nat /\ L - 0 = L /\ 0 \in 0..L BY <1>1, <1>3, <1>4
    <2> QED BY <1>2, <2>1
  <1>7. ASSUME NEW i \in 1..L, i - 1 \in T PROVE i \in T
    <2> DEFINE k == L - i
    <2>1. k \in Nat /\ k + 1 = L - (i - 1) /\ k + 1 \in 1..L /\ (k + 1) - 1 = k /\ L - (k + 1) + 1 = i
          /\ i - 1 \in 0..L /\ k \in 0..L /\ i \in 0..L
      BY <1>1
    <2>2. u[i - 1] * p[k + 1] + w[k + 1] = w[L] BY <1>7, <2>1
    <2>3. p[k + 1] = r * p[k] BY <2>1, <1>4
    <2>4. w[k + 1] = w[k] + s[i] * p[k]
      <3>1. w[k + 1] = w[(k + 1) - 1] + s[L - (k + 1) + 1] * p[(k + 1) - 1] BY <2>1, <1>3
      <3> QED BY <3>1, <2>1
    <2>5. u[i] = r * u[i - 1] + s[i] BY <1>2
    <2>6. u[i - 1] \in Nat /\ p[k] \in Nat /\ w[k] \in Nat /\ s[i] \in Nat
      BY <2>1, <1>1, <1>2, <1>3, <1>4
    <2> DEFINE a == u[i - 1]
               q == p[k]
               x == s[i]
    <2>7. (r * a + x) * q = a * (r * q) + x * q
      <3> HIDE DEF a, q, x
      <3> SUFFICES ASSUME a \in Nat, q \in Nat, x \in Nat PROVE (r * a + x) * q = a * (r * q) + x * q
        BY <2>6 DEF a, q, x
      <3> QED OBVIOUS
    <2>8. a * (r * q) \in Nat /\ x * q \in Nat
      <3> HIDE DEF a, q, x
      <3>1. a \in Nat /\ q \in Nat /\ x \in Nat BY <2>6 DEF a, q, x
      <3>2. r * q \in Nat BY <3>1
      <3> QED BY <3>1, <3>2
    <2>9. u[i] * p[k] + w[k] = w[L]
      <3> DEFINE y == a * (r * q)
                 z == x * q
      <3>1. u[i] * p[k] = y + z BY <2>5, <2>7
      <3>2. y + (w[k] + z) = w[L] BY <2>2, <2>3, <2>4
      <3>3. y \in Nat /\ z \in Nat BY <2>8
      <3> HIDE DEF y, z
      <3> QED BY <3>1, <3>2, <3>3, <2>6
    <2> QED BY <2>1, <2>9
  <1>8. 0..L \subseteq T
    <2> HIDE DEF T
    <2> QED BY <1>1, <1>6, <1>7, Induction
  <1>9. u[L] * p[L - L] + w[L - L] = w[L] BY <1>1, <1>8
  <1>10. L - L = 0 /\ u[L] \in Nat BY <1>1, <1>2
  <1>11. p[L - L] = 1 /\ w[L - L] = 0 BY <1>3, <1>4, <1>10
  <1>12. u[L] = w[L] BY <1>9, <1>10, <1>11
  <1> QED BY <1>5, <1>12 DEF w, L

(* So many digits of a radix write a number below its power; what the first    *)
(* ones write is no more than what all of them do.                             *)
LEMMA NumberBelowPower ==
    ASSUME NEW r \in Nat, NEW s \in Seq(Digit(r))
    PROVE  /\ \A i \in 0..Len(s) : Upper(s, r)[i] < Powers(r)[i]
           /\ Number(s, r) < Powers(r)[Len(s)] /\ Number(s, r) \in Nat
  <1> DEFINE L == Len(s)
             u == Upper(s, r)
             p == Powers(r)
             T == {i \in 0..L : u[i] < p[i]}
  <1>1. L \in Nat /\ (\A i \in 1..L : s[i] \in Nat /\ s[i] <= r - 1) /\ s \in Seq(Nat)
    <2>1. Digit(r) \subseteq Nat BY DEF Digit
    <2>2. s \in Seq(Nat) BY <2>1, SeqMonotonic
    <2>3. \A i \in 1..L : s[i] \in Digit(r) OBVIOUS
    <2> QED BY <2>2, <2>3 DEF Digit
  <1>2. u \in [0..L -> Nat] /\ u[0] = 0 /\ \A i \in 1..L : u[i] = r * u[i - 1] + s[i]
    BY <1>1, UpperValues
  <1>3. p \in [Nat -> Nat] /\ p[0] = 1 /\ \A i \in Nat : p[i + 1] = r * p[i] BY PowersValues
  <1>4. Number(s, r) = u[L] BY DEF Number
  <1> HIDE DEF L, u, p
  <1>5. 0 \in T BY <1>1, <1>2, <1>3
  <1>6. ASSUME NEW i \in 1..L, i - 1 \in T PROVE i \in T
    <2>1. i - 1 \in 0..L /\ i - 1 \in Nat /\ i \in 0..L /\ (i - 1) + 1 = i BY <1>1
    <2> DEFINE a == u[i - 1]
               q == p[i - 1]
    <2>2. a \in Nat /\ q \in Nat /\ a < q BY <1>2, <1>3, <1>6, <2>1
    <2>3. u[i] = r * a + s[i] BY <1>2
    <2>4. p[i] = r * q BY <1>3, <2>1
    <2>5. s[i] \in Nat /\ s[i] <= r - 1 BY <1>1
    <2> HIDE DEF a, q
    <2>6. r * a <= r * (q - 1) /\ r * (q - 1) = r * q - r /\ r * a \in Nat /\ r * q \in Nat
      BY <2>2
    <2>7. r * a + s[i] < r * q BY <2>5, <2>6
    <2> QED BY <2>1, <2>3, <2>4, <2>7
  <1>7. 0..L \subseteq T
    <2> HIDE DEF T
    <2> QED BY <1>1, <1>5, <1>6, Induction
  <1>8. L \in 0..L BY <1>1
  <1>9. Number(s, r) < p[L] /\ Number(s, r) \in Nat BY <1>2, <1>4, <1>7, <1>8
  <1> QED BY <1>7, <1>9 DEF L, u, p

LEMMA UpperRises ==
    ASSUME NEW r \in Nat, r > 0, NEW s \in Seq(Nat), NEW k \in 0..Len(s)
    PROVE  Upper(s, r)[k] <= Number(s, r)
  <1> DEFINE L == Len(s)
             u == Upper(s, r)
             T == {i \in 0..(L - k) : u[k] <= u[k + i]}
  <1>1. L \in Nat /\ k \in 0..L /\ \A i \in 1..L : s[i] \in Nat OBVIOUS
  <1>2. u \in [0..L -> Nat] /\ \A i \in 1..L : u[i] = r * u[i - 1] + s[i] BY UpperValues
  <1>3. Number(s, r) = u[L] BY DEF Number
  <1> HIDE DEF L, u
  <1>4. 0 \in T BY <1>1, <1>2
  <1>5. ASSUME NEW i \in 1..(L - k), i - 1 \in T PROVE i \in T
    <2>1. k + i \in 1..L /\ (k + i) - 1 = k + (i - 1) /\ k + (i - 1) \in 0..L /\ i \in 0..(L - k)
      BY <1>1
    <2> DEFINE a == u[k + (i - 1)]
               x == s[k + i]
               c == u[k]
               e == u[k + i]
    <2>2. e = r * a + x BY <1>2, <2>1
    <2>3. a \in Nat /\ x \in Nat /\ c \in Nat /\ c <= a BY <1>1, <1>2, <1>5, <2>1
    <2> HIDE DEF a, x, c, e
    <2>4. r * a >= a /\ r * a \in Nat BY <2>3
    <2>5. c <= e BY <2>2, <2>3, <2>4
    <2> QED BY <2>1, <2>5 DEF c, e
  <1>6. 0..(L - k) \subseteq T
    <2>1. L - k \in Nat BY <1>1
    <2> HIDE DEF T
    <2> QED BY <1>4, <1>5, <2>1, Induction
  <1>7. L - k \in 0..(L - k) /\ k + (L - k) = L BY <1>1
  <1> QED BY <1>3, <1>6, <1>7 DEF L, u

(* A digit in front of others. *)
LEMMA PrependedNumber ==
    ASSUME NEW r \in Nat, NEW d \in Nat, NEW s \in Seq(Nat)
    PROVE  /\ <<d>> \o s \in Seq(Nat) /\ Len(<<d>> \o s) = Len(s) + 1
           /\ Number(<<d>> \o s, r) = d * Powers(r)[Len(s)] + Number(s, r)
  <1> DEFINE t == <<d>> \o s
             L == Len(s)
             w == Lower(s, r)
             v == Lower(t, r)
             p == Powers(r)
             T == {i \in 0..L : v[i] = w[i]}
  <1>1. /\ t \in Seq(Nat) /\ Len(t) = L + 1 /\ t[1] = d /\ L \in Nat
        /\ \A i \in 1..L : t[i + 1] = s[i] /\ s[i] \in Nat
    OBVIOUS
  <1>2. /\ w \in [0..L -> Nat] /\ w[0] = 0
        /\ \A i \in 1..L : w[i] = w[i - 1] + s[L - i + 1] * p[i - 1]
    BY LowerValues
  <1>3. /\ v \in [0..(L + 1) -> Nat] /\ v[0] = 0
        /\ \A i \in 1..(L + 1) : v[i] = v[i - 1] + t[(L + 1) - i + 1] * p[i - 1]
    <2> HIDE DEF t
    <2>1. /\ Lower(t, r) \in [0..Len(t) -> Nat] /\ Lower(t, r)[0] = 0
          /\ \A i \in 1..Len(t) :
                Lower(t, r)[i] = Lower(t, r)[i - 1] + t[Len(t) - i + 1] * Powers(r)[i - 1]
      BY <1>1, LowerValues
    <2> HIDE DEF L
    <2>2. Len(t) = L + 1 BY <1>1
    <2> QED BY <2>1, <2>2
  <1>4. Number(s, r) = w[L] /\ Number(t, r) = v[L + 1]
    <2> HIDE DEF t
    <2> QED BY <1>1, UpperIsLower
  <1> HIDE DEF t, L, w, v
  <1>5. 0 \in T BY <1>1, <1>2, <1>3
  <1>6. ASSUME NEW i \in 1..L, i - 1 \in T PROVE i \in T
    <2>1. i \in 1..(L + 1) /\ L - i + 1 \in 1..L /\ (L + 1) - i + 1 = (L - i + 1) + 1 /\ i \in 0..L
      BY <1>1
    <2>2. t[(L + 1) - i + 1] = s[L - i + 1] BY <1>1, <2>1
    <2> QED BY <1>2, <1>3, <1>6, <2>1, <2>2
  <1>7. 0..L \subseteq T
    <2> HIDE DEF T
    <2> QED BY <1>1, <1>5, <1>6, Induction
  <1>8. L + 1 \in 1..(L + 1) /\ (L + 1) - (L + 1) + 1 = 1 /\ (L + 1) - 1 = L /\ L \in 0..L BY <1>1
  <1>9. v[L + 1] = v[L] + d * p[L]
    <2>1. v[L + 1] = v[(L + 1) - 1] + t[(L + 1) - (L + 1) + 1] * p[(L + 1) - 1] BY <1>3, <1>8
    <2> QED BY <1>1, <1>8, <2>1
  <1>10. v[L] = w[L] /\ w[L] \in Nat BY <1>2, <1>7, <1>8
  <1>11. d * p[L] \in Nat
    <2>1. p[L] \in Nat BY <1>1, PowersValues
    <2> QED BY <2>1
  <1>12. Number(t, r) = d * p[L] + Number(s, r) BY <1>4, <1>9, <1>10, <1>11
  <1> QED BY <1>1, <1>12 DEF t, L

-----------------------------------------------------------------------------
(* One pass over the digits of a number. *)
Carried(r) == [carry : Nat, digits : Seq(Digit(r))]

(* What the pass makes of one more digit. *)
Carry(v, x, base, r) ==
    [carry |-> (v.carry + base * x) \div r, digits |-> <<(v.carry + base * x) % r>> \o v.digits]

LEMMA CarryTyped ==
    ASSUME NEW r \in Nat, r > 0, NEW base \in Nat, NEW v \in Carried(r), NEW x \in Nat
    PROVE  Carry(v, x, base, r) \in Carried(r)
  <1> DEFINE sum == v.carry + base * x
  <1>1. v.carry \in Nat /\ v.digits \in Seq(Digit(r)) BY DEF Carried
  <1>2. sum \in Nat
    <2>1. base * x \in Nat OBVIOUS
    <2> QED BY <1>1, <2>1
  <1>3. Carry(v, x, base, r) = [carry |-> sum \div r, digits |-> <<sum % r>> \o v.digits]
    BY DEF Carry
  <1> HIDE DEF sum
  <1>4. sum \div r \in Nat /\ sum % r \in Digit(r) BY <1>2 DEF Digit
  <1>5. <<sum % r>> \o v.digits \in Seq(Digit(r)) BY <1>1, <1>4
  <1> QED BY <1>3, <1>4, <1>5 DEF Carried

(* The passes of MultiplyAdd over i digits. *)
Passes(f, buffer, base, r, digit) ==
    /\ f \in [0..Len(buffer) -> Carried(r)]
    /\ f[0] = [carry |-> digit, digits |-> <<>>]
    /\ \A i \in 1..Len(buffer) : f[i] = Carry(f[i - 1], buffer[Len(buffer) - i + 1], base, r)

LEMMA MultiplyAddPasses ==
    ASSUME NEW r \in Nat, r > 0, NEW base \in Nat, NEW buffer \in Seq(Nat), NEW digit \in Nat
    PROVE  \E f : /\ Passes(f, buffer, base, r, digit)
                  /\ MultiplyAdd(buffer, base, r, digit) = f[Len(buffer)].digits
  <1> DEFINE size == Len(buffer)
             first == [carry |-> digit, digits |-> <<>>]
             S == Carried(r)
             Body(g, i) ==
                 IF i = 0 THEN [carry |-> digit, digits |-> <<>>]
                 ELSE LET before == g[i - 1]
                          sum    == before.carry + base * buffer[size - i + 1]
                      IN  [carry |-> sum \div r, digits |-> <<sum % r>> \o before.digits]
             step == CHOOSE g : g = [i \in 0..size |-> Body(g, i)]
  <1>0. size \in Nat /\ \A i \in 1..size : size - i + 1 \in 1..size /\ buffer[size - i + 1] \in Nat
    OBVIOUS
  <1>1. MultiplyAdd(buffer, base, r, digit) = step[size].digits BY DEF MultiplyAdd
  <1> HIDE DEF size
  <1>2. first \in S BY DEF Carried
  <1>3. PICK F \in [1..size -> [S -> S]] :
            \A i \in 1..size, v \in S : F[i][v] = Carry(v, buffer[size - i + 1], base, r)
    <2> DEFINE F == [i \in 1..size |-> [v \in S |-> Carry(v, buffer[size - i + 1], base, r)]]
    <2>1. \A v \in S, i \in 1..size : Carry(v, buffer[size - i + 1], base, r) \in S
      <3> HIDE DEF S
      <3> TAKE v \in S, i \in 1..size
      <3>1. buffer[size - i + 1] \in Nat BY <1>0
      <3> QED BY <3>1, CarryTyped DEF S
    <2> HIDE DEF S
    <2>2. F \in [1..size -> [S -> S]] BY <2>1
    <2>3. \A i \in 1..size, v \in S : F[i][v] = Carry(v, buffer[size - i + 1], base, r) OBVIOUS
    <2> QED BY <2>2, <2>3
  <1> HIDE DEF S
  <1>4. PICK f \in [0..size -> S] : f[0] = first /\ \A i \in 1..size : f[i] = F[i][f[i - 1]]
    <2>1. Defined(size, S, first, F) BY <1>0, <1>2, Recursion
    <2> QED BY <2>1 DEF Defined
  <1>5. \A i \in 1..size : f[i] = Carry(f[i - 1], buffer[size - i + 1], base, r)
    <2> TAKE i \in 1..size
    <2>1. f[i - 1] \in S BY <1>0
    <2> QED BY <1>3, <1>4, <2>1
  <1>6. f = [i \in 0..size |-> Body(f, i)]
    <2>1. ASSUME NEW i \in 0..size PROVE f[i] = Body(f, i)
      <3>1. CASE i = 0 BY <3>1, <1>4
      <3>2. CASE i \in 1..size
        <4>1. i # 0 BY <3>2
        <4> QED BY <3>2, <4>1, <1>5 DEF Carry
      <3> QED BY <3>1, <3>2, <1>0
    <2> HIDE DEF Body
    <2> QED BY <2>1
  <1>7. step = [i \in 0..size |-> Body(step, i)]
    <2> HIDE DEF Body
    <2> QED BY <1>6
  <1>8. step[0] = first /\ \A i \in 1..size : step[i] = Carry(step[i - 1], buffer[size - i + 1], base, r)
    <2> HIDE DEF step
    <2>1. step[0] = Body(step, 0) /\ \A i \in 1..size : step[i] = Body(step, i)
      <3> HIDE DEF Body
      <3>1. 0 \in 0..size /\ 1..size \subseteq 0..size BY <1>0
      <3>2. \A i \in 0..size : step[i] = Body(step, i) BY <1>7
      <3> QED BY <3>1, <3>2
    <2>2. \A i \in 1..size : i # 0 BY <1>0
    <2> QED BY <2>1, <2>2 DEF Carry
  <1> HIDE DEF step, Body
  <1>9. \A i \in 0..size : step[i] = f[i]
    <2> DEFINE T == {i \in 0..size : step[i] = f[i]}
    <2>1. 0 \in T BY <1>0, <1>4, <1>8
    <2>2. \A i \in 1..size : i - 1 \in T => i \in T BY <1>0, <1>5, <1>8
    <2>3. 0..size \subseteq T
      <3> HIDE DEF T
      <3> QED BY <1>0, <2>1, <2>2, Induction
    <2> QED BY <2>3
  <1>10. step[size] = f[size] BY <1>0, <1>9
  <1>11. Passes(f, buffer, base, r, digit) BY <1>4, <1>5 DEF Passes, size, S
  <1>12. MultiplyAdd(buffer, base, r, digit) = f[size].digits BY <1>1, <1>10
  <1> QED BY <1>11, <1>12 DEF size

-----------------------------------------------------------------------------
(* buffer * base + digit, as a number. *)
LEMMA DigitsAreNumbers == ASSUME NEW r \in Nat, NEW s \in Seq(Digit(r)) PROVE s \in Seq(Nat)
  <1>1. Digit(r) \subseteq Nat BY DEF Digit
  <1> QED BY <1>1, SeqMonotonic

LEMMA DigitAndCarry ==
    ASSUME NEW r \in Nat, r > 0, NEW c \in Nat, NEW base \in Nat, NEW x \in Nat, NEW p \in Nat,
           NEW n \in Nat, NEW y \in Nat, c * p + n = y
    PROVE  ((c + base * x) \div r) * (r * p) + (((c + base * x) % r) * p + n) = y + base * (x * p)
  <1> DEFINE bx == base * x
             sum == c + bx
             q == sum \div r
             m == sum % r
  <1>1. bx \in Nat OBVIOUS
  <1>2. base * (x * p) = bx * p OBVIOUS
  <1> HIDE DEF bx
  <1>3. sum \in Nat BY <1>1
  <1>4. sum * p = c * p + bx * p BY <1>1
  <1> HIDE DEF sum
  <1>5. sum = r * q + m /\ q \in Nat /\ m \in Nat BY <1>3
  <1> HIDE DEF q, m
  <1>6. q * (r * p) = (r * q) * p /\ (r * q + m) * p = (r * q) * p + m * p BY <1>5
  <1>7. q * (r * p) + m * p = sum * p BY <1>5, <1>6
  <1> DEFINE cp == c * p
             bp == bx * p
             qp == q * (r * p)
             mp == m * p
  <1>8. cp \in Nat /\ bp \in Nat /\ qp \in Nat /\ mp \in Nat
    <2>1. r * p \in Nat OBVIOUS
    <2> QED BY <1>1, <1>5, <2>1
  <1>9. qp + mp = cp + bp /\ cp + n = y BY <1>4, <1>7
  <1>10. qp + (mp + n) = y + bp
    <2> HIDE DEF cp, bp, qp, mp
    <2> QED BY <1>8, <1>9
  <1> QED BY <1>2, <1>10 DEF q, m, sum, bx

(* buffer * base + digit, but for what is carried out of the first digit. *)
LEMMA MultiplyAddValue ==
    ASSUME NEW r \in Nat, r > 0, NEW base \in Nat, NEW buffer \in Seq(Nat), NEW digit \in Nat
    PROVE  LET size == Len(buffer)
               result == MultiplyAdd(buffer, base, r, digit)
           IN  /\ result \in Seq(Digit(r)) /\ Len(result) = size
               /\ \E carry \in Nat :
                     carry * Powers(r)[size] + Number(result, r)
                        = digit + base * Number(buffer, r)
  <1> DEFINE size == Len(buffer)
             w == Lower(buffer, r)
             p == Powers(r)
  <1>1. PICK f : /\ Passes(f, buffer, base, r, digit)
                 /\ MultiplyAdd(buffer, base, r, digit) = f[size].digits
    BY MultiplyAddPasses
  <1>2. /\ f \in [0..size -> Carried(r)] /\ f[0] = [carry |-> digit, digits |-> <<>>]
        /\ \A i \in 1..size : f[i] = Carry(f[i - 1], buffer[size - i + 1], base, r)
    BY <1>1 DEF Passes
  <1>3. /\ w \in [0..size -> Nat] /\ w[0] = 0
        /\ \A i \in 1..size : w[i] = w[i - 1] + buffer[size - i + 1] * p[i - 1]
    BY LowerValues
  <1>4. p \in [Nat -> Nat] /\ p[0] = 1 /\ \A i \in Nat : p[i + 1] = r * p[i] BY PowersValues
  <1>5. size \in Nat /\ \A i \in 1..size : size - i + 1 \in 1..size /\ buffer[size - i + 1] \in Nat
    OBVIOUS
  <1>6. Number(buffer, r) = w[size] BY UpperIsLower
  <1> HIDE DEF size, w, p
  <1> DEFINE T == {i \in 0..size : /\ Len(f[i].digits) = i
                                   /\ f[i].carry * p[i] + Number(f[i].digits, r)
                                         = digit + base * w[i]}
  <1>7. \A i \in 0..size : f[i].carry \in Nat /\ f[i].digits \in Seq(Digit(r))
    BY <1>2 DEF Carried
  <1>8. 0 \in T
    <2>1. f[0].digits = <<>> /\ f[0].carry = digit /\ 0 \in 0..size BY <1>2, <1>5
    <2>2. Number(<<>>, r) = 0
      <3>1. <<>> \in Seq(Nat) /\ Len(<<>>) = 0 OBVIOUS
      <3> QED BY <3>1, UpperValues DEF Number
    <2>3. digit * 1 + 0 = digit + base * 0 OBVIOUS
    <2> QED BY <2>1, <2>2, <2>3, <1>3, <1>4
  <1>9. ASSUME NEW i \in 1..size, i - 1 \in T PROVE i \in T
    <2> DEFINE c == f[i - 1].carry
               d == f[i - 1].digits
               x == buffer[size - i + 1]
               q == p[i - 1]
               n == Number(d, r)
               y == digit + base * w[i - 1]
               m == (c + base * x) % r
    <2>1. i - 1 \in 0..size /\ i \in 0..size /\ i - 1 \in Nat /\ (i - 1) + 1 = i BY <1>5
    <2>2. c \in Nat /\ d \in Seq(Digit(r)) BY <1>7, <2>1
    <2>3. x \in Nat /\ q \in Nat /\ p[i] = r * q BY <1>4, <1>5, <2>1
    <2>4. w[i - 1] \in Nat /\ w[i] = w[i - 1] + x * q BY <1>3, <2>1
    <2>5. f[i].carry = (c + base * x) \div r /\ f[i].digits = <<m>> \o d
      <3> DEFINE v == f[i - 1]
      <3>1. f[i] = Carry(v, x, base, r) BY <1>2
      <3> HIDE DEF v, x
      <3>2. /\ Carry(v, x, base, r).carry = (v.carry + base * x) \div r
            /\ Carry(v, x, base, r).digits = <<(v.carry + base * x) % r>> \o v.digits
        BY DEF Carry
      <3> QED BY <3>1, <3>2 DEF v
    <2>6. Len(d) = i - 1 /\ c * q + n = y BY <1>9
    <2> HIDE DEF c, d, x, q
    <2>7. base * x \in Nat BY <2>3
    <2>8. m \in Nat BY <2>2, <2>7
    <2> HIDE DEF m
    <2>9. d \in Seq(Nat) /\ n \in Nat BY <2>2, DigitsAreNumbers, NumberBelowPower
    <2>10. Len(<<m>> \o d) = i /\ Number(<<m>> \o d, r) = m * q + n
      <3>1. Len(<<m>> \o d) = Len(d) + 1 /\ Number(<<m>> \o d, r) = m * p[Len(d)] + n
        BY <2>8, <2>9, PrependedNumber DEF p
      <3>2. p[Len(d)] = q BY <2>6 DEF q
      <3> QED BY <2>1, <2>6, <3>1, <3>2
    <2>11. y \in Nat
      <3>1. base * w[i - 1] \in Nat BY <2>4
      <3> QED BY <3>1
    <2> HIDE DEF n
    <2>12. ((c + base * x) \div r) * (r * q) + (m * q + n) = y + base * (x * q)
      <3> HIDE DEF y
      <3>1. c \in Nat /\ x \in Nat /\ q \in Nat /\ n \in Nat /\ y \in Nat /\ c * q + n = y
        BY <2>2, <2>3, <2>6, <2>9, <2>11
      <3>2. ((c + base * x) \div r) * (r * q) + (((c + base * x) % r) * q + n)
              = y + base * (x * q)
        BY <3>1, DigitAndCarry
      <3> QED BY <3>2 DEF m
    <2>13. y + base * (x * q) = digit + base * w[i]
      <3> DEFINE a == w[i - 1]
                 b == x * q
      <3>1. a \in Nat /\ b \in Nat BY <2>3, <2>4
      <3>2. w[i] = a + b BY <2>4
      <3> HIDE DEF a, b
      <3>3. base * (a + b) = base * a + base * b /\ base * a \in Nat /\ base * b \in Nat BY <3>1
      <3>4. (digit + base * a) + base * b = digit + base * (a + b) BY <3>3
      <3> QED BY <3>2, <3>4 DEF a, b
    <2> QED BY <2>1, <2>3, <2>5, <2>10, <2>12, <2>13
  <1>10. 0..size \subseteq T
    <2> HIDE DEF T
    <2> QED BY <1>5, <1>8, <1>9, Induction
  <1>11. size \in 0..size BY <1>5
  <1>12. /\ Len(f[size].digits) = size
         /\ f[size].carry * p[size] + Number(f[size].digits, r) = digit + base * w[size]
    BY <1>10, <1>11
  <1>13. f[size].carry \in Nat /\ f[size].digits \in Seq(Digit(r)) BY <1>7, <1>11
  <1> QED BY <1>1, <1>6, <1>12, <1>13 DEF size, p

-----------------------------------------------------------------------------
(* A number in another radix. *)
LEMMA ZerosTyped == ASSUME NEW n \in Nat PROVE ZeroDigits(n) \in Seq({0}) /\ Len(ZeroDigits(n)) = n
  BY DEF ZeroDigits

LEMMA ZerosNumber ==
    ASSUME NEW n \in Nat, NEW r \in Nat PROVE Number(ZeroDigits(n), r) = 0
  <1> DEFINE z == ZeroDigits(n)
             u == Upper(z, r)
             T == {i \in 0..n : u[i] = 0}
  <1>1. z \in Seq({0}) /\ Len(z) = n /\ \A i \in 1..n : z[i] = 0 BY ZerosTyped DEF ZeroDigits
  <1> HIDE DEF z
  <1>2. z \in Seq(Nat)
    <2>1. {0} \subseteq Nat OBVIOUS
    <2> QED BY <1>1, <2>1, SeqMonotonic
  <1>3. u \in [0..n -> Nat] /\ u[0] = 0 /\ \A i \in 1..n : u[i] = r * u[i - 1] + z[i]
    <2>1. /\ u \in [0..Len(z) -> Nat] /\ u[0] = 0
          /\ \A i \in 1..Len(z) : u[i] = r * u[i - 1] + z[i]
      BY <1>2, UpperValues
    <2> QED BY <1>1, <2>1
  <1>4. Number(z, r) = u[n] BY <1>1 DEF Number
  <1> HIDE DEF u
  <1>5. 0 \in T BY <1>3
  <1>6. \A i \in 1..n : i - 1 \in T => i \in T
    <2>1. r * 0 + 0 = 0 OBVIOUS
    <2> QED BY <1>1, <1>3, <2>1
  <1>7. 0..n \subseteq T
    <2> HIDE DEF T
    <2> QED BY <1>5, <1>6, Induction
  <1> QED BY <1>4, <1>7 DEF z

(* The buffers of Rebased, one for each digit of s that is taken in. *)
Buffers(g, s, base, r, size) ==
    /\ g[0] = ZeroDigits(size)
    /\ \A i \in 1..Len(s) : g[i] = MultiplyAdd(g[i - 1], base, r, s[i])
    /\ \A i \in 0..Len(s) : g[i] \in Seq(Digit(r)) /\ Len(g[i]) = size

LEMMA RebasedBuffers ==
    ASSUME NEW base \in Nat, NEW r \in Nat, r > 0, NEW s \in Seq(Nat), NEW size \in Nat
    PROVE  \E g : Buffers(g, s, base, r, size) /\ Rebased(s, base, r, size) = g[Len(s)]
  <1> DEFINE L == Len(s)
             B == {b \in Seq(Digit(r)) : Len(b) = size}
             Body(g, i) == IF i = 0 THEN [j \in 1..size |-> 0]
                           ELSE MultiplyAdd(g[i - 1], base, r, s[i])
             buffer == CHOOSE g : g = [i \in 0..L |-> Body(g, i)]
  <1>0. L \in Nat /\ \A i \in 1..L : s[i] \in Nat /\ i # 0 /\ i \in 0..L OBVIOUS
  <1>1. Rebased(s, base, r, size) = buffer[L] BY DEF Rebased
  <1> HIDE DEF L
  <1>2. ZeroDigits(size) \in B
    <2>1. {0} \subseteq Digit(r) BY DEF Digit
    <2> QED BY <2>1, ZerosTyped, SeqMonotonic
  <1>3. \A b \in B, x \in Nat : MultiplyAdd(b, base, r, x) \in B
    <2> TAKE b \in B, x \in Nat
    <2>1. b \in Seq(Nat) /\ Len(b) = size BY DigitsAreNumbers
    <2> QED BY <2>1, MultiplyAddValue
  <1> HIDE DEF B
  <1>4. PICK F \in [1..L -> [B -> B]] :
            \A i \in 1..L, b \in B : F[i][b] = MultiplyAdd(b, base, r, s[i])
    <2> DEFINE F == [i \in 1..L |-> [b \in B |-> MultiplyAdd(b, base, r, s[i])]]
    <2>1. \A b \in B, i \in 1..L : MultiplyAdd(b, base, r, s[i]) \in B BY <1>0, <1>3
    <2>2. F \in [1..L -> [B -> B]] BY <2>1
    <2>3. \A i \in 1..L, b \in B : F[i][b] = MultiplyAdd(b, base, r, s[i]) OBVIOUS
    <2> QED BY <2>2, <2>3
  <1>5. PICK f \in [0..L -> B] : f[0] = ZeroDigits(size) /\ \A i \in 1..L : f[i] = F[i][f[i - 1]]
    <2>1. Defined(L, B, ZeroDigits(size), F) BY <1>0, <1>2, Recursion
    <2> QED BY <2>1 DEF Defined
  <1>6. \A i \in 1..L : f[i] = MultiplyAdd(f[i - 1], base, r, s[i])
    <2> TAKE i \in 1..L
    <2>1. f[i - 1] \in B BY <1>0
    <2> QED BY <1>4, <1>5, <2>1
  <1>7. f = [i \in 0..L |-> Body(f, i)]
    <2>1. ASSUME NEW i \in 0..L PROVE f[i] = Body(f, i)
      <3>1. CASE i = 0 BY <3>1, <1>5 DEF ZeroDigits
      <3>2. CASE i \in 1..L BY <3>2, <1>0, <1>6
      <3> QED BY <3>1, <3>2, <1>0
    <2> HIDE DEF Body
    <2> QED BY <2>1
  <1>8. buffer = [i \in 0..L |-> Body(buffer, i)]
    <2> HIDE DEF Body
    <2> QED BY <1>7
  <1> HIDE DEF buffer
  <1>9. \A i \in 0..L : buffer[i] = Body(buffer, i)
    <2> HIDE DEF Body
    <2> QED BY <1>8
  <1>10. buffer[0] = ZeroDigits(size)
    <2>1. 0 \in 0..L BY <1>0
    <2>2. Body(buffer, 0) = ZeroDigits(size) BY DEF ZeroDigits
    <2> HIDE DEF Body
    <2> QED BY <1>9, <2>1, <2>2
  <1>11. \A i \in 1..L : buffer[i] = MultiplyAdd(buffer[i - 1], base, r, s[i]) BY <1>0, <1>9
  <1> HIDE DEF Body
  <1> DEFINE T == {i \in 0..L : buffer[i] \in B}
  <1>12. 0 \in T BY <1>0, <1>2, <1>10
  <1>13. \A i \in 1..L : i - 1 \in T => i \in T BY <1>0, <1>3, <1>11
  <1>14. 0..L \subseteq T
    <2> HIDE DEF T
    <2> QED BY <1>0, <1>12, <1>13, Induction
  <1>15. \A i \in 0..L : buffer[i] \in Seq(Digit(r)) /\ Len(buffer[i]) = size BY <1>14 DEF B
  <1>16. Buffers(buffer, s, base, r, size) BY <1>10, <1>11, <1>15 DEF Buffers, L
  <1> QED BY <1>1, <1>16 DEF L

LEMMA RebasedTyped ==
    ASSUME NEW base \in Nat, NEW r \in Nat, r > 0, NEW s \in Seq(Nat), NEW size \in Nat
    PROVE  Rebased(s, base, r, size) \in Seq(Digit(r)) /\ Len(Rebased(s, base, r, size)) = size
  <1>1. PICK g : Buffers(g, s, base, r, size) /\ Rebased(s, base, r, size) = g[Len(s)]
    BY RebasedBuffers
  <1>2. Len(s) \in 0..Len(s) OBVIOUS
  <1> QED BY <1>1, <1>2 DEF Buffers

(* A carry would make a number that does not fit. *)
LEMMA NoCarry ==
    ASSUME NEW c \in Nat, NEW p \in Nat, NEW n \in Nat, NEW y \in Nat, c * p + n = y, y < p
    PROVE  n = y
  <1>1. CASE c = 0
    <2>1. 0 * p + n = n OBVIOUS
    <2> QED BY <1>1, <2>1
  <1>2. CASE c > 0
    <2>1. c * p >= p /\ c * p \in Nat BY <1>2
    <2> QED BY <2>1
  <1> QED BY <1>1, <1>2

(* The number is the same, if the digits are enough for it. *)
LEMMA RebasedNumber ==
    ASSUME NEW base \in Nat, base > 0, NEW r \in Nat, r > 0, NEW s \in Seq(Digit(base)),
           NEW size \in Nat, Powers(base)[Len(s)] <= Powers(r)[size]
    PROVE  Number(Rebased(s, base, r, size), r) = Number(s, base)
  <1> DEFINE L == Len(s)
             u == Upper(s, base)
             p == Powers(r)[size]
  <1>0. L \in Nat /\ s \in Seq(Nat) /\ \A i \in 1..L : s[i] \in Nat
    <2>1. s \in Seq(Nat) BY DigitsAreNumbers
    <2> QED BY <2>1
  <1>1. PICK g : Buffers(g, s, base, r, size) /\ Rebased(s, base, r, size) = g[L]
    BY <1>0, RebasedBuffers
  <1>2. /\ g[0] = ZeroDigits(size)
        /\ \A i \in 1..L : g[i] = MultiplyAdd(g[i - 1], base, r, s[i])
        /\ \A i \in 0..L : g[i] \in Seq(Digit(r)) /\ Len(g[i]) = size
    BY <1>1 DEF Buffers
  <1>3. u \in [0..L -> Nat] /\ u[0] = 0 /\ \A i \in 1..L : u[i] = base * u[i - 1] + s[i]
    BY <1>0, UpperValues
  <1>4. \A i \in 0..L : u[i] < p
    <2> TAKE i \in 0..L
    <2>1. u[i] <= Number(s, base) BY <1>0, UpperRises
    <2>2. Number(s, base) < Powers(base)[L] /\ Number(s, base) \in Nat BY NumberBelowPower
    <2>3. Powers(base)[L] \in Nat /\ p \in Nat BY <1>0, PowersValues
    <2>4. Powers(base)[L] <= p OBVIOUS
    <2>5. u[i] \in Nat BY <1>3
    <2> HIDE DEF u, L, p
    <2> QED BY <2>1, <2>2, <2>3, <2>4, <2>5
  <1>5. Number(s, base) = u[L] BY DEF Number
  <1>6. p \in Nat BY PowersValues
  <1> HIDE DEF L, u, p
  <1> DEFINE T == {i \in 0..L : Number(g[i], r) = u[i]}
  <1>7. 0 \in T BY <1>0, <1>2, <1>3, ZerosNumber
  <1>8. ASSUME NEW i \in 1..L, i - 1 \in T PROVE i \in T
    <2> DEFINE b == g[i - 1]
               x == s[i]
               a == u[i - 1]
               e == MultiplyAdd(b, base, r, x)
    <2>1. i - 1 \in 0..L /\ i \in 0..L BY <1>0
    <2>2. b \in Seq(Digit(r)) /\ Len(b) = size /\ x \in Nat /\ Number(b, r) = a /\ a \in Nat
      BY <1>0, <1>2, <1>3, <1>8, <2>1
    <2>3. u[i] = base * a + x /\ u[i] < p /\ g[i] = e BY <1>2, <1>3, <1>4, <2>1
    <2> HIDE DEF b, x, a
    <2>4. b \in Seq(Nat) BY <2>2, DigitsAreNumbers
    <2>5. /\ e \in Seq(Digit(r))
          /\ \E carry \in Nat : carry * Powers(r)[Len(b)] + Number(e, r) = x + base * Number(b, r)
      BY <2>2, <2>4, MultiplyAddValue
    <2>6. PICK carry \in Nat : carry * p + Number(e, r) = x + base * a BY <2>2, <2>5 DEF p
    <2>7. Number(e, r) \in Nat BY <2>5, NumberBelowPower
    <2>8. base * a \in Nat BY <2>2
    <2> DEFINE y == x + base * a
    <2>9. y \in Nat /\ y < p /\ y = u[i] BY <2>2, <2>3, <2>8
    <2> HIDE DEF y, e
    <2>10. carry * p + Number(e, r) = y BY <2>6 DEF y
    <2>11. Number(e, r) = y BY <1>6, <2>7, <2>9, <2>10, NoCarry
    <2> QED BY <2>1, <2>3, <2>9, <2>11
  <1>9. 0..L \subseteq T
    <2> HIDE DEF T
    <2> QED BY <1>0, <1>7, <1>8, Induction
  <1>10. L \in 0..L BY <1>0
  <1> QED BY <1>1, <1>5, <1>9, <1>10

-----------------------------------------------------------------------------
(* Zeros in front of the digits of a number. *)
LEMMA Concatenated ==
    ASSUME NEW S, NEW d \in Seq(S), NEW e \in Seq(S)
    PROVE  /\ d \o e \in Seq(S) /\ Len(d \o e) = Len(d) + Len(e)
           /\ \A i \in 1..Len(d) : (d \o e)[i] = d[i]
           /\ \A i \in (Len(d) + 1)..(Len(d) + Len(e)) : (d \o e)[i] = e[i - Len(d)]
  OBVIOUS

(* Leading zeros, and what they leave. *)
StartsWithZeros(s, n) == n \in 0..Len(s) /\ (\A i \in 1..n : s[i] = 0) /\ (n < Len(s) => s[n + 1] # 0)

LEMMA LeadingZerosAre == ASSUME NEW s \in Seq(Int) PROVE StartsWithZeros(s, LeadingZeros(s))
  <1> DEFINE L == Len(s)
             B == {n \in Nat : n = L \/ (n < L /\ s[n + 1] # 0)}
  <1>1. L \in Nat OBVIOUS
  <1> HIDE DEF L
  <1>2. PICK n \in B : \A k \in B : n <= k
    <2>1. B \in SUBSET Nat /\ B # {} BY <1>1
    <2> HIDE DEF B
    <2> QED BY <2>1, NatMin
  <1>3. \A i \in 1..n : s[i] = 0
    <2> SUFFICES ASSUME NEW i \in 1..n, s[i] # 0 PROVE FALSE OBVIOUS
    <2>1. i - 1 \in Nat /\ i - 1 < L /\ (i - 1) + 1 = i /\ ~(n <= i - 1) BY <1>1, <1>2
    <2>2. i - 1 \in B BY <2>1
    <2> QED BY <1>2, <2>1, <2>2
  <1>4. n \in 0..L /\ (n < L => s[n + 1] # 0) BY <1>1, <1>2
  <1>5. StartsWithZeros(s, n) BY <1>3, <1>4 DEF StartsWithZeros, L
  <1> QED BY <1>5 DEF StartsWithZeros, LeadingZeros

LEMMA ZerosOnce ==
    ASSUME NEW s \in Seq(Int), NEW n, StartsWithZeros(s, n) PROVE LeadingZeros(s) = n
  <1> DEFINE m == LeadingZeros(s)
  <1>1. StartsWithZeros(s, m) BY LeadingZerosAre
  <1> HIDE DEF m
  <1>2. Len(s) \in Nat OBVIOUS
  <1>3. m \in 0..Len(s) /\ n \in 0..Len(s) BY <1>1 DEF StartsWithZeros
  <1>4. ~(m < n)
    <2> SUFFICES ASSUME m < n PROVE FALSE OBVIOUS
    <2>1. m + 1 \in 1..n /\ m < Len(s) BY <1>2, <1>3
    <2> QED BY <1>1, <2>1 DEF StartsWithZeros
  <1>5. ~(n < m)
    <2> SUFFICES ASSUME n < m PROVE FALSE OBVIOUS
    <2>1. n + 1 \in 1..m /\ n < Len(s) BY <1>2, <1>3
    <2> QED BY <1>1, <2>1 DEF StartsWithZeros
  <1>6. m = n BY <1>2, <1>3, <1>4, <1>5
  <1> QED BY <1>6 DEF m

(* No digit, or a first one that is not zero. *)
Led(s) == Len(s) > 0 => s[1] # 0

LEMMA SignificantIs ==
    ASSUME NEW S \in SUBSET Int, NEW s \in Seq(S)
    PROVE  LET z == LeadingZeros(s)
               t == Significant(s)
           IN  /\ z \in 0..Len(s) /\ t \in Seq(S) /\ Len(t) = Len(s) - z /\ Led(t)
               /\ \A i \in 1..Len(t) : t[i] = s[z + i]
               /\ \A i \in 1..z : s[i] = 0
               /\ s = ZeroDigits(z) \o t
  <1> DEFINE z == LeadingZeros(s)
             t == Significant(s)
             L == Len(s)
  <1>1. s \in Seq(Int) BY SeqMonotonic
  <1>2. L \in Nat /\ z \in 0..L /\ (\A i \in 1..z : s[i] = 0) /\ (z < L => s[z + 1] # 0)
    BY <1>1, LeadingZerosAre DEF StartsWithZeros
  <1>3. t = SubSeq(s, z + 1, L) BY DEF Significant
  <1> HIDE DEF z, t, L
  <1>4. t \in Seq(S) /\ Len(t) = L - z /\ \A i \in 1..(L - z) : t[i] = s[z + i]
    <2>1. CASE z = L
      <3>1. t = <<>> BY <1>2, <1>3, <2>1 DEF L
      <3> QED BY <1>2, <2>1, <3>1
    <2>2. CASE z < L
      <3>1. z + 1 \in 1..L /\ L \in 1..L /\ z + 1 <= L BY <1>2, <2>2
      <3>2. /\ t \in Seq(S) /\ Len(t) = L - (z + 1) + 1
            /\ \A i \in 1..(L - (z + 1) + 1) : t[i] = s[(z + 1) + i - 1]
        BY <1>3, <3>1, SubSeqProperties DEF L
      <3>3. L - (z + 1) + 1 = L - z /\ \A i \in 1..(L - z) : (z + 1) + i - 1 = z + i BY <1>2
      <3> QED BY <3>2, <3>3
    <2> QED BY <1>2, <2>1, <2>2
  <1>5. Led(t)
    <2> SUFFICES ASSUME Len(t) > 0 PROVE t[1] # 0 BY DEF Led
    <2>1. z < L /\ 1 \in 1..(L - z) BY <1>2, <1>4
    <2> QED BY <1>2, <1>4, <2>1
  <1>6. s = ZeroDigits(z) \o t
    <2> DEFINE o == ZeroDigits(z)
    <2>1. o \in Seq({0}) /\ Len(o) = z /\ \A i \in 1..z : o[i] = 0
      BY <1>2, ZerosTyped DEF ZeroDigits
    <2> HIDE DEF o
    <2>2. o \in Seq(Int) /\ t \in Seq(Int)
      <3>1. {0} \subseteq Int OBVIOUS
      <3> QED BY <1>4, <2>1, <3>1, SeqMonotonic
    <2> DEFINE c == o \o t
    <2>3. /\ c \in Seq(Int) /\ Len(c) = z + (L - z)
          /\ \A i \in 1..z : c[i] = o[i]
          /\ \A i \in (z + 1)..(z + (L - z)) : c[i] = t[i - z]
      <3>1. /\ c \in Seq(Int) /\ Len(c) = Len(o) + Len(t)
            /\ \A i \in 1..Len(o) : c[i] = o[i]
            /\ \A i \in (Len(o) + 1)..(Len(o) + Len(t)) : c[i] = t[i - Len(o)]
        BY <2>2, Concatenated
      <3> HIDE DEF c
      <3> QED BY <1>4, <2>1, <3>1
    <2> HIDE DEF c
    <2>4. Len(c) = Len(s) BY <1>2, <2>3 DEF L
    <2>5. ASSUME NEW i \in 1..Len(s) PROVE c[i] = s[i]
      <3>1. CASE i \in 1..z BY <3>1, <1>2, <2>1, <2>3
      <3>2. CASE i \in (z + 1)..L
        <4>1. i - z \in 1..(L - z) /\ z + (i - z) = i /\ i \in (z + 1)..(z + (L - z)) BY <1>2, <3>2
        <4> QED BY <1>4, <2>3, <4>1
      <3> QED BY <3>1, <3>2, <1>2 DEF L
    <2>6. c = s BY <1>1, <2>3, <2>4, <2>5, SeqEqual
    <2> QED BY <2>6 DEF c, o
  <1> QED BY <1>2, <1>4, <1>5, <1>6 DEF z, t, L

(* Zeros in front of digits that have none. *)
LEMMA ZerosInFront ==
    ASSUME NEW S \in SUBSET Int, NEW b \in Seq(S), Led(b), NEW z \in Nat
    PROVE  LET s == ZeroDigits(z) \o b
           IN  /\ s \in Seq(S \union {0}) /\ Len(s) = z + Len(b)
               /\ LeadingZeros(s) = z /\ Significant(s) = b
  <1> DEFINE o == ZeroDigits(z)
             s == o \o b
             n == Len(b)
             A == S \union {0}
  <1>1. o \in Seq({0}) /\ Len(o) = z /\ \A i \in 1..z : o[i] = 0 BY ZerosTyped DEF ZeroDigits
  <1> HIDE DEF o
  <1>2. o \in Seq(A) /\ b \in Seq(A) /\ A \in SUBSET Int /\ n \in Nat
    <2>1. {0} \subseteq A /\ S \subseteq A /\ A \in SUBSET Int OBVIOUS
    <2>2. n \in Nat OBVIOUS
    <2> HIDE DEF A, n
    <2>3. o \in Seq(A) BY <1>1, <2>1, SeqMonotonic
    <2>4. b \in Seq(A) BY <2>1, SeqMonotonic
    <2> QED BY <2>1, <2>2, <2>3, <2>4
  <1>3. /\ s \in Seq(A) /\ Len(s) = z + n
        /\ \A i \in 1..z : s[i] = o[i]
        /\ \A i \in (z + 1)..(z + n) : s[i] = b[i - z]
    <2> HIDE DEF A
    <2> QED BY <1>1, <1>2
  <1> HIDE DEF s, A
  <1>4. StartsWithZeros(s, z)
    <2>1. z \in 0..Len(s) /\ \A i \in 1..z : s[i] = 0 BY <1>1, <1>2, <1>3
    <2>2. ASSUME z < Len(s) PROVE s[z + 1] # 0
      <3>1. n > 0 /\ z + 1 \in (z + 1)..(z + n) /\ (z + 1) - z = 1 BY <1>2, <1>3, <2>2
      <3>2. s[z + 1] = b[1] BY <1>3, <3>1
      <3> QED BY <3>1, <3>2 DEF Led
    <2> QED BY <2>1, <2>2 DEF StartsWithZeros
  <1>5. s \in Seq(Int) BY <1>2, <1>3, SeqMonotonic
  <1>6. LeadingZeros(s) = z BY <1>4, <1>5, ZerosOnce
  <1> DEFINE t == Significant(s)
  <1>7. t \in Seq(A) /\ Len(t) = Len(s) - z /\ \A i \in 1..Len(t) : t[i] = s[z + i]
    BY <1>2, <1>3, <1>6, SignificantIs
  <1> HIDE DEF t
  <1>8. Len(t) = n BY <1>2, <1>3, <1>7
  <1>9. ASSUME NEW i \in 1..n PROVE t[i] = b[i]
    <2>1. z + i \in (z + 1)..(z + n) /\ (z + i) - z = i BY <1>2
    <2> QED BY <1>3, <1>7, <1>8, <2>1
  <1>10. t = b BY <1>2, <1>7, <1>8, <1>9, SeqEqual
  <1> QED BY <1>3, <1>6, <1>10 DEF t, s, o, A

(* They add nothing to the number. *)
LEMMA SignificantNumber ==
    ASSUME NEW r \in Nat, NEW s \in Seq(Nat) PROVE Number(Significant(s), r) = Number(s, r)
  <1> DEFINE z == LeadingZeros(s)
             t == Significant(s)
             L == Len(s)
             u == Upper(s, r)
             v == Upper(t, r)
  <1>1. /\ L \in Nat /\ z \in 0..L /\ t \in Seq(Nat) /\ Len(t) = L - z
        /\ \A i \in 1..(L - z) : t[i] = s[z + i]
        /\ \A i \in 1..z : s[i] = 0
    <2>1. Nat \in SUBSET Int OBVIOUS
    <2> HIDE DEF t
    <2>2. /\ z \in 0..Len(s) /\ t \in Seq(Nat) /\ Len(t) = Len(s) - z
          /\ \A i \in 1..Len(t) : t[i] = s[z + i]
          /\ \A i \in 1..z : s[i] = 0
      BY <2>1, SignificantIs DEF t
    <2> QED BY <2>2
  <1>2. u \in [0..L -> Nat] /\ u[0] = 0 /\ \A i \in 1..L : u[i] = r * u[i - 1] + s[i]
    BY UpperValues
  <1> HIDE DEF t, z
  <1>3. v \in [0..(L - z) -> Nat] /\ v[0] = 0 /\ \A i \in 1..(L - z) : v[i] = r * v[i - 1] + t[i]
    <2>1. v \in [0..Len(t) -> Nat] /\ v[0] = 0 /\ \A i \in 1..Len(t) : v[i] = r * v[i - 1] + t[i]
      BY <1>1, UpperValues
    <2> HIDE DEF v
    <2> QED BY <1>1, <2>1
  <1>4. Number(s, r) = u[L] /\ Number(t, r) = v[L - z] BY <1>1 DEF Number
  <1> HIDE DEF u, v, L
  <1>5. \A i \in 0..z : u[i] = 0
    <2> DEFINE T == {i \in 0..z : u[i] = 0}
    <2>1. 0 \in T BY <1>1, <1>2
    <2>2. ASSUME NEW i \in 1..z, i - 1 \in T PROVE i \in T
      <3>1. i \in 1..L /\ i \in 0..z BY <1>1
      <3>2. r * 0 + 0 = 0 OBVIOUS
      <3> QED BY <1>1, <1>2, <2>2, <3>1, <3>2
    <2>3. z \in Nat BY <1>1
    <2>4. 0..z \subseteq T
      <3> HIDE DEF T
      <3> QED BY <2>1, <2>2, <2>3, Induction
    <2> QED BY <2>4
  <1> DEFINE T == {i \in 0..(L - z) : v[i] = u[z + i]}
  <1>6. 0 \in T
    <2>1. z + 0 = z /\ z \in 0..z /\ 0 \in 0..(L - z) BY <1>1
    <2> QED BY <1>3, <1>5, <2>1
  <1>7. ASSUME NEW i \in 1..(L - z), i - 1 \in T PROVE i \in T
    <2>1. z + i \in 1..L /\ (z + i) - 1 = z + (i - 1) /\ i \in 0..(L - z) BY <1>1
    <2>2. u[z + i] = r * u[z + (i - 1)] + s[z + i] BY <1>2, <2>1
    <2> QED BY <1>1, <1>3, <1>7, <2>1, <2>2
  <1>8. L - z \in Nat /\ L - z \in 0..(L - z) /\ z + (L - z) = L BY <1>1
  <1>9. 0..(L - z) \subseteq T
    <2> HIDE DEF T
    <2> QED BY <1>6, <1>7, <1>8, Induction
  <1> QED BY <1>4, <1>8, <1>9 DEF t

-----------------------------------------------------------------------------
(* A number has one way of writing it without zeros in front.                  *)
LEMMA LedNumber ==
    ASSUME NEW r \in Nat, r > 0, NEW s \in Seq(Nat), Led(s), NEW k \in 1..Len(s)
    PROVE  Upper(s, r)[k] >= Powers(r)[k - 1]
  <1> DEFINE L == Len(s)
             u == Upper(s, r)
             p == Powers(r)
             T == {i \in 0..(L - 1) : u[i + 1] >= p[i]}
  <1>1. /\ L \in Nat /\ L > 0 /\ k \in 1..L /\ s[1] \in Nat /\ s[1] # 0
        /\ \A i \in 1..L : s[i] \in Nat
    BY DEF Led
  <1>2. u \in [0..L -> Nat] /\ u[0] = 0 /\ \A i \in 1..L : u[i] = r * u[i - 1] + s[i]
    BY UpperValues
  <1>3. p \in [Nat -> Nat] /\ p[0] = 1 /\ \A i \in Nat : p[i + 1] = r * p[i] BY PowersValues
  <1> HIDE DEF L, u, p
  <1>4. 0 \in T
    <2>1. 1 \in 1..L /\ 1 - 1 = 0 /\ 0 + 1 = 1 /\ 0 \in 0..(L - 1) BY <1>1
    <2>2. u[1] = r * u[1 - 1] + s[1] BY <1>2, <2>1
    <2>3. u[1] = r * 0 + s[1] BY <1>2, <2>1, <2>2
    <2> DEFINE x == s[1]
    <2>4. x \in Nat /\ x # 0 /\ u[1] = r * 0 + x BY <1>1, <2>3
    <2> HIDE DEF x
    <2>5. u[1] >= 1 BY <2>4
    <2>6. u[0 + 1] >= p[0] BY <1>3, <2>1, <2>5
    <2> QED BY <2>1, <2>6
  <1>5. ASSUME NEW i \in 1..(L - 1), i - 1 \in T PROVE i \in T
    <2> DEFINE a == u[i]
               q == p[i - 1]
               x == s[i + 1]
    <2>1. i + 1 \in 1..L /\ (i + 1) - 1 = i /\ (i - 1) + 1 = i /\ i - 1 \in Nat /\ i \in 0..(L - 1)
          /\ i \in 0..L
      BY <1>1
    <2>2. u[i + 1] = r * a + x BY <1>2, <2>1
    <2>3. p[i] = r * q BY <1>3, <2>1
    <2>4. a \in Nat /\ q \in Nat /\ x \in Nat /\ a >= q BY <1>1, <1>2, <1>3, <1>5, <2>1
    <2> HIDE DEF a, q, x
    <2>5. r * a >= r * q /\ r * a \in Nat /\ r * q \in Nat BY <2>4
    <2>6. r * a + x >= r * q BY <2>4, <2>5
    <2> QED BY <2>1, <2>2, <2>3, <2>6
  <1>6. 0..(L - 1) \subseteq T
    <2>1. L - 1 \in Nat BY <1>1
    <2> HIDE DEF T
    <2> QED BY <1>4, <1>5, <2>1, Induction
  <1>7. k - 1 \in 0..(L - 1) /\ (k - 1) + 1 = k BY <1>1
  <1>8. u[k] >= p[k - 1] BY <1>6, <1>7
  <1> QED BY <1>8 DEF u, p

LEMMA PowersRise ==
    ASSUME NEW r \in Nat, r > 0, NEW m \in Nat, NEW n \in Nat, m <= n
    PROVE  Powers(r)[m] <= Powers(r)[n]
  <1> DEFINE p == Powers(r)
             T == {i \in 0..(n - m) : p[m] <= p[m + i]}
  <1>1. p \in [Nat -> Nat] /\ \A i \in Nat : p[i + 1] = r * p[i] BY PowersValues
  <1> HIDE DEF p
  <1>2. 0 \in T
    <2>1. m + 0 = m /\ p[m] \in Nat BY <1>1
    <2> QED BY <2>1
  <1>3. ASSUME NEW i \in 1..(n - m), i - 1 \in T PROVE i \in T
    <2> DEFINE a == p[m + (i - 1)]
    <2>1. m + (i - 1) \in Nat /\ (m + (i - 1)) + 1 = m + i /\ i \in 0..(n - m) OBVIOUS
    <2>2. a \in Nat /\ p[m] \in Nat /\ p[m] <= a /\ p[m + i] = r * a BY <1>1, <1>3, <2>1
    <2> HIDE DEF a
    <2>3. r * a >= a /\ r * a \in Nat BY <2>2
    <2> QED BY <2>1, <2>2, <2>3
  <1>4. n - m \in Nat /\ n - m \in 0..(n - m) /\ m + (n - m) = n OBVIOUS
  <1>5. 0..(n - m) \subseteq T
    <2> HIDE DEF T
    <2> QED BY <1>2, <1>3, <1>4, Induction
  <1> QED BY <1>4, <1>5 DEF p

LEMMA ShorterIsLess ==
    ASSUME NEW r \in Nat, r > 0, NEW s \in Seq(Digit(r)), NEW t \in Seq(Digit(r)), Led(t),
           Len(s) < Len(t)
    PROVE  Number(s, r) # Number(t, r)
  <1> DEFINE p == Powers(r)
  <1>1. t \in Seq(Nat) /\ Len(s) \in Nat /\ Len(t) \in Nat /\ Len(t) \in 1..Len(t)
    BY DigitsAreNumbers
  <1>2. Number(s, r) < p[Len(s)] /\ Number(s, r) \in Nat BY NumberBelowPower
  <1>3. Number(t, r) >= p[Len(t) - 1] /\ Number(t, r) \in Nat
    BY <1>1, LedNumber, NumberBelowPower DEF Number
  <1>4. Len(t) - 1 \in Nat /\ Len(s) <= Len(t) - 1 BY <1>1
  <1>5. p[Len(s)] <= p[Len(t) - 1] /\ p[Len(s)] \in Nat /\ p[Len(t) - 1] \in Nat
    BY <1>1, <1>4, PowersRise, PowersValues
  <1> HIDE DEF p
  <1> QED BY <1>2, <1>3, <1>5

LEMMA LastDigit ==
    ASSUME NEW r \in Nat, r > 0, NEW a \in Nat, NEW b \in Nat, NEW x \in Digit(r), NEW y \in Digit(r),
           r * a + x = r * b + y
    PROVE  a = b /\ x = y
  <1>1. x \in Nat /\ y \in Nat /\ x < r /\ y < r BY DEF Digit
  <1>2. ~(a < b)
    <2> SUFFICES ASSUME a < b PROVE FALSE OBVIOUS
    <2>1. r * a + r <= r * b
      <3>1. a + 1 <= b OBVIOUS
      <3>2. r * (a + 1) <= r * b /\ r * (a + 1) = r * a + r BY <3>1
      <3> QED BY <3>2
    <2>2. r * a \in Nat /\ r * b \in Nat OBVIOUS
    <2> QED BY <1>1, <2>1, <2>2
  <1>3. ~(b < a)
    <2> SUFFICES ASSUME b < a PROVE FALSE OBVIOUS
    <2>1. r * b + r <= r * a
      <3>1. b + 1 <= a OBVIOUS
      <3>2. r * (b + 1) <= r * a /\ r * (b + 1) = r * b + r BY <3>1
      <3> QED BY <3>2
    <2>2. r * a \in Nat /\ r * b \in Nat OBVIOUS
    <2> QED BY <1>1, <2>1, <2>2
  <1>4. a = b BY <1>2, <1>3
  <1>5. r * a \in Nat OBVIOUS
  <1> QED BY <1>1, <1>4, <1>5

LEMMA WrittenOnce ==
    ASSUME NEW r \in Nat, r > 0, NEW s \in Seq(Digit(r)), NEW t \in Seq(Digit(r)), Led(s), Led(t),
           Number(s, r) = Number(t, r)
    PROVE  s = t
  <1> DEFINE L == Len(s)
             u == Upper(s, r)
             v == Upper(t, r)
             T == {k \in 0..L : u[L - k] = v[L - k]}
  <1>1. L \in Nat /\ Len(t) \in Nat /\ s \in Seq(Nat) /\ t \in Seq(Nat) BY DigitsAreNumbers
  <1>2. Len(t) = L BY <1>1, ShorterIsLess
  <1>3. \A i \in 1..L : s[i] \in Digit(r) /\ t[i] \in Digit(r) BY <1>2
  <1>4. u \in [0..L -> Nat] /\ \A i \in 1..L : u[i] = r * u[i - 1] + s[i] BY <1>1, UpperValues
  <1>5. v \in [0..L -> Nat] /\ \A i \in 1..L : v[i] = r * v[i - 1] + t[i]
    <2>1. v \in [0..Len(t) -> Nat] /\ \A i \in 1..Len(t) : v[i] = r * v[i - 1] + t[i]
      BY <1>1, UpperValues
    <2> HIDE DEF v, L
    <2> QED BY <1>2, <2>1
  <1>6. u[L] = v[L] BY <1>2 DEF Number
  <1> HIDE DEF u, v
  <1>7. ASSUME NEW i \in 1..L, u[i] = v[i] PROVE u[i - 1] = v[i - 1] /\ s[i] = t[i]
    <2> DEFINE a == u[i - 1]
               b == v[i - 1]
               x == s[i]
               y == t[i]
    <2>1. i - 1 \in 0..L BY <1>1
    <2>2. a \in Nat /\ b \in Nat /\ x \in Digit(r) /\ y \in Digit(r) BY <1>3, <1>4, <1>5, <2>1
    <2>3. r * a + x = r * b + y BY <1>4, <1>5, <1>7
    <2> HIDE DEF a, b, x, y
    <2>4. a = b /\ x = y BY <2>2, <2>3, LastDigit
    <2> QED BY <2>4 DEF a, b, x, y
  <1> HIDE DEF L
  <1>8. 0 \in T
    <2>1. L - 0 = L /\ 0 \in 0..L BY <1>1
    <2> QED BY <1>6, <2>1
  <1>9. ASSUME NEW k \in 1..L, k - 1 \in T PROVE k \in T
    <2>1. L - (k - 1) \in 1..L /\ (L - (k - 1)) - 1 = L - k /\ k \in 0..L BY <1>1
    <2>2. u[L - (k - 1)] = v[L - (k - 1)] BY <1>9
    <2>3. u[(L - (k - 1)) - 1] = v[(L - (k - 1)) - 1] BY <1>7, <2>1, <2>2
    <2> QED BY <2>1, <2>3
  <1>10. 0..L \subseteq T
    <2> HIDE DEF T
    <2> QED BY <1>1, <1>8, <1>9, Induction
  <1>11. ASSUME NEW i \in 1..L PROVE s[i] = t[i]
    <2>1. L - i \in 0..L /\ L - (L - i) = i BY <1>1
    <2>2. u[i] = v[i] BY <1>10, <2>1
    <2> QED BY <1>7, <2>2
  <1> QED BY <1>2, <1>11, SeqEqual DEF L

-----------------------------------------------------------------------------
(* The lengths that solana_encoding.c reserves are enough: each digit of the   *)
(* one radix takes less than so many of the other.                             *)
LEMMA PowersAdd ==
    ASSUME NEW r \in Nat, NEW m \in Nat, NEW n \in Nat
    PROVE  Powers(r)[m + n] = Powers(r)[m] * Powers(r)[n]
  <1> DEFINE p == Powers(r)
             T == {i \in 0..n : p[m + i] = p[m] * p[i]}
  <1>1. p \in [Nat -> Nat] /\ p[0] = 1 /\ \A i \in Nat : p[i + 1] = r * p[i] BY PowersValues
  <1> HIDE DEF p
  <1>2. 0 \in T
    <2>1. m + 0 = m /\ p[m] \in Nat BY <1>1
    <2>2. p[m] * 1 = p[m] BY <2>1
    <2> QED BY <1>1, <2>1, <2>2
  <1>3. ASSUME NEW i \in 1..n, i - 1 \in T PROVE i \in T
    <2> DEFINE a == p[i - 1]
               b == p[m]
    <2>1. i - 1 \in Nat /\ (i - 1) + 1 = i /\ m + (i - 1) \in Nat /\ (m + (i - 1)) + 1 = m + i
          /\ i \in 0..n
      OBVIOUS
    <2>2. p[i] = r * a /\ p[m + i] = r * p[m + (i - 1)] /\ p[m + (i - 1)] = b * a
      BY <1>1, <1>3, <2>1
    <2>3. a \in Nat /\ b \in Nat BY <1>1, <2>1
    <2> HIDE DEF a, b
    <2>4. r * (b * a) = b * (r * a) BY <2>3
    <2> QED BY <2>1, <2>2, <2>4 DEF b
  <1>4. 0..n \subseteq T
    <2> HIDE DEF T
    <2> QED BY <1>2, <1>3, Induction
  <1>5. n \in 0..n OBVIOUS
  <1> QED BY <1>4, <1>5 DEF p

-----------------------------------------------------------------------------
(* Some powers, to compare the lengths with. *)
LEMMA Powers256 ==
    LET p == Powers(256)
    IN  /\ p[0] = 1 /\ p[1] = 256 /\ p[2] = 65536 /\ p[3] = 16777216 /\ p[4] = 4294967296
        /\ p[5] = 1099511627776 /\ p[6] = 281474976710656 /\ p[7] = 72057594037927936
        /\ p[8] = 18446744073709551616 /\ p[9] = 4722366482869645213696
        /\ p[10] = 1208925819614629174706176 /\ p[11] = 309485009821345068724781056
  <1> DEFINE p == Powers(256)
  <1>1. p[0] = 1 /\ \A i \in Nat : p[i + 1] = 256 * p[i] BY PowersValues
  <1> HIDE DEF p
  <1>2. p[0 + 1] = 256 * p[0] /\ p[1 + 1] = 256 * p[1] /\ p[2 + 1] = 256 * p[2]
        /\ p[3 + 1] = 256 * p[3] /\ p[4 + 1] = 256 * p[4] /\ p[5 + 1] = 256 * p[5]
        /\ p[6 + 1] = 256 * p[6] /\ p[7 + 1] = 256 * p[7] /\ p[8 + 1] = 256 * p[8]
        /\ p[9 + 1] = 256 * p[9] /\ p[10 + 1] = 256 * p[10]
    BY <1>1
  <1> QED BY <1>1, <1>2 DEF p

LEMMA Powers58 ==
    LET p == Powers(58)
    IN  /\ p[0] = 1 /\ p[1] = 58 /\ p[2] = 3364 /\ p[3] = 195112 /\ p[4] = 11316496
        /\ p[5] = 656356768 /\ p[6] = 38068692544 /\ p[7] = 2207984167552
        /\ p[8] = 128063081718016 /\ p[9] = 7427658739644928 /\ p[10] = 430804206899405824
        /\ p[11] = 24986644000165537792 /\ p[12] = 1449225352009601191936
        /\ p[13] = 84055070416556869132288 /\ p[14] = 4875194084160298409672704
        /\ p[15] = 282761256881297307761016832
  <1> DEFINE p == Powers(58)
  <1>1. p[0] = 1 /\ \A i \in Nat : p[i + 1] = 58 * p[i] BY PowersValues
  <1> HIDE DEF p
  <1>2. p[0 + 1] = 58 * p[0] /\ p[1 + 1] = 58 * p[1] /\ p[2 + 1] = 58 * p[2]
        /\ p[3 + 1] = 58 * p[3] /\ p[4 + 1] = 58 * p[4] /\ p[5 + 1] = 58 * p[5]
        /\ p[6 + 1] = 58 * p[6] /\ p[7 + 1] = 58 * p[7] /\ p[8 + 1] = 58 * p[8]
        /\ p[9 + 1] = 58 * p[9] /\ p[10 + 1] = 58 * p[10] /\ p[11 + 1] = 58 * p[11]
        /\ p[12 + 1] = 58 * p[12] /\ p[13 + 1] = 58 * p[13] /\ p[14 + 1] = 58 * p[14]
    BY <1>1
  <1> QED BY <1>1, <1>2 DEF p

(* m digits of a radix in k digits of another, and q times as many. *)
LEMMA Blocks ==
    ASSUME NEW a \in Nat, NEW b \in Nat, NEW m \in Nat, NEW k \in Nat,
           Powers(a)[m] <= Powers(b)[k], NEW q \in Nat
    PROVE  m * q \in Nat /\ k * q \in Nat /\ Powers(a)[m * q] <= Powers(b)[k * q]
  <1> DEFINE T == {i \in 0..q : Powers(a)[m * i] <= Powers(b)[k * i]}
  <1>1. \A i \in Nat : m * i \in Nat /\ k * i \in Nat OBVIOUS
  <1>2. \A i \in Nat : Powers(a)[i] \in Nat /\ Powers(b)[i] \in Nat BY PowersValues
  <1>3. 0 \in T
    <2>1. m * 0 = 0 /\ k * 0 = 0 /\ Powers(a)[0] = 1 /\ Powers(b)[0] = 1 BY PowersValues
    <2> QED BY <2>1
  <1>4. ASSUME NEW i \in 1..q, i - 1 \in T PROVE i \in T
    <2> DEFINE j == i - 1
               x == m * j
               y == k * j
    <2>1. j \in Nat /\ j + 1 = i OBVIOUS
    <2>2. m * (j + 1) = m * j + m /\ k * (j + 1) = k * j + k BY <2>1
    <2>3. x \in Nat /\ y \in Nat /\ m * i = x + m /\ k * i = y + k BY <1>1, <2>1, <2>2
    <2>4. Powers(a)[x] <= Powers(b)[y] BY <1>4
    <2> HIDE DEF x, y
    <2>5. Powers(a)[x + m] = Powers(a)[x] * Powers(a)[m]
          /\ Powers(b)[y + k] = Powers(b)[y] * Powers(b)[k]
      BY ZenonT(60), <2>3, PowersAdd
    <2>6. Powers(a)[x] * Powers(a)[m] <= Powers(b)[y] * Powers(b)[k] BY <1>2, <2>3, <2>4, Products
    <2>7. Powers(a)[m * i] <= Powers(b)[k * i] BY <2>3, <2>5, <2>6
    <2> QED BY <2>7
  <1>5. 0..q \subseteq T
    <2> HIDE DEF T
    <2> QED BY <1>3, <1>4, Induction
  <1>6. q \in 0..q OBVIOUS
  <1> QED BY <1>1, <1>5, <1>6

(* Some digits, and some more. *)
LEMMA Together ==
    ASSUME NEW a \in Nat, NEW b \in Nat, NEW m \in Nat, NEW k \in Nat, NEW n \in Nat, NEW l \in Nat,
           Powers(a)[m] <= Powers(b)[k], Powers(a)[n] <= Powers(b)[l]
    PROVE  Powers(a)[m + n] <= Powers(b)[k + l]
  <1>1. Powers(a)[m + n] = Powers(a)[m] * Powers(a)[n]
        /\ Powers(b)[k + l] = Powers(b)[k] * Powers(b)[l]
    BY PowersAdd
  <1>2. Powers(a)[m] \in Nat /\ Powers(a)[n] \in Nat /\ Powers(b)[k] \in Nat /\ Powers(b)[l] \in Nat
    BY PowersValues
  <1> QED BY <1>1, <1>2, Products

LEMMA PowersProduct ==
    ASSUME NEW r \in Nat, NEW m \in Nat, NEW n \in Nat, NEW k, k = m + n
    PROVE  Powers(r)[k] = Powers(r)[m] * Powers(r)[n]
  BY PowersAdd

LEMMA PowersSquare ==
    ASSUME NEW r \in Nat, NEW m \in Nat, NEW k, k = m + m
    PROVE  Powers(r)[k] = Powers(r)[m] * Powers(r)[m]
  BY ZenonT(60), PowersProduct

LEMMA Most == Powers(58)[71] <= Powers(256)[52]
  <1> DEFINE p == Powers(58)
             q == Powers(256)
  <1>1. p[8] = 128063081718016 /\ p[7] = 2207984167552 BY Powers58
  <1>2. q[8] = 18446744073709551616 /\ q[4] = 4294967296 BY Powers256
  <1>3. p[16] = p[8] * p[8] /\ p[32] = p[16] * p[16] /\ p[64] = p[32] * p[32]
        /\ p[71] = p[64] * p[7]
    <2>1. 16 = 8 + 8 /\ 32 = 16 + 16 /\ 64 = 32 + 32 /\ 71 = 64 + 7 OBVIOUS
    <2>2. p[16] = p[8] * p[8] BY <2>1, PowersSquare
    <2>3. p[32] = p[16] * p[16] BY <2>1, PowersSquare
    <2>4. p[64] = p[32] * p[32] BY <2>1, PowersSquare
    <2>5. p[71] = p[64] * p[7] BY <2>1, PowersProduct
    <2> QED BY <2>2, <2>3, <2>4, <2>5
  <1>4. q[16] = q[8] * q[8] /\ q[32] = q[16] * q[16] /\ q[48] = q[32] * q[16]
        /\ q[52] = q[48] * q[4]
    <2>1. 16 = 8 + 8 /\ 32 = 16 + 16 /\ 48 = 32 + 16 /\ 52 = 48 + 4 OBVIOUS
    <2>2. q[16] = q[8] * q[8] BY <2>1, PowersSquare
    <2>3. q[32] = q[16] * q[16] BY <2>1, PowersSquare
    <2>4. q[48] = q[32] * q[16] BY <2>1, PowersProduct
    <2>5. q[52] = q[48] * q[4] BY <2>1, PowersProduct
    <2> QED BY <2>2, <2>3, <2>4, <2>5
  <1> HIDE DEF p, q
  <1>5. p[16] = 128063081718016 * 128063081718016
        /\ p[32] = p[16] * p[16] /\ p[64] = p[32] * p[32] /\ p[71] = p[64] * 2207984167552
    BY <1>1, <1>3
  <1>6. q[16] = 18446744073709551616 * 18446744073709551616
        /\ q[32] = q[16] * q[16] /\ q[48] = q[32] * q[16] /\ q[52] = q[48] * 4294967296
    BY <1>2, <1>4
  <1>7. p[71] <= q[52] BY <1>5, <1>6
  <1> QED BY <1>7 DEF p, q

(* Four fifths are less than a digit: what (n * 733) \div 1000 leaves out.      *)
LEMMA FewDigits ==
    ASSUME NEW n \in 0..14
    PROVE  /\ (733 * n + 980) \div 1000 \in Nat
           /\ Powers(58)[n] <= Powers(256)[(733 * n + 980) \div 1000]
  <1> DEFINE p == Powers(58)
             q == Powers(256)
             k == (733 * n + 980) \div 1000
  <1>1. /\ p[0] = 1 /\ p[1] = 58 /\ p[2] = 3364 /\ p[3] = 195112 /\ p[4] = 11316496
        /\ p[5] = 656356768 /\ p[6] = 38068692544 /\ p[7] = 2207984167552
        /\ p[8] = 128063081718016 /\ p[9] = 7427658739644928 /\ p[10] = 430804206899405824
        /\ p[11] = 24986644000165537792 /\ p[12] = 1449225352009601191936
        /\ p[13] = 84055070416556869132288 /\ p[14] = 4875194084160298409672704
    BY Powers58
  <1>2. /\ q[0] = 1 /\ q[1] = 256 /\ q[2] = 65536 /\ q[3] = 16777216 /\ q[4] = 4294967296
        /\ q[5] = 1099511627776 /\ q[6] = 281474976710656 /\ q[7] = 72057594037927936
        /\ q[8] = 18446744073709551616 /\ q[9] = 4722366482869645213696
        /\ q[10] = 1208925819614629174706176 /\ q[11] = 309485009821345068724781056
    BY Powers256
  <1> HIDE DEF p, q
  <1>3. CASE n \in 0..4
    <2>1. n = 0 \/ n = 1 \/ n = 2 \/ n = 3 \/ n = 4 BY <1>3
    <2>2. /\ n = 0 => k = 0
          /\ n = 1 => k = 1
          /\ n = 2 => k = 2
          /\ n = 3 => k = 3
          /\ n = 4 => k = 3
      OBVIOUS
    <2> HIDE DEF k
    <2>3. k \in Nat /\ p[n] <= q[k] BY <1>1, <1>2, <2>1, <2>2
    <2> QED BY <2>3 DEF k, p, q
  <1>4. CASE n \in 5..9
    <2>1. n = 5 \/ n = 6 \/ n = 7 \/ n = 8 \/ n = 9 BY <1>4
    <2>2. /\ n = 5 => k = 4
          /\ n = 6 => k = 5
          /\ n = 7 => k = 6
          /\ n = 8 => k = 6
          /\ n = 9 => k = 7
      OBVIOUS
    <2> HIDE DEF k
    <2>3. k \in Nat /\ p[n] <= q[k] BY <1>1, <1>2, <2>1, <2>2
    <2> QED BY <2>3 DEF k, p, q
  <1>5. CASE n \in 10..14
    <2>1. n = 10 \/ n = 11 \/ n = 12 \/ n = 13 \/ n = 14 BY <1>5
    <2>2. /\ n = 10 => k = 8
          /\ n = 11 => k = 9
          /\ n = 12 => k = 9
          /\ n = 13 => k = 10
          /\ n = 14 => k = 11
      OBVIOUS
    <2> HIDE DEF k
    <2>3. k \in Nat /\ p[n] <= q[k] BY <1>1, <1>2, <2>1, <2>2
    <2> QED BY <2>3 DEF k, p, q
  <1> QED BY <1>3, <1>4, <1>5

(* A text of n digits in so many bytes: 71 at a time, then 15, then the rest.  *)
LEMMA BytesAreEnough ==
    ASSUME NEW n \in Nat
    PROVE  /\ (n * 733) \div 1000 + 1 \in Nat
           /\ Powers(58)[n] <= Powers(256)[(n * 733) \div 1000 + 1]
  <1> DEFINE x == n \div 71
             y == n % 71
             a == y \div 15
             b == y % 15
             k == (733 * b + 980) \div 1000
             size == (n * 733) \div 1000 + 1
  <1>1. x \in Nat /\ y \in 0..70 /\ n = 71 * x + y OBVIOUS
  <1> HIDE DEF x, y
  <1>2. a \in 0..4 /\ b \in 0..14 /\ y = 15 * a + b BY <1>1
  <1> HIDE DEF a, b
  <1>3. Powers(58)[71 * x] <= Powers(256)[52 * x] BY <1>1, Most, Blocks
  <1>4. Powers(58)[15 * a] <= Powers(256)[11 * a]
    <2>1. Powers(58)[15] <= Powers(256)[11] BY Powers58, Powers256
    <2>2. a \in Nat BY <1>2
    <2> QED BY <2>1, <2>2, Blocks
  <1>5. k \in Nat /\ Powers(58)[b] <= Powers(256)[k] BY <1>2, FewDigits
  <1>6. 71 * x \in Nat /\ 52 * x \in Nat /\ 15 * a \in Nat /\ 11 * a \in Nat /\ b \in Nat
    BY <1>1, <1>2
  <1>7. size \in Nat /\ (52 * x + 11 * a) + k <= size
    <2>1. n * 733 = 52043 * x + 10995 * a + 733 * b BY <1>1, <1>2
    <2>2. size \in Nat OBVIOUS
    <2>3. 1000 * k <= 733 * b + 980 BY <1>2
    <2>4. n * 733 < 1000 * size /\ n * 733 \in Nat OBVIOUS
    <2> HIDE DEF size, k
    <2>5. 1000 * ((52 * x + 11 * a) + k) < 1000 * size + 1000 BY <1>1, <1>2, <1>5, <2>1, <2>2, <2>3, <2>4
    <2> QED BY <1>1, <1>2, <1>5, <2>2, <2>5
  <1> HIDE DEF k, size
  <1> DEFINE c == 71 * x
             d == 52 * x
             e == 15 * a
             f == 11 * a
  <1>8. /\ c \in Nat /\ d \in Nat /\ e \in Nat /\ f \in Nat /\ b \in Nat /\ k \in Nat
        /\ Powers(58)[c] <= Powers(256)[d] /\ Powers(58)[e] <= Powers(256)[f]
        /\ Powers(58)[b] <= Powers(256)[k]
        /\ n = (c + e) + b /\ (d + f) + k <= size /\ size \in Nat
    BY <1>1, <1>2, <1>3, <1>4, <1>5, <1>6, <1>7
  <1> HIDE DEF c, d, e, f
  <1>9. Powers(58)[c + e] <= Powers(256)[d + f] BY SMTT(30), <1>8, Together
  <1> DEFINE g == c + e
             h == d + f
             m == h + k
  <1>10. /\ g \in Nat /\ h \in Nat /\ b \in Nat /\ k \in Nat /\ n = g + b
         /\ Powers(58)[g] <= Powers(256)[h] /\ Powers(58)[b] <= Powers(256)[k]
         /\ m \in Nat /\ m <= size /\ size \in Nat
    BY <1>8, <1>9
  <1> HIDE DEF g, h
  <1>11. Powers(58)[n] <= Powers(256)[m] BY SMTT(30), <1>10, Together
  <1> HIDE DEF m
  <1>12. Powers(256)[m] <= Powers(256)[size] BY <1>10, PowersRise
  <1>13. Powers(58)[n] \in Nat /\ Powers(256)[m] \in Nat /\ Powers(256)[size] \in Nat
    <2>1. /\ \A i \in Nat : Powers(58)[i] \in Nat
          /\ \A i \in Nat : Powers(256)[i] \in Nat
      BY ZenonT(60), PowersValues
    <2> QED BY <1>10, <2>1
  <1> QED BY <1>10, <1>11, <1>12, <1>13 DEF size

-----------------------------------------------------------------------------
(* The same the other way, for the characters of up to seven bytes. *)
LEMMA FewBytes ==
    ASSUME NEW n \in 0..7
    PROVE  /\ (n * 138) \div 100 + 1 \in Nat
           /\ Powers(256)[n] <= Powers(58)[(n * 138) \div 100 + 1]
  <1> DEFINE p == Powers(58)
             q == Powers(256)
             k == (n * 138) \div 100 + 1
  <1>1. /\ p[1] = 58 /\ p[2] = 3364 /\ p[3] = 195112
        /\ p[5] = 656356768 /\ p[6] = 38068692544 /\ p[7] = 2207984167552
        /\ p[9] = 7427658739644928 /\ p[10] = 430804206899405824
    BY Powers58
  <1>2. /\ q[0] = 1 /\ q[1] = 256 /\ q[2] = 65536 /\ q[3] = 16777216 /\ q[4] = 4294967296
        /\ q[5] = 1099511627776 /\ q[6] = 281474976710656 /\ q[7] = 72057594037927936
    BY Powers256
  <1> HIDE DEF p, q
  <1>3. n = 0 \/ n = 1 \/ n = 2 \/ n = 3 \/ n = 4 \/ n = 5 \/ n = 6 \/ n = 7 OBVIOUS
  <1>4. /\ n = 0 => k = 1
        /\ n = 1 => k = 2
        /\ n = 2 => k = 3
        /\ n = 3 => k = 5
        /\ n = 4 => k = 6
        /\ n = 5 => k = 7
        /\ n = 6 => k = 9
        /\ n = 7 => k = 10
    OBVIOUS
  <1> HIDE DEF k
  <1>5. k \in Nat /\ q[n] <= p[k] BY <1>1, <1>2, <1>3, <1>4
  <1> QED BY <1>5 DEF k, p, q

(* Data of n bytes in so many characters: eight at a time, then the rest. *)
LEMMA CharactersAreEnough ==
    ASSUME NEW n \in Nat
    PROVE  /\ (n * 138) \div 100 + 1 \in Nat
           /\ Powers(256)[n] <= Powers(58)[(n * 138) \div 100 + 1]
  <1> DEFINE x == n \div 8
             b == n % 8
             k == (b * 138) \div 100 + 1
             size == (n * 138) \div 100 + 1
             c == 8 * x
             d == 11 * x
             m == d + k
  <1>1. x \in Nat /\ b \in 0..7 /\ n = 8 * x + b OBVIOUS
  <1> HIDE DEF x, b
  <1>2. Powers(256)[c] <= Powers(58)[d]
    <2>1. Powers(256)[8] <= Powers(58)[11] BY Powers58, Powers256
    <2> QED BY <1>1, <2>1, Blocks
  <1>3. k \in Nat /\ Powers(256)[b] <= Powers(58)[k] BY <1>1, FewBytes
  <1>4. size \in Nat /\ m <= size
    <2>1. n * 138 = 1104 * x + b * 138 BY <1>1
    <2>2. 100 * (k - 1) <= b * 138 BY <1>1
    <2>3. size \in Nat /\ n * 138 < 100 * size OBVIOUS
    <2>4. n * 138 \in Nat OBVIOUS
    <2> HIDE DEF k, size
    <2>5. 100 * (11 * x + k) < 100 * size + 100 BY <1>1, <1>3, <2>1, <2>2, <2>3, <2>4
    <2> QED BY <1>1, <1>3, <2>3, <2>5
  <1> HIDE DEF k, size
  <1>5. /\ c \in Nat /\ d \in Nat /\ b \in Nat /\ k \in Nat /\ n = c + b
        /\ Powers(256)[c] <= Powers(58)[d] /\ Powers(256)[b] <= Powers(58)[k]
        /\ m \in Nat /\ m <= size /\ size \in Nat
    BY <1>1, <1>2, <1>3, <1>4
  <1> HIDE DEF c, d
  <1>6. Powers(256)[n] <= Powers(58)[m] BY SMTT(30), <1>5, Together
  <1> HIDE DEF m
  <1>7. Powers(58)[m] <= Powers(58)[size] BY <1>5, PowersRise
  <1>8. Powers(256)[n] \in Nat /\ Powers(58)[m] \in Nat /\ Powers(58)[size] \in Nat
    <2>1. /\ \A i \in Nat : Powers(58)[i] \in Nat
          /\ \A i \in Nat : Powers(256)[i] \in Nat
      BY ZenonT(60), PowersValues
    <2> QED BY <1>5, <2>1
  <1> QED BY <1>5, <1>6, <1>7, <1>8 DEF size

-----------------------------------------------------------------------------
(* Digits in another radix, without zeros in front: the number is the same.    *)
LEMMA Converted ==
    ASSUME NEW base \in Nat, base > 0, NEW r \in Nat, r > 0, NEW s \in Seq(Digit(base)),
           NEW size \in Nat
    PROVE  LET t == Significant(Rebased(s, base, r, size))
           IN  /\ t \in Seq(Digit(r)) /\ Led(t) /\ Len(t) <= size
               /\ Powers(base)[Len(s)] <= Powers(r)[size] => Number(t, r) = Number(s, base)
  <1> DEFINE d == Rebased(s, base, r, size)
             t == Significant(d)
  <1>1. s \in Seq(Nat) BY DigitsAreNumbers
  <1>2. d \in Seq(Digit(r)) /\ Len(d) = size BY <1>1, RebasedTyped
  <1>3. Powers(base)[Len(s)] <= Powers(r)[size] => Number(d, r) = Number(s, base)
    BY RebasedNumber
  <1> HIDE DEF d
  <1>4. d \in Seq(Nat) BY <1>2, DigitsAreNumbers
  <1>5. Digit(r) \in SUBSET Int BY DEF Digit
  <1>6. LeadingZeros(d) \in 0..Len(d) /\ t \in Seq(Digit(r)) /\ Len(t) = Len(d) - LeadingZeros(d)
        /\ Led(t)
    BY <1>2, <1>5, SignificantIs
  <1>7. Number(t, r) = Number(d, r) BY <1>4, SignificantNumber
  <1>8. Len(t) <= size BY <1>2, <1>6
  <1> QED BY <1>3, <1>6, <1>7, <1>8 DEF d

LEMMA NoDigits == ASSUME NEW r \in Nat PROVE Number(<<>>, r) = 0
  <1>1. <<>> \in Seq(Nat) /\ Len(<<>>) = 0 OBVIOUS
  <1> QED BY <1>1, UpperValues DEF Number

LEMMA Radices ==
    /\ Digit(58) = Symbol /\ Digit(256) = Byte
    /\ Symbol \in SUBSET Int /\ Byte \in SUBSET Int /\ 0 \in Symbol /\ 0 \in Byte
  BY DEF Digit, Symbol, Byte

(* What decodes to so many bytes: the zeros of the text, and the bytes whose   *)
(* number the rest of it writes.                                               *)
Decodes(text, data) ==
    \E zeros \in Nat, digits \in Seq(Symbol), bytes \in Seq(Byte) :
        /\ data = ZeroDigits(zeros) \o bytes /\ text = ZeroDigits(zeros) \o digits
        /\ Led(digits) /\ Led(bytes) /\ Number(bytes, 256) = Number(digits, 58)

LEMMA Decoded ==
    ASSUME NEW text \in Seq(Symbol \union {Unknown}), NEW size,
           solana_base58_decode(text, size) # Refused
    PROVE  Decodes(text, solana_base58_decode(text, size))
  <1> DEFINE zeros == LeadingZeros(text)
             digits == Significant(text)
             room == (Len(digits) * 733) \div 1000 + 1
             bytes == Significant(Rebased(digits, 58, 256, room))
  <1>1. /\ solana_base58_decode(text, size) = ZeroDigits(zeros) \o bytes
        /\ Unknown \notin {text[i] : i \in DOMAIN text}
    BY DEF solana_base58_decode
  <1>2. text \in Seq(Symbol)
    <2>1. \A i \in 1..Len(text) : text[i] \in Symbol BY <1>1
    <2> QED BY <2>1
  <1>3. /\ zeros \in 0..Len(text) /\ digits \in Seq(Symbol) /\ Led(digits)
        /\ text = ZeroDigits(zeros) \o digits
    BY <1>2, Radices, SignificantIs
  <1> HIDE DEF zeros, digits
  <1>4. zeros \in Nat BY <1>2, <1>3
  <1>5. Len(digits) \in Nat BY <1>3
  <1>6. room \in Nat /\ Powers(58)[Len(digits)] <= Powers(256)[room] BY <1>5, BytesAreEnough
  <1> HIDE DEF room
  <1>7. bytes \in Seq(Byte) /\ Led(bytes) /\ Number(bytes, 256) = Number(digits, 58)
    <2>1. 58 \in Nat /\ 58 > 0 /\ 256 \in Nat /\ 256 > 0 /\ digits \in Seq(Digit(58))
      BY <1>3, Radices
    <2>2. /\ bytes \in Seq(Digit(256)) /\ Led(bytes)
          /\ Powers(58)[Len(digits)] <= Powers(256)[room] => Number(bytes, 256) = Number(digits, 58)
      BY <1>6, <2>1, Converted
    <2> QED BY <1>6, <2>2, Radices
  <1> HIDE DEF bytes
  <1> QED BY ZenonT(60), <1>1, <1>3, <1>4, <1>7 DEF Decodes

LEMMA DecodedBytes ==
    ASSUME NEW text \in Seq(Symbol \union {Unknown}), NEW size,
           solana_base58_decode(text, size) # Refused
    PROVE  solana_base58_decode(text, size) \in Seq(Byte)
  <1>0. Decodes(text, solana_base58_decode(text, size)) BY Decoded
  <1>1. PICK zeros \in Nat, bytes \in Seq(Byte) :
            solana_base58_decode(text, size) = ZeroDigits(zeros) \o bytes
    BY <1>0 DEF Decodes
  <1>2. ZeroDigits(zeros) \in Seq(Byte)
    <2>1. {0} \subseteq Byte BY Radices
    <2> QED BY <2>1, ZerosTyped, SeqMonotonic
  <1> QED BY <1>1, <1>2, Concatenated

(* A text that is decoded comes back, if its bytes are no more than a name of  *)
(* 95 characters holds.                                                        *)
LEMMA NameComesBack ==
    ASSUME NEW text \in Seq(Symbol \union {Unknown}), NEW size,
           solana_base58_decode(text, size) # Refused,
           Len(solana_base58_decode(text, size)) <= 64
    PROVE  solana_base58_encode(solana_base58_decode(text, size), 96) = text
  <1> DEFINE data == solana_base58_decode(text, size)
  <1>0. Decodes(text, data) BY Decoded
  <1> HIDE DEF data
  <1>1. PICK zeros \in Nat, digits \in Seq(Symbol), bytes \in Seq(Byte) :
            /\ data = ZeroDigits(zeros) \o bytes /\ text = ZeroDigits(zeros) \o digits
            /\ Led(digits) /\ Led(bytes) /\ Number(bytes, 256) = Number(digits, 58)
    BY <1>0 DEF Decodes
  <1>2. Len(data) = zeros + Len(bytes) /\ LeadingZeros(data) = zeros /\ Significant(data) = bytes
    BY ZenonT(60), <1>1, Radices, ZerosInFront
  <1> DEFINE rest == Len(bytes)
             room == (rest * 138) \div 100 + 1
             written == IF rest = 0 THEN <<>>
                        ELSE Significant(Rebased(bytes, 256, 58, room))
  <1>3. rest \in Nat /\ Len(data) - zeros = rest /\ zeros + rest <= 64
    <2>1. rest \in Nat OBVIOUS
    <2> HIDE DEF rest
    <2>2. Len(data) = zeros + rest BY <1>2 DEF rest
    <2> QED BY <2>1, <2>2 DEF data
  <1>4. room \in Nat /\ Powers(256)[rest] <= Powers(58)[room] BY <1>3, CharactersAreEnough
  <1>5. solana_base58_encode(data, 96)
          = IF zeros + Len(written) + 1 <= 96 THEN ZeroDigits(zeros) \o written ELSE Refused
    BY <1>2, <1>3 DEF solana_base58_encode
  <1>6. room <= 89 /\ zeros + room <= 90
    <2> HIDE DEF rest
    <2> QED BY <1>3
  <1>7. written = digits /\ Len(written) <= room
    <2>1. digits \in Seq(Digit(58)) /\ bytes \in Seq(Digit(256)) BY Radices
    <2>2. CASE rest = 0
      <3>1. bytes = <<>> BY <2>2
      <3>2. Len(digits) = 0
        <4> SUFFICES ASSUME Len(digits) # 0 PROVE FALSE OBVIOUS
        <4>1. Len(bytes) < Len(digits) BY <2>2
        <4>2. bytes \in Seq(Digit(58)) BY <3>1
        <4>3. Number(bytes, 58) # Number(digits, 58) BY <1>1, <2>1, <4>1, <4>2, ShorterIsLess
        <4>4. Number(bytes, 58) = 0 /\ Number(bytes, 256) = 0
          <5>1. 58 \in Nat /\ 256 \in Nat OBVIOUS
          <5> QED BY <3>1, <5>1, NoDigits
        <4> QED BY <1>1, <4>3, <4>4
      <3>3. written = <<>> BY <2>2
      <3>4. digits = <<>> BY <3>2
      <3> QED BY <1>4, <3>3, <3>4
    <2>3. CASE rest # 0
      <3> DEFINE t == Significant(Rebased(bytes, 256, 58, room))
      <3>1. written = t BY <2>3
      <3>2. 58 \in Nat /\ 58 > 0 /\ 256 \in Nat /\ 256 > 0 OBVIOUS
      <3> HIDE DEF room
      <3>3. /\ t \in Seq(Digit(58)) /\ Led(t) /\ Len(t) <= room
            /\ Powers(256)[Len(bytes)] <= Powers(58)[room] => Number(t, 58) = Number(bytes, 256)
        BY <1>4, <2>1, <3>2, Converted
      <3>4. Number(t, 58) = Number(digits, 58) BY <1>1, <1>4, <3>3
      <3> HIDE DEF t
      <3>5. t = digits BY <1>1, <2>1, <3>2, <3>3, <3>4, WrittenOnce
      <3> QED BY <3>1, <3>3, <3>5
    <2> QED BY <2>2, <2>3
  <1> HIDE DEF written, room, rest
  <1>8. Len(written) \in Nat BY <1>7
  <1>9. zeros + Len(written) + 1 <= 96 BY <1>4, <1>6, <1>7, <1>8
  <1> QED BY <1>1, <1>5, <1>7, <1>9 DEF data

-----------------------------------------------------------------------------
(* The amount, byte by byte, and back. *)
Shifted(n) == CHOOSE f : f = [i \in 0..AmountBytes |-> IF i = 0 THEN n ELSE f[i - 1] \div 256]

LEMMA BytesCount == AmountBytes \in Nat /\ KeyLen \in Nat /\ SignatureLen \in Nat /\ KeyLen > 0
  BY SizesAssumption

LEMMA ShiftedValues ==
    ASSUME NEW n \in Nat
    PROVE  /\ Shifted(n) \in [0..AmountBytes -> Nat] /\ Shifted(n)[0] = n
           /\ \A i \in 1..AmountBytes : Shifted(n)[i] = Shifted(n)[i - 1] \div 256
  <1>1. PICK F \in [1..AmountBytes -> [Nat -> Nat]] :
            \A i \in 1..AmountBytes, v \in Nat : F[i][v] = v \div 256
    <2> DEFINE F == [i \in 1..AmountBytes |-> [v \in Nat |-> v \div 256]]
    <2>1. F \in [1..AmountBytes -> [Nat -> Nat]] OBVIOUS
    <2>2. \A i \in 1..AmountBytes, v \in Nat : F[i][v] = v \div 256 OBVIOUS
    <2> QED BY <2>1, <2>2
  <1>2. PICK f \in [0..AmountBytes -> Nat] :
            f[0] = n /\ \A i \in 1..AmountBytes : f[i] = F[i][f[i - 1]]
    <2>1. Defined(AmountBytes, Nat, n, F) BY BytesCount, Recursion
    <2> QED BY <2>1 DEF Defined
  <1>3. ASSUME NEW i \in 1..AmountBytes PROVE f[i] = f[i - 1] \div 256
    <2>1. f[i - 1] \in Nat BY BytesCount
    <2>2. F[i][f[i - 1]] = f[i - 1] \div 256 BY <1>1, <2>1
    <2> QED BY <1>2, <2>2
  <1>4. f = [i \in 0..AmountBytes |-> IF i = 0 THEN n ELSE f[i - 1] \div 256]
    <2>1. ASSUME NEW i \in 0..AmountBytes PROVE f[i] = IF i = 0 THEN n ELSE f[i - 1] \div 256
      <3>1. CASE i = 0 BY <3>1, <1>2
      <3>2. CASE i # 0
        <4>1. i \in 1..AmountBytes BY <3>2, BytesCount
        <4> QED BY <4>1, <1>3, <3>2
      <3> QED BY <3>1, <3>2
    <2> QED BY <2>1
  <1> DEFINE g == Shifted(n)
  <1>5. g = [i \in 0..AmountBytes |-> IF i = 0 THEN n ELSE g[i - 1] \div 256]
    BY ZenonT(60), <1>4 DEF Shifted
  <1> HIDE DEF g
  <1>6. g[0] = n BY <1>5, BytesCount
  <1>7. ASSUME NEW i \in 1..AmountBytes PROVE g[i] = g[i - 1] \div 256
    <2>1. i \in 0..AmountBytes /\ i # 0 BY BytesCount
    <2> QED BY <1>5, <2>1
  <1>8. \A i \in 0..AmountBytes : g[i] \in Nat
    <2> DEFINE S == {i \in 0..AmountBytes : g[i] \in Nat}
    <2>1. 0 \in S BY <1>6, BytesCount
    <2>2. ASSUME NEW i \in 1..AmountBytes, i - 1 \in S PROVE i \in S
      <3>1. i \in 0..AmountBytes /\ g[i - 1] \in Nat BY <2>2, BytesCount
      <3>2. g[i] \in Nat BY <1>7, <3>1
      <3> QED BY <3>1, <3>2
    <2>3. 0..AmountBytes \subseteq S
      <3> HIDE DEF S
      <3> QED BY <2>1, <2>2, BytesCount, Induction
    <2> QED BY <2>3
  <1>9. g \in [0..AmountBytes -> Nat] BY <1>5, <1>8
  <1> QED BY <1>6, <1>7, <1>9 DEF g

LEMMA LittleEndianIs ==
    ASSUME NEW n PROVE LittleEndian(n) = [i \in 1..AmountBytes |-> Shifted(n)[i - 1] % 256]
  BY DEF LittleEndian, Shifted

LEMMA LittleEndianBytes ==
    ASSUME NEW n \in Nat
    PROVE  LittleEndian(n) \in [1..AmountBytes -> Byte]
  <1>1. ASSUME NEW i \in 1..AmountBytes PROVE Shifted(n)[i - 1] % 256 \in Byte
    <2>1. Shifted(n)[i - 1] \in Nat BY ShiftedValues, BytesCount
    <2> QED BY <2>1 DEF Byte
  <1> QED BY <1>1, LittleEndianIs

LEMMA CapacityValues ==
    /\ \A i \in 0..AmountBytes : Capacity[i] \in Nat
    /\ Capacity[0] = 1
    /\ \A i \in 1..AmountBytes : Capacity[i] = 256 * Capacity[i - 1]
  <1>1. PICK F \in [1..AmountBytes -> [Nat -> Nat]] :
            \A i \in 1..AmountBytes, v \in Nat : F[i][v] = 256 * v
    <2> DEFINE F == [i \in 1..AmountBytes |-> [v \in Nat |-> 256 * v]]
    <2>1. F \in [1..AmountBytes -> [Nat -> Nat]] OBVIOUS
    <2>2. \A i \in 1..AmountBytes, v \in Nat : F[i][v] = 256 * v OBVIOUS
    <2> QED BY <2>1, <2>2
  <1>2. PICK f \in [0..AmountBytes -> Nat] :
            f[0] = 1 /\ \A i \in 1..AmountBytes : f[i] = F[i][f[i - 1]]
    <2>1. Defined(AmountBytes, Nat, 1, F) BY BytesCount, Recursion
    <2> QED BY <2>1 DEF Defined
  <1>3. ASSUME NEW i \in 1..AmountBytes PROVE f[i] = 256 * f[i - 1]
    <2>1. f[i - 1] \in Nat BY BytesCount
    <2>2. F[i][f[i - 1]] = 256 * f[i - 1] BY ZenonT(60), <1>1, <2>1
    <2> QED BY <1>2, <2>2
  <1>4. f = [i \in 0..AmountBytes |-> IF i = 0 THEN 1 ELSE 256 * f[i - 1]]
    <2>1. ASSUME NEW i \in 0..AmountBytes PROVE f[i] = IF i = 0 THEN 1 ELSE 256 * f[i - 1]
      <3>1. CASE i = 0 BY <3>1, <1>2
      <3>2. CASE i # 0
        <4>1. i \in 1..AmountBytes BY <3>2, BytesCount
        <4> QED BY <4>1, <1>3, <3>2
      <3> QED BY <3>1, <3>2
    <2> QED BY <2>1
  <1>5. Capacity = [i \in 0..AmountBytes |-> IF i = 0 THEN 1 ELSE 256 * Capacity[i - 1]]
    BY ZenonT(60), <1>4 DEF Capacity
  <1>6. Capacity[0] = 1 BY <1>5, BytesCount
  <1>7. ASSUME NEW i \in 1..AmountBytes PROVE Capacity[i] = 256 * Capacity[i - 1]
    <2>1. i \in 0..AmountBytes /\ i # 0 BY BytesCount
    <2> QED BY <1>5, <2>1
  <1>8. \A i \in 0..AmountBytes : Capacity[i] \in Nat
    <2> DEFINE S == {i \in 0..AmountBytes : Capacity[i] \in Nat}
    <2>1. 0 \in S BY <1>6, BytesCount
    <2>2. ASSUME NEW i \in 1..AmountBytes, i - 1 \in S PROVE i \in S
      <3>1. i \in 0..AmountBytes /\ Capacity[i - 1] \in Nat BY <2>2, BytesCount
      <3>2. Capacity[i] \in Nat BY <1>7, <3>1
      <3> QED BY <3>1, <3>2
    <2>3. 0..AmountBytes \subseteq S
      <3> HIDE DEF S
      <3> QED BY <2>1, <2>2, BytesCount, Induction
    <2> QED BY <2>3
  <1> QED BY <1>6, <1>7, <1>8

(* What is left of an amount after its bytes is nothing. *)
LEMMA ShiftedOut ==
    ASSUME NEW n \in 0..(AmountLimit - 1) PROVE Shifted(n)[AmountBytes] = 0
  <1>1. n \in Nat /\ n < Capacity[AmountBytes] BY Sizes, LimitsAssumption
  <1> DEFINE s == Shifted(n)
             S == {i \in 0..AmountBytes : s[i] < Capacity[AmountBytes - i]}
  <1>2. /\ s \in [0..AmountBytes -> Nat] /\ s[0] = n
        /\ \A i \in 1..AmountBytes : s[i] = s[i - 1] \div 256
    BY <1>1, ShiftedValues
  <1> HIDE DEF s
  <1>3. 0 \in S BY <1>1, <1>2, BytesCount
  <1>4. ASSUME NEW i \in 1..AmountBytes, i - 1 \in S PROVE i \in S
    <2> DEFINE c == Capacity[AmountBytes - i]
               before == s[i - 1]
    <2>1. AmountBytes - i \in 0..AmountBytes /\ AmountBytes - (i - 1) \in 1..AmountBytes
          /\ i \in 0..AmountBytes /\ i - 1 \in 0..AmountBytes
          /\ AmountBytes - (i - 1) - 1 = AmountBytes - i
      BY BytesCount
    <2>2. c \in Nat /\ Capacity[AmountBytes - (i - 1)] = 256 * c BY <2>1, CapacityValues
    <2>3. before \in Nat /\ before < 256 * c BY <1>2, <1>4, <2>1, <2>2
    <2>4. s[i] = before \div 256 BY <1>2
    <2> HIDE DEF c, before
    <2>5. before \div 256 < c BY <2>2, <2>3
    <2>6. s[i] < c BY <2>4, <2>5
    <2> QED BY <2>1, <2>6 DEF c
  <1>5. 0..AmountBytes \subseteq S
    <2> HIDE DEF S
    <2> QED BY <1>3, <1>4, BytesCount, Induction
  <1>6. s[AmountBytes] \in Nat /\ s[AmountBytes] < Capacity[AmountBytes - AmountBytes]
    BY <1>2, <1>5, BytesCount
  <1>7. AmountBytes - AmountBytes = 0 BY BytesCount
  <1> QED BY <1>6, <1>7, CapacityValues DEF s

(* The node reads the amount that was written. *)
LEMMA AmountRead ==
    ASSUME NEW n \in 0..(AmountLimit - 1), NEW bytes,
           \A j \in 1..AmountBytes : bytes[4 + j] = LittleEndian(n)[j]
    PROVE  AmountOf(bytes) = n
  <1> DEFINE s == Shifted(n)
             A == AmountBytes
  <1>1. n \in Nat /\ A \in Nat BY Sizes, BytesCount
  <1>2. /\ s \in [0..A -> Nat] /\ s[0] = n /\ s[A] = 0
        /\ \A i \in 1..A : s[i] = s[i - 1] \div 256
    BY <1>1, ShiftedValues, ShiftedOut
  <1>3. ASSUME NEW i \in 1..A PROVE bytes[5 + A - i] = s[A - i] % 256
    <2>1. A + 1 - i \in 1..A /\ 4 + (A + 1 - i) = 5 + A - i /\ (A + 1 - i) - 1 = A - i BY <1>1
    <2>2. bytes[4 + (A + 1 - i)] = LittleEndian(n)[A + 1 - i] BY <2>1
    <2>3. LittleEndian(n)[A + 1 - i] = s[(A + 1 - i) - 1] % 256 BY <2>1, LittleEndianIs
    <2> QED BY <2>1, <2>2, <2>3
  <1> HIDE DEF s
  <1> DEFINE f == [i \in 0..A |-> s[A - i]]
  <1>4. f = [i \in 0..A |-> IF i = 0 THEN 0 ELSE 256 * f[i - 1] + bytes[5 + A - i]]
    <2>1. ASSUME NEW i \in 0..A
          PROVE  s[A - i] = IF i = 0 THEN 0 ELSE 256 * f[i - 1] + bytes[5 + A - i]
      <3>1. CASE i = 0 BY <3>1, <1>1, <1>2
      <3>2. CASE i # 0
        <4>1. i \in 1..A /\ i - 1 \in 0..A /\ A - (i - 1) \in 1..A /\ A - (i - 1) - 1 = A - i
              /\ A - i \in 0..A
          BY <3>2, <1>1
        <4>2. f[i - 1] = s[A - (i - 1)] BY <4>1
        <4>3. s[A - (i - 1)] = s[A - i] \div 256 BY <4>1, <1>2
        <4>4. s[A - i] \in Nat BY <4>1, <1>2
        <4>5. s[A - i] = 256 * (s[A - i] \div 256) + (s[A - i] % 256) BY <4>4
        <4>6. bytes[5 + A - i] = s[A - i] % 256 BY <4>1, <1>3
        <4>7. s[A - i] = 256 * f[i - 1] + bytes[5 + A - i] BY <4>2, <4>3, <4>5, <4>6
        <4> QED BY <3>2, <4>7
      <3> QED BY <3>1, <3>2
    <2> QED BY <2>1
  <1> HIDE DEF f
  <1> DEFINE g == CHOOSE g : g = [i \in 0..A |-> IF i = 0 THEN 0 ELSE 256 * g[i - 1] + bytes[5 + A - i]]
  <1>5. g = [i \in 0..A |-> IF i = 0 THEN 0 ELSE 256 * g[i - 1] + bytes[5 + A - i]]
    BY <1>4
  <1>6. AmountOf(bytes) = g[A] BY DEF AmountOf
  <1> HIDE DEF g
  <1>7. 0..A \subseteq {i \in 0..A : g[i] = f[i]}
    <2> DEFINE S == {i \in 0..A : g[i] = f[i]}
    <2>1. 0 \in S BY <1>1, <1>4, <1>5
    <2>2. ASSUME NEW i \in 1..A, i - 1 \in S PROVE i \in S
      <3>1. i \in 0..A /\ i # 0 /\ g[i - 1] = f[i - 1] BY <1>1, <2>2
      <3>2. g[i] = 256 * g[i - 1] + bytes[5 + A - i] BY <3>1, <1>5
      <3>3. f[i] = 256 * f[i - 1] + bytes[5 + A - i] BY <3>1, <1>4
      <3> QED BY <3>1, <3>2, <3>3
    <2> HIDE DEF S
    <2>3. 0..A \subseteq S BY <1>1, <2>1, <2>2, Induction
    <2> QED BY <2>3 DEF S
  <1>8. g[A] = f[A] BY <1>1, <1>7
  <1>9. f[A] = n
    <2>1. f[A] = s[A - A] /\ A - A = 0 BY <1>1 DEF f
    <2> QED BY <2>1, <1>2
  <1> QED BY <1>6, <1>8, <1>9

-----------------------------------------------------------------------------
(* What stands where in a sequence that is put together piece by piece. *)
Begins(d, e) == Len(d) <= Len(e) /\ \A i \in 1..Len(d) : e[i] = d[i]

Stands(piece, d, place) ==
    /\ place \in Nat \ {0} /\ place - 1 + Len(piece) <= Len(d)
    /\ \A i \in 1..Len(piece) : d[place - 1 + i] = piece[i]

LEMMA Appended ==
    ASSUME NEW S, NEW d \in Seq(S), NEW e \in Seq(S)
    PROVE  /\ d \o e \in Seq(S) /\ Len(d \o e) = Len(d) + Len(e) /\ Len(d) \in Nat /\ Len(e) \in Nat
           /\ Begins(d, d \o e) /\ Stands(e, d \o e, Len(d) + 1)
  <1> DEFINE f == d \o e
  <1>1. /\ f \in Seq(S) /\ Len(f) = Len(d) + Len(e) /\ Len(d) \in Nat /\ Len(e) \in Nat
        /\ \A i \in 1..Len(d) : f[i] = d[i]
        /\ \A i \in (Len(d) + 1)..(Len(d) + Len(e)) : f[i] = e[i - Len(d)]
    OBVIOUS
  <1> HIDE DEF f
  <1>2. Begins(d, f) BY <1>1 DEF Begins
  <1>3. ASSUME NEW i \in 1..Len(e) PROVE f[(Len(d) + 1) - 1 + i] = e[i]
    <2>1. (Len(d) + 1) - 1 + i = Len(d) + i /\ Len(d) + i \in (Len(d) + 1)..(Len(d) + Len(e))
          /\ (Len(d) + i) - Len(d) = i
      BY <1>1
    <2> QED BY <1>1, <2>1
  <1>4. Stands(e, f, Len(d) + 1) BY <1>1, <1>3 DEF Stands
  <1> QED BY <1>1, <1>2, <1>4 DEF f

LEMMA StandsStill ==
    ASSUME NEW S, NEW d \in Seq(S), NEW e \in Seq(S), NEW piece \in Seq(S), NEW place,
           Begins(d, e), Stands(piece, d, place)
    PROVE  Stands(piece, e, place)
  <1>1. Len(d) \in Nat /\ Len(e) \in Nat /\ Len(piece) \in Nat OBVIOUS
  <1>2. place \in Nat \ {0} /\ place - 1 + Len(piece) <= Len(e) BY <1>1 DEF Begins, Stands
  <1>3. ASSUME NEW i \in 1..Len(piece) PROVE e[place - 1 + i] = piece[i]
    <2>1. place - 1 + i \in 1..Len(d) BY <1>1, <1>2 DEF Stands
    <2> QED BY <2>1 DEF Begins, Stands
  <1> QED BY <1>2, <1>3 DEF Stands

LEMMA BeginsFarther ==
    ASSUME NEW S, NEW d \in Seq(S), NEW e \in Seq(S), NEW f \in Seq(S), Begins(d, e), Begins(e, f)
    PROVE  Begins(d, f)
  <1>1. Len(d) \in Nat /\ Len(e) \in Nat /\ Len(f) \in Nat OBVIOUS
  <1> QED BY <1>1 DEF Begins

(* A part of a piece. *)
LEMMA PartStands ==
    ASSUME NEW S, NEW d \in Seq(S), NEW e \in Seq(S), NEW piece \in Seq(S), NEW place, NEW k,
           Stands(e, d, place), Stands(piece, e, k)
    PROVE  Stands(piece, d, place + k - 1)
  <1>1. Len(d) \in Nat /\ Len(e) \in Nat /\ Len(piece) \in Nat OBVIOUS
  <1>2. place \in Nat \ {0} /\ k \in Nat \ {0} /\ k - 1 + Len(piece) <= Len(e)
        /\ place - 1 + Len(e) <= Len(d)
    BY DEF Stands
  <1>3. ASSUME NEW i \in 1..Len(piece) PROVE d[(place + k - 1) - 1 + i] = piece[i]
    <2>1. k \in Nat /\ place \in Nat /\ k > 0 /\ i \in Nat /\ i > 0 /\ i <= Len(piece) BY <1>1, <1>2
    <2>2. k - 1 + i \in 1..Len(e) /\ place - 1 + (k - 1 + i) = (place + k - 1) - 1 + i
      BY <1>1, <1>2, <2>1
    <2>3. d[place - 1 + (k - 1 + i)] = e[k - 1 + i] BY <2>2 DEF Stands
    <2>4. e[k - 1 + i] = piece[i] BY DEF Stands
    <2> QED BY <2>2, <2>3, <2>4
  <1> QED BY <1>1, <1>2, <1>3 DEF Stands

(* What stands somewhere is what is read there. *)
LEMMA StandingRead ==
    ASSUME NEW S, NEW d \in Seq(S), NEW piece \in Seq(S), NEW place, Stands(piece, d, place)
    PROVE  /\ Slice(d, place, Len(piece)) = piece
           /\ \A i \in 1..Len(piece) : OctetAt(d, place - 1 + i) = piece[i]
           /\ Len(piece) > 0 => OctetAt(d, place) = piece[1]
  <1> DEFINE n == Len(piece)
             to == place + n - 1
  <1>1. Len(d) \in Nat /\ n \in Nat /\ place \in Nat \ {0} /\ to <= Len(d) /\ to \in Int
        /\ \A i \in 1..n : d[place - 1 + i] = piece[i]
    BY DEF Stands
  <1>2. Slice(d, place, n) = SubSeq(d, place, to) BY DEF Slice
  <1>3. SubSeq(d, place, to) = piece
    <2>1. to - place + 1 = n /\ (place <= to => to - place + 1 = n) /\ (place > to => n = 0)
      BY <1>1
    <2>2. \A i \in place..to : d[i] \in S
      <3>1. \A i \in place..to : i \in 1..Len(d) BY <1>1
      <3> QED BY <3>1
    <2>3. /\ SubSeq(d, place, to) \in Seq(S) /\ Len(SubSeq(d, place, to)) = n
          /\ \A i \in 1..n : SubSeq(d, place, to)[i] = d[place + i - 1]
      <3> HIDE DEF to
      <3> QED BY <1>1, <2>1, <2>2, SubSeqProperties
    <2>4. \A i \in 1..n : place + i - 1 = place - 1 + i BY <1>1
    <2>5. \A i \in 1..n : SubSeq(d, place, to)[i] = piece[i] BY <1>1, <2>3, <2>4
    <2> QED BY <2>3, <2>5, SeqEqual
  <1>4. ASSUME NEW i \in 1..n PROVE OctetAt(d, place - 1 + i) = piece[i]
    <2>1. place - 1 + i <= Len(d) BY <1>1
    <2> QED BY <1>1, <2>1 DEF OctetAt
  <1>5. n > 0 => place - 1 + 1 = place /\ 1 \in 1..n BY <1>1
  <1> QED BY <1>2, <1>3, <1>4, <1>5

-----------------------------------------------------------------------------
(* A transfer whose parts have their sizes. *)
Key == [1..KeyLen -> Byte]

Sized(t) ==
    /\ t.from \in Key /\ t.to \in Key /\ t.blockhash \in Key
    /\ t.lamports \in 0..(AmountLimit - 1)
    /\ t.memo \in Seq(Byte) /\ Len(t.memo) <= MaxMemo

(* Its message: the pieces that both programs append. *)
Instructions(t) == IF HasMemo(t) THEN 2 ELSE 1

Accounts(t) == t.from \o t.to \o SystemProgram \o IF HasMemo(t) THEN MemoProgram ELSE <<>>

Pay(t) == <<2>> \o <<2>> \o <<0, 1>> \o <<4 + AmountBytes>> \o InstructionData(t)

NoteOf(t) == <<3>> \o <<0>> \o <<Len(t.memo)>> \o t.memo

Note(t) == IF HasMemo(t) THEN NoteOf(t) ELSE <<>>

Prelude(t) == <<1, 0, Instructions(t)>> \o <<2 + Instructions(t)>>

Message(t) ==
    Prelude(t) \o Accounts(t) \o t.blockhash \o <<Instructions(t)>> \o Pay(t) \o Note(t)

LEMMA Widths ==
    /\ KeyLen \in Nat /\ KeyLen > 0 /\ SignatureLen \in Nat /\ AmountBytes \in Nat
    /\ MaxMemo \in Nat /\ MaxMemo < 128 /\ 4 + AmountBytes < 128
    /\ MaxMessage \in Nat /\ MaxTransaction \in Nat /\ MaxBase64 \in Nat
    /\ LongestMessage \in Nat /\ LongestMessage <= MaxMessage
    /\ 1 + SignatureLen + LongestMessage <= MaxTransaction
    /\ EncodedLen(1 + SignatureLen + LongestMessage) < MaxBase64
    /\ SystemProgram \in Key /\ MemoProgram \in Key /\ SystemProgram # MemoProgram
  <1>1. /\ KeyLen \in Nat /\ SignatureLen \in Nat /\ AmountBytes \in Nat /\ MaxMemo \in Nat
        /\ MaxMessage \in Nat /\ MaxTransaction \in Nat /\ MaxBase64 \in Nat
    BY SizesAssumption
  <1>2. /\ KeyLen > 0 /\ MaxMemo < 128 /\ 4 + AmountBytes < 128
        /\ LongestMessage <= MaxMessage
        /\ 1 + SignatureLen + LongestMessage <= MaxTransaction
        /\ EncodedLen(1 + SignatureLen + LongestMessage) < MaxBase64
        /\ MemoProgram \in [1..KeyLen -> Byte] \ {SystemProgram}
    BY SizesAssumption
  <1>3. LongestMessage \in Nat BY <1>1 DEF LongestMessage
  <1>4. SystemProgram \in Key BY DEF SystemProgram, Key, Byte
  <1> QED BY <1>1, <1>2, <1>3, <1>4 DEF Key

LEMMA KeyIsSequence == ASSUME NEW k \in Key PROVE k \in Seq(Byte) /\ Len(k) = KeyLen
  BY Widths DEF Key

LEMMA BelowRange == ASSUME NEW v \in Int, NEW a \in Int, NEW b \in Int, v < a PROVE v \notin a..b
  OBVIOUS

LEMMA UpTo ==
    ASSUME NEW b \in Nat, NEW m \in Nat, m <= b, NEW v, v \in Nat, v <= m PROVE v \in 0..b
  OBVIOUS

LEMMA ShortvecShort == ASSUME NEW v \in 0..127 PROVE Shortvec(v) = <<v>>
  <1> DEFINE a == 128
             b == 128 * 128 - 1
  <1>1. v \in Int /\ v < 128 /\ a \in Int /\ b \in Int /\ v < a OBVIOUS
  <1> HIDE DEF a, b
  <1>2. v \notin a..b BY <1>1, BelowRange
  <1> QED BY <1>1, <1>2 DEF Shortvec, a, b

LEMMA MemoSized ==
    ASSUME NEW t, Sized(t) PROVE t.memo \in Seq(Byte) /\ Len(t.memo) \in 0..127
  <1> DEFINE m == t.memo
  <1>1. m \in Seq(Byte) /\ Len(m) <= MaxMemo BY DEF Sized
  <1> HIDE DEF m
  <1>2. Len(m) \in Nat BY <1>1
  <1>3. MaxMemo \in Nat /\ MaxMemo <= 127 BY Widths
  <1>4. Len(m) \in 0..127 BY <1>1, <1>2, <1>3, UpTo
  <1> QED BY <1>1, <1>4 DEF m

LEMMA ShortCounts ==
    ASSUME NEW n \in {1, 2}
    PROVE  /\ Shortvec(0) = <<0>> /\ Shortvec(1) = <<1>> /\ Shortvec(2) = <<2>>
           /\ Shortvec(3) = <<3>> /\ Shortvec(4) = <<4>>
           /\ Shortvec(n) = <<n>> /\ Shortvec(2 + n) = <<2 + n>>
           /\ Shortvec(4 + AmountBytes) = <<4 + AmountBytes>>
  <1>1. {0, 1, 2, 3, 4, n, 2 + n} \subseteq 0..127 OBVIOUS
  <1>2. 4 + AmountBytes \in 0..127 BY Widths
  <1> QED BY <1>1, <1>2, ShortvecShort

LEMMA DataSized ==
    ASSUME NEW t, Sized(t)
    PROVE  /\ LittleEndian(t.lamports) \in [1..AmountBytes -> Byte]
           /\ InstructionData(t) \in Seq(Byte) /\ Len(InstructionData(t)) = 4 + AmountBytes
  <1>1. t.lamports \in Nat BY Sizes DEF Sized
  <1>2. LittleEndian(t.lamports) \in [1..AmountBytes -> Byte] BY <1>1, LittleEndianBytes
  <1> DEFINE l == LittleEndian(t.lamports)
             h == <<2, 0, 0, 0>>
  <1>3. l \in Seq(Byte) /\ Len(l) = AmountBytes BY <1>2, Widths
  <1>4. h \in Seq(Byte) /\ Len(h) = 4 BY DEF Byte
  <1>5. InstructionData(t) = h \o l BY DEF InstructionData
  <1> HIDE DEF l, h
  <1> QED BY <1>2, <1>3, <1>4, <1>5, Appended DEF l

(* How long each piece is. *)
LEMMA PiecesSized ==
    ASSUME NEW t, Sized(t)
    PROVE  /\ Instructions(t) \in {1, 2}
           /\ Accounts(t) \in Seq(Byte) /\ Len(Accounts(t)) = (2 + Instructions(t)) * KeyLen
           /\ Pay(t) \in Seq(Byte) /\ Len(Pay(t)) = 9 + AmountBytes
           /\ Note(t) \in Seq(Byte)
           /\ Len(Note(t)) = IF HasMemo(t) THEN 3 + Len(t.memo) ELSE 0
           /\ Prelude(t) \in Seq(Byte) /\ Len(Prelude(t)) = 4
  <1>1. Instructions(t) \in {1, 2} BY DEF Instructions
  <1>2. /\ t.from \in Seq(Byte) /\ t.to \in Seq(Byte) /\ SystemProgram \in Seq(Byte)
        /\ MemoProgram \in Seq(Byte) /\ KeyLen \in Nat
        /\ Len(t.from) = KeyLen /\ Len(t.to) = KeyLen /\ Len(SystemProgram) = KeyLen
        /\ Len(MemoProgram) = KeyLen
    BY KeyIsSequence, Widths DEF Sized
  <1>3. Accounts(t) \in Seq(Byte) /\ Len(Accounts(t)) = (2 + Instructions(t)) * KeyLen
    <2> DEFINE b == IF HasMemo(t) THEN MemoProgram ELSE <<>>
    <2>1. b \in Seq(Byte) /\ Len(b) = (Instructions(t) - 1) * KeyLen
      <3>1. CASE HasMemo(t) BY <3>1, <1>2 DEF Instructions
      <3>2. CASE ~HasMemo(t) BY <3>2, <1>2 DEF Instructions
      <3> QED BY <3>1, <3>2
    <2>2. Accounts(t) = t.from \o t.to \o SystemProgram \o b BY DEF Accounts
    <2> HIDE DEF b
    <2>3. t.from \o t.to \o SystemProgram \in Seq(Byte)
          /\ Len(t.from \o t.to \o SystemProgram) = 3 * KeyLen
      <3> DEFINE a == t.from
                 c == t.to
      <3>1. a \in Seq(Byte) /\ c \in Seq(Byte) /\ Len(a) = KeyLen /\ Len(c) = KeyLen BY <1>2
      <3> HIDE DEF a, c
      <3>2. a \o c \in Seq(Byte) /\ Len(a \o c) = KeyLen + KeyLen BY <3>1, Appended
      <3> DEFINE ac == a \o c
      <3> HIDE DEF ac
      <3>3. ac \in Seq(Byte) /\ Len(ac) = KeyLen + KeyLen BY <3>2 DEF ac
      <3>4. ac \o SystemProgram \in Seq(Byte) /\ Len(ac \o SystemProgram) = Len(ac) + KeyLen
        BY <1>2, <3>3, Appended
      <3>5. Len(ac \o SystemProgram) = 3 * KeyLen BY <1>2, <3>3, <3>4
      <3> QED BY <3>4, <3>5 DEF a, c, ac
    <2>4. Accounts(t) \in Seq(Byte) /\ Len(Accounts(t)) = 3 * KeyLen + (Instructions(t) - 1) * KeyLen
      BY ZenonT(60), <2>1, <2>2, <2>3, Appended
    <2> QED BY <1>1, <1>2, <2>4
  <1>4. Pay(t) \in Seq(Byte) /\ Len(Pay(t)) = 9 + AmountBytes
    <2>1. 4 + AmountBytes \in Byte BY Widths DEF Byte
    <2>2. <<2>> \o <<2>> \o <<0, 1>> \o <<4 + AmountBytes>> \in Seq(Byte)
          /\ Len(<<2>> \o <<2>> \o <<0, 1>> \o <<4 + AmountBytes>>) = 5
      <3>1. <<2>> \o <<2>> \in Seq(Byte) /\ Len(<<2>> \o <<2>>) = 2 BY DEF Byte
      <3>2. <<2>> \o <<2>> \o <<0, 1>> \in Seq(Byte) /\ Len(<<2>> \o <<2>> \o <<0, 1>>) = 4
        BY <3>1 DEF Byte
      <3> QED BY <2>1, <3>2
    <2> QED BY <2>2, DataSized, Widths, Appended DEF Pay
  <1>5. Note(t) \in Seq(Byte) /\ Len(Note(t)) = IF HasMemo(t) THEN 3 + Len(t.memo) ELSE 0
    <2>1. t.memo \in Seq(Byte) /\ Len(t.memo) \in Byte
      <3>1. \A i \in 0..127 : i \in Byte BY DEF Byte
      <3> QED BY <3>1, MemoSized
    <2> DEFINE three == <<3>> \o <<0>> \o <<Len(t.memo)>>
    <2>2. three \in Seq(Byte) /\ Len(three) = 3
      <3>1. <<3>> \o <<0>> \in Seq(Byte) /\ Len(<<3>> \o <<0>>) = 2 BY DEF Byte
      <3> QED BY <2>1, <3>1
    <2>3. NoteOf(t) = three \o t.memo BY DEF NoteOf
    <2> HIDE DEF three
    <2>4. NoteOf(t) \in Seq(Byte) /\ Len(NoteOf(t)) = 3 + Len(t.memo) BY <2>1, <2>2, <2>3, Appended
    <2> QED BY <2>4 DEF Note
  <1>6. Prelude(t) \in Seq(Byte) /\ Len(Prelude(t)) = 4 BY <1>1 DEF Prelude, Byte
  <1> QED BY <1>1, <1>3, <1>4, <1>5, <1>6

LEMMA OneMore ==
    ASSUME NEW S, NEW x \in Seq(S), NEW l \in Seq(S), NEW d \in Seq(S), NEW long, long = x \o l
    PROVE  long \o d = x \o (l \o d) /\ l \o d \in Seq(S)
  <1>1. (x \o l) \o d = x \o (l \o d) BY ConcatAssociative
  <1> QED BY <1>1

LEMMA FiveTogether ==
    ASSUME NEW S, NEW x \in Seq(S), NEW a \in Seq(S), NEW b \in Seq(S), NEW c \in Seq(S),
           NEW d \in Seq(S), NEW e \in Seq(S)
    PROVE  x \o a \o b \o c \o d \o e = x \o (a \o b \o c \o d \o e)
  <1>1. x \o a \o b = x \o (a \o b) /\ a \o b \in Seq(S) BY OneMore
  <1>2. x \o a \o b \o c = x \o (a \o b \o c) /\ a \o b \o c \in Seq(S) BY SMTT(30), <1>1, OneMore
  <1>3. x \o a \o b \o c \o d = x \o (a \o b \o c \o d) /\ a \o b \o c \o d \in Seq(S)
    <2> DEFINE l == a \o b \o c
               long == x \o a \o b \o c
    <2>1. l \in Seq(S) /\ long = x \o l BY <1>2
    <2> HIDE DEF l, long
    <2>2. long \o d = x \o (l \o d) /\ l \o d \in Seq(S) BY SMTT(30), <2>1, OneMore
    <2> QED BY <2>2 DEF l, long
  <1> DEFINE l == a \o b \o c \o d
             long == x \o a \o b \o c \o d
  <1>4. l \in Seq(S) /\ long = x \o l BY <1>3
  <1> HIDE DEF l, long
  <1>5. long \o e = x \o (l \o e) BY SMTT(30), <1>4, OneMore
  <1> QED BY <1>5 DEF l, long

LEMMA CliMessageIs ==
    ASSUME NEW t, Sized(t) PROVE CliMessage(t) = Bounded(Message(t), MaxMessage)
  <1> DEFINE n == Instructions(t)
             x == Prelude(t) \o Accounts(t) \o t.blockhash \o <<n>>
             data == InstructionData(t)
  <1>1. /\ Accounts(t) \in Seq(Byte) /\ Prelude(t) \in Seq(Byte) /\ t.blockhash \in Seq(Byte)
        /\ n \in {1, 2}
    BY PiecesSized, KeyIsSequence DEF Sized
  <1>2. x \in Seq(Byte)
    <2>1. <<n>> \in Seq(Byte) BY <1>1 DEF Byte
    <2> HIDE DEF n
    <2>2. Prelude(t) \o Accounts(t) \in Seq(Byte) BY <1>1, Appended
    <2>3. Prelude(t) \o Accounts(t) \o t.blockhash \in Seq(Byte) BY <1>1, <2>2, Appended
    <2> QED BY <2>1, <2>3, Appended
  <1>3. Shortvec(2) = <<2>> /\ Shortvec(0) = <<0>> /\ Shortvec(n) = <<n>>
        /\ Shortvec(2 + n) = <<2 + n>>
    BY <1>1, ShortCounts
  <1>4. Shortvec(Len(data)) = <<4 + AmountBytes>> /\ data \in Seq(Byte)
    BY <1>1, DataSized, ShortCounts
  <1>5. x \o <<2>> \o <<2>> \o <<0, 1>> \o <<4 + AmountBytes>> \o data = x \o Pay(t)
    <2>1. 4 + AmountBytes \in Byte BY Widths DEF Byte
    <2>2. <<2>> \in Seq(Byte) /\ <<0, 1>> \in Seq(Byte) /\ <<4 + AmountBytes>> \in Seq(Byte)
      BY <2>1 DEF Byte
    <2> HIDE DEF x, data
    <2>3. x \o <<2>> \o <<2>> \o <<0, 1>> \o <<4 + AmountBytes>> \o data
            = x \o (<<2>> \o <<2>> \o <<0, 1>> \o <<4 + AmountBytes>> \o data)
      BY SMTT(30), <1>2, <1>4, <2>2, FiveTogether
    <2> QED BY <2>3 DEF Pay, data
  <1>6. Len(t.memo) \in 0..127 BY MemoSized
  <1>7. Shortvec(Len(t.memo)) = <<Len(t.memo)>> BY <1>6, ShortvecShort
  <1>8. CASE HasMemo(t)
    <2>1. n = 2 BY <1>8 DEF Instructions
    <2>2. CliHeader(t) = <<1, 0, 2>> BY <1>8 DEF CliHeader
    <2>3. Shortvec(4) = <<4>> /\ 2 + 2 = 4 /\ 4 - 1 = 3 BY <1>1, ShortCounts
    <2>4. Prelude(t) = <<1, 0, 2>> \o <<4>> BY <2>1, <2>3 DEF Prelude
    <2>5. CliMessage(t) = Bounded(Prelude(t) \o Accounts(t) \o t.blockhash \o <<2>>
                  \o <<2>> \o <<2>> \o <<0, 1>>
                  \o <<4 + AmountBytes>> \o data \o (<<3>> \o <<0>> \o <<Len(t.memo)>> \o t.memo),
                MaxMessage)
      BY <1>3, <1>4, <1>7, <1>8, <2>1, <2>2, <2>3, <2>4 DEF CliMessage, Accounts
    <2>6. Note(t) = <<3>> \o <<0>> \o <<Len(t.memo)>> \o t.memo BY <1>8 DEF Note, NoteOf
    <2> QED BY <1>5, <2>1, <2>5, <2>6 DEF Message
  <1>9. CASE ~HasMemo(t)
    <2>1. n = 1 BY <1>9 DEF Instructions
    <2>2. CliHeader(t) = <<1, 0, 1>> BY <1>9 DEF CliHeader
    <2>3. Shortvec(3) = <<3>> /\ Shortvec(1) = <<1>> /\ 2 + 1 = 3 BY <1>1, ShortCounts
    <2>4. Prelude(t) = <<1, 0, 1>> \o <<3>> BY <2>1, <2>3 DEF Prelude
    <2>5. CliMessage(t) = Bounded(Prelude(t) \o Accounts(t) \o t.blockhash \o <<1>>
                  \o <<2>> \o <<2>> \o <<0, 1>>
                  \o <<4 + AmountBytes>> \o data \o <<>>,
                MaxMessage)
      BY <1>3, <1>4, <1>9, <2>1, <2>2, <2>3, <2>4 DEF CliMessage, Accounts
    <2>6. Note(t) = <<>> BY <1>9 DEF Note
    <2> QED BY <1>5, <2>1, <2>5, <2>6 DEF Message
  <1> QED BY <1>8, <1>9

LEMMA DesktopMessageIs == ASSUME NEW t, Sized(t) PROVE DesktopMessage(t) = Message(t)
  <1> DEFINE n == Len(DesktopPrograms(t))
  <1>1. n = Instructions(t) BY DEF DesktopPrograms, Instructions
  <1>2. Instructions(t) \in {1, 2} BY DEF Instructions
  <1>3. Shortvec(2) = <<2>> /\ Shortvec(0) = <<0>> /\ Shortvec(n) = <<n>>
        /\ Shortvec(2 + n) = <<2 + n>>
    BY <1>1, <1>2, ShortCounts
  <1>4. Shortvec(4 + AmountBytes) = <<4 + AmountBytes>> BY <1>2, ShortCounts
  <1>5. Len(t.memo) \in 0..127 BY MemoSized
  <1>6. Shortvec(Len(t.memo)) = <<Len(t.memo)>> BY <1>5, ShortvecShort
  <1>7. (IF HasMemo(t) THEN DesktopNote(t) ELSE <<>>) = Note(t)
    <2>1. CASE HasMemo(t)
      <3>1. 1 + Len(DesktopPrograms(t)) = 3 BY <2>1 DEF DesktopPrograms
      <3> QED BY <1>3, <1>6, <2>1, <3>1 DEF DesktopNote, Note, NoteOf
    <2>2. CASE ~HasMemo(t) BY <2>2 DEF Note
    <2> QED BY <2>1, <2>2
  <1> HIDE DEF n
  <1> QED BY <1>1, <1>3, <1>4, <1>7 DEF DesktopMessage, Message, Prelude, Accounts, Pay, n

-----------------------------------------------------------------------------
(* The message fits, and so does the transaction that is signed over it. *)
LEMMA Joined ==
    ASSUME NEW S, NEW d \in Seq(S), NEW e \in Seq(S)
    PROVE  d \o e \in Seq(S) /\ Len(d \o e) = Len(d) + Len(e)
  OBVIOUS

LEMMA MessageSized ==
    ASSUME NEW t, Sized(t)
    PROVE  /\ Message(t) \in Seq(Byte) /\ Len(Message(t)) \in 1..LongestMessage
  <1> DEFINE n == Instructions(t)
             keys == (2 + n) * KeyLen
             memo == IF HasMemo(t) THEN 3 + Len(t.memo) ELSE 0
             prelude == Prelude(t)
             accounts == Accounts(t)
             hash == t.blockhash
             count == <<n>>
             pay == Pay(t)
             note == Note(t)
  <1>1. /\ n \in {1, 2} /\ count \in Seq(Byte) /\ Len(count) = 1
        /\ accounts \in Seq(Byte) /\ Len(accounts) = keys
        /\ pay \in Seq(Byte) /\ Len(pay) = 9 + AmountBytes
        /\ note \in Seq(Byte) /\ Len(note) = memo
        /\ prelude \in Seq(Byte) /\ Len(prelude) = 4
        /\ hash \in Seq(Byte) /\ Len(hash) = KeyLen
    <2>1. n \in {1, 2} BY DEF Instructions
    <2>2. count \in Seq(Byte) /\ Len(count) = 1 BY <2>1 DEF Byte
    <2> QED BY <2>1, <2>2, PiecesSized, KeyIsSequence DEF Sized
  <1>2. Message(t) = prelude \o accounts \o hash \o count \o pay \o note BY DEF Message
  <1> HIDE DEF prelude, accounts, hash, count, pay, note, keys
  <1> DEFINE m1 == prelude \o accounts
             m2 == m1 \o hash
             m3 == m2 \o count
             m4 == m3 \o pay
             m5 == m4 \o note
  <1>3. m1 \in Seq(Byte) /\ Len(m1) = 4 + keys
    <2>1. prelude \in Seq(Byte) BY <1>1
    <2>2. accounts \in Seq(Byte) /\ Len(accounts) = keys BY <1>1
    <2>3. m1 \in Seq(Byte) /\ Len(m1) = Len(prelude) + Len(accounts) BY <2>1, <2>2, Joined
    <2> QED BY <1>1, <2>2, <2>3
  <1> HIDE DEF m1
  <1>4. m2 \in Seq(Byte) /\ Len(m2) = Len(m1) + KeyLen
    <2>1. m1 \in Seq(Byte) BY <1>3
    <2>2. hash \in Seq(Byte) /\ Len(hash) = KeyLen BY <1>1
    <2>3. m2 \in Seq(Byte) /\ Len(m2) = Len(m1) + Len(hash) BY <2>1, <2>2, Joined
    <2> QED BY <1>3, <2>2, <2>3
  <1> HIDE DEF m2
  <1>5. m3 \in Seq(Byte) /\ Len(m3) = Len(m2) + 1
    <2>1. m2 \in Seq(Byte) BY <1>4
    <2>2. count \in Seq(Byte) /\ Len(count) = 1 BY <1>1
    <2>3. m3 \in Seq(Byte) /\ Len(m3) = Len(m2) + Len(count) BY <2>1, <2>2, Joined
    <2> QED BY <1>4, <2>2, <2>3
  <1> HIDE DEF m3
  <1>6. m4 \in Seq(Byte) /\ Len(m4) = Len(m3) + (9 + AmountBytes)
    <2>1. m3 \in Seq(Byte) BY <1>5
    <2>2. pay \in Seq(Byte) /\ Len(pay) = 9 + AmountBytes BY <1>1
    <2>3. m4 \in Seq(Byte) /\ Len(m4) = Len(m3) + Len(pay) BY <2>1, <2>2, Joined
    <2> QED BY <1>5, <2>2, <2>3
  <1> HIDE DEF m4
  <1>7. m5 \in Seq(Byte) /\ Len(m5) = Len(m4) + memo
    <2>1. m4 \in Seq(Byte) BY <1>6
    <2>2. note \in Seq(Byte) /\ Len(note) = memo BY <1>1
    <2>3. m5 \in Seq(Byte) /\ Len(m5) = Len(m4) + Len(note) BY <2>1, <2>2, Joined
    <2> QED BY <1>6, <2>2, <2>3
  <1>8. memo \in 0..(3 + MaxMemo)
    <2>1. Len(t.memo) \in Nat BY MemoSized
    <2>2. Len(t.memo) <= MaxMemo /\ MaxMemo \in Nat BY Widths DEF Sized
    <2> QED BY <2>1, <2>2
  <1> HIDE DEF memo
  <1>9. keys \in Nat /\ keys <= 4 * KeyLen
    <2>1. n \in {1, 2} /\ KeyLen \in Nat BY <1>1, Widths
    <2>2. n = 1 => (2 + n) * KeyLen = 3 * KeyLen OBVIOUS
    <2>3. n = 2 => (2 + n) * KeyLen = 4 * KeyLen OBVIOUS
    <2> QED BY <2>1, <2>2, <2>3 DEF keys
  <1>10. Message(t) = m5 BY <1>2 DEF m1, m2, m3, m4
  <1>11. Len(Message(t)) = 4 + keys + KeyLen + 1 + (9 + AmountBytes) + memo
    <2>1. keys \in Nat /\ memo \in Nat /\ KeyLen \in Nat /\ AmountBytes \in Nat
      BY <1>8, <1>9, Widths
    <2>2. Len(m1) = 4 + keys BY <1>3
    <2> QED BY <1>10, <1>4, <1>5, <1>6, <1>7, <2>1, <2>2
  <1>12. LongestMessage = 4 + 4 * KeyLen + KeyLen + 1 + (9 + AmountBytes) + (3 + MaxMemo)
    BY Widths DEF LongestMessage
  <1>13. Len(Message(t)) <= LongestMessage /\ Len(Message(t)) > 0
    <2>1. keys \in Nat /\ keys <= 4 * KeyLen BY <1>9
    <2>2. KeyLen \in Nat /\ AmountBytes \in Nat /\ MaxMemo \in Nat BY Widths
    <2> QED BY <1>8, <1>11, <1>12, <2>1, <2>2
  <1>14. Message(t) \in Seq(Byte) /\ Len(Message(t)) \in Nat BY <1>10, <1>7
  <1> QED BY <1>13, <1>14

LEMMA MessagesAgree ==
    ASSUME NEW t, Sized(t)
    PROVE  CliMessage(t) = Message(t) /\ DesktopMessage(t) = Message(t) /\ Message(t) # Refused
  <1>1. Len(Message(t)) \in Nat /\ Len(Message(t)) > 0 /\ Len(Message(t)) <= MaxMessage
    BY MessageSized, Widths
  <1>2. Message(t) # Refused BY <1>1 DEF Refused
  <1>3. Bounded(Message(t), MaxMessage) = Message(t) BY <1>1 DEF Bounded
  <1> QED BY <1>2, <1>3, CliMessageIs, DesktopMessageIs

Signed(t, key) == <<1>> \o Sign(Message(t), t.from, key) \o Message(t)

Encoded(data) == [k \in 1..EncodedLen(Len(data)) |-> Sextet(data, k)]

LEMMA SignedSized ==
    ASSUME NEW t, Sized(t), NEW key, Sign(Message(t), t.from, key) \in [1..SignatureLen -> Byte]
    PROVE  /\ Signed(t, key) \in Seq(Byte)
           /\ Len(Signed(t, key)) = 1 + SignatureLen + Len(Message(t))
           /\ Len(Signed(t, key)) \in 1..(1 + SignatureLen + LongestMessage)
  <1> DEFINE s == Sign(Message(t), t.from, key)
             m == Message(t)
             h == <<1>> \o s
  <1>1. s \in Seq(Byte) /\ Len(s) = SignatureLen BY Widths
  <1>2. <<1>> \in Seq(Byte) /\ Len(<<1>>) = 1 BY DEF Byte
  <1>3. m \in Seq(Byte) /\ Len(m) \in 1..LongestMessage /\ LongestMessage \in Nat
    BY MessageSized, Widths
  <1>4. Signed(t, key) = h \o m BY DEF Signed
  <1> HIDE DEF s, m
  <1>5. h \in Seq(Byte) /\ Len(h) = 1 + SignatureLen BY <1>1, <1>2, Appended
  <1> HIDE DEF h
  <1>6. h \o m \in Seq(Byte) /\ Len(h \o m) = 1 + SignatureLen + Len(m)
    BY <1>3, <1>5, Appended
  <1>7. Len(h \o m) \in 1..(1 + SignatureLen + LongestMessage) BY <1>3, <1>6, Widths
  <1> QED BY <1>4, <1>6, <1>7 DEF m

LEMMA EncodedLonger ==
    ASSUME NEW n \in Nat, NEW m \in Nat, n <= m
    PROVE  /\ EncodedLen(n) \in Nat /\ EncodedLen(n) <= EncodedLen(m)
           /\ (n > 0 => EncodedLen(n) > 0) /\ EncodedLen(n) + 1 <= 2 * n + 4
  <1>1. (n + 2) \div 3 \in Nat /\ (n + 2) \div 3 <= (m + 2) \div 3 /\ (m + 2) \div 3 \in Nat
    OBVIOUS
  <1>2. n > 0 => (n + 2) \div 3 > 0 OBVIOUS
  <1>3. 4 * ((n + 2) \div 3) + 1 <= 2 * n + 4 OBVIOUS
  <1> QED BY <1>1, <1>2, <1>3 DEF EncodedLen

(* One text, whichever program builds it. *)
LEMMA OneText ==
    ASSUME NEW t, Sized(t), NEW key, Sign(Message(t), t.from, key) \in [1..SignatureLen -> Byte]
    PROVE  /\ CliTransaction(t, key) = Encoded(Signed(t, key))
           /\ DesktopTransaction(t, key) = Encoded(Signed(t, key))
           /\ Encoded(Signed(t, key)) # Refused
  <1> DEFINE data == Signed(t, key)
             most == 1 + SignatureLen + LongestMessage
  <1>1. data \in Seq(Byte) /\ Len(data) \in 1..most /\ most \in Nat BY SignedSized, Widths
  <1>2. most <= MaxTransaction /\ EncodedLen(most) < MaxBase64 /\ MaxTransaction \in Nat
        /\ MaxBase64 \in Nat
    BY Widths
  <1>3. ~(Len(t.memo) > MaxMemo)
    <2>1. Len(t.memo) \in Nat BY MemoSized
    <2> QED BY <2>1, Widths DEF Sized
  <1>4. Shortvec(1) = <<1>> BY ShortvecShort
  <1>5. Signed(t, key) = Shortvec(1) \o Sign(CliMessage(t), t.from, key) \o CliMessage(t)
        /\ Signed(t, key) = Shortvec(1) \o Sign(DesktopMessage(t), t.from, key) \o DesktopMessage(t)
    BY <1>4, MessagesAgree DEF Signed
  <1> HIDE DEF data, most
  <1>6. Len(data) \in Nat /\ Len(data) <= most /\ Len(data) > 0 BY <1>1
  <1>7. /\ EncodedLen(Len(data)) \in Nat /\ EncodedLen(Len(data)) <= EncodedLen(most)
        /\ EncodedLen(Len(data)) > 0 /\ EncodedLen(Len(data)) + 1 <= 2 * Len(data) + 4
        /\ EncodedLen(most) \in Nat
    BY <1>1, <1>6, EncodedLonger
  <1>8. Bounded(data, MaxTransaction) = data /\ data # Refused
    BY <1>2, <1>1, <1>6 DEF Bounded, Refused
  <1>9. MaxBase64 >= EncodedLen(Len(data)) + 1 BY <1>2, <1>7
  <1>10. solana_base64_encode(data, MaxBase64) = Encoded(data)
    BY <1>9 DEF solana_base64_encode, Encoded
  <1>11. solana_base64_encode(data, 2 * Len(data) + 4) = Encoded(data)
    BY <1>6, <1>7 DEF solana_base64_encode, Encoded
  <1>12. CliTransaction(t, key) = Encoded(data)
    <2>1. CliMessage(t) # Refused BY MessagesAgree
    <2> QED BY <1>3, <1>5, <1>8, <1>10, <2>1 DEF CliTransaction, data
  <1>13. DesktopTransaction(t, key) = Encoded(data)
    BY <1>3, <1>5, <1>11 DEF DesktopTransaction, data
  <1>14. Encoded(data) # Refused
    <2>1. 1 \in DOMAIN Encoded(data) BY <1>7 DEF Encoded
    <2>2. DOMAIN Refused = {} BY DEF Refused
    <2> QED BY <2>1, <2>2
  <1> QED BY <1>12, <1>13, <1>14 DEF data

-----------------------------------------------------------------------------
(* A reader of base64 gets back what was encoded. *)
LEMMA Groups ==
    ASSUME NEW q \in Nat, NEW p \in 0..3
    PROVE  /\ ((4 * q + 1 + p) - 1) \div 4 = q /\ ((4 * q + 1 + p) - 1) % 4 = p
  OBVIOUS

LEMMA SextetPlace ==
    ASSUME NEW data, NEW k, NEW first, NEW p, 3 * ((k - 1) \div 4) + 1 = first, (k - 1) % 4 = p
    PROVE  LET a == OctetAt(data, first)
               b == OctetAt(data, first + 1)
               c == OctetAt(data, first + 2)
           IN  /\ p = 0 => Sextet(data, k) = a \div 4
               /\ p = 1 => Sextet(data, k) = (a % 4) * 16 + (b \div 16)
               /\ p = 2 => Sextet(data, k) = IF first + 1 <= Len(data)
                                            THEN (b % 16) * 4 + (c \div 64) ELSE Pad
               /\ p = 3 => Sextet(data, k) = IF first + 2 <= Len(data) THEN c % 64 ELSE Pad
  BY DEF Sextet

LEMMA SextetIs ==
    ASSUME NEW data \in Seq(Byte), NEW q \in Nat
    PROVE  LET a == OctetAt(data, 3 * q + 1)
               b == OctetAt(data, 3 * q + 2)
               c == OctetAt(data, 3 * q + 3)
           IN  /\ a \in Byte /\ b \in Byte /\ c \in Byte
               /\ Sextet(data, 4 * q + 1) = a \div 4
               /\ Sextet(data, 4 * q + 2) = (a % 4) * 16 + (b \div 16)
               /\ Sextet(data, 4 * q + 3)
                      = IF 3 * q + 2 <= Len(data) THEN (b % 16) * 4 + (c \div 64) ELSE Pad
               /\ Sextet(data, 4 * q + 4) = IF 3 * q + 3 <= Len(data) THEN c % 64 ELSE Pad
  <1> DEFINE first == 3 * q + 1
  <1>1. \A i \in Nat \ {0} : OctetAt(data, i) \in Byte
    <2>1. ASSUME NEW i \in Nat \ {0} PROVE OctetAt(data, i) \in Byte
      <3>1. CASE i <= Len(data)
        <4>1. i \in 1..Len(data) BY <3>1
        <4> QED BY <3>1, <4>1 DEF OctetAt
      <3>2. CASE ~(i <= Len(data)) BY <3>2 DEF OctetAt, Byte
      <3> QED BY <3>1, <3>2
    <2> QED BY <2>1
  <1>2. first \in Nat \ {0} /\ first + 1 = 3 * q + 2 /\ first + 2 = 3 * q + 3
        /\ 3 * q + 2 \in Nat \ {0} /\ 3 * q + 3 \in Nat \ {0}
    OBVIOUS
  <1>3. ASSUME NEW p \in 0..3, NEW k, k = 4 * q + 1 + p
        PROVE  3 * ((k - 1) \div 4) + 1 = first /\ (k - 1) % 4 = p
    BY <1>3, Groups
  <1>4. /\ 4 * q + 1 = 4 * q + 1 + 0 /\ 4 * q + 2 = 4 * q + 1 + 1
        /\ 4 * q + 3 = 4 * q + 1 + 2 /\ 4 * q + 4 = 4 * q + 1 + 3
        /\ {0, 1, 2, 3} \subseteq 0..3
    OBVIOUS
  <1>5. /\ 3 * (((4 * q + 1) - 1) \div 4) + 1 = first /\ ((4 * q + 1) - 1) % 4 = 0
        /\ 3 * (((4 * q + 2) - 1) \div 4) + 1 = first /\ ((4 * q + 2) - 1) % 4 = 1
        /\ 3 * (((4 * q + 3) - 1) \div 4) + 1 = first /\ ((4 * q + 3) - 1) % 4 = 2
        /\ 3 * (((4 * q + 4) - 1) \div 4) + 1 = first /\ ((4 * q + 4) - 1) % 4 = 3
    BY <1>3, <1>4
  <1> HIDE DEF first
  <1>6. Sextet(data, 4 * q + 1) = OctetAt(data, first) \div 4 BY <1>5, SextetPlace
  <1>7. Sextet(data, 4 * q + 2) = (OctetAt(data, first) % 4) * 16 + (OctetAt(data, first + 1) \div 16)
    BY SMTT(30), <1>5, SextetPlace
  <1>8. Sextet(data, 4 * q + 3)
          = IF first + 1 <= Len(data)
            THEN (OctetAt(data, first + 1) % 16) * 4 + (OctetAt(data, first + 2) \div 64) ELSE Pad
    BY <1>5, SextetPlace
  <1>9. Sextet(data, 4 * q + 4)
          = IF first + 2 <= Len(data) THEN OctetAt(data, first + 2) % 64 ELSE Pad
    BY <1>5, SextetPlace
  <1>10. first = 3 * q + 1 BY DEF first
  <1> QED BY <1>1, <1>2, <1>6, <1>7, <1>8, <1>9, <1>10

-----------------------------------------------------------------------------
(* Three octets in four sextets, and the octets back. *)
LEMMA SextetValues ==
    ASSUME NEW a \in Byte, NEW b \in Byte, NEW c \in Byte
    PROVE  /\ a \div 4 \in 0..63 /\ (a % 4) * 16 + (b \div 16) \in 0..63
           /\ (b % 16) * 4 + (c \div 64) \in 0..63 /\ c % 64 \in 0..63
  <1>1. a \in 0..255 /\ b \in 0..255 /\ c \in 0..255 BY DEF Byte
  <1>2. a \div 4 \in 0..63 /\ a % 4 \in 0..3 BY <1>1
  <1>3. b \div 16 \in 0..15 /\ b % 16 \in 0..15 BY <1>1
  <1>4. c \div 64 \in 0..3 /\ c % 64 \in 0..63 BY <1>1
  <1>5. \A x \in 0..3, y \in 0..15 : x * 16 + y \in 0..63 OBVIOUS
  <1>6. \A x \in 0..15, y \in 0..3 : x * 4 + y \in 0..63 OBVIOUS
  <1> QED BY <1>2, <1>3, <1>4, <1>5, <1>6

LEMMA OctetsBack ==
    ASSUME NEW a \in Byte, NEW b \in Byte, NEW c \in Byte
    PROVE  /\ (a \div 4) * 4 + (((a % 4) * 16 + (b \div 16)) \div 16) = a
           /\ (((a % 4) * 16 + (b \div 16)) % 16) * 16 + (((b % 16) * 4 + (c \div 64)) \div 4) = b
           /\ (((b % 16) * 4 + (c \div 64)) % 4) * 64 + (c % 64) = c
  <1>1. a \in Nat /\ b \in Nat /\ c \in Nat /\ b <= 255 /\ c <= 255 BY DEF Byte
  <1>2. b \div 16 \in Nat /\ b \div 16 <= 15 /\ c \div 64 \in Nat /\ c \div 64 <= 3 BY <1>1
  <1>3. \A x \in Nat, y \in Nat : y <= 15 => (x * 16 + y) \div 16 = x /\ (x * 16 + y) % 16 = y
    OBVIOUS
  <1>4. \A x \in Nat, y \in Nat : y <= 3 => (x * 4 + y) \div 4 = x /\ (x * 4 + y) % 4 = y
    OBVIOUS
  <1>5. a % 4 \in Nat /\ b % 16 \in Nat BY <1>1
  <1>6. ((a % 4) * 16 + (b \div 16)) \div 16 = a % 4
        /\ ((a % 4) * 16 + (b \div 16)) % 16 = b \div 16
    BY <1>2, <1>3, <1>5
  <1>7. ((b % 16) * 4 + (c \div 64)) \div 4 = b % 16
        /\ ((b % 16) * 4 + (c \div 64)) % 4 = c \div 64
    BY <1>2, <1>4, <1>5
  <1>8. (a \div 4) * 4 + (a % 4) = a BY <1>1
  <1>9. (b \div 16) * 16 + (b % 16) = b BY <1>1
  <1>10. (c \div 64) * 64 + (c % 64) = c BY <1>1
  <1> QED BY <1>6, <1>7, <1>8, <1>9, <1>10

(* Where a group of three octets stands in the text. *)
LEMMA GroupOf ==
    ASSUME NEW data \in Seq(Byte), NEW q \in Nat, 3 * q + 1 <= Len(data)
    PROVE  LET L == Len(data)
               N == EncodedLen(L)
               text == Encoded(data)
           IN  /\ N \in Nat /\ 4 * q + 4 <= N /\ Len(text) = N
               /\ \A k \in 1..N : text[k] = Sextet(data, k)
               /\ {4 * q + 1, 4 * q + 2, 4 * q + 3, 4 * q + 4} \subseteq 1..N
  <1> DEFINE L == Len(data)
             g == (L + 2) \div 3
  <1>1. L \in Nat /\ g \in Nat /\ q + 1 <= g OBVIOUS
  <1>2. EncodedLen(L) = 4 * g BY DEF EncodedLen
  <1> HIDE DEF g, L
  <1>3. 4 * g \in Nat /\ 4 * q + 4 <= 4 * g BY <1>1
  <1>4. Encoded(data) = [k \in 1..(4 * g) |-> Sextet(data, k)] BY <1>2 DEF Encoded, L
  <1>5. Len(Encoded(data)) = 4 * g BY <1>3, <1>4
  <1>6. \A k \in 1..(4 * g) : Encoded(data)[k] = Sextet(data, k) BY <1>4
  <1>7. {4 * q + 1, 4 * q + 2, 4 * q + 3, 4 * q + 4} \subseteq 1..(4 * g) BY <1>3
  <1> QED BY <1>2, <1>3, <1>5, <1>6, <1>7 DEF L

(* The padding: what three times the groups have more than there are octets. *)
LEMMA PadsClose ==
    ASSUME NEW data \in Seq(Byte)
    PROVE  LET L == Len(data)
               N == EncodedLen(L)
               text == Encoded(data)
               d == 3 * (N \div 4) - L
           IN  /\ N \in Nat /\ Len(text) = N /\ N % 4 = 0 /\ d \in 0..2 /\ (3 * N) \div 4 - d = L
               /\ d <= N
               /\ \A i \in 1..N : text[i] = Pad <=> i > N - d
  <1> DEFINE L == Len(data)
             g == (L + 2) \div 3
             N == 4 * g
             d == 3 * g - L
             text == Encoded(data)
  <1>1. L \in Nat /\ g \in Nat /\ d \in 0..2 OBVIOUS
  <1>2. EncodedLen(L) = N BY DEF EncodedLen
  <1> HIDE DEF g
  <1>3. N \in Nat /\ N \div 4 = g /\ N % 4 = 0 /\ (3 * N) \div 4 - d = L BY <1>1
  <1>4. text = [k \in 1..N |-> Sextet(data, k)] BY <1>2 DEF Encoded
  <1>5. Len(text) = N BY <1>3, <1>4
  <1>6. d <= N
    <2>1. g = 0 => L = 0 BY DEF g
    <2> QED BY <1>1, <2>1
  <1>7. ASSUME NEW i \in 1..N PROVE text[i] = Pad <=> i > N - d
    <2> DEFINE q == (i - 1) \div 4
               p == (i - 1) % 4
    <2>1. q \in Nat /\ p \in 0..3 /\ i = 4 * q + 1 + p /\ q <= g - 1 BY <1>1
    <2>2. text[i] = Sextet(data, i) BY <1>4
    <2> HIDE DEF q, p, text, L
    <2> DEFINE a == OctetAt(data, 3 * q + 1)
               b == OctetAt(data, 3 * q + 2)
               c == OctetAt(data, 3 * q + 3)
    <2>3. /\ a \in Byte /\ b \in Byte /\ c \in Byte
          /\ Sextet(data, 4 * q + 1) = a \div 4
          /\ Sextet(data, 4 * q + 2) = (a % 4) * 16 + (b \div 16)
          /\ Sextet(data, 4 * q + 3) = IF 3 * q + 2 <= L THEN (b % 16) * 4 + (c \div 64) ELSE Pad
          /\ Sextet(data, 4 * q + 4) = IF 3 * q + 3 <= L THEN c % 64 ELSE Pad
      BY <2>1, SextetIs DEF L
    <2> HIDE DEF a, b, c
    <2>4. /\ a \div 4 # Pad /\ (a % 4) * 16 + (b \div 16) # Pad
          /\ (b % 16) * 4 + (c \div 64) # Pad /\ c % 64 # Pad
      <3>1. \A x \in 0..63 : x # Pad BY DEF Pad
      <3> QED BY <2>3, <3>1, SextetValues
    <2>5. q < g - 1 => 3 * q + 3 <= L BY <1>1, <2>1
    <2>6. q = g - 1 => (3 * q + 2 <= L <=> d <= 1) /\ (3 * q + 3 <= L <=> d <= 0)
      BY <1>1, <2>1
    <2>7. CASE p = 0
      <3>1. text[i] # Pad BY <2>1, <2>2, <2>3, <2>4, <2>7
      <3>2. i <= N - d BY <1>1, <2>1, <2>7
      <3> QED BY <3>1, <3>2, <1>1, <1>3
    <2>8. CASE p = 1
      <3>1. text[i] # Pad BY <2>1, <2>2, <2>3, <2>4, <2>8
      <3>2. i <= N - d BY <1>1, <2>1, <2>8
      <3> QED BY <3>1, <3>2, <1>1, <1>3
    <2>9. CASE p = 2
      <3>1. text[i] = Pad <=> ~(3 * q + 2 <= L)
        <4>1. i = 4 * q + 3 BY <2>1, <2>9
        <4> QED BY <4>1, <2>2, <2>3, <2>4
      <3>2. i > N - d <=> q = g - 1 /\ d = 2 BY <1>1, <2>1, <2>9
      <3> QED BY <3>1, <3>2, <1>1, <2>1, <2>5, <2>6
    <2>10. CASE p = 3
      <3>1. text[i] = Pad <=> ~(3 * q + 3 <= L)
        <4>1. i = 4 * q + 4 BY <2>1, <2>10
        <4> QED BY <4>1, <2>2, <2>3, <2>4
      <3>2. i > N - d <=> q = g - 1 /\ d > 0 BY <1>1, <2>1, <2>10
      <3> QED BY <3>1, <3>2, <1>1, <2>1, <2>5, <2>6
    <2> QED BY <2>1, <2>7, <2>8, <2>9, <2>10
  <1> QED BY <1>1, <1>2, <1>3, <1>5, <1>6, <1>7

-----------------------------------------------------------------------------
(* Each octet of the text is one of the data. *)
LEMMA OctetPlace ==
    ASSUME NEW text, NEW i, NEW k, NEW r, 4 * ((i - 1) \div 3) + 1 = k, (i - 1) % 3 = r
    PROVE  /\ r = 0 => Octet(text, i) = SextetAt(text, k) * 4 + (SextetAt(text, k + 1) \div 16)
           /\ r = 1 => Octet(text, i)
                         = (SextetAt(text, k + 1) % 16) * 16 + (SextetAt(text, k + 2) \div 4)
           /\ r = 2 => Octet(text, i) = (SextetAt(text, k + 2) % 4) * 64 + SextetAt(text, k + 3)
  BY DEF Octet

LEMMA OctetBack ==
    ASSUME NEW data \in Seq(Byte), NEW i \in 1..Len(data)
    PROVE  Octet(Encoded(data), i) = data[i]
  <1> DEFINE L == Len(data)
             text == Encoded(data)
             q == (i - 1) \div 3
             r == (i - 1) % 3
             k == 4 * q + 1
             a == OctetAt(data, 3 * q + 1)
             b == OctetAt(data, 3 * q + 2)
             c == OctetAt(data, 3 * q + 3)
             N == EncodedLen(L)
  <1>1. L \in Nat /\ q \in Nat /\ r \in 0..2 /\ i = 3 * q + 1 + r /\ 3 * q + 1 <= L /\ i <= L
    OBVIOUS
  <1>2. /\ \A n \in 1..N : text[n] = Sextet(data, n)
        /\ {4 * q + 1, 4 * q + 2, 4 * q + 3, 4 * q + 4} \subseteq 1..N
    BY <1>1, GroupOf
  <1> HIDE DEF q, r, text
  <1>3. k + 1 = 4 * q + 2 /\ k + 2 = 4 * q + 3 /\ k + 3 = 4 * q + 4 BY <1>1
  <1>4. 4 * ((i - 1) \div 3) + 1 = k /\ (i - 1) % 3 = r BY DEF q, r
  <1>5. /\ a \in Byte /\ b \in Byte /\ c \in Byte
        /\ text[k] = a \div 4
        /\ text[k + 1] = (a % 4) * 16 + (b \div 16)
        /\ text[k + 2] = IF 3 * q + 2 <= L THEN (b % 16) * 4 + (c \div 64) ELSE Pad
        /\ text[k + 3] = IF 3 * q + 3 <= L THEN c % 64 ELSE Pad
    <2>1. /\ a \in Byte /\ b \in Byte /\ c \in Byte
          /\ Sextet(data, 4 * q + 1) = a \div 4
          /\ Sextet(data, 4 * q + 2) = (a % 4) * 16 + (b \div 16)
          /\ Sextet(data, 4 * q + 3) = IF 3 * q + 2 <= L THEN (b % 16) * 4 + (c \div 64) ELSE Pad
          /\ Sextet(data, 4 * q + 4) = IF 3 * q + 3 <= L THEN c % 64 ELSE Pad
      BY <1>1, SextetIs
    <2>2. /\ text[4 * q + 1] = Sextet(data, 4 * q + 1) /\ text[4 * q + 2] = Sextet(data, 4 * q + 2)
          /\ text[4 * q + 3] = Sextet(data, 4 * q + 3) /\ text[4 * q + 4] = Sextet(data, 4 * q + 4)
      BY <1>2
    <2> HIDE DEF a, b, c
    <2> QED BY <2>1, <2>2, <1>3
  <1>6. i = 3 * q + 1 + r /\ data[i] = OctetAt(data, 3 * q + 1 + r) BY <1>1 DEF OctetAt
  <1> HIDE DEF a, b, c, k
  <1>7. /\ a \div 4 # Pad /\ (a % 4) * 16 + (b \div 16) # Pad
        /\ (b % 16) * 4 + (c \div 64) # Pad /\ c % 64 # Pad
    <2>1. \A x \in 0..63 : x # Pad BY DEF Pad
    <2> QED BY <1>5, <2>1, SextetValues
  <1>8. SextetAt(text, k) = a \div 4 /\ SextetAt(text, k + 1) = (a % 4) * 16 + (b \div 16)
    BY <1>5, <1>7 DEF SextetAt
  <1>9. 3 * q + 2 <= L => SextetAt(text, k + 2) = (b % 16) * 4 + (c \div 64)
    BY <1>5, <1>7 DEF SextetAt
  <1>10. 3 * q + 3 <= L => SextetAt(text, k + 3) = c % 64
    BY <1>5, <1>7 DEF SextetAt
  <1>11. CASE r = 0
    <2>1. Octet(text, i) = SextetAt(text, k) * 4 + (SextetAt(text, k + 1) \div 16)
      BY SMTT(30), <1>4, <1>11, OctetPlace
    <2>2. Octet(text, i) = a BY <2>1, <1>5, <1>8, OctetsBack
    <2>3. 3 * q + 1 + r = 3 * q + 1 BY <1>1, <1>11
    <2> QED BY <2>2, <2>3, <1>6 DEF a, text
  <1>12. CASE r = 1
    <2>1. Octet(text, i) = (SextetAt(text, k + 1) % 16) * 16 + (SextetAt(text, k + 2) \div 4)
      BY SMTT(30), <1>4, <1>12, OctetPlace
    <2>2. 3 * q + 1 + r = 3 * q + 2 /\ 3 * q + 2 <= L BY <1>1, <1>12
    <2>3. Octet(text, i) = b BY <2>1, <2>2, <1>5, <1>8, <1>9, OctetsBack
    <2> QED BY <2>2, <2>3, <1>6 DEF b, text
  <1>13. CASE r = 2
    <2>1. Octet(text, i) = (SextetAt(text, k + 2) % 4) * 64 + SextetAt(text, k + 3)
      BY <1>4, <1>13, OctetPlace
    <2>2. 3 * q + 1 + r = 3 * q + 3 /\ 3 * q + 3 <= L /\ 3 * q + 2 <= L BY <1>1, <1>13
    <2>3. Octet(text, i) = c BY <2>1, <2>2, <1>5, <1>9, <1>10, OctetsBack
    <2> QED BY <2>2, <2>3, <1>6 DEF c, text
  <1> QED BY <1>1, <1>11, <1>12, <1>13

LEMMA Base64Back ==
    ASSUME NEW data \in Seq(Byte) PROVE Base64Decoded(Encoded(data)) = data
  <1> DEFINE L == Len(data)
             N == EncodedLen(L)
             text == Encoded(data)
             d == 3 * (N \div 4) - L
             pads == {i \in 1..N : text[i] = Pad}
  <1>1. /\ N \in Nat /\ Len(text) = N /\ N % 4 = 0 /\ d \in 0..2 /\ (3 * N) \div 4 - d = L
        /\ d <= N
        /\ \A i \in 1..N : text[i] = Pad <=> i > N - d
    BY PadsClose
  <1>2. \A i \in 1..L : Octet(text, i) = data[i] BY OctetBack
  <1>3. data = [i \in 1..L |-> data[i]] OBVIOUS
  <1> HIDE DEF N, text, d, L
  <1>4. pads = (N - d + 1)..N
    <2>1. \A i : i \in pads <=> i \in (N - d + 1)..N BY <1>1
    <2> HIDE DEF pads
    <2> QED BY <2>1
  <1>5. Cardinality(pads) = d
    <2> HIDE DEF pads
    <2>1. N - d + 1 \in Int /\ N \in Int BY <1>1
    <2>2. Cardinality((N - d + 1)..N) = IF N - d + 1 > N THEN 0 ELSE N - (N - d + 1) + 1
      BY <2>1, FS_Interval
    <2>3. (IF N - d + 1 > N THEN 0 ELSE N - (N - d + 1) + 1) = d BY <1>1
    <2> QED BY <1>4, <2>2, <2>3
  <1>6. Base64Decoded(text) = [i \in 1..((3 * N) \div 4 - d) |-> Octet(text, i)]
    <2>1. Cardinality({i \in 1..Len(text) : text[i] = Pad}) = d BY <1>1, <1>5
    <2>2. d <= 2 /\ \A i \in 1..N : text[i] = Pad => i > N - d BY <1>1
    <2> QED BY <1>1, <2>1, <2>2 DEF Base64Decoded
  <1>7. [i \in 1..((3 * N) \div 4 - d) |-> Octet(text, i)] = [i \in 1..L |-> data[i]]
    BY <1>1, <1>2
  <1> QED BY <1>3, <1>6, <1>7 DEF text

-----------------------------------------------------------------------------
(* The node reads the pieces where they were put. *)
LEMMA ThreePieces ==
    ASSUME NEW S, NEW a \in Seq(S), NEW b \in Seq(S), NEW c \in Seq(S)
    PROVE  LET w == a \o b \o c
           IN  /\ w \in Seq(S) /\ Len(w) = Len(a) + Len(b) + Len(c)
               /\ Stands(a, w, 1) /\ Stands(b, w, Len(a) + 1) /\ Stands(c, w, Len(a) + Len(b) + 1)
  <1> DEFINE ab == a \o b
             w == ab \o c
  <1>1. ab \in Seq(S) /\ Len(ab) = Len(a) + Len(b) /\ Begins(a, ab) /\ Stands(b, ab, Len(a) + 1)
        /\ Len(a) \in Nat
    BY Appended
  <1> HIDE DEF ab
  <1>2. w \in Seq(S) /\ Len(w) = Len(ab) + Len(c) /\ Begins(ab, w) /\ Stands(c, w, Len(ab) + 1)
    BY <1>1, Appended
  <1> HIDE DEF w
  <1>3. Stands(a, ab, 1) BY <1>1 DEF Begins, Stands
  <1>4. Stands(a, w, 1) BY <1>1, <1>2, <1>3, StandsStill
  <1>5. Stands(b, w, Len(a) + 1) BY <1>1, <1>2, StandsStill
  <1> QED BY <1>1, <1>2, <1>4, <1>5 DEF w, ab

LEMMA FourPieces ==
    ASSUME NEW S, NEW a \in Seq(S), NEW b \in Seq(S), NEW c \in Seq(S), NEW d \in Seq(S)
    PROVE  LET w == a \o b \o c \o d
           IN  /\ w \in Seq(S) /\ Len(w) = Len(a) + Len(b) + Len(c) + Len(d)
               /\ Stands(a, w, 1) /\ Stands(b, w, Len(a) + 1) /\ Stands(c, w, Len(a) + Len(b) + 1)
               /\ Stands(d, w, Len(a) + Len(b) + Len(c) + 1)
  <1> DEFINE abc == a \o b \o c
             w == abc \o d
  <1>1. /\ abc \in Seq(S) /\ Len(abc) = Len(a) + Len(b) + Len(c)
        /\ Stands(a, abc, 1) /\ Stands(b, abc, Len(a) + 1) /\ Stands(c, abc, Len(a) + Len(b) + 1)
    BY ThreePieces
  <1> HIDE DEF abc
  <1>2. w \in Seq(S) /\ Len(w) = Len(abc) + Len(d) /\ Begins(abc, w) /\ Stands(d, w, Len(abc) + 1)
    BY <1>1, Appended
  <1> HIDE DEF w
  <1>3. Stands(a, w, 1) BY <1>1, <1>2, StandsStill
  <1>4. Stands(b, w, Len(a) + 1) BY <1>1, <1>2, StandsStill
  <1>5. Stands(c, w, Len(a) + Len(b) + 1) BY <1>1, <1>2, StandsStill
  <1> QED BY <1>1, <1>2, <1>3, <1>4, <1>5 DEF w, abc

LEMMA ShortvecRead ==
    ASSUME NEW d, NEW place, NEW v \in 0..127, OctetAt(d, place) = v
    PROVE  ReadShortvec(d, place) = [value |-> v, at |-> place + 1]
  <1>1. OctetAt(d, place) < 128 OBVIOUS
  <1> QED BY <1>1 DEF ReadShortvec

LEMMA InstructionRead ==
    ASSUME NEW d \in Seq(Byte), NEW place \in Nat \ {0},
           NEW accounts \in Seq(Byte), NEW content \in Seq(Byte),
           Len(accounts) \in 0..127, Len(content) \in 0..127,
           OctetAt(d, place + 1) = Len(accounts),
           Stands(accounts, d, place + 2),
           OctetAt(d, place + 2 + Len(accounts)) = Len(content),
           Stands(content, d, place + 3 + Len(accounts))
    PROVE  ReadInstruction(d, place)
             = [program |-> OctetAt(d, place), accounts |-> accounts, data |-> content,
                at |-> place + 3 + Len(accounts) + Len(content)]
  <1> DEFINE k == Len(accounts)
             n == Len(content)
  <1>1. k \in Nat /\ n \in Nat OBVIOUS
  <1>2. ReadShortvec(d, place + 1) = [value |-> k, at |-> place + 2]
    <2>1. ReadShortvec(d, place + 1) = [value |-> k, at |-> (place + 1) + 1] BY ShortvecRead
    <2> QED BY SMTT(30), <2>1
  <1>3. ReadShortvec(d, (place + 2) + k) = [value |-> n, at |-> place + 3 + k]
    <2>1. ReadShortvec(d, place + 2 + k) = [value |-> n, at |-> (place + 2 + k) + 1]
      BY ShortvecRead
    <2>2. (place + 2 + k) + 1 = place + 3 + k BY <1>1
    <2> QED BY <2>1, <2>2
  <1>4. Slice(d, place + 2, k) = accounts BY StandingRead
  <1>5. Slice(d, place + 3 + k, n) = content BY StandingRead
  <1> HIDE DEF k, n
  <1>6. ReadInstruction(d, place)
          = [program |-> OctetAt(d, place), accounts |-> Slice(d, place + 2, k),
             data |-> Slice(d, place + 3 + k, n), at |-> place + 3 + k + n]
    <2> DEFINE r1 == ReadShortvec(d, place + 1)
               r2 == ReadShortvec(d, r1.at + r1.value)
    <2>1. ReadInstruction(d, place)
            = [program |-> OctetAt(d, place), accounts |-> Slice(d, r1.at, r1.value),
               data |-> Slice(d, r2.at, r2.value), at |-> r2.at + r2.value]
      BY DEF ReadInstruction
    <2> HIDE DEF r1
    <2>2. r1.at = place + 2 /\ r1.value = k BY SMTT(30), <1>2 DEF r1
    <2> HIDE DEF r2
    <2>3. r2.at = place + 3 + k /\ r2.value = n BY <1>3, <2>2 DEF r2
    <2> QED BY <2>1, <2>2, <2>3
  <1> QED BY <1>4, <1>5, <1>6, Zenon DEF k, n

-----------------------------------------------------------------------------
(* The place of the blockhash, and that of the first instruction. *)
HashPlace(t) == 5 + (2 + Instructions(t)) * KeyLen
PayPlace(t) == HashPlace(t) + KeyLen + 1
NotePlace(t) == PayPlace(t) + 9 + AmountBytes

LEMMA PlacesAreNumbers ==
    ASSUME NEW t
    PROVE  /\ HashPlace(t) \in Nat \ {0} /\ PayPlace(t) \in Nat \ {0} /\ NotePlace(t) \in Nat \ {0}
           /\ Instructions(t) \in {1, 2}
  <1> DEFINE keys == (2 + Instructions(t)) * KeyLen
  <1>1. Instructions(t) \in {1, 2} BY DEF Instructions
  <1>2. keys \in Nat BY <1>1, Widths
  <1> HIDE DEF keys
  <1>3. HashPlace(t) = 5 + keys BY DEF HashPlace, keys
  <1> QED BY <1>1, <1>2, <1>3, Widths DEF PayPlace, NotePlace

LEMMA MessagePlaces ==
    ASSUME NEW t, Sized(t)
    PROVE  LET m == Message(t)
           IN  /\ m \in Seq(Byte) /\ Len(m) = NotePlace(t) - 1 + Len(Note(t))
               /\ Stands(Prelude(t), m, 1)
               /\ Stands(Accounts(t), m, 5)
               /\ Stands(t.blockhash, m, HashPlace(t))
               /\ Stands(<<Instructions(t)>>, m, HashPlace(t) + KeyLen)
               /\ Stands(Pay(t), m, PayPlace(t))
               /\ Stands(Note(t), m, NotePlace(t))
  <1> DEFINE n == Instructions(t)
             keys == (2 + n) * KeyLen
             prelude == Prelude(t)
             accounts == Accounts(t)
             hash == t.blockhash
             count == <<n>>
             pay == Pay(t)
             note == Note(t)
             x == prelude \o accounts \o hash
             m == x \o count \o pay \o note
  <1>1. keys \in Nat /\ KeyLen \in Nat /\ AmountBytes \in Nat
    <2>1. n \in {1, 2} BY DEF Instructions
    <2> QED BY <2>1, Widths
  <1>2. accounts \in Seq(Byte) /\ Len(accounts) = keys BY PiecesSized
  <1>3. pay \in Seq(Byte) /\ Len(pay) = 9 + AmountBytes BY PiecesSized
  <1>4. note \in Seq(Byte) BY PiecesSized
  <1>5. prelude \in Seq(Byte) /\ Len(prelude) = 4 BY PiecesSized
  <1>6. hash \in Seq(Byte) /\ Len(hash) = KeyLen BY KeyIsSequence DEF Sized
  <1>7. count \in Seq(Byte) /\ Len(count) = 1
    <2>1. n \in Byte BY DEF Instructions, Byte
    <2> QED BY <2>1
  <1>8. Message(t) = m BY DEF Message
  <1>9. HashPlace(t) = 5 + keys /\ PayPlace(t) = 5 + keys + KeyLen + 1
        /\ NotePlace(t) = 5 + keys + KeyLen + 1 + 9 + AmountBytes
    BY DEF HashPlace, PayPlace, NotePlace
  <1> HIDE DEF n, keys, prelude, accounts, hash, count, pay, note
  <1>10. /\ x \in Seq(Byte) /\ Len(x) = Len(prelude) + Len(accounts) + Len(hash)
         /\ Stands(prelude, x, 1) /\ Stands(accounts, x, Len(prelude) + 1)
         /\ Stands(hash, x, Len(prelude) + Len(accounts) + 1)
    BY <1>2, <1>5, <1>6, ThreePieces
  <1> HIDE DEF x
  <1>11. /\ m \in Seq(Byte) /\ Len(m) = Len(x) + Len(count) + Len(pay) + Len(note)
         /\ Stands(x, m, 1) /\ Stands(count, m, Len(x) + 1)
         /\ Stands(pay, m, Len(x) + Len(count) + 1)
         /\ Stands(note, m, Len(x) + Len(count) + Len(pay) + 1)
    <2>1. x \in Seq(Byte) /\ count \in Seq(Byte) /\ pay \in Seq(Byte) /\ note \in Seq(Byte)
      BY <1>3, <1>4, <1>7, <1>10
    <2> QED BY <2>1, FourPieces
  <1>12. Len(note) \in Nat BY <1>4
  <1> HIDE DEF m
  <1>13. Len(x) = 4 + keys + KeyLen BY <1>2, <1>5, <1>6, <1>10
  <1>14. Stands(prelude, m, 1)
    <2>1. Stands(prelude, m, 1 + 1 - 1) BY <1>5, <1>10, <1>11, PartStands
    <2> QED BY <2>1
  <1>15. Stands(accounts, m, 5)
    <2>1. Len(prelude) + 1 = 5 /\ 1 + 5 - 1 = 5 BY <1>5
    <2>2. Stands(accounts, x, 5) BY <1>10, <2>1
    <2>3. Stands(accounts, m, 1 + 5 - 1) BY <1>2, <1>10, <1>11, <2>2, PartStands
    <2> QED BY <2>1, <2>3
  <1>16. Stands(hash, m, HashPlace(t))
    <2>1. Len(prelude) + Len(accounts) + 1 = 5 + keys /\ 1 + (5 + keys) - 1 = 5 + keys
      BY <1>1, <1>2, <1>5
    <2>2. Stands(hash, x, 5 + keys) BY <1>10, <2>1
    <2>3. Stands(hash, m, 1 + (5 + keys) - 1) BY <1>6, <1>10, <1>11, <2>2, PartStands
    <2> QED BY <1>9, <2>1, <2>3
  <1>17. Stands(count, m, HashPlace(t) + KeyLen)
    <2>1. Len(x) + 1 = HashPlace(t) + KeyLen BY <1>1, <1>9, <1>13
    <2> QED BY <1>11, <2>1
  <1>18. Stands(pay, m, PayPlace(t))
    <2>1. Len(x) + Len(count) + 1 = PayPlace(t) BY <1>1, <1>7, <1>9, <1>13
    <2> QED BY <1>11, <2>1
  <1>19. Stands(note, m, NotePlace(t)) /\ Len(m) = NotePlace(t) - 1 + Len(note)
    <2>1. Len(x) + Len(count) + Len(pay) + 1 = NotePlace(t) BY <1>1, <1>3, <1>7, <1>9, <1>13
    <2>2. Len(m) = NotePlace(t) - 1 + Len(note)
      BY <1>1, <1>3, <1>7, <1>9, <1>11, <1>12, <1>13
    <2> QED BY <1>11, <2>1, <2>2
  <1> QED BY <1>8, <1>11, <1>14, <1>15, <1>16, <1>17, <1>18, <1>19
          DEF prelude, accounts, hash, count, pay, note, n

-----------------------------------------------------------------------------
Paid(t) == [program |-> 2, accounts |-> <<0, 1>>, data |-> InstructionData(t), at |-> NotePlace(t)]

LEMMA PayRead ==
    ASSUME NEW t, Sized(t) PROVE ReadInstruction(Message(t), PayPlace(t)) = Paid(t)
  <1> DEFINE m == Message(t)
             P == PayPlace(t)
             data == InstructionData(t)
             pay == Pay(t)
             head == <<2>> \o <<2>>
             to == <<0, 1>>
             size == <<4 + AmountBytes>>
  <1>1. m \in Seq(Byte) /\ Stands(pay, m, P) /\ pay \in Seq(Byte)
    BY MessagePlaces, PiecesSized
  <1>2. data \in Seq(Byte) /\ Len(data) = 4 + AmountBytes BY DataSized
  <1>3. head \in Seq(Byte) /\ Len(head) = 2 /\ head[1] = 2 /\ head[2] = 2 BY DEF Byte
  <1>4. to \in Seq(Byte) /\ Len(to) = 2 BY DEF Byte
  <1>5. size \in Seq(Byte) /\ Len(size) = 1 /\ size[1] = 4 + AmountBytes
    <2>1. 4 + AmountBytes \in Byte BY Widths DEF Byte
    <2> QED BY <2>1
  <1>6. P \in Nat \ {0} BY PlacesAreNumbers
  <1>7. pay = head \o to \o size \o data BY DEF Pay
  <1>8. NotePlace(t) = P + 3 + 2 + (4 + AmountBytes) BY <1>6, Widths DEF NotePlace
  <1> HIDE DEF m, P, data, pay, head, to, size
  <1>9. /\ Stands(head, pay, 1) /\ Stands(to, pay, Len(head) + 1)
        /\ Stands(size, pay, Len(head) + Len(to) + 1)
        /\ Stands(data, pay, Len(head) + Len(to) + Len(size) + 1)
    BY <1>2, <1>3, <1>4, <1>5, <1>7, FourPieces
  <1>10. Len(head) + 1 = 3 /\ Len(head) + Len(to) + 1 = 5 /\ Len(head) + Len(to) + Len(size) + 1 = 6
    BY <1>3, <1>4, <1>5
  <1>11. Stands(head, pay, 1) /\ Stands(to, pay, 3) /\ Stands(size, pay, 5) /\ Stands(data, pay, 6)
    BY <1>9, <1>10
  <1>12. P + 1 - 1 = P /\ P + 3 - 1 = P + 2 /\ P + 5 - 1 = P + 4 /\ P + 6 - 1 = P + 5 BY <1>6
  <1>13. Stands(head, m, P)
    <2>1. Stands(head, m, P + 1 - 1) BY <1>1, <1>3, <1>11, PartStands
    <2> QED BY <1>12, <2>1
  <1>14. Stands(to, m, P + 2)
    <2>1. Stands(to, m, P + 3 - 1) BY <1>1, <1>4, <1>11, PartStands
    <2> QED BY <1>12, <2>1
  <1>15. Stands(size, m, P + 4)
    <2>1. Stands(size, m, P + 5 - 1) BY <1>1, <1>5, <1>11, PartStands
    <2> QED BY <1>12, <2>1
  <1>16. Stands(data, m, P + 5)
    <2>1. Stands(data, m, P + 6 - 1) BY <1>1, <1>2, <1>11, PartStands
    <2> QED BY <1>12, <2>1
  <1>17. OctetAt(m, P) = 2 /\ OctetAt(m, P + 1) = 2
    <2>1. \A i \in 1..2 : OctetAt(m, P - 1 + i) = head[i] BY <1>1, <1>3, <1>13, StandingRead
    <2>2. P - 1 + 1 = P /\ P - 1 + 2 = P + 1 BY <1>6
    <2> QED BY <1>3, <2>1, <2>2
  <1>18. OctetAt(m, P + 4) = 4 + AmountBytes
    <2>1. OctetAt(m, P + 4) = size[1] BY SMTT(30), <1>1, <1>5, <1>15, StandingRead
    <2> QED BY <1>5, <2>1
  <1>19. P + 2 + Len(to) = P + 4 /\ P + 3 + Len(to) = P + 5 /\ Len(to) \in 0..127
    BY <1>4, <1>6
  <1>20. Len(data) \in 0..127 BY <1>2, Widths
  <1>21. ReadInstruction(m, P)
           = [program |-> 2, accounts |-> to, data |-> data, at |-> P + 3 + Len(to) + Len(data)]
    <2>1. OctetAt(m, P + 1) = Len(to) /\ OctetAt(m, P + 2 + Len(to)) = Len(data)
          /\ Stands(data, m, P + 3 + Len(to))
      BY <1>2, <1>4, <1>16, <1>17, <1>18, <1>19
    <2>2. m \in Seq(Byte) /\ P \in Nat \ {0} /\ to \in Seq(Byte) /\ data \in Seq(Byte)
      BY <1>1, <1>2, <1>4, <1>6
    <2>3. Len(to) \in 0..127 /\ Len(data) \in 0..127 /\ OctetAt(m, P) = 2 /\ Stands(to, m, P + 2)
      BY <1>14, <1>17, <1>19, <1>20
    <2>4. ReadInstruction(m, P)
            = [program |-> OctetAt(m, P), accounts |-> to, data |-> data,
               at |-> P + 3 + Len(to) + Len(data)]
      BY <2>1, <2>2, <2>3, InstructionRead
    <2> QED BY <2>3, <2>4
  <1> QED BY <1>2, <1>4, <1>8, <1>21 DEF Paid, m, P, data, to

Noted(t) == [program |-> 3, accounts |-> <<>>, data |-> t.memo, at |-> Len(Message(t)) + 1]

LEMMA NoteRead ==
    ASSUME NEW t, Sized(t), HasMemo(t) PROVE ReadInstruction(Message(t), NotePlace(t)) = Noted(t)
  <1> DEFINE m == Message(t)
             Q == NotePlace(t)
             memo == t.memo
             note == Note(t)
             three == <<3>>
             zero == <<0>>
             size == <<Len(memo)>>
             none == <<>>
  <1>1. m \in Seq(Byte) /\ Stands(note, m, Q) /\ note \in Seq(Byte) /\ Len(m) = Q - 1 + Len(note)
        /\ Len(note) = 3 + Len(memo)
    BY MessagePlaces, PiecesSized
  <1>2. memo \in Seq(Byte) /\ Len(memo) \in 0..127 BY MemoSized
  <1>3. three \in Seq(Byte) /\ Len(three) = 1 /\ three[1] = 3 BY DEF Byte
  <1>4. zero \in Seq(Byte) /\ Len(zero) = 1 /\ zero[1] = 0 BY DEF Byte
  <1>5. size \in Seq(Byte) /\ Len(size) = 1 /\ size[1] = Len(memo)
    <2>1. \A i \in 0..127 : i \in Byte BY DEF Byte
    <2> DEFINE l == Len(memo)
    <2>2. l \in Byte BY <1>2, <2>1
    <2> HIDE DEF l
    <2>3. <<l>> \in Seq(Byte) /\ Len(<<l>>) = 1 /\ <<l>>[1] = l BY <2>2
    <2> QED BY <2>3 DEF l
  <1>6. Q \in Nat \ {0} BY PlacesAreNumbers
  <1>7. note = three \o zero \o size \o memo BY DEF Note, NoteOf
  <1>8. none \in Seq(Byte) /\ Len(none) = 0 /\ none = <<>> OBVIOUS
  <1> HIDE DEF m, Q, memo, note, three, zero, size, none
  <1>9. /\ Stands(three, note, 1) /\ Stands(zero, note, Len(three) + 1)
        /\ Stands(size, note, Len(three) + Len(zero) + 1)
        /\ Stands(memo, note, Len(three) + Len(zero) + Len(size) + 1)
    BY <1>2, <1>3, <1>4, <1>5, <1>7, FourPieces
  <1>10. Len(three) + 1 = 2 /\ Len(three) + Len(zero) + 1 = 3
         /\ Len(three) + Len(zero) + Len(size) + 1 = 4
    BY <1>3, <1>4, <1>5
  <1>11. Stands(three, note, 1) /\ Stands(zero, note, 2) /\ Stands(size, note, 3)
         /\ Stands(memo, note, 4)
    BY <1>9, <1>10
  <1>12. Q + 1 - 1 = Q /\ Q + 2 - 1 = Q + 1 /\ Q + 3 - 1 = Q + 2 /\ Q + 4 - 1 = Q + 3 BY <1>6
  <1>13. Stands(three, m, Q)
    <2>1. Stands(three, m, Q + 1 - 1) BY <1>1, <1>3, <1>11, PartStands
    <2> QED BY <1>12, <2>1
  <1>14. Stands(zero, m, Q + 1)
    <2>1. Stands(zero, m, Q + 2 - 1) BY <1>1, <1>4, <1>11, PartStands
    <2> QED BY <1>12, <2>1
  <1>15. Stands(size, m, Q + 2)
    <2>1. Stands(size, m, Q + 3 - 1) BY <1>1, <1>5, <1>11, PartStands
    <2> QED BY <1>12, <2>1
  <1>16. Stands(memo, m, Q + 3)
    <2>1. Stands(memo, m, Q + 4 - 1) BY <1>1, <1>2, <1>11, PartStands
    <2> QED BY <1>12, <2>1
  <1>17. OctetAt(m, Q) = 3 /\ OctetAt(m, Q + 1) = 0 /\ OctetAt(m, Q + 2) = Len(memo)
    <2>1. OctetAt(m, Q) = three[1] BY <1>1, <1>3, <1>13, StandingRead
    <2>2. OctetAt(m, Q + 1) = zero[1] BY <1>1, <1>4, <1>14, StandingRead
    <2>3. OctetAt(m, Q + 2) = size[1] BY <1>1, <1>5, <1>15, StandingRead
    <2> QED BY <1>3, <1>4, <1>5, <2>1, <2>2, <2>3
  <1>18. Stands(none, m, Q + 2)
    <2>1. Len(memo) \in Nat BY <1>2
    <2>2. Len(m) \in Nat /\ Q + 2 \in Nat \ {0} /\ (Q + 2) - 1 + Len(none) <= Len(m)
      BY <1>1, <1>6, <1>8, <2>1
    <2> QED BY <1>8, <2>2 DEF Stands
  <1>19. Q + 2 + Len(none) = Q + 2 /\ Q + 3 + Len(none) = Q + 3 /\ Len(none) \in 0..127
    BY <1>6, <1>8
  <1>20. ReadInstruction(m, Q)
           = [program |-> 3, accounts |-> none, data |-> memo, at |-> Q + 3 + Len(none) + Len(memo)]
    <2>1. OctetAt(m, Q + 1) = Len(none) /\ OctetAt(m, Q + 2 + Len(none)) = Len(memo)
          /\ Stands(memo, m, Q + 3 + Len(none))
      BY <1>8, <1>16, <1>17, <1>19
    <2>2. m \in Seq(Byte) /\ Q \in Nat \ {0} /\ none \in Seq(Byte) /\ memo \in Seq(Byte)
      BY <1>1, <1>2, <1>6, <1>8
    <2>3. Len(none) \in 0..127 /\ Len(memo) \in 0..127 /\ OctetAt(m, Q) = 3
          /\ Stands(none, m, Q + 2)
      BY <1>2, <1>17, <1>18, <1>19
    <2>4. ReadInstruction(m, Q)
            = [program |-> OctetAt(m, Q), accounts |-> none, data |-> memo,
               at |-> Q + 3 + Len(none) + Len(memo)]
      BY <2>1, <2>2, <2>3, InstructionRead
    <2> QED BY <2>3, <2>4
  <1>21. Q + 3 + Len(none) + Len(memo) = Len(m) + 1
    <2>1. Len(memo) \in Nat BY <1>2
    <2> QED BY <1>1, <1>6, <1>8, <2>1
  <1> QED BY <1>8, <1>20, <1>21 DEF Noted, m, Q, memo

-----------------------------------------------------------------------------
Keys(t) == IF HasMemo(t) THEN <<t.from, t.to, SystemProgram, MemoProgram>>
           ELSE <<t.from, t.to, SystemProgram>>

LEMMA KeysRead ==
    ASSUME NEW t, Sized(t), NEW i \in 1..(2 + Instructions(t))
    PROVE  Slice(Message(t), 5 + (i - 1) * KeyLen, KeyLen) = Keys(t)[i]
  <1> DEFINE m == Message(t)
             n == Instructions(t)
             accounts == Accounts(t)
             from == t.from
             to == t.to
             memo == IF HasMemo(t) THEN MemoProgram ELSE <<>>
             K == KeyLen
  <1>1. m \in Seq(Byte) /\ Stands(accounts, m, 5) /\ accounts \in Seq(Byte)
    BY MessagePlaces, PiecesSized
  <1>2. /\ from \in Seq(Byte) /\ Len(from) = K /\ to \in Seq(Byte) /\ Len(to) = K
        /\ SystemProgram \in Seq(Byte) /\ Len(SystemProgram) = K
        /\ MemoProgram \in Seq(Byte) /\ Len(MemoProgram) = K /\ K \in Nat
    BY KeyIsSequence, Widths DEF Sized
  <1>3. memo \in Seq(Byte) /\ (HasMemo(t) => memo = MemoProgram) BY <1>2
  <1>4. accounts = from \o to \o SystemProgram \o memo BY DEF Accounts
  <1>5. (HasMemo(t) => n = 2) /\ (~HasMemo(t) => n = 1) BY DEF Instructions
  <1>6. /\ Keys(t)[1] = from /\ Keys(t)[2] = to /\ Keys(t)[3] = SystemProgram
        /\ HasMemo(t) => Keys(t)[4] = MemoProgram
    BY DEF Keys
  <1> HIDE DEF m, n, accounts, from, to, memo, K
  <1>7. /\ Stands(from, accounts, 1) /\ Stands(to, accounts, Len(from) + 1)
        /\ Stands(SystemProgram, accounts, Len(from) + Len(to) + 1)
        /\ Stands(memo, accounts, Len(from) + Len(to) + Len(SystemProgram) + 1)
    <2>1. from \in Seq(Byte) /\ to \in Seq(Byte) /\ SystemProgram \in Seq(Byte)
          /\ memo \in Seq(Byte)
      BY <1>2, <1>3
    <2> QED BY <1>4, <2>1, FourPieces
  <1>8. /\ Stands(from, accounts, 1) /\ Stands(to, accounts, K + 1)
        /\ Stands(SystemProgram, accounts, K + K + 1) /\ Stands(memo, accounts, K + K + K + 1)
    BY <1>2, <1>7
  <1>9. ASSUME NEW piece \in Seq(Byte), Len(piece) = K, NEW k \in Nat, Stands(piece, accounts, k + 1)
        PROVE  Slice(m, 5 + k, K) = piece
    <2>1. Stands(piece, m, 5 + (k + 1) - 1) BY <1>1, <1>9, PartStands
    <2>2. 5 + (k + 1) - 1 = 5 + k OBVIOUS
    <2>3. Stands(piece, m, 5 + k) BY <2>1, <2>2
    <2>4. Slice(m, 5 + k, Len(piece)) = piece BY <1>1, <2>3, StandingRead
    <2> QED BY <1>9, <2>4
  <1>10. 0 \in Nat /\ K \in Nat /\ K + K \in Nat /\ K + K + K \in Nat /\ 0 + 1 = 1 BY <1>2
  <1>11. CASE i = 1
    <2>1. (i - 1) * K = 0 BY <1>2, <1>11
    <2>2. Slice(m, 5 + 0, K) = from BY ZenonT(60), <1>2, <1>8, <1>9, <1>10
    <2> QED BY <2>1, <2>2, <1>6, <1>11 DEF m, K
  <1>12. CASE i = 2
    <2>1. (i - 1) * K = K BY <1>2, <1>12
    <2>2. Slice(m, 5 + K, K) = to BY <1>2, <1>8, <1>9, <1>10
    <2> QED BY <2>1, <2>2, <1>6, <1>12 DEF m, K
  <1>13. CASE i = 3
    <2>1. (i - 1) * K = K + K BY <1>2, <1>13
    <2>2. Slice(m, 5 + (K + K), K) = SystemProgram BY <1>2, <1>8, <1>9, <1>10
    <2> QED BY <2>1, <2>2, <1>6, <1>13 DEF m, K
  <1>14. CASE i = 4 /\ HasMemo(t)
    <2>1. (i - 1) * K = K + K + K BY <1>2, <1>14
    <2>2. Slice(m, 5 + (K + K + K), K) = MemoProgram BY <1>2, <1>3, <1>8, <1>9, <1>10, <1>14
    <2> QED BY <2>1, <2>2, <1>6, <1>14 DEF m, K
  <1>15. i \in 1..(2 + n) BY DEF n
  <1>16. CASE HasMemo(t)
    <2>1. i \in 1..4 BY <1>5, <1>15, <1>16
    <2> QED BY <2>1, <1>11, <1>12, <1>13, <1>14, <1>16
  <1>17. CASE ~HasMemo(t)
    <2>1. i \in 1..3 BY <1>5, <1>15, <1>17
    <2> QED BY <2>1, <1>11, <1>12, <1>13
  <1> QED BY <1>16, <1>17

(* Everything that the node reads of the message. *)
Read(t) ==
    [signers      |-> 1,
     readonly     |-> Instructions(t),
     keys         |-> Keys(t),
     blockhash    |-> t.blockhash,
     instructions |-> IF HasMemo(t) THEN <<Paid(t), Noted(t)>> ELSE <<Paid(t)>>,
     whole        |-> TRUE]

LEMMA HeaderRead ==
    ASSUME NEW t, Sized(t)
    PROVE  LET m == Message(t)
           IN  /\ OctetAt(m, 1) = 1 /\ OctetAt(m, 3) = Instructions(t)
               /\ OctetAt(m, 4) = 2 + Instructions(t)
               /\ Slice(m, HashPlace(t), KeyLen) = t.blockhash
               /\ OctetAt(m, HashPlace(t) + KeyLen) = Instructions(t)
  <1> DEFINE m == Message(t)
             n == Instructions(t)
             prelude == Prelude(t)
             hash == t.blockhash
             count == <<n>>
  <1>1. /\ m \in Seq(Byte) /\ Stands(prelude, m, 1) /\ Stands(hash, m, HashPlace(t))
        /\ Stands(count, m, HashPlace(t) + KeyLen)
    BY MessagePlaces
  <1>2. prelude \in Seq(Byte) /\ Len(prelude) = 4 BY PiecesSized
  <1>3. prelude[1] = 1 /\ prelude[3] = n /\ prelude[4] = 2 + n BY DEF Prelude
  <1>4. hash \in Seq(Byte) /\ Len(hash) = KeyLen BY KeyIsSequence DEF Sized
  <1>5. n \in {1, 2} /\ n \in Byte BY DEF Instructions, Byte
  <1> HIDE DEF m, n, prelude, hash
  <1>6. count \in Seq(Byte) /\ Len(count) = 1 /\ count[1] = n BY <1>5
  <1> HIDE DEF count
  <1>7. \A i \in 1..4 : OctetAt(m, 1 - 1 + i) = prelude[i]
    <2>1. m \in Seq(Byte) /\ prelude \in Seq(Byte) /\ Stands(prelude, m, 1) BY <1>1, <1>2
    <2>2. \A i \in 1..Len(prelude) : OctetAt(m, 1 - 1 + i) = prelude[i]
      BY <2>1, StandingRead
    <2> QED BY <1>2, <2>2
  <1>8. 1 - 1 + 1 = 1 /\ 1 - 1 + 3 = 3 /\ 1 - 1 + 4 = 4 /\ {1, 3, 4} \subseteq 1..4 OBVIOUS
  <1>9. OctetAt(m, 1) = 1 /\ OctetAt(m, 3) = n /\ OctetAt(m, 4) = 2 + n BY <1>3, <1>7, <1>8
  <1>10. Slice(m, HashPlace(t), Len(hash)) = hash BY <1>1, <1>4, StandingRead
  <1>11. OctetAt(m, HashPlace(t) + KeyLen) = count[1] BY <1>1, <1>6, StandingRead
  <1> QED BY <1>4, <1>6, <1>9, <1>10, <1>11 DEF m, n, hash

LEMMA MessageRead == ASSUME NEW t, Sized(t) PROVE ReadMessage(Message(t)) = Read(t)
  <1> DEFINE m == Message(t)
             n == Instructions(t)
             keys == ReadShortvec(m, 4)
             hash == keys.at + keys.value * KeyLen
             count == ReadShortvec(m, hash + KeyLen)
             first == ReadInstruction(m, count.at)
             second == ReadInstruction(m, first.at)
             all == CASE count.value = 1 -> <<first>>
                      [] count.value = 2 -> <<first, second>>
                      [] OTHER -> <<>>
  <1>1. ReadMessage(m)
          = [signers |-> OctetAt(m, 1), readonly |-> OctetAt(m, 3),
             keys |-> [i \in 1..keys.value |-> Slice(m, keys.at + (i - 1) * KeyLen, KeyLen)],
             blockhash |-> Slice(m, hash, KeyLen), instructions |-> all,
             whole |-> all # <<>> /\ all[Len(all)].at = Len(m) + 1]
    BY DEF ReadMessage
  <1>2. n \in {1, 2} /\ n \in 0..127 /\ 2 + n \in 0..127 BY DEF Instructions
  <1> HIDE DEF keys
  <1>3. keys.value = 2 + n /\ keys.at = 5
    <2>1. keys = [value |-> 2 + n, at |-> 4 + 1] BY <1>2, HeaderRead, ShortvecRead DEF keys
    <2> QED BY <2>1
  <1> HIDE DEF hash
  <1>4. hash = HashPlace(t) BY <1>3 DEF HashPlace, hash
  <1> HIDE DEF count
  <1>5. count.value = n /\ count.at = PayPlace(t)
    <2>1. count = [value |-> n, at |-> (HashPlace(t) + KeyLen) + 1]
      BY <1>2, <1>4, HeaderRead, ShortvecRead DEF count
    <2> QED BY <2>1 DEF PayPlace
  <1> HIDE DEF first
  <1>6. first = Paid(t) /\ first.at = NotePlace(t) BY <1>5, PayRead DEF first, Paid
  <1> HIDE DEF second
  <1>7. HasMemo(t) => second = Noted(t) BY <1>6, NoteRead DEF second
  <1>8. all = IF HasMemo(t) THEN <<Paid(t), Noted(t)>> ELSE <<Paid(t)>>
    <2>1. CASE HasMemo(t)
      <3>1. count.value = 2 BY <1>5, <2>1 DEF Instructions
      <3> QED BY <1>6, <1>7, <2>1, <3>1
    <2>2. CASE ~HasMemo(t)
      <3>1. count.value = 1 BY <1>5, <2>2 DEF Instructions
      <3> QED BY <1>6, <2>2, <3>1
    <2> QED BY <2>1, <2>2
  <1> HIDE DEF all
  <1>9. (all # <<>> /\ all[Len(all)].at = Len(m) + 1) = TRUE
    <2>1. CASE HasMemo(t)
      <3>1. Len(all) = 2 /\ all[2] = Noted(t) /\ all # <<>> BY <1>8, <2>1
      <3> QED BY <3>1 DEF Noted
    <2>2. CASE ~HasMemo(t)
      <3>1. Len(all) = 1 /\ all[1] = Paid(t) /\ all # <<>> BY <1>8, <2>2
      <3>2. Len(Note(t)) = 0 /\ Len(m) = NotePlace(t) - 1 + Len(Note(t))
        BY <2>2, PiecesSized, MessagePlaces
      <3>3. Len(m) + 1 = NotePlace(t) BY <3>2, PlacesAreNumbers
      <3> QED BY <3>1, <3>3 DEF Paid
    <2> QED BY <2>1, <2>2
  <1>10. [i \in 1..keys.value |-> Slice(m, keys.at + (i - 1) * KeyLen, KeyLen)] = Keys(t)
    <2>1. \A i \in 1..(2 + n) : Slice(m, 5 + (i - 1) * KeyLen, KeyLen) = Keys(t)[i]
      BY KeysRead
    <2>2. Keys(t) = [i \in 1..(2 + n) |-> Keys(t)[i]]
      <3>1. CASE HasMemo(t)
        <4>1. 2 + n = 4 /\ Keys(t) = <<t.from, t.to, SystemProgram, MemoProgram>>
          BY <3>1 DEF Keys, Instructions
        <4> QED BY <4>1
      <3>2. CASE ~HasMemo(t)
        <4>1. 2 + n = 3 /\ Keys(t) = <<t.from, t.to, SystemProgram>>
          BY <3>2 DEF Keys, Instructions
        <4> QED BY <4>1
      <3> QED BY <3>1, <3>2
    <2> HIDE DEF m, n
    <2> QED BY <1>3, <2>1, <2>2
  <1>11. Slice(m, hash, KeyLen) = t.blockhash /\ OctetAt(m, 1) = 1 /\ OctetAt(m, 3) = n
    BY <1>4, HeaderRead
  <1> QED BY <1>1, <1>8, <1>9, <1>10, <1>11 DEF Read

-----------------------------------------------------------------------------
(* A transfer whose message names four accounts, or three. *)
Distinct(t) ==
    /\ t.from # t.to
    /\ SystemProgram \notin {t.from, t.to}
    /\ HasMemo(t) => MemoProgram \notin {t.from, t.to}

LEMMA KeysDistinct ==
    ASSUME NEW t, Sized(t)
    PROVE  (\A i, j \in 1..Len(Keys(t)) : i # j => Keys(t)[i] # Keys(t)[j]) <=> Distinct(t)
  <1>1. SystemProgram # MemoProgram BY Widths
  <1>2. CASE HasMemo(t)
    <2> DEFINE ks == <<t.from, t.to, SystemProgram, MemoProgram>>
    <2>1. Keys(t) = ks BY <1>2 DEF Keys
    <2>2. Len(ks) = 4 /\ 1..4 = {1, 2, 3, 4} OBVIOUS
    <2>3. ks[1] = t.from /\ ks[2] = t.to /\ ks[3] = SystemProgram /\ ks[4] = MemoProgram OBVIOUS
    <2> HIDE DEF ks
    <2>4. (\A i, j \in {1, 2, 3, 4} : i # j => ks[i] # ks[j]) <=> Distinct(t)
      BY <1>1, <1>2, <2>3 DEF Distinct
    <2> QED BY <2>1, <2>2, <2>4
  <1>3. CASE ~HasMemo(t)
    <2> DEFINE ks == <<t.from, t.to, SystemProgram>>
    <2>1. Keys(t) = ks BY <1>3 DEF Keys
    <2>2. Len(ks) = 3 /\ 1..3 = {1, 2, 3} OBVIOUS
    <2>3. ks[1] = t.from /\ ks[2] = t.to /\ ks[3] = SystemProgram OBVIOUS
    <2> HIDE DEF ks
    <2>4. (\A i, j \in {1, 2, 3} : i # j => ks[i] # ks[j]) <=> Distinct(t)
      BY <1>3, <2>3 DEF Distinct
    <2> QED BY <2>1, <2>2, <2>4
  <1> QED BY <1>2, <1>3

LEMMA ReadIsTransfer == ASSUME NEW t, Sized(t) PROVE IsTransfer(Read(t)) <=> Distinct(t)
  <1> DEFINE r == Read(t)
             keys == Keys(t)
             data == InstructionData(t)
             n == Instructions(t)
  <1>1. /\ r.whole = TRUE /\ r.signers = 1 /\ r.keys = keys /\ r.readonly = n
        /\ r.instructions = IF HasMemo(t) THEN <<Paid(t), Noted(t)>> ELSE <<Paid(t)>>
    BY DEF Read
  <1>2. /\ Paid(t).program = 2 /\ Paid(t).accounts = <<0, 1>> /\ Paid(t).data = data
        /\ Noted(t).program = 3
    BY DEF Paid, Noted
  <1>3. Len(data) = 4 + AmountBytes /\ SubSeq(data, 1, 4) = <<2, 0, 0, 0>>
    <2> DEFINE head == <<2, 0, 0, 0>>
               tail == LittleEndian(t.lamports)
    <2>1. tail \in [1..AmountBytes -> Byte] /\ AmountBytes \in Nat BY DataSized, Widths
    <2> HIDE DEF tail
    <2>2. tail \in Seq(Byte) /\ Len(tail) = AmountBytes BY <2>1
    <2>3. head \in Seq(Byte) /\ Len(head) = 4 BY DEF Byte
    <2> HIDE DEF head
    <2>4. SubSeq(head \o tail, 1, 4) = head
      <3>1. /\ head \o tail \in Seq(Byte) /\ Begins(head, head \o tail)
            /\ Len(head \o tail) = 4 + AmountBytes
        BY <2>2, <2>3, Appended
      <3>2. Stands(head, head \o tail, 1)
        <4>1. \A i \in 1..4 : (1 - 1 + i) = i OBVIOUS
        <4> QED BY <3>1, <2>3, <2>1, <4>1 DEF Begins, Stands
      <3>3. Slice(head \o tail, 1, Len(head)) = head BY <3>1, <3>2, <2>3, StandingRead
      <3>4. 1 + 4 - 1 = 4 OBVIOUS
      <3> QED BY <3>3, <3>4, <2>3 DEF Slice
    <2>5. data = head \o tail BY DEF InstructionData, head, tail
    <2> QED BY <2>4, <2>5, DataSized DEF head
  <1>4. CASE HasMemo(t)
    <2>1. n = 2 /\ keys = <<t.from, t.to, SystemProgram, MemoProgram>>
      BY <1>4 DEF Instructions, Keys
    <2>2. Len(keys) = 4 /\ keys[3] = SystemProgram /\ keys[4] = MemoProgram BY <2>1
    <2>3. /\ Len(r.instructions) = 2 /\ r.instructions[1] = Paid(t) /\ r.instructions[2] = Noted(t)
      BY <1>1, <1>4
    <2> HIDE DEF r, keys, data, n
    <2>4. IsTransfer(r) <=> \A i, j \in 1..Len(keys) : i # j => keys[i] # keys[j]
      BY <1>1, <1>2, <1>3, <2>1, <2>2, <2>3 DEF IsTransfer
    <2> QED BY <2>4, KeysDistinct DEF r, keys
  <1>5. CASE ~HasMemo(t)
    <2>1. n = 1 /\ keys = <<t.from, t.to, SystemProgram>> BY <1>5 DEF Instructions, Keys
    <2>2. Len(keys) = 3 /\ keys[3] = SystemProgram BY <2>1
    <2>3. Len(r.instructions) = 1 /\ r.instructions[1] = Paid(t) BY <1>1, <1>5
    <2> HIDE DEF r, keys, data, n
    <2>4. IsTransfer(r) <=> \A i, j \in 1..Len(keys) : i # j => keys[i] # keys[j]
      BY <1>1, <1>2, <1>3, <2>1, <2>2, <2>3 DEF IsTransfer
    <2> QED BY <2>4, KeysDistinct DEF r, keys
  <1> QED BY <1>4, <1>5

(* What a node takes out of a transfer that it accepts. *)
TakenOf(t) == Taken(t.from, t.to, t.lamports, t.blockhash, t.memo)

LEMMA TakenFromRead ==
    ASSUME NEW t, Sized(t)
    PROVE  LET m == Read(t)
           IN  Taken(m.keys[1], m.keys[2], AmountOf(m.instructions[1].data), m.blockhash,
                     IF Len(m.instructions) = 2 THEN m.instructions[2].data ELSE <<>>)
                   = TakenOf(t)
  <1> DEFINE r == Read(t)
             data == InstructionData(t)
             le == LittleEndian(t.lamports)
  <1>1. /\ r.keys = Keys(t) /\ r.blockhash = t.blockhash
        /\ r.instructions = IF HasMemo(t) THEN <<Paid(t), Noted(t)>> ELSE <<Paid(t)>>
    BY DEF Read
  <1>2. r.keys[1] = t.from /\ r.keys[2] = t.to
    <2>1. CASE HasMemo(t) BY <1>1, <2>1 DEF Keys
    <2>2. CASE ~HasMemo(t) BY <1>1, <2>2 DEF Keys
    <2> QED BY <2>1, <2>2
  <1>3. r.instructions[1].data = data
    <2>1. Paid(t).data = data BY DEF Paid
    <2>2. r.instructions[1] = Paid(t)
      <3>1. CASE HasMemo(t) BY <1>1, <3>1
      <3>2. CASE ~HasMemo(t) BY <1>1, <3>2
      <3> QED BY <3>1, <3>2
    <2> QED BY <2>1, <2>2
  <1>4. (IF Len(r.instructions) = 2 THEN r.instructions[2].data ELSE <<>>) = t.memo
    <2>1. CASE HasMemo(t)
      <3>1. Len(r.instructions) = 2 /\ r.instructions[2] = Noted(t) BY <1>1, <2>1
      <3> QED BY <3>1 DEF Noted
    <2>2. CASE ~HasMemo(t)
      <3>1. Len(r.instructions) = 1 BY <1>1, <2>2
      <3> QED BY <3>1, <2>2 DEF HasMemo
    <2> QED BY <2>1, <2>2
  <1>5. AmountOf(data) = t.lamports
    <2>1. \A j \in 1..AmountBytes : data[4 + j] = le[j]
      <3> DEFINE head == <<2, 0, 0, 0>>
      <3>1. le \in [1..AmountBytes -> Byte] /\ AmountBytes \in Nat BY DataSized, Widths
      <3> HIDE DEF le
      <3>2. le \in Seq(Byte) /\ Len(le) = AmountBytes BY <3>1
      <3>3. head \in Seq(Byte) /\ Len(head) = 4 BY DEF Byte
      <3> HIDE DEF head
      <3>4. Stands(le, head \o le, 4 + 1) BY <3>2, <3>3, Appended
      <3>5. \A j \in 1..AmountBytes : (head \o le)[(4 + 1) - 1 + j] = le[j]
        BY <3>2, <3>4 DEF Stands
      <3>6. data = head \o le BY DEF InstructionData, le, head
      <3>7. \A j \in 1..AmountBytes : (4 + 1) - 1 + j = 4 + j BY <3>1
      <3> HIDE DEF data
      <3> QED BY <3>5, <3>6, <3>7
    <2>2. t.lamports \in 0..(AmountLimit - 1) BY DEF Sized
    <2> HIDE DEF data
    <2> QED BY <2>1, <2>2, AmountRead DEF le
  <1> HIDE DEF r
  <1> QED BY <1>1, <1>2, <1>3, <1>4, <1>5 DEF TakenOf, r

(* The node splits what both programs put together, and takes the transfer if  *)
(* the accounts are distinct and the signature is the payer's.                 *)
LEMMA NodeUnderstands ==
    ASSUME NEW t, Sized(t), NEW key, NEW owners,
           Sign(Message(t), t.from, key) \in [1..SignatureLen -> Byte]
    PROVE  NodeTakes(Encoded(Signed(t, key)), owners)
             = IF /\ Distinct(t) /\ t.from \in DOMAIN owners
                  /\ Sign(Message(t), t.from, key) = Sign(Message(t), t.from, owners[t.from])
               THEN TakenOf(t) ELSE NotTaken
  <1> DEFINE data == Signed(t, key)
             sig == Sign(Message(t), t.from, key)
             m == Message(t)
             one == <<1>>
             count == ReadShortvec(data, 1)
             message == SubSeq(data, count.at + SignatureLen, Len(data))
             r == ReadMessage(message)
             signed == /\ r.keys[1] \in DOMAIN owners
                       /\ Slice(data, count.at, SignatureLen)
                              = Sign(message, r.keys[1], owners[r.keys[1]])
  <1>1. /\ data \in Seq(Byte) /\ Len(data) = 1 + SignatureLen + Len(m)
        /\ m \in Seq(Byte) /\ Len(m) > 0 /\ SignatureLen \in Nat
    BY SignedSized, MessageSized, Widths
  <1>2. Base64Decoded(Encoded(data)) = data BY <1>1, Base64Back
  <1>3. sig \in Seq(Byte) /\ Len(sig) = SignatureLen BY <1>1
  <1>4. data = (one \o sig) \o m BY DEF Signed
  <1>5. one \in Seq(Byte) /\ Len(one) = 1 /\ one[1] = 1 BY DEF Byte
  <1>6. Read(t).keys[1] = t.from
    <2>1. Read(t).keys = Keys(t) BY DEF Read
    <2>2. Keys(t)[1] = t.from
      <3>1. CASE HasMemo(t) BY <3>1 DEF Keys
      <3>2. CASE ~HasMemo(t) BY <3>2 DEF Keys
      <3> QED BY <3>1, <3>2
    <2> QED BY <2>1, <2>2
  <1>7. ReadMessage(m) = Read(t) BY MessageRead
  <1> HIDE DEF data, sig, m, one
  <1>8. /\ Stands(one, data, 1) /\ Stands(sig, data, 2) /\ Stands(m, data, 2 + SignatureLen)
    <2> DEFINE front == one \o sig
    <2>1. /\ front \in Seq(Byte) /\ Len(front) = 1 + SignatureLen
          /\ Begins(one, front) /\ Stands(sig, front, 1 + 1)
      BY <1>3, <1>5, Appended
    <2>2. Stands(one, front, 1)
      <3>1. Len(one) <= Len(front) /\ front[1] = one[1] BY <1>5, <2>1 DEF Begins
      <3>2. 1 - 1 + Len(one) <= Len(front) BY <3>1, <1>5, <2>1
      <3>3. \A i \in 1..Len(one) : front[1 - 1 + i] = one[i] BY <3>1, <1>5
      <3> QED BY <3>2, <3>3 DEF Stands
    <2> HIDE DEF front
    <2>3. data = front \o m BY <1>4 DEF front
    <2>4. Begins(front, data) /\ Stands(m, data, Len(front) + 1)
      BY <1>1, <2>1, <2>3, Appended
    <2>5. Len(front) + 1 = 2 + SignatureLen /\ 1 + 1 = 2 BY <1>1, <2>1
    <2>6. Stands(one, data, 1) BY <1>1, <1>5, <2>1, <2>2, <2>4, StandsStill
    <2>7. Stands(sig, data, 1 + 1) BY <1>1, <1>3, <2>1, <2>4, StandsStill
    <2> QED BY <2>4, <2>5, <2>6, <2>7
  <1> HIDE DEF count
  <1>9. count.value = 1 /\ count.at = 2
    <2>1. data \in Seq(Byte) /\ one \in Seq(Byte) /\ Stands(one, data, 1) /\ Len(one) > 0
      BY <1>1, <1>5, <1>8
    <2>2. OctetAt(data, 1) = one[1] BY <2>1, StandingRead
    <2>3. OctetAt(data, 1) = 1 BY <1>5, <2>2
    <2>4. count = [value |-> 1, at |-> 1 + 1] BY <2>3, ShortvecRead DEF count
    <2> QED BY <2>4
  <1> HIDE DEF message
  <1>10. message = m
    <2>1. Slice(data, 2 + SignatureLen, Len(m)) = m BY <1>1, <1>8, StandingRead
    <2>2. (2 + SignatureLen) + Len(m) - 1 = Len(data) BY <1>1
    <2> QED BY <1>9, <2>1, <2>2 DEF Slice, message
  <1>11. Slice(data, 2, SignatureLen) = sig BY <1>1, <1>3, <1>8, StandingRead
  <1> HIDE DEF r
  <1>12. r = Read(t) BY <1>7, <1>10 DEF r
  <1> HIDE DEF signed
  <1>13. signed <=> /\ t.from \in DOMAIN owners /\ sig = Sign(m, t.from, owners[t.from])
    BY <1>6, <1>9, <1>10, <1>11, <1>12 DEF signed
  <1>14. IsTransfer(r) <=> Distinct(t) BY <1>12, ReadIsTransfer
  <1>15. Len(data) > SignatureLen BY <1>1
  <1>16. NodeTakes(Encoded(data), owners)
           = IF Len(data) > SignatureLen /\ count.value = 1 /\ IsTransfer(r) /\ signed
             THEN Taken(r.keys[1], r.keys[2], AmountOf(r.instructions[1].data), r.blockhash,
                        IF Len(r.instructions) = 2 THEN r.instructions[2].data ELSE <<>>)
             ELSE NotTaken
    BY <1>2 DEF NodeTakes, count, message, r, signed
  <1>17. Taken(r.keys[1], r.keys[2], AmountOf(r.instructions[1].data), r.blockhash,
               IF Len(r.instructions) = 2 THEN r.instructions[2].data ELSE <<>>) = TakenOf(t)
    BY <1>12, TakenFromRead
  <1> QED BY <1>9, <1>13, <1>14, <1>15, <1>16, <1>17 DEF data, sig, m

-----------------------------------------------------------------------------
(* What is typed and what comes of it: the memo. *)
LEMMA MemoMeant ==
    ASSUME NEW p \in Programs, NEW o \in Orders, NEW memo \in MemoOf(p, o.typed),
           ~Overflowed(p, o.typed)
    PROVE  memo = MeantMemo(p, o.typed)
  <1> DEFINE n == o.typed
             left == n % MemoLine
             typed == Typed(n)
  <1>1. n \in Nat /\ MemoLine \in Nat \ {0} BY OrdersAssumption, InputAssumption
  <1>2. CASE p = "desktop" BY <1>2 DEF MemoOf, MeantMemo
  <1>3. CASE p = "cli"
    <2>1. n < MemoLine BY <1>1, <1>3 DEF Overflowed
    <2>2. left = n BY <1>1, <2>1
    <2>3. memo \in CliMemo(n) BY <1>3 DEF MemoOf
    <2> HIDE DEF left
    <2>4. CASE n = 0
      <3>1. memo = DefaultMemo BY <2>2, <2>3, <2>4 DEF CliMemo, left
      <3> QED BY <3>1, <1>3, <2>4 DEF MeantMemo
    <2>5. CASE n # 0
      <3>1. memo = SubSeq(typed, n - left + 1, n)
        BY <2>2, <2>3, <2>5 DEF CliMemo, left
      <3>2. n - left + 1 = 1 BY <1>1, <2>2
      <3>3. typed \in Seq(Nat) /\ Len(typed) = n
        <4>1. \A i \in 1..n : 65 + (i % 26) \in Nat BY <1>1
        <4>2. typed \in [1..n -> Nat] BY <4>1 DEF Typed
        <4> QED BY <4>2, <1>1
      <3> HIDE DEF typed
      <3>4. SubSeq(typed, 1, n) = typed BY <1>1, <3>3
      <3>5. MeantMemo(p, n) = typed BY <2>5 DEF MeantMemo, typed
      <3> QED BY <3>1, <3>2, <3>4, <3>5
    <2> QED BY <2>4, <2>5
  <1> QED BY <1>2, <1>3 DEF Programs

-----------------------------------------------------------------------------
(* The amount. *)
(* Every amount but those of Misread comes to what was meant, within what      *)
(* rounding loses, and each of those to more than a lamport away from it.      *)
LEMMA MeantInTenths ==
    ASSUME NEW n \in Int, NEW lamports \in Nat, NEW p,
           10 * lamports = n
    PROVE  n >= 0 /\ Within(10 * lamports - n, Loss(p, n))
  <1>1. Scale \in Nat /\ Scale >= 8 BY Scales
  <1>2. n >= 0 /\ 10 * lamports - n = 0 OBVIOUS
  <1>3. Scale * 0 = 0 BY <1>1
  <1>4. LET loss == (IF p = "cli" THEN 5 ELSE 10) * Scale + 5 * (n + 5)
        IN  -loss <= Scale * 0 /\ Scale * 0 <= loss
    BY <1>1, <1>2, <1>3
  <1> QED BY <1>2, <1>4, WithinIs

LEMMA AmountMeant ==
    ASSUME NEW p \in Programs, NEW o \in Orders, NEW lamports \in Lamports(p, o.amount)
    PROVE  LET meant == MeantTenths(p, o.amount)
               off == 10 * lamports - meant
           IN  IF Misread(p, o.amount) THEN off \notin -10..10 ELSE Within(off, Loss(p, meant))
  <1> DEFINE a == o.amount
             n == a.n
             h == a.head
             limit == AmountLimit
             lps == LamportsPerSol
             tenths == CliTenths(a)
             meant == MeantTenths(p, a)
             Claim == IF Misread(p, a) THEN 10 * lamports - meant \notin -10..10
                      ELSE Within(10 * lamports - meant, Loss(p, meant))
  <1>1. /\ limit \in Nat /\ limit >= Scale /\ Scale \in Nat /\ Scale >= 8
        /\ lps \in Nat /\ lps >= 100 /\ SmallAmount \in Nat /\ SmallAmount > 0
    BY Sizes, Scales
  <1>2. n \in Int /\ h \in Int /\ a.form \in {"integer", "decimal", "suffixed", "grouped", "worded"}
        /\ (a.form = "grouped" /\ h > 0 => n >= 1000 * InTenths(h))
    BY OrdersAssumption
  <1>3. tenths \in Int /\ tenths <= Coarsest
    BY TenthsAreIntegers, OrdersAssumption DEF Coarsest
  <1>4. lamports \in Nat
    <2>1. lamports \in 0..(AmountLimit - 1) BY LamportsBounded
    <2> QED BY <2>1
  <1> HIDE DEF tenths
  <1> SUFFICES Claim OBVIOUS
  <1>5. CASE p = "cli" /\ a.form = "integer"
    <2>1. lamports \in CliFromInteger(n) BY <1>5 DEF Lamports, prompt_lamports
    <2>2. meant = 10 * n /\ (Misread(p, a) <=> n < 0) BY <1>5 DEF MeantTenths, Misread
    <2>3. 10 * lamports = IF n < 0 THEN 10 * n + 10 * limit ELSE 10 * n
      BY <1>2, <2>1, TypedIntegerMeant
    <2>4. CASE n < 0
      <3>1. 10 * lamports - 10 * n = 10 * limit BY <1>1, <1>2, <2>3, <2>4
      <3>2. 10 * limit \notin -10..10 BY <1>1
      <3> QED BY <2>2, <2>4, <3>1, <3>2
    <2>5. CASE ~(n < 0)
      <3>1. 10 * lamports = 10 * n /\ 10 * n \in Int BY <1>2, <2>3, <2>5
      <3>2. Within(10 * lamports - 10 * n, Loss(p, 10 * n)) BY <1>4, <3>1, MeantInTenths
      <3> QED BY <2>2, <2>5, <3>2
    <2> QED BY <2>4, <2>5
  <1>6. ASSUME p = "cli", a.form # "integer"
        PROVE  /\ tenths > 0 /\ Scale * tenths \in Int
               /\ Scale * tenths - 5 * (tenths + 5) - 5 * Scale <= Scale * (10 * lamports)
               /\ Scale * (10 * lamports) <= Scale * tenths + 5 * (tenths + 5) + 5 * Scale
    <2>1. lamports \in CliFromSol(tenths) BY <1>6 DEF Lamports, prompt_lamports, tenths
    <2>2. /\ tenths > 0
          /\ (Scale - 5) * (tenths + 5) <= Scale * (10 * lamports) + 10 * Scale
          /\ Scale * (10 * lamports) <= (Scale + 5) * (tenths + 5)
      BY <1>3, <2>1, RoundedMeant
    <2>3. /\ (Scale + 5) * (tenths + 5) = Scale * tenths + 5 * Scale + 5 * (tenths + 5)
          /\ (Scale - 5) * (tenths + 5) = Scale * tenths + 5 * Scale - 5 * (tenths + 5)
          /\ Scale * tenths \in Int /\ Scale * (10 * lamports) \in Int
      BY <1>1, <1>3, <1>4
    <2> QED BY <1>1, <1>3, <2>2, <2>3
  <1>7. CASE p = "cli" /\ a.form \in {"decimal", "suffixed"}
    <2>1. meant = tenths /\ ~Misread(p, a)
      BY <1>7 DEF MeantTenths, CliTenths, Misread, tenths
    <2>2. LET loss == (IF p = "cli" THEN 5 ELSE 10) * Scale + 5 * (tenths + 5)
          IN  -loss <= Scale * (10 * lamports - tenths) /\ Scale * (10 * lamports - tenths) <= loss
      <3>1. Scale * (10 * lamports - tenths) = Scale * (10 * lamports) - Scale * tenths
            /\ Scale * (10 * lamports) \in Int
        BY <1>1, <1>3, <1>4
      <3> QED BY <1>1, <1>3, <1>6, <1>7, <3>1
    <2>3. Within(10 * lamports - tenths, Loss(p, tenths)) BY <1>3, <1>4, <2>2, WithinIs
    <2> QED BY <2>1, <2>3
  <1>8. ASSUME p = "cli", a.form # "integer"
        PROVE  /\ 80 * lamports <= 13 * tenths + 105
               /\ 3 * tenths - 65 <= 80 * lamports
    <2> DEFINE S == Scale * tenths
               T == 5 * (tenths + 5)
               L == Scale * (10 * lamports)
    <2>1. /\ tenths > 0 /\ S \in Int /\ S - T - 5 * Scale <= L /\ L <= S + T + 5 * Scale
      BY <1>6, <1>8
    <2>2. 8 * T <= (5 * (tenths + 5)) * Scale BY <1>1, <1>3, <2>1
    <2>3. (5 * (tenths + 5)) * Scale = 5 * S + 25 * Scale BY <1>1, <1>3
    <2>4. T \in Int /\ L \in Int BY <1>1, <1>3, <1>4
    <2>5. /\ (80 * lamports) * Scale = 8 * L
          /\ (13 * tenths + 105) * Scale = 13 * S + 105 * Scale
          /\ (3 * tenths - 65) * Scale = 3 * S - 65 * Scale
      BY <1>1, <1>3, <1>4
    <2> HIDE DEF S, T, L
    <2>6. (80 * lamports) * Scale <= (13 * tenths + 105) * Scale BY <1>1, <2>1, <2>2, <2>3, <2>4, <2>5
    <2>7. (3 * tenths - 65) * Scale <= (80 * lamports) * Scale BY <1>1, <2>1, <2>2, <2>3, <2>4, <2>5
    <2> QED BY <1>1, <1>3, <1>4, <2>6, <2>7, Cancelled
  <1>9. CASE p = "cli" /\ a.form = "grouped"
    <2>1. meant = n /\ Misread(p, a) /\ tenths = InTenths(h)
      BY <1>9 DEF MeantTenths, Misread, CliTenths, tenths
    <2>2. tenths = (10 * lps) * h BY <1>1, <1>2, <2>1 DEF InTenths
    <2>3. tenths > 0 BY <1>6, <1>9
    <2>4. h > 0
      <3> SUFFICES ASSUME h <= 0 PROVE FALSE BY <1>2
      <3>1. (10 * lps) * h <= 0 BY <1>1, <1>2
      <3> QED BY <1>3, <2>2, <2>3, <3>1
    <2>5. n >= 1000 * tenths BY <1>2, <1>9, <2>1, <2>4
    <2>6. 80 * lamports <= 13 * tenths + 105 BY <1>8, <1>9
    <2>7. 10 * lamports - n < -10 BY <1>2, <1>3, <1>4, <2>3, <2>5, <2>6
    <2>8. 10 * lamports - n \notin -10..10 BY <1>2, <1>4, <2>7
    <2> QED BY <2>1, <2>8
  <1>10. CASE p = "cli" /\ a.form = "worded"
    <2>1. meant = n /\ Misread(p, a) /\ tenths = lps * n
      BY <1>10 DEF MeantTenths, Misread, CliTenths, tenths
    <2>2. tenths > 0 /\ 3 * tenths - 65 <= 80 * lamports BY <1>6, <1>8, <1>10
    <2>3. n > 0
      <3> SUFFICES ASSUME n <= 0 PROVE FALSE BY <1>2
      <3>1. lps * n <= 0 BY <1>1, <1>2
      <3> QED BY <1>3, <2>1, <2>2, <3>1
    <2>4. tenths >= 100 * n BY <1>1, <1>2, <2>1, <2>3
    <2>5. 10 * lamports - n > 10 BY <1>2, <1>3, <1>4, <2>2, <2>3, <2>4
    <2>6. 10 * lamports - n \notin -10..10 BY <1>2, <1>4, <2>5
    <2> QED BY <2>1, <2>6
  <1>11. CASE p = "desktop" /\ a.form = "decimal" /\ n > 0
    <2>1. meant = n /\ (Misread(p, a) <=> n > 10 * limit) /\ tenths = n
      BY <1>11 DEF MeantTenths, Misread, CliTenths, tenths
    <2>2. LET cut == Floor(Times(Sol(n), LamportsPerSol))
          IN  lamports = IF cut < AmountLimit THEN cut ELSE AmountLimit - 1
      BY <1>11 DEF Lamports, parse_lamports
    <2>3. /\ lamports \in 0..(limit - 1)
          /\ Scale * (10 * lamports) <= Scale * n + 3 * n
          /\ n > 10 * limit \/ Scale * n - 3 * n <= Scale * (10 * lamports) + 10 * Scale
      BY <1>2, <1>3, <1>11, <2>1, <2>2, CutMeant
    <2>4. CASE n > 10 * limit
      <3>1. 10 * lamports - n < -10 BY <1>1, <1>2, <2>3, <2>4
      <3>2. 10 * lamports - n \notin -10..10 BY <1>2, <1>4, <3>1
      <3> QED BY <2>1, <2>4, <3>2
    <2>5. CASE ~(n > 10 * limit)
      <3>1. LET loss == (IF p = "cli" THEN 5 ELSE 10) * Scale + 5 * (n + 5)
            IN  -loss <= Scale * (10 * lamports - n) /\ Scale * (10 * lamports - n) <= loss
        <4>1. Scale * (10 * lamports - n) = Scale * (10 * lamports) - Scale * n
              /\ Scale * (10 * lamports) \in Int /\ Scale * n \in Int
          BY <1>1, <1>2, <1>4
        <4>2. p # "cli" BY <1>11
        <4> QED BY <1>1, <1>2, <1>11, <2>3, <2>5, <4>1, <4>2
      <3>2. Within(10 * lamports - n, Loss(p, n)) BY <1>2, <1>4, <3>1, WithinIs
      <3> QED BY <2>1, <2>5, <3>2
    <2> QED BY <2>4, <2>5
  <1>12. CASE p = "desktop" /\ a.form = "integer" /\ n \in 1..SmallAmount
    <2>1. lamports = n * lps BY <1>1, <1>12 DEF Lamports, parse_lamports
    <2>2. meant = InTenths(n) /\ ~Misread(p, a) BY <1>1, <1>12 DEF MeantTenths, Misread
    <2>3. InTenths(n) = 10 * (n * lps) BY <1>1, <1>2 DEF InTenths
    <2>4. 10 * lamports = InTenths(n) /\ InTenths(n) \in Int BY <1>4, <2>1, <2>3
    <2>5. Within(10 * lamports - InTenths(n), Loss(p, InTenths(n))) BY <1>4, <2>4, MeantInTenths
    <2> QED BY <2>2, <2>5
  <1>13. CASE p = "desktop" /\ a.form = "integer" /\ n \in (SmallAmount + 1)..(limit - 1)
    <2>1. lamports = n
      <3>1. n \notin 1..SmallAmount BY <1>1, <1>13
      <3> QED BY <1>13, <3>1 DEF Lamports, parse_lamports
    <2>2. n > SmallAmount BY <1>1, <1>13
    <2>3. meant = InTenths(n) /\ Misread(p, a) BY <1>13, <2>2 DEF MeantTenths, Misread
    <2>4. InTenths(n) = 10 * (lps * n) BY <1>1, <1>2 DEF InTenths
    <2> DEFINE sol == lps * n
    <2>5. sol \in Int /\ sol >= 100 * n /\ n >= 1 BY <1>1, <1>2, <2>2
    <2> HIDE DEF sol
    <2>6. 10 * n - 10 * sol < -10 BY <1>2, <2>5
    <2>7. 10 * n - 10 * sol \notin -10..10 BY <1>2, <2>5, <2>6
    <2> QED BY <2>1, <2>3, <2>4, <2>7 DEF sol
  <1>14. ASSUME p = "desktop" PROVE \/ a.form = "decimal" /\ n > 0
                                    \/ a.form = "integer" /\ n \in 1..SmallAmount
                                    \/ a.form = "integer" /\ n \in (SmallAmount + 1)..(limit - 1)
    BY <1>14 DEF Lamports, parse_lamports
  <1> HIDE DEF Claim
  <1>15. CASE p = "cli" BY <1>2, <1>5, <1>7, <1>9, <1>10, <1>15
  <1>16. CASE p = "desktop" BY <1>11, <1>12, <1>13, <1>14, <1>16
  <1> QED BY <1>15, <1>16 DEF Programs

-----------------------------------------------------------------------------
(* The transfer that is built. *)
LEMMA RecipientIsKey ==
    ASSUME NEW p \in Programs, NEW text \in Seq(Symbol \union {Unknown}),
           RecipientOf(p, text) # Refused
    PROVE  /\ RecipientOf(p, text) \in Key
           /\ solana_base58_encode(RecipientOf(p, text), 96) = text
  <1> DEFINE size == IF p = "cli" THEN KeyLen ELSE 64
             to == solana_base58_decode(text, size)
  <1>1. RecipientOf(p, text) = to /\ Len(to) = KeyLen
    BY DEF RecipientOf
  <1>2. KeyLen \in Nat /\ KeyLen > 0 /\ KeyLen <= 64 BY Widths, KeysAssumption
  <1>3. to # Refused BY <1>1
  <1> HIDE DEF size
  <1>4. to \in Seq(Byte) BY <1>3, DecodedBytes
  <1>5. solana_base58_encode(to, 96) = text BY <1>1, <1>2, <1>3, NameComesBack
  <1> HIDE DEF to
  <1>6. to \in Key BY <1>1, <1>4 DEF Key
  <1> QED BY <1>1, <1>5, <1>6

LEMMA PublicsAreKeys ==
    /\ Publics \subseteq Key /\ SystemProgram \notin Publics /\ MemoProgram \notin Publics
    /\ DOMAIN Owner = Publics
    /\ \A k \in PrivateKeys : PublicOf[k] \in Publics /\ Owner[PublicOf[k]] = k
    /\ \A public \in Publics : Owner[public] \in PrivateKeys /\ PublicOf[Owner[public]] = public
  <1>1. \A k \in PrivateKeys : PublicOf[k] \in Key \ {SystemProgram, MemoProgram}
    BY KeysAssumption DEF Key
  <1>2. \A j, k \in PrivateKeys : PublicOf[j] = PublicOf[k] => j = k BY KeysAssumption
  <1>3. DOMAIN Owner = Publics BY DEF Owner, Publics
  <1>4. ASSUME NEW public \in Publics
        PROVE  Owner[public] \in PrivateKeys /\ PublicOf[Owner[public]] = public
    <2>1. Owner[public] = CHOOSE k \in PrivateKeys : PublicOf[k] = public
      BY DEF Owner, Publics
    <2>2. \E k \in PrivateKeys : PublicOf[k] = public BY DEF Publics
    <2> QED BY <2>1, <2>2
  <1>5. \A k \in PrivateKeys : PublicOf[k] \in Publics BY DEF Publics
  <1> QED BY <1>1, <1>2, <1>3, <1>4, <1>5 DEF Publics

(* A transfer that both programs can build, and a node can check. *)
Signable(t) ==
    /\ Sized(t)
    /\ \A key \in PrivateKeys : Sign(Message(t), t.from, key) \in [1..SignatureLen -> Byte]
    /\ \A j, k \in PrivateKeys :
          Sign(Message(t), t.from, j) = Sign(Message(t), t.from, k) => j = k

OrderDone == at \in {"opened", "sent", "failed", "answered"}

LEMMA OrderIsOne ==
    ASSUME Sound, Whole, OrderDone
    PROVE  \E o \in Orders : OrderedAs(o)
  <1>1. order.to # Refused BY DEF OrderDone, Whole, OrderMade
  <1>2. order # NoOrder BY <1>1 DEF NoOrder
  <1> QED BY <1>2 DEF Whole, OrderMade

LEMMA TransferSignable ==
    ASSUME Sound, Whole, OrderDone, NEW hash \in Blockhashes,
           RecipientOf(program, hash) # Refused, Len(order.memo) <= MaxMemo
    PROVE  Signable(Transfer(RecipientOf(program, hash)))
  <1> DEFINE b == RecipientOf(program, hash)
             t == Transfer(b)
             p == program
  <1>1. PICK o \in Orders : OrderedAs(o) BY OrderIsOne
  <1>2. /\ order.to = RecipientOf(p, o.text) /\ order.to # Refused
        /\ order.lamports \in Lamports(p, o.amount) /\ order.memo \in MemoOf(p, o.typed)
    BY <1>1 DEF OrderedAs
  <1>3. p \in Programs BY DEF Whole, Loaded
  <1>4. PICK from \in PrivateKeys : loaded.public_key = PublicOf[from]
    BY DEF Whole, Loaded, OrderDone, InUse, Publics
  <1>5. t = [from |-> PublicOf[from], to |-> RecipientOf(p, o.text), lamports |-> order.lamports,
             blockhash |-> b, memo |-> order.memo]
    BY <1>2, <1>4 DEF Transfer
  <1>6. /\ t.from = PublicOf[from] /\ t.to = order.to /\ t.lamports = order.lamports
        /\ t.blockhash = b /\ t.memo = order.memo
    BY <1>2, <1>5
  <1>7. /\ hash \in Seq(Symbol \union {Unknown}) /\ o.text \in Seq(Symbol \union {Unknown})
    BY OrdersAssumption
  <1>8. Sized(t)
    <2>1. b \in Key BY <1>3, <1>7, RecipientIsKey
    <2>2. order.to \in Key BY <1>2, <1>3, <1>7, RecipientIsKey
    <2>3. PublicOf[from] \in Key BY PublicsAreKeys
    <2>4. order.lamports \in 0..(AmountLimit - 1) BY <1>2, <1>3, LamportsBounded
    <2>5. order.memo \in Seq(Byte) BY <1>2, <1>3, MemoBounded
    <2> HIDE DEF t, b
    <2> QED BY <1>6, <2>1, <2>2, <2>3, <2>4, <2>5 DEF Sized
  <1> DEFINE message == IF p = "cli" THEN CliMessage(t) ELSE DesktopMessage(t)
  <1>9. message = Message(t)
    <2> HIDE DEF t
    <2> QED BY <1>8, MessagesAgree
  <1>10. /\ \A key \in PrivateKeys : Sign(message, t.from, key) \in [1..SignatureLen -> Byte]
         /\ \A j, k \in PrivateKeys : Sign(message, t.from, j) = Sign(message, t.from, k) => j = k
    <2> DEFINE transfer(lamports, memo) ==
                   [from |-> PublicOf[from], to |-> RecipientOf(p, o.text),
                    lamports |-> lamports, blockhash |-> RecipientOf(p, hash), memo |-> memo]
               note(x) == IF p = "cli" THEN CliMessage(x) ELSE DesktopMessage(x)
               good(x) ==
                   Refused \notin {x.to, x.blockhash} /\ Len(x.memo) <= MaxMemo =>
                       /\ \A key \in PrivateKeys :
                             Sign(note(x), x.from, key) \in [1..SignatureLen -> Byte]
                       /\ \A j, k \in PrivateKeys :
                             Sign(note(x), x.from, j) = Sign(note(x), x.from, k) => j = k
    <2>1. \A lamports \in Lamports(p, o.amount), memo \in MemoOf(p, o.typed) :
              good(transfer(lamports, memo))
      BY <1>3, SignAssumption
    <2>2. transfer(order.lamports, order.memo) = t BY <1>5
    <2> HIDE DEF good, transfer, t
    <2>3. good(t) BY <1>2, <2>1, <2>2
    <2>4. Refused \notin {t.to, t.blockhash} /\ Len(t.memo) <= MaxMemo BY <1>2, <1>6
    <2> QED BY <2>3, <2>4 DEF good
  <1> HIDE DEF message, t
  <1> QED BY <1>8, <1>9, <1>10 DEF Signable, t

LEMMA MemoTooLong ==
    ASSUME NEW t, NEW key, Len(t.memo) > MaxMemo
    PROVE  CliTransaction(t, key) = Refused /\ DesktopTransaction(t, key) = Refused
  BY DEF CliTransaction, DesktopTransaction

LEMMA MemoIsText ==
    ASSUME Sound, Whole, OrderDone PROVE Len(order.memo) \in Nat /\ MaxMemo \in Nat
  <1>1. PICK o \in Orders : OrderedAs(o) BY OrderIsOne
  <1>2. program \in Programs /\ order.memo \in MemoOf(program, o.typed)
    BY <1>1 DEF OrderedAs, Whole, Loaded
  <1>3. order.memo \in Seq(Byte) BY <1>2, MemoBounded
  <1> QED BY <1>3, Widths

(* What the opened wallet's key makes of an order that can be signed. *)
LEMMA BuiltIsSigned ==
    ASSUME Sound, Whole, OrderDone, NEW hash \in Blockhashes,
           RecipientOf(program, hash) # Refused, Len(order.memo) <= MaxMemo,
           NEW key \in PrivateKeys
    PROVE  LET t == Transfer(RecipientOf(program, hash))
           IN  /\ CliTransaction(t, key) = Encoded(Signed(t, key))
               /\ DesktopTransaction(t, key) = Encoded(Signed(t, key))
               /\ Encoded(Signed(t, key)) # Refused
  <1> DEFINE t == Transfer(RecipientOf(program, hash))
  <1>1. Signable(t) BY TransferSignable
  <1> HIDE DEF t
  <1>2. Sized(t) /\ Sign(Message(t), t.from, key) \in [1..SignatureLen -> Byte]
    BY <1>1 DEF Signable
  <1>3. /\ CliTransaction(t, key) = Encoded(Signed(t, key))
        /\ DesktopTransaction(t, key) = Encoded(Signed(t, key))
        /\ Encoded(Signed(t, key)) # Refused
    BY <1>2, OneText
  <1> QED BY <1>3 DEF t

LEMMA MemoRefused ==
    ASSUME Sound, Whole, OrderDone, NEW b, NEW key, ~(Len(order.memo) <= MaxMemo)
    PROVE  /\ CliTransaction(Transfer(b), key) = Refused
           /\ DesktopTransaction(Transfer(b), key) = Refused
  <1> DEFINE t == Transfer(b)
  <1>1. t.memo = order.memo BY DEF Transfer
  <1>2. Len(order.memo) \in Nat /\ MaxMemo \in Nat BY MemoIsText
  <1>3. Len(t.memo) > MaxMemo BY <1>1, <1>2
  <1> HIDE DEF t
  <1>4. CliTransaction(t, key) = Refused /\ DesktopTransaction(t, key) = Refused
    BY <1>3, MemoTooLong
  <1> QED BY <1>4 DEF t

(* The two builds give the same text for the same transfer: both append the    *)
(* same pieces to the message, in the same order, and neither buffer is short. *)
THEOREM OneBuild == Spec => []BothBuildTheSame
  <1>1. Sound /\ Whole => BothBuildTheSame
    <2> SUFFICES ASSUME Sound, Whole, at = "opened", NEW hash \in Blockhashes,
                        RecipientOf(program, hash) # Refused
                 PROVE  LET t == Transfer(RecipientOf(program, hash))
                        IN  CliTransaction(t, held) = DesktopTransaction(t, held)
      BY DEF BothBuildTheSame
    <2>1. OrderDone BY DEF OrderDone
    <2>2. held \in PrivateKeys
      <3>1. held # NoKey BY DEF Whole, Sent
      <3>2. PICK i \in 1..Len(made) : made[i].key = held BY <3>1 DEF Sound, KeyIsMade
      <3> QED BY <3>2, KeysAssumption, LimitsAssumption DEF Whole, Drawn
    <2>3. CASE Len(order.memo) <= MaxMemo BY <2>1, <2>2, <2>3, BuiltIsSigned
    <2>4. CASE ~(Len(order.memo) <= MaxMemo) BY <2>1, <2>4, MemoRefused
    <2> QED BY <2>3, <2>4
  <1> QED BY <1>1, SoundAlways, WholeAlways, PTL

-----------------------------------------------------------------------------
(* What was sent, and what the node made of it. *)
LEMMA BuiltByWallet ==
    ASSUME Sound, Whole, at \in {"sent", "failed", "answered"}, NEW i \in 1..Len(made)
    PROVE  /\ made[i].key = i /\ i \in PrivateKeys
           /\ BuiltWith(i) = IF order.blockhash = Refused THEN Refused
                             ELSE IF program = "cli"
                                  THEN CliTransaction(Transfer(order.blockhash), i)
                                  ELSE DesktopTransaction(Transfer(order.blockhash), i)
  <1>1. made[i].key = i /\ i \in PrivateKeys
    BY KeysAssumption, LimitsAssumption DEF Whole, Drawn
  <1> QED BY <1>1 DEF BuiltWith, Transaction

SentBy(i, t) ==
    /\ Opens(i) /\ i \in 1..Len(made) /\ made[i].key = i /\ i \in PrivateKeys
    /\ Signable(t) /\ t = Transfer(order.blockhash)
    /\ wire = Encoded(Signed(t, i))

LEMMA SentIsSigned ==
    ASSUME Sound, Whole, at \in {"sent", "answered"}
    PROVE  \E i, t : SentBy(i, t)
  <1>1. OrderDone BY DEF OrderDone
  <1>2. PICK i \in 1..Len(made) :
            /\ Opens(i) /\ wire = BuiltWith(i) /\ wire # Refused
            /\ \E hash \in Blockhashes : order.blockhash = RecipientOf(program, hash)
    BY DEF Whole, Sent
  <1>3. PICK hash \in Blockhashes : order.blockhash = RecipientOf(program, hash) BY <1>2
  <1>4. /\ made[i].key = i /\ i \in PrivateKeys
        /\ BuiltWith(i) = IF order.blockhash = Refused THEN Refused
                          ELSE IF program = "cli"
                               THEN CliTransaction(Transfer(order.blockhash), i)
                               ELSE DesktopTransaction(Transfer(order.blockhash), i)
    BY BuiltByWallet
  <1>5. order.blockhash # Refused BY <1>2, <1>4
  <1>6. Len(order.memo) <= MaxMemo
    <2> SUFFICES ASSUME ~(Len(order.memo) <= MaxMemo) PROVE FALSE OBVIOUS
    <2>1. /\ CliTransaction(Transfer(order.blockhash), i) = Refused
          /\ DesktopTransaction(Transfer(order.blockhash), i) = Refused
      BY <1>1, MemoRefused
    <2> QED BY <1>2, <1>4, <2>1
  <1>7. Signable(Transfer(order.blockhash)) BY <1>1, <1>3, <1>5, <1>6, TransferSignable
  <1>8. wire = Encoded(Signed(Transfer(order.blockhash), i))
    <2>1. /\ CliTransaction(Transfer(order.blockhash), i)
                = Encoded(Signed(Transfer(order.blockhash), i))
          /\ DesktopTransaction(Transfer(order.blockhash), i)
                = Encoded(Signed(Transfer(order.blockhash), i))
      BY <1>1, <1>3, <1>4, <1>5, <1>6, BuiltIsSigned
    <2> QED BY <1>2, <1>4, <1>5, <2>1
  <1>9. SentBy(i, Transfer(order.blockhash)) BY <1>2, <1>4, <1>7, <1>8 DEF SentBy
  <1> QED BY <1>9

(* A node takes it if the accounts are distinct and the key is the owner's.    *)
LEMMA Answered ==
    ASSUME Sound, Whole, at = "answered", NEW i, NEW t, SentBy(i, t)
    PROVE  /\ t.from \in Publics
           /\ taken = IF Distinct(t) /\ i = Owner[t.from] THEN TakenOf(t) ELSE NotTaken
  <1>1. /\ Sized(t) /\ i \in PrivateKeys /\ Signable(t) /\ t = Transfer(order.blockhash)
        /\ wire = Encoded(Signed(t, i))
    BY DEF SentBy, Signable
  <1>2. t.from = loaded.public_key BY <1>1 DEF Transfer
  <1>3. t.from \in Publics BY <1>2 DEF Whole, Loaded, InUse
  <1>4. t.from \in DOMAIN Owner /\ Owner[t.from] \in PrivateKeys BY <1>3, PublicsAreKeys
  <1>5. taken = NodeTakes(wire, Owner) BY DEF Whole, Sent
  <1>6. Sign(Message(t), t.from, i) \in [1..SignatureLen -> Byte] BY <1>1 DEF Signable
  <1>7. NodeTakes(Encoded(Signed(t, i)), Owner)
          = IF /\ Distinct(t) /\ t.from \in DOMAIN Owner
               /\ Sign(Message(t), t.from, i) = Sign(Message(t), t.from, Owner[t.from])
            THEN TakenOf(t) ELSE NotTaken
    BY <1>1, <1>6, NodeUnderstands
  <1>8. Sign(Message(t), t.from, i) = Sign(Message(t), t.from, Owner[t.from])
          <=> i = Owner[t.from]
    BY <1>1, <1>4 DEF Signable
  <1> QED BY <1>1, <1>3, <1>4, <1>5, <1>7, <1>8

LEMMA TakenIsSomething ==
    ASSUME NEW t, Sized(t) PROVE TakenOf(t) # NotTaken
  <1>1. t.from \in Key /\ KeyLen > 0 /\ KeyLen \in Nat BY Widths DEF Sized
  <1>2. Len(t.from) = KeyLen BY <1>1, KeyIsSequence
  <1>3. t.from # Refused BY <1>1, <1>2 DEF Refused
  <1>4. TakenOf(t).from = t.from /\ NotTaken.from = Refused BY DEF TakenOf, Taken, NotTaken
  <1> QED BY <1>3, <1>4

(* Two wallets have no blob in common: each has a salt of its own. *)
LEMMA OneWallet ==
    ASSUME Sound, Whole, NEW i \in 1..Len(made), NEW j \in 1..Len(made),
           made[i].entry.blob = made[j].entry.blob
    PROVE  i = j
  <1>1. /\ made[i].entry = Entry(PublicOf[i], Blob(made[i].password, i, i, i))
        /\ made[j].entry = Entry(PublicOf[j], Blob(made[j].password, j, j, j))
    BY DEF Whole, Drawn
  <1>2. \A p, b : Entry(p, b).blob = b BY DEF Entry
  <1> QED BY <1>1, <1>2, BlobSalt

(* A transfer fails only for a reason: each text that the programs put        *)
(* together is one that the node can split, and a node refuses it only when   *)
(* the stored public key is not the wallet's own, or the recipient is an      *)
(* account that the message names already.                                    *)
THEOREM GoesThrough == Spec => []TransferGoesThrough
  <1>1. ASSUME Sound, Whole, at = "failed"
        PROVE  order.blockhash = Refused \/ Len(order.memo) > MaxMemo
    <2> SUFFICES ASSUME order.blockhash # Refused, Len(order.memo) <= MaxMemo PROVE FALSE
      <3>1. Len(order.memo) \in Nat /\ MaxMemo \in Nat BY <1>1, MemoIsText DEF OrderDone
      <3> QED BY <3>1
    <2>1. OrderDone BY <1>1 DEF OrderDone
    <2>2. PICK i \in 1..Len(made) :
              /\ BuiltWith(i) = Refused
              /\ \E hash \in Blockhashes : order.blockhash = RecipientOf(program, hash)
      BY <1>1 DEF Whole, Sent
    <2>3. PICK hash \in Blockhashes : order.blockhash = RecipientOf(program, hash) BY <2>2
    <2>4. /\ i \in PrivateKeys
          /\ BuiltWith(i) = IF order.blockhash = Refused THEN Refused
                            ELSE IF program = "cli"
                                 THEN CliTransaction(Transfer(order.blockhash), i)
                                 ELSE DesktopTransaction(Transfer(order.blockhash), i)
      BY <1>1, BuiltByWallet
    <2>5. /\ CliTransaction(Transfer(order.blockhash), i) # Refused
          /\ DesktopTransaction(Transfer(order.blockhash), i) # Refused
      BY <1>1, <2>1, <2>3, <2>4, BuiltIsSigned
    <2> QED BY <2>2, <2>4, <2>5
  <1>2. ASSUME Sound, Whole, at = "answered", taken = NotTaken,
               order.to \notin {loaded.public_key, SystemProgram, MemoProgram},
               NEW j \in DOMAIN made,
               made[j].entry.blob = loaded.blob, PublicOf[made[j].key] = loaded.public_key
        PROVE  FALSE
    <2>1. PICK i, t : SentBy(i, t) BY <1>2, SentIsSigned
    <2>2. DOMAIN made = 1..Len(made) BY <1>2 DEF Sound, SomeSeq
    <2>3. i \in 1..Len(made) /\ made[i].entry.blob = loaded.blob /\ made[i].key = i
          /\ i \in PrivateKeys /\ Sized(t) /\ t = Transfer(order.blockhash)
      BY <2>1 DEF SentBy, Opens, Signable
    <2>4. i = j BY <1>2, <2>2, <2>3, OneWallet
    <2>5. t.from = loaded.public_key /\ t.to = order.to BY <2>3 DEF Transfer
    <2>6. t.from \in Publics /\ Owner[t.from] = i
      BY <1>2, <2>3, <2>4, <2>5, PublicsAreKeys
    <2>7. Distinct(t) BY <1>2, <2>5, <2>6, PublicsAreKeys DEF Distinct
    <2>8. taken = TakenOf(t) BY <1>2, <2>1, <2>6, <2>7, Answered
    <2> QED BY <1>2, <2>3, <2>8, TakenIsSomething
  <1>3. Sound /\ Whole => TransferGoesThrough BY <1>1, <1>2 DEF TransferGoesThrough
  <1> QED BY <1>3, SoundAlways, WholeAlways, PTL

(* What the node takes is what the user asked for: the account of the wallet   *)
(* that was opened pays, to the account whose name was typed (base58 gives     *)
(* back what it was read from), with the memo that was typed unless it         *)
(* overflowed the prompt, and an amount: for those of Misread one that is more *)
(* than a lamport away from what was meant, for every other the amount that    *)
(* was meant but for half a lamport (prompt_lamports()) or one                 *)
(* (parse_lamports()) and what five roundings of a double lose. The proof adds *)
(* the roundings up, each of which is off by one of its last bits at most.     *)
THEOREM MeansWhatIsTaken == Spec => []TakenIsMeant
  <1>1. Sound /\ Whole => TakenIsMeant
    <2> SUFFICES ASSUME Sound, Whole, taken # NotTaken PROVE TakenIsMeant BY DEF TakenIsMeant
    <2>1. at = "answered" BY DEF Whole, Sent
    <2>2. PICK i, t : SentBy(i, t) BY <2>1, SentIsSigned
    <2>3. /\ i \in 1..Len(made) /\ made[i].key = i /\ Sized(t) /\ t = Transfer(order.blockhash)
          /\ made[i].password = Heard(program, order.password)
      BY <2>2 DEF SentBy, Opens, Signable
    <2>4. t.from \in Publics /\ i = Owner[t.from] /\ taken = TakenOf(t)
      BY <2>1, <2>2, Answered
    <2>5. /\ taken.from = t.from /\ taken.to = order.to /\ taken.lamports = order.lamports
          /\ taken.blockhash = order.blockhash /\ taken.memo = order.memo
      <3>1. /\ TakenOf(t).from = t.from /\ TakenOf(t).to = t.to
            /\ TakenOf(t).lamports = t.lamports /\ TakenOf(t).blockhash = t.blockhash
            /\ TakenOf(t).memo = t.memo
        BY DEF TakenOf, Taken
      <3>2. /\ t.to = order.to /\ t.lamports = order.lamports
            /\ t.blockhash = order.blockhash /\ t.memo = order.memo
        BY <2>3 DEF Transfer
      <3> QED BY <2>4, <3>1, <3>2
    <2>6. PICK o \in Orders : OrderedAs(o) BY <2>1, OrderIsOne DEF OrderDone
    <2>7. /\ program \in Programs /\ order.text = o.text /\ order.to = RecipientOf(program, o.text)
          /\ order.to # Refused /\ order.amount = o.amount /\ order.typed = o.typed
          /\ order.lamports \in Lamports(program, o.amount)
          /\ order.memo \in MemoOf(program, o.typed)
      BY <2>6 DEF OrderedAs, Whole, Loaded
    <2>8. \E k \in DOMAIN made : /\ taken.from = PublicOf[made[k].key]
                                /\ made[k].password = Heard(program, order.password)
      <3>1. DOMAIN made = 1..Len(made) BY DEF Sound, SomeSeq
      <3>2. PublicOf[i] = t.from BY <2>4, PublicsAreKeys
      <3> QED BY <2>3, <2>5, <3>1, <3>2
    <2>9. solana_base58_encode(taken.to, 96) = order.text
      <3>1. o.text \in Seq(Symbol \union {Unknown}) BY OrdersAssumption
      <3> QED BY <2>5, <2>7, <3>1, RecipientIsKey
    <2>10. taken.memo # MeantMemo(program, order.typed) => Overflowed(program, order.typed)
      BY <2>5, <2>7, MemoMeant
    <2>11. LET meant == MeantTenths(program, order.amount)
               off == 10 * taken.lamports - meant
           IN  IF Misread(program, order.amount) THEN off \notin -10..10
               ELSE Within(off, Loss(program, meant))
      BY <2>5, <2>7, AmountMeant
    <2> QED BY <2>5, <2>8, <2>9, <2>10, <2>11 DEF TakenIsMeant
  <1> QED BY <1>1, SoundAlways, WholeAlways, PTL

=============================================================================
