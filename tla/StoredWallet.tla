---------------------------- MODULE StoredWallet ----------------------------
(* The variable a wallet is kept in: wallet_crypto.c, which encrypts the       *)
(* private key under a password, and the ways each program puts the result     *)
(* into a string variable and takes it out again. The primitives are ideal: a  *)
(* derived key is the record of what it was derived from, a text enciphered    *)
(* with it opens with it alone, and a MAC names what it covers.                *)
EXTENDS Integers

CONSTANTS
    PayloadLen,     \* STORED_KEY_PAYLOAD_LEN: public key and blob
    Version,        \* WALLET_BLOB_VERSION
    EmptyPassword,
    Noise,          \* what is in a field that something else overwrote
    NoEntry,        \* the variable does not exist
    NoKey           \* a buffer that is zero

ASSUME PayloadAssumption == PayloadLen \in 1..255      \* its length is one byte

(* pbkdf2_hmac_sha512() *)
MasterKey(password, salt) == [password |-> password, salt |-> salt]

(* derive_stream_key(): one key for each label. *)
StreamKey(master, nonce, label) == [master |-> master, nonce |-> nonce, label |-> label]

(* The key stream, and hmac_sha512() cut to WALLET_MAC_LEN. *)
Cipher(key, private_key) == [under |-> key, of |-> private_key]
Mac(key, nonce, ciphertext) == [under |-> key, nonce |-> nonce, over |-> ciphertext]

(* wallet_encrypt_private_key(), with the salt and nonce it draws. *)
Blob(password, private_key, salt, nonce) ==
    LET master == MasterKey(password, salt)
        ciphertext == Cipher(StreamKey(master, nonce, "ENC"), private_key)
    IN  [version |-> Version, salt |-> salt, nonce |-> nonce, ciphertext |-> ciphertext,
         mac |-> Mac(StreamKey(master, nonce, "MAC"), nonce, ciphertext)]

(* A ciphertext that something else overwrote. *)
Garbled == Cipher(Noise, Noise)

(* What comes out of the key stream: the key, or bytes nobody chose. *)
Deciphered(key, ciphertext) == IF ciphertext.under = key THEN ciphertext.of ELSE Noise

(* A fault: the MAC is computed and not compared. *)
DecryptUnchecked(password, blob) ==
    LET master == MasterKey(password, blob.salt)
    IN  IF password # EmptyPassword /\ blob.version = Version
        THEN Deciphered(StreamKey(master, blob.nonce, "ENC"), blob.ciphertext)
        ELSE NoKey

(* wallet_decrypt_private_key(): NoKey, a zeroed buffer, unless the version    *)
(* and the MAC are right, which an overwritten one never is.                   *)
wallet_decrypt_private_key(password, blob) ==
    LET master == MasterKey(password, blob.salt)
        mac == Mac(StreamKey(master, blob.nonce, "MAC"), blob.nonce, blob.ciphertext)
    IN  IF /\ password # EmptyPassword
           /\ blob.version = Version
           /\ blob.mac # Noise /\ blob.mac = mac
        THEN Deciphered(StreamKey(master, blob.nonce, "ENC"), blob.ciphertext)
        ELSE NoKey

(* build_binary_entry(): a byte of length, the public key, the blob. *)
Entry(public_key, blob) ==
    [size |-> PayloadLen + 1, prefix |-> PayloadLen, public_key |-> public_key, blob |-> blob]

(* fetch_wallet_payload() of main.c: the size and the prefix are both checked. *)
CliFetches(entry) ==
    /\ entry # NoEntry
    /\ entry.size >= PayloadLen + 1
    /\ entry.prefix = PayloadLen
    /\ entry.prefix <= entry.size - 1

(* A fault: fetch_keypair() counts the length byte in. *)
DesktopFetchesWithPrefix(entry) ==
    /\ entry # NoEntry
    /\ entry.prefix <= entry.size - 1
    /\ entry.prefix = PayloadLen + 1

(* calc_fetch_binary_string() into a buffer of 256, and fetch_keypair(). *)
DesktopFetches(entry) ==
    /\ entry # NoEntry
    /\ entry.size >= 1
    /\ entry.prefix <= entry.size - 1
    /\ entry.prefix <= 256
    /\ entry.prefix = PayloadLen

=============================================================================
