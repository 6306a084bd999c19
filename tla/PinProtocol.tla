------------------------------ MODULE PinProtocol ------------------------------
(***************************************************************************)
(* The two PIN/UV auth protocols (pin/mod.rs): key agreement, encryption   *)
(* and authentication between the library and an authenticator.            *)
(*                                                                         *)
(* Bytes are cells that say what they came from: a cell is a triple of its *)
(* kind, what was computed on, and its place in the result.  Two results   *)
(* are the same only if the same function was given the same input, and    *)
(* nobody reads a text out of its ciphertext but with the key.  What was   *)
(* computed on is kept by its runs: a kind, an input, and the first and    *)
(* last place.  Lengths are those of the code, in units of its AES block   *)
(* of 16 bytes; BLOCK is the cells of such a block.  A hash has two blocks.*)
(***************************************************************************)
EXTENDS Integers, Sequences, SequencesExt

CONSTANT BLOCK

(* The assumption on it; asserted where it gets its value. *)
PinProtocolAssumption == BLOCK \in Nat \ {0}

HASH == 2 * BLOCK

(* The same sequence, element by element.                                  *)
Written(s) == s \o <<>>

Byte(n) == <<"byte", <<n>>, 1>>
Zeros(n) == Written([i \in 1..n |-> Byte(0)])

(* What a function that fails returns; it has the length of no result.     *)
Failed == <<<<"failed", <<>>, 0>>>>

Packed(bytes) ==
    LET runs[n \in 0..Len(bytes)] ==
            IF n = 0 THEN <<>>
            ELSE LET before == runs[n - 1]
                     last == before[Len(before)]
                     c == bytes[n]
                 IN  IF before # <<>> /\ <<c[1], c[2], c[3] - 1>> = <<last[1], last[2], last[4]>>
                     THEN [before EXCEPT ![Len(before)][4] = c[3]]
                     ELSE Append(before, <<c[1], c[2], c[3], c[3]>>)
    IN  runs[Len(bytes)]
Unpacked(runs) ==
    FlattenSeq([k \in DOMAIN runs |->
                   [i \in 1..(runs[k][4] - runs[k][3] + 1) |->
                       <<runs[k][1], runs[k][2], runs[k][3] + i - 1>>]])

Digest(function, inputs) ==
    LET packed == Written([k \in DOMAIN inputs |-> Packed(inputs[k])])
    IN  Written([i \in 1..HASH |-> <<function, packed, i>>])
Of(what) == <<<<"of", <<what>>, 1>>>>
Left(bytes, n) == SubSeq(bytes, 1, n)
From(bytes, n) == SubSeq(bytes, n + 1, Len(bytes))

-------------------------------------------------------------------------------
(* The primitives of other crates.  In a block chain, a cell depends on    *)
(* the text up to the end of its block.                                    *)
Sha256(bytes) == Digest("sha", <<bytes>>)
hmac_sha256(key, message) == Digest("hmac", <<key, message>>)
hkdf_sha256(salt, ikm, info) == Digest("hkdf", <<salt, ikm, Of(info)>>)

BlockOf(i) == (i + BLOCK - 1) \div BLOCK
CbcEncrypt(key, iv, text) ==
    LET upTo(b) == IF BLOCK * b < Len(text) THEN BLOCK * b ELSE Len(text)
        input(b) == <<Packed(key), Packed(iv), Packed(Left(text, upTo(b)))>>
        inputs == Written([b \in 1..BlockOf(Len(text)) |-> input(b)])
    IN  IF Len(key) # HASH THEN Failed
        ELSE Written([i \in DOMAIN text |-> <<"aes", inputs[BlockOf(i)], i>>])

(* The wrong key or vector gives bytes too, but not those of the text.     *)
CbcDecrypt(key, iv, code) ==
    LET last == code[Len(code)]
    IN  IF Len(key) # HASH \/ Len(code) % BLOCK # 0 THEN Failed
        ELSE IF code = <<>> THEN <<>>
        ELSE IF last[1] = "aes" /\ code = CbcEncrypt(key, iv, Unpacked(last[2][3]))
             THEN Unpacked(last[2][3])
        ELSE LET input == <<Packed(key), Packed(iv), Packed(code)>>
             IN  Written([i \in DOMAIN code |-> <<"garbled", input, i>>])

(* P-256: the point of a key has two coordinates, and the owners of two    *)
(* keys compute the same point from the one's own and the other's.         *)
PublicKey(owner) ==
    [format |-> "EcdhEsHkdf256Key", x |-> Digest("x", <<Of(owner)>>), y |-> Digest("y", <<Of(owner)>>)]
OwnerOf(key) == key.x[1][2][1][1][2][1]
OnCurve(key) ==
    /\ key.x[1][1] = "x"
    /\ key = [PublicKey(OwnerOf(key)) EXCEPT !.format = key.format]
diffie_hellman(own, key) == Digest("point", <<Of({own, OwnerOf(key)})>>)

-------------------------------------------------------------------------------
(* PinUvAuthProtocolOne and PinUvAuthProtocolTwo.  A secret of the second  *)
(* is a key for authentication and a key for encryption.                   *)
KdfOne(z) == Sha256(z)
KdfTwo(z) ==
    hkdf_sha256(Zeros(HASH), z, "CTAP2 HMAC key") \o hkdf_sha256(Zeros(HASH), z, "CTAP2 AES key")

EncryptOne(key, text) == CbcEncrypt(key, Zeros(BLOCK), text)
DecryptOne(key, code) ==
    IF Len(code) % BLOCK # 0 THEN Failed ELSE CbcDecrypt(key, Zeros(BLOCK), code)
AuthenticateOne(key, message) == Left(hmac_sha256(key, message), BLOCK)

(* iv: the random bytes that the call draws.                               *)
EncryptTwo(key, text, iv) ==
    LET code == CbcEncrypt(From(key, HASH), iv, text)
    IN  IF code = Failed THEN Failed ELSE iv \o code
DecryptTwo(key, code) ==
    IF Len(code) < BLOCK THEN Failed
    ELSE CbcDecrypt(From(key, HASH), Left(code, BLOCK), From(code, BLOCK))
AuthenticateTwo(key, message) ==
    IF Len(key) < HASH THEN Failed ELSE hmac_sha256(Left(key, HASH), message)

(* The protocol object of a version.                                       *)
kdf(version, z) == IF version = 1 THEN KdfOne(z) ELSE KdfTwo(z)
encrypt(version, key, text, iv) ==
    IF version = 1 THEN EncryptOne(key, text) ELSE EncryptTwo(key, text, iv)
decrypt(version, key, code) == IF version = 1 THEN DecryptOne(key, code) ELSE DecryptTwo(key, code)
authenticate(version, key, message) ==
    IF version = 1 THEN AuthenticateOne(key, message) ELSE AuthenticateTwo(key, message)

(* The secret with the owner of a key, if the key is one.                  *)
ecdh(version, own, key) ==
    IF key.format # "EcdhEsHkdf256Key" \/ Len(key.x) # HASH \/ Len(key.y) # HASH \/ ~OnCurve(key)
    THEN Failed
    ELSE kdf(version, diffie_hellman(own, key))

pin_hash(pin) == Left(Sha256(pin), BLOCK)

(* A decrypted token: 16 or 32 bytes, or 32.                               *)
pin_uv_auth_token_len_valid(version, len) == len \in (IF version = 1 THEN {BLOCK, HASH} ELSE {HASH})

(* The first protocol of the authenticator's list that the library has.    *)
select_uv_proto(protocols) ==
    LET known == SelectSeq(protocols, LAMBDA p : p \in {1, 2})
    IN  IF known = <<>> THEN 0 ELSE known[1]

-------------------------------------------------------------------------------
(* PINs are sequences of characters.  An accented letter may be one        *)
(* character or a letter and a combining accent after it; NFC makes it     *)
(* one.                                                                    *)
Composed == [a |-> "a-acute", e |-> "e-acute"]
Accent == "acute"
Utf8Len(c) == IF c = Accent \/ c \in {Composed[l] : l \in DOMAIN Composed} THEN 2 ELSE 1

nfc_AsTyped(pin) == pin

nfc(pin) ==
    LET joined(i) == i \in DOMAIN pin /\ i > 1 /\ pin[i] = Accent /\ pin[i - 1] \in DOMAIN Composed
        whole == [i \in DOMAIN pin |-> IF joined(i + 1) THEN Composed[pin[i]] ELSE pin[i]]
        kept == SelectSeq([i \in DOMAIN pin |-> i], LAMBDA i : ~joined(i))
    IN  [k \in DOMAIN kept |-> whole[kept[k]]]

Utf8(pin) ==
    FoldLeft(LAMBDA bytes, c : bytes \o [k \in 1..Utf8Len(c) |-> <<"utf8", <<c>>, k>>], <<>>, pin)

(* The PIN, padded with zeros to 64 bytes.                                 *)
PIN_MAX == 4 * BLOCK
Padded(pin) == pin \o Zeros(PIN_MAX - Len(pin))
================================================================================
