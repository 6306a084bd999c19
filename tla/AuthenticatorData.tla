--------------------------- MODULE AuthenticatorData ---------------------------
(***************************************************************************)
(* The bytes an authenticator signs (fido.rs): authenticator data is read  *)
(* into fields and kept verbatim beside them, or, for a U2F token, which   *)
(* sends none, put together from fields.                                   *)
(*                                                                         *)
(* The lengths of the parts are constants, so that every string of bytes   *)
(* around them can be tried; in the code a hash has 32 bytes, an AAGUID    *)
(* 16, a counter 4 and a coordinate 32.                                    *)
(***************************************************************************)
EXTENDS Naturals, Sequences, SequencesExt

CONSTANTS HashLen, AaguidLen, CounterLen, CoordLen

(* The assumption on these; asserted where they get their values. *)
AuthenticatorDataAssumption ==
    {HashLen, AaguidLen, CounterLen, CoordLen} \subseteq Nat \ {0}

BYTE == 256

(* AuthenticatorDataFlags. *)
UP == 1
UV == 4
AT == 64
ED == 128
Has(flags, bit) == flags % (2 * bit) >= bit

(* Big-endian numbers.                                                     *)
Number(bytes) == FoldLeft(LAMBDA n, b : n * BYTE + b, 0, bytes)
Written(n, len) == [i \in 1..len |-> (n \div BYTE ^ (len - i)) % BYTE]

Part(d, start, len) == SubSeq(d, start, start + len - 1)

-------------------------------------------------------------------------------
(* The CBOR reader advances over one item.  Items that occur: small        *)
(* integers, a string of one byte, maps of extensions, null, and a P-256   *)
(* key in COSE form, whose constant bytes are its first.  A map is its     *)
(* first byte: 160 has nothing but extensions that are modelled in the     *)
(* code, and 161 has one that is not, which is read and forgotten.         *)
Map == 160
OtherMap == 161
Maps == {Map, OtherMap}
Null == 246
CoseKey == 165

(* The position after the item that begins at i, or 0.                     *)
ItemEnd(d, i) ==
    LET length == IF i > Len(d) THEN 0
                  ELSE CASE d[i] < 24 \/ d[i] \in Maps \cup {Null} -> 1
                         [] d[i] = 65 -> 2
                         [] d[i] = CoseKey -> 1 + 2 * CoordLen
                         [] OTHER -> 0
    IN  IF length = 0 \/ i + length > Len(d) + 1 THEN 0 ELSE i + length

(* Extensions are a map, or null for none.                                 *)
ExtensionsEnd(d, i) == IF i \in DOMAIN d /\ d[i] \in Maps \cup {Null} THEN ItemEnd(d, i) ELSE 0

Fixed == HashLen + 1 + CounterLen

FlagsOf(d) == d[HashLen + 1]
IdLength(d) == Number(Part(d, Fixed + AaguidLen + 1, 2))
KeyStart(d) == Fixed + AaguidLen + 2 + IdLength(d) + 1

(* Where the attested credential ends, or 0; the two checks of the length  *)
(* come before what they protect.                                          *)
CredentialEnd(d) ==
    IF ~Has(FlagsOf(d), AT) THEN Fixed + 1
    ELSE IF Len(d) < Fixed + AaguidLen + 2 THEN 0
    ELSE IF Len(d) < Fixed + AaguidLen + 2 + IdLength(d) THEN 0
    ELSE ItemEnd(d, KeyStart(d))

(* Changed form: what follows the last part is let through.                *)
Readable_Trailing(d) ==
    /\ Len(d) >= Fixed /\ CredentialEnd(d) # 0
    /\ Has(FlagsOf(d), ED) => ExtensionsEnd(d, CredentialEnd(d)) # 0

(* visit_bytes succeeds.                                                   *)
Readable(d) ==
    /\ Len(d) >= Fixed /\ CredentialEnd(d) # 0
    /\ Len(d) + 1 = IF Has(FlagsOf(d), ED) THEN ExtensionsEnd(d, CredentialEnd(d))
                    ELSE CredentialEnd(d)

(* What visit_bytes returns.  The attested credential is a sequence of at  *)
(* most one; raw is empty in data that is not an authenticator's.          *)
visit_bytes(d) ==
    [rp_id_hash |-> Part(d, 1, HashLen), flags |-> FlagsOf(d),
     signature_count |-> Number(Part(d, HashLen + 2, CounterLen)),
     attested_credential |->
        IF ~Has(FlagsOf(d), AT) THEN <<>>
        ELSE <<[aaguid |-> Part(d, Fixed + 1, AaguidLen),
                credential_id |-> Part(d, Fixed + AaguidLen + 3, IdLength(d)),
                credential_public_key |-> SubSeq(d, KeyStart(d), CredentialEnd(d) - 1)]>>,
     extensions |-> IF Has(FlagsOf(d), ED) /\ Last(d) \in Maps THEN <<Map>> ELSE <<>>,
     raw |-> d]

(* credential_id.len() as u16.                                             *)
CredentialBytes(c) ==
    c.aaguid \o Written(Len(c.credential_id), 2) \o c.credential_id \o c.credential_public_key

(* Data without an authenticator's bytes is put together from its fields.  *)
Rebuilt(a) ==
    a.rp_id_hash \o <<a.flags>> \o Written(a.signature_count, CounterLen)
    \o FlattenSeq([i \in DOMAIN a.attested_credential |-> CredentialBytes(a.attested_credential[i])])
    \o (IF a.extensions # <<>> THEN a.extensions
        ELSE IF Has(a.flags, ED) THEN <<Null>> ELSE <<>>)

(* Changed form: an authenticator's bytes are put together anew, too.      *)
to_response_bytes_Rebuilt(a) == Rebuilt(a)
to_response_bytes(a) == IF a.raw # <<>> THEN a.raw ELSE Rebuilt(a)

-------------------------------------------------------------------------------
(* The layout as an authenticator writes it, one part after the other.     *)
IsItem(s) == ItemEnd(s, 1) = Len(s) + 1
IsCredential(s) ==
    \E n \in 0..Len(s) :
        /\ Len(s) >= AaguidLen + 2 + n
        /\ Part(s, AaguidLen + 1, 2) = Written(n, 2)
        /\ IsItem(SubSeq(s, AaguidLen + 3 + n, Len(s)))
IsEncoding(d) ==
    /\ Len(d) >= Fixed
    /\ \E cut \in Fixed..Len(d) :
         LET credential == SubSeq(d, Fixed + 1, cut)
             extensions == SubSeq(d, cut + 1, Len(d))
         IN  /\ IF Has(FlagsOf(d), AT) THEN IsCredential(credential) ELSE credential = <<>>
             /\ IF Has(FlagsOf(d), ED) THEN extensions \in {<<e>> : e \in Maps \cup {Null}}
                ELSE extensions = <<>>
===============================================================================
