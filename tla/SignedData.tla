------------------------------- MODULE SignedData ------------------------------
(***************************************************************************)
(* What was signed, from the authenticator to the relying party.  A U2F    *)
(* token signs a message of its own form; its answer is made to look like  *)
(* that of a FIDO2 authenticator (ops/u2f.rs), and the relying party puts  *)
(* the message together again from what it is given.  Authenticator data   *)
(* of FIDO2 goes through as it is, unless attestation "none" asks for the  *)
(* AAGUID to be removed (ops/webauthn/make_credential.rs).                 *)
(*                                                                         *)
(* A signature is what was signed with which key.  Its bytes, and those of *)
(* the certificate before it, are one byte each.                           *)
(***************************************************************************)
EXTENDS AuthenticatorData, TLC

CONSTANTS
    Calls,       \* the commands an application asks for, as call below
    Handles,     \* credential ids
    Counters,
    Stray, U2fStray \* answers of faulty authenticators and tokens

VARIABLES
    stage,      \* idle, sent, answered, upgraded, told, over
    call,       \* the command: [op, rp, challenge, handle, present, attestation]
    wire,       \* the APDU of a U2F command
    reply,      \* the answer; with the status word of a U2F one
    signed,     \* [key, message], what the authenticator signed
    made,       \* the credential it made: [aaguid, id, key]
    data,       \* authenticator data in the library
    response    \* [id, bytes, format] for the relying party

vars == <<stage, call, wire, reply, signed, made, data, response>>

Ops == {"u2f register", "u2f sign", "register", "assert"}
U2fOps == {"u2f register", "u2f sign"}
Hashes == [1..HashLen -> 0..(BYTE - 1)]

SignedDataAssumption ==
    /\ AuthenticatorDataAssumption
    /\ Calls \subseteq [op : Ops, rp : Hashes, challenge : Hashes, handle : Handles,
                        present : BOOLEAN, attestation : {"none", "direct"}]
    /\ Handles \subseteq Seq(0..(BYTE - 1))
    /\ Counters \subseteq [1..CounterLen -> 0..(BYTE - 1)]

Nobody == [aaguid |-> <<>>, id |-> <<>>, key |-> <<>>]
Unsigned == [key |-> <<>>, message |-> <<>>]
NoData == [rp_id_hash |-> <<>>, flags |-> 0, signature_count |-> 0,
           attested_credential |-> <<>>, extensions |-> <<>>, raw |-> <<>>]
NoResponse == [id |-> <<>>, bytes |-> <<>>, format |-> "none"]

(* The point of a credential's key: its two coordinates.                   *)
Point(handle) == [i \in 1..(2 * CoordLen) |-> (Len(handle) + i) % BYTE]

Certificate == <<48>>
Signature == <<7>>
NoError == <<144, 0>>

-------------------------------------------------------------------------------
(* The requests.                                                           *)
U2F_REGISTER == 1
U2F_AUTHENTICATE == 2
CONTROL_BYTE_ENFORCE_UP_AND_SIGN == 3
CONTROL_BYTE_DONT_ENFORCE_UP_AND_SIGN == 8

raw_long(ins, p1, payload, le) ==
    <<0, ins, p1, 0>> \o Written(Len(payload), 3) \o payload \o Written(le, 2)

(* The longest answer, 65536 bytes, is written as 0.                       *)
RegisterApdu(c) ==
    raw_long(U2F_REGISTER, CONTROL_BYTE_ENFORCE_UP_AND_SIGN, c.challenge \o c.rp, BYTE ^ 2)

ControlByte(c) ==
    IF c.present THEN CONTROL_BYTE_ENFORCE_UP_AND_SIGN ELSE CONTROL_BYTE_DONT_ENFORCE_UP_AND_SIGN

(* key_handle.len() as u8.                                                 *)
SignApdu(c) ==
    raw_long(U2F_AUTHENTICATE, ControlByte(c),
             c.challenge \o c.rp \o <<Len(c.handle) % BYTE>> \o c.handle, BYTE)

Send ==
    /\ stage = "idle"
    /\ wire' = CASE call.op = "u2f register" -> RegisterApdu(call)
                 [] call.op = "u2f sign" -> SignApdu(call)
                 [] OTHER -> <<>>
    /\ stage' = "sent"
    /\ UNCHANGED <<call, reply, signed, made, data, response>>

-------------------------------------------------------------------------------
(* The authenticators.  A token reads its APDU by the lengths in it and    *)
(* refuses one whose lengths do not agree.                                 *)
Payload == Part(wire, 8, Number(Part(wire, 5, 3)))
WellFormed == Len(wire) = 7 + Len(Payload) + 2
TheirChallenge == Part(Payload, 1, HashLen)
TheirApp == Part(Payload, HashLen + 1, HashLen)

Answers(bytes, signature, credential) ==
    /\ stage' = "answered"
    /\ reply' = bytes /\ signed' = signature /\ made' = credential
    /\ UNCHANGED <<call, wire, data, response>>

TokenRegisters ==
    /\ stage = "sent" /\ wire # <<>> /\ wire[2] = U2F_REGISTER
    /\ WellFormed /\ Len(Payload) = 2 * HashLen
    /\ \E handle \in Handles :
         /\ Len(handle) < BYTE
         /\ Answers(<<5, 4>> \o Point(handle) \o <<Len(handle)>> \o handle
                      \o Certificate \o Signature \o NoError,
                    [key |-> <<>>,
                     message |-> <<0>> \o TheirApp \o TheirChallenge \o handle \o <<4>> \o Point(handle)],
                    [aaguid |-> [i \in 1..AaguidLen |-> 0], id |-> handle, key |-> Point(handle)])

TokenSigns ==
    /\ stage = "sent" /\ wire # <<>> /\ wire[2] = U2F_AUTHENTICATE
    /\ WellFormed /\ Len(Payload) > 2 * HashLen
    /\ LET handle == Part(Payload, 2 * HashLen + 2, Payload[2 * HashLen + 1])
           presence == IF wire[3] = CONTROL_BYTE_ENFORCE_UP_AND_SIGN THEN 1 ELSE 0
       IN  /\ Len(Payload) = 2 * HashLen + 1 + Payload[2 * HashLen + 1]
           /\ \E counter \in Counters :
                Answers(<<presence>> \o counter \o Signature \o NoError,
                        [key |-> Point(handle),
                         message |-> TheirApp \o <<presence>> \o counter \o TheirChallenge],
                        [aaguid |-> <<>>, id |-> handle, key |-> Point(handle)])

(* An unknown handle, a wrong length, a status the library does not know.  *)
TokenRefuses ==
    /\ stage = "sent" /\ wire # <<>>
    /\ \E status \in {<<106, 128>>, <<103, 0>>, <<1, 1>>} :
         Answers(status, Unsigned, Nobody)

AuthenticatorMakes ==
    /\ stage = "sent" /\ call.op = "register"
    /\ \E id \in Handles, counter \in Counters, extensions \in {<<>>} \cup {<<e>> : e \in Maps},
          flags \in {AT + UP, AT + UP + UV} :
         LET aaguid == [i \in 1..AaguidLen |-> 9]
             bytes == call.rp \o <<IF extensions = <<>> THEN flags ELSE flags + ED>> \o counter
                      \o aaguid \o Written(Len(id), 2) \o id \o <<CoseKey>> \o Point(id) \o extensions
         IN  Answers(bytes, [key |-> <<>>, message |-> bytes \o call.challenge],
                     [aaguid |-> aaguid, id |-> id, key |-> Point(id)])

AuthenticatorAsserts ==
    /\ stage = "sent" /\ call.op = "assert"
    /\ \E counter \in Counters, extensions \in {<<>>} \cup {<<e>> : e \in Maps}, flags \in {0, UP, UP + UV} :
         LET bytes == call.rp \o <<IF extensions = <<>> THEN flags ELSE flags + ED>> \o counter \o extensions
         IN  Answers(bytes, [key |-> Point(call.handle), message |-> bytes \o call.challenge],
                     [aaguid |-> <<>>, id |-> call.handle, key |-> Point(call.handle)])

AuthenticatorErrs ==
    /\ stage = "sent"
    /\ \/ call.op \in U2fOps /\ \E bytes \in U2fStray : Answers(bytes \o NoError, Unsigned, Nobody)
       \/ call.op \notin U2fOps /\ \E bytes \in Stray : Answers(bytes, Unsigned, Nobody)

-------------------------------------------------------------------------------
(* The answers.                                                            *)

(* TryFrom<&Vec<u8>> for ApduResponse: the last two bytes are the status.  *)
Body == SubSeq(reply, 1, Len(reply) - 2)
Succeeded == Len(reply) >= 2 /\ SubSeq(reply, Len(reply) - 1, Len(reply)) = NoError /\ Body # <<>>

FromU2f == [NoData EXCEPT !.rp_id_hash = call.rp, !.flags = UP]

(* Ctap1RegisterResponse: reserved byte, public key, length and key handle, *)
(* then a certificate that ends itself and the signature.                  *)
PointLen == 1 + 2 * CoordLen
HandleLength == Body[PointLen + 2]
RegistrationReads ==
    /\ Len(Body) >= PointLen + 2
    /\ Len(Body) >= PointLen + 2 + HandleLength + Len(Certificate)
    /\ Body[2] = 4
    /\ Part(Body, PointLen + 3 + HandleLength, Len(Certificate)) = Certificate

Upgraded(d) ==
    /\ data' = d /\ stage' = "upgraded"
    /\ UNCHANGED <<call, wire, reply, signed, made, response>>

(* RegisterResponse::try_upgrade.                                          *)
UpgradeRegistration ==
    /\ stage = "answered" /\ call.op = "u2f register" /\ Succeeded /\ RegistrationReads
    /\ Upgraded([FromU2f EXCEPT
         !.flags = UP + AT,
         !.attested_credential =
             <<[aaguid |-> [i \in 1..AaguidLen |-> 0],
                credential_id |-> Part(Body, PointLen + 3, HandleLength),
                credential_public_key |-> <<CoseKey>> \o Part(Body, 3, 2 * CoordLen)]>>])

CounterOf == Number(Part(Body, 2, CounterLen))

SignatureReads == Len(Body) >= 1 + CounterLen

(* SignResponse::try_upgrade: whatever the presence byte says, UP is set.  *)
UpgradeAssertion ==
    /\ stage = "answered" /\ call.op = "u2f sign" /\ call.present /\ Succeeded /\ SignatureReads
    /\ Upgraded([FromU2f EXCEPT !.signature_count = CounterOf])

(* Deserialize for AuthenticatorData.                                      *)
Deserialize ==
    /\ stage = "answered" /\ call.op \notin U2fOps /\ Readable(reply)
    /\ Upgraded(visit_bytes(reply))

(* A credential whose key is a COSE key (cose::read_alg).                   *)
Registered ==
    /\ data.attested_credential # <<>>
    /\ Head(data.attested_credential).credential_public_key[1] = CoseKey

(* An error; or the answer to a probe (new_preflight), of which only the   *)
(* success counts.                                                         *)
Ends ==
    /\ \/ stage = "answered" /\ call.op \in U2fOps /\ ~Succeeded
       \/ stage = "answered" /\ call.op = "u2f register" /\ Succeeded /\ ~RegistrationReads
       \/ stage = "answered" /\ call.op = "u2f sign" /\ Succeeded /\ ~(call.present /\ SignatureReads)
       \/ stage = "answered" /\ call.op \notin U2fOps /\ ~Readable(reply)
       \/ stage = "upgraded" /\ call.op = "register" /\ ~Registered
    /\ stage' = "over"
    /\ UNCHANGED <<call, wire, reply, signed, made, data, response>>

AAGUID_OFFSET == Fixed

scrub_aaguid(bytes) ==
    [i \in DOMAIN bytes |-> IF i - AAGUID_OFFSET \in 1..AaguidLen THEN 0 ELSE bytes[i]]

Format ==
    IF call.op = "u2f register" THEN "fido-u2f" ELSE "packed"

Tells(r) ==
    /\ response' = r /\ stage' = "told"
    /\ UNCHANGED <<call, wire, reply, signed, made, data>>

(* MakeCredentialResponse::to_idl_model.                                   *)
TellRegistration ==
    /\ stage = "upgraded" /\ call.op \in {"u2f register", "register"} /\ Registered
    /\ LET bytes == to_response_bytes(data)
           credential == Head(data.attested_credential)
       IN  Tells([id |-> credential.credential_id,
                  bytes |-> IF call.attestation = "none" THEN scrub_aaguid(bytes) ELSE bytes,
                  format |-> IF call.attestation = "none" THEN "none" ELSE Format])

(* Assertion::to_idl_model; U2F answers do not name the credential, so it  *)
(* is the one of the request.                                              *)
TellAssertion ==
    /\ stage = "upgraded" /\ call.op \in {"u2f sign", "assert"}
    /\ Tells([id |-> call.handle, bytes |-> to_response_bytes(data), format |-> "assertion"])

Init ==
    /\ stage = "idle" /\ wire = <<>> /\ reply = <<>> /\ signed = Unsigned
    /\ call \in Calls
    /\ made = Nobody /\ data = NoData /\ response = NoResponse

(* The library keeps nothing of a call.                                    *)
Return ==
    /\ stage \in {"over", "told"} /\ stage' = "idle"
    /\ wire' = <<>> /\ reply' = <<>> /\ signed' = Unsigned /\ made' = Nobody
    /\ data' = NoData /\ response' = NoResponse
    /\ call' \in Calls

Authenticator ==
    TokenRegisters \/ TokenSigns \/ TokenRefuses \/ AuthenticatorMakes \/ AuthenticatorAsserts
    \/ AuthenticatorErrs
Library ==
    UpgradeRegistration \/ UpgradeAssertion \/ Deserialize \/ Ends \/ TellRegistration
    \/ TellAssertion \/ Return

Next == Send \/ Authenticator \/ Library

Spec == Init /\ [][Next]_vars

-------------------------------------------------------------------------------

IsBytes(s) == s \in Seq(0..255)
TypeOK ==
    /\ stage \in {"idle", "sent", "answered", "upgraded", "told", "over"}
    /\ call \in Calls
    /\ IsBytes(wire) /\ IsBytes(reply)
    /\ data.rp_id_hash \in Seq(0..255) /\ data.flags \in 0..255 /\ IsBytes(data.raw)
    /\ data.raw = <<>> => data.signature_count \in 0..(BYTE ^ CounterLen - 1)
    /\ IsBytes(response.id) /\ IsBytes(response.bytes)
    /\ response.format \in {"none", "fido-u2f", "packed", "assertion"}

(* Authenticator data is accepted when it is one part after the other, and *)
(* nothing else is: no part is cut off, read twice or left over.           *)
ParserIsExact ==
    stage = "answered" /\ call.op \notin U2fOps => (Readable(reply) <=> IsEncoding(reply))

(* What a registration tells the relying party is of the credential that   *)
(* was made, and the attestation signature holds over it; with attestation *)
(* "none" the AAGUID is gone and everything else is as it was signed.      *)
Attested == made.aaguid \o Written(Len(made.id), 2) \o made.id \o <<CoseKey>> \o made.key
Scrubbed == [i \in 1..AaguidLen |-> 0] \o SubSeq(Attested, AaguidLen + 1, Len(Attested))
RegistrationVerifies ==
    stage = "told" /\ call.op \in {"u2f register", "register"} /\ signed # Unsigned =>
        LET d == response.bytes
            told == Part(d, Fixed + 1, Len(Attested))
        IN  /\ IsEncoding(d) /\ Part(d, 1, HashLen) = call.rp /\ response.id = made.id
            /\ response.format = "none" =>
                 /\ told = Scrubbed
                 /\ call.op = "register" =>
                      SubSeq(d, 1, Fixed) \o Attested \o SubSeq(d, Fixed + Len(Attested) + 1, Len(d))
                        \o call.challenge = signed.message
            /\ response.format # "none" => told = Attested
            /\ response.format = "packed" => signed.message = d \o call.challenge
            /\ response.format = "fido-u2f" =>
                 signed.message = <<0>> \o call.rp \o call.challenge \o made.id \o <<4>> \o made.key

(* The signature of an assertion holds over what the relying party is      *)
(* given, with the key of the credential it is told, over either protocol; *)
(* a credential id too long for a U2F token is not answered for.           *)
AssertionVerifies ==
    stage = "told" /\ call.op \in {"u2f sign", "assert"} /\ signed # Unsigned =>
        /\ signed = [key |-> Point(response.id), message |-> response.bytes \o call.challenge]
        /\ Part(response.bytes, 1, HashLen) = call.rp

(* Both of them: what the relying party is given verifies.                 *)
ResponsesVerify == RegistrationVerifies /\ AssertionVerifies
===============================================================================
