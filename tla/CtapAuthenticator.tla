--------------------------- MODULE CtapAuthenticator ---------------------------
(***************************************************************************)
(* An authenticator as the CTAP standard has it, which is no code of the   *)
(* repository: it reads a command by the standard's own tables, checks     *)
(* who authorised it, and answers.  What the library builds and what this  *)
(* reads share nothing but the encoding of items and the primitives of     *)
(* cryptography, so that what is executed can be held against what was     *)
(* asked.                                                                  *)
(*                                                                         *)
(* An authenticator is a record of the number of its key, the number of    *)
(* its token and the token's length, permissions and relying party, the    *)
(* stored hash of its PIN (<<>> if none is set), the least length of a     *)
(* PIN, what is left of its retries, and whether it takes a PIN command    *)
(* without a protocol.                                                     *)
(***************************************************************************)
EXTENDS CtapMessages

Nothing == [command |-> "nothing", fields |-> {}]

(* Names of the parameters, by their indices.                              *)
StdTable ==
    (1 :> <<"clientDataHash", "rp", "user", "pubKeyCredParams", "excludeList", "extensions",
            "options", "pinUvAuthParam", "pinUvAuthProtocol">>)
    @@ (2 :> <<"rpId", "clientDataHash", "allowList", "extensions", "options", "pinUvAuthParam",
               "pinUvAuthProtocol">>)
    @@ (6 :> <<"pinUvAuthProtocol", "subCommand", "keyAgreement", "pinUvAuthParam", "newPinEnc",
               "pinHashEnc", "none", "none", "permissions", "rpId">>)
    @@ (9 :> <<"modality", "subCommand", "subCommandParams", "pinUvAuthProtocol",
               "pinUvAuthParam", "getModality">>)
    @@ (10 :> <<"subCommand", "subCommandParams", "pinUvAuthProtocol", "pinUvAuthParam">>)
    @@ (12 :> <<"get", "set", "offset", "length", "pinUvAuthParam", "pinUvAuthProtocol">>)
    @@ (13 :> <<"subCommand", "subCommandParams", "pinUvAuthProtocol", "pinUvAuthParam">>)
StdParams ==
    (9 :> <<"templateId", "templateFriendlyName", "timeoutMilliseconds">>)
    @@ (10 :> <<"rpIDHash", "credentialID", "user">>)
    @@ (13 :> <<"newMinPINLength", "minPinLengthRPIDs", "forceChangePin">>)
StdCommand ==
    [c \in {1, 2, 4, 7, 8, 11, 12} |->
        CASE c = 1 -> "makeCredential" [] c = 2 -> "getAssertion" [] c = 4 -> "getInfo"
          [] c = 7 -> "reset" [] c = 8 -> "getNextAssertion" [] c = 11 -> "selection"
          [] c = 12 -> "largeBlobs"]
StdSubcommand ==
    (9 :> <<"enrollBegin", "enrollCaptureNextSample", "cancelCurrentEnrollment",
            "enumerateEnrollments", "setFriendlyName", "removeEnrollment",
            "getFingerprintSensorInfo">>)
    @@ (10 :> <<"getCredsMetadata", "enumerateRPsBegin", "enumerateRPsGetNextRP",
                "enumerateCredentialsBegin", "enumerateCredentialsGetNextCredential",
                "deleteCredential", "updateUserInformation">>)
    @@ (13 :> <<"enableEnterpriseAttestation", "toggleAlwaysUv", "setMinPINLength">>)
(* The indices of an answer to each.                                       *)
StdAnswer ==
    [makeCredential |-> {1, 2, 3, 5}, getAssertion |-> {1, 2, 3, 4, 7},
     getNextAssertion |-> {1, 2, 3, 4}, getInfo |-> {1}, largeBlobs |-> {1},
     getCredsMetadata |-> {1, 2}, enumerateRPsBegin |-> {3, 4, 5}, enumerateRPsGetNextRP |-> {3, 4},
     enumerateCredentialsBegin |-> {6, 7, 8, 9, 10, 11},
     enumerateCredentialsGetNextCredential |-> {6, 7, 8, 10, 11},
     getModality |-> {1}, getFingerprintSensorInfo |-> {1, 2, 3, 8}, enumerateEnrollments |-> {7},
     enrollBegin |-> {4, 5, 6}, enrollCaptureNextSample |-> {5, 6}]

(* The preview codes are those of the command they preview.                *)
Released(code) == CASE code = 64 -> 9 [] code = 65 -> 10 [] OTHER -> code

(* The order of canonical CBOR: numbers ascend, short texts come first.    *)
TextKeys == <<"id", "rk", "up", "uv", "alg", "prf", "eval", "name", "type", "first", "second",
              "credBlob", "credProtect", "displayName", "hmac-secret", "largeBlobKey",
              "minPinLength", "hmac-secret-mc", "evalByCredential">>
RankOf(key, numbers) == IF numbers THEN key ELSE CHOOSE i \in DOMAIN TextKeys : TextKeys[i] = key
Ascends(map, numbers) ==
    \A i \in 1..(Len(map[2]) - 1) : RankOf(map[2][i][1], numbers) < RankOf(map[2][i + 1][1], numbers)
BytesAscend(map) ==
    \A i \in 1..(Len(map[2]) - 1) :
        LET a == map[2][i][1][2]
            b == map[2][i + 1][1][2]
        IN  \/ Len(a) < Len(b)
            \/ /\ Len(a) = Len(b)
               /\ \E k \in DOMAIN a : /\ SubSeq(a, 1, k - 1) = SubSeq(b, 1, k - 1)
                                        /\ a[k][2][1] < b[k][2][1]

(* The maps whose keys are numbers: parameters, those of a subcommand at   *)
(* the index inner, and the input of hmac-secret.                          *)
Part(item, numbered, inner) == [item |-> item, numbered |-> numbered, inner |-> inner]
IsNested(part) == part.item[1] \in {"map", "list", "bytemap"}
PartsOf(part) ==
    LET inside == part.item[2]
    IN  CASE part.item[1] = "map" ->
                 [i \in DOMAIN inside |->
                     Part(inside[i][2],
                          IF part.numbered THEN inside[i][1] = part.inner
                          ELSE inside[i][1] \in {"hmac-secret", "hmac-secret-mc"}, 0)]
          [] part.item[1] = "list" -> [i \in DOMAIN inside |-> Part(inside[i], FALSE, 0)]
          [] part.item[1] = "bytemap" -> [i \in DOMAIN inside |-> Part(inside[i][2], FALSE, 0)]
          [] OTHER -> <<>>

(* Every map is in order, level by level.  Maps and lists are nested five  *)
(* deep at most: salts by credential of an extension are.                  *)
MaxNesting == 5
Canonical(item, numbered, inner) ==
    LET level[d \in 1..(MaxNesting + 1)] ==
            IF d = 1 THEN <<Part(item, numbered, inner)>>
            ELSE LET above == level[d - 1]
                 IN  FlattenSeq([i \in DOMAIN above |-> PartsOf(above[i])])
    IN  /\ \A d \in 1..MaxNesting : \A i \in DOMAIN level[d] :
               /\ level[d][i].item[1] = "map" => Ascends(level[d][i].item, level[d][i].numbered)
               /\ level[d][i].item[1] = "bytemap" => BytesAscend(level[d][i].item)
        /\ \A i \in DOMAIN level[MaxNesting + 1] : ~IsNested(level[MaxNesting + 1][i])

-------------------------------------------------------------------------------
(* The PIN/UV auth protocols.                                              *)
StdPoint(a, key) == Digest("point", <<Of({a.key, OwnerOf(key)})>>)
StdSecret(a, version, key) ==
    IF version = 1 THEN Digest("sha", <<StdPoint(a, key)>>)
    ELSE Digest("hkdf", <<Zeros(HASH), StdPoint(a, key), Of("CTAP2 HMAC key")>>)
         \o Digest("hkdf", <<Zeros(HASH), StdPoint(a, key), Of("CTAP2 AES key")>>)
StdCipherKey(version, secret) == IF version = 1 THEN secret ELSE SubSeq(secret, HASH + 1, 2 * HASH)
StdMac(version, key, message) ==
    IF version = 1 THEN SubSeq(Digest("hmac", <<key, message>>), 1, BLOCK)
    ELSE Digest("hmac", <<SubSeq(key, 1, HASH), message>>)
(* Its own vectors differ from the library's.                              *)
StdVector == [i \in 1..BLOCK |-> <<"vector", <<i>>, i>>]
StdEncrypt(version, secret, text) ==
    IF version = 1 THEN CbcEncrypt(secret, Zeros(BLOCK), text)
    ELSE StdVector \o CbcEncrypt(StdCipherKey(2, secret), StdVector, text)
StdDecrypt(version, secret, code) ==
    IF version = 1 THEN CbcDecrypt(secret, Zeros(BLOCK), code)
    ELSE CbcDecrypt(StdCipherKey(2, secret), SubSeq(code, 1, BLOCK), SubSeq(code, BLOCK + 1, Len(code)))

StdHash(pin) == SubSeq(Digest("sha", <<pin>>), 1, BLOCK)
Token(a) == [i \in 1..a.length |-> <<"token", <<a.token>>, i>>]
CredRandom == [i \in 1..HASH |-> <<"random", <<0>>, i>>]
OutputOf(salt) == Digest("hmac", <<CredRandom, salt>>)
OutputsOf(salts) == FlattenSeq([i \in DOMAIN salts |-> OutputOf(salts[i])])

-------------------------------------------------------------------------------
StdStatus == [INVALID_COMMAND |-> 1, INVALID_CBOR |-> 18, MISSING_PARAMETER |-> 20,
              PIN_INVALID |-> 49, PIN_AUTH_INVALID |-> 51, PIN_NOT_SET |-> 53, PUAT_REQUIRED |-> 54,
              PIN_POLICY_VIOLATION |-> 55, UNAUTHORIZED_PERMISSION |-> 64]
Refuse(a, error) ==
    [reply |-> <<StdStatus[error]>>, authenticator |-> a, executed |-> Nothing]
Tell(a, map) ==
    [reply |-> IF map = Empty THEN <<0>> ELSE <<0, map>>, authenticator |-> a, executed |-> Nothing]

(* The parameters by their names, None where there is none.                *)
Given(code, packet) ==
    LET table == StdTable[code]
        at(i) == SelectSeq(packet[2][2], LAMBDA p : p[1] = i)
    IN  [name \in Range(table) |->
            LET i == CHOOSE k \in DOMAIN table : table[k] = name
            IN  IF at(i) = <<>> THEN None ELSE at(i)[1][2]]

(* authenticatorClientPIN.                                                 *)
Decapsulated(a, p) == StdSecret(a, p.pinUvAuthProtocol[2], p.keyAgreement[2])
Stripped(padded) == SelectSeq(padded, LAMBDA c : c # Byte(0))
CodePoints(pin) == Cardinality({i \in DOMAIN pin : pin[i][3] = 1})

NewPin(a, p) ==
    LET secret == Decapsulated(a, p)
        version == p.pinUvAuthProtocol[2]
        padded == StdDecrypt(version, secret, p.newPinEnc[2])
        pin == Stripped(padded)
        covered == p.newPinEnc[2] \o (IF p.pinHashEnc = None THEN <<>> ELSE p.pinHashEnc[2])
        hash == IF p.pinHashEnc = None THEN <<>> ELSE StdDecrypt(version, secret, p.pinHashEnc[2])
    IN  IF p.pinHashEnc = None /\ a.pin # <<>> THEN Refuse(a, "PIN_AUTH_INVALID")
        ELSE IF StdMac(version, secret, covered) # p.pinUvAuthParam[2]
             THEN Refuse(a, "PIN_AUTH_INVALID")
        ELSE IF hash # a.pin THEN Refuse([a EXCEPT !.key = @ + 1], "PIN_INVALID")
        ELSE IF Len(padded) # 4 * BLOCK \/ CodePoints(pin) < a.min
             THEN Refuse(a, "PIN_POLICY_VIOLATION")
        ELSE Tell([a EXCEPT !.pin = StdHash(pin), !.token = @ + 1], Empty)

BitsOf(n) == {i \in 0..6 : (n \div 2 ^ i) % 2 = 1}
MintToken(a, p, granted) ==
    LET minted == [a EXCEPT !.token = @ + 1, !.granted = granted, !.rpid = p.rpId]
        code == StdEncrypt(p.pinUvAuthProtocol[2], Decapsulated(a, p), Token(minted))
    IN  Tell(minted, Fields(<<<<2, Bytes(code)>>>>))
PinToken(a, p, granted) ==
    IF StdDecrypt(p.pinUvAuthProtocol[2], Decapsulated(a, p), p.pinHashEnc[2]) # a.pin
    THEN Refuse([a EXCEPT !.key = @ + 1], "PIN_INVALID")
    ELSE MintToken(a, p, granted)

ClientPin(a, p) ==
    LET sub == p.subCommand[2]
        has(names) == \A name \in names : p[name] # None
        exact(names) ==
            /\ has(names)
            /\ \A name \in DOMAIN p \ (names \cup {"subCommand"}) : p[name] = None
    IN  CASE sub = 1 /\ (p.pinUvAuthProtocol # None \/ a.modern) ->
                 Tell(a, Fields(<<<<3, Uint(a.pin_left)>>>>))
          [] sub = 2 /\ exact({"pinUvAuthProtocol"}) ->
                 Tell(a, Fields(<<<<1, CoseKey(PublicKey(a.key))>>>>))
          [] \/ sub = 3 /\ exact({"pinUvAuthProtocol", "keyAgreement", "newPinEnc", "pinUvAuthParam"})
             \/ sub = 4 /\ exact({"pinUvAuthProtocol", "keyAgreement", "newPinEnc", "pinHashEnc",
                                  "pinUvAuthParam"}) ->
                 NewPin(a, p)
          [] sub = 5 /\ exact({"pinUvAuthProtocol", "keyAgreement", "pinHashEnc"}) ->
                 PinToken(a, p, IF a.modern THEN {0, 1} ELSE 0..5)
          [] sub = 6 /\ has({"pinUvAuthProtocol", "keyAgreement", "permissions"}) ->
                 MintToken(a, p, BitsOf(p.permissions[2]))
          [] sub = 7 -> Tell(a, Fields(<<<<5, Uint(a.uv_left)>>>>))
          [] sub = 9 /\ has({"pinUvAuthProtocol", "keyAgreement", "pinHashEnc", "permissions"}) ->
                 PinToken(a, p, BitsOf(p.permissions[2]))
          [] OTHER -> Refuse(a, "MISSING_PARAMETER")

-------------------------------------------------------------------------------
(* The other commands: what must be authorised, by which bit, and over     *)
(* which message.                                                          *)
Bit(code) ==
    CASE code = 1 -> 0 [] code = 2 -> 1 [] code = 9 -> 3 [] code = 10 -> 2 [] code = 12 -> 4
      [] code = 13 -> 5
(* A persistent token is good for what only reads.                         *)
MayExecute(a, code, p) ==
    \/ Bit(code) \in a.granted
    \/ code = 10 /\ 6 \in a.granted /\ p.subCommand[2] \notin {6, 7}
MustAuthorise(code, p) ==
    CASE code = 9 -> p.subCommand # None /\ p.subCommand[2] \notin {3, 7}
      [] code = 10 -> p.subCommand[2] \notin {3, 5}
      [] code = 12 -> p.set # None
      [] OTHER -> code = 13
Little(n) == [i \in 1..4 |-> Byte((n \div (256 ^ (i - 1))) % 256)]
Covered(code, p) ==
    LET params == IF p.subCommandParams = None THEN <<>> ELSE Cbor(p.subCommandParams)
        ff == [i \in 1..HASH |-> Byte(255)]
    IN  CASE code \in {1, 2} -> p.clientDataHash[2]
          [] code = 9 -> <<Byte(p.modality[2]), Byte(p.subCommand[2])>> \o params
          [] code = 10 -> <<Byte(p.subCommand[2])>> \o params
          [] code = 12 ->
                 ff \o <<Byte(12), Byte(0)>> \o Little(p.offset[2]) \o Digest("sha", <<p.set[2]>>)
          [] code = 13 -> ff \o <<Byte(13), Byte(p.subCommand[2])>> \o params
RelyingPartyOf(code, p) == CASE code = 1 -> p.rp[2][1][2] [] code = 2 -> p.rpId [] OTHER -> None

(* hmac-secret: the salts that were meant, under the key that came along.  *)
Salts(a, ext) ==
    LET at(i) == SelectSeq(ext[2], LAMBDA p : p[1] = i)[1][2][2]
        version == at(4)
        secret == StdSecret(a, version, at(1))
    IN  IF StdMac(version, secret, at(2)) # at(3) THEN <<>> ELSE StdDecrypt(version, secret, at(2))
SaltsOf(salts) ==
    IF Len(salts) = HASH THEN <<salts>>
    ELSE <<SubSeq(salts, 1, HASH), SubSeq(salts, HASH + 1, Len(salts))>>
HmacName(code) == IF code = 1 THEN "hmac-secret-mc" ELSE "hmac-secret"
Extension(p, name) ==
    LET found == IF p.extensions = None THEN <<>>
                 ELSE SelectSeq(p.extensions[2], LAMBDA e : e[1] = name)
    IN  IF found = <<>> THEN None ELSE found[1][2]
HmacInput(code, p) == IF code \in {1, 2} THEN Extension(p, HmacName(code)) ELSE None
SaltsIn(a, ext) == IF ext = None THEN <<>> ELSE Salts(a, ext)
HmacSalts(a, code, p) == SaltsIn(a, HmacInput(code, p))

(* Native PRF: the salts of the credential, or those for all.              *)
SaltItems(map) == [i \in DOMAIN map[2] |-> map[2][i][2][2]]
NativeSalts(p) ==
    LET prf == IF p.extensions = None THEN None ELSE Extension(p, "prf")
        entry(name) == SelectSeq(prf[2], LAMBDA e : e[1] = name)
        own == IF entry("evalByCredential") = <<>> \/ p.allowList = None THEN <<>>
               ELSE SelectSeq(entry("evalByCredential")[1][2][2],
                              LAMBDA e : e[1] = p.allowList[2][1][2][1][2])
    IN  IF prf = None THEN <<>>
        ELSE IF own # <<>> THEN SaltItems(own[1][2])
        ELSE IF entry("eval") # <<>> THEN SaltItems(entry("eval")[1][2]) ELSE <<>>

(* What was executed, without what authorised it, the salts in the clear.  *)
Meant(a, code, p) ==
    LET hmac == HmacSalts(a, code, p)
        clear(ext) ==
            {IF e[1] = HmacName(code) /\ hmac # <<>> THEN <<e[1], <<"salts", hmac>>>> ELSE e :
                e \in Range(ext[2])}
        given == {n \in DOMAIN p \ {"pinUvAuthParam", "pinUvAuthProtocol"} : p[n] # None}
        value(name) ==
            CASE name = "subCommand" -> StdSubcommand[code][p[name][2]]
              [] name = "subCommandParams" ->
                     {<<StdParams[code][e[1]], e[2]>> : e \in Range(p[name][2])}
              [] name = "extensions" -> clear(p[name])
              [] OTHER -> p[name]
    IN  {<<name, value(name)>> : name \in given}

NameOf(code, p) ==
    IF code \in DOMAIN StdCommand
    THEN IF code = 12 /\ p.set # None THEN "set" ELSE StdCommand[code]
    ELSE IF p.subCommand = None THEN "getModality" ELSE StdSubcommand[code][p.subCommand[2]]

(* The answer: values that say what they are, signed data with the outputs *)
(* of hmac-secret under the secret of its key, native PRF's beside it.     *)
AnswerTo(a, code, p) ==
    LET name == NameOf(code, p)
        salts == HmacSalts(a, code, p)
        ext == Extension(p, HmacName(code))
        at(i) == SelectSeq(ext[2], LAMBDA e : e[1] = i)[1][2][2]
        under == StdEncrypt(at(4), StdSecret(a, at(4), at(1)), OutputsOf(SaltsOf(salts)))
        native == IF code \in {1, 2} THEN NativeSalts(p @@ [allowList |-> None]) ELSE <<>>
        value(i) ==
            IF name \in {"makeCredential", "getAssertion", "getNextAssertion"} /\ i = 2
            THEN <<"data", IF salts = <<>> THEN None ELSE Bytes(under)>>
            ELSE <<"answer", name, i>>
        plain == SetToSortSeq(IF name \in DOMAIN StdAnswer THEN StdAnswer[name] ELSE {}, <)
    IN  Fields([k \in DOMAIN plain |-> <<plain[k], value(plain[k])>>]
               \o (IF native = <<>> THEN <<>>
                   ELSE <<<<IF code = 1 THEN 6 ELSE 8,
                            <<"prf", [i \in DOMAIN native |-> OutputOf(native[i])]>>>>>>))

Execute(a, code, p) ==
    [Tell(a, AnswerTo(a, code, p)) EXCEPT
        !.executed = [command |-> IF code \in DOMAIN StdCommand THEN StdCommand[code]
                                  ELSE CASE code = 9 -> "bioEnrollment"
                                         [] code = 10 -> "credentialManagement"
                                         [] code = 13 -> "config",
                      fields |-> Meant(a, code, p)]]

(* Without a parameter of authentication, with an empty one that only asks *)
(* for a touch, or with one.                                               *)
Command(a, code, p) ==
    LET version == p.pinUvAuthProtocol[2]
        rp == RelyingPartyOf(code, p)
        authorised == p.pinUvAuthParam # None
    IN  IF code \in {1, 2} /\ HmacInput(code, p) # None /\ HmacSalts(a, code, p) = <<>>
        THEN Refuse(a, "PIN_AUTH_INVALID")
        ELSE IF ~authorised /\ a.pin # <<>> /\ MustAuthorise(code, p) THEN Refuse(a, "PUAT_REQUIRED")
        ELSE IF code \in {1, 2} /\ p.pinUvAuthParam = Bytes(<<>>)
        THEN Refuse(a, IF a.pin = <<>> THEN "PIN_NOT_SET" ELSE "PIN_INVALID")
        ELSE IF authorised /\ StdMac(version, Token(a), Covered(code, p)) # p.pinUvAuthParam[2]
             THEN Refuse(a, "PIN_AUTH_INVALID")
        ELSE IF /\ authorised
                /\ ~MayExecute(a, code, p) \/ (rp # None /\ a.rpid # None /\ a.rpid # rp)
             THEN Refuse(a, "UNAUTHORIZED_PERMISSION")
        ELSE Execute(a, code, p)

(* Strict about the order of keys, as authenticators may be.               *)
WellFormed(code, packet) ==
    Canonical(packet[2], TRUE, CASE code = 9 -> 3 [] code \in {10, 13} -> 2 [] OTHER -> 0)

Served(a, packet) ==
    LET code == Released(packet[1])
    IN  IF Len(packet) = 1
        THEN IF code \in {4, 7, 8, 11} THEN Execute(a, code, [none |-> None])
             ELSE Refuse(a, "INVALID_COMMAND")
        ELSE IF ~WellFormed(code, packet) THEN Refuse(a, "INVALID_CBOR")
        ELSE IF code = 6 THEN ClientPin(a, Given(code, packet))
        ELSE Command(a, code, Given(code, packet))
===============================================================================
