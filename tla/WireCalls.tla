------------------------------- MODULE WireCalls -------------------------------
(***************************************************************************)
(* Calls for CtapWire: what an application may ask, the operation that was *)
(* found for it, and what is meant by it in the terms of the standard.     *)
(***************************************************************************)
EXTENDS CtapAuthenticator

Hash == [i \in 1..HASH |-> <<"clientData", <<0>>, i>>]
Id(n) == <<Byte(n)>>
LongId == <<Byte(1), Byte(2)>>
Pin1 == <<"a", "b", "c", "d">>
Pin2 == <<"w", "x", "y", "z">>

Told(name, pairs) == {<<p[2], <<"answer", name, p[1]>>>> : p \in pairs}
Params(params) == {<<"subCommandParams", params>>}

(* A request, the command it stands for, and what is told of the answer    *)
(* beside the signed data.                                                 *)
Meaning(request, command, fields, told) ==
    [request |-> request, command |-> [command |-> command, fields |-> fields], told |-> told]

-------------------------------------------------------------------------------
CredIdMap(id) == <<"map", <<<<"id", Bytes(id)>>, <<"type", Text("public-key")>>>>>>
UserMap == <<"map", <<<<"id", Bytes(Id(7))>>, <<"name", Text("u")>>, <<"displayName", Text("U")>>>>>>
User == [id |-> Id(7), name |-> Text("u"), display_name |-> Text("U")]

Cm(request, name, params, told) ==
    Meaning(request, "credentialManagement", {<<"subCommand", name>>} \cup params, Told(name, told))
CredentialManagement ==
    {Cm(new_get_credential_metadata, "getCredsMetadata", {},
        {<<1, "existing_resident_credentials_count">>,
         <<2, "max_possible_remaining_resident_credentials_count">>}),
     Cm(new_enumerate_rps_begin, "enumerateRPsBegin", {},
        {<<3, "rp">>, <<4, "rp_id_hash">>, <<5, "total_rps">>}),
     Cm(new_enumerate_credentials_begin(Hash), "enumerateCredentialsBegin",
        Params({<<"rpIDHash", Bytes(Hash)>>}),
        {<<6, "user">>, <<7, "credential_id">>, <<8, "public_key">>, <<9, "total_credentials">>,
         <<10, "cred_protect">>, <<11, "large_blob_key">>}),
     Cm(new_delete_credential(Id(1)), "deleteCredential",
        Params({<<"credentialID", CredIdMap(Id(1))>>}), {}),
     Cm(new_update_user_information(Id(1), User), "updateUserInformation",
        Params({<<"credentialID", CredIdMap(Id(1))>>, <<"user", UserMap>>}), {})}
CredentialManagementNext ==
    {Cm(new_enumerate_rps_next_rp, "enumerateRPsGetNextRP", {}, {<<3, "rp">>, <<4, "rp_id_hash">>}),
     Cm(new_enumerate_credentials_next, "enumerateCredentialsGetNextCredential", {},
        {<<6, "user">>, <<7, "credential_id">>, <<8, "public_key">>, <<10, "cred_protect">>,
         <<11, "large_blob_key">>})}

Bio(request, name, params, told) ==
    Meaning(request, "bioEnrollment",
            {<<"modality", Uint(1)>>, <<"subCommand", name>>} \cup params, Told(name, told))
Template == <<"templateId", Bytes(Id(3))>>
Enrollments ==
    {Bio(new_enumerate_enrollments, "enumerateEnrollments", {}, {<<7, "template_infos">>}),
     Bio(new_remove_enrollment(Id(3)), "removeEnrollment", Params({Template}), {}),
     Bio(new_rename_enrollment(Id(3), "thumb"), "setFriendlyName",
         Params({Template, <<"templateFriendlyName", Text("thumb")>>}), {}),
     Bio(new_start_new_enrollment(None), "enrollBegin", {},
         {<<4, "template_id">>, <<5, "last_enroll_sample_status">>, <<6, "remaining_samples">>}),
     Bio(new_start_new_enrollment(Uint(9)), "enrollBegin", Params({<<"timeoutMilliseconds", Uint(9)>>}),
         {<<4, "template_id">>, <<5, "last_enroll_sample_status">>, <<6, "remaining_samples">>}),
     Bio(new_next_enrollment(Id(3), Uint(9)), "enrollCaptureNextSample",
         Params({Template, <<"timeoutMilliseconds", Uint(9)>>}),
         {<<5, "last_enroll_sample_status">>, <<6, "remaining_samples">>}),
     Bio(new_cancel_current_enrollment, "cancelCurrentEnrollment", {}, {})}
Sensor ==
    {Meaning(new_get_modality, "bioEnrollment", {<<"getModality", Bool(TRUE)>>},
             Told("getModality", {<<1, "modality">>})),
     Bio(new_fingerprint_sensor_info, "getFingerprintSensorInfo", {},
         {<<1, "modality">>, <<2, "fingerprint_kind">>,
          <<3, "max_capture_samples_required_for_enroll">>, <<8, "max_template_friendly_name">>})}

Config(request, name, params) ==
    Meaning(request, "config", {<<"subCommand", name>>} \cup params, {})
Configurations ==
    {Config(new_toggle_always_uv, "toggleAlwaysUv", {}),
     Config(new_enable_enterprise_attestation, "enableEnterpriseAttestation", {}),
     Config(new_set_min_pin_length(6), "setMinPINLength", Params({<<"newMinPINLength", Uint(6)>>})),
     Config(new_force_change_pin(TRUE), "setMinPINLength", Params({<<"forceChangePin", Bool(TRUE)>>})),
     Config(new_set_min_pin_length_rpids(<<"rp", "other">>), "setMinPINLength",
            Params({<<"minPinLengthRPIDs", List(<<Text("rp"), Text("other")>>)>>}))}

-------------------------------------------------------------------------------
(* makeCredential.                                                         *)
NoInfo == [extensions |-> {}, options |-> {}]
Everything == [extensions |-> {"hmac-secret", "hmac-secret-mc", "credBlob", "credProtect"},
               options |-> {"rk", "largeBlobs"}]
Native == [extensions |-> {"prf", "hmac-secret", "hmac-secret-mc"}, options |-> {}]

NoPrf == [asked |-> FALSE, eval |-> <<>>, by |-> <<>>]
Eval(input) == [asked |-> TRUE, eval |-> input, by |-> <<>>]
First == <<Byte(11), Byte(12)>>
Second == <<>>
SaltOf(value) == Digest("sha", <<<<<<"text", <<"WebAuthn PRF">>, 1>>, Byte(0)>> \o value>>)
Outputs(input) == [i \in DOMAIN input |-> OutputOf(SaltOf(input[i]))]
SaltMap(input) ==
    <<"map", IF Len(input) = 1 THEN <<<<"first", Bytes(SaltOf(input[1]))>>>>
             ELSE <<<<"first", Bytes(SaltOf(input[1]))>>, <<"second", Bytes(SaltOf(input[2]))>>>>>>
AllSalts(input) == FlattenSeq([i \in DOMAIN input |-> SaltOf(input[i])])

NoMcExtensions == [prf |-> [asked |-> FALSE, eval |-> <<>>], cred_blob |-> None, cred_protect |-> None,
                   hmac_create_secret |-> FALSE, large_blob |-> FALSE, min_pin_length |-> None]
McOp == [hash |-> Hash, relying_party |-> [id |-> "rp", name |-> Text("Rp")], user |-> User,
         algorithms |-> <<-7, -257>>, exclude |-> None, extensions |-> NoMcExtensions,
         resident_key |-> "none"]
AlgMap(alg) == <<"map", <<<<"alg", Uint(alg)>>, <<"type", Text("public-key")>>>>>>
McFields ==
    {<<"clientDataHash", Bytes(Hash)>>,
     <<"rp", <<"map", <<<<"id", Text("rp")>>, <<"name", Text("Rp")>>>>>>>>,
     <<"user", UserMap>>, <<"pubKeyCredParams", List(<<AlgMap(-7), AlgMap(-257)>>)>>}
McTold ==
    Told("makeCredential", {<<1, "format">>, <<3, "attestation_statement">>, <<5, "large_blob_key">>})
Mc(op, info, fields, told) ==
    Meaning(MakeCredentialRequest(op, info), "makeCredential", McFields \cup fields, told)
Option(name, value) == <<"options", <<"map", <<<<name, Bool(value)>>>>>>>>

PlainRegistration == Mc(McOp, NoInfo, {}, McTold)
Registrations ==
    {Mc([McOp EXCEPT !.resident_key = "discouraged", !.exclude = Descriptors(<<Id(1), LongId>>)],
        Everything,
        {Option("rk", FALSE), <<"excludeList", List(<<CredIdMap(Id(1)), CredIdMap(LongId)>>)>>},
        McTold),
     Mc([McOp EXCEPT !.resident_key = "preferred"], Everything, {Option("rk", TRUE)}, McTold),
     Mc([McOp EXCEPT !.resident_key = "preferred"], NoInfo, {}, McTold),
     Mc([McOp EXCEPT !.resident_key = "required",
                     !.extensions = [prf |-> [asked |-> FALSE, eval |-> <<>>],
                                     cred_blob |-> Bytes(Id(9)), cred_protect |-> Uint(3),
                                     hmac_create_secret |-> TRUE, large_blob |-> TRUE,
                                     min_pin_length |-> Bool(TRUE)]],
        Everything,
        {Option("rk", TRUE),
         <<"extensions", {<<"credBlob", Bytes(Id(9))>>, <<"credProtect", Uint(3)>>,
                          <<"hmac-secret", Bool(TRUE)>>, <<"largeBlobKey", Bool(TRUE)>>,
                          <<"minPinLength", Bool(TRUE)>>}>>},
        McTold)}

McWithPrf(input) ==
    Mc([McOp EXCEPT !.extensions.prf = [asked |-> TRUE, eval |-> input]], Everything,
       {<<"extensions", {<<"hmac-secret", Bool(TRUE)>>, <<"hmac-secret-mc", <<"salts", AllSalts(input)>>>>}>>},
       McTold)
McWithoutSecret ==
    Mc([McOp EXCEPT !.extensions.prf = [asked |-> TRUE, eval |-> <<First>>]], Everything,
       {<<"extensions", {<<"hmac-secret", Bool(TRUE)>>}>>}, McTold)
McNative(input) ==
    Mc([McOp EXCEPT !.extensions.prf = [asked |-> TRUE, eval |-> input]], Native,
       {<<"extensions", {<<"prf", <<"map", <<<<"eval", SaltMap(input)>>>>>>>>}>>},
       McTold \cup {<<"unsigned_extension_outputs", <<"prf", Outputs(input)>>>>})
Dummy == [request |-> dummy, command |-> Nothing, told |-> {}]

-------------------------------------------------------------------------------
(* getAssertion.                                                           *)
GaOp == [relying_party_id |-> "rp", client_data_hash |-> Hash, allow |-> <<>>,
         extensions |-> [cred_blob |-> None, prf |-> NoPrf, large_blob |-> "none"],
         user_verification |-> "preferred"]
GaFields(verify) ==
    {<<"rpId", Text("rp")>>, <<"clientDataHash", Bytes(Hash)>>,
     <<"options", <<"map", <<<<"up", Bool(TRUE)>>>>
                           \o (IF verify THEN <<<<"uv", Bool(TRUE)>>>> ELSE <<>>)>>>>}
GaTold ==
    Told("getAssertion", {<<1, "credential_id">>, <<3, "signature">>, <<4, "user">>,
                          <<7, "large_blob_key">>})
Ga(op, info, fields, told) ==
    Meaning(GetAssertionRequest(op, info), "getAssertion", GaFields(FALSE) \cup fields, told)
Allowed(ids) == <<"allowList", List([i \in DOMAIN ids |-> CredIdMap(ids[i])])>>

PlainAssertion == Ga(GaOp, NoInfo, {}, GaTold)
RequiredAssertion == Ga([GaOp EXCEPT !.user_verification = "required"], NoInfo, {}, GaTold)
Assertions ==
    {Ga([GaOp EXCEPT !.allow = <<Id(1), LongId>>], NoInfo, {Allowed(<<Id(1), LongId>>)}, GaTold),
     Ga([GaOp EXCEPT !.extensions.cred_blob = Bool(TRUE), !.extensions.large_blob = "read"], Everything,
        {<<"extensions", {<<"credBlob", Bool(TRUE)>>, <<"largeBlobKey", Bool(TRUE)>>}>>}, GaTold),
     Ga([GaOp EXCEPT !.extensions.large_blob = "read"], NoInfo, {}, GaTold)}

ByBoth == <<<<LongId, <<First>>>>, <<Id(2), <<Second>>>>, <<Id(1), <<First, Second>>>>>>
PrfOp(allow, eval, by) ==
    [GaOp EXCEPT !.allow = allow, !.extensions.prf = [asked |-> TRUE, eval |-> eval, by |-> by]]
GaPrf(allow, eval, by, input) ==
    Ga(PrfOp(allow, eval, by), Everything,
       {<<"extensions", {<<"hmac-secret", <<"salts", AllSalts(input)>>>>}>>}
       \cup (IF allow = <<>> THEN {} ELSE {Allowed(allow)}),
       GaTold)
(* Without a secret, or an input, the map of extensions is there and empty.*)
GaNoPrf(allow, eval, by, info) ==
    Ga(PrfOp(allow, eval, by), info,
       {<<"extensions", {}>>} \cup (IF allow = <<>> THEN {} ELSE {Allowed(allow)}), GaTold)
GaNative(allow, eval, by, map, input) ==
    Ga(PrfOp(allow, eval, by), Native,
       {<<"extensions", {<<"prf", <<"map", map>>>>}>>}
       \cup (IF allow = <<>> THEN {} ELSE {Allowed(allow)}),
       GaTold \cup {<<"unsigned_extension_outputs", <<"prf", Outputs(input)>>>>})
-------------------------------------------------------------------------------
(* Calls.                                                                  *)
Device == [key |-> 1, token |-> 1, length |-> HASH, granted |-> {}, rpid |-> None,
           pin |-> StdHash(Utf8(Pin1)), min |-> 4, pin_left |-> 8, uv_left |-> 3, modern |-> TRUE]
Open == [Device EXCEPT !.pin = <<>>]
Old == [Device EXCEPT !.modern = FALSE]

CallOf(meaning, op, protocols, device) ==
    [kind |-> "command", request |-> meaning.request, info |-> NoInfo, protocols |-> protocols,
     op |-> op, fallback |-> "none", shared |-> TRUE, typed |-> Pin1, new |-> <<>>,
     min_pin_length |-> 4, client_pin |-> "set", store |-> FALSE, allow |-> <<>>, chunks |-> <<>>,
     total |-> 0, prf |-> FALSE, device |-> device, faults |-> {},
     asked |-> [commands |-> <<meaning.command>>, errors |-> {"Ok"}, told |-> meaning.told,
                outputs |-> {<<>>}, pin |-> <<>>]]
Failing(c, errors) == [c EXCEPT !.asked.errors = errors]

Managing == CredentialManagement \cup Enrollments \cup Configurations
Using == Registrations \cup Assertions \cup {PlainRegistration, PlainAssertion}
AuthorisedCalls ==
    {CallOf(m, op, IF op = "uv" THEN <<2, 1>> ELSE <<3, 1>>, Device) :
        m \in Managing \cup Using \cup {RequiredAssertion}, op \in {"uv", "pin"}}
    \cup {CallOf(m, "none", <<1>>, Open) : m \in Managing \cup Using}
    \cup {CallOf(m, "pinToken", <<1>>, Old) : m \in Using}
PreviewCalls ==
    {[CallOf(m, "pinToken", <<1>>, Old) EXCEPT
        !.info.options = {"credentialMgmtPreview", "userVerificationMgmtPreview"}] :
        m \in CredentialManagement \cup Enrollments}
    \cup {[CallOf(m, "raw", <<1>>, Old) EXCEPT !.request.use_legacy_preview = TRUE] :
            m \in CredentialManagementNext}
PersistentCalls ==
    {[CallOf(m, op, <<2>>, Device) EXCEPT
        !.store = TRUE, !.info.options = {"credMgmt", "credentialMgmtPreview", "perCredMgmtRO"}] :
        m \in CredentialManagement, op \in {"uv", "pin"}}

(* uv is an option of the command.                                         *)
LegacyCalls ==
    UNION {{[CallOf([PlainRegistration EXCEPT !.command.fields = @ \cup {Option("uv", TRUE)}],
                    "legacy", <<2>>, Open) EXCEPT !.shared = shared],
            [CallOf([PlainAssertion EXCEPT !.command.fields = GaFields(TRUE)],
                    "legacy", <<2>>, Open) EXCEPT !.shared = shared]} : shared \in BOOLEAN}

Silent ==
    Meaning(SilentRequest("rp", Hash, Id(1)), "getAssertion",
            {<<"rpId", Text("rp")>>, <<"clientDataHash", Bytes(Hash)>>, Allowed(<<Id(1)>>),
             <<"options", <<"map", <<<<"up", Bool(FALSE)>>>>>>>>},
            GaTold)
Alone(kind, told) == Meaning([kind |-> kind], kind, {}, told)
Blob == Meaning(new_get(0, 64), "largeBlobs", {<<"get", Uint(64)>>, <<"offset", Uint(0)>>},
                Told("largeBlobs", {<<1, "config">>}))
RawCalls ==
    {CallOf(m, "raw", <<>>, Device) :
        m \in CredentialManagementNext \cup Sensor
              \cup {Silent, Blob, Alone("getInfo", {}), Alone("reset", {}), Alone("selection", {}),
                    Alone("getNextAssertion",
                          Told("getNextAssertion", {<<1, "credential_id">>, <<3, "signature">>,
                                                    <<4, "user">>}))}}
    \cup {Failing(CallOf(Dummy, "raw", <<>>, Device), {"PINInvalid"}),
          Failing(CallOf(Dummy, "raw", <<>>, Open), {"PINNotSet"})}

(* PRF.  Two keys of an evalByCredential that are in the list may give     *)
(* either input.                                                           *)
PrfCall(meaning, op, protocols, info, allow, outputs) ==
    [CallOf(meaning, op, protocols, Device) EXCEPT
        !.info = info, !.allow = allow, !.prf = TRUE, !.asked.outputs = outputs]
Both == <<First, Second>>
PrfCalls ==
    {PrfCall(McWithPrf(Both), "uv", <<2, 1>>, Everything, <<>>, {Outputs(Both)}),
     PrfCall(McWithPrf(<<First>>), "shared", <<1>>, Everything, <<>>, {Outputs(<<First>>)}),
     PrfCall(McWithoutSecret, "none", <<1>>, Everything, <<>>, {<<>>}),
     PrfCall(McNative(Both), "pin", <<1>>, Native, <<>>, {Outputs(Both)}),
     PrfCall(McNative(<<Second>>), "none", <<1>>, Native, <<>>, {Outputs(<<Second>>)}),
     PrfCall(GaPrf(<<>>, <<First>>, <<>>, <<First>>), "shared", <<2>>, Everything, <<>>,
             {Outputs(<<First>>)}),
     PrfCall(GaPrf(<<>>, Both, <<>>, Both), "pin", <<1>>, Everything, <<>>, {Outputs(Both)}),
     PrfCall(GaPrf(<<Id(1)>>, <<First>>, ByBoth, Both), "uv", <<2>>, Everything, <<Id(1)>>,
             {Outputs(Both)}),
     PrfCall(GaPrf(<<Id(5)>>, <<First>>, ByBoth, <<First>>), "uv", <<2>>, Everything, <<Id(5)>>,
             {Outputs(<<First>>)}),
     PrfCall(GaNoPrf(<<Id(1)>>, <<First>>, ByBoth, Everything), "none", <<2>>, Everything, <<Id(1)>>,
             {<<>>}),
     PrfCall(GaNoPrf(<<Id(5)>>, <<>>, ByBoth, Everything), "uv", <<2>>, Everything, <<Id(5)>>, {<<>>}),
     PrfCall(GaNative(<<Id(1), LongId>>, <<Second>>, ByBoth,
                      <<<<"eval", SaltMap(<<Second>>)>>,
                        <<"evalByCredential",
                          <<"bytemap", <<<<Bytes(Id(1)), SaltMap(Both)>>,
                                         <<Bytes(LongId), SaltMap(<<First>>)>>>>>>>>>>, Both),
             "uv", <<2>>, Native, <<Id(1), LongId>>, {Outputs(Both)}),
     PrfCall(GaNative(<<>>, <<First>>, <<>>, <<<<"eval", SaltMap(<<First>>)>>>>, <<First>>), "none", <<2>>,
             Native, <<>>, {Outputs(<<First>>)}),
     PrfCall(Ga(PrfOp(<<>>, <<>>, <<>>), Native, {}, GaTold), "none", <<2>>, Native, <<>>, {<<>>})}
    \cup {Failing(PrfCall(Ga(PrfOp(allow, <<First>>, by), info, {}, {}), "uv", <<2>>, info, allow, {}),
                  {IF allow = <<>> THEN "NotSupported" ELSE "SyntaxError"}) :
            info \in {Everything, Native},
            allow \in {<<>>, <<Id(1)>>}, by \in {<<<<<<>>, <<First>>>>>>}}

(* A blob of two chunks, after its assertion.                              *)
Chunk(n) == <<<<"blob", <<n>>, 1>>>>
Writing == Ga([GaOp EXCEPT !.allow = <<Id(1)>>, !.extensions.large_blob = "write"], Everything,
              {Allowed(<<Id(1)>>), <<"extensions", {<<"largeBlobKey", Bool(TRUE)>>}>>}, {})
Upload(op, protocols, device) ==
    [CallOf(Writing, op, protocols, device) EXCEPT
        !.info = Everything, !.allow = <<Id(1)>>,
        !.chunks = <<[offset |-> 0, bytes |-> Chunk(1)], [offset |-> 300, bytes |-> Chunk(2)]>>,
        !.total = 301,
        !.asked.commands =
            <<Writing.command,
              [command |-> "largeBlobs",
               fields |-> {<<"set", Bytes(Chunk(1))>>, <<"offset", Uint(0)>>, <<"length", Uint(301)>>}],
              [command |-> "largeBlobs",
               fields |-> {<<"set", Bytes(Chunk(2))>>, <<"offset", Uint(300)>>}]>>]
UploadCalls == {Upload("pin", <<1>>, Device), Upload("uv", <<2>>, Device), Upload("none", <<1>>, Open)}

-------------------------------------------------------------------------------
(* Authenticators that misbehave or refuse.                                *)
Fault(at, packet) == [at |-> at, packet |-> packet]
BadKeys == {PublicKey(55), [PublicKey(1) EXCEPT !.format = "other"],
            [PublicKey(1) EXCEPT !.x = Zeros(1)], [PublicKey(1) EXCEPT !.y = Digest("y", <<Of(2)>>)]}
BadTokens == {[i \in 1..n |-> <<"noise", <<0>>, i>>] : n \in {1, BLOCK, 3 * BLOCK}}
Misfortunes ==
    {Fault(at, packet) : at \in {"retries", "agree", "token", "command", "upload", "set"},
                         packet \in {<<>>, <<0>>, <<51>>, <<60>>, <<63>>, <<200>>,
                                     <<0, <<"junk", 0>>>>}}
    \cup {Fault("agree", <<0, Fields(<<<<1, CoseKey(key)>>>>)>>) : key \in BadKeys}
    \cup {Fault("token", <<0, Fields(<<<<2, Bytes(code)>>>>)>>) : code \in BadTokens}
Blocked == [Device EXCEPT !.uv_left = 0]
TroubledCalls ==
    {[c EXCEPT !.faults = Misfortunes] :
        c \in {CallOf(PlainRegistration, "pin", <<1>>, Device),
               [CallOf(PlainAssertion, "uv", <<2>>, Device) EXCEPT !.fallback = "pin"],
               [CallOf(PlainAssertion, "uv", <<2>>, Blocked) EXCEPT !.fallback = "pin"],
               [CallOf(PlainAssertion, "uv", <<2>>, Blocked) EXCEPT !.typed = <<>>],
               PrfCall(GaPrf(<<>>, Both, <<>>, Both), "shared", <<2>>, Everything, <<>>, {Outputs(Both)}),
               Upload("uv", <<2>>, Device)}}
RefusedCalls ==
    {Failing(CallOf(PlainAssertion, "uv", <<2>>, [Device EXCEPT !.length = BLOCK]), {"Other"}),
     CallOf(PlainAssertion, "uv", <<1>>, [Device EXCEPT !.length = BLOCK]),
     Failing(CallOf(PlainAssertion, "pin", <<3>>, Device), {"Other"}),
     Failing([CallOf(PlainAssertion, "pin", <<2>>, Device) EXCEPT !.typed = Pin2], {"PINInvalid"}),
     Failing([CallOf(PlainAssertion, "pin", <<2>>, Device) EXCEPT !.typed = <<>>], {"PINRequired"}),
     Failing(CallOf(Cm(new_delete_credential(Id(1)), "deleteCredential", {}, {}), "none", <<1>>, Device),
             {"PINRequired"})}

-------------------------------------------------------------------------------
(* PINs, of which one character takes two bytes.                           *)
PinCall(typed, new, composed, error, protocols, device) ==
    [CallOf(Alone("reset", {}), "none", protocols, device) EXCEPT
        !.kind = "pin", !.typed = typed, !.new = new, !.asked.pin = composed,
        !.asked.errors = {error}, !.asked.commands = <<>>,
        !.client_pin = IF device.pin = <<>> THEN "unset" ELSE "set"]
Accented == <<"a", "acute", "b", "c", "d">>
ComposedPin == <<"a-acute", "b", "c", "d">>
PinCalls ==
    UNION {{PinCall(Pin1, Pin2, Pin2, "Ok", protocols, device),
            PinCall(Pin1, Accented, ComposedPin, "Ok", protocols, device),
            PinCall(Pin1, <<"a", "acute", "b", "c">>, Pin2, "PinTooShort", protocols, device),
            PinCall(Pin1, Pin2 \o <<"1", "2", "3">>, Pin2 \o <<"1", "2", "3">>, "Ok", protocols, device),
            PinCall(Pin1, Pin2 \o <<"1", "e-acute", "3">>, Pin2, "PinTooLong", protocols, device),
            PinCall(Pin1, Pin2 \o <<"1", "2", "3", "4">>, Pin2, "PinTooLong", protocols, device)} :
            protocols \in {<<1>>, <<2, 1>>}, device \in {Device, Open}}
    \cup {PinCall(Pin2, Pin1 \o <<"1">>, Pin1, "PINInvalid", <<2>>, Device),
          PinCall(<<>>, Pin2, Pin2, "PINRequired", <<2>>, Device),
          PinCall(Accented, Pin2, Pin2, "Ok", <<1>>, [Old EXCEPT !.pin = StdHash(Utf8(ComposedPin))]),
          PinCall(Pin1, Pin2, Pin2, "Other", <<3>>, Device),
          PinCall(Pin1, Pin2, Pin2, "PINPolicyViolation", <<2>>, [Open EXCEPT !.min = 5]),
          [PinCall(Pin1, Pin2, Pin2, "PinTooShort", <<2>>, [Open EXCEPT !.min = 5]) EXCEPT
              !.min_pin_length = 5],
          [PinCall(Pin1, Pin2, Pin2, "PinNotSupported", <<2>>, Open) EXCEPT !.client_pin = "absent"]}
    \cup {[PinCall(Pin1, Pin2, Pin2, "Ok", <<v>>, device) EXCEPT !.faults = Misfortunes] :
            v \in {1, 2}, device \in {Device, Open}}

MCCalls ==
    AuthorisedCalls \cup PreviewCalls \cup PersistentCalls \cup LegacyCalls \cup RawCalls
    \cup PrfCalls \cup UploadCalls \cup TroubledCalls \cup RefusedCalls \cup PinCalls
===============================================================================
