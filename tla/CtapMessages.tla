------------------------------ MODULE CtapMessages ------------------------------
(***************************************************************************)
(* What the library sends to an authenticator, and what it reads of the    *)
(* answers: CBOR maps by the tables of proto/ctap2/model, command codes    *)
(* and status codes.  An encoding says what it encodes, so that the bytes  *)
(* that are authenticated and the bytes that are sent can be compared.     *)
(***************************************************************************)
EXTENDS PinProtocol

Uint(n) == <<"uint", n>>
Bytes(b) == <<"bytes", b>>
Text(t) == <<"text", t>>
Bool(b) == <<"bool", b>>
List(items) == <<"list", items>>
CoseKey(key) == <<"cose", key>>
None == <<"none">>

(* A map, of the fields that are there, in the order of their declaration. *)
Fields(pairs) == <<"map", SelectSeq(pairs, LAMBDA p : p[2] # None)>>
Empty == Fields(<<>>)
NonEmpty(map) == IF map = Empty THEN None ELSE map
Cbor(item) == <<<<"cbor", <<item>>, 1>>>>

-------------------------------------------------------------------------------
(* proto/error.rs: the status byte of an answer and back, by runs of       *)
(* consecutive codes.                                                      *)
Run(first, names) == [i \in first..(first + Len(names) - 1) |-> names[i - first + 1]]
Codes(first, names) ==
    [name \in Range(names) |-> first + (CHOOSE i \in DOMAIN names : names[i] = name) - 1]

KnownStatus ==
    Run(0, <<"Ok", "InvalidCommand", "InvalidParameter", "InvalidLength", "InvalidSeq", "Timeout",
             "ChannelBusy">>)
    @@ Run(10, <<"LockRequired", "InvalidChannel">>)
    @@ Run(17, <<"InvalidCborType", "InvalidCbor">>)
    @@ Run(20, <<"MissingParameter", "LimitExceeded", "UnsupportedExtension", "FpDatabaseFull",
                 "LargeBlobStorageFull", "CredentialExcluded">>)
    @@ Run(33, <<"Processing", "InvalidCredential", "UserActionPending", "OperationPending",
                 "NoOperations", "UnsupportedAlgorithm", "OperationDenied", "KeyStoreFull">>)
    @@ Run(42, <<"NoOperationPending", "UnsupportedOption", "InvalidOption", "KeepAliveCancel",
                 "NoCredentials", "UserActionTimeout", "NotAllowed", "PINInvalid", "PINBlocked",
                 "PINAuthInvalid", "PINAuthBlocked", "PINNotSet", "PINRequired",
                 "PINPolicyViolation", "PINTokenExpired", "RequestTooLarge", "ActionTimeout",
                 "UserPresenceRequired", "UvBlocked", "IntegrityFailure", "InvalidSubcommand",
                 "UVInvalid", "UnauthorizedPermission">>)
    @@ Run(127, <<"Other">>)
from_byte(byte) ==
    IF byte \in DOMAIN KnownStatus THEN [error |-> KnownStatus[byte], byte |-> 0]
    ELSE [error |-> "Unknown", byte |-> byte]

Status(name) == [error |-> name, byte |-> 0]
StatusByte ==
    Codes(0, <<"Ok", "InvalidCommand", "InvalidParameter", "InvalidLength", "InvalidSeq",
               "Timeout", "ChannelBusy">>)
    @@ Codes(10, <<"LockRequired", "InvalidChannel">>)
    @@ Codes(17, <<"InvalidCborType", "InvalidCbor">>)
    @@ Codes(20, <<"MissingParameter", "LimitExceeded", "UnsupportedExtension", "FpDatabaseFull",
                   "LargeBlobStorageFull", "CredentialExcluded">>)
    @@ Codes(33, <<"Processing", "InvalidCredential", "UserActionPending", "OperationPending",
                   "NoOperations", "UnsupportedAlgorithm", "OperationDenied", "KeyStoreFull">>)
    @@ Codes(42, <<"NoOperationPending", "UnsupportedOption", "InvalidOption", "KeepAliveCancel",
                   "NoCredentials", "UserActionTimeout", "NotAllowed", "PINInvalid", "PINBlocked",
                   "PINAuthInvalid", "PINAuthBlocked", "PINNotSet", "PINRequired",
                   "PINPolicyViolation", "PINTokenExpired", "RequestTooLarge", "ActionTimeout",
                   "UserPresenceRequired", "UvBlocked", "IntegrityFailure", "InvalidSubcommand",
                   "UVInvalid", "UnauthorizedPermission">>)
    @@ Codes(127, <<"Other">>)
into_byte(status) == IF status.error = "Unknown" THEN status.byte ELSE StatusByte[status.error]

(* CborResponse: a status byte and, if any, a body.                        *)
CborResponse(packet) ==
    [status_code |-> from_byte(packet[1]), data |-> IF Len(packet) = 1 THEN None ELSE packet[2]]

-------------------------------------------------------------------------------
(* authenticatorClientPIN.                                                 *)
PinSubcommand ==
    Codes(1, <<"GetPinRetries", "GetKeyAgreement", "SetPin", "ChangePin", "GetPinToken",
               "GetPinUvAuthTokenUsingUvWithPermissions", "GetUvRetries">>)
    @@ Codes(9, <<"GetPinUvAuthTokenUsingPinWithPermissions">>)

Permission ==
    [MAKE_CREDENTIAL |-> 1, GET_ASSERTION |-> 2, CREDENTIAL_MANAGEMENT |-> 4, BIO_ENROLLMENT |-> 8,
     LARGE_BLOB_WRITE |-> 16, AUTHENTICATOR_CONFIGURATION |-> 32,
     PERSISTENT_CREDENTIAL_MANAGEMENT_READ_ONLY |-> 64]
bits(permissions) == FoldSet(LAMBDA p, sum : Permission[p] + sum, 0, permissions)

ClientPinRequest(command, protocol) ==
    [kind |-> "clientPin", command |-> command, protocol |-> protocol, key_agreement |-> None,
     uv_auth_param |-> None, new_pin_encrypted |-> None, pin_hash_encrypted |-> None,
     permissions |-> None, permissions_rpid |-> None]
ClientPinFields(r) ==
    Fields(<<<<1, r.protocol>>, <<2, Uint(PinSubcommand[r.command])>>, <<3, r.key_agreement>>,
             <<4, r.uv_auth_param>>, <<5, r.new_pin_encrypted>>, <<6, r.pin_hash_encrypted>>,
             <<9, r.permissions>>, <<10, r.permissions_rpid>>>>)

new_get_key_agreement(version) == ClientPinRequest("GetKeyAgreement", Uint(version))
new_get_pin_retries(protocol) == ClientPinRequest("GetPinRetries", protocol)
new_get_uv_retries == ClientPinRequest("GetUvRetries", None)
new_get_pin_token(version, key, pin_hash_enc) ==
    [ClientPinRequest("GetPinToken", Uint(version)) EXCEPT
        !.key_agreement = CoseKey(key), !.pin_hash_encrypted = Bytes(pin_hash_enc)]
new_get_pin_token_with_perm(version, key, pin_hash_enc, permissions, rpid) ==
    [ClientPinRequest("GetPinUvAuthTokenUsingPinWithPermissions", Uint(version)) EXCEPT
        !.key_agreement = CoseKey(key), !.pin_hash_encrypted = Bytes(pin_hash_enc),
        !.permissions = Uint(bits(permissions)), !.permissions_rpid = rpid]
new_get_uv_token_with_perm(version, key, permissions, rpid) ==
    [ClientPinRequest("GetPinUvAuthTokenUsingUvWithPermissions", Uint(version)) EXCEPT
        !.key_agreement = CoseKey(key), !.permissions = Uint(bits(permissions)),
        !.permissions_rpid = rpid]
new_change_pin(version, new_pin_enc, curr_pin_enc, key, uv_auth_param) ==
    [ClientPinRequest("ChangePin", Uint(version)) EXCEPT
        !.key_agreement = CoseKey(key), !.uv_auth_param = Bytes(uv_auth_param),
        !.new_pin_encrypted = Bytes(new_pin_enc), !.pin_hash_encrypted = Bytes(curr_pin_enc)]
new_set_pin(version, new_pin_enc, key, uv_auth_param) ==
    [ClientPinRequest("SetPin", Uint(version)) EXCEPT
        !.key_agreement = CoseKey(key), !.uv_auth_param = Bytes(uv_auth_param),
        !.new_pin_encrypted = Bytes(new_pin_enc)]

-------------------------------------------------------------------------------
(* proto/ctap2/model.rs.  Of a descriptor, only id and type are sent.      *)
Descriptor(id) == Fields(<<<<"id", Bytes(id)>>, <<"type", Text("public-key")>>>>)
CredentialType(alg) == Fields(<<<<"alg", alg>>, <<"type", Text("public-key")>>>>)
RpEntity(rp) == Fields(<<<<"id", Text(rp.id)>>, <<"name", rp.name>>>>)
UserEntity(user) ==
    Fields(<<<<"id", Bytes(user.id)>>, <<"name", user.name>>, <<"displayName", user.display_name>>>>)
Descriptors(ids) == List([i \in DOMAIN ids |-> Descriptor(ids[i])])

-------------------------------------------------------------------------------
(* authenticatorCredentialManagement.                                      *)
ManagementSubcommand ==
    Codes(1, <<"GetCredsMetadata", "EnumerateRPsBegin", "EnumerateRPsGetNextRP",
               "EnumerateCredentialsBegin", "EnumerateCredentialsGetNextCredential",
               "DeleteCredential", "UpdateUserInformation">>)
ManagementRequest(subcommand) ==
    [kind |-> "credentialManagement", subcommand |-> subcommand, subcommand_params |-> None,
     protocol |-> None, uv_auth_param |-> None, use_legacy_preview |-> FALSE,
     use_persistent_token |-> FALSE]
ManagementParams(rpid_hash, credential_id, user) ==
    Fields(<<<<1, rpid_hash>>, <<2, credential_id>>, <<3, user>>>>)
ManagementFields(r) ==
    Fields(<<<<1, Uint(ManagementSubcommand[r.subcommand])>>, <<2, r.subcommand_params>>,
             <<3, r.protocol>>, <<4, r.uv_auth_param>>>>)

new_get_credential_metadata == ManagementRequest("GetCredsMetadata")
new_enumerate_rps_begin == ManagementRequest("EnumerateRPsBegin")
new_enumerate_rps_next_rp == ManagementRequest("EnumerateRPsGetNextRP")
new_enumerate_credentials_begin(rpid_hash) ==
    [ManagementRequest("EnumerateCredentialsBegin") EXCEPT
        !.subcommand_params = ManagementParams(Bytes(rpid_hash), None, None)]
new_enumerate_credentials_next == ManagementRequest("EnumerateCredentialsGetNextCredential")
new_delete_credential(id) ==
    [ManagementRequest("DeleteCredential") EXCEPT
        !.subcommand_params = ManagementParams(None, Descriptor(id), None)]
new_update_user_information(id, user) ==
    [ManagementRequest("UpdateUserInformation") EXCEPT
        !.subcommand_params = ManagementParams(None, Descriptor(id), UserEntity(user))]

-------------------------------------------------------------------------------
(* authenticatorBioEnrollment.  The modality is fingerprint.               *)
FINGERPRINT == 1
EnrollmentSubcommand ==
    Codes(1, <<"EnrollBegin", "EnrollCaptureNextSample", "CancelCurrentEnrollment",
               "EnumerateEnrollments", "SetFriendlyName", "RemoveEnrollment",
               "GetFingerprintSensorInfo">>)
EnrollmentRequest(subcommand) ==
    [kind |-> "bioEnrollment", modality |-> Uint(FINGERPRINT), subcommand |-> subcommand,
     subcommand_params |-> None, protocol |-> None, uv_auth_param |-> None,
     get_modality |-> None, use_legacy_preview |-> FALSE]
EnrollmentParams(template_id, name, timeout) ==
    Fields(<<<<1, template_id>>, <<2, name>>, <<3, timeout>>>>)
EnrollmentFields(r) ==
    Fields(<<<<1, r.modality>>,
             <<2, IF r.subcommand = "" THEN None ELSE Uint(EnrollmentSubcommand[r.subcommand])>>,
             <<3, r.subcommand_params>>, <<4, r.protocol>>, <<5, r.uv_auth_param>>,
             <<6, r.get_modality>>>>)

new_get_modality ==
    [EnrollmentRequest("") EXCEPT !.modality = None, !.get_modality = Bool(TRUE)]
new_fingerprint_sensor_info == EnrollmentRequest("GetFingerprintSensorInfo")
new_enumerate_enrollments == EnrollmentRequest("EnumerateEnrollments")
new_cancel_current_enrollment == EnrollmentRequest("CancelCurrentEnrollment")
new_remove_enrollment(id) ==
    [EnrollmentRequest("RemoveEnrollment") EXCEPT
        !.subcommand_params = EnrollmentParams(Bytes(id), None, None)]
new_rename_enrollment(id, name) ==
    [EnrollmentRequest("SetFriendlyName") EXCEPT
        !.subcommand_params = EnrollmentParams(Bytes(id), Text(name), None)]
new_start_new_enrollment(timeout) ==
    [EnrollmentRequest("EnrollBegin") EXCEPT
        !.subcommand_params = IF timeout = None THEN None ELSE EnrollmentParams(None, None, timeout)]
new_next_enrollment(id, timeout) ==
    [EnrollmentRequest("EnrollCaptureNextSample") EXCEPT
        !.subcommand_params = EnrollmentParams(Bytes(id), None, timeout)]

-------------------------------------------------------------------------------
(* authenticatorConfig.                                                    *)
ConfigCommand ==
    Codes(1, <<"EnableEnterpriseAttestation", "ToggleAlwaysUv", "SetMinPINLength">>)
ConfigRequest(subcommand, params) ==
    [kind |-> "config", subcommand |-> subcommand, subcommand_params |-> params,
     protocol |-> None, uv_auth_param |-> None]
SetMinPINLengthParams(length, rpids, force) ==
    Fields(<<<<1, length>>, <<2, rpids>>, <<3, force>>>>)
ConfigFields(r) ==
    Fields(<<<<1, Uint(ConfigCommand[r.subcommand])>>, <<2, r.subcommand_params>>, <<3, r.protocol>>,
             <<4, r.uv_auth_param>>>>)

new_toggle_always_uv == ConfigRequest("ToggleAlwaysUv", None)
new_enable_enterprise_attestation == ConfigRequest("EnableEnterpriseAttestation", None)
new_force_change_pin(force) ==
    ConfigRequest("SetMinPINLength", SetMinPINLengthParams(None, None, Bool(force)))
new_set_min_pin_length(length) ==
    ConfigRequest("SetMinPINLength", SetMinPINLengthParams(Uint(length), None, None))
new_set_min_pin_length_rpids(rpids) ==
    ConfigRequest("SetMinPINLength",
                  SetMinPINLengthParams(None, List([i \in DOMAIN rpids |-> Text(rpids[i])]), None))

-------------------------------------------------------------------------------
(* authenticatorLargeBlobs.  auth: the parameter and its protocol, or none.*)
LargeBlobsRequest(get, set, offset, length) ==
    [kind |-> "largeBlobs", get |-> get, set |-> set, offset |-> offset, length |-> length,
     pin_uv_auth_param |-> None, pin_uv_auth_protocol |-> None]
LargeBlobsFields(r) ==
    Fields(<<<<1, r.get>>, <<2, r.set>>, <<3, Uint(r.offset)>>, <<4, r.length>>,
             <<5, r.pin_uv_auth_param>>, <<6, r.pin_uv_auth_protocol>>>>)
new_get(offset, length) == LargeBlobsRequest(Uint(length), None, offset, None)
new_set_first(chunk, total_length) == LargeBlobsRequest(None, Bytes(chunk), 0, Uint(total_length))
new_set_continuation(chunk, offset) == LargeBlobsRequest(None, Bytes(chunk), offset, None)

-------------------------------------------------------------------------------
(* PRF: an input of any length is hashed to a salt (get_assertion.rs).     *)
(* An input has a first value and perhaps a second.                        *)
PRF_PREFIX == <<<<"text", <<"WebAuthn PRF">>, 1>>, Byte(0)>>
PrfSalt(value) == Sha256(PRF_PREFIX \o value)
to_hmac_secret_input(input) == [i \in DOMAIN input |-> PrfSalt(input[i])]
Ctap2PrfSalts(input) ==
    LET salts == to_hmac_secret_input(input)
    IN  Fields(<<<<"first", Bytes(salts[1])>>,
                 <<"second", IF Len(salts) = 2 THEN Bytes(salts[2]) ELSE None>>>>)

(* The hmac-secret input under a session, [version, own, secret] of the    *)
(* channel; no extension if the encryption fails.                          *)
CalculatedHMACGetSecretInput(session, salts, iv) ==
    LET salt_enc == encrypt(session.version, session.secret, FlattenSeq(salts), iv)
    IN  IF salt_enc = Failed THEN None
        ELSE Fields(<<<<1, CoseKey(PublicKey(session.own))>>, <<2, Bytes(salt_enc)>>,
                      <<3, Bytes(authenticate(session.version, session.secret, salt_enc))>>,
                      <<4, Uint(session.version)>>>>)

(* The outputs of one or two salts, if the bytes are those of some.        *)
OutputsIn(output) ==
    IF Len(output) = HASH THEN <<output>>
    ELSE IF Len(output) = 2 * HASH THEN <<Left(output, HASH), From(output, HASH)>>
    ELSE <<>>
decrypt_output(session, encrypted) ==
    OutputsIn(decrypt(session.version, session.secret, encrypted))

(* Of the plain outputs of native PRF, any malformed one spoils all.       *)
parse_unsigned_prf(results) ==
    IF \A i \in DOMAIN results : Len(results[i]) = HASH THEN results ELSE <<>>

-------------------------------------------------------------------------------
(* authenticatorMakeCredential.  op: the WebAuthn request, with items in   *)
(* its fields, None for what it leaves out; info: what getInfo tells.      *)
McExtensions(ext, info) ==
    LET native_prf == ext.prf.asked /\ "prf" \in info.extensions
    IN  [prf |-> IF ~native_prf THEN None
                 ELSE Fields(<<<<"eval", IF ext.prf.eval = <<>> THEN None
                                         ELSE Ctap2PrfSalts(ext.prf.eval)>>>>),
         cred_blob |-> ext.cred_blob, cred_protect |-> ext.cred_protect,
         hmac_secret |-> IF ext.hmac_create_secret \/ (ext.prf.asked /\ ~native_prf)
                         THEN Bool(TRUE) ELSE None,
         large_blob_key |-> IF ext.large_blob /\ "largeBlobs" \in info.options
                            THEN Bool(TRUE) ELSE None,
         min_pin_length |-> ext.min_pin_length, hmac_secret_mc |-> None,
         prf_input |-> IF ~native_prf /\ {"hmac-secret-mc", "hmac-secret"} \subseteq info.extensions
                       THEN ext.prf.eval ELSE <<>>]

RequireResidentKey(resident_key, info) ==
    CASE resident_key = "discouraged" -> Bool(FALSE)
      [] resident_key = "preferred" -> IF "rk" \in info.options THEN Bool(TRUE) ELSE None
      [] resident_key = "required" -> Bool(TRUE)
      [] OTHER -> None

MakeCredentialRequest(op, info) ==
    [kind |-> "makeCredential", hash |-> op.hash, relying_party |-> op.relying_party,
     user |-> op.user, algorithms |-> op.algorithms, exclude |-> op.exclude,
     extensions |-> McExtensions(op.extensions, info),
     rk |-> RequireResidentKey(op.resident_key, info), uv |-> None,
     pin_auth_param |-> None, pin_auth_proto |-> None]

(* The request that only asks for a touch.                                 *)
dummy ==
    [kind |-> "makeCredential", hash |-> Zeros(HASH),
     relying_party |-> [id |-> ".dummy", name |-> Text(".dummy")],
     user |-> [id |-> <<Byte(1)>>, name |-> Text("dummy"), display_name |-> None],
     algorithms |-> <<-7>>, exclude |-> None,
     extensions |-> [prf |-> None, cred_blob |-> None, cred_protect |-> None, hmac_secret |-> None,
                     large_blob_key |-> None, min_pin_length |-> None, hmac_secret_mc |-> None,
                     prf_input |-> <<>>],
     rk |-> None, uv |-> None, pin_auth_param |-> Bytes(<<>>), pin_auth_proto |-> Uint(1)]

McExtensionFields(ext) ==
    Fields(<<<<"prf", ext.prf>>, <<"credBlob", ext.cred_blob>>, <<"credProtect", ext.cred_protect>>,
             <<"hmac-secret", ext.hmac_secret>>, <<"largeBlobKey", ext.large_blob_key>>,
             <<"minPinLength", ext.min_pin_length>>, <<"hmac-secret-mc", ext.hmac_secret_mc>>>>)
MakeCredentialFields(r) ==
    Fields(<<<<1, Bytes(r.hash)>>, <<2, RpEntity(r.relying_party)>>, <<3, UserEntity(r.user)>>,
             <<4, List([i \in DOMAIN r.algorithms |-> CredentialType(Uint(r.algorithms[i]))])>>,
             <<5, r.exclude>>, <<6, NonEmpty(McExtensionFields(r.extensions))>>,
             <<7, NonEmpty(Fields(<<<<"rk", r.rk>>, <<"uv", r.uv>>>>))>>,
             <<8, r.pin_auth_param>>, <<9, r.pin_auth_proto>>>>)

calculate_hmac_secret_mc(r, session, iv) ==
    IF r.extensions.prf_input = <<>> THEN r
    ELSE [r EXCEPT !.extensions.prf_input = <<>>,
                   !.extensions.hmac_secret_mc =
                       CalculatedHMACGetSecretInput(
                           session, to_hmac_secret_input(r.extensions.prf_input), iv)]

-------------------------------------------------------------------------------
(* authenticatorGetAssertion.  evalByCredential is a sequence of pairs of  *)
(* a key, "" or "junk" if it is none, and an input.                        *)
GetAssertionRequest(op, info) ==
    LET blob == op.extensions.large_blob
    IN  [kind |-> "getAssertion", relying_party_id |-> op.relying_party_id,
         client_data_hash |-> op.client_data_hash, allow |-> op.allow,
         extensions |->
             [prf |-> None, cred_blob |-> op.extensions.cred_blob, hmac_secret |-> None,
              hmac_or_prf |-> op.extensions.prf,
              large_blob_key |-> IF "largeBlobs" \in info.options /\ blob # "none"
                                 THEN Bool(TRUE) ELSE None,
              large_blob_write |-> "largeBlobs" \in info.options /\ blob \in {"write", "delete"}],
         up |-> TRUE, uv |-> op.user_verification = "required",
         pin_auth_param |-> None, pin_auth_proto |-> None]

(* The pre-flight's command: silent, for one credential.                   *)
SilentRequest(rpid, hash, id) ==
    [kind |-> "getAssertion", relying_party_id |-> rpid, client_data_hash |-> hash,
     allow |-> <<id>>,
     extensions |-> [prf |-> None, cred_blob |-> None, hmac_secret |-> None,
                     hmac_or_prf |-> [asked |-> FALSE, eval |-> <<>>, by |-> <<>>],
                     large_blob_key |-> None, large_blob_write |-> FALSE],
     up |-> FALSE, uv |-> FALSE, pin_auth_param |-> None, pin_auth_proto |-> None]

GaExtensionFields(ext) ==
    Fields(<<<<"prf", ext.prf>>, <<"credBlob", ext.cred_blob>>, <<"hmac-secret", ext.hmac_secret>>,
             <<"largeBlobKey", ext.large_blob_key>>>>)
SkipExtensions(ext) == GaExtensionFields(ext) = Empty /\ ~ext.hmac_or_prf.asked
GetAssertionFields(r) ==
    Fields(<<<<1, Text(r.relying_party_id)>>, <<2, Bytes(r.client_data_hash)>>,
             <<3, IF r.allow = <<>> THEN None ELSE Descriptors(r.allow)>>,
             <<4, IF SkipExtensions(r.extensions) THEN None ELSE GaExtensionFields(r.extensions)>>,
             <<5, Fields(<<<<"up", Bool(r.up)>>, <<"uv", IF r.uv THEN Bool(TRUE) ELSE None>>>>)>>,
             <<6, r.pin_auth_param>>, <<7, r.pin_auth_proto>>>>)

(* Byte strings as keys: the shorter first, then by their bytes.           *)
Lower(a, b) ==
    \/ Len(a) < Len(b)
    \/ Len(a) = Len(b) /\ \E i \in DOMAIN a : Left(a, i - 1) = Left(b, i - 1) /\ a[i][2][1] < b[i][2][1]
serialize_canonical_byte_map(map) ==
    LET sorted == SortSeq(map, LAMBDA p, q : Lower(p[1], q[1]))
    IN  <<"bytemap", [i \in DOMAIN sorted |-> <<Bytes(sorted[i][1]), Ctap2PrfSalts(sorted[i][2])>>]>>

(* The entries of credentials in the list.                                 *)
Matching(prf, allow) == SelectSeq(prf.by, LAMBDA p : p[1] \in ToSet(allow))

convert_prf_to_native(r) ==
    LET prf == r.extensions.hmac_or_prf
        map == Fields(<<<<"eval", IF prf.eval = <<>> THEN None ELSE Ctap2PrfSalts(prf.eval)>>,
                        <<"evalByCredential",
                          IF Matching(prf, r.allow) = <<>> THEN None
                          ELSE serialize_canonical_byte_map(Matching(prf, r.allow))>>>>)
    IN  IF ~prf.asked THEN r
        ELSE [r EXCEPT !.extensions.prf = NonEmpty(map),
                       !.extensions.hmac_or_prf = [asked |-> FALSE, eval |-> <<>>, by |-> <<>>]]

(* A key that is empty or no base64url is an error where it is met.  Native*)
(* PRF looks at every entry; for hmac-secret the first that is met of a    *)
(* credential in the list is taken, in whatever order the map is walked.   *)
BadKey(prf) == \E i \in DOMAIN prf.by : prf.by[i][1] = <<>>
NativeError(prf, allow) ==
    CASE prf.by # <<>> /\ allow = <<>> -> "NotSupported"
      [] BadKey(prf) -> "SyntaxError"
      [] OTHER -> "Ok"
prf_to_hmac_input(prf, allow) ==
    LET hits == ToSet(Matching(prf, allow))
    IN  IF prf.by # <<>> /\ allow = <<>> THEN {[error |-> "NotSupported", input |-> <<>>]}
        ELSE (IF BadKey(prf) THEN {[error |-> "SyntaxError", input |-> <<>>]} ELSE {})
             \cup (IF hits = {} /\ ~BadKey(prf) THEN {[error |-> "Ok", input |-> prf.eval]}
                   ELSE {[error |-> "Ok", input |-> p[2]] : p \in hits})
calculate_hmac(r, input, session, iv) ==
    IF input = <<>> THEN r
    ELSE [r EXCEPT !.extensions.hmac_secret =
                       CalculatedHMACGetSecretInput(session, to_hmac_secret_input(input), iv)]

-------------------------------------------------------------------------------
(* Ctap2UserVerifiableRequest: what a token is asked for, and what of a    *)
(* request is authenticated with it.                                       *)
permissions(r) ==
    CASE r.kind = "makeCredential" -> {"MAKE_CREDENTIAL", "GET_ASSERTION"}
      [] r.kind = "getAssertion" ->
             {"GET_ASSERTION"} \cup (IF r.extensions.large_blob_write THEN {"LARGE_BLOB_WRITE"} ELSE {})
      [] r.kind = "credentialManagement" ->
             {IF r.use_persistent_token THEN "PERSISTENT_CREDENTIAL_MANAGEMENT_READ_ONLY"
              ELSE "CREDENTIAL_MANAGEMENT"}
      [] r.kind = "bioEnrollment" -> {"BIO_ENROLLMENT"}
      [] r.kind = "config" -> {"AUTHENTICATOR_CONFIGURATION"}
permissions_rpid(r) ==
    CASE r.kind = "makeCredential" -> Text(r.relying_party.id)
      [] r.kind = "getAssertion" -> Text(r.relying_party_id)
      [] OTHER -> None

Appended(params) == IF params = None THEN <<>> ELSE Cbor(params)
Ones(n) == [i \in 1..n |-> Byte(255)]

(* The message of a request; the chunk of a blob has one of its own.       *)
AuthMessage(r) ==
    CASE r.kind = "makeCredential" -> r.hash
      [] r.kind = "getAssertion" -> r.client_data_hash
      [] r.kind = "credentialManagement" ->
             <<Byte(ManagementSubcommand[r.subcommand])>> \o Appended(r.subcommand_params)
      [] r.kind = "bioEnrollment" ->
             <<Byte(FINGERPRINT), Byte(EnrollmentSubcommand[r.subcommand])>>
             \o Appended(r.subcommand_params)
      [] r.kind = "config" ->
             Ones(HASH) \o <<Byte(13), Byte(ConfigCommand[r.subcommand])>>
             \o (IF r.subcommand = "SetMinPINLength" THEN Cbor(r.subcommand_params) ELSE <<>>)
LeBytes_BigEndian(n) == [i \in 1..4 |-> Byte((n \div 256 ^ (4 - i)) % 256)]
LeBytes(n) == [i \in 1..4 |-> Byte((n \div 256 ^ (i - 1)) % 256)]
large_blob_pin_uv_auth_param(token, version, offset, chunk) ==
    authenticate(version, token,
                 Ones(HASH) \o <<Byte(12), Byte(0)>> \o LeBytes(offset) \o Sha256(chunk))

calculate_and_set_uv_auth(r, version, token) ==
    LET param == Bytes(authenticate(version, token, AuthMessage(r)))
    IN  CASE r.kind = "makeCredential" ->
                 [r EXCEPT !.pin_auth_proto = Uint(version), !.pin_auth_param = param, !.uv = None]
          [] r.kind = "getAssertion" ->
                 [r EXCEPT !.pin_auth_proto = Uint(version), !.pin_auth_param = param, !.uv = FALSE]
          [] OTHER -> [r EXCEPT !.protocol = Uint(version), !.uv_auth_param = param]
ensure_uv_set(r) ==
    CASE r.kind = "makeCredential" -> [r EXCEPT !.uv = Bool(TRUE)]
      [] r.kind = "getAssertion" -> [r EXCEPT !.uv = TRUE]
      [] OTHER -> r

-------------------------------------------------------------------------------
(* cbor/request.rs: the command code, and the fields if there are any.     *)
CommandCode ==
    Codes(1, <<"makeCredential", "getAssertion">>) @@ Codes(4, <<"getInfo">>)
    @@ Codes(6, <<"clientPin", "reset", "getNextAssertion", "bioEnrollment",
                  "credentialManagement", "selection", "largeBlobs", "config">>)
    @@ Codes(64, <<"bioEnrollmentPreview", "credentialManagementPreview">>)
CodeOf(r) ==
    IF r.kind = "bioEnrollment" /\ r.use_legacy_preview THEN CommandCode["bioEnrollmentPreview"]
    ELSE IF r.kind = "credentialManagement" /\ r.use_legacy_preview
         THEN CommandCode["credentialManagementPreview"]
    ELSE CommandCode[r.kind]
CborRequest(r) ==
    CASE r.kind = "clientPin" -> <<CodeOf(r), ClientPinFields(r)>>
      [] r.kind = "makeCredential" -> <<CodeOf(r), MakeCredentialFields(r)>>
      [] r.kind = "getAssertion" -> <<CodeOf(r), GetAssertionFields(r)>>
      [] r.kind = "credentialManagement" -> <<CodeOf(r), ManagementFields(r)>>
      [] r.kind = "bioEnrollment" -> <<CodeOf(r), EnrollmentFields(r)>>
      [] r.kind = "config" -> <<CodeOf(r), ConfigFields(r)>>
      [] r.kind = "largeBlobs" -> <<CodeOf(r), LargeBlobsFields(r)>>
      [] OTHER -> <<CodeOf(r)>>

-------------------------------------------------------------------------------
(* The responses: the fields by their indices.                             *)
ClientPinResponse == <<"key_agreement", "pin_uv_auth_token", "pin_retries", "power_cycle_state",
                       "uv_retries">>
MakeCredentialResponse == <<"format", "authenticator_data", "attestation_statement",
                            "enterprise_attestation", "large_blob_key", "unsigned_extension_outputs">>
GetAssertionResponse == <<"credential_id", "authenticator_data", "signature", "user",
                          "credentials_count", "user_selected", "large_blob_key",
                          "unsigned_extension_outputs">>
ManagementResponse == <<"existing_resident_credentials_count",
                        "max_possible_remaining_resident_credentials_count", "rp", "rp_id_hash",
                        "total_rps", "user", "credential_id", "public_key", "total_credentials",
                        "cred_protect", "large_blob_key">>
EnrollmentResponse == <<"modality", "fingerprint_kind", "max_capture_samples_required_for_enroll",
                        "template_id", "last_enroll_sample_status", "remaining_samples",
                        "template_infos", "max_template_friendly_name">>
LargeBlobsResponse == <<"config">>

(* Fields of a response that must be there.                                *)
Mandatory(kind) ==
    CASE kind = "makeCredential" -> {"format", "authenticator_data", "attestation_statement"}
      [] kind \in {"getAssertion", "getNextAssertion"} -> {"authenticator_data", "signature"}
      [] OTHER -> {}
ResponseTable(kind) ==
    CASE kind = "clientPin" -> ClientPinResponse
      [] kind = "makeCredential" -> MakeCredentialResponse
      [] kind \in {"getAssertion", "getNextAssertion"} -> GetAssertionResponse
      [] kind = "credentialManagement" -> ManagementResponse
      [] kind = "bioEnrollment" -> EnrollmentResponse
      [] kind = "largeBlobs" -> LargeBlobsResponse
      [] OTHER -> <<>>

(* A field that no index is known for is passed over.                      *)
Named(table, map) ==
    LET known == {i \in DOMAIN map[2] : map[2][i][1] \in DOMAIN table}
    IN  {<<table[map[2][i][1]], map[2][i][2]>> : i \in known}
Field(fields, name) ==
    IF \E f \in fields : f[1] = name THEN (CHOOSE f \in fields : f[1] = name)[2] ELSE None

(* protocol.rs: the result of a command, from the answer to it.  Configu-  *)
(* ration, selection and reset look at the status alone; getInfo and the   *)
(* credential commands need a body, the others take none for an empty one. *)
Ctap2Result(kind, response) ==
    LET told == Named(ResponseTable(kind), response.data)
        result(error, fields) == [error |-> error, byte |-> 0, fields |-> fields]
    IN  IF response.status_code.error # "Ok"
        THEN [error |-> response.status_code.error, byte |-> response.status_code.byte, fields |-> {}]
        ELSE IF kind \in {"config", "selection", "reset"} THEN result("Ok", {})
        ELSE IF response.data = None
             THEN result(IF kind \in {"clientPin", "bioEnrollment", "credentialManagement",
                                       "largeBlobs"}
                         THEN "Ok" ELSE "InvalidDeviceResponse", {})
        ELSE IF response.data[1] # "map" THEN result("InvalidDeviceResponse", {})
        ELSE IF ~(Mandatory(kind) \subseteq {f[1] : f \in told})
             THEN result("InvalidDeviceResponse", {})
        ELSE result("Ok", told)

(* The PRF outputs that are told: decrypted with the session's secret if   *)
(* they come as hmac-secret's, or else those beside the signed data.       *)
PrfResults(told, session) ==
    LET data == Field(told, "authenticator_data")
        unsigned == Field(told, "unsigned_extension_outputs")
        decrypted == IF data = None \/ session.secret = <<>> THEN <<>>
                     ELSE IF data[2] = None THEN <<>>
                     ELSE decrypt_output(session, data[2][2])
    IN  IF decrypted # <<>> \/ unsigned = None THEN decrypted ELSE parse_unsigned_prf(unsigned[2])
===============================================================================
