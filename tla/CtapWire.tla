------------------------------- MODULE CtapWire -------------------------------
(***************************************************************************)
(* A command on its way: from what the application asks, over the PIN/UV   *)
(* auth protocol, to what an authenticator executes, and its answer back.  *)
(*                                                                         *)
(* UserVerification says which exchanges there are and when they are tried *)
(* again; this module says what is in them.  A behaviour is one call, with *)
(* the operation that UserVerification found for it, and an authenticator  *)
(* that may misbehave once: answer with any status, with no body or a bad  *)
(* one, with keys that are none, or lose its key and token.                *)
(***************************************************************************)
EXTENDS CtapAuthenticator

CONSTANT Calls      \* the calls, see TypeOK; asked says what was meant by one

VARIABLES
    call,
    pc,             \* the exchange that is under way, or "start" or "done"
    held,           \* the library's session
    wire,           \* the packet that goes to the authenticator
    reply,          \* the packet that comes back
    authenticator,
    executed,       \* the commands that the authenticator executed
    outcome,        \* what the application is told
    fault           \* how the authenticator misbehaved
wvars == <<call, pc, held, wire, reply, authenticator, executed, outcome, fault>>
library == <<call, authenticator, executed, fault>>

NoFault == [at |-> "never", packet |-> <<>>]
NotYet == [error |-> "none", byte |-> 0, fields |-> {}, outputs |-> <<>>]
Cancelled == <<>>
Iv(n) == [i \in 1..BLOCK |-> <<"iv", <<n>>, i>>]

Init ==
    /\ call \in Calls
    /\ pc = "start"
    /\ held = [op |-> "none", version |-> 0, own |-> 100, draws |-> 0, secret |-> <<>>,
               token |-> <<>>, chunk |-> 0, request |-> call.request]
    /\ wire = <<>> /\ reply = <<>> /\ authenticator = call.device /\ executed = <<>>
    /\ outcome = NotYet /\ fault = NoFault

Send(request, next) ==
    /\ wire' = CborRequest(request) /\ reply' = <<>> /\ pc' = next
    /\ UNCHANGED outcome
Finish(result, outputs) ==
    /\ pc' = "done"
    /\ outcome' = [error |-> result.error, byte |-> result.byte, fields |-> result.fields,
                   outputs |-> outputs]
    /\ UNCHANGED <<held, wire, reply>>
Return(error) == Finish([error |-> error, byte |-> 0, fields |-> {}], <<>>)

(* What is read of the answer that has come.                               *)
Result(kind) == Ctap2Result(kind, CborResponse(reply))

-------------------------------------------------------------------------------
(* The token ceremony, from the choice of the protocol on.                 *)
Establish(op, request) ==
    LET version == select_uv_proto(call.protocols)
    IN  IF version = 0 THEN Return("Other")
        ELSE /\ held' = [held EXCEPT !.op = op, !.version = version, !.own = @ + 1,
                                     !.request = request]
             /\ IF op \in {"pin", "pinToken", "change"}
                THEN Send(new_get_pin_retries(IF call.device.modern THEN None ELSE Uint(version)),
                          "retries")
                ELSE Send(new_get_key_agreement(version), "agree")

(* The command, with its PRF input if the channel has a secret for it.     *)
SendCommand(r, session) ==
    LET prf == IF r.kind = "getAssertion" /\ session.secret # <<>> /\ r.extensions.hmac_or_prf.asked
               THEN prf_to_hmac_input(r.extensions.hmac_or_prf, call.allow)
               ELSE {[error |-> "Ok", input |-> <<>>]}
        iv == Iv(session.draws)
    IN  \E choice \in prf :
            IF choice.error # "Ok" THEN Return(choice.error)
            ELSE /\ held' = [session EXCEPT !.draws = @ + 1, !.request = r]
                 /\ Send(CASE r.kind = "getAssertion" -> calculate_hmac(r, choice.input, session, iv)
                           [] r.kind = "makeCredential" /\ session.secret # <<>> ->
                                  calculate_hmac_secret_mc(r, session, iv)
                           [] OTHER -> r,
                         "command")

(* The request for a token, of the PIN that was typed or of built-in UV.   *)
SendTokenRequest(session) ==
    LET key == PublicKey(session.own)
        pin_hash_enc == encrypt(session.version, session.secret, pin_hash(Utf8(nfc(call.typed))),
                                Iv(session.draws))
        wanted == permissions(session.request)
        rpid == permissions_rpid(session.request)
    IN  /\ held' = [session EXCEPT !.draws = @ + 1]
        /\ Send(CASE session.op = "pinToken" -> new_get_pin_token(session.version, key, pin_hash_enc)
                  [] session.op = "pin" ->
                         new_get_pin_token_with_perm(session.version, key, pin_hash_enc, wanted, rpid)
                  [] session.op = "uv" ->
                         new_get_uv_token_with_perm(session.version, key, wanted, rpid),
                "token")

(* change_pin_internal, once there is a secret.                            *)
SendPin(session) ==
    LET version == session.version
        key == PublicKey(session.own)
        new_pin_enc == encrypt(version, session.secret, Padded(Utf8(nfc(call.new))), Iv(session.draws))
        pin_hash_enc == encrypt(version, session.secret, pin_hash(Utf8(nfc(call.typed))),
                                Iv(session.draws + 1))
        auth(message) == authenticate(version, session.secret, message)
    IN  /\ held' = [session EXCEPT !.draws = @ + 2]
        /\ Send(IF session.op = "change"
                THEN new_change_pin(version, new_pin_enc, pin_hash_enc, key,
                                    auth(new_pin_enc \o pin_hash_enc))
                ELSE new_set_pin(version, new_pin_enc, key, auth(new_pin_enc)),
                "set")

(* Built-in UV is blocked: what is left, as uv_operation(true) finds it.   *)
FallBack ==
    IF call.fallback = "none" THEN Return("UvBlocked") ELSE Establish(call.fallback, held.request)

-------------------------------------------------------------------------------
(* The steps of the library: each reads an answer and sends what is next.  *)
ReadOnly == {"GetCredsMetadata", "EnumerateRPsBegin", "EnumerateRPsGetNextRP",
             "EnumerateCredentialsBegin", "EnumerateCredentialsGetNextCredential"}
handle_legacy_preview(r) ==
    CASE r.kind = "credentialManagement" ->
             [r EXCEPT !.use_legacy_preview = /\ "credMgmt" \notin call.info.options
                                              /\ "credentialMgmtPreview" \in call.info.options,
                       !.use_persistent_token = /\ call.store /\ r.subcommand \in ReadOnly
                                                /\ "perCredMgmtRO" \in call.info.options]
      [] r.kind = "bioEnrollment" ->
             [r EXCEPT !.use_legacy_preview = /\ "bioEnroll" \notin call.info.options
                                              /\ "userVerificationMgmtPreview" \in call.info.options]
      [] OTHER -> r

StartPin ==
    /\ pc = "start" /\ call.kind = "pin"
    /\ CASE Len(nfc(call.new)) < call.min_pin_length -> Return("PinTooShort")
         [] Len(Utf8(nfc(call.new))) >= PIN_MAX -> Return("PinTooLong")
         [] select_uv_proto(call.protocols) = 0 -> Return("Other")
         [] OTHER -> IF call.client_pin = "absent" THEN Return("PinNotSupported")
                     ELSE Establish(IF call.client_pin = "set" THEN "change" ELSE "set", held.request)
    /\ UNCHANGED library

StartCommand ==
    /\ pc = "start" /\ call.kind = "command"
    /\ LET native == call.request.kind = "getAssertion" /\ "prf" \in call.info.extensions
                     /\ call.request.extensions.hmac_or_prf.asked
           wrong == IF native THEN NativeError(call.request.extensions.hmac_or_prf, call.request.allow)
                    ELSE "Ok"
           r == handle_legacy_preview(IF native THEN convert_prf_to_native(call.request)
                                      ELSE call.request)
           request == CASE call.op = "raw" -> call.request
                        [] call.op = "legacy" -> ensure_uv_set(r)
                        [] OTHER -> r
           alone == call.op \in {"raw", "none"} \/ (call.op = "legacy" /\ ~call.shared)
       IN  IF wrong # "Ok" THEN Return(wrong)
           ELSE IF alone THEN SendCommand(request, held) ELSE Establish(call.op, request)
    /\ UNCHANGED library

(* The retries that are left are for the prompt alone.                     *)
ObtainPin ==
    /\ pc = "retries" /\ reply # <<>>
    /\ IF call.typed = Cancelled THEN Return("PINRequired")
       ELSE Send(new_get_key_agreement(held.version), "agree") /\ UNCHANGED held
    /\ UNCHANGED library

ObtainSharedSecret ==
    /\ pc = "agree" /\ reply # <<>>
    /\ \E result \in {Result("clientPin")} :
            LET key == Field(result.fields, "key_agreement")
            IN  IF result.error # "Ok" THEN Finish(result, <<>>)
                ELSE IF key = None THEN Return("Other")
                ELSE \E session \in {[held EXCEPT !.secret = ecdh(held.version, held.own, key[2])]} :
                         IF session.secret = Failed THEN Return("CryptoError")
                         ELSE CASE held.op \in {"set", "change"} -> SendPin(session)
                                [] held.op \in {"shared", "legacy"} ->
                                       SendCommand(held.request, session)
                                [] OTHER -> SendTokenRequest(session)
    /\ UNCHANGED library

(* What the authenticator encrypted as a token goes with the command.      *)
UseToken(code) ==
    IF code = None THEN Return("Other")
    ELSE \E token \in {decrypt(held.version, held.secret, code[2])} :
             IF token = Failed THEN Return("CryptoError")
             ELSE IF ~pin_uv_auth_token_len_valid(held.version, Len(token)) THEN Return("Other")
             ELSE SendCommand(calculate_and_set_uv_auth(held.request, held.version, token),
                              [held EXCEPT !.token = token])

ObtainToken ==
    /\ pc = "token" /\ reply # <<>>
    /\ \E result \in {Result("clientPin")} :
            CASE result.error = "UvBlocked" -> FallBack
              [] result.error = "UVInvalid" -> Send(new_get_uv_retries, "uvretries") /\ UNCHANGED held
              [] result.error \notin {"Ok", "UvBlocked", "UVInvalid"} -> Finish(result, <<>>)
              [] OTHER -> UseToken(Field(result.fields, "pin_uv_auth_token"))
    /\ UNCHANGED library

ReadUvRetries ==
    /\ pc = "uvretries" /\ reply # <<>>
    /\ LET left == Field(Result("clientPin").fields, "uv_retries")
       IN  IF left # None /\ left = Uint(0) THEN FallBack ELSE Return("UVInvalid")
    /\ UNCHANGED library

(* handle_errors: a refused verification is told with what is left of it.  *)
SendChunk(k) ==
    LET chunk == call.chunks[k]
        request == IF k = 1 THEN new_set_first(chunk.bytes, call.total)
                   ELSE new_set_continuation(chunk.bytes, chunk.offset)
        param == large_blob_pin_uv_auth_param(held.token, held.version, chunk.offset, chunk.bytes)
    IN  /\ held' = [held EXCEPT !.chunk = k]
        /\ Send(IF held.token = <<>> THEN request
                ELSE [request EXCEPT !.pin_uv_auth_param = Bytes(param),
                                     !.pin_uv_auth_protocol = Uint(held.version)],
                "upload")
ReadAnswer ==
    /\ pc = "command" /\ reply # <<>>
    /\ \E result \in {Result(held.request.kind)} :
           IF result.error = "UVInvalid" /\ call.op # "raw"
           THEN Send(new_get_uv_retries, "toldretries") /\ UNCHANGED held
           ELSE IF result.error = "Ok" /\ call.chunks # <<>> THEN SendChunk(1)
           ELSE Finish(result, IF call.prf THEN PrfResults(result.fields, held) ELSE <<>>)
    /\ UNCHANGED library
TellUvRetries ==
    /\ pc = "toldretries" /\ reply # <<>> /\ Return("UVInvalid")
    /\ UNCHANGED library
ReadUpload ==
    /\ pc = "upload" /\ reply # <<>>
    /\ \E result \in {Result("largeBlobs")} :
           IF result.error = "Ok" /\ held.chunk < Len(call.chunks) THEN SendChunk(held.chunk + 1)
           ELSE Finish(result, <<>>)
    /\ UNCHANGED library
ReadSet ==
    /\ pc = "set" /\ reply # <<>> /\ Finish(Result("clientPin"), <<>>)
    /\ UNCHANGED library

-------------------------------------------------------------------------------
(* The authenticator serves a packet, or misbehaves.                       *)
Serve ==
    /\ wire # <<>> /\ reply = <<>>
    /\ \E served \in {Served(authenticator, wire)} :
            /\ reply' = served.reply /\ authenticator' = served.authenticator
            /\ executed' = executed \o (IF served.executed = Nothing THEN <<>> ELSE <<served.executed>>)
    /\ UNCHANGED <<call, pc, held, wire, outcome, fault>>
Misbehave ==
    /\ wire # <<>> /\ reply = <<>> /\ fault = NoFault
    /\ \E f \in call.faults :
            /\ f.at = pc /\ fault' = f
            /\ reply' = f.packet
            /\ authenticator' = IF f.packet # <<>> THEN authenticator
                                ELSE [authenticator EXCEPT !.key = @ + 1, !.token = @ + 1]
    /\ UNCHANGED <<call, pc, held, wire, executed, outcome>>

Next ==
    \/ StartPin \/ StartCommand \/ ObtainPin \/ ObtainSharedSecret \/ ObtainToken \/ ReadUvRetries
    \/ ReadAnswer \/ TellUvRetries \/ ReadUpload \/ ReadSet
    \/ Serve \/ Misbehave

-------------------------------------------------------------------------------
TypeOK ==
    /\ call \in Calls
    /\ pc \in {"start", "retries", "agree", "token", "uvretries", "command", "toldretries", "upload",
               "set", "done"}
    /\ held.version \in 0..2 /\ held.own \in 100..102 /\ held.draws \in 0..3
    /\ fault \in call.faults \cup {NoFault}
    /\ outcome.error # "none" <=> pc = "done"

(* Success is only told if the authenticator says so.                      *)
Truthful == fault.at \notin {"command", "upload", "set"} \/ fault.packet = <<>>

(* The status that came last, but for those of questions about retries.    *)
TellsTheStatus ==
    reply # <<>> /\ reply[1] # 0 =>
        \/ outcome.error \in {"UVInvalid", "PINRequired"}
        \/ outcome.error \in DOMAIN StatusByte \cup {"Unknown"} /\ into_byte(outcome) = reply[1]

(* Commands arrive as asked (the tables of proto/ctap2/model, the          *)
(* authentication of requests and the PIN/UV protocols): whatever the      *)
(* authenticator executes is what the application asked, in its order;     *)
(* it is refused or fails only if something went wrong; the error that is  *)
(* told is the one that came; and of an answer, as of the PRF, the         *)
(* application gets what the authenticator said.                           *)
CommandsArriveAsAsked ==
    call.kind = "command" =>
        /\ Range(executed) \subseteq Range(call.asked.commands)
        /\ Truthful => IsPrefix(executed, call.asked.commands)
        /\ authenticator.pin = call.device.pin
        /\ pc = "done" =>
             /\ fault = NoFault => outcome.error \in call.asked.errors
             /\ outcome.error = "Ok" /\ Truthful =>
                    /\ executed = call.asked.commands
                    /\ {f \in outcome.fields : f[1] # "authenticator_data"} = call.asked.told
                    /\ outcome.outputs \in call.asked.outputs
             /\ TellsTheStatus

(* What is sealed, authenticated or drawn is all there is of bytes in a    *)
(* packet about PINs.                                                      *)
Sealed(packet) ==
    packet # <<>> /\ packet[1] = CommandCode["clientPin"] =>
        \A i \in DOMAIN packet[2][2] :
            LET item == packet[2][2][i][2]
            IN  item[1] = "bytes" => \A k \in DOMAIN item[2] : item[2][k][1] \in {"aes", "hmac", "iv"}

(* PINs are what was typed (change_pin_internal): the PIN of an authenti-  *)
(* cator is the old one or the new one as typed, whole and composed; it is *)
(* the new one when success is told, and the old one when nothing failed   *)
(* but the request was wrong; and neither of them goes out in the clear.   *)
PinsAreWhatWasTyped ==
    LET new == StdHash(Utf8(call.asked.pin))
    IN  /\ Sealed(wire)
        /\ call.kind = "pin" =>
             /\ authenticator.pin \in {call.device.pin, new}
             /\ executed = <<>>
             /\ pc = "done" =>
                  /\ fault = NoFault => outcome.error \in call.asked.errors
                  /\ outcome.error = "Ok" /\ Truthful => authenticator.pin = new
                  /\ outcome.error # "Ok" /\ fault = NoFault => authenticator.pin = call.device.pin
                  /\ TellsTheStatus
================================================================================
