--------------------------- MODULE WebAuthnOperation ---------------------------
(***************************************************************************)
(* One WebAuthn operation on one channel: a registration or an assertion,  *)
(* over FIDO2 or, where the request allows it and the authenticator knows  *)
(* nothing else, over U2F.  A list of credentials is tried first, one      *)
(* silent command for each; the verification of the user is one step here  *)
(* (UserVerification.tla has it in full), and so is each command.  What    *)
(* follows an assertion that reads or writes a blob is in LargeBlobs.tla.  *)
(***************************************************************************)
EXTENDS Naturals, Sequences, FiniteSets, SequencesExt

CONSTANTS
    Rp, AppIdRp,    \* the relying party of the request, and its U2F name
    OtherRp,
    NewId,          \* the id of a credential that is made
    LongIds,        \* the ids longer than maxCredentialIdLength
    Credentials,    \* what the authenticator may hold: [id, rp, discoverable, level]
    Requests, Devices,
    MaxFailures     \* bound of the exploration

(* A new id is drawn at random, and is none of those there are; and an id  *)
(* names one credential of a relying party.  The U2F name is a URL.        *)
ASSUME OperationAssumption ==
    /\ Rp # AppIdRp
    /\ IsFiniteSet(Credentials)
    /\ \A c \in Credentials :
        /\ c.rp \in {Rp, AppIdRp, OtherRp} /\ c.discoverable \in BOOLEAN
        /\ c.level \in {"open", "verified"}
        /\ c.id # NewId
        /\ \A d \in Credentials : d.id = c.id /\ d.rp = c.rp => d = c
    /\ \A r \in Requests :
        /\ r.kind \in {"create", "get"} /\ r.appid \in BOOLEAN
        /\ r.list \in Seq(ToSet(r.list)) /\ NewId \notin ToSet(r.list)
    /\ \A d \in Devices : d.max_list \in Nat
    /\ MaxFailures \in Nat

VARIABLES
    device,     \* what the authenticator says of itself
    held,       \* the credentials it holds
    remembered, \* the assertions it has left for getNextAssertion
    op,         \* the request
    pc,
    todo,       \* the credentials to try: [id, rp, legacy], under which name first,
                \* and whether under the U2F name after it
    list,       \* the allow or exclude list the authenticator will see
    verified,   \* the command carries user verification
    salt,       \* whose PRF input it carries
    count,      \* the assertions to fetch
    answers,    \* those fetched
    outcome,
    n,          \* failures so far
    waited,     \* the U2F command has been told to wait for a touch
    retried,    \* the token was refused once
    unsure,     \* history: a U2F pre-flight failed
    disturbed   \* history: another client has used the authenticator

platform == <<op, pc, todo, list, verified, salt, count, answers, outcome, waited, retried, unsure>>
vars == <<device, held, remembered, platform, n, disturbed>>

-------------------------------------------------------------------------------
(* The request, and what it comes to on this authenticator.                *)

prf_forces_uv_upgrade(r) == r.prf.asked /\ r.uv # "required"

UvOf(r) == IF prf_forces_uv_upgrade(r) THEN "required" ELSE r.uv

(* Changed forms, with which the properties are tested. *)
is_downgradable_registration_Unprotected(r) ==
    r.es256 /\ r.rk # "required" /\ UvOf(r) # "required" /\ r.blob # "required"
validate_rp_id_hash_Never(a) == TRUE
Known21_Always == device.fido2
Expired_Never == FALSE

is_downgradable_registration(r) ==
    /\ r.es256 /\ r.rk # "required" /\ UvOf(r) # "required"
    /\ r.protect \notin {"enforced"} /\ r.blob # "required"

is_downgradable_assertion(r) ==
    /\ UvOf(r) # "required" /\ r.list # <<>> /\ r.blob \notin {"write", "delete"}

is_downgradable(r) ==
    IF r.kind = "create" THEN is_downgradable_registration(r) ELSE is_downgradable_assertion(r)

Supports(extension) == extension \in device.extensions

(* A registration whose extensions cannot be had is refused.               *)
UnsupportedExtension(r) ==
    /\ r.kind = "create"
    /\ (r.protect = "enforced" /\ ~Supports("credProtect")) \/ (r.blob = "required" /\ ~device.largeBlobs)

(* What is said of the credential's kind, where it can be known: before    *)
(* FIDO 2.1 an authenticator may make a discoverable one unasked.          *)
Known21 == device.fido2 /\ device.ctap21

(* Preferred is made required where there is room for the credential.      *)
require_resident_key(r) == r.rk = "required" \/ (r.rk = "preferred" /\ device.rk)

(* from_signed_extensions. *)
CredProps(r) ==
    IF ~r.props THEN "absent"
    ELSE IF ~Known21 THEN "unknown"
    ELSE IF require_resident_key(r) THEN "true" ELSE "false"

LargeBlobOutput(r) ==
    IF r.blob \in {"preferred", "required"} /\ device.fido2 /\ device.largeBlobs
    THEN "true" ELSE "absent"

(* to_unsigned_extensions, and get_assertion_u2f for its own.              *)
AppIdOutput(r, used) == IF ~r.appid THEN "absent" ELSE IF used THEN "true" ELSE "false"

ShortOnes(ids) ==
    LET short[k \in 0..Len(ids)] ==
            IF k = 0 THEN <<>>
            ELSE IF ids[k] \in LongIds THEN short[k - 1] ELSE Append(short[k - 1], ids[k])
    IN  short[Len(ids)]

(* Changed form: the limit is applied whether or not there is one. *)
filter_oversized_credentials_Always(ids) == ShortOnes(ids)

filter_oversized_credentials(ids) == IF device.max_id THEN ShortOnes(ids) ELSE ids

(* The names a credential may be known under: of the U2F name only the     *)
(* registrations' pre-flight knows, and the U2F commands of an assertion.  *)
Tries(ids, legacy) == [i \in DOMAIN ids |-> [id |-> ids[i], rp |-> Rp, legacy |-> legacy]]

(* What is left to try when the first was not found.                       *)
NextTry ==
    IF Head(todo).legacy
    THEN [todo EXCEPT ![1] = [id |-> @.id, rp |-> AppIdRp, legacy |-> FALSE]]
    ELSE Tail(todo)

(* max_credential_count_in_list and max_msg_size; an item is one unit.     *)
RequestTooLarge(ids) ==
    (device.max_list # 0 /\ Len(ids) > device.max_list) \/ 1 + Len(ids) > device.max_msg

(* PRF over hmac-secret has one input for the whole command: the first in  *)
(* the map whose credential is in the request's list, in no certain order. *)
NativePrf == Supports("prf")
prf_to_hmac_input(r) ==
    LET matching == r.prf.by \cap ToSet(r.list)
    IN  IF matching # {} THEN matching ELSE IF r.prf.eval THEN {"eval"} ELSE {"none"}

calculate_hmac(r) ==
    IF r.kind = "get" /\ r.prf.asked /\ ~NativePrf /\ Supports("hmac-secret")
    THEN prf_to_hmac_input(r) ELSE {"none"}

(* evalByCredential without a list is refused, at once or, over            *)
(* hmac-secret, once there is a shared secret.                             *)
PrfNeedsList(r) == r.kind = "get" /\ r.prf.asked /\ r.prf.by # {} /\ r.list = <<>>

-------------------------------------------------------------------------------
(* The authenticator.                                                      *)

Known(id, rp) == \E c \in held : c.id = id /\ c.rp = rp

(* A credential at the level "verified" is as good as absent to a command  *)
(* without verification.                                                   *)
Visible(c, with_uv) == c.level = "open" \/ with_uv

SilentlyKnown(id, rp) == \E c \in held : c.id = id /\ c.rp = rp /\ Visible(c, FALSE)

Excluded == \E c \in held : c.rp = Rp /\ c.id \in ToSet(list) /\ Visible(c, verified)

Assertable ==
    {c \in held : c.rp = Rp /\ Visible(c, verified)
                  /\ IF list = <<>> THEN c.discoverable ELSE c.id \in ToSet(list)}

(* With native PRF it has the input of each credential.                    *)
PrfOf(c) ==
    IF op.prf.asked /\ NativePrf
    THEN IF c.id \in op.prf.by /\ c.id \in ToSet(op.list) THEN c.id
         ELSE IF op.prf.eval THEN "eval" ELSE "none"
    ELSE salt

(* An authenticator may leave out the id of its answer if the command's    *)
(* list has one entry; the library puts the request's there if that is     *)
(* also the only one of the request.                                       *)
Named == (device.omits /\ Len(list) = 1) => Len(op.list) = 1

NoOutputs == [rk |-> "absent", blob |-> "absent", appid |-> "absent"]

Answer(id, rp, with_uv, prf) ==
    [id |-> id, rp |-> rp, verified |-> with_uv, prf |-> prf, named |-> TRUE, outputs |-> NoOutputs]

(* Only where the answer has extensions at all is anything said of it.     *)
FidoAppIdOutput == IF salt = "none" THEN "absent" ELSE AppIdOutput(op, FALSE)

Assertion(c) ==
    [Answer(c.id, c.rp, verified, PrfOf(c)) EXCEPT !.named = Named,
                                                   !.outputs.appid = FidoAppIdOutput]

Credential(discoverable, level) ==
    [id |-> NewId, rp |-> Rp, discoverable |-> discoverable, level |-> level]

(* Over FIDO2 the standard settles whether the credential is discoverable  *)
(* if it is asked for, or since FIDO 2.1; over U2F it never is.            *)
MadeOverFido2 ==
    {Credential(d, IF op.protect # "none" /\ Supports("credProtect") THEN "verified" ELSE "open") :
        d \in IF ~device.rk THEN {FALSE} ELSE IF require_resident_key(op) THEN {TRUE}
              ELSE IF device.ctap21 THEN {FALSE} ELSE BOOLEAN}
MadeOverU2f == Credential(FALSE, "open")

Registration(with_uv) ==
    [Answer(NewId, Rp, with_uv, "none") EXCEPT !.outputs.rk = CredProps(op),
                                               !.outputs.blob = LargeBlobOutput(op)]

-------------------------------------------------------------------------------
NoPrf == [asked |-> FALSE, eval |-> FALSE, by |-> {}]

Init ==
    /\ device \in Devices
    /\ held \in SUBSET Credentials
    /\ \A c \in held : (device.max_id => c.id \notin LongIds) /\ (c.level # "open" => device.fido2)
    /\ remembered = <<>>
    /\ op \in Requests
    /\ pc = "begin"
    /\ todo = <<>> /\ list = <<>> /\ verified = FALSE /\ salt = "none" /\ count = 0
    /\ answers = <<>> /\ outcome = "none" /\ n = 0
    /\ waited = FALSE /\ retried = FALSE /\ unsure = FALSE /\ disturbed = FALSE

Goto(place) == pc' = place /\ UNCHANGED outcome
Return(result) == pc' = "done" /\ outcome' = result

Same == UNCHANGED <<device, held, remembered, op, n, disturbed>>

negotiate_protocol ==
    /\ pc = "begin"
    /\ \/ /\ ~device.fido2 /\ (~device.u2f \/ ~is_downgradable(op))
          /\ Return("NotSupported")
       \/ /\ device.fido2
          /\ IF op.kind = "get" /\ op.blob \in {"write", "delete"} /\ Len(op.list) # 1
             THEN Return("NotSupported") ELSE Goto("info")
       \/ /\ ~device.fido2 /\ device.u2f /\ is_downgradable(op)
          /\ Goto("version")
    /\ Same /\ UNCHANGED <<todo, list, verified, salt, count, answers, waited, retried, unsure>>

(* The list is settled: the request is looked at once more, and the user   *)
(* is verified next.                                                       *)
Settled(ids) ==
    /\ list' = ids
    /\ IF RequestTooLarge(ids) THEN Return("RequestTooLarge") ELSE Goto("verify")

(* Where nothing of an allow list is left, the user is asked for a touch   *)
(* all the same, or, without pre-flight, not at all.                       *)
AfterPreflight(ids) ==
    IF op.kind = "get" /\ ids = <<>> /\ op.list # <<>>
    THEN /\ list' = ids
         /\ IF device.preflight THEN Goto("dummy") ELSE Return("NoCredentials")
    ELSE Settled(ids)

ctap2_get_info ==
    /\ pc = "info"
    /\ LET ids == filter_oversized_credentials(op.list)
       IN  \/ /\ UnsupportedExtension(op) \/ (NativePrf /\ PrfNeedsList(op))
              /\ Return(IF UnsupportedExtension(op) THEN "UnsupportedExtension" ELSE "NotSupported")
              /\ UNCHANGED <<todo, list>>
           \/ /\ ~UnsupportedExtension(op) /\ ~(NativePrf /\ PrfNeedsList(op))
              /\ IF device.preflight /\ ids # <<>>
                 THEN /\ Goto("preflight")
                      /\ todo' = Tries(ids, op.kind = "create" /\ op.appid) /\ list' = <<>>
                 ELSE AfterPreflight(ids) /\ UNCHANGED todo
    /\ Same /\ UNCHANGED <<verified, salt, count, answers, waited, retried, unsure>>

(* A silent getAssertion of one credential.                                *)
preflight_one ==
    /\ pc = "preflight"
    /\ LET e == Head(todo)
           found == SilentlyKnown(e.id, e.rp)
           kept == IF found THEN Append(list, e.id) ELSE list
           rest == IF found THEN Tail(todo) ELSE NextTry
       IN  /\ todo' = rest
           /\ IF rest = <<>> THEN AfterPreflight(kept) ELSE Goto("preflight") /\ list' = kept
    /\ Same /\ UNCHANGED <<verified, salt, count, answers, waited, retried, unsure>>

(* Its result is ignored, also when it fails.                              *)
dummy ==
    /\ pc = "dummy"
    /\ Return("NoCredentials")
    /\ Same /\ UNCHANGED <<todo, list, verified, salt, count, answers, waited, retried, unsure>>

user_verification ==
    /\ pc = "verify"
    /\ \/ /\ UvOf(op) = "required" /\ ~device.verifies
          /\ Return("NotSupported")
          /\ UNCHANGED <<verified, salt>>
       \/ /\ UvOf(op) = "required" => device.verifies
          /\ verified' \in IF ~device.verifies THEN {FALSE}
                           ELSE IF UvOf(op) = "discouraged" THEN BOOLEAN ELSE {TRUE}
          /\ \/ /\ PrfNeedsList(op) /\ (verified' \/ Supports("hmac-secret"))
                /\ Return("NotSupported") /\ UNCHANGED salt
             \/ /\ ~(PrfNeedsList(op) /\ (verified' \/ Supports("hmac-secret")))
                /\ salt' \in calculate_hmac(op)
                /\ Goto("command")
    /\ Same /\ UNCHANGED <<todo, list, count, answers, waited, retried, unsure>>

ctap2_make_credential ==
    /\ pc = "command" /\ op.kind = "create"
    /\ \/ Excluded /\ Return("CredentialExcluded") /\ UNCHANGED <<held, answers>>
       \/ /\ ~Excluded /\ op.rk = "required" /\ ~device.rk
          /\ Return("UnsupportedOption") /\ UNCHANGED <<held, answers>>
       \/ /\ ~Excluded /\ (op.rk = "required" => device.rk)
          /\ \E made \in MadeOverFido2 : held' = held \cup {made}
          /\ answers' = <<Registration(verified)>>
          /\ Return("ok")
    /\ UNCHANGED <<device, remembered, op, n, disturbed, todo, list, verified, salt, count, waited,
                   retried, unsure>>

(* The cap on how many assertions are fetched.                             *)
Capped(k) == IF device.max_list # 0 /\ k > device.max_list THEN device.max_list ELSE k

validate_rp_id_hash(a) == a.rp = Rp

(* Changed form: one assertion more than there is is asked for. *)
Received_OneMore(a, so_far, total) ==
    IF ~validate_rp_id_hash(a) THEN Return("InvalidDeviceResponse") /\ UNCHANGED answers
    ELSE answers' = Append(so_far, a) /\ IF Len(so_far) >= total THEN Return("ok") ELSE Goto("next")

Received(a, so_far, total) ==
    IF ~validate_rp_id_hash(a) THEN Return("InvalidDeviceResponse") /\ UNCHANGED answers
    ELSE /\ answers' = Append(so_far, a)
         /\ IF Len(so_far) + 1 >= total THEN Return("ok") ELSE Goto("next")

ctap2_get_assertion ==
    /\ pc = "command" /\ op.kind = "get"
    /\ \/ /\ Assertable = {}
          /\ Return("NoCredentials") /\ UNCHANGED <<remembered, count, answers>>
       \/ /\ Assertable # {} /\ list # <<>>
          /\ \E c \in Assertable : count' = 1 /\ remembered' = <<>> /\ Received(Assertion(c), <<>>, 1)
       \/ /\ Assertable # {} /\ list = <<>>
          /\ LET all == SetToSeq(Assertable)
             IN  /\ remembered' = [i \in DOMAIN Tail(all) |-> Assertion(Tail(all)[i])]
                 /\ count' = Capped(Len(all))
                 /\ Received(Assertion(Head(all)), <<>>, Capped(Len(all)))
    /\ UNCHANGED <<device, held, op, n, disturbed, todo, list, verified, salt, waited, retried, unsure>>

ctap2_get_next_assertion ==
    /\ pc = "next"
    /\ IF remembered = <<>> THEN Return("NotAllowed") /\ UNCHANGED <<remembered, answers>>
       ELSE /\ remembered' = Tail(remembered)
            /\ Received(Head(remembered), answers, count)
    /\ UNCHANGED <<device, held, op, n, disturbed, todo, list, verified, salt, count, waited, retried,
                   unsure>>

-------------------------------------------------------------------------------
(* The same over U2F.                                                      *)

ctap1_version ==
    /\ pc = "version"
    /\ todo' = Tries(op.list, op.kind = "get" /\ op.appid)
    /\ Goto(IF op.kind = "get" THEN "sign" ELSE IF op.list # <<>> THEN "u2f_preflight" ELSE "register")
    /\ Same /\ UNCHANGED <<list, verified, salt, count, answers, waited, retried, unsure>>

NextPreflight ==
    /\ todo' = Tail(todo)
    /\ Goto(IF Tail(todo) = <<>> THEN "register" ELSE "u2f_preflight")

(* A signature without a touch, for each excluded credential.              *)
ctap1_preflight ==
    /\ pc = "u2f_preflight"
    /\ IF Known(Head(todo).id, Head(todo).rp)
       THEN Return("CredentialExcluded") /\ UNCHANGED todo
       ELSE NextPreflight
    /\ Same /\ UNCHANGED <<list, verified, salt, count, answers, waited, retried, unsure>>

ctap1_register ==
    /\ pc = "register"
    /\ held' = held \cup {MadeOverU2f}
    /\ answers' = <<Registration(FALSE)>>
    /\ Return("ok")
    /\ UNCHANGED <<device, remembered, op, n, disturbed, todo, list, verified, salt, count, waited,
                   retried, unsure>>

(* The first credential that the authenticator knows under either name.    *)
ctap1_sign ==
    /\ pc = "sign"
    /\ LET e == Head(todo)
       IN  \/ /\ Known(e.id, e.rp)
              /\ answers' = <<[Answer(e.id, e.rp, FALSE, "none")
                                 EXCEPT !.outputs.appid = AppIdOutput(op, e.rp = AppIdRp)]>>
              /\ Return("ok") /\ UNCHANGED <<todo, waited>>
           \/ /\ ~Known(e.id, e.rp)
              /\ todo' = NextTry /\ waited' = FALSE
              /\ IF NextTry = <<>> THEN Return("NoCredentials") ELSE Goto("sign")
              /\ UNCHANGED answers
    /\ Same /\ UNCHANGED <<list, verified, salt, count, retried, unsure>>

NeedsTouch == pc = "register" \/ (pc = "sign" /\ Known(Head(todo).id, Head(todo).rp))

(* Nobody touches it yet: the same command is sent again after UP_SLEEP,   *)
(* until its time is up.                                                   *)
send_apdu_request_wait_uv ==
    /\ NeedsTouch /\ ~waited
    /\ waited' = TRUE
    /\ Same /\ UNCHANGED <<op, pc, todo, list, verified, salt, count, answers, outcome, retried, unsure>>

Expired == waited

user_action_times_out ==
    /\ NeedsTouch /\ Expired
    /\ Return("UserActionTimeout")
    /\ Same /\ UNCHANGED <<todo, list, verified, salt, count, answers, waited, retried, unsure>>

-------------------------------------------------------------------------------
(* A command fails, or its answer is lost.  A U2F pre-flight that fails is *)
(* passed over; a failed dummy is no other than one that succeeds.         *)
CommandFails ==
    /\ pc \in {"version", "info", "preflight", "verify", "command", "next",
               "u2f_preflight", "register", "sign"}
    /\ n < MaxFailures
    /\ n' = n + 1
    /\ IF pc = "u2f_preflight" THEN NextPreflight /\ unsure' = TRUE
       ELSE Return("failed") /\ UNCHANGED <<todo, unsure>>
    /\ \/ UNCHANGED held
       \/ /\ pc = "command" /\ op.kind = "create" /\ ~Excluded
          /\ op.rk = "required" => device.rk
          /\ \E made \in MadeOverFido2 : held' = held \cup {made}
       \/ pc = "register" /\ held' = held \cup {MadeOverU2f}
    /\ UNCHANGED <<device, remembered, op, list, verified, salt, count, answers, waited, retried,
                   disturbed>>

(* A cached token is refused: handle_errors! starts over with a new one.   *)
TokenRefused ==
    /\ pc = "command" /\ verified /\ ~retried
    /\ n < MaxFailures
    /\ n' = n + 1
    /\ retried' = TRUE
    /\ Goto("verify")
    /\ UNCHANGED <<device, held, remembered, op, todo, list, verified, salt, count, answers, waited,
                   unsure, disturbed>>

(* Another client asks the authenticator for an assertion: what it had     *)
(* left for this one is replaced.                                          *)
another_client_asserts ==
    /\ pc = "next" /\ ~disturbed
    /\ disturbed' = TRUE
    /\ \E rp \in {Rp, OtherRp} :
           LET theirs == SetToSeq({c \in held : c.rp = rp /\ c.discoverable})
           IN  remembered' = [i \in DOMAIN theirs |-> Answer(theirs[i].id, rp, FALSE, "none")]
    /\ UNCHANGED <<device, held, platform, n>>

Program ==
    \/ negotiate_protocol \/ ctap2_get_info \/ preflight_one \/ dummy \/ user_verification
    \/ ctap2_make_credential \/ ctap2_get_assertion \/ ctap2_get_next_assertion
    \/ ctap1_version \/ ctap1_preflight
    \/ send_apdu_request_wait_uv \/ user_action_times_out

Next ==
    \/ Program \/ ctap1_register \/ ctap1_sign
    \/ CommandFails \/ TokenRefused \/ another_client_asserts

Spec == Init /\ [][Next]_vars

(* The caller's task is polled, and the authenticator answers or fails.    *)
(* Nobody need touch it.                                                   *)
FairSpec == Spec /\ WF_vars(Program \/ ctap1_sign)

-------------------------------------------------------------------------------
TypeOK ==
    /\ pc \in {"begin", "version", "info", "preflight", "dummy", "verify", "command", "next",
               "u2f_preflight", "register", "sign", "done"}
    /\ outcome \in {"none", "ok", "failed", "NotSupported", "UnsupportedExtension",
                    "UnsupportedOption", "RequestTooLarge", "NoCredentials", "NotAllowed",
                    "CredentialExcluded", "InvalidDeviceResponse", "UserActionTimeout"}
    /\ (pc = "done") = (outcome # "none")
    /\ pc \in {"preflight", "u2f_preflight", "sign"} => todo # <<>>
    /\ pc = "next" => Len(answers) \in 1..(count - 1)
    /\ n \in 0..MaxFailures

(* An excluded credential that the authenticator knows, and shows to a     *)
(* silent command, keeps a new one from being made, whatever fails on the  *)
(* way.  Over U2F a pre-flight that failed is no proof.                    *)
ExcludedStayOut ==
    (op.kind = "create" /\ ~unsure /\ \E c \in held : c.id = NewId) =>
        ~\E c \in held : c.id \in ToSet(op.list) /\ c.rp = Rp /\ Visible(c, FALSE)

Asked(a) == a.rp = Rp \/ (op.appid /\ a.rp = AppIdRp /\ ~device.fido2)

(* The assertions are of credentials the request names, or of any of its   *)
(* relying party if it names none; they are all different and all there    *)
(* are, up to the cap, unless another client came in between, and then     *)
(* still of no other relying party.                                        *)
AssertionsAreAsked ==
    op.kind = "get" =>
        /\ \A i \in DOMAIN answers :
            /\ Asked(answers[i]) /\ Known(answers[i].id, answers[i].rp)
            /\ op.list # <<>> => answers[i].id \in ToSet(op.list)
        /\ ~disturbed => IsInjective(answers)
        /\ (outcome = "ok" /\ ~disturbed /\ op.list = <<>>) =>
                Len(answers) = Capped(Cardinality(Assertable))

(* What the request requires is had, whichever protocol was spoken and     *)
(* whatever was tried again.                                               *)
RequirementsAreMet ==
    (outcome = "ok" /\ ~disturbed) =>
        /\ UvOf(op) = "required" => \A i \in DOMAIN answers : answers[i].verified
        /\ (op.kind = "create" /\ op.rk = "required") =>
                \E c \in held : c.id = NewId /\ c.discoverable
        /\ (op.kind = "create" /\ op.protect = "enforced") =>
                \E c \in held : c.id = NewId /\ c.level = "verified"
        /\ (op.kind = "create" /\ op.blob = "required") => device.fido2 /\ device.largeBlobs

(* An operation ends, though nobody touches the authenticator.             *)
OperationReturns == pc = "begin" ~> pc = "done"

(* "None of these credentials" is said only where there is none.           *)
AbsentIsProven ==
    (op.kind = "get" /\ outcome = "NoCredentials" /\ op.list # <<>>) =>
        ~\E c \in held : c.rp = Rp /\ c.id \in ToSet(op.list) /\ Visible(c, device.verifies)

(* What the answers say beside the signature is so: a credential that is   *)
(* called discoverable is, and one that is called not is not; the U2F name *)
(* was used where it says so; the large blobs are there; and the PRF is    *)
(* the one of the answering credential's input, where the request leaves   *)
(* no choice of inputs or of credentials.                                  *)
OutputsAreTrue ==
    \A i \in DOMAIN answers :
        LET a == answers[i]
        IN  /\ \A c \in held : c.id = NewId /\ op.kind = "create" =>
                   /\ a.outputs.rk = "true" => c.discoverable
                   /\ a.outputs.rk = "false" => ~c.discoverable
            /\ a.outputs.blob = "true" => device.fido2 /\ device.largeBlobs
            /\ (op.kind = "get" /\ op.appid /\ ~disturbed) => (a.outputs.appid = "true" <=> a.rp = AppIdRp)
            /\ (op.prf.asked /\ op.kind = "get" /\ (NativePrf \/ Supports("hmac-secret"))
               /\ ~disturbed /\ (op.prf.by = {} \/ Len(op.list) = 1)) =>
                   a.prf = IF a.id \in op.prf.by THEN a.id ELSE IF op.prf.eval THEN "eval" ELSE "none"

(* An assertion says whose it is.                                          *)
AssertionsAreNamed == \A i \in DOMAIN answers : answers[i].named

(* A credential that the authenticator has under the relying party's U2F   *)
(* name, and that the request excludes, is detected where a pre-flight     *)
(* looks for it.                                                           *)
LegacyCredentialsAreDetected ==
    (op.kind = "create" /\ op.appid /\ outcome = "ok" /\ device.fido2 /\ device.preflight) =>
        ~\E c \in held : c.rp = AppIdRp /\ c.id \in ToSet(op.list) /\ Visible(c, FALSE)
===============================================================================
