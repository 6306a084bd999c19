--------------------------- MODULE UserVerification ---------------------------
(***************************************************************************)
(* One platform channel driving user-verified commands on one              *)
(* authenticator: user_verification and its helper                         *)
(* (webauthn/pin_uv_auth_token.rs), the retry loop of handle_errors!       *)
(* (webauthn.rs), PIN set and change (pin/mod.rs), the channel's cache of  *)
(* one pinUvAuthToken (transport/channel.rs) and the caller's store of     *)
(* persistent tokens (pin/persistent_token.rs).                            *)
(*                                                                         *)
(* Every command to the authenticator and every wait for the user is a     *)
(* step of its own, because the code awaits there: between two steps the   *)
(* authenticator may lose power, let a token expire, or have its PIN       *)
(* changed by another platform, and the platform process may die.          *)
(***************************************************************************)
EXTENDS CtapInfo, FiniteSets

CONSTANTS
    RP,              \* relying party identifiers
    NoRp,            \* the RP ID of a token that is bound to none
    Profiles,        \* the authenticators considered
    Requests,        \* the commands the application may issue
    HasStore,        \* whether the channel was given a PersistentTokenStore
    LossyStore,      \* whether the store's writes and deletes may be lost
    MaxUvRetries,    \* built-in UV attempts before the authenticator blocks
    MaxCeremonies,   \* bound: commands the application issues
    MaxEvents,       \* bound: disturbances, and new PINs that are refused
    MaxSecrets       \* bound: shared secrets before their identities repeat

UvLevel == {"required", "preferred", "discouraged"}

(***************************************************************************)
(* Commands: makeCredential, getAssertion, credential management, bio      *)
(* enrollment, authenticator configuration, and a PIN change asked for by  *)
(* the application.                                                        *)
(***************************************************************************)
Kind == {"mc", "ga", "cm", "be", "acfg", "changePin"}

(* The history counter of retries stops here; one retry is all there is.   *)
RetriesCap == 2

RequestType ==
    [kind : Kind, uv : UvLevel, rp : RP \cup {NoRp},
     hmac : BOOLEAN, lbw : BOOLEAN, readOnly : BOOLEAN]

ASSUME ConstantsAssumption ==
    /\ NoRp \notin RP
    /\ Profiles \subseteq Profile
    /\ Requests \subseteq RequestType
    /\ HasStore \in BOOLEAN
    /\ LossyStore \in BOOLEAN
    /\ MaxUvRetries \in Nat
    /\ MaxCeremonies \in Nat
    /\ MaxEvents \in Nat
    /\ MaxSecrets \in Nat \ {0}

VARIABLES
    dev,        \* the authenticator
    auth,       \* the channel's AuthTokenData
    store,      \* records of the persistent token store
    pc,         \* where the running command is
    req,        \* the command the application issued
    wire,       \* the mutable part of the CTAP request built for it
    info,       \* the getInfo response in hand
    used,       \* UsedPinUvAuthToken of the current attempt
    needs,      \* needs_shared_secret
    blocked,    \* uv_blocked
    op,         \* the chosen user verification operation
    ss,         \* the shared secret in hand
    pin,        \* the PIN in hand, as the PIN generation it belongs to
    got,        \* the token the authenticator returned
    after,      \* where try_to_set_pin returns to
    recId,      \* the store record recognised before a PIN change, or reused
    rejected,   \* persistent_token_rejected
    retries,    \* history: attempts of this command that were retried
    told,       \* history: PresenceRequired was sent in this attempt
    waited,     \* history: the user was waited for since the key agreement
    result,     \* outcome of the last command
    n           \* counters that make identities fresh, and the bounds

devVars == <<dev>>
platformVars == <<auth, store>>
localVars == <<info, needs, blocked, op, ss, pin, got, after, recId>>
vars == <<dev, auth, store, pc, req, wire, info, used, needs, blocked, op, ss,
          pin, got, after, recId, rejected, retries, told, waited, result, n>>

Sources ==
    {"none", "legacyUv", "secretOnly", "newUv", "newPin", "ephemeral", "persistent"}

(* The sources that reuse a token minted by an earlier command. *)
Reused == {"ephemeral", "persistent"}

Locations ==
    {"idle", "info", "lookup", "helper", "recheck", "early", "loop", "waitPin",
     "keyAgree", "getToken", "uvRetries", "package", "extend", "send",
     "newPin", "curPin", "setKey", "setPin", "evict", "reloop"}

Outcomes ==
    {"none", "ok", "PINAuthInvalid", "PINInvalid", "PINRequired", "UVInvalid",
     "UvBlocked", "NoUvAvailable", "Cancelled", "Refused", "Transport", "Crashed"}

(* Tokens.  id 0 is the absence of a token. *)
NoToken == [id |-> 0, perms |-> {}, rp |-> NoRp, by |-> "none"]
NoSecret == [id |-> 0, key |-> 0]
NoAuth == [tok |-> 0, perms |-> {}, rp |-> NoRp, ss |-> NoSecret]
NoParam == [from |-> "none", tok |-> 0]
NoWire == [param |-> NoParam, uvOption |-> FALSE, prf |-> FALSE, ext |-> NoSecret]
NoRequest ==
    [kind |-> "changePin", uv |-> "preferred", rp |-> NoRp,
     hmac |-> FALSE, lbw |-> FALSE, readOnly |-> FALSE]

TokenType ==
    [id : Nat, perms : SUBSET Permission, rp : RP \cup {NoRp},
     by : {"none", "uv", "pin"}]
SecretType == [id : Nat, key : Nat]
AuthType ==
    [tok : Nat, perms : SUBSET Permission, rp : RP \cup {NoRp}, ss : SecretType]
RecordType == [id : Nat, gen : Nat, ident : {"device", "garbage"}]
DeviceType ==
    [profile : Profile, clientPin : Option, force : BOOLEAN,
     uvRetries : Nat, key : Nat, gen : Nat, tok : TokenType]
WireType ==
    [param : [from : {"none", "cache", "store", "fresh"}, tok : Nat],
     uvOption : BOOLEAN, prf : BOOLEAN, ext : SecretType]

(* What outlives a command. *)
WorldTyped ==
    /\ dev \in DeviceType
    /\ auth \in AuthType
    /\ store \subseteq RecordType
    /\ n \in [tok : Nat, ss : Nat, rec : Nat, cer : Nat, ev : Nat]

(* What a command keeps over its attempts. *)
CommandTyped ==
    /\ pc \in Locations
    /\ req \in RequestType
    /\ wire \in WireType
    /\ used \in Sources
    /\ rejected \in BOOLEAN
    /\ retries \in 0..RetriesCap
    /\ told \in BOOLEAN
    /\ waited \in BOOLEAN
    /\ result \in Outcomes

(* The locals of one attempt. *)
LocalsTyped ==
    /\ info \in InfoType
    /\ needs \in BOOLEAN
    /\ blocked \in BOOLEAN
    /\ op \in UvOperations \cup {"none"}
    /\ ss \in SecretType
    /\ pin \in Nat
    /\ got \in Nat
    /\ after \in {"none", "required", "force", "app"}
    /\ recId \in Nat

(* The type of the state. *)
TypeOK == WorldTyped /\ CommandTyped /\ LocalsTyped

-----------------------------------------------------------------------------
(***************************************************************************)
(* What a request asks for.                                                *)
(***************************************************************************)
WebAuthnKinds == {"mc", "ga"}

(* The getInfo response the authenticator gives now. *)
DeviceInfo ==
    [profile |-> dev.profile, clientPin |-> dev.clientPin,
     force |-> dev.force, gen |-> dev.gen]

is_preferred(level) == level \in {"required", "preferred"}

set_persistent_token_use_AnyCommand(r, i) ==
    HasStore /\ i.profile.perCredRO /\ r.kind = "cm"
set_persistent_token_use(r, i) ==
    HasStore /\ i.profile.perCredRO /\ r.kind = "cm" /\ r.readOnly

permissions_UnknownBit(r, i) ==
    CASE r.kind = "mc"   -> {"mc", "ga"}
      [] r.kind = "ga"   -> IF r.lbw THEN {"ga", "lb"} ELSE {"ga"}
      [] r.kind = "cm"   -> {"cm"}
      [] r.kind = "be"   -> {"be"}
      [] r.kind = "acfg" -> {"acfg"}
      [] OTHER           -> {}
permissions(r, i) ==
    CASE r.kind = "mc"   -> {"mc", "ga"}
      [] r.kind = "ga"   -> IF r.lbw THEN {"ga", "lbw"} ELSE {"ga"}
      [] r.kind = "cm"   -> IF set_persistent_token_use(r, i) THEN {"pcmr"} ELSE {"cm"}
      [] r.kind = "be"   -> {"be"}
      [] r.kind = "acfg" -> {"acfg"}
      [] OTHER           -> {}

permissions_rpid(r) == IF r.kind \in WebAuthnKinds THEN r.rp ELSE NoRp

Scope(r, i) == [perms |-> permissions(r, i), rp |-> permissions_rpid(r)]

needs_pin_uv_auth_token(r, i) ==
    r.kind = "ga" /\ r.lbw /\ i.profile.largeBlobs /\ is_uv_protected(i)

(* prf is the makeCredential request's PRF input, while it is still buffered. *)
needs_shared_secret(r, prf, i) ==
    \/ r.kind = "mc" /\ prf /\ i.profile.hmac
    \/ r.kind = "ga" /\ r.hmac /\ i.profile.hmac
    \/ needs_pin_uv_auth_token(r, i)

can_use_uv(r, i) == r.kind \in {"be", "acfg"} => i.profile.mgmtUv

(***************************************************************************)
(* Records whose token decrypts encIdentifier to the identifier they were  *)
(* stored with.                                                            *)
(***************************************************************************)
recognize_authenticator(i) ==
    IF HasStore /\ i.profile.perCredRO
    THEN {rec \in store : rec.gen = i.gen /\ rec.ident = "device"}
    ELSE {}

(* The cached token, when its scope serves the request. *)
get_uv_auth_token(r, i) ==
    /\ auth.tok # 0
    /\ contains(auth, Scope(r, i))

calculate_and_set_uv_auth(source, token) ==
    wire' = [wire EXCEPT !.param = [from |-> source, tok |-> token],
                         !.uvOption = FALSE]

(* Only the WebAuthn requests have an options.uv member to set. *)
ensure_uv_set == [wire EXCEPT !.uvOption = @ \/ req.kind \in WebAuthnKinds]

(* What the store may hold once the records in gone are deleted. *)
StoreAfterDelete(gone) ==
    IF LossyStore THEN {store \ lost : lost \in SUBSET gone} ELSE {store \ gone}

-----------------------------------------------------------------------------
(***************************************************************************)
(* Control.                                                                *)
(***************************************************************************)
Goto(location) == pc' = location

ClearLocals ==
    /\ info' = [info EXCEPT !.clientPin = "absent", !.force = FALSE, !.gen = 0]
    /\ needs' = FALSE
    /\ blocked' = FALSE
    /\ op' = "none"
    /\ ss' = NoSecret
    /\ pin' = 0
    /\ got' = 0
    /\ after' = "none"
    /\ recId' = 0

(* The command returns to the application. *)
Finish(outcome) ==
    /\ pc' = "idle"
    /\ result' = outcome
    /\ ClearLocals

(* The command returns an error before its request was sent. *)
Fail(outcome) ==
    /\ Finish(outcome)
    /\ UNCHANGED <<dev, auth, store, req, wire, used, rejected, retries, told,
                   waited, n>>

(***************************************************************************)
(* user_verification: getInfo, then a stored persistent token, then the    *)
(* channel's cached token, then the helper.                                *)
(***************************************************************************)

(* The application issues a command; the CTAP request is built for it. *)
Start(r) ==
    /\ pc = "idle"
    /\ n.cer < MaxCeremonies
    /\ n' = [n EXCEPT !.cer = @ + 1]
    /\ req' = r
    /\ wire' = [NoWire EXCEPT
                  !.uvOption = r.kind = "ga" /\ r.uv = "required",
                  !.prf = r.kind = "mc" /\ r.hmac /\ dev.profile.hmac]
    /\ rejected' = FALSE
    /\ retries' = 0
    /\ result' = "none"
    /\ used' = "none"
    /\ waited' = FALSE
    /\ told' = FALSE
    /\ Goto("info")
    /\ UNCHANGED <<dev, auth, store, localVars>>

FetchInfo ==
    /\ pc = "info"
    /\ info' = DeviceInfo
    /\ told' = FALSE
    /\ used' = "none"
    /\ IF req.kind = "changePin"
       THEN Goto("newPin") /\ after' = "app"
       ELSE Goto("lookup") /\ UNCHANGED after
    /\ UNCHANGED <<dev, auth, store, req, wire, needs, blocked, op, ss, pin,
                   got, recId, rejected, retries, waited, result, n>>

MayReusePersistent_AfterRejection == set_persistent_token_use(req, info)
MayReusePersistent ==
    set_persistent_token_use(req, info) /\ ~rejected

ReusePersistent ==
    /\ pc = "lookup"
    /\ MayReusePersistent
    /\ \E rec \in recognize_authenticator(info) :
          /\ calculate_and_set_uv_auth("store", rec.gen)
          /\ recId' = rec.id
    /\ used' = "persistent"
    /\ Goto("extend")
    /\ UNCHANGED <<dev, auth, store, req, info, needs, blocked, op, ss, pin, got,
                   after, rejected, retries, told, waited, result, n>>

NothingToReuse ==
    ~(MayReusePersistent /\ recognize_authenticator(info) # {})

ReuseEphemeral ==
    /\ pc = "lookup"
    /\ NothingToReuse
    /\ info.profile.proto
    /\ get_uv_auth_token(req, info)
    /\ calculate_and_set_uv_auth("cache", auth.tok)
    /\ used' = "ephemeral"
    /\ Goto("extend")
    /\ UNCHANGED <<dev, auth, store, req, localVars, rejected, retries, told,
                   waited, result, n>>

EnterHelper ==
    /\ pc = "lookup"
    /\ NothingToReuse
    /\ ~(info.profile.proto /\ get_uv_auth_token(req, info))
    /\ needs' = needs_shared_secret(req, wire.prf, info)
    /\ Goto("helper")
    /\ UNCHANGED <<dev, auth, store, req, wire, info, used, blocked, op, ss, pin,
                   got, after, recId, rejected, retries, told, waited, result, n>>

(***************************************************************************)
(* user_verification_helper, before its loop.  A required verification on  *)
(* an unprotected device first tries to have a PIN set.                    *)
(***************************************************************************)
MustSetPin_OnlyIfItCan ==
    req.uv = "required" /\ ~is_uv_protected(info) /\ exists(info.clientPin)
MustSetPin == req.uv = "required" /\ ~is_uv_protected(info)

TryToSetPin ==
    /\ pc = "helper"
    /\ MustSetPin
    /\ IF exists(info.clientPin)
       THEN Goto("newPin") /\ after' = "required"
       ELSE Goto("recheck") /\ UNCHANGED after
    /\ UNCHANGED <<dev, auth, store, req, wire, info, used, needs, blocked, op,
                   ss, pin, got, recId, rejected, retries, told, waited, result, n>>

Recheck ==
    /\ pc = "recheck"
    /\ \/ /\ is_uv_protected(DeviceInfo)
          /\ info' = DeviceInfo
          /\ Goto("early")
          /\ UNCHANGED <<dev, auth, store, req, wire, used, needs, blocked, op,
                         ss, pin, got, after, recId, rejected, retries, told,
                         waited, result, n>>
       \/ /\ ~is_uv_protected(DeviceInfo)
          /\ Fail("NoUvAvailable")

WithoutPinToSet ==
    /\ pc = "helper"
    /\ ~MustSetPin
    /\ Goto("early")
    /\ UNCHANGED <<devVars, platformVars, localVars, req, wire, used, rejected,
                   retries, told, waited, result, n>>

(* Nobody asks for verification, or nothing can provide it. *)
MaySkipVerification ==
    LET uv == req.uv # "discouraged" /\ (is_preferred(req.uv) \/ is_uv_protected(info))
    IN  IF needs
        THEN ~can_establish_shared_secret(info) /\ ~uv
        ELSE ~uv \/ (~is_uv_protected(info) /\ is_preferred(req.uv))

SkipVerification ==
    /\ pc = "early"
    /\ MaySkipVerification
    /\ used' = "none"
    /\ Goto("extend")
    /\ UNCHANGED <<devVars, platformVars, localVars, req, wire, rejected, retries,
                   told, waited, result, n>>

EnterLoop ==
    /\ pc = "early"
    /\ ~MaySkipVerification
    /\ Goto("loop")
    /\ UNCHANGED <<devVars, platformVars, localVars, req, wire, used, rejected,
                   retries, told, waited, result, n>>

(***************************************************************************)
(* The loop of user_verification_helper: choose an operation.              *)
(***************************************************************************)
UvUnavailable_IgnoringBlock == ~can_use_uv(req, info)
UvUnavailable == blocked \/ ~can_use_uv(req, info)

Offered == uv_operation(info, UvUnavailable)

LegacyUvSuffices ==
    Offered = "LegacyUv" /\ (~needs \/ ~can_establish_shared_secret(info))

(* A discouraged request is given no token when the secret alone will do. *)
Downgraded ==
    IF /\ Offered # "LegacyUv"
       /\ req.uv = "discouraged"
       /\ needs
       /\ ~needs_pin_uv_auth_token(req, info)
    THEN "OnlyForSharedSecret"
    ELSE Offered

Chosen ==
    enforce_no_mc_ga_with_client_pin(info, Downgraded, permissions(req, info),
                                     UvUnavailable)

NoOperation ==
    /\ pc = "loop"
    /\ Offered = "none"
    /\ Fail(IF blocked THEN "UvBlocked" ELSE "NoUvAvailable")

UseLegacyUv ==
    /\ pc = "loop"
    /\ LegacyUvSuffices
    /\ wire' = ensure_uv_set
    /\ used' = "legacyUv"
    /\ Goto("extend")
    /\ UNCHANGED <<dev, auth, store, localVars, req, rejected, retries, told,
                   waited, result, n>>

ForbiddenForClientPin ==
    /\ pc = "loop"
    /\ Offered # "none"
    /\ Chosen = "none"
    /\ Fail("NoUvAvailable")

MustChangePin == info.force /\ Chosen \in PinOperations

(* forcePINChange: change the PIN first, then look at getInfo again. *)
ForcePinChange ==
    /\ pc = "loop"
    /\ MustChangePin
    /\ after' = "force"
    /\ Goto("newPin")
    /\ UNCHANGED <<dev, auth, store, req, wire, info, used, needs, blocked, op,
                   ss, pin, got, recId, rejected, retries, told, waited, result, n>>

(* The PIN is asked for before the shared secret is obtained. *)
FirstStepOf(operation) ==
    IF operation \in PinOperations THEN "waitPin" ELSE "keyAgree"

ChooseOperation ==
    /\ pc = "loop"
    /\ ~LegacyUvSuffices
    /\ Chosen # "none"
    /\ ~MustChangePin
    /\ IF info.profile.proto
       THEN /\ op' = Chosen
            /\ wire' = IF Offered = "LegacyUv" THEN ensure_uv_set ELSE wire
            /\ Goto(FirstStepOf(Chosen))
            /\ UNCHANGED <<dev, auth, store, req, info, used, needs, blocked, ss,
                           pin, got, after, recId, rejected, retries, told,
                           waited, result, n>>
       ELSE Fail("Refused")

(* A typed PIN is followed by a key agreement, never by its use. *)
AfterPin_UsingSecretInHand == "getToken"
AfterPin == "keyAgree"

(* The user types the PIN that is current, or a wrong one (0), or hangs up. *)
EnterPin ==
    /\ pc = "waitPin"
    /\ pin' \in {0, dev.gen}
    /\ waited' = TRUE
    /\ Goto(AfterPin)
    /\ UNCHANGED <<dev, auth, store, req, wire, info, used, needs, blocked, op,
                   ss, got, after, recId, rejected, retries, told, result, n>>

CancelPin ==
    /\ pc \in {"waitPin", "curPin"}
    /\ Fail("PINRequired")

(***************************************************************************)
(* obtain_shared_secret.  An operation that mints no token ends here and   *)
(* leaves the secret, without a token, in the channel.                     *)
(***************************************************************************)
NewSecret == [id |-> n.ss + 1, key |-> dev.key]

ObtainSharedSecret ==
    /\ pc = "keyAgree"
    /\ ss' = NewSecret
    /\ n' = [n EXCEPT !.ss = (@ + 1) % MaxSecrets]
    /\ waited' = FALSE
    /\ IF op \in {"OnlyForSharedSecret", "LegacyUv"}
       THEN /\ auth' = [NoAuth EXCEPT !.ss = NewSecret]
            /\ used' = IF op = "LegacyUv" THEN "legacyUv" ELSE "secretOnly"
            /\ told' = told
            /\ Goto("extend")
       ELSE /\ told' = (told \/ op = "UvToken")
            /\ Goto("getToken")
            /\ UNCHANGED <<auth, used>>
    /\ UNCHANGED <<dev, store, req, wire, info, needs, blocked, op, pin, got,
                   after, recId, rejected, retries, result>>

(***************************************************************************)
(* The token request, answered by the authenticator.  A token for pcmr     *)
(* alone is the persistent token of the current PIN generation.            *)
(***************************************************************************)
WillAcceptPin ==
    /\ ss.key = dev.key
    /\ dev.clientPin = "on"
    /\ ~dev.force
    /\ pin = dev.gen

WillAcceptUv == ss.key = dev.key /\ dev.uvRetries > 0

GrantToken ==
    /\ pc = "getToken"
    /\ IF op = "UvToken" THEN WillAcceptUv ELSE WillAcceptPin
    /\ LET scope == Scope(req, info)
           by == IF op = "UvToken" THEN "uv" ELSE "pin"
       IN  IF scope.perms = {"pcmr"}
           THEN /\ got' = dev.gen
                /\ dev' = [dev EXCEPT !.uvRetries = MaxUvRetries]
                /\ n' = n
           ELSE /\ got' = n.tok + 1
                /\ n' = [n EXCEPT !.tok = @ + 1]
                /\ dev' = [dev EXCEPT
                             !.uvRetries = MaxUvRetries,
                             !.tok = [id |-> n.tok + 1, perms |-> scope.perms,
                                      rp |-> scope.rp, by |-> by]]
    /\ Goto("package")
    /\ UNCHANGED <<auth, store, req, wire, info, used, needs, blocked, op, ss,
                   pin, after, recId, rejected, retries, told, waited, result>>

(* A wrong PIN makes the authenticator renew its key agreement key. *)
RefusePin ==
    /\ pc = "getToken"
    /\ op \in PinOperations
    /\ ~WillAcceptPin
    /\ dev' = [dev EXCEPT !.key = IF pin = dev.gen THEN @ ELSE @ + 1]
    /\ Finish("PINInvalid")
    /\ UNCHANGED <<auth, store, req, wire, used, rejected, retries, told, waited, n>>

RefuseUv ==
    /\ pc = "getToken"
    /\ op = "UvToken"
    /\ \/ /\ dev.uvRetries > 0
          /\ dev' = [dev EXCEPT !.uvRetries = @ - 1]
          /\ Goto("uvRetries")
          /\ UNCHANGED blocked
       \/ /\ dev.uvRetries = 0
          /\ blocked' = TRUE
          /\ Goto("loop")
          /\ UNCHANGED dev
    /\ UNCHANGED <<auth, store, req, wire, info, used, needs, op, ss, pin, got,
                   after, recId, rejected, retries, told, waited, result, n>>

(***************************************************************************)
(* UVInvalid: ask for the attempts left.  None left means blocked, and the *)
(* loop falls back to the PIN; any other answer, or none, is an error.     *)
(***************************************************************************)
AskUvRetries ==
    /\ pc = "uvRetries"
    /\ \/ /\ dev.uvRetries = 0
          /\ blocked' = TRUE
          /\ Goto("loop")
          /\ UNCHANGED <<dev, auth, store, req, wire, info, used, needs, op, ss,
                         pin, got, after, recId, rejected, retries, told, waited,
                         result, n>>
       \/ Fail("UVInvalid")

(***************************************************************************)
(* Package the token.  A persistent one is stored under a fresh id, after  *)
(* the records of the same device identifier, and kept out of the cache.   *)
(***************************************************************************)
reap_superseded_records(ident) ==
    {rec \in store : rec.ident = "device" /\ ident = "device"}

store_minted_token(generation) ==
    LET ident == IF info.gen = generation THEN "device" ELSE "garbage"
        record == [id |-> n.rec + 1, gen |-> generation, ident |-> ident]
        left == StoreAfterDelete(reap_superseded_records(ident))
    IN  {records \cup {record} : records \in left}
          \cup (IF LossyStore THEN left ELSE {})

Persist ==
    /\ store' \in store_minted_token(got)
    /\ n' = [n EXCEPT !.rec = @ + 1]
    /\ UNCHANGED auth

(* The scope the cached token is filed under is the one it was asked for. *)
CachedScope_WithoutRp == [perms |-> permissions(req, info), rp |-> NoRp]
CachedScope == Scope(req, info)

Cache ==
    /\ auth' = [tok |-> got, perms |-> CachedScope.perms, rp |-> CachedScope.rp,
                ss |-> ss]
    /\ UNCHANGED <<store, n>>

PackageToken ==
    /\ pc = "package"
    /\ IF set_persistent_token_use(req, info) THEN Persist ELSE Cache
    /\ calculate_and_set_uv_auth(
          IF set_persistent_token_use(req, info) THEN "store" ELSE "fresh", got)
    /\ used' = IF op = "UvToken" THEN "newUv" ELSE "newPin"
    /\ Goto("extend")
    /\ UNCHANGED <<dev, req, localVars, rejected, retries, told, waited, result>>

(***************************************************************************)
(* The caller of user_verification: encrypt the PRF or hmac-secret input   *)
(* under the channel's shared secret, announce the touch, send the request *)
(* and handle its errors.                                                  *)
(***************************************************************************)

(* makeCredential consumes its buffered input, getAssertion keeps it. *)
calculate_hmac_secret_mc ==
    IF wire.prf /\ auth # NoAuth
    THEN [wire EXCEPT !.prf = FALSE, !.ext = auth.ss]
    ELSE wire

calculate_hmac_Once ==
    IF req.hmac /\ auth # NoAuth /\ wire.ext = NoSecret
    THEN [wire EXCEPT !.ext = auth.ss] ELSE wire
calculate_hmac ==
    IF req.hmac /\ auth # NoAuth THEN [wire EXCEPT !.ext = auth.ss] ELSE wire

(* Built-in UV already asked for the touch. *)
AnnouncesPresence_NotForLegacyUv ==
    req.kind \in WebAuthnKinds /\ used \notin {"newUv", "legacyUv"}
AnnouncesPresence == req.kind \in WebAuthnKinds /\ used # "newUv"

PrepareSend ==
    /\ pc = "extend"
    /\ wire' = CASE req.kind = "mc" -> calculate_hmac_secret_mc
                 [] req.kind = "ga" -> calculate_hmac
                 [] OTHER           -> wire
    /\ told' = (told \/ AnnouncesPresence)
    /\ Goto("send")
    /\ UNCHANGED <<dev, auth, store, req, localVars, used, rejected, retries,
                   waited, result, n>>

(* What the authenticator checks before it runs the command. *)
ParamIsValid ==
    CASE wire.param.from = "none"  -> TRUE
      [] wire.param.from = "store" -> wire.param.tok = dev.gen
      [] OTHER                     -> /\ wire.param.tok = dev.tok.id
                                      /\ contains(dev.tok, Scope(req, info))

ExtensionIsValid == wire.ext = NoSecret \/ wire.ext.key = dev.key

Accept ==
    /\ pc = "send"
    /\ ParamIsValid
    /\ ExtensionIsValid
    /\ Finish("ok")
    /\ UNCHANGED <<dev, auth, store, req, wire, used, rejected, retries, told,
                   waited, n>>

(* An authenticator may refuse a stored token whatever its getInfo says. *)
RejectsAuth ==
    /\ pc = "send"
    /\ ~ParamIsValid \/ ~ExtensionIsValid \/ wire.param.from = "store"

OneMoreRetry == IF retries < RetriesCap THEN retries + 1 ELSE retries

(* The cached token was refused: it is cleared and the loop runs again. *)
EvictsCache_NotHandled == FALSE
EvictsCache == used = "ephemeral"

(* The stored token was refused: its record is deleted. *)
EvictsRecord_NotHandled == FALSE
EvictsRecord == used = "persistent"

clear_uv_auth_token_store == NoAuth

(* PINAuthInvalid on the cached token: forget it and run the loop again. *)
RetryWithoutCache ==
    /\ RejectsAuth
    /\ EvictsCache
    /\ auth' = clear_uv_auth_token_store
    /\ retries' = OneMoreRetry
    /\ Goto("info")
    /\ UNCHANGED <<dev, store, req, wire, localVars, used, rejected, told,
                   waited, result, n>>

(* PINAuthInvalid on a stored token: evict its record, mark, run again. *)
RetryWithoutRecord ==
    /\ RejectsAuth
    /\ EvictsRecord
    /\ store' \in StoreAfterDelete({rec \in store : rec.id = recId})
    /\ rejected' = (rejected \/ req.kind = "cm")
    /\ retries' = OneMoreRetry
    /\ recId' = 0
    /\ Goto("info")
    /\ UNCHANGED <<dev, auth, req, wire, info, needs, blocked, op, ss, pin, got,
                   after, used, told, waited, result, n>>

RejectFresh ==
    /\ RejectsAuth
    /\ ~EvictsCache /\ ~EvictsRecord
    /\ Fail("PINAuthInvalid")

(* Any other error, UVInvalid included, ends the command. *)
OtherError ==
    /\ pc = "send"
    /\ \E outcome \in {"Refused", "UVInvalid"} : Fail(outcome)

-----------------------------------------------------------------------------
(***************************************************************************)
(* change_pin_internal and try_to_set_pin.                                 *)
(***************************************************************************)
RefuseNewPin ==
    /\ pc = "newPin"
    /\ IF after = "app"
       THEN Fail("Refused")
       ELSE /\ n.ev < MaxEvents
            /\ n' = [n EXCEPT !.ev = @ + 1]
            /\ UNCHANGED <<dev, auth, store, pc, req, wire, localVars, used,
                           rejected, retries, told, waited, result>>

DeclineNewPin ==
    /\ pc = "newPin"
    /\ after # "app"
    /\ Fail("Cancelled")

TakeNewPin ==
    /\ pc = "newPin"
    /\ info.profile.proto /\ exists(info.clientPin)
    /\ LET known == {rec.id : rec \in recognize_authenticator(info)}
       IN  recId' \in IF known = {} THEN {0} ELSE known
    /\ waited' = TRUE
    /\ Goto(IF enabled(info.clientPin) THEN "curPin" ELSE "setKey")
    /\ UNCHANGED <<dev, auth, store, req, wire, info, used, needs, blocked, op,
                   ss, pin, got, after, rejected, retries, told, result, n>>

CannotSetPin ==
    /\ pc = "newPin"
    /\ ~(info.profile.proto /\ exists(info.clientPin))
    /\ Fail("Refused")

EnterCurrentPin ==
    /\ pc = "curPin"
    /\ pin' \in {0, dev.gen}
    /\ waited' = TRUE
    /\ Goto("setKey")
    /\ UNCHANGED <<dev, auth, store, req, wire, info, used, needs, blocked, op,
                   ss, got, after, recId, rejected, retries, told, result, n>>

ObtainSecretForPin ==
    /\ pc = "setKey"
    /\ ss' = [id |-> 0, key |-> dev.key]
    /\ waited' = FALSE
    /\ Goto("setPin")
    /\ UNCHANGED <<dev, auth, store, req, wire, info, used, needs, blocked, op,
                   pin, got, after, recId, rejected, retries, told, result, n>>

(* A PIN is changed with the current one, and set only where there is none. *)
PinIsAccepted ==
    /\ ss.key = dev.key
    /\ IF enabled(info.clientPin)
       THEN dev.clientPin = "on" /\ pin = dev.gen
       ELSE dev.clientPin = "off"

(* A new PIN invalidates every token, the persistent one included. *)
WithNewPin(d) ==
    [d EXCEPT !.clientPin = "on", !.force = FALSE, !.gen = @ + 1, !.tok = NoToken]

SetPin ==
    /\ pc = "setPin"
    /\ PinIsAccepted
    /\ dev' = WithNewPin(dev)
    /\ Goto("evict")
    /\ UNCHANGED <<auth, store, req, wire, localVars, used, rejected, retries,
                   told, waited, result, n>>

PinPolicyViolation ==
    /\ pc = "setPin"
    /\ PinIsAccepted
    /\ IF after = "app"
       THEN Fail("Refused")
       ELSE /\ n.ev < MaxEvents
            /\ n' = [n EXCEPT !.ev = @ + 1]
            /\ Goto("newPin")
            /\ UNCHANGED <<dev, auth, store, req, wire, localVars, used, rejected,
                           retries, told, waited, result>>

CurrentPinRefused ==
    /\ pc = "setPin"
    /\ ~PinIsAccepted
    /\ dev' = [dev EXCEPT !.key = @ + 1]
    /\ Finish("PINInvalid")
    /\ UNCHANGED <<auth, store, req, wire, used, rejected, retries, told, waited, n>>

(* The record recognised before the change is evicted after it. *)
EvictRecord ==
    /\ pc = "evict"
    /\ store' \in StoreAfterDelete({rec \in store : rec.id = recId})
    /\ IF after = "app"
       THEN Finish("ok")
       ELSE /\ Goto(IF after = "required" THEN "recheck" ELSE "reloop")
            /\ after' = "none"
            /\ recId' = 0
            /\ UNCHANGED <<info, needs, blocked, op, ss, pin, got, result>>
    /\ UNCHANGED <<dev, auth, req, wire, used, rejected, retries, told, waited, n>>

LoopAgain ==
    /\ pc = "reloop"
    /\ info' = DeviceInfo
    /\ Goto("loop")
    /\ UNCHANGED <<dev, auth, store, req, wire, used, needs, blocked, op, ss, pin,
                   got, after, recId, rejected, retries, told, waited, result, n>>

(* A command to the authenticator fails in the transport, or times out. *)
TransportError ==
    /\ pc \in {"info", "keyAgree", "getToken", "send", "setKey", "setPin",
               "recheck", "reloop"}
    /\ Fail("Transport")

-----------------------------------------------------------------------------
(***************************************************************************)
(* The surroundings: none of these is the platform's doing.                *)
(***************************************************************************)
Disturb == n.ev < MaxEvents /\ n' = [n EXCEPT !.ev = @ + 1]

DeviceOnly ==
    /\ Disturb
    /\ UNCHANGED <<platformVars, localVars, pc, req, wire, used, rejected,
                   retries, told, waited, result>>

PowerCycle ==
    /\ DeviceOnly
    /\ dev' = [dev EXCEPT !.key = @ + 1, !.tok = NoToken]

TokenExpires ==
    /\ DeviceOnly
    /\ dev.tok # NoToken
    /\ dev' = [dev EXCEPT !.tok = NoToken]

(* Another platform, or another process, sets or changes the PIN. *)
ForeignPinChange ==
    /\ DeviceOnly
    /\ exists(dev.clientPin)
    /\ dev' = WithNewPin(dev)

ForeignForceChange ==
    /\ DeviceOnly
    /\ dev.clientPin = "on"
    /\ ~dev.force
    /\ dev' = [dev EXCEPT !.force = TRUE]

(* The process dies: the channel is gone, the device and the store are not. *)
Crash ==
    /\ Disturb
    /\ pc # "idle" \/ auth # NoAuth
    /\ auth' = NoAuth
    /\ Finish("Crashed")
    /\ UNCHANGED <<dev, store, req, wire, used, rejected, retries, told, waited>>

Environment ==
    \/ PowerCycle
    \/ TokenExpires
    \/ ForeignPinChange
    \/ ForeignForceChange
    \/ Crash

UserAnswers ==
    \/ EnterPin \/ CancelPin \/ EnterCurrentPin
    \/ TakeNewPin \/ RefuseNewPin \/ DeclineNewPin

Program ==
    \/ FetchInfo \/ ReusePersistent \/ ReuseEphemeral \/ EnterHelper
    \/ TryToSetPin \/ Recheck \/ WithoutPinToSet
    \/ SkipVerification \/ EnterLoop
    \/ NoOperation \/ UseLegacyUv \/ ForbiddenForClientPin \/ ForcePinChange
    \/ ChooseOperation \/ ObtainSharedSecret
    \/ GrantToken \/ RefusePin \/ RefuseUv \/ AskUvRetries \/ PackageToken
    \/ PrepareSend \/ Accept \/ RetryWithoutCache \/ RetryWithoutRecord
    \/ RejectFresh \/ OtherError
    \/ CannotSetPin \/ ObtainSecretForPin \/ SetPin \/ PinPolicyViolation
    \/ CurrentPinRefused \/ EvictRecord \/ LoopAgain \/ TransportError

Init ==
    /\ \E p \in Profiles, clientPin \in Option, force \in BOOLEAN :
          /\ force => clientPin = "on"
          /\ dev = [profile |-> p, clientPin |-> clientPin, force |-> force,
                    uvRetries |-> MaxUvRetries, key |-> 1, gen |-> 1,
                    tok |-> NoToken]
          /\ info = [profile |-> p, clientPin |-> "absent", force |-> FALSE, gen |-> 0]
    /\ auth = NoAuth /\ store = {}
    /\ pc = "idle" /\ req = NoRequest /\ wire = NoWire
    /\ used = "none" /\ needs = FALSE /\ blocked = FALSE /\ op = "none"
    /\ ss = NoSecret /\ pin = 0 /\ got = 0 /\ after = "none" /\ recId = 0
    /\ rejected = FALSE /\ retries = 0
    /\ told = FALSE /\ waited = FALSE /\ result = "none"
    /\ n = [tok |-> 0, ss |-> 0, rec |-> 0, cer |-> 0, ev |-> 0]

(* The application asks for nothing.  Anywhere else, standing still is a    *)
(* deadlock.                                                               *)
Rest == pc = "idle" /\ UNCHANGED vars

Next ==
    \/ \E r \in Requests : Start(r)
    \/ Rest
    \/ Program
    \/ UserAnswers
    \/ Environment

Spec == Init /\ [][Next]_vars

(***************************************************************************)
(* Every command to the authenticator is answered or times out, and the    *)
(* user answers a prompt or hangs up.                                      *)
(***************************************************************************)
FairSpec == Spec /\ WF_vars(Program) /\ WF_vars(UserAnswers)

(***************************************************************************)
(* Properties.                                                             *)
(***************************************************************************)

(* A cached or stored token is reused only on the first attempt of a       *)
(* command: once one was rejected, the retry verifies the user afresh, so  *)
(* the loop around handle_errors! runs at most twice, whether or not the   *)
(* store managed to delete the record.                                     *)
ReuseOnlyOnFirstAttempt ==
    /\ retries <= 1
    /\ retries = 1 /\ pc \in {"extend", "send"} => used \notin Reused

(* A stale token is the platform's business: a command never reports       *)
(* PINAuthInvalid to the application because of a token it reused.         *)
StaleTokenNeverFailsCommand ==
    pc = "idle" /\ result = "PINAuthInvalid" => used \notin Reused

(* Both of them.                                                           *)
ReuseIsHarmless == ReuseOnlyOnFirstAttempt /\ StaleTokenNeverFailsCommand

(* The channel's record of what its cached token may do is what the        *)
(* authenticator granted, and pcmr tokens never enter that cache.          *)
CacheMatchesGrant ==
    /\ "pcmr" \notin auth.perms
    /\ auth.tok # 0 /\ auth.tok = dev.tok.id =>
          auth.perms = dev.tok.perms /\ auth.rp = dev.tok.rp

(* With noMcGaPermissionsWithClientPin no PIN ever mints an mc or ga       *)
(* token, not even when built-in UV is blocked halfway through.            *)
PinNeverMintsMcGa ==
    dev.profile.noMcGa /\ dev.tok.by = "pin" => dev.tok.perms \cap {"mc", "ga"} = {}

(* A PIN leaves the platform under a shared secret that was obtained after *)
(* the user had typed it, so that the secret cannot expire meanwhile.      *)
PinSentUnderFreshSecret ==
    (pc = "getToken" /\ op \in PinOperations) \/ pc = "setPin" => ~waited

(* A makeCredential or getAssertion request that waits for a touch was     *)
(* announced with PresenceRequired in this very attempt.                   *)
TouchIsAnnounced ==
    pc = "send" /\ req.kind \in WebAuthnKinds => told

(* A request for which verification is required goes out without any only  *)
(* after built-in UV was blocked during the command itself.                *)
CarriesVerification == wire.param # NoParam \/ wire.uvOption

UnverifiedOnlyWhenBlocked ==
    pc = "send" /\ req.kind \in WebAuthnKinds /\ req.uv = "required"
        => CarriesVerification \/ blocked


(* The PRF or hmac-secret input of a request is encrypted under the        *)
(* channel's current shared secret, the one its output is decrypted with.  *)
ExtensionUnderChannelSecret ==
    pc = "send" /\ wire.ext # NoSecret => wire.ext = auth.ss

(* There is one record per device: minting replaces what was there.        *)
OneRecordPerDevice ==
    \A r1, r2 \in store : r1.ident = "device" /\ r2.ident = "device" => r1 = r2

(* The token of a stored record is only ever sent with a credential        *)
(* management command that changes nothing (credential_management.rs:312). *)
StoredTokenOnlyReads ==
    pc = "send" /\ wire.param.from = "store" => req.kind = "cm" /\ req.readOnly

(* Every command returns to the application.                               *)
CommandReturns == pc # "idle" ~> pc = "idle"

-----------------------------------------------------------------------------
(***************************************************************************)
(* The ceremony implements CommandPromise: a command is ready while its    *)
(* request is being completed and sent, and preparing before that.         *)
(***************************************************************************)
Phase ==
    IF pc = "idle" THEN "idle"
    ELSE IF pc \in {"extend", "send"} THEN "ready" ELSE "preparing"

(* A source is committed to once the command is ready. *)
Source == IF Phase = "ready" THEN used ELSE "none"

Promise ==
    INSTANCE CommandPromise WITH
        Fresh <- Sources \ Reused,
        Outcome <- Outcomes,
        StaleToken <- "PINAuthInvalid",
        phase <- Phase,
        source <- Source,
        tries <- retries,
        outcome <- result

(* Retried at most once, only after a reused token was rejected, and never *)
(* failing because of one (webauthn.rs, handle_errors!).                   *)
KeepsPromise == Promise!Spec

=============================================================================
