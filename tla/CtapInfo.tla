------------------------------- MODULE CtapInfo -------------------------------
(***************************************************************************)
(* What libwebauthn derives from an authenticatorGetInfo response before   *)
(* it chooses how to verify the user (proto/ctap2/model/get_info.rs), and  *)
(* the scope check on a pinUvAuthToken (transport/channel.rs).             *)
(*                                                                         *)
(* An option of getInfo is absent, present and false, or present and true. *)
(***************************************************************************)
EXTENDS Naturals

Option == {"absent", "off", "on"}

exists(option) == option # "absent"

enabled(option) == option = "on"

(***************************************************************************)
(* The fixed part of a device's getInfo: options that no command of the    *)
(* ceremony changes.  mgmtUv stands for uvBioEnroll and uvAcfg, perCredRO  *)
(* for perCredMgmtRO together with an encIdentifier, hmac for the          *)
(* hmac-secret and hmac-secret-mc extensions, proto for a                  *)
(* pinUvAuthProtocols list that holds a supported protocol.                *)
(***************************************************************************)
Profile ==
    [uv : Option, pinUvAuthToken : Option, noMcGa : BOOLEAN, mgmtUv : BOOLEAN,
     perCredRO : BOOLEAN, hmac : BOOLEAN, largeBlobs : BOOLEAN, proto : BOOLEAN]

(***************************************************************************)
(* One getInfo response: the profile, the clientPin option, forcePINChange *)
(* and the generation of the persistent token encIdentifier is encrypted   *)
(* under.                                                                  *)
(***************************************************************************)
InfoType == [profile : Profile, clientPin : Option, force : BOOLEAN, gen : Nat]

UvOperations ==
    {"UvToken", "PinTokenWithPermissions", "PinToken", "OnlyForSharedSecret",
     "LegacyUv"}

PinOperations == {"PinTokenWithPermissions", "PinToken"}

Permission == {"mc", "ga", "cm", "be", "lbw", "acfg", "pcmr"}

(* Protected by some form of user verification. *)
is_uv_protected(info) ==
    enabled(info.profile.uv) \/ enabled(info.clientPin)

can_establish_shared_secret(info) ==
    \/ exists(info.clientPin)
    \/ exists(info.profile.uv) /\ enabled(info.profile.pinUvAuthToken)

(***************************************************************************)
(* The operation that gets the user verified, or "none".  The code's       *)
(* nested branches are written as disjoint cases.                          *)
(***************************************************************************)
uv_operation(info, uv_blocked) ==
    LET builtInUv == enabled(info.profile.uv) /\ ~uv_blocked
        withToken == enabled(info.profile.pinUvAuthToken)
    IN  CASE builtInUv /\ withToken                       -> "UvToken"
          [] builtInUv /\ ~withToken                      -> "LegacyUv"
          [] ~builtInUv /\ enabled(info.clientPin)        ->
                 IF withToken THEN "PinTokenWithPermissions" ELSE "PinToken"
          [] ~builtInUv /\ info.clientPin = "off"         -> "OnlyForSharedSecret"
          [] ~builtInUv /\ info.clientPin = "absent"      ->
                 IF withToken THEN "OnlyForSharedSecret" ELSE "none"

(***************************************************************************)
(* noMcGaPermissionsWithClientPin: a clientPin token must not carry mc or  *)
(* ga.  "none" stands for the NoUvAvailable error.                         *)
(***************************************************************************)
enforce_no_mc_ga_NotForPinToken(info, operation, permissions, uv_unavailable) ==
    IF \/ operation # "PinTokenWithPermissions"
       \/ permissions \cap {"mc", "ga"} = {}
       \/ ~info.profile.noMcGa
    THEN operation
    ELSE IF enabled(info.profile.uv) /\ ~uv_unavailable THEN "UvToken" ELSE "none"

enforce_no_mc_ga_with_client_pin(info, operation, permissions, uv_unavailable) ==
    IF \/ operation \notin PinOperations
       \/ permissions \cap {"mc", "ga"} = {}
       \/ ~info.profile.noMcGa
    THEN operation
    ELSE IF enabled(info.profile.uv) /\ ~uv_unavailable THEN "UvToken" ELSE "none"

(***************************************************************************)
(* A token granted for one scope serves a request when the RP ID is the    *)
(* same and every requested permission was granted.                        *)
(***************************************************************************)
contains(granted, requested) ==
    /\ granted.rp = requested.rp
    /\ requested.perms \subseteq granted.perms

=============================================================================
