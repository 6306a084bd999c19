------------------------- MODULE MCUserVerification -------------------------
(***************************************************************************)
(* Instances of UserVerification for TLC.  A run picks a family of         *)
(* authenticators and a family of commands by name, so that the state      *)
(* spaces stay small and each run asks one question.                       *)
(***************************************************************************)
EXTENDS UserVerification

CONSTANTS rpA, rpB,
          Family,      \* the authenticators of this run
          Commands     \* the commands of this run

MCRp == {rpA, rpB}

Base ==
    [uv |-> "absent", pinUvAuthToken |-> "on", noMcGa |-> FALSE, mgmtUv |-> FALSE,
     perCredRO |-> FALSE, hmac |-> TRUE, largeBlobs |-> TRUE, proto |-> TRUE]

(* All the ways to verify a user: PIN, built-in UV, both, legacy, none. *)
AnyDevice ==
    {[Base EXCEPT !.uv = uv, !.pinUvAuthToken = t, !.noMcGa = g, !.hmac = h] :
        uv \in Option, t \in {"absent", "on"}, g \in BOOLEAN, h \in BOOLEAN}
    \cup {[Base EXCEPT !.proto = FALSE]}

BiometricDevice == {[Base EXCEPT !.uv = "on"]}

Keys ==
    {[Base EXCEPT !.uv = uv] : uv \in {"absent", "on"}}

PersistentDevice == {[Base EXCEPT !.perCredRO = TRUE]}

MCProfiles ==
    CASE Family = "any"        -> AnyDevice \cup PersistentDevice
      [] Family = "keys"       -> Keys \cup PersistentDevice
      [] Family = "biometric"  -> BiometricDevice

Request(kind, uv, rp) ==
    [kind |-> kind, uv |-> uv, rp |-> rp, hmac |-> FALSE, lbw |-> FALSE,
     readOnly |-> FALSE]

MCRequests ==
    CASE Commands = "one-of-each" ->
             {[Request(k, u, rpA) EXCEPT !.hmac = h] :
                  k \in WebAuthnKinds, u \in UvLevel, h \in BOOLEAN}
             \cup {[Request("ga", u, rpA) EXCEPT !.lbw = TRUE] : u \in UvLevel}
             \cup {Request(k, "preferred", NoRp) : k \in {"cm", "be", "changePin"}}
             \cup {Request("acfg", "required", NoRp),
                   [Request("cm", "preferred", NoRp) EXCEPT !.readOnly = TRUE]}
      [] Commands = "sequences" ->
             {[Request("ga", "required", r) EXCEPT !.hmac = TRUE] : r \in {rpA, rpB}}
             \cup {Request("mc", "preferred", rpA), Request("changePin", "preferred", NoRp)}
             \cup {[Request("cm", "preferred", NoRp) EXCEPT !.readOnly = r] : r \in BOOLEAN}
      [] Commands = "prf" ->
             {[Request("mc", "required", rpA) EXCEPT !.hmac = TRUE]}

(* One command of any kind on any device, and on a device with persistent  *)
(* tokens several management commands and PIN changes.                     *)
Admitted(r) ==
    IF dev.profile.perCredRO THEN r.kind \in {"cm", "changePin"} ELSE n.cer = 0

MCNext ==
    \/ \E r \in Requests : Admitted(r) /\ Start(r)
    \/ Rest
    \/ Program
    \/ UserAnswers
    \/ Environment

OneOfEach ==
    Init /\ [][MCNext]_vars /\ WF_vars(Program) /\ WF_vars(UserAnswers)
=============================================================================
