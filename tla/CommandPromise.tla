---------------------------- MODULE CommandPromise ----------------------------
(***************************************************************************)
(* What a user-verified command promises the application, whatever the     *)
(* authenticator, the token caches and other platforms do: it is           *)
(* authorised from some source, delivered, and retried at most once, and   *)
(* then only because a token it had reused turned out to be stale.  A      *)
(* stale reused token is never the application's problem.                  *)
(***************************************************************************)
EXTENDS Naturals

CONSTANTS
    Fresh,         \* sources that verify the user, or need not
    Reused,        \* sources that reuse a token of an earlier command
    Outcome,       \* what a command may return
    StaleToken     \* the outcome that reports a token as invalid

VARIABLES phase, source, tries, outcome

vars == <<phase, source, tries, outcome>>

Init == phase = "idle" /\ source = "none" /\ tries = 0 /\ outcome = "none"

Begin ==
    /\ phase = "idle"
    /\ phase' = "preparing"
    /\ source' = "none" /\ tries' = 0 /\ outcome' = "none"

Authorise ==
    /\ phase = "preparing"
    /\ phase' = "ready"
    /\ source' \in Fresh \cup (IF tries = 0 THEN Reused ELSE {})
    /\ UNCHANGED <<tries, outcome>>

Retry ==
    /\ phase = "ready"
    /\ source \in Reused
    /\ tries = 0
    /\ phase' = "preparing"
    /\ source' = "none" /\ tries' = 1
    /\ UNCHANGED outcome

Return ==
    /\ phase # "idle"
    /\ phase' = "idle"
    /\ source' = "none"
    /\ outcome' \in Outcome
    /\ source \in Reused => outcome' # StaleToken
    /\ UNCHANGED tries

(* The channel is dropped while no command runs. *)
Drop ==
    /\ phase = "idle"
    /\ outcome' \in Outcome \ {StaleToken}
    /\ UNCHANGED <<phase, source, tries>>

Next == Begin \/ Authorise \/ Retry \/ Return \/ Drop

Spec == Init /\ [][Next]_vars

=============================================================================
