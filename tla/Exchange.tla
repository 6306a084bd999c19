------------------------------- MODULE Exchange -------------------------------
(***************************************************************************)
(* What a channel promises of its request and answer calls                 *)
(* (transport/channel.rs, trait Channel: apdu_send and apdu_recv,          *)
(* cbor_send and cbor_recv).                                               *)
(*                                                                         *)
(* Calls are made one at a time and each ends once.  A call that succeeds  *)
(* is given one answer of the device.  Transports without a message number *)
(* cannot promise more than this: it is the call's own answer, unless an   *)
(* earlier call failed without taking the answer it was owed, and no       *)
(* answer is given twice.  After such a failure the calls may go on being  *)
(* one answer behind for good.                                             *)
(***************************************************************************)
EXTENDS Naturals

CONSTANT MaxCalls    \* calls are numbered from 1

VARIABLES
    result,   \* per call: "none" before it ends, "ok" or "failed"
    given     \* per call that succeeded, the call whose answer it was given

vars == <<result, given>>

Call == 1..MaxCalls

Init ==
    /\ result = [c \in Call |-> "none"]
    /\ given = [c \in Call |-> 0]

(* The call that is under way: the first that has not ended. *)
Current(c) == result[c] = "none" /\ \A d \in Call : d < c => result[d] # "none"

(* An answer c may take: its own, or one that no call before has taken,    *)
(* its own call having failed or taken an older one.                       *)
ForTaking(a, c) == a <= c /\ \A d \in Call : given[d] # a

Succeed(c) ==
    /\ Current(c)
    /\ result' = [result EXCEPT ![c] = "ok"]
    /\ \E a \in Call : ForTaking(a, c) /\ given' = [given EXCEPT ![c] = a]

Fail(c) ==
    /\ Current(c)
    /\ result' = [result EXCEPT ![c] = "failed"]
    /\ UNCHANGED given

Next == \E c \in Call : Succeed(c) \/ Fail(c)

Spec == Init /\ [][Next]_vars

TypeOK ==
    /\ result \in [Call -> {"none", "ok", "failed"}]
    /\ given \in [Call -> {0} \cup Call]

(* No answer is given twice, and none before it was asked for.             *)
NoAnswerTwice ==
    \A c, d \in Call : given[c] = given[d] /\ given[c] # 0 => c = d /\ given[c] <= c

(* As long as no call failed, every call has been given its own answer.    *)
OwnUntilFailure ==
    \A c \in Call :
        (result[c] = "ok" /\ \A d \in Call : d < c => result[d] = "ok") => given[c] = c
===============================================================================
