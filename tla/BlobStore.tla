------------------------------- MODULE BlobStore -------------------------------
(***************************************************************************)
(* What the largeBlob extension promises a caller: a store that keeps, for *)
(* each credential, the entries under its largeBlobKey.  A read is given   *)
(* what the store held at one moment of the call.  A write or a deletion   *)
(* changes the entries of one credential and nothing else, in one step, on *)
(* the store it looked at; it may fail at any time, before that step or    *)
(* after it, and reports success only after it.                            *)
(*                                                                         *)
(* Other platforms write to the same store.  A call that one of them       *)
(* disturbs works on a store that has since changed, or on an empty one:   *)
(* the store promises no more to a disturbed call.                         *)
(***************************************************************************)
EXTENDS Naturals, Sequences

CONSTANTS
    Owners,     \* the keys, and the mark of the elements no key opens
    Opaque,     \* a store nobody can read
    NoKey,
    NoBlob

VARIABLES
    store,      \* the entries of each owner, in order
    call,       \* the call in progress: [op, creds, blob]
    pc,         \* "idle", "fetch", "set"
    past,       \* the stores there were since the call began
    looked,     \* the store a write works on
    answers,    \* the outputs of the last call
    others      \* the changes of the other platforms so far

svars == <<store, call, pc, past, looked, answers, others>>

Empty == [o \in Owners |-> <<>>]

(* What key reads from the store s: its first readable entry.              *)
ReadFrom(s, key) ==
    IF s = Opaque \/ key = NoKey THEN NoBlob
    ELSE LET readable == {i \in DOMAIN s[key] : s[key][i].form # "oversize"}
             first == CHOOSE i \in readable : \A j \in readable : i <= j
         IN  IF readable = {} \/ s[key][first].form = "broken" THEN NoBlob
             ELSE s[key][first].blob

Written(w) == <<[blob |-> NoBlob, written |-> w]>>
Failed(c) ==
    IF c.op = "read" THEN [i \in DOMAIN c.creds |-> [blob |-> NoBlob, written |-> "none"]]
    ELSE Written("false")

Init ==
    /\ pc = "idle"
    /\ answers = <<>>
    /\ past = {}
    /\ looked = Empty
    /\ others = 0

Return(results) ==
    /\ pc' = "idle" /\ past' = {} /\ looked' = Empty
    /\ answers' = results

Begin ==
    /\ pc = "idle"
    /\ pc' = "fetch" /\ past' = {store} /\ answers' = <<>>
    /\ UNCHANGED <<store, looked, others>>

(* A call that needs nothing from the device fails at once.                *)
Refuse ==
    /\ pc = "idle"
    /\ Return(Failed(call'))
    /\ UNCHANGED <<store, others>>

(* A read gives what one of the stores held that there were meanwhile.     *)
Answer ==
    /\ pc = "fetch" /\ call.op = "read"
    /\ \E s \in past :
           Return([i \in DOMAIN call.creds |->
                    [blob |-> ReadFrom(s, call.creds[i]), written |-> "none"]])
    /\ UNCHANGED <<store, call, others>>

Look ==
    /\ pc = "fetch" /\ call.op # "read"
    /\ pc' = "set"
    /\ looked' \in past \cup IF \E s, t \in past : s # t THEN {Empty} ELSE {}
    /\ looked' # Opaque
    /\ UNCHANGED <<store, call, past, answers, others>>

(* The change, with its answer or without one.                             *)
Change ==
    /\ pc = "set"
    /\ \E w \in {"true", "false"} : Return(Written(w))
    /\ store' = [looked EXCEPT ![call.creds[1]] =
                    IF call.op = "delete" THEN <<>>
                    ELSE <<[key |-> call.creds[1], blob |-> call.blob, form |-> "sound"]>>]
    /\ UNCHANGED <<call, others>>

Fail ==
    /\ pc # "idle"
    /\ Return(Failed(call))
    /\ UNCHANGED <<store, call, others>>

Disturb ==
    /\ others' = others + 1
    /\ past' = IF pc = "fetch" THEN past \cup {store'} ELSE past
    /\ UNCHANGED <<call, pc, looked, answers>>

Next == Begin \/ Refuse \/ Answer \/ Look \/ Change \/ Fail \/ Disturb

Spec == Init /\ [][Next]_svars
===============================================================================
