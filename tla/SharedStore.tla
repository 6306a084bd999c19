------------------------------ MODULE SharedStore ------------------------------
(***************************************************************************)
(* Several channels, of one process or of several, over one store of       *)
(* persistent tokens: each recognises its authenticator among the records, *)
(* uses the token, drops what was refused, and mints and stores another;   *)
(* each call into the store is a step of its own, and the channels take    *)
(* their steps in any order.  UserVerification.tla has the ceremony of one *)
(* channel in full.                                                        *)
(***************************************************************************)
EXTENDS Naturals, FiniteSets

CONSTANTS
    Channels, Authenticators,
    DeviceOf,       \* the authenticator at the end of each channel
    ModelOf,        \* its aaguid
    Absent,        \* no record, no token, no recovered identifier
    MaxCommands     \* bound of the exploration

(* The assumption on these; asserted where they get their values. *)
SharedStoreAssumption ==
    /\ IsFiniteSet(Channels)
    /\ DeviceOf \in [Channels -> Authenticators]
    /\ Absent \notin Authenticators
    /\ MaxCommands \in Nat

VARIABLES
    token,      \* the persistent token each authenticator honours
    store,      \* records: [id, token, device, aaguid]
    work,       \* what each channel is at
    n           \* commands and records so far

storevars == <<token, store, work, n>>

(* A token is known by its authenticator and by how many there were before *)
(* it: it is regenerated when the PIN changes.                             *)
Token(d, k) == [of |-> d, nr |-> k]

Record == [id : 1..MaxCommands * 2, token : [of : Authenticators, nr : Nat],
           device : Authenticators \cup {Absent}, aaguid : {ModelOf[d] : d \in Authenticators}]

Idle == [pc |-> "idle", command |-> "none", info |-> Absent, record |-> Absent,
         token |-> Absent, todo |-> {}, rejected |-> FALSE, outcome |-> "none"]

At(c, pc) == work[c].pc = pc
Become(c, w) == work' = [work EXCEPT ![c] = w]
Done(c, outcome) == Become(c, [Idle EXCEPT !.outcome = outcome])

(* getInfo's encIdentifier is the authenticator's identifier encrypted     *)
(* under its token of that moment: another token does not recover it.      *)
decrypt_enc_identifier(t, info) == IF t = info THEN info.of ELSE Absent

Start(c, command) ==
    /\ At(c, "idle") /\ n.commands < MaxCommands
    /\ n' = [n EXCEPT !.commands = @ + 1]
    /\ Become(c, [Idle EXCEPT !.pc = "info", !.command = command])
    /\ UNCHANGED <<token, store>>

GetInfo(c) ==
    /\ At(c, "info")
    /\ Become(c, [work[c] EXCEPT !.info = token[DeviceOf[c]],
                                 !.pc = IF work[c].rejected THEN "mint" ELSE "recognize"])
    /\ UNCHANGED <<token, store, n>>

(* The records come in no certain order. *)
Recognized(info) ==
    {r \in store : r.device # Absent /\ decrypt_enc_identifier(r.token, info) = r.device}

recognize_authenticator(c) ==
    LET w == work[c]
        Next(found) == IF w.command = "change_pin" THEN "change"
                       ELSE IF found THEN "send" ELSE "mint"
    IN  /\ At(c, "recognize")
        /\ IF Recognized(w.info) = {}
           THEN Become(c, [w EXCEPT !.pc = Next(FALSE)])
           ELSE \E r \in Recognized(w.info) :
                    Become(c, [w EXCEPT !.pc = Next(TRUE), !.record = r.id, !.token = r.token])
        /\ UNCHANGED <<token, store, n>>

(* The user is verified, and the authenticator grants its token.           *)
Mint(c) ==
    /\ At(c, "mint")
    /\ Become(c, [work[c] EXCEPT !.pc = "list", !.token = token[DeviceOf[c]], !.record = Absent])
    /\ UNCHANGED <<token, store, n>>

Minted(c) == decrypt_enc_identifier(work[c].token, work[c].info)

(* Changed form, with which the property is tested. *)
reap_superseded_records_OfTheModel(c) ==
    {r.id : r \in {x \in store : x.aaguid = ModelOf[DeviceOf[c]]}}
reap_superseded_records(c) ==
    {r.id : r \in {x \in store : Minted(c) # Absent /\ x.device = Minted(c)}}

(* store_minted_token: list, delete one by one, put. *)
List(c) ==
    /\ At(c, "list")
    /\ Become(c, [work[c] EXCEPT !.pc = "reap", !.todo = reap_superseded_records(c)])
    /\ UNCHANGED <<token, store, n>>

Delete(id) == store' = {r \in store : r.id # id}

Reap(c) ==
    /\ At(c, "reap")
    /\ \E id \in work[c].todo :
           /\ Delete(id)
           /\ Become(c, [work[c] EXCEPT !.todo = @ \ {id}])
    /\ UNCHANGED <<token, n>>

Put(c) ==
    /\ At(c, "reap") /\ work[c].todo = {}
    /\ n' = [n EXCEPT !.records = @ + 1]
    /\ store' = store \cup {[id |-> n'.records, token |-> work[c].token, device |-> Minted(c),
                             aaguid |-> ModelOf[DeviceOf[c]]]}
    /\ Become(c, [work[c] EXCEPT !.pc = "send"])
    /\ UNCHANGED token

Accepted(c) ==
    /\ At(c, "send") /\ work[c].token = token[DeviceOf[c]]
    /\ Done(c, "ok")
    /\ UNCHANGED <<token, store, n>>

(* PINAuthInvalid.  An authenticator may refuse what it is shown anyhow,   *)
(* if the token comes from the store.                                      *)
Refused(c) ==
    /\ At(c, "send")
    /\ work[c].token # token[DeviceOf[c]] \/ work[c].record # Absent
    /\ IF work[c].record = Absent THEN Done(c, "PINAuthInvalid")
       ELSE Become(c, [work[c] EXCEPT !.pc = "evict"])
    /\ UNCHANGED <<token, store, n>>

Evict(c) ==
    /\ At(c, "evict")
    /\ Delete(work[c].record)
    /\ Become(c, [work[c] EXCEPT !.pc = "info", !.rejected = TRUE])
    /\ UNCHANGED <<token, n>>

change_pin(c) ==
    /\ At(c, "change")
    /\ token' = [token EXCEPT ![DeviceOf[c]].nr = @ + 1]
    /\ IF work[c].record = Absent THEN Done(c, "ok") ELSE Become(c, [work[c] EXCEPT !.pc = "drop"])
    /\ UNCHANGED <<store, n>>

Drop(c) ==
    /\ At(c, "drop")
    /\ Delete(work[c].record)
    /\ Done(c, "ok")
    /\ UNCHANGED <<token, n>>

(* The caller gives the command up, or its process dies.                   *)
Abandon(c) ==
    /\ ~At(c, "idle")
    /\ Done(c, "abandoned")
    /\ UNCHANGED <<token, store, n>>

Step(c) ==
    \/ GetInfo(c) \/ recognize_authenticator(c) \/ Mint(c) \/ List(c) \/ Reap(c) \/ Put(c)
    \/ Accepted(c) \/ Refused(c) \/ Evict(c) \/ change_pin(c) \/ Drop(c)

Init ==
    /\ token = [d \in Authenticators |-> Token(d, 0)]
    /\ store = {}
    /\ work = [c \in Channels |-> Idle]
    /\ n = [commands |-> 0, records |-> 0]

Next ==
    \E c \in Channels :
        \/ \E command \in {"read", "change_pin"} : Start(c, command)
        \/ Step(c)
        \/ Abandon(c)

Spec == Init /\ [][Next]_storevars

-------------------------------------------------------------------------------
TypeOK ==
    /\ \A d \in Authenticators : token[d].of = d /\ token[d].nr \in 0..MaxCommands
    /\ store \subseteq Record
    /\ \A c \in Channels :
           /\ work[c].pc \in {"idle", "info", "recognize", "mint", "list", "reap", "send", "evict",
                              "change", "drop"}
           /\ work[c].todo \subseteq 1..n.records
    /\ n.commands <= MaxCommands

RecordsOf(d) == {r \in store : r.device = d}

(* However the calls of the channels fall between each other, a record is  *)
(* removed only on behalf of its own authenticator, so that no device      *)
(* forgets what another, of the same model perhaps, may still use; and the *)
(* records of a device do not pile up: there is at most one for each       *)
(* channel to it.                                                          *)
KeepsApart ==
    /\ \A r \in store \ store' :
           \E c \in Channels : DeviceOf[c] = r.device /\ work'[c] # work[c]
    /\ \A d \in Authenticators :
           Cardinality(RecordsOf(d)') <= Cardinality({c \in Channels : DeviceOf[c] = d})
RecordsAreKeptApart == [][KeepsApart]_storevars
===============================================================================
