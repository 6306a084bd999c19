----------------------------- MODULE Sharing_proofs -----------------------------
(***************************************************************************)
(* Proofs about what several use at once: the store that channels share    *)
(* (SharedStore) and the updates of a channel that user interfaces share   *)
(* (UxUpdates).                                                            *)
(*                                                                         *)
(* For any number of channels and of authenticators, the records of the    *)
(* shared store are kept apart.  That they do not pile up rests on whose   *)
(* records they are: a channel that is about to put one has dropped, or    *)
(* has seen another drop, the one it had put before.                       *)
(*                                                                         *)
(* For any number of interfaces and prompts and any capacity of the        *)
(* broadcast channel, the answers to prompts are kept.  An answer is sent  *)
(* by the last copy of its prompt, so once there is an answer there is no  *)
(* copy left and there will be none; and a wait that ended for want of     *)
(* copies ended with an empty reply channel, which nobody can fill any     *)
(* more.                                                                   *)
(***************************************************************************)
EXTENDS SharedStore, FunctionTheorems, FiniteSetTheorems, SequenceTheorems, TLAPS

-------------------------------------------------------------------------------
(* The shared store.                                                       *)

Tokens == [of : Authenticators, nr : Nat]
MaybeToken == Tokens \cup {Absent}

Pcs == {"idle", "info", "recognize", "mint", "list", "reap", "send", "evict", "change", "drop"}
Outcomes == {"none", "ok", "PINAuthInvalid", "abandoned"}
WorkType ==
    [pc : Pcs, command : {"none", "read", "change_pin"}, info : MaybeToken,
     record : Nat \cup {Absent}, token : MaybeToken, todo : SUBSET Nat, rejected : BOOLEAN,
     outcome : Outcomes]

(* The types, and each record with an id of its own.                       *)
Shape ==
    /\ n \in [commands : Nat, records : Nat]
    /\ token \in [Authenticators -> Tokens]
    /\ \A d \in Authenticators : token[d].of = d
    /\ work \in [Channels -> WorkType]
    /\ \A r \in store : r.id \in 1..n.records /\ r.token \in MaybeToken
    /\ \A r, s \in store : r.id = s.id => r = s

(* What a channel has been told, the record it uses and those it is about  *)
(* to delete are of its own authenticator.                                 *)
Mine(c, id) == id \in 1..n.records /\ \A r \in store : r.id = id => r.device = DeviceOf[c]
OwnBusiness(c, w) ==
    /\ w.pc \in {"recognize", "mint", "list", "reap"} => w.info.of = DeviceOf[c]
    /\ w.pc \in {"evict", "drop"} => w.record # Absent
    /\ w.record # Absent => Mine(c, w.record)
    /\ \A id \in w.todo : Mine(c, id)

(* The list to delete has all the records of the authenticator, if its     *)
(* identifier can be recovered.                                            *)
AllListed(c, w, S) ==
    \A r \in S :
        r.device = DeviceOf[c] /\ decrypt_enc_identifier(w.token, w.info) # Absent
            => r.id \in w.todo

(* owner[id] is the channel that put the record: no two records of a       *)
(* device have the same one, and one that is about to put another has the  *)
(* one it put on its list to delete.                                       *)
Owners == [Nat -> Channels]
Owned(owner) ==
    /\ \A r \in store : r.device # Absent => DeviceOf[owner[r.id]] = r.device
    /\ \A r, s \in store : r.device # Absent /\ s.device # Absent /\ owner[r.id] = owner[s.id]
           => r = s
    /\ \A r \in store :
           r.device # Absent /\ At(owner[r.id], "reap") /\ Minted(owner[r.id]) # Absent
               => r.id \in work[owner[r.id]].todo

OwnedStore ==
    /\ Shape
    /\ \A c \in Channels : OwnBusiness(c, work[c])
    /\ store # {} => \E owner \in Owners : Owned(owner)

NoPile ==
    \A d \in Authenticators :
        Cardinality(RecordsOf(d)) <= Cardinality({c \in Channels : DeviceOf[c] = d})

RemovedForItsOwn ==
    \A r \in store \ store' : \E c \in Channels : DeviceOf[c] = r.device /\ work'[c] # work[c]

-------------------------------------------------------------------------------
LEMMA OwnedStoreInit == ASSUME SharedStoreAssumption, Init PROVE OwnedStore
<1>1. Shape
  <2>1. n \in [commands : Nat, records : Nat] /\ store = {}
    BY DEF Init
  <2>2. token \in [Authenticators -> Tokens] /\ \A d \in Authenticators : token[d].of = d
    BY DEF Init, Token, Tokens
  <2>3. Idle \in WorkType
    BY DEF Idle, WorkType, MaybeToken, Pcs, Outcomes
  <2>4. work \in [Channels -> WorkType]
    BY <2>3 DEF Init
  <2> QED BY <2>1, <2>2, <2>4 DEF Shape
<1>2. ASSUME NEW c \in Channels PROVE OwnBusiness(c, work[c])
  <2>1. work[c] = Idle
    BY DEF Init
  <2> QED BY <2>1 DEF OwnBusiness, Idle
<1>3. store = {}
  BY DEF Init
<1> QED BY <1>1, <1>2, <1>3 DEF OwnedStore

(* A set of records of which each has an owner of its own is no larger     *)
(* than the set of owners.                                                 *)
LEMMA OwnedDoNotPile == ASSUME SharedStoreAssumption, OwnedStore PROVE NoPile
<1> SUFFICES ASSUME NEW d \in Authenticators
             PROVE  Cardinality(RecordsOf(d)) <= Cardinality({c \in Channels : DeviceOf[c] = d})
  BY DEF NoPile
<1> DEFINE T == {c \in Channels : DeviceOf[c] = d}
<1>1. IsFiniteSet(T)
  <2>1. T \in SUBSET Channels
    OBVIOUS
  <2> QED BY <2>1, FS_Subset DEF SharedStoreAssumption
<1>2. CASE store = {}
  <2>1. RecordsOf(d) = {}
    BY <1>2 DEF RecordsOf
  <2> QED BY <2>1, <1>1, FS_EmptySet, FS_CardinalityType
<1>3. CASE store # {}
  <2>1. PICK owner \in Owners : Owned(owner)
    BY <1>3 DEF OwnedStore
  <2> DEFINE R == RecordsOf(d)
             f == [r \in R |-> owner[r.id]]
  <2>2. d # Absent
    BY DEF SharedStoreAssumption
  <2>3. ASSUME NEW r \in R PROVE owner[r.id] \in T
    <3>1. r \in store /\ r.device = d /\ r.id \in Nat
      BY <2>3 DEF RecordsOf, OwnedStore, Shape
    <3> QED BY <2>1, <2>2, <3>1 DEF Owned, Owners
  <2>4. ASSUME NEW r \in R, NEW s \in R, f[r] = f[s] PROVE r = s
    BY <2>1, <2>2, <2>4 DEF RecordsOf, Owned
  <2> HIDE DEF R, T
  <2>5. f \in [R -> T]
    BY <2>3
  <2>6. f \in Injection(R, T)
    BY <2>4, <2>5, Zenon DEF Injection, IsInjective
  <2>7. Cardinality(R) <= Cardinality(T)
    BY <2>6, <1>1, FS_Injection
  <2> QED BY <2>7 DEF R, T
<1> QED BY <1>2, <1>3

-------------------------------------------------------------------------------
(* A step by which no record is put: what is to be seen is that the        *)
(* channel that takes it keeps to its own business, and that what it is    *)
(* about to delete is all there is of its authenticator's.                 *)
LEMMA NothingPut ==
    ASSUME SharedStoreAssumption, OwnedStore,
           NEW c \in Channels, NEW w \in WorkType, Become(c, w), OwnBusiness(c, w),
           n' \in [commands : Nat, records : Nat], n'.records = n.records,
           token' \in [Authenticators -> Tokens],
           \A d \in Authenticators : token'[d].of = d,
           store' \subseteq store,
           \/ w.pc # "reap"
           \/ /\ At(c, "reap") /\ w.info = work[c].info /\ w.token = work[c].token
              /\ \A r \in store' : r.id \in work[c].todo => r.id \in w.todo
           \/ AllListed(c, w, store')
    PROVE  OwnedStore'
<1>1. work \in [Channels -> WorkType]
  BY DEF OwnedStore, Shape
<1>2. work'[c] = w /\ \A x \in Channels \ {c} : work'[x] = work[x]
  BY <1>1 DEF Become
<1>3. work' \in [Channels -> WorkType]
  BY <1>1 DEF Become
<1>4. Shape'
  BY <1>3 DEF OwnedStore, Shape
<1>5. ASSUME NEW x \in Channels PROVE OwnBusiness(x, work[x])'
  <2>1. \A id : Mine(x, id) => Mine(x, id)'
    BY DEF Mine
  <2>2. OwnBusiness(x, work'[x])
    BY <1>2 DEF OwnedStore
  <2> QED BY <2>1, <2>2 DEF OwnBusiness
<1>6. ASSUME store' # {} PROVE \E owner \in Owners : Owned(owner)'
  <2>1. PICK owner \in Owners : Owned(owner)
    BY <1>6 DEF OwnedStore
  <2>2. ASSUME NEW r \in store', r.device # Absent, At(owner[r.id], "reap")',
               Minted(owner[r.id])' # Absent
        PROVE  r.id \in work'[owner[r.id]].todo
    <3> DEFINE x == owner[r.id]
    <3>1. r \in store /\ x \in Channels
      BY DEF OwnedStore, Shape, Owners
    <3>2. r.device = DeviceOf[x]
      BY <2>1, <2>2, <3>1 DEF Owned
    <3>3. CASE At(x, "reap") /\ work'[x].info = work[x].info /\ work'[x].token = work[x].token
               /\ (r.id \in work[x].todo => r.id \in work'[x].todo)
      <4>1. Minted(x) # Absent
        BY <2>2, <3>3 DEF Minted
      <4> QED BY <2>1, <2>2, <3>1, <3>3, <4>1 DEF Owned
    <3>4. CASE x = c /\ AllListed(c, w, store')
      BY <1>2, <2>2, <3>2, <3>4 DEF Minted, AllListed
    <3>5. CASE x # c
      BY <1>2, <2>2, <3>1, <3>3, <3>5 DEF At
    <3> QED BY <1>2, <2>2, <3>1, <3>3, <3>4, <3>5 DEF At
  <2>3. Owned(owner)'
    BY <2>1, <2>2 DEF Owned
  <2> QED BY <2>3
<1> QED BY <1>4, <1>5, <1>6 DEF OwnedStore

(* Steps that change the token of no authenticator and the number of no    *)
(* record.                                                                 *)
LEMMA Counts ==
    ASSUME OwnedStore, UNCHANGED <<token, n>>
    PROVE  /\ n' \in [commands : Nat, records : Nat] /\ n'.records = n.records
           /\ token' \in [Authenticators -> Tokens]
           /\ \A d \in Authenticators : token'[d].of = d
BY DEF OwnedStore, Shape

-------------------------------------------------------------------------------
(* What is known of the channel that takes a step.                         *)
LEMMA Actor ==
    ASSUME OwnedStore, NEW c \in Channels
    PROVE  work[c] \in WorkType /\ OwnBusiness(c, work[c])
BY DEF OwnedStore, Shape

(* The end of a command, and the steps that change the channel only.       *)
LEMMA DoneKeeps ==
    ASSUME SharedStoreAssumption, OwnedStore, NEW c \in Channels, NEW end \in Outcomes,
           Done(c, end), n' = n, store' \subseteq store,
           token' \in [Authenticators -> Tokens], \A d \in Authenticators : token'[d].of = d
    PROVE  OwnedStore'
<1> DEFINE w == [Idle EXCEPT !.outcome = end]
<1>1. w \in WorkType /\ OwnBusiness(c, w) /\ w.pc # "reap"
  BY DEF Idle, WorkType, MaybeToken, Pcs, OwnBusiness
<1>2. Become(c, w)
  BY DEF Done
<1>3. n' \in [commands : Nat, records : Nat] /\ n'.records = n.records
  BY DEF OwnedStore, Shape
<1> HIDE DEF w
<1> QED BY <1>1, <1>2, <1>3, NothingPut

LEMMA StartKeeps ==
    ASSUME SharedStoreAssumption, OwnedStore, NEW c \in Channels,
           NEW cmd \in {"read", "change_pin"}, Start(c, cmd)
    PROVE  OwnedStore'
<1> DEFINE w == [Idle EXCEPT !.pc = "info", !.command = cmd]
<1>1. w \in WorkType /\ OwnBusiness(c, w) /\ w.pc # "reap"
  BY DEF Idle, WorkType, MaybeToken, Pcs, Outcomes, OwnBusiness
<1>2. Become(c, w) /\ store' \subseteq store
  BY DEF Start
<1>3. n' \in [commands : Nat, records : Nat] /\ n'.records = n.records
  <2>1. n \in [commands : Nat, records : Nat]
    BY DEF OwnedStore, Shape
  <2>2. n' = [n EXCEPT !.commands = n.commands + 1]
    BY DEF Start
  <2>3. n.commands \in Nat /\ n.records \in Nat
    BY <2>1
  <2>4. n' = [commands |-> n.commands + 1, records |-> n.records]
    BY <2>1, <2>2
  <2>5. n.commands + 1 \in Nat
    BY <2>3
  <2> QED BY <2>3, <2>4, <2>5, Zenon
<1>4. token' \in [Authenticators -> Tokens] /\ \A d \in Authenticators : token'[d].of = d
  BY DEF OwnedStore, Shape, Start
<1> HIDE DEF w
<1> QED BY <1>1, <1>2, <1>3, <1>4, NothingPut

LEMMA GetInfoKeeps ==
    ASSUME SharedStoreAssumption, OwnedStore, NEW c \in Channels, GetInfo(c) PROVE OwnedStore'
<1> DEFINE w == [work[c] EXCEPT !.info = token[DeviceOf[c]],
                                !.pc = IF work[c].rejected THEN "mint" ELSE "recognize"]
<1>1. token[DeviceOf[c]] \in Tokens /\ token[DeviceOf[c]].of = DeviceOf[c]
  BY DEF OwnedStore, Shape, SharedStoreAssumption
<1>2. w \in WorkType /\ w.pc \in {"mint", "recognize"} /\ w.info.of = DeviceOf[c]
  BY <1>1, Actor DEF WorkType, MaybeToken, Pcs
<1>3. w.record = work[c].record /\ w.todo = work[c].todo
  BY Actor DEF WorkType
<1>4. Become(c, w) /\ store' \subseteq store /\ UNCHANGED <<token, n>>
  BY DEF GetInfo
<1> HIDE DEF w
<1>5. OwnBusiness(c, w)
  BY <1>2, <1>3, Actor DEF OwnBusiness
<1> QED BY <1>2, <1>4, <1>5, Counts, NothingPut

LEMMA RecognizeKeeps ==
    ASSUME SharedStoreAssumption, OwnedStore, NEW c \in Channels, recognize_authenticator(c)
    PROVE  OwnedStore'
<1>1. work[c] \in WorkType /\ OwnBusiness(c, work[c]) /\ work[c].info.of = DeviceOf[c]
  BY Actor DEF OwnBusiness, At, recognize_authenticator
<1>2. ASSUME NEW at \in {"change", "mint"}, Become(c, [work[c] EXCEPT !.pc = at])
      PROVE  OwnedStore'
  <2> DEFINE w == [work[c] EXCEPT !.pc = at]
  <2>1. w \in WorkType /\ w.pc = at /\ w.record = work[c].record /\ w.todo = work[c].todo
        /\ w.info = work[c].info
    BY <1>1 DEF WorkType, Pcs
  <2>2. Become(c, w) /\ store' \subseteq store /\ UNCHANGED <<token, n>>
    BY <1>2 DEF recognize_authenticator
  <2> HIDE DEF w
  <2>3. OwnBusiness(c, w) /\ w.pc # "reap"
    BY <1>1, <2>1 DEF OwnBusiness
  <2> QED BY <2>1, <2>2, <2>3, Counts, NothingPut
<1>3. ASSUME NEW r \in Recognized(work[c].info), NEW at \in {"change", "send"},
             Become(c, [work[c] EXCEPT !.pc = at, !.record = r.id, !.token = r.token])
      PROVE  OwnedStore'
  <2> DEFINE w == [work[c] EXCEPT !.pc = at, !.record = r.id, !.token = r.token]
  <2>1. r \in store /\ r.device # Absent /\ r.device = DeviceOf[c]
    BY <1>1 DEF Recognized, decrypt_enc_identifier
  <2>2. r.id \in 1..n.records /\ r.id \in Nat /\ r.token \in MaybeToken
    <3>1. Shape
      BY DEF OwnedStore
    <3>2. r.id \in 1..n.records /\ r.token \in MaybeToken
      BY <2>1, <3>1, Zenon DEF Shape
    <3>3. n.records \in Nat
      BY <3>1 DEF Shape
    <3> QED BY <3>2, <3>3
  <2>3. Mine(c, r.id)
    <3>1. \A s \in store : s.id = r.id => s = r
      BY <2>1 DEF OwnedStore, Shape
    <3> QED BY <2>1, <2>2, <3>1 DEF Mine
  <2>4. w \in WorkType /\ w.pc = at /\ w.record = r.id /\ w.todo = work[c].todo
    BY <1>1, <2>2 DEF WorkType, Pcs
  <2>5. Become(c, w) /\ store' \subseteq store /\ UNCHANGED <<token, n>>
    BY <1>3 DEF recognize_authenticator
  <2> HIDE DEF w
  <2>6. OwnBusiness(c, w) /\ w.pc # "reap"
    BY <1>1, <2>3, <2>4 DEF OwnBusiness
  <2> QED BY <2>4, <2>5, <2>6, Counts, NothingPut
<1> QED BY <1>2, <1>3 DEF recognize_authenticator

(* The list is of all the records of the authenticator, if the identifier  *)
(* can be recovered at all.                                                *)
LEMMA ListKeeps ==
    ASSUME SharedStoreAssumption, OwnedStore, NEW c \in Channels, List(c) PROVE OwnedStore'
<1> DEFINE w == [work[c] EXCEPT !.pc = "reap", !.todo = reap_superseded_records(c)]
<1>1. work[c] \in WorkType /\ OwnBusiness(c, work[c]) /\ work[c].info.of = DeviceOf[c]
  BY Actor DEF OwnBusiness, At, List
<1>2. Minted(c) # Absent => Minted(c) = DeviceOf[c]
  BY <1>1 DEF Minted, decrypt_enc_identifier
<1>3. \A id \in reap_superseded_records(c) : id \in Nat /\ Mine(c, id)
  <2>1. n.records \in Nat /\ (\A r \in store : r.id \in 1..n.records)
        /\ (\A r, s \in store : r.id = s.id => r = s)
    BY DEF OwnedStore, Shape
  <2> SUFFICES ASSUME NEW r \in store, r.device = DeviceOf[c] PROVE r.id \in Nat /\ Mine(c, r.id)
    BY <1>2 DEF reap_superseded_records
  <2> QED BY <2>1 DEF Mine
<1>4. w \in WorkType /\ w.record = work[c].record /\ w.info = work[c].info
      /\ w.token = work[c].token /\ w.todo = reap_superseded_records(c)
  BY <1>1, <1>3 DEF WorkType, Pcs
<1>5. Become(c, w) /\ store' = store /\ UNCHANGED <<token, n>>
  BY DEF List
<1> HIDE DEF w
<1>6. OwnBusiness(c, w)
  <2>1. w.pc = "reap"
    BY <1>1 DEF WorkType, w
  <2> QED BY <1>1, <1>3, <1>4, <2>1 DEF OwnBusiness
<1>7. AllListed(c, w, store')
  BY <1>2, <1>4, <1>5 DEF AllListed, Minted, reap_superseded_records
<1> QED BY <1>4, <1>5, <1>6, <1>7, Counts, NothingPut

LEMMA ReapKeeps ==
    ASSUME SharedStoreAssumption, OwnedStore, NEW c \in Channels, Reap(c)
    PROVE  OwnedStore' /\ RemovedForItsOwn
<1>1. PICK id \in work[c].todo :
          Delete(id) /\ Become(c, [work[c] EXCEPT !.todo = work[c].todo \ {id}])
  BY DEF Reap
<1> DEFINE w == [work[c] EXCEPT !.todo = work[c].todo \ {id}]
<1>2. At(c, "reap") /\ UNCHANGED <<token, n>>
  BY DEF Reap
<1>3. work[c] \in WorkType /\ OwnBusiness(c, work[c])
  BY Actor
<1>4. w \in WorkType /\ w.pc = work[c].pc /\ w.record = work[c].record
      /\ w.info = work[c].info /\ w.token = work[c].token /\ w.todo = work[c].todo \ {id}
  BY <1>3 DEF WorkType
<1>5. store' \subseteq store /\ (\A r \in store' : r.id # id)
      /\ \A r \in store \ store' : r.id = id
  BY <1>1 DEF Delete
<1>6. Become(c, w)
  BY <1>1
<1> HIDE DEF w
<1>7. OwnBusiness(c, w)
  BY <1>3, <1>4 DEF OwnBusiness
<1>8. OwnedStore'
  BY <1>2, <1>4, <1>5, <1>6, <1>7, Counts, NothingPut
<1>9. work'[c] # work[c]
  BY <1>1, <1>4, <1>6 DEF Become, OwnedStore, Shape
<1>10. \A r \in store \ store' : r.device = DeviceOf[c]
  BY <1>1, <1>3, <1>5 DEF OwnBusiness, Mine
<1> QED BY <1>8, <1>9, <1>10 DEF RemovedForItsOwn

(* The channel has none of its own left when it puts one.                  *)
LEMMA PutKeeps ==
    ASSUME SharedStoreAssumption, OwnedStore, NEW c \in Channels, Put(c) PROVE OwnedStore'
<1> DEFINE w == [work[c] EXCEPT !.pc = "send"]
           m == n.records + 1
           new == [id |-> m, token |-> work[c].token, device |-> Minted(c),
                   aaguid |-> ModelOf[DeviceOf[c]]]
<1>1. /\ Shape /\ At(c, "reap") /\ work[c].todo = {} /\ work[c] \in WorkType
      /\ OwnBusiness(c, work[c]) /\ work[c].info.of = DeviceOf[c]
  BY Actor DEF Put, OwnBusiness, At, OwnedStore
<1>2. /\ n' = [n EXCEPT !.records = m] /\ n \in [commands : Nat, records : Nat]
      /\ n.records \in Nat /\ m \in Nat /\ m > n.records
  BY <1>1 DEF Put, Shape
<1>3. n'.records = m /\ n' \in [commands : Nat, records : Nat]
  BY <1>2
<1>4. w \in WorkType /\ w.pc = "send" /\ w.record = work[c].record /\ w.todo = {}
  BY <1>1 DEF WorkType, Pcs
<1>5. Become(c, w) /\ token' = token
  BY DEF Put
<1>6. store' = store \cup {new}
  BY <1>3 DEF Put
<1>7. work' \in [Channels -> WorkType] /\ work'[c] = w
      /\ \A x \in Channels \ {c} : work'[x] = work[x]
  BY <1>1, <1>4, <1>5 DEF Shape, Become
<1>8. \A r \in store : r.id \in 1..n.records /\ r.id \in Nat /\ r.id # m
  BY <1>1, <1>2 DEF Shape
<1>9. new.id = m /\ new.token \in MaybeToken /\ new.device = Minted(c)
  BY <1>1 DEF WorkType
<1>10. Minted(c) # Absent => Minted(c) = DeviceOf[c]
  BY <1>1 DEF Minted, decrypt_enc_identifier
<1> HIDE DEF w, new, m
<1>11. Shape'
  <2>1. \A r \in store' : r.id \in 1..n'.records /\ r.token \in MaybeToken
    BY <1>1, <1>2, <1>3, <1>6, <1>8, <1>9 DEF Shape
  <2>2. \A r, s \in store' : r.id = s.id => r = s
    BY <1>1, <1>6, <1>8, <1>9 DEF Shape
  <2> QED BY <1>1, <1>3, <1>5, <1>7, <2>1, <2>2 DEF Shape
<1>12. ASSUME NEW x \in Channels PROVE OwnBusiness(x, work[x])'
  <2>1. \A id : Mine(x, id) => Mine(x, id)'
    <3> SUFFICES ASSUME NEW id, Mine(x, id) PROVE Mine(x, id)'
      OBVIOUS
    <3>1. id \in 1..n.records /\ id # m /\ id \in 1..n'.records
      BY <1>2, <1>3 DEF Mine
    <3> QED BY <1>6, <1>9, <3>1 DEF Mine
  <2>2. OwnBusiness(x, work'[x])
    <3>1. CASE x = c
      BY <1>1, <1>4, <1>7, <3>1 DEF OwnBusiness
    <3>2. CASE x # c
      BY <1>7, <3>2 DEF OwnedStore
    <3> QED BY <3>1, <3>2
  <2> QED BY <2>1, <2>2 DEF OwnBusiness
<1>13. PICK owner \in Owners : Owned(owner)
  <2>1. CASE store = {}
    <3>1. [i \in Nat |-> c] \in Owners
      BY DEF Owners
    <3>2. Owned([i \in Nat |-> c])
      BY <2>1 DEF Owned
    <3> QED BY <3>1, <3>2
  <2>2. CASE store # {}
    BY <2>2 DEF OwnedStore
  <2> QED BY <2>1, <2>2
<1>14. PICK now \in Owners :
           /\ now[m] = c
           /\ \A r \in store : now[r.id] = owner[r.id] /\ now[r.id] \in Channels
  <2> [owner EXCEPT ![m] = c] \in Owners
    BY <1>2 DEF Owners
  <2> WITNESS [owner EXCEPT ![m] = c] \in Owners
  <2> QED BY <1>2, <1>8 DEF Owners
<1>15. ASSUME NEW r \in store, r.device # Absent, Minted(c) # Absent PROVE owner[r.id] # c
  BY <1>1, <1>13, <1>15 DEF Owned
<1>16. \A r \in store' : r.device # Absent => DeviceOf[now[r.id]] = r.device
  BY <1>6, <1>9, <1>10, <1>13, <1>14 DEF Owned
<1>17. \A r, s \in store' :
           r.device # Absent /\ s.device # Absent /\ now[r.id] = now[s.id] => r = s
  <2>1. \A r, s \in store :
            r.device # Absent /\ s.device # Absent /\ now[r.id] = now[s.id] => r = s
    BY <1>13, <1>14 DEF Owned
  <2>2. \A r \in store :
            r.device # Absent /\ new.device # Absent => now[r.id] # now[new.id]
    BY <1>9, <1>14, <1>15
  <2> QED BY <1>6, <2>1, <2>2
<1>18. ASSUME NEW r \in store', r.device # Absent, At(now[r.id], "reap")',
              Minted(now[r.id])' # Absent
       PROVE  r.id \in work'[now[r.id]].todo
  <2>1. now[r.id] # c
    BY <1>4, <1>7, <1>18 DEF At
  <2>2. r \in store /\ now[r.id] = owner[r.id] /\ now[r.id] \in Channels
    BY <1>6, <1>9, <1>14, <2>1
  <2>3. work'[now[r.id]] = work[now[r.id]]
    BY <1>7, <2>1, <2>2
  <2>4. At(owner[r.id], "reap") /\ Minted(owner[r.id]) # Absent
    BY <1>18, <2>2, <2>3 DEF At, Minted, decrypt_enc_identifier
  <2> QED BY <1>13, <1>18, <2>2, <2>3, <2>4 DEF Owned
<1>19. Owned(now)'
  BY <1>16, <1>17, <1>18 DEF Owned
<1> QED BY <1>11, <1>12, <1>14, <1>19 DEF OwnedStore

(* What a channel deletes on its own account is the record it used.        *)
LEMMA DeletesItsOwn ==
    ASSUME OwnedStore, NEW c \in Channels, work[c].pc \in {"evict", "drop"},
           Delete(work[c].record), work'[c] # work[c]
    PROVE  RemovedForItsOwn
<1>1. Mine(c, work[c].record)
  BY Actor DEF OwnBusiness
<1>2. \A r \in store \ store' : r.id = work[c].record
  BY DEF Delete
<1> QED BY <1>1, <1>2 DEF Mine, RemovedForItsOwn

LEMMA RefusedKeeps ==
    ASSUME SharedStoreAssumption, OwnedStore, NEW c \in Channels, Refused(c) PROVE OwnedStore'
<1>1. UNCHANGED <<token, store, n>>
  BY DEF Refused
<1>2. CASE work[c].record = Absent
  <2>1. Done(c, "PINAuthInvalid")
    BY <1>2 DEF Refused
  <2> QED BY <1>1, <2>1, Counts, DoneKeeps DEF Outcomes
<1>3. CASE work[c].record # Absent
  <2> DEFINE w == [work[c] EXCEPT !.pc = "evict"]
  <2>1. Become(c, w)
    BY <1>3 DEF Refused
  <2>2. w \in WorkType /\ w.pc = "evict" /\ w.record = work[c].record /\ w.todo = work[c].todo
    BY Actor DEF WorkType, Pcs
  <2> HIDE DEF w
  <2>3. OwnBusiness(c, w)
    BY <1>3, <2>2, Actor DEF OwnBusiness
  <2> QED BY <1>1, <2>1, <2>2, <2>3, Counts, NothingPut
<1> QED BY <1>2, <1>3

LEMMA EvictKeeps ==
    ASSUME SharedStoreAssumption, OwnedStore, NEW c \in Channels, Evict(c)
    PROVE  OwnedStore' /\ RemovedForItsOwn
<1> DEFINE w == [work[c] EXCEPT !.pc = "info", !.rejected = TRUE]
<1>1. Become(c, w) /\ Delete(work[c].record) /\ work[c].pc = "evict" /\ UNCHANGED <<token, n>>
  BY DEF Evict, At
<1>2. w \in WorkType /\ w.pc = "info" /\ w.record = work[c].record /\ w.todo = work[c].todo
  BY Actor DEF WorkType, Pcs
<1> HIDE DEF w
<1>3. OwnBusiness(c, w)
  BY <1>2, Actor DEF OwnBusiness
<1>4. store' \subseteq store
  BY <1>1 DEF Delete
<1>5. OwnedStore'
  BY <1>1, <1>2, <1>3, <1>4, Counts, NothingPut
<1>6. work'[c] # work[c]
  BY <1>1, <1>2 DEF Become, OwnedStore, Shape
<1> QED BY <1>1, <1>5, <1>6, DeletesItsOwn

(* The token that is regenerated is still the authenticator's.             *)
LEMMA ChangePinKeeps ==
    ASSUME SharedStoreAssumption, OwnedStore, NEW c \in Channels, change_pin(c) PROVE OwnedStore'
<1>1. token' = [token EXCEPT ![DeviceOf[c]].nr = token[DeviceOf[c]].nr + 1]
      /\ UNCHANGED <<store, n>>
  BY DEF change_pin
<1>2. token' \in [Authenticators -> Tokens] /\ \A d \in Authenticators : token'[d].of = d
  <2> DEFINE d0 == DeviceOf[c]
             t == [token[d0] EXCEPT !.nr = token[d0].nr + 1]
  <2>1. token \in [Authenticators -> Tokens] /\ d0 \in Authenticators
        /\ \A d \in Authenticators : token[d].of = d
    BY DEF OwnedStore, Shape, SharedStoreAssumption
  <2>2. token[d0] \in [of : Authenticators, nr : Nat] /\ token[d0].nr + 1 \in Nat
    BY <2>1 DEF Tokens
  <2>3. t \in Tokens /\ t.of = d0
    BY <2>1, <2>2 DEF Tokens
  <2>4. token' = [token EXCEPT ![d0] = t]
    BY <1>1
  <2> HIDE DEF d0, t
  <2> QED BY <2>1, <2>3, <2>4
<1>3. n' \in [commands : Nat, records : Nat] /\ n'.records = n.records
  BY <1>1 DEF OwnedStore, Shape
<1>4. CASE work[c].record = Absent
  <2>1. Done(c, "ok")
    BY <1>4 DEF change_pin
  <2> QED BY <1>1, <1>2, <2>1, DoneKeeps DEF Outcomes
<1>5. CASE work[c].record # Absent
  <2> DEFINE w == [work[c] EXCEPT !.pc = "drop"]
  <2>1. Become(c, w)
    BY <1>5 DEF change_pin
  <2>2. w \in WorkType /\ w.pc = "drop" /\ w.record = work[c].record /\ w.todo = work[c].todo
    BY Actor DEF WorkType, Pcs
  <2> HIDE DEF w
  <2>3. OwnBusiness(c, w)
    BY <1>5, <2>2, Actor DEF OwnBusiness
  <2> QED BY <1>1, <1>2, <1>3, <2>1, <2>2, <2>3, NothingPut
<1> QED BY <1>4, <1>5

LEMMA DropKeeps ==
    ASSUME SharedStoreAssumption, OwnedStore, NEW c \in Channels, Drop(c)
    PROVE  OwnedStore' /\ RemovedForItsOwn
<1>1. Done(c, "ok") /\ Delete(work[c].record) /\ work[c].pc = "drop" /\ UNCHANGED <<token, n>>
  BY DEF Drop, At
<1>2. store' \subseteq store
  BY <1>1 DEF Delete
<1>3. OwnedStore'
  BY <1>1, <1>2, Counts, DoneKeeps DEF Outcomes
<1>4. work'[c] # work[c]
  <2>1. work'[c].pc = "idle"
    BY <1>1 DEF Done, Become, Idle, OwnedStore, Shape
  <2> QED BY <1>1, <2>1
<1> QED BY <1>1, <1>3, <1>4, DeletesItsOwn

LEMMA EndKeeps ==
    ASSUME SharedStoreAssumption, OwnedStore, NEW c \in Channels, Accepted(c) \/ Abandon(c)
    PROVE  OwnedStore'
<1>1. Done(c, "ok") \/ Done(c, "abandoned")
  BY DEF Accepted, Abandon
<1>2. UNCHANGED <<token, store, n>>
  BY DEF Accepted, Abandon
<1> QED BY <1>1, <1>2, Counts, DoneKeeps DEF Outcomes

LEMMA MintKeeps ==
    ASSUME SharedStoreAssumption, OwnedStore, NEW c \in Channels, Mint(c) PROVE OwnedStore'
<1> DEFINE w == [work[c] EXCEPT !.pc = "list", !.token = token[DeviceOf[c]], !.record = Absent]
<1>1. work[c] \in WorkType /\ OwnBusiness(c, work[c]) /\ work[c].info.of = DeviceOf[c]
  BY Actor DEF OwnBusiness, At, Mint
<1>2. token[DeviceOf[c]] \in MaybeToken
  BY DEF OwnedStore, Shape, SharedStoreAssumption, MaybeToken
<1>3. w \in WorkType /\ w.pc = "list" /\ w.record = Absent /\ w.todo = work[c].todo
      /\ w.info = work[c].info
  BY <1>1, <1>2 DEF WorkType, Pcs
<1>4. Become(c, w) /\ store' \subseteq store /\ UNCHANGED <<token, n>>
  BY DEF Mint
<1> HIDE DEF w
<1>5. OwnBusiness(c, w)
  BY <1>1, <1>3 DEF OwnBusiness
<1> QED BY <1>3, <1>4, <1>5, Counts, NothingPut

LEMMA OwnedStoreStep ==
    ASSUME SharedStoreAssumption, OwnedStore, [Next]_storevars
    PROVE  OwnedStore' /\ (UNCHANGED storevars \/ RemovedForItsOwn)
<1>1. CASE UNCHANGED storevars
  <2>1. OwnedStore'
    BY <1>1 DEF storevars, OwnedStore, Shape, OwnBusiness, Mine, Owned, At, Minted,
                decrypt_enc_identifier
  <2> QED BY <1>1, <2>1
<1>2. ASSUME NEW c \in Channels, store \subseteq store' PROVE RemovedForItsOwn
  BY <1>2 DEF RemovedForItsOwn
<1>3. ASSUME NEW c \in Channels, NEW cmd \in {"read", "change_pin"}, Start(c, cmd)
      PROVE  OwnedStore' /\ RemovedForItsOwn
  BY <1>2, <1>3, StartKeeps DEF Start
<1>4. ASSUME NEW c \in Channels, Step(c) PROVE OwnedStore' /\ RemovedForItsOwn
  <2>1. CASE GetInfo(c)
    BY <1>2, <2>1, GetInfoKeeps DEF GetInfo
  <2>2. CASE recognize_authenticator(c)
    <3>1. store' = store
      BY <2>2 DEF recognize_authenticator
    <3> QED BY <1>2, <2>2, <3>1, RecognizeKeeps
  <2>3. CASE Mint(c)
    BY <1>2, <2>3, MintKeeps DEF Mint
  <2>4. CASE List(c)
    BY <1>2, <2>4, ListKeeps DEF List
  <2>5. CASE Reap(c)
    BY <2>5, ReapKeeps
  <2>6. CASE Put(c)
    BY <1>2, <2>6, PutKeeps DEF Put
  <2>7. CASE Accepted(c)
    BY <1>2, <2>7, EndKeeps DEF Accepted
  <2>8. CASE Refused(c)
    BY <1>2, <2>8, RefusedKeeps DEF Refused
  <2>9. CASE Evict(c)
    BY <2>9, EvictKeeps
  <2>10. CASE change_pin(c)
    BY <1>2, <2>10, ChangePinKeeps DEF change_pin
  <2>11. CASE Drop(c)
    BY <2>11, DropKeeps
  <2> QED BY <1>4, <2>1, <2>2, <2>3, <2>4, <2>5, <2>6, <2>7, <2>8, <2>9, <2>10, <2>11 DEF Step
<1>5. ASSUME NEW c \in Channels, Abandon(c) PROVE OwnedStore' /\ RemovedForItsOwn
  BY <1>2, <1>5, EndKeeps DEF Abandon
<1> QED BY <1>1, <1>3, <1>4, <1>5 DEF Next

-------------------------------------------------------------------------------
(* The bounds of TypeOK.  A command puts one record or changes the PIN     *)
(* once, at most, and nothing after it: those that have still to do so,    *)
(* and what was done, are no more than the commands begun.                 *)

Pending(w) ==
    \/ w.pc \in {"info", "recognize", "mint", "list", "reap", "evict", "change"}
    \/ w.pc = "send" /\ w.record # Absent
Unfinished == {c \in Channels : Pending(work[c])}

StoredType ==
    [id : Nat, token : Tokens, device : Authenticators \cup {Absent},
     aaguid : {ModelOf[d] : d \in Authenticators}]

InBounds ==
    /\ n.commands <= MaxCommands
    /\ n.records + Cardinality(Unfinished) <= n.commands
    /\ \A d \in Authenticators : token[d].nr + Cardinality(Unfinished) <= n.commands
Formed ==
    /\ store \subseteq StoredType
    /\ \A c \in Channels :
           work[c].pc \in {"list", "reap"} => work[c].token \in Tokens /\ work[c].record = Absent

LEMMA Numbers ==
    ASSUME SharedStoreAssumption, OwnedStore
    PROVE  /\ n.commands \in Nat /\ n.records \in Nat /\ MaxCommands \in Nat
           /\ IsFiniteSet(Unfinished) /\ Cardinality(Unfinished) \in Nat
           /\ \A d \in Authenticators : token[d].nr \in Nat
<1>1. IsFiniteSet(Unfinished)
  BY FS_Subset DEF SharedStoreAssumption, Unfinished
<1> QED BY <1>1, FS_CardinalityType DEF OwnedStore, Shape, SharedStoreAssumption, Tokens

(* One channel takes a step.                                               *)
LEMMA UnfinishedAfter ==
    ASSUME SharedStoreAssumption, OwnedStore, NEW c \in Channels, NEW w, Become(c, w)
    PROVE  /\ work'[c] = w /\ \A e \in Channels \ {c} : work'[e] = work[e]
           /\ Cardinality(Unfinished') \in Nat /\ Cardinality(Unfinished') <= Cardinality(Unfinished) + 1
           /\ (Pending(w) => Pending(work[c])) => Cardinality(Unfinished') <= Cardinality(Unfinished)
           /\ Pending(work[c]) /\ ~Pending(w)
                => Cardinality(Unfinished') + 1 = Cardinality(Unfinished)
<1>1. work'[c] = w /\ \A e \in Channels \ {c} : work'[e] = work[e]
  BY DEF OwnedStore, Shape, Become
<1>2. Unfinished' = IF Pending(w) THEN Unfinished \cup {c} ELSE Unfinished \ {c}
  <2> DEFINE After == {e \in Channels : Pending(work'[e])}
  <2>1. Unfinished' = After
    BY DEF Unfinished, Pending
  <2>2. \A e \in Channels : e \in After <=> (IF e = c THEN Pending(w) ELSE e \in Unfinished)
    BY <1>1, Zenon DEF Unfinished
  <2>3. After \subseteq Channels /\ Unfinished \subseteq Channels
    BY DEF Unfinished
  <2> HIDE DEF After, Unfinished
  <2>4. After = IF Pending(w) THEN Unfinished \cup {c} ELSE Unfinished \ {c}
    BY <2>2, <2>3
  <2> QED BY <2>1, <2>4
<1>3. IsFiniteSet(Unfinished) /\ Cardinality(Unfinished) \in Nat
  BY Numbers
<1>4. c \in Unfinished <=> Pending(work[c])
  BY DEF Unfinished
<1>5. /\ Cardinality(Unfinished \cup {c}) =
           IF c \in Unfinished THEN Cardinality(Unfinished) ELSE Cardinality(Unfinished) + 1
      /\ Cardinality(Unfinished \ {c}) =
           IF c \in Unfinished THEN Cardinality(Unfinished) - 1 ELSE Cardinality(Unfinished)
  BY <1>3, FS_AddElement, FS_RemoveElement
<1>6. c \in Unfinished => Cardinality(Unfinished) # 0
  BY <1>3, FS_EmptySet
<1> HIDE DEF Pending
<1>7. CASE Pending(w)
  BY <1>1, <1>2, <1>3, <1>4, <1>5, <1>7
<1>8. CASE ~Pending(w)
  BY <1>1, <1>2, <1>3, <1>4, <1>5, <1>6, <1>8
<1> QED BY <1>7, <1>8

(* A step that neither puts a record nor changes a PIN.                    *)
LEMMA InBoundsKept ==
    ASSUME SharedStoreAssumption, OwnedStore, InBounds, NEW c \in Channels, NEW w, Become(c, w),
           Pending(w) => Pending(work[c]), UNCHANGED <<token, n>>
    PROVE  InBounds'
<1>1. Cardinality(Unfinished') \in Nat /\ Cardinality(Unfinished') <= Cardinality(Unfinished)
  BY UnfinishedAfter
<1> QED BY <1>1, Numbers DEF InBounds

LEMMA FormedKept ==
    ASSUME SharedStoreAssumption, OwnedStore, Formed, NEW c \in Channels, NEW w, Become(c, w),
           w.pc \in {"list", "reap"} => w.token \in Tokens /\ w.record = Absent,
           store' \subseteq store
    PROVE  Formed'
BY UnfinishedAfter DEF Formed

LEMMA Formless ==
    ASSUME NEW w \in WorkType
    PROVE  /\ \A pc : [w EXCEPT !.pc = pc].pc = pc /\ [w EXCEPT !.pc = pc].record = w.record
                      /\ [w EXCEPT !.pc = pc].token = w.token
           /\ \A pc, todo : LET v == [w EXCEPT !.pc = pc, !.todo = todo]
                            IN  v.pc = pc /\ v.record = w.record /\ v.token = w.token
BY DEF WorkType

LEMMA BoundsOfDone ==
    ASSUME SharedStoreAssumption, OwnedStore, InBounds, Formed, NEW c \in Channels, NEW end,
           Done(c, end), UNCHANGED <<token, n>>, store' \subseteq store
    PROVE  InBounds' /\ Formed'
<1> DEFINE w == [Idle EXCEPT !.outcome = end]
<1>1. w.pc = "idle"
  BY DEF Idle
<1>2. Become(c, w) /\ ~Pending(w)
  BY <1>1 DEF Done, Pending
<1> HIDE DEF w
<1> QED BY <1>1, <1>2, InBoundsKept, FormedKept

LEMMA BoundsOfStart ==
    ASSUME SharedStoreAssumption, OwnedStore, InBounds, Formed, NEW c \in Channels,
           NEW cmd \in {"read", "change_pin"}, Start(c, cmd)
    PROVE  InBounds' /\ Formed'
<1> DEFINE w == [Idle EXCEPT !.pc = "info", !.command = cmd]
<1>1. w.pc = "info"
  BY DEF Idle
<1>2. /\ Become(c, w) /\ UNCHANGED <<token, store>>
      /\ n.commands < MaxCommands /\ n' = [n EXCEPT !.commands = @ + 1]
  BY DEF Start
<1> HIDE DEF w
<1>3. Formed'
  BY <1>1, <1>2, FormedKept
<1>4. n'.commands = n.commands + 1 /\ n'.records = n.records
  BY <1>2 DEF OwnedStore, Shape
<1>5. Cardinality(Unfinished') \in Nat /\ Cardinality(Unfinished') <= Cardinality(Unfinished) + 1
  BY <1>2, UnfinishedAfter
<1> QED BY <1>2, <1>3, <1>4, <1>5, Numbers DEF InBounds

LEMMA BoundsOfPut ==
    ASSUME SharedStoreAssumption, OwnedStore, InBounds, Formed, NEW c \in Channels, Put(c)
    PROVE  InBounds' /\ Formed'
<1> DEFINE w == [work[c] EXCEPT !.pc = "send"]
<1> DEFINE new == [id |-> n'.records, token |-> work[c].token, device |-> Minted(c),
                   aaguid |-> ModelOf[DeviceOf[c]]]
<1>1. /\ work[c].pc = "reap" /\ n' = [n EXCEPT !.records = @ + 1] /\ store' = store \cup {new}
      /\ Become(c, w) /\ token' = token
  BY DEF Put, At
<1>2. work[c] \in WorkType /\ work[c].info.of = DeviceOf[c]
  BY <1>1, Actor DEF OwnBusiness
<1>3. work[c].token \in Tokens /\ work[c].record = Absent
  BY <1>1 DEF Formed
<1>4. w.pc = "send" /\ w.record = Absent
  BY <1>2, <1>3, Formless
<1>5. n'.commands = n.commands /\ n'.records = n.records + 1
  BY <1>1 DEF OwnedStore, Shape
<1>6. Minted(c) \in Authenticators \cup {Absent}
  BY <1>2 DEF Minted, decrypt_enc_identifier, SharedStoreAssumption
<1>7. new \in StoredType
  BY <1>3, <1>5, <1>6, Numbers DEF StoredType, SharedStoreAssumption
<1>8. Pending(work[c]) /\ ~Pending(w)
  BY <1>1, <1>4 DEF Pending
<1> HIDE DEF w, new
<1>9. Cardinality(Unfinished') \in Nat /\ Cardinality(Unfinished') + 1 = Cardinality(Unfinished)
  BY <1>1, <1>8, UnfinishedAfter
<1>10. InBounds'
  <2>1. n'.commands <= MaxCommands
    BY <1>5 DEF InBounds
  <2>2. n'.records + Cardinality(Unfinished') <= n'.commands
    BY <1>5, <1>9, Numbers DEF InBounds
  <2>3. ASSUME NEW d \in Authenticators
        PROVE  token'[d].nr + Cardinality(Unfinished') <= n'.commands
    BY <1>1, <1>5, <1>9, Numbers DEF InBounds
  <2> QED BY <2>1, <2>2, <2>3 DEF InBounds
<1>11. Formed'
  <2>1. store' \subseteq StoredType
    BY <1>1, <1>7 DEF Formed
  <2>2. ASSUME NEW e \in Channels, work'[e].pc \in {"list", "reap"}
        PROVE  work'[e].token \in Tokens /\ work'[e].record = Absent
    <3>1. e # c /\ work'[e] = work[e]
      BY <1>1, <1>4, <2>2, UnfinishedAfter
    <3> QED BY <2>2, <3>1 DEF Formed
  <2> QED BY <2>1, <2>2 DEF Formed
<1> QED BY <1>10, <1>11

LEMMA BoundsOfChange ==
    ASSUME SharedStoreAssumption, OwnedStore, InBounds, Formed, NEW c \in Channels, change_pin(c)
    PROVE  InBounds' /\ Formed'
<1> DEFINE w == IF work[c].record = Absent THEN [Idle EXCEPT !.outcome = "ok"]
                ELSE [work[c] EXCEPT !.pc = "drop"]
<1>1. /\ work[c].pc = "change" /\ token' = [token EXCEPT ![DeviceOf[c]].nr = @ + 1]
      /\ Become(c, w) /\ UNCHANGED <<store, n>>
  BY DEF change_pin, At, Done
<1>2. w.pc \in {"idle", "drop"}
  BY Actor, Formless DEF Idle
<1>3. Pending(work[c]) /\ ~Pending(w)
  BY <1>1, <1>2 DEF Pending
<1> HIDE DEF w
<1>4. Cardinality(Unfinished') \in Nat /\ Cardinality(Unfinished') + 1 = Cardinality(Unfinished)
  BY <1>1, <1>3, UnfinishedAfter
<1>5. \A d \in Authenticators : token'[d].nr \in Nat /\ token'[d].nr <= token[d].nr + 1
  <2>1. DeviceOf[c] \in Authenticators /\ token \in [Authenticators -> Tokens]
    BY DEF SharedStoreAssumption, OwnedStore, Shape
  <2>2. token'[DeviceOf[c]] = [token[DeviceOf[c]] EXCEPT !.nr = @ + 1]
        /\ \A d \in Authenticators : d # DeviceOf[c] => token'[d] = token[d]
    BY <1>1, <2>1
  <2>3. token[DeviceOf[c]] \in Tokens
    BY <2>1
  <2>4. token'[DeviceOf[c]].nr = token[DeviceOf[c]].nr + 1
    BY <2>2, <2>3 DEF Tokens
  <2>5. ASSUME NEW d \in Authenticators
        PROVE  token'[d].nr \in Nat /\ token'[d].nr <= token[d].nr + 1
    <3>1. token[d].nr \in Nat /\ token'[d] \in {token'[DeviceOf[c]], token[d]}
      BY <2>2, Numbers
    <3>2. CASE d = DeviceOf[c]
      <4>1. token'[d].nr = token[d].nr + 1
        BY <2>4, <3>2
      <4> QED BY <3>1, <4>1
    <3>3. CASE d # DeviceOf[c]
      <4>1. token'[d].nr = token[d].nr
        BY <2>2, <3>3
      <4> QED BY <3>1, <4>1
    <3> QED BY <3>2, <3>3
  <2> QED BY <2>5
<1>6. InBounds'
  <2>1. n'.commands <= MaxCommands
    BY <1>1 DEF InBounds
  <2>2. n'.records + Cardinality(Unfinished') <= n'.commands
    BY <1>1, <1>4, Numbers DEF InBounds
  <2>3. ASSUME NEW d \in Authenticators
        PROVE  token'[d].nr + Cardinality(Unfinished') <= n'.commands
    <3>1. token'[d].nr \in Nat /\ token'[d].nr <= token[d].nr + 1 /\ token[d].nr \in Nat
      BY <1>5, Numbers
    <3>2. token[d].nr + Cardinality(Unfinished) <= n.commands
      BY DEF InBounds
    <3> QED BY <1>1, <1>4, <3>1, <3>2, Numbers
  <2> QED BY <2>1, <2>2, <2>3 DEF InBounds
<1>7. Formed'
  BY <1>1, <1>2, FormedKept
<1> QED BY <1>6, <1>7

(* The other steps of a channel.                                           *)
LEMMA BoundsOfStep ==
    ASSUME SharedStoreAssumption, OwnedStore, InBounds, Formed, NEW c \in Channels, Step(c)
    PROVE  InBounds' /\ Formed'
<1> DEFINE v == work[c]
<1>0. v \in WorkType /\ OwnBusiness(c, v)
  BY Actor
<1>1. ASSUME NEW w, Become(c, w), UNCHANGED <<token, n>>, store' \subseteq store, Pending(w) => Pending(v),
             w.pc \in {"list", "reap"} => w.token \in Tokens /\ w.record = Absent
      PROVE  InBounds' /\ Formed'
  BY <1>1, InBoundsKept, FormedKept
<1>2. CASE GetInfo(c)
  <2> DEFINE w == [v EXCEPT !.info = token[DeviceOf[c]], !.pc = IF v.rejected THEN "mint" ELSE "recognize"]
  <2>1. v.pc = "info" /\ Become(c, w) /\ UNCHANGED <<token, store, n>>
    BY <1>2 DEF GetInfo, At
  <2>2. w.pc \in {"mint", "recognize"} /\ Pending(v)
    BY <1>0, <2>1 DEF WorkType, Pending
  <2> HIDE DEF w
  <2> QED BY <1>1, <2>1, <2>2
<1>3. CASE recognize_authenticator(c)
  <2>1. v.pc = "recognize" /\ UNCHANGED <<token, store, n>> /\ Pending(v)
    BY <1>3 DEF recognize_authenticator, At, Pending
  <2>2. PICK w : Become(c, w) /\ w.pc \in {"change", "send", "mint"}
    <3>1. CASE Recognized(v.info) = {}
      <4> DEFINE w == [v EXCEPT !.pc = IF v.command = "change_pin" THEN "change"
                                       ELSE IF FALSE THEN "send" ELSE "mint"]
      <4>1. Become(c, w)
        BY <1>3, <3>1 DEF recognize_authenticator
      <4>2. w.pc \in {"change", "send", "mint"}
        BY <1>0, Formless
      <4> QED BY <4>1, <4>2
    <3>2. CASE Recognized(v.info) # {}
      <4>1. PICK r \in Recognized(v.info) :
              Become(c, [v EXCEPT !.pc = IF v.command = "change_pin" THEN "change"
                                         ELSE IF TRUE THEN "send" ELSE "mint",
                                  !.record = r.id, !.token = r.token])
        BY <1>3, <3>2 DEF recognize_authenticator
      <4> DEFINE w == [v EXCEPT !.pc = IF v.command = "change_pin" THEN "change"
                                         ELSE IF TRUE THEN "send" ELSE "mint",
                                  !.record = r.id, !.token = r.token]
      <4>2. w.pc \in {"change", "send", "mint"}
        BY <1>0 DEF WorkType
      <4> QED BY <4>1, <4>2
    <3> QED BY <3>1, <3>2
  <2> QED BY <1>1, <2>1, <2>2
<1>4. CASE Mint(c)
  <2> DEFINE w == [v EXCEPT !.pc = "list", !.token = token[DeviceOf[c]], !.record = Absent]
  <2>1. v.pc = "mint" /\ Become(c, w) /\ UNCHANGED <<token, store, n>> /\ Pending(v)
    BY <1>4 DEF Mint, At, Pending
  <2>2. token[DeviceOf[c]] \in Tokens
    BY DEF SharedStoreAssumption, OwnedStore, Shape
  <2>3. w.token \in Tokens /\ w.record = Absent
    BY <1>0, <2>2 DEF WorkType
  <2> HIDE DEF w
  <2> QED BY <1>1, <2>1, <2>3
<1>5. CASE List(c)
  <2> DEFINE w == [v EXCEPT !.pc = "reap", !.todo = reap_superseded_records(c)]
  <2>1. v.pc = "list" /\ Become(c, w) /\ UNCHANGED <<token, store, n>> /\ Pending(v)
    BY <1>5 DEF List, At, Pending
  <2>2. w.token = v.token /\ w.record = v.record
    BY <1>0, Formless
  <2>3. w.token \in Tokens /\ w.record = Absent
    BY <2>1, <2>2 DEF Formed
  <2> HIDE DEF w
  <2> QED BY <1>1, <2>1, <2>3
<1>6. CASE Reap(c)
  <2>1. PICK id \in v.todo : Delete(id) /\ Become(c, [v EXCEPT !.todo = @ \ {id}])
    BY <1>6 DEF Reap
  <2> DEFINE w == [v EXCEPT !.todo = @ \ {id}]
  <2>2. v.pc = "reap" /\ UNCHANGED <<token, n>> /\ Pending(v)
    BY <1>6 DEF Reap, At, Pending
  <2>3. w.token = v.token /\ w.record = v.record
    BY <1>0 DEF WorkType
  <2>4. w.token \in Tokens /\ w.record = Absent
    BY <2>2, <2>3 DEF Formed
  <2>5. store' \subseteq store
    BY <2>1 DEF Delete
  <2> HIDE DEF w
  <2>6. Become(c, w)
    BY <2>1 DEF w
  <2> QED BY <1>1, <2>2, <2>4, <2>5, <2>6
<1>7. CASE Put(c)
  BY <1>7, BoundsOfPut
<1>8. CASE change_pin(c)
  BY <1>8, BoundsOfChange
<1>9. CASE Accepted(c)
  BY <1>9, BoundsOfDone DEF Accepted
<1>10. CASE Refused(c)
  <2>1. CASE v.record = Absent
    BY <1>10, <2>1, BoundsOfDone DEF Refused
  <2>2. CASE v.record # Absent
    <3> DEFINE w == [v EXCEPT !.pc = "evict"]
    <3>1. v.pc = "send" /\ Become(c, w) /\ UNCHANGED <<token, store, n>>
      BY <1>10, <2>2 DEF Refused, At
    <3>2. Pending(v) /\ w.pc = "evict"
      BY <1>0, <2>2, <3>1, Formless DEF Pending
    <3> HIDE DEF w
    <3> QED BY <1>1, <3>1, <3>2
  <2> QED BY <2>1, <2>2
<1>11. CASE Evict(c)
  <2> DEFINE w == [v EXCEPT !.pc = "info", !.rejected = TRUE]
  <2>1. v.pc = "evict" /\ Become(c, w) /\ UNCHANGED <<token, n>> /\ Pending(v) /\ store' \subseteq store
    BY <1>11 DEF Evict, At, Pending, Delete
  <2>2. w.pc = "info"
    BY <1>0 DEF WorkType
  <2> HIDE DEF w
  <2> QED BY <1>1, <2>1, <2>2
<1>12. CASE Drop(c)
  <2>1. Done(c, "ok") /\ UNCHANGED <<token, n>> /\ store' \subseteq store
    BY <1>12 DEF Drop, Delete
  <2> QED BY <2>1, BoundsOfDone
<1> QED
  BY <1>2, <1>3, <1>4, <1>5, <1>6, <1>7, <1>8, <1>9, <1>10, <1>11, <1>12 DEF Step

LEMMA BoundsInit == ASSUME SharedStoreAssumption, Init PROVE InBounds /\ Formed
<1>1. \A c \in Channels : work[c].pc = "idle" /\ ~Pending(work[c])
  BY DEF Init, Idle, Pending
<1>2. Unfinished = {}
  BY <1>1 DEF Unfinished
<1>3. Cardinality(Unfinished) = 0
  BY <1>2, FS_EmptySet
<1>4. \A d \in Authenticators : token[d].nr = 0
  BY DEF Init, Token
<1>5. InBounds
  BY <1>3, <1>4 DEF Init, InBounds, SharedStoreAssumption
<1> QED BY <1>1, <1>5 DEF Init, Formed

LEMMA BoundsNext ==
    ASSUME SharedStoreAssumption, OwnedStore, InBounds, Formed, [Next]_storevars
    PROVE  InBounds' /\ Formed'
<1>1. CASE UNCHANGED storevars
  BY <1>1 DEF storevars, InBounds, Formed, Unfinished, Pending
<1>2. ASSUME NEW c \in Channels, NEW cmd \in {"read", "change_pin"}, Start(c, cmd)
      PROVE  InBounds' /\ Formed'
  BY <1>2, BoundsOfStart
<1>3. ASSUME NEW c \in Channels, Step(c) PROVE InBounds' /\ Formed'
  BY <1>3, BoundsOfStep
<1>4. ASSUME NEW c \in Channels, Abandon(c) PROVE InBounds' /\ Formed'
  BY <1>4, BoundsOfDone DEF Abandon
<1> QED BY <1>1, <1>2, <1>3, <1>4 DEF Next

LEMMA BoundsTypes ==
    ASSUME SharedStoreAssumption, OwnedStore, InBounds, Formed PROVE TypeOK
<1>1. \A d \in Authenticators : token[d].of = d /\ token[d].nr \in 0..MaxCommands
  BY Numbers DEF OwnedStore, Shape, InBounds
<1>2. ASSUME NEW r \in store PROVE r \in Record
  <2>1. r \in StoredType /\ r.id \in 1..n.records
    BY DEF Formed, OwnedStore, Shape
  <2>2. r.id \in 1..(MaxCommands * 2)
    BY <2>1, Numbers DEF InBounds
  <2> QED BY <2>1, <2>2 DEF StoredType, Record, Tokens
<1>3. ASSUME NEW c \in Channels
      PROVE  /\ work[c].pc \in Pcs /\ work[c].todo \subseteq 1..n.records
  BY Actor DEF WorkType, OwnBusiness, Mine
<1> QED BY <1>1, <1>2, <1>3 DEF TypeOK, Pcs, InBounds

(* Whatever the channels do, a record is removed only on behalf of its own *)
(* authenticator, and there are never more records of a device than        *)
(* channels to it (pin_uv_auth_token.rs:340-497).                          *)
THEOREM KeptApart == ASSUME SharedStoreAssumption PROVE Spec => RecordsAreKeptApart
<1>1. Init => OwnedStore
  BY OwnedStoreInit
<1>2. OwnedStore /\ [Next]_storevars => OwnedStore'
  BY OwnedStoreStep
<1>3. OwnedStore => NoPile
  BY OwnedDoNotPile
<1>4. OwnedStore /\ NoPile' /\ [Next]_storevars => [KeepsApart]_storevars
  BY OwnedStoreStep DEF NoPile, KeepsApart, RemovedForItsOwn
<1> QED BY <1>1, <1>2, <1>3, <1>4, PTL DEF Spec, RecordsAreKeptApart

(* The types and the bounds of the store: no command puts more than one    *)
(* record, or changes the PIN twice (pin_uv_auth_token.rs:340-497).        *)
THEOREM StoreTypesAreCorrect == ASSUME SharedStoreAssumption PROVE Spec => []TypeOK
<1> DEFINE I == OwnedStore /\ InBounds /\ Formed
<1>1. Init => I
  BY OwnedStoreInit, BoundsInit
<1>2. I /\ [Next]_storevars => I'
  BY OwnedStoreStep, BoundsNext
<1>3. I => TypeOK
  BY BoundsTypes
<1> HIDE DEF I
<1> QED BY <1>1, <1>2, <1>3, PTL DEF Spec

-------------------------------------------------------------------------------
(* User interfaces.                                                        *)

CONSTANTS Receivers, Pins, NoPin, Capacity, MaxPrompts

VARIABLES task, subscribed, unread, held, answer, told, ended

Ux == INSTANCE UxUpdates

(* There is an answer when somebody was told so, and then just one.        *)
OneTold ==
    \A p \in Ux!Prompts :
        /\ told[p] = {} <=> answer[p] = NoPin
        /\ told[p] # {} => \E r \in Receivers : told[p] = {<<r, answer[p]>>}

(* What is answered, or was given up, has no copy left.                    *)
SettledIsGone ==
    \A p \in Ux!Prompts : (told[p] # {} \/ ended[p] = "hung up") => ~Ux!Alive(p)

(* How a wait ended agrees with its reply channel.                         *)
EndsAgree ==
    \A p \in Ux!Prompts :
        /\ ended[p] = "pin" => told[p] # {}
        /\ ended[p] = "hung up" => told[p] = {}
        /\ Ux!Waits(p) => ended[p] = "no"

(* Nothing is known of the prompts that are still to come.                 *)
FutureIsBlank ==
    \A p \in Ux!Prompts : p > task.prompt => ~Ux!Alive(p) /\ ended[p] = "no" /\ told[p] = {}

UxInv == Ux!TypeOK /\ OneTold /\ SettledIsGone /\ EndsAgree /\ FutureIsBlank

(* What a queue holds was sent now or was in it before.                    *)
BroughtBy(m, before, after) ==
    \A i \in 1..Len(after) : after[i] = m \/ \E j \in 1..Len(before) : after[i] = before[j]

(* A broadcast brings nothing into a queue but its own update.             *)
LEMMA BroadcastBrings ==
    ASSUME Ux!UxAssumption, NEW S, NEW q \in Seq(S), NEW m \in S
    PROVE  /\ Ux!Newest(Append(q, m)) \in Seq(S)
           /\ BroughtBy(m, q, Ux!Newest(Append(q, m)))
<1>1. Append(q, m) \in Seq(S) /\ Len(Append(q, m)) = Len(q) + 1 /\ Append(q, m) # <<>>
  BY AppendProperties
<1>2. \A i \in 1..Len(Append(q, m)) :
        Append(q, m)[i] = m \/ \E j \in 1..Len(q) : Append(q, m)[i] = q[j]
  BY AppendProperties
<1>3. CASE Len(Append(q, m)) > Capacity
  <2>1. /\ Ux!Newest(Append(q, m)) = Tail(Append(q, m))
        /\ Tail(Append(q, m)) \in Seq(S)
        /\ Len(Tail(Append(q, m))) = Len(Append(q, m)) - 1
    BY <1>1, <1>3, HeadTailProperties DEF Ux!Newest, Ux!UxAssumption
  <2>2. \A i \in 1..Len(Tail(Append(q, m))) :
          /\ Tail(Append(q, m))[i] = Append(q, m)[i + 1]
          /\ i + 1 \in 1..Len(Append(q, m))
    BY <1>1, <2>1, HeadTailProperties
  <2> QED BY <1>2, <2>1, <2>2 DEF BroughtBy
<1>4. CASE ~(Len(Append(q, m)) > Capacity)
  BY <1>1, <1>2, <1>4 DEF Ux!Newest, BroughtBy, Ux!UxAssumption
<1> QED BY <1>3, <1>4

(* So after a broadcast only the prompt that was sent can be new.          *)
LEMMA BroadcastAlive ==
    ASSUME Ux!UxAssumption, Ux!TypeOK, NEW m \in 0..MaxPrompts, Ux!Broadcast(m), UNCHANGED held
    PROVE  /\ unread' \in [Receivers -> Seq(0..MaxPrompts)]
           /\ \A p \in Ux!Prompts : Ux!Alive(p)' => Ux!Alive(p) \/ p = m
<1>1. \A r \in Receivers :
        /\ unread[r] \in Seq(0..MaxPrompts)
        /\ unread'[r] = IF r \in subscribed THEN Ux!Newest(Append(unread[r], m)) ELSE unread[r]
  BY DEF Ux!TypeOK, Ux!Broadcast
<1>2. \A r \in Receivers : unread'[r] \in Seq(0..MaxPrompts)
  BY <1>1, BroadcastBrings
<1>3. unread' \in [Receivers -> Seq(0..MaxPrompts)]
  BY <1>2 DEF Ux!Broadcast
<1>4. ASSUME NEW r \in Receivers, NEW p \in Ux!Prompts, Ux!Unread(r, p)'
      PROVE  Ux!Unread(r, p) \/ p = m
  <2>1. PICK i \in 1..Len(unread'[r]) : unread'[r][i] = p
    BY <1>4 DEF Ux!Unread
  <2>2. CASE r \in subscribed
    <3>1. BroughtBy(m, unread[r], Ux!Newest(Append(unread[r], m)))
      BY <1>1, BroadcastBrings
    <3>2. unread'[r] = Ux!Newest(Append(unread[r], m))
      BY <1>1, <2>2
    <3> QED BY <2>1, <3>1, <3>2 DEF Ux!Unread, BroughtBy
  <2>3. CASE r \notin subscribed
    BY <1>1, <2>1, <2>3 DEF Ux!Unread
  <2> QED BY <2>2, <2>3
<1> QED BY <1>3, <1>4 DEF Ux!Alive

(* Taking updates and dropping them makes no copy of a prompt.             *)
LEMMA TakingAlive ==
    ASSUME Ux!UxAssumption, Ux!TypeOK, NEW r \in Receivers, Ux!Receive(r) \/ Ux!Unsubscribe(r)
    PROVE  /\ unread' \in [Receivers -> Seq(0..MaxPrompts)]
           /\ held' \in [Receivers -> SUBSET Ux!Prompts]
           /\ \A p \in Ux!Prompts : Ux!Alive(p)' => Ux!Alive(p)
<1>1. unread[r] \in Seq(0..MaxPrompts)
  BY DEF Ux!TypeOK
<1>2. CASE Ux!Receive(r)
  <2> DEFINE queue == unread[r]
  <2>0. queue \in Seq(0..MaxPrompts) /\ queue # <<>>
    BY <1>1, <1>2 DEF Ux!Receive
  <2>a. /\ Tail(queue) \in Seq(0..MaxPrompts) /\ Len(Tail(queue)) = Len(queue) - 1
        /\ Head(queue) \in 0..MaxPrompts
        /\ \A i \in 1..Len(Tail(queue)) : Tail(queue)[i] = queue[i + 1]
    BY <2>0, HeadTailProperties
  <2>b. Len(queue) \in Nat /\ Len(queue) > 0 /\ Head(queue) = queue[1]
    BY <2>0, EmptySeq
  <2>1. /\ Tail(queue) \in Seq(0..MaxPrompts)
        /\ Head(queue) \in 0..MaxPrompts /\ Head(queue) = queue[1]
        /\ 1 \in 1..Len(queue)
        /\ \A i \in 1..Len(Tail(queue)) :
             Tail(queue)[i] = queue[i + 1] /\ i + 1 \in 1..Len(queue)
    BY <2>a, <2>b
  <2>2. /\ unread' = [unread EXCEPT ![r] = Tail(@)]
        /\ held' = [held EXCEPT ![r] = @ \cup ({Head(unread[r])} \ {0})]
    BY <1>2 DEF Ux!Receive
  <2>3. /\ unread' \in [Receivers -> Seq(0..MaxPrompts)]
        /\ held' \in [Receivers -> SUBSET Ux!Prompts]
    <3>1. unread \in [Receivers -> Seq(0..MaxPrompts)] /\ held \in [Receivers -> SUBSET Ux!Prompts]
      BY DEF Ux!TypeOK
    <3>2. {Head(queue)} \ {0} \subseteq Ux!Prompts
      BY <2>1 DEF Ux!Prompts, Ux!UxAssumption
    <3>3. unread' \in [Receivers -> Seq(0..MaxPrompts)]
      BY <2>1, <2>2, <3>1
    <3>4. held' \in [Receivers -> SUBSET Ux!Prompts]
      BY <2>2, <3>1, <3>2
    <3> QED BY <3>3, <3>4
  <2>4. ASSUME NEW p \in Ux!Prompts, NEW q \in Receivers, p \in held'[q] \/ Ux!Unread(q, p)'
        PROVE  p \in held[q] \/ Ux!Unread(q, p)
    <3>1. CASE q # r
      BY <2>2, <2>4, <3>1 DEF Ux!TypeOK, Ux!Unread
    <3>2. CASE q = r /\ p \in held'[q]
      <4>1. p \in held[q] \/ p = Head(queue)
        BY <2>2, <3>2 DEF Ux!TypeOK
      <4> QED BY <2>1, <3>2, <4>1 DEF Ux!Unread
    <3>3. CASE q = r /\ Ux!Unread(q, p)'
      <4>1. unread'[r] = Tail(queue)
        BY <2>2 DEF Ux!TypeOK
      <4>2. PICK i \in 1..Len(Tail(queue)) : Tail(queue)[i] = p
        BY <3>3, <4>1 DEF Ux!Unread
      <4> QED BY <2>1, <3>3, <4>2 DEF Ux!Unread
    <3> QED BY <2>4, <3>1, <3>2, <3>3
  <2> QED BY <2>3, <2>4 DEF Ux!Alive
<1>3. CASE Ux!Unsubscribe(r)
  <2>1. unread' = [unread EXCEPT ![r] = <<>>] /\ held' = held
    BY <1>3 DEF Ux!Unsubscribe
  <2>2. \A q \in Receivers : unread'[q] = IF q = r THEN <<>> ELSE unread[q]
    BY <2>1 DEF Ux!TypeOK
  <2>3. unread' \in [Receivers -> Seq(0..MaxPrompts)]
    <3>1. <<>> \in Seq(0..MaxPrompts)
      BY EmptySeq
    <3> QED BY <2>1, <3>1 DEF Ux!TypeOK
  <2>4. ASSUME NEW p \in Ux!Prompts, NEW q \in Receivers, Ux!Unread(q, p)'
        PROVE  Ux!Unread(q, p)
    BY <2>2, <2>4 DEF Ux!Unread
  <2> QED BY <2>1, <2>3, <2>4 DEF Ux!Alive, Ux!TypeOK
<1> QED BY <1>2, <1>3

(* Whoever takes or drops copies leaves the rest as it was, which is all   *)
(* the invariant asks for.                                                 *)
LEMMA FewerCopies ==
    ASSUME Ux!UxAssumption, UxInv, \A p \in Ux!Prompts : Ux!Alive(p)' => Ux!Alive(p), Ux!TypeOK',
           UNCHANGED <<task, answer, told, ended>>
    PROVE  UxInv'
<1>1. \A p \in Ux!Prompts : Ux!Waits(p)' <=> Ux!Waits(p)
  BY DEF Ux!Waits
<1>2. OneTold' /\ SettledIsGone'
  BY DEF UxInv, OneTold, SettledIsGone
<1>3. EndsAgree' /\ FutureIsBlank'
  BY <1>1 DEF UxInv, EndsAgree, FutureIsBlank
<1> QED BY <1>2, <1>3 DEF UxInv

(* The ceremony's own steps that send nothing and end no wait.             *)
LEMMA TaskMovesOn ==
    ASSUME Ux!UxAssumption, UxInv, Ux!TypeOK', UNCHANGED <<unread, held, answer, told, ended>>,
           task'.pc # "wait", task'.prompt = task.prompt
    PROVE  UxInv'
<1>1. \A p \in Ux!Prompts : Ux!Alive(p)' = Ux!Alive(p)
  BY DEF Ux!Alive, Ux!Unread
<1>2. OneTold' /\ SettledIsGone'
  BY <1>1 DEF UxInv, OneTold, SettledIsGone
<1>3. EndsAgree' /\ FutureIsBlank'
  BY <1>1 DEF UxInv, EndsAgree, FutureIsBlank, Ux!Waits
<1> QED BY <1>2, <1>3 DEF UxInv

(* Prompts of a ceremony begin at 1, and one is 0 when there was none.     *)
LEMMA PromptIsNumber ==
    ASSUME Ux!UxAssumption, Ux!TypeOK
    PROVE  task.prompt \in Nat /\ task.prompt <= MaxPrompts
<1>1. task.prompt \in 0..MaxPrompts
  BY DEF Ux!TypeOK
<1> QED BY <1>1 DEF Ux!UxAssumption

LEMMA LaterIsAnother ==
    ASSUME Ux!UxAssumption, Ux!TypeOK
    PROVE  \A p \in Ux!Prompts : p > task.prompt => p # task.prompt
BY PromptIsNumber DEF Ux!Prompts, Ux!UxAssumption

LEMMA AskKeepsInv == ASSUME Ux!UxAssumption, UxInv, Ux!Ask PROVE UxInv'
<1> DEFINE new == task.prompt + 1
<1>1. /\ Ux!TypeOK /\ Ux!Broadcast(new) /\ task'.pc = "wait" /\ task'.prompt = new
      /\ task' = [pc |-> "wait", prompt |-> new]
      /\ UNCHANGED <<subscribed, held, answer, told, ended>>
  BY DEF UxInv, Ux!Ask
<1>2. new \in Ux!Prompts /\ new \in 0..MaxPrompts /\ new > task.prompt
  BY <1>1, PromptIsNumber DEF Ux!Ask, Ux!Prompts, Ux!UxAssumption
<1>3. /\ unread' \in [Receivers -> Seq(0..MaxPrompts)]
      /\ \A p \in Ux!Prompts : Ux!Alive(p)' => Ux!Alive(p) \/ p = new
  BY <1>1, <1>2, BroadcastAlive
<1>4. Ux!TypeOK'
  BY <1>1, <1>2, <1>3 DEF Ux!TypeOK
<1>5. ~Ux!Alive(new) /\ ended[new] = "no" /\ told[new] = {}
  BY <1>2 DEF UxInv, FutureIsBlank
<1>6. OneTold'
  BY <1>1 DEF UxInv, OneTold
<1>7. SettledIsGone'
  BY <1>1, <1>3, <1>5 DEF UxInv, SettledIsGone
<1>8. EndsAgree'
  BY <1>1, <1>5 DEF UxInv, EndsAgree, Ux!Waits
<1>9. FutureIsBlank'
  <2> SUFFICES ASSUME NEW p \in Ux!Prompts, p > new
               PROVE  ~Ux!Alive(p)' /\ ended[p] = "no" /\ told[p] = {}
    BY <1>1 DEF FutureIsBlank
  <2>1. p > task.prompt /\ p # new
    BY <1>1, <1>2, PromptIsNumber DEF Ux!Prompts
  <2> QED BY <1>3, <2>1 DEF UxInv, FutureIsBlank
<1> QED BY <1>4, <1>6, <1>7, <1>8, <1>9 DEF UxInv

(* The three ways a wait can end.                                          *)
LEMMA WaitEndsKeepsInv ==
    ASSUME Ux!UxAssumption, UxInv, Ux!Resumes \/ Ux!NoPinProvided \/ Ux!Dropped
    PROVE  UxInv'
<1>1. PICK how \in {"pin", "hung up", "dropped"} :
        /\ ended' = [ended EXCEPT ![task.prompt] = how]
        /\ how = "pin" => answer[task.prompt] # NoPin
        /\ how = "hung up" => ~Ux!Alive(task.prompt) /\ answer[task.prompt] = NoPin
  BY DEF Ux!Resumes, Ux!NoPinProvided, Ux!Dropped, Ux!HungUp
<1>2. /\ Ux!TypeOK /\ task.pc = "wait" /\ task'.pc # "wait" /\ task'.prompt = task.prompt
      /\ task' \in [pc : {"idle", "run", "wait"}, prompt : 0..MaxPrompts]
      /\ UNCHANGED <<subscribed, unread, held, answer, told>>
  BY DEF UxInv, Ux!TypeOK, Ux!Resumes, Ux!NoPinProvided, Ux!Dropped
<1>3. \A p \in Ux!Prompts : ended'[p] = IF p = task.prompt THEN how ELSE ended[p]
  BY <1>1, <1>2 DEF Ux!TypeOK
<1>4. \A p \in Ux!Prompts : Ux!Alive(p)' = Ux!Alive(p)
  BY <1>2 DEF Ux!Alive, Ux!Unread
<1>5. Ux!TypeOK'
  BY <1>1, <1>2 DEF Ux!TypeOK
<1>9. OneTold'
  BY <1>2 DEF UxInv, OneTold
<1>6. SettledIsGone'
  BY <1>1, <1>2, <1>3, <1>4 DEF UxInv, SettledIsGone
<1>7. EndsAgree'
  BY <1>1, <1>2, <1>3 DEF UxInv, EndsAgree, OneTold, Ux!Waits
<1>8. FutureIsBlank'
  <2> SUFFICES ASSUME NEW p \in Ux!Prompts, p > task.prompt
               PROVE  ~Ux!Alive(p)' /\ ended'[p] = "no" /\ told'[p] = {}
    BY <1>2 DEF FutureIsBlank
  <2>0. Ux!TypeOK
    BY <1>2
  <2>1. p # task.prompt
    BY <2>0, LaterIsAnother
  <2> QED BY <1>2, <1>3, <1>4, <2>1 DEF UxInv, FutureIsBlank
<1> QED BY <1>5, <1>9, <1>6, <1>7, <1>8 DEF UxInv

(* An answer is sent by the last copy, so its prompt has none afterwards;  *)
(* any other call only drops a copy.                                       *)
LEMMA SettlesKeepsInv ==
    ASSUME Ux!UxAssumption, UxInv, NEW r \in Receivers, NEW p \in Ux!Prompts, Ux!Settles(r, p)
    PROVE  UxInv'
<1>1. /\ Ux!TypeOK /\ p \in held[r] /\ held' = [held EXCEPT ![r] = @ \ {p}]
      /\ UNCHANGED <<task, subscribed, unread, ended>>
  BY DEF UxInv, Ux!Settles, Ux!cancel, Ux!send_pin
<1>2. \A q \in Receivers : held'[q] = IF q = r THEN held[r] \ {p} ELSE held[q]
  BY <1>1 DEF Ux!TypeOK
<1>3. held' \in [Receivers -> SUBSET Ux!Prompts]
  BY <1>1 DEF Ux!TypeOK
<1>4. \A s \in Ux!Prompts : Ux!Alive(s)' => Ux!Alive(s)
  BY <1>1, <1>2 DEF Ux!Alive, Ux!Unread
<1>5. CASE UNCHANGED <<answer, told>>
  <2>1. Ux!TypeOK'
    BY <1>1, <1>3, <1>5 DEF Ux!TypeOK
  <2> QED BY <1>1, <1>4, <1>5, <2>1, FewerCopies
<1>6. ASSUME NEW pin \in Pins, Ux!LastCopy(r, p), Ux!Waits(p),
             answer' = [answer EXCEPT ![p] = pin],
             told' = [told EXCEPT ![p] = @ \cup {<<r, pin>>}]
      PROVE  UxInv'
  <2>1. told[p] = {} /\ ended[p] = "no" /\ pin # NoPin /\ task.prompt = p
    BY <1>1, <1>6 DEF UxInv, SettledIsGone, EndsAgree, Ux!Alive, Ux!Waits, Ux!UxAssumption
  <2>2. \A s \in Ux!Prompts :
          /\ answer'[s] = IF s = p THEN pin ELSE answer[s]
          /\ told'[s] = IF s = p THEN {<<r, pin>>} ELSE told[s]
    BY <1>1, <1>6, <2>1 DEF Ux!TypeOK
  <2>3. Ux!TypeOK'
    <3>1. answer' \in [Ux!Prompts -> Pins \cup {NoPin}]
      BY <1>1, <1>6 DEF Ux!TypeOK
    <3>2. \A s \in Ux!Prompts : told'[s] \in SUBSET (Receivers \X Pins)
      <4>1. {<<r, pin>>} \in SUBSET (Receivers \X Pins)
        OBVIOUS
      <4> QED BY <1>1, <2>2, <4>1 DEF Ux!TypeOK
    <3>3. told' \in [Ux!Prompts -> SUBSET (Receivers \X Pins)]
      BY <1>1, <1>6, <3>2 DEF Ux!TypeOK
    <3> QED BY <1>1, <1>3, <1>6, <3>1, <3>3 DEF Ux!TypeOK
  <2>4. ~Ux!Alive(p)'
    BY <1>1, <1>2, <1>6 DEF Ux!Alive, Ux!Unread, Ux!LastCopy
  <2>5. OneTold'
    BY <2>1, <2>2 DEF UxInv, OneTold
  <2>6. SettledIsGone'
    BY <1>1, <1>4, <2>2, <2>4 DEF UxInv, SettledIsGone
  <2>7. EndsAgree'
    BY <1>1, <2>1, <2>2 DEF UxInv, EndsAgree, Ux!Waits
  <2>8. FutureIsBlank'
    <3> SUFFICES ASSUME NEW s \in Ux!Prompts, s > p
                 PROVE  ~Ux!Alive(s)' /\ ended[s] = "no" /\ told'[s] = {}
      BY <1>1, <2>1 DEF FutureIsBlank
    <3>1. s # p
      BY DEF Ux!Prompts
    <3> QED BY <1>4, <2>1, <2>2, <3>1 DEF UxInv, FutureIsBlank
  <2> QED BY <2>3, <2>5, <2>6, <2>7, <2>8 DEF UxInv
<1>7. CASE Ux!cancel(r, p)
  BY <1>1, <1>5, <1>7 DEF Ux!cancel, Ux!TypeOK
<1>8. ASSUME NEW pin \in Pins, Ux!send_pin(r, p, pin)
      PROVE  UxInv'
  <2>1. CASE Ux!into_inner(r, p) /\ Ux!Waits(p)
    BY <1>6, <1>8, <2>1 DEF Ux!send_pin, Ux!into_inner
  <2>2. CASE ~(Ux!into_inner(r, p) /\ Ux!Waits(p))
    BY <1>5, <1>8, <2>2 DEF Ux!send_pin
  <2> QED BY <2>1, <2>2
<1> QED BY <1>7, <1>8 DEF Ux!Settles

LEMMA UxInvFirst == ASSUME Ux!UxAssumption, Ux!Init PROVE UxInv
<1>1. \A p \in Ux!Prompts : ~Ux!Alive(p)
  BY DEF Ux!Init, Ux!Alive, Ux!Unread
<1>2. Ux!TypeOK
  <2>1. <<>> \in Seq(0..MaxPrompts)
    BY EmptySeq
  <2>2. unread \in [Receivers -> Seq(0..MaxPrompts)]
    BY <2>1 DEF Ux!Init
  <2>3. task \in [pc : {"idle", "run", "wait"}, prompt : 0..MaxPrompts]
    BY DEF Ux!Init, Ux!UxAssumption
  <2> QED BY <2>2, <2>3 DEF Ux!Init, Ux!TypeOK
<1>3. OneTold /\ SettledIsGone /\ EndsAgree /\ FutureIsBlank
  BY <1>1 DEF Ux!Init, OneTold, SettledIsGone, EndsAgree, FutureIsBlank, Ux!Waits
<1> QED BY <1>2, <1>3 DEF UxInv

LEMMA UxInvNext == ASSUME Ux!UxAssumption, UxInv, [Ux!Next]_(Ux!uxvars) PROVE UxInv'
<1>0. Ux!TypeOK
  BY DEF UxInv
<1>1. CASE Ux!Begin \/ Ux!Finish
  <2>1. Ux!TypeOK'
    BY <1>0, <1>1 DEF Ux!TypeOK, Ux!Begin, Ux!Finish
  <2> QED BY <1>0, <1>1, <2>1, TaskMovesOn DEF Ux!Begin, Ux!Finish, Ux!TypeOK
<1>2. CASE Ux!Notify
  <2>1. 0 \in 0..MaxPrompts /\ 0 \notin Ux!Prompts
    BY DEF Ux!Prompts, Ux!UxAssumption
  <2>2. /\ unread' \in [Receivers -> Seq(0..MaxPrompts)]
        /\ \A p \in Ux!Prompts : Ux!Alive(p)' => Ux!Alive(p)
    BY <1>0, <1>2, <2>1, BroadcastAlive DEF Ux!Notify
  <2>3. Ux!TypeOK'
    BY <1>0, <1>2, <2>2 DEF Ux!TypeOK, Ux!Notify
  <2> QED BY <1>2, <2>2, <2>3, FewerCopies DEF Ux!Notify
<1>3. CASE Ux!Resumes \/ Ux!NoPinProvided \/ Ux!Dropped
  BY <1>3, WaitEndsKeepsInv
<1>4. CASE Ux!Ask
  BY <1>4, AskKeepsInv
<1>5. ASSUME NEW r \in Receivers, Ux!get_ux_update_receiver(r) PROVE UxInv'
  <2>1. Ux!TypeOK'
    BY <1>0, <1>5 DEF Ux!TypeOK, Ux!get_ux_update_receiver
  <2>2. \A p \in Ux!Prompts : Ux!Alive(p)' => Ux!Alive(p)
    BY <1>5 DEF Ux!get_ux_update_receiver, Ux!Alive, Ux!Unread
  <2> QED BY <1>5, <2>1, <2>2, FewerCopies DEF Ux!get_ux_update_receiver
<1>6. ASSUME NEW r \in Receivers, Ux!Receive(r) \/ Ux!Unsubscribe(r) PROVE UxInv'
  <2>1. /\ unread' \in [Receivers -> Seq(0..MaxPrompts)]
        /\ held' \in [Receivers -> SUBSET Ux!Prompts]
        /\ \A p \in Ux!Prompts : Ux!Alive(p)' => Ux!Alive(p)
    BY <1>0, <1>6, TakingAlive
  <2>2. Ux!TypeOK'
    BY <1>0, <1>6, <2>1 DEF Ux!TypeOK, Ux!Receive, Ux!Unsubscribe
  <2> QED BY <1>6, <2>1, <2>2, FewerCopies DEF Ux!Receive, Ux!Unsubscribe
<1>7. ASSUME NEW r \in Receivers, NEW p \in Ux!Prompts, Ux!Settles(r, p) PROVE UxInv'
  BY <1>7, SettlesKeepsInv
<1>8. CASE UNCHANGED Ux!uxvars
  <2>1. Ux!TypeOK'
    BY <1>0, <1>8 DEF Ux!TypeOK, Ux!uxvars
  <2>2. \A p \in Ux!Prompts : Ux!Alive(p)' => Ux!Alive(p)
    BY <1>8 DEF Ux!uxvars, Ux!Alive, Ux!Unread
  <2> QED BY <1>8, <2>1, <2>2, FewerCopies DEF Ux!uxvars
<1> QED BY <1>1, <1>2, <1>3, <1>4, <1>5, <1>6, <1>7, <1>8
        DEF Ux!Next, Ux!CeremonyStep, Ux!InterfaceStep

LEMMA UxInvAlways == ASSUME Ux!UxAssumption PROVE Ux!Spec => []UxInv
<1>1. Ux!Init => UxInv
  BY UxInvFirst
<1>2. UxInv /\ [Ux!Next]_(Ux!uxvars) => UxInv'
  BY UxInvNext
<1> QED BY <1>1, <1>2, PTL DEF Ux!Spec

(* Type correctness of the broadcast, its subscribers and the prompts.     *)
THEOREM UxTypesAreCorrect == ASSUME Ux!UxAssumption PROVE Ux!Spec => []Ux!TypeOK
<1>1. UxInv => Ux!TypeOK
  BY DEF UxInv
<1> QED BY <1>1, UxInvAlways, PTL

(* send_pin: however many interfaces answer, one is told that it did, and  *)
(* the ceremony goes on with the PIN of that one.                          *)
THEOREM AnswersAreKeptAlways == ASSUME Ux!UxAssumption PROVE Ux!Spec => []Ux!AnswersAreKept
<1>1. UxInv => Ux!AnswersAreKept
  BY DEF UxInv, OneTold, EndsAgree, Ux!AnswersAreKept
<1> QED BY <1>1, UxInvAlways, PTL

(* obtain_pin and try_to_set_pin: no prompt is given up while an interface *)
(* can still answer it.                                                    *)
THEOREM NobodyIsCutOffEver == ASSUME Ux!UxAssumption PROVE Ux!Spec => []Ux!NobodyIsCutOff
<1>1. UxInv => Ux!NobodyIsCutOff
  BY DEF UxInv, SettledIsGone, Ux!NobodyIsCutOff
<1> QED BY <1>1, UxInvAlways, PTL

LEMMA SettledByInv == UxInv => Ux!PromptsAreSettled
BY DEF UxInv, OneTold, EndsAgree, SettledIsGone, Ux!PromptsAreSettled, Ux!AnswersAreKept, Ux!NobodyIsCutOff

(* send_pin and the two waits together: what the runs check.               *)
THEOREM PromptsAreSettledAlways == ASSUME Ux!UxAssumption PROVE Ux!Spec => []Ux!PromptsAreSettled
<1>1. Ux!AnswersAreKept /\ Ux!NobodyIsCutOff => Ux!PromptsAreSettled
  BY DEF Ux!PromptsAreSettled
<1> QED BY <1>1, AnswersAreKeptAlways, NobodyIsCutOffEver, PTL
===============================================================================
