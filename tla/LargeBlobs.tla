------------------------------ MODULE LargeBlobs ------------------------------
(***************************************************************************)
(* The largeBlob extension of WebAuthn: one array on the authenticator     *)
(* holds the blobs of all credentials, each entry encrypted under the      *)
(* largeBlobKey of its credential.  The library fetches the array in       *)
(* fragments, decrypts its entries or rebuilds the array around them, and  *)
(* uploads it in fragments; nothing locks the array in between.            *)
(*                                                                         *)
(* An element of the array is one unit, and so are the header that counts  *)
(* the elements and the trailer; the trailer holds what it is the hash of. *)
(* An entry opens under its key alone (AES-GCM).                           *)
(***************************************************************************)
EXTENDS Integers, Sequences, FiniteSets, SequencesExt

CONSTANTS
    Keys,           \* largeBlobKeys
    NoKey,          \* no key in the assertion, or an element no key opens
    Blobs,
    Huge,           \* a blob above LARGE_BLOB_MAX_ORIG_SIZE
    NoBlob,
    Assertions,     \* the keys of the credentials a read may be about
    Contents,       \* the sequences of elements the array may begin with
    MaxFragment,    \* max_fragment_length, in units
    MaxArray,       \* LARGE_BLOB_MAX_ARRAY_BYTES, in units
    Rooms,          \* what authenticators have room for, in units
    MaxCalls, MaxFailures, MaxOthers    \* bounds of the exploration

VARIABLES
    array,      \* the authenticator's array
    upload,     \* its upload in progress: [data, length], or NoUpload
    lock,       \* "open", or what it thinks of the token: "valid", "spent", "none"
    kind,       \* "sane", or "endless": every fragment it returns is full
    room,       \* the units it has room for
    call,       \* the call in progress: [op, creds, blob]
    pc,         \* "idle", "fetch", "set"
    offset,     \* of the next fragment
    out,        \* the units fetched so far
    existing,   \* the elements a write keeps or replaces
    serialized, \* the array to upload
    outputs,    \* the extension's outputs of the last call
    held,       \* history: the arrays there were since the call began
    n           \* the calls, failures and foreign changes so far

device == <<array, upload, lock, kind, room>>
platform == <<call, pc, offset, out, existing, serialized, outputs>>
vars == <<device, platform, held, n>>

NoUpload == [data |-> <<>>, length |-> 0]

Entry(key, blob, form) == [key |-> key, blob |-> blob, form |-> form]
Junk == Entry(NoKey, NoBlob, "junk")

(* What an array may hold: no key opens an element that is no entry.       *)
Elems ==
    {e \in [key : Keys \cup {NoKey}, blob : Blobs \cup {NoBlob},
            form : {"sound", "broken", "oversize", "junk"}] : e.form = "junk" => e.key = NoKey}

LargeBlobsAssumption ==
    /\ NoKey \notin Keys
    /\ Assertions \subseteq Seq(Keys \cup {NoKey})
    /\ Contents \subseteq Seq(Elems)
    /\ MaxFragment \in Nat \ {0} /\ MaxArray \in Nat /\ Rooms \subseteq Nat
    /\ MaxCalls \in Nat /\ MaxFailures \in Nat /\ MaxOthers \in Nat

-------------------------------------------------------------------------------
(* The array and its bytes.                                                *)

(* The elements of s that are in T, in their order.                        *)
Kept(s, T) ==
    LET kept[i \in 0..Len(s)] ==
            IF i = 0 THEN <<>>
            ELSE IF s[i] \in T THEN Append(kept[i - 1], s[i]) ELSE kept[i - 1]
    IN  kept[Len(s)]

array_trailer(data) == [hash |-> data]

Serialize(elements) ==
    LET body == <<[count |-> Len(elements)]>> \o elements
    IN  Append(body, array_trailer(body))

(* A body whose header does not count its elements.                        *)
Malformed ==
    LET body == <<[count |-> 2], Junk>> IN Append(body, array_trailer(body))

trailer_matches(s) == s # <<>> /\ Last(s) = array_trailer(Front(s))

parses(body) == body = <<>> \/ body[1] = [count |-> Len(body) - 1]

parse_array_raw_entries(body) == IF body = <<>> THEN <<>> ELSE Tail(body)

(* Elements that are not entries are skipped by a reader.                  *)
parse_large_blob_array(body) ==
    Kept(parse_array_raw_entries(body), {e \in Elems : e.form # "junk"})

entry_decrypts_under_key(e, key) == e.form # "junk" /\ e.key = key

(* The first entry under the key decides; one whose origSize is over the   *)
(* cap is passed over, one that does not inflate is an error.              *)
decrypt_first_matching(entries, key) ==
    LET mine == Kept(entries, {e \in Elems : entry_decrypts_under_key(e, key)
                                             /\ e.form # "oversize"})
    IN  IF mine = <<>> \/ mine[1].form = "broken" THEN NoBlob ELSE mine[1].blob

(* Changed form, with which the properties are tested. *)
rebuild_serialized_array_EntriesOnly(elements, drop_key, new) ==
    Serialize(Kept(elements, {e \in Elems : e.form # "junk"
                                            /\ ~entry_decrypts_under_key(e, drop_key)}) \o new)

too_long(s) == Len(s) > MaxArray

rebuild_serialized_array(elements, drop_key, new) ==
    Serialize(Kept(elements, {e \in Elems : ~entry_decrypts_under_key(e, drop_key)}) \o new)

-------------------------------------------------------------------------------
(* The outputs: a failed read has no blob, a failed write is not written.  *)

Read(blobs) == [i \in DOMAIN call.creds |-> [blob |-> blobs[i], written |-> "none"]]
Written(w) == <<[blob |-> NoBlob, written |-> w]>>
Failed(c) ==
    IF c.op = "read" THEN [i \in DOMAIN c.creds |-> [blob |-> NoBlob, written |-> "none"]]
    ELSE Written("false")

Finish(results) ==
    /\ outputs' = results
    /\ pc' = "idle" /\ offset' = 0
    /\ out' = <<>> /\ existing' = <<>> /\ serialized' = <<>> /\ held' = {}

Calls ==
    {[op |-> "read", creds |-> cs, blob |-> NoBlob] :
        cs \in Assertions}
    \cup {[op |-> "write", creds |-> <<k>>, blob |-> b] :
            k \in Keys \cup {NoKey}, b \in Blobs \cup {Huge}}
    \cup {[op |-> "delete", creds |-> <<k>>, blob |-> NoBlob] : k \in Keys \cup {NoKey}}

Init ==
    /\ array \in {Serialize(c) : c \in Contents} \cup {Malformed, <<Junk>>}
    /\ upload = NoUpload
    /\ lock \in {"open", "valid", "none"}
    /\ kind \in {"sane", "endless"}
    /\ room \in Rooms
    /\ Len(array) <= room
    /\ call = [op |-> "read", creds |-> <<>>, blob |-> NoBlob]
    /\ pc = "idle" /\ offset = 0 /\ out = <<>>
    /\ existing = <<>> /\ serialized = <<>> /\ outputs = <<>>
    /\ held = {}
    /\ n = [calls |-> 0, failures |-> 0, writes |-> 0, strays |-> 0]

(* The assertion is made, and names the keys of its credentials.  A write  *)
(* without a key, and a read where no credential has one, end here, and so *)
(* does a write of a blob above the cap.                                   *)
get_assertion_large_blob(c) ==
    /\ pc = "idle"
    /\ n.calls < MaxCalls
    /\ n' = [n EXCEPT !.calls = @ + 1]
    /\ call' = c
    /\ \/ /\ ToSet(c.creds) \cap Keys = {} \/ c.blob = Huge
          /\ Finish(Failed(c))
       \/ /\ ToSet(c.creds) \cap Keys # {} /\ c.blob # Huge
          /\ pc' = "fetch"
          /\ offset' = 0 /\ out' = <<>>
          /\ outputs' = <<>>
          /\ held' = {array}
          /\ UNCHANGED <<existing, serialized>>
    /\ UNCHANGED device

-------------------------------------------------------------------------------
(* The array is fetched, and used as soon as it is complete.               *)

fetch_large_blob_entries(s) ==
    LET body == Front(s)
        entries == parse_large_blob_array(body)
    IN  /\ call.op = "read"
        /\ IF s # <<>> /\ trailer_matches(s) /\ parses(body)
           THEN Finish(Read([i \in DOMAIN call.creds |->
                             IF call.creds[i] \in Keys
                             THEN decrypt_first_matching(entries, call.creds[i])
                             ELSE NoBlob]))
           ELSE Finish(Failed(call))

(* A trailer that does not match is taken for the initial, empty array.    *)
fetch_or_initial(s) == IF trailer_matches(s) THEN parse_array_raw_entries(Front(s)) ELSE <<>>

upload_begins(elements, new) ==
    LET s == rebuild_serialized_array(elements, call.creds[1], new)
    IN  IF too_long(s)
        THEN Finish(Failed(call))
        ELSE /\ pc' = "set" /\ existing' = elements /\ serialized' = s
             /\ offset' = 0 /\ out' = <<>>
             /\ UNCHANGED <<outputs, held>>

write_authenticator_large_blob(s) ==
    LET elements == fetch_or_initial(s)
    IN  /\ call.op = "write"
        /\ IF trailer_matches(s) /\ ~parses(Front(s))
           THEN Finish(Failed(call))
           ELSE upload_begins(elements, <<Entry(call.creds[1], call.blob, "sound")>>)

(* Where nothing is to be deleted, that is an error.                       *)
delete_authenticator_large_blob(s) ==
    LET elements == fetch_or_initial(s)
        any_owned == \E e \in ToSet(elements) : entry_decrypts_under_key(e, call.creds[1])
    IN  /\ call.op = "delete"
        /\ IF (trailer_matches(s) /\ ~parses(Front(s))) \/ ~any_owned
           THEN Finish(Failed(call))
           ELSE upload_begins(elements, <<>>)

Fetched(s) ==
    \/ fetch_large_blob_entries(s)
    \/ write_authenticator_large_blob(s)
    \/ delete_authenticator_large_blob(s)

Fragment(s, at) == SubSeq(s, at + 1, IF at + MaxFragment < Len(s) THEN at + MaxFragment ELSE Len(s))

(* authenticatorLargeBlobs(get), once around fetch_serialized_array.  A    *)
(* short fragment is the last one.                                         *)
fetch_serialized_array ==
    /\ pc = "fetch"
    /\ LET chunk == IF kind = "endless" THEN [i \in 1..MaxFragment |-> Junk]
                    ELSE Fragment(array, offset)
           got == out \o chunk
       IN  \/ /\ kind = "sane" /\ offset > Len(array)     \* the device refuses
              /\ Finish(Failed(call))
           \/ /\ kind = "endless" \/ offset <= Len(array)
              /\ Len(chunk) < MaxFragment
              /\ Fetched(got)
           \/ /\ Len(chunk) >= MaxFragment
              /\ too_long(got)
              /\ Finish(Failed(call))
           \/ /\ Len(chunk) >= MaxFragment
              /\ ~too_long(got)
              /\ offset' = offset + Len(chunk) /\ out' = got
              /\ UNCHANGED <<pc, existing, serialized, outputs, held>>
    /\ UNCHANGED <<device, call, n>>

-------------------------------------------------------------------------------
(* The array is uploaded.  What the authenticator does with a fragment is  *)
(* the standard's: it wants a token unless it is open, the fragments in    *)
(* order, and an array whose trailer matches; only then does the array it  *)
(* holds change.                                                           *)

Data == (IF offset = 0 THEN <<>> ELSE upload.data) \o Fragment(serialized, offset)
Length == IF offset = 0 THEN Len(serialized) ELSE upload.length

Takes ==
    /\ lock \in {"open", "valid"}
    /\ IF offset = 0 THEN Len(serialized) <= room
       ELSE upload # NoUpload /\ Len(upload.data) = offset
    /\ Len(Data) >= Length => Len(Data) = Length /\ trailer_matches(Data)

DeviceSets ==
    /\ Takes
    /\ IF Len(Data) = Length
       THEN array' = Data /\ upload' = NoUpload
       ELSE array' = array /\ upload' = [data |-> Data, length |-> Length]

(* authenticatorLargeBlobs(set), once around the loop.                     *)
upload_serialized_array ==
    /\ pc = "set"
    /\ \/ /\ DeviceSets
          /\ LET sent == offset + Len(Fragment(serialized, offset))
             IN  IF sent < Len(serialized)
                 THEN /\ offset' = sent
                      /\ UNCHANGED <<pc, out, existing, serialized, outputs, held>>
                 ELSE Finish(Written("true"))
       \/ /\ ~Takes
          /\ upload' = IF offset # 0 /\ upload # NoUpload /\ Len(Data) >= Length
                       THEN NoUpload ELSE upload
          /\ Finish(Failed(call))
          /\ UNCHANGED array
    /\ UNCHANGED <<lock, kind, room, call, n>>

(* A command fails, or its answer does not arrive: nothing is tried again. *)
command_fails ==
    /\ pc # "idle"
    /\ n.failures < MaxFailures
    /\ n' = [n EXCEPT !.failures = @ + 1]
    /\ \/ UNCHANGED <<array, upload>>
       \/ pc = "set" /\ DeviceSets
    /\ Finish(Failed(call))
    /\ UNCHANGED <<lock, kind, room, call>>

-------------------------------------------------------------------------------
(* What happens to the authenticator meanwhile.                            *)

token_expires ==
    /\ lock = "valid" /\ lock' = "spent"
    /\ UNCHANGED <<array, upload, kind, room, platform, held, n>>

(* It loses power: the upload is gone, and so is the token.                *)
power_cycle ==
    /\ upload # NoUpload
    /\ upload' = NoUpload
    /\ lock' = IF lock = "valid" THEN "spent" ELSE lock
    /\ UNCHANGED <<array, kind, room, platform, held, n>>

Elements(a) ==
    IF trailer_matches(a) /\ parses(Front(a)) THEN parse_array_raw_entries(Front(a)) ELSE <<>>

(* Another platform writes or deletes the blob of a credential.            *)
another_platform_writes ==
    /\ n.writes < MaxOthers
    /\ n' = [n EXCEPT !.writes = @ + 1]
    /\ kind = "sane" /\ array # Malformed
    /\ \E key \in Keys : \E new \in {<<>>} \cup {<<Entry(key, b, "sound")>> : b \in Blobs} :
           LET a == rebuild_serialized_array(Elements(array), key, new)
           IN  /\ Len(a) <= room /\ a # array
               /\ ToSet(Elements(a)) # ToSet(Elements(array))
               /\ array' = a
               /\ held' = IF pc = "fetch" THEN held \cup {a} ELSE held
    /\ upload' = NoUpload
    /\ UNCHANGED <<lock, kind, room, platform>>

(* A fragment of another platform's upload falls into this one's.          *)
another_platform_uploads ==
    /\ upload # NoUpload
    /\ n.strays < MaxOthers
    /\ n' = [n EXCEPT !.strays = @ + 1]
    /\ upload' = IF Len(upload.data) + 1 >= upload.length THEN NoUpload
                 ELSE [upload EXCEPT !.data = Append(@, Junk)]
    /\ UNCHANGED <<array, lock, kind, room, platform, held>>

Next ==
    \/ \E c \in Calls : get_assertion_large_blob(c)
    \/ fetch_serialized_array \/ upload_serialized_array \/ command_fails
    \/ token_expires \/ power_cycle
    \/ another_platform_writes \/ another_platform_uploads

Spec == Init /\ [][Next]_vars

(* The caller's task is polled.                                            *)
FairSpec ==
    /\ Spec
    /\ WF_vars(fetch_serialized_array \/ upload_serialized_array)

-------------------------------------------------------------------------------
TypeOK ==
    /\ Len(array) <= room /\ Len(out) <= MaxArray + MaxFragment
    /\ upload = NoUpload \/ Len(upload.data) < upload.length
    /\ lock \in {"open", "valid", "spent", "none"} /\ kind \in {"sane", "endless"}
    /\ pc \in {"idle", "fetch", "set"}
    /\ offset \in 0..(MaxArray + MaxFragment) /\ Len(serialized) <= MaxArray
    /\ n \in [calls : 0..MaxCalls, failures : 0..MaxFailures, writes : 0..MaxOthers,
               strays : 0..MaxOthers]

(* The store the array stands for; no key reads an array that does not parse. *)
Opaque == [o \in {NoKey} |-> <<>>]
StoreOf(a) ==
    LET body == Front(a)
        sound == trailer_matches(a)
        elements == IF sound THEN parse_array_raw_entries(body) ELSE <<>>
    IN  IF sound /\ ~parses(body) THEN Opaque
        ELSE [o \in Keys \cup {NoKey} |-> Kept(elements, {e \in Elems : e.key = o})]

ToStore ==
    INSTANCE BlobStore WITH
        Owners <- Keys \cup {NoKey}, Opaque <- Opaque,
        store <- StoreOf(array), past <- {StoreOf(a) : a \in held},
        looked <- StoreOf(Serialize(existing)), answers <- outputs, others <- n.writes

(* The extension keeps the promise of a store: a read gives what was       *)
(* stored, a write or a deletion changes the entries of its credential     *)
(* alone, in one step, and says it is written only when it is, whatever    *)
(* fails between the fragments.                                            *)
KeepsStore == ToStore!Spec

(* What was in the array before a call and was not touched by another      *)
(* platform is there after the call, unless the call is about it.          *)
KeepsForeignEntries ==
    pc = "set" /\ array' # array /\ n'.writes = n.writes =>
        \A e \in ToSet(Elements(array)) :
            (\A a \in held : e \in ToSet(Elements(a))) /\ e.key # call.creds[1]
                => e \in ToSet(Elements(array'))
ForeignEntriesSurvive == [][KeepsForeignEntries]_vars
===============================================================================
