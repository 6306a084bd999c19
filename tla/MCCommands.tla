------------------------------ MODULE MCCommands ------------------------------
(***************************************************************************)
(* What the library does for a request and over its channels, in one       *)
(* check: a behaviour is one of an application that registers and asserts  *)
(* (WebAuthnOperation, which this module extends), of a web origin whose   *)
(* request is admitted (RelyingParty), of an application that reads and    *)
(* writes blobs (LargeBlobs) or that manages an authenticator              *)
(* (Management), of channels that share a store (SharedStore), of user     *)
(* interfaces that share a channel (UxUpdates), of one signed answer       *)
(* (SignedData), or of one command from what is asked to what is executed  *)
(* (CtapWire).  The variables that several modules have are those of the   *)
(* module the behaviour is of; the others stay as they began.              *)
(***************************************************************************)
EXTENDS WebAuthnOperation, WebOrigins, SignedAnswers

CONSTANTS
    Areas,      \* what is checked: "admission", "operation", "blobs", "manage", "store",
                \* "interfaces", "signed", "wire"
    Absent,     \* see SharedStore
    MaxCalls, MaxFragment, MaxArray, Rooms, Samples, MaxCommands, MaxOthers

VARIABLES
    area,
    at, steps, has, shown, result, left, call, wire, reply, \* of the module in use
    array, upload, lock, kind, room, offset, out, existing, serialized, outputs,
    credentials, enrolled, enrolling, policy, cm, bio, options, record,
    cred_mgmt_preview, undisturbed, missed,
    graph, settings, request, rp_id, appid, subject, listed,
    token, store, work,
    task, subscribed, unread, answer, told, ended,
    stage, signed, made, data, response,
    authenticator, executed, fault

packets == <<wire, reply>>
common == <<at, steps, has, shown, result, left, call, packets>>
ofBlobs == <<array, upload, lock, kind, room, offset, out, existing, serialized, outputs>>
ofManagement == <<credentials, enrolled, enrolling, policy, cm, bio, options, record,
                  cred_mgmt_preview, undisturbed, missed>>
ofAdmission == <<graph, settings, request, rp_id, appid, subject, listed>>
ofStore == <<token, store, work>>
ofInterfaces == <<task, subscribed, unread, answer, told, ended>>
ofSigned == <<stage, signed, made, data, response>>
ofWire == <<authenticator, executed, fault>>
mcvars == <<area, common, ofBlobs, ofManagement, vars, ofAdmission, ofStore, ofInterfaces, ofSigned,
            ofWire>>

-------------------------------------------------------------------------------
(* Two credentials with a blob each; arrays that hold one of them, both,   *)
(* an element that is no entry, and entries that cannot be read.           *)

Elem(key, blob, form) == [key |-> key, blob |-> blob, form |-> form]
MCContents ==
    {<<Elem("k1", "b1", "oversize"), Elem("k2", "b1", "broken"), Elem("k1", "b2", "sound")>>,
     <<Elem("k2", "b1", "sound"), Elem("nokey", "noblob", "junk")>>,
     <<Elem("k2", "b1", "sound"), Elem("nokey", "noblob", "junk"), Elem("k1", "b1", "sound"),
       Elem("k2", "b2", "sound")>>}

LargeBlob ==
    INSTANCE LargeBlobs WITH
        Keys <- {"k1", "k2"}, NoKey <- "nokey", Blobs <- {"b1", "b2"}, Huge <- "huge",
        NoBlob <- "noblob", Contents <- MCContents,
        Assertions <- {<<"k1", "k2">>, <<"nokey", "k2">>, <<"nokey">>},
        pc <- at, n <- steps, held <- has

(* Two relying parties, one with two credentials; authenticators that      *)
(* answer to the standard's codes, to the preview's, to both or to none.   *)
Configurable == {"authnrCfg", "alwaysUv", "ep", "setMinPINLength", "minPinLength"}
Manage ==
    INSTANCE Management WITH
        Credentials <- {"c1", "c2", "c3"},
        RpOf <- [c \in {"c1", "c2", "c3"} |-> IF c = "c3" THEN "r2" ELSE "r1"],
        Templates <- {"t1"}, MaxListSize <- 1, MaxCommands <- 3,
        Authenticators <- {[cm |-> "real", bio |-> "preview", options |-> Configurable],
                           [cm |-> "preview", bio |-> "real", options |-> {}],
                           [cm |-> "both", bio |-> "none", options |-> Configurable \ {"minPinLength"}],
                           [cm |-> "none", bio |-> "both", options |-> {}]},
        remembered <- left, list <- shown, outcome <- result, n <- steps

(* Authenticators with everything, with native PRF and without pre-flight, *)
(* with little, with U2F alone, and with neither protocol.                 *)
Device(protocols, preflight, rk, verifies, largeBlobs, extensions, max_id, max_list, max_msg) ==
    [fido2 |-> "FIDO2" \in protocols, u2f |-> "U2F" \in protocols,
     ctap21 |-> "FIDO2.1" \in protocols, omits |-> "FIDO2.1" \notin protocols, preflight |-> preflight,
     rk |-> rk, verifies |-> verifies, largeBlobs |-> largeBlobs, extensions |-> extensions,
     max_id |-> max_id, max_list |-> max_list, max_msg |-> max_msg]
MCDevices ==
    {Device({"FIDO2", "U2F"}, TRUE, TRUE, TRUE, TRUE, {"credProtect", "hmac-secret"}, TRUE, 2, 4),
     Device({"FIDO2", "FIDO2.1"}, FALSE, TRUE, TRUE, FALSE, {"prf"}, FALSE, 0, 4),
     Device({"FIDO2"}, TRUE, FALSE, FALSE, FALSE, {"hmac-secret"}, FALSE, 0, 2),
     Device({"U2F"}, TRUE, FALSE, FALSE, FALSE, {}, FALSE, 0, 4),
     Device({}, TRUE, FALSE, FALSE, FALSE, {}, FALSE, 0, 4)}

Stored(id, rp, discoverable, level) ==
    [id |-> id, rp |-> rp, discoverable |-> discoverable, level |-> level]
MCCredentials ==
    {Stored("a", "rp", TRUE, "open"), Stored("b", "rp", TRUE, "verified"),
     Stored("c", "rp", FALSE, "open"), Stored("b", "app", FALSE, "open"),
     Stored("long", "rp", TRUE, "open"), Stored("a", "other", TRUE, "open")}

Lists == {<<>>, <<"a", "b">>, <<"c", "long">>, <<"b">>, <<"b", "c">>}
Plain == [kind |-> "get", uv |-> "preferred", list |-> <<>>, rk |-> "none", es256 |-> TRUE,
          protect |-> "none", blob |-> "none", appid |-> FALSE, props |-> FALSE,
          prf |-> [asked |-> FALSE, eval |-> FALSE, by |-> {}]]
MCRequests ==
    {[Plain EXCEPT !.kind = "create", !.uv = uv, !.list = l, !.rk = rk, !.appid = app, !.props = TRUE] :
        uv \in {"required", "discouraged"}, l \in Lists, rk \in {"required", "preferred"},
        app \in BOOLEAN}
    \cup {[Plain EXCEPT !.kind = "create", !.list = <<"a">>, !.rk = "discouraged", !.es256 = es,
                        !.protect = pr, !.blob = b, !.props = TRUE] :
            es \in BOOLEAN, pr \in {"none", "wanted", "enforced"},
            b \in {"none", "preferred", "required"}}
    \cup {[Plain EXCEPT !.uv = uv, !.list = l, !.appid = app] :
            uv \in {"required", "preferred", "discouraged"}, l \in Lists, app \in BOOLEAN}
    \cup {[Plain EXCEPT !.list = l, !.blob = b] : l \in Lists, b \in {"read", "write", "delete"}}
    \cup {[Plain EXCEPT !.list = l, !.prf = [asked |-> TRUE, eval |-> e, by |-> by]] :
            l \in Lists, e \in BOOLEAN, by \in {{}, {"a"}, {"b", "c"}}}

(* Names of at most 12 bytes, labels of at most 8, lists of two or three   *)
(* labels, and one redirect.                                               *)
Admission ==
    INSTANCE RelyingParty WITH
        Graphs <- {ShortGraph, LongGraph}, Rules <- ListRules, Localhost <- Name.local,
        IpAddresses <- {Dotted(<<"one", "one">>)}, MaxDomain <- 12, MaxLabel <- 8,
        FloorOfLabels <- 2, MaxRedirects <- 2, MaxBody <- 2,
        Requests <- OriginRequests, Settings <- OriginSettings,
        StaticOrigins <- [name \in {Dotted(<<"y", "com">>)} |-> <<XFoo>>],
        Responses <- WellKnownResponses,
        pc <- at, outcome <- result

(* Two channels to one authenticator and one to another, of one model.     *)
Store ==
    INSTANCE SharedStore WITH
        Channels <- {"c1", "c2", "c3"}, Authenticators <- {"d1", "d2"},
        DeviceOf <- [c \in {"c1", "c2", "c3"} |-> IF c = "c3" THEN "d2" ELSE "d1"],
        ModelOf <- [d \in {"d1", "d2"} |-> "m"],
        n <- steps

(* Two interfaces, two PINs, and a queue of two updates.                   *)
Interfaces ==
    INSTANCE UxUpdates WITH
        Receivers <- {"first", "second"}, Pins <- {"0000", "1234"}, NoPin <- "none",
        Capacity <- 2, MaxPrompts <- 2,
        held <- has

Signed ==
    INSTANCE SignedData WITH
        HashLen <- 2, AaguidLen <- 1, CounterLen <- 2, CoordLen <- 1,
        Calls <- SignedCalls, Handles <- SignedIds, Counters <- SignedCounters,
        Stray <- StrayAnswers, U2fStray <- StrayU2fAnswers

(* Blocks of two cells: a PIN of seven bytes is the longest.               *)
Commanded == INSTANCE WireCalls WITH BLOCK <- 2
Wire ==
    INSTANCE CtapWire WITH
        BLOCK <- 2, Calls <- Commanded!MCCalls,
        pc <- at, held <- has, outcome <- result

ASSUME AdmissionValues == Admission!AdmissionAssumption
ASSUME BlobsValues == LargeBlob!LargeBlobsAssumption
ASSUME ManageValues == Manage!ManagementAssumption
ASSUME StoreValues == Store!SharedStoreAssumption
ASSUME InterfacesValues == Interfaces!UxAssumption
ASSUME SignedValues == Signed!SignedDataAssumption
ASSUME WireValues == Wire!PinProtocolAssumption

-------------------------------------------------------------------------------
IdleBlobs ==
    /\ array = 0 /\ upload = 0 /\ lock = 0 /\ kind = 0 /\ room = 0 /\ offset = 0
    /\ out = 0 /\ existing = 0 /\ serialized = 0 /\ outputs = 0
IdleManagement ==
    /\ credentials = 0 /\ enrolled = 0 /\ enrolling = 0 /\ policy = 0 /\ cm = 0 /\ bio = 0
    /\ options = 0 /\ record = 0 /\ cred_mgmt_preview = 0 /\ undisturbed = 0 /\ missed = 0
(* An operation that is never begun. *)
IdleOperation ==
    /\ device = (CHOOSE d \in Devices : TRUE) /\ op = (CHOOSE r \in Requests : TRUE) /\ held = {}
    /\ Init
IdleAdmission ==
    /\ graph = 0 /\ settings = 0 /\ request = 0 /\ rp_id = 0 /\ appid = 0 /\ subject = 0
    /\ listed = 0
IdleStore == token = 0 /\ store = 0 /\ work = 0
IdleInterfaces ==
    task = 0 /\ subscribed = 0 /\ unread = 0 /\ answer = 0 /\ told = 0 /\ ended = 0
IdleSigned == stage = 0 /\ signed = 0 /\ made = 0 /\ data = 0 /\ response = 0
IdleWire == authenticator = 0 /\ executed = 0 /\ fault = 0
IdlePackets == wire = 0 /\ reply = 0

BeginBlobs ==
    /\ area = "blobs" /\ LargeBlob!Init
    /\ IdleManagement /\ IdleOperation /\ IdleAdmission /\ IdleStore /\ IdleInterfaces /\ IdleSigned
    /\ IdleWire /\ IdlePackets
    /\ shown = 0 /\ result = 0 /\ left = 0
BeginManagement ==
    /\ area = "manage" /\ Manage!Init
    /\ IdleBlobs /\ IdleOperation /\ IdleAdmission /\ IdleStore /\ IdleInterfaces /\ IdleSigned
    /\ IdleWire /\ IdlePackets
    /\ at = 0 /\ has = 0 /\ call = 0
BeginOperation ==
    /\ area = "operation" /\ Init
    /\ IdleBlobs /\ IdleManagement /\ IdleAdmission /\ IdleStore /\ IdleInterfaces /\ IdleSigned
    /\ IdleWire /\ IdlePackets
    /\ at = 0 /\ steps = 0 /\ has = 0 /\ shown = 0 /\ result = 0 /\ left = 0 /\ call = 0
BeginAdmission ==
    /\ area = "admission" /\ Admission!Init
    /\ IdleBlobs /\ IdleManagement /\ IdleOperation /\ IdleStore /\ IdleInterfaces /\ IdleSigned
    /\ IdleWire /\ IdlePackets
    /\ steps = 0 /\ has = 0 /\ shown = 0 /\ left = 0 /\ call = 0
BeginStore ==
    /\ area = "store" /\ Store!Init
    /\ IdleBlobs /\ IdleManagement /\ IdleOperation /\ IdleAdmission /\ IdleInterfaces /\ IdleSigned
    /\ IdleWire /\ IdlePackets
    /\ at = 0 /\ has = 0 /\ shown = 0 /\ result = 0 /\ left = 0 /\ call = 0
BeginInterfaces ==
    /\ area = "interfaces" /\ Interfaces!Init
    /\ IdleBlobs /\ IdleManagement /\ IdleOperation /\ IdleAdmission /\ IdleStore /\ IdleSigned
    /\ IdleWire /\ IdlePackets
    /\ at = 0 /\ steps = 0 /\ shown = 0 /\ result = 0 /\ left = 0 /\ call = 0
BeginSigned ==
    /\ area = "signed" /\ Signed!Init
    /\ IdleBlobs /\ IdleManagement /\ IdleOperation /\ IdleAdmission /\ IdleStore /\ IdleInterfaces
    /\ IdleWire
    /\ at = 0 /\ steps = 0 /\ has = 0 /\ shown = 0 /\ result = 0 /\ left = 0
BeginWire ==
    /\ area = "wire" /\ Wire!Init
    /\ IdleBlobs /\ IdleManagement /\ IdleOperation /\ IdleAdmission /\ IdleStore /\ IdleInterfaces
    /\ IdleSigned /\ steps = 0 /\ shown = 0 /\ left = 0

MCInit ==
    /\ area \in Areas
    /\ \/ BeginBlobs \/ BeginManagement \/ BeginOperation \/ BeginAdmission \/ BeginStore
       \/ BeginInterfaces \/ BeginSigned \/ BeginWire

InBlobs ==
    /\ area = "blobs"
    /\ UNCHANGED <<area, shown, result, left, ofManagement, vars, ofAdmission, ofStore,
                   ofInterfaces, ofSigned, ofWire, packets>>
InManagement ==
    /\ area = "manage"
    /\ UNCHANGED <<area, at, has, call, ofBlobs, vars, ofAdmission, ofStore, ofInterfaces,
                   ofSigned, ofWire, packets>>
InOperation ==
    /\ area = "operation"
    /\ UNCHANGED <<area, common, ofBlobs, ofManagement, ofAdmission, ofStore, ofInterfaces, ofSigned,
                   ofWire>>
InAdmission ==
    /\ area = "admission"
    /\ UNCHANGED <<area, steps, has, shown, left, call, ofBlobs, ofManagement, vars,
                   ofStore, ofInterfaces, ofSigned, ofWire, packets>>
InStore ==
    /\ area = "store"
    /\ UNCHANGED <<area, at, has, shown, result, left, call, ofBlobs, ofManagement,
                   vars, ofAdmission, ofInterfaces, ofSigned, ofWire, packets>>
InInterfaces ==
    /\ area = "interfaces"
    /\ UNCHANGED <<area, at, steps, shown, result, left, call, ofBlobs, ofManagement, vars,
                   ofAdmission, ofStore, ofSigned, ofWire, packets>>
InSigned ==
    /\ area = "signed"
    /\ UNCHANGED <<area, at, steps, has, shown, result, left, ofBlobs, ofManagement, vars,
                   ofAdmission, ofStore, ofInterfaces, ofWire>>
InWire ==
    /\ area = "wire"
    /\ UNCHANGED <<area, steps, shown, left, ofBlobs, ofManagement, vars, ofAdmission,
                   ofStore, ofInterfaces, ofSigned>>

MCNext ==
    \/ InBlobs /\ LargeBlob!Next
    \/ InManagement /\ Manage!Next
    \/ InOperation /\ Next
    \/ InAdmission /\ Admission!Next
    \/ InStore /\ Store!Next
    \/ InInterfaces /\ Interfaces!Next
    \/ InSigned /\ Signed!Next
    \/ InWire /\ Wire!Next

MCSpec == MCInit /\ [][MCNext]_mcvars

(* The fairness of LargeBlobs, of WebAuthnOperation and of UxUpdates: the  *)
(* caller's task is polled, the authenticator answers or fails, and        *)
(* interfaces read and settle their prompts.                               *)
Runs ==
    \/ InBlobs /\ (LargeBlob!fetch_serialized_array \/ LargeBlob!upload_serialized_array)
    \/ InOperation /\ (Program \/ ctap1_sign)
    \/ InInterfaces /\ Interfaces!Moves

MCFairSpec == MCSpec /\ WF_mcvars(Runs)

-------------------------------------------------------------------------------
(* The properties of the modules, each in its own behaviours; those of     *)
(* WebAuthnOperation are checked under their own names.                    *)

(* LargeBlobs implements BlobStore.  A step that changes nothing of what   *)
(* the store is made of is a stutter of it.                                *)
OfStore == <<at, call, steps.writes, array, has, existing, outputs>>
KeepsStore ==
    /\ area = "blobs" => LargeBlob!ToStore!Init
    /\ [](area = "blobs" => LargeBlob!TypeOK)
    /\ [][area = "blobs" /\ OfStore' # OfStore
            => [LargeBlob!ToStore!Next]_(LargeBlob!ToStore!svars)]_mcvars

(* The reader of the public suffix list answers as its rules do, and a     *)
(* request is prepared for owners of its names and of its AppID alone.     *)
OnlyOwnersAreServed ==
    area = "admission" =>
        /\ Admission!TypeOK
        /\ Admission!SuffixesFollowTheRules /\ Admission!OnlyOwnersAreServed

(* A record goes only on behalf of its device; records do not pile up.     *)
RecordsAreKeptApart ==
    /\ [](area = "store" => Store!TypeOK)
    /\ [][area = "store" => Store!KeepsApart]_mcvars

(* A list that nobody disturbed is whole, whatever codes were used.        *)
ListsAreWhole == area = "manage" => Manage!TypeOK /\ Manage!ListsAreWhole

(* An answer of an interface that counts is the one the ceremony goes on   *)
(* with, and no prompt is given up that one could answer.                  *)
PromptsAreSettled ==
    area = "interfaces" => Interfaces!TypeOK /\ Interfaces!PromptsAreSettled

(* Authenticator data is accepted when it is a whole encoding, and only    *)
(* then; and what the relying party is given is what was signed.           *)
ResponsesVerify ==
    area = "signed" => Signed!TypeOK /\ Signed!ParserIsExact /\ Signed!ResponsesVerify

(* What an authenticator executes is what was asked, and what is told is   *)
(* what it said.                                                           *)
CommandsArriveAsAsked == area = "wire" => Wire!TypeOK /\ Wire!CommandsArriveAsAsked
(* A PIN is set as it was typed, and never sent in the clear.              *)
PinsAreWhatWasTyped == area = "wire" => Wire!PinsAreWhatWasTyped

(* An operation ends, and so does a call about blobs, whatever fails; so   *)
(* does a wait for a PIN.                                                  *)
Working ==
    \/ area = "operation" /\ pc # "done"
    \/ area = "blobs" /\ at # "idle"
    \/ area = "interfaces" /\ task.pc = "wait"
OperationsReturn == Working ~> ~Working

(* A write or a delete leaves the blobs of other credentials.              *)
ForeignEntriesSurvive == [][area = "blobs" => LargeBlob!KeepsForeignEntries]_mcvars
===============================================================================
