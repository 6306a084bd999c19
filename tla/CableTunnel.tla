------------------------------ MODULE CableTunnel ------------------------------
(***************************************************************************)
(* A caBLE (hybrid) channel to a phone (transport/cable/): the task that   *)
(* CableQrCodeDevice::channel or CableKnownDevice::channel spawns, which   *)
(* proves proximity, connects, shakes hands and then runs the tunnel loop  *)
(* of protocol.rs; the caller that sends and receives CBOR through two     *)
(* bounded queues (channel.rs); and the store of known devices, which      *)
(* outlives the channels.                                                  *)
(*                                                                         *)
(* The data channel is a WebSocket tunnel or an L2CAP channel: a failed    *)
(* L2CAP attempt falls back to the tunnel, and after that they differ in   *)
(* nothing modelled here.  Calls are numbered; a request carries the       *)
(* number of its call and an answer repeats it, which is how the model     *)
(* tells answers apart that the code does not.                             *)
(***************************************************************************)
EXTENDS Naturals, Sequences, SequencesExt

CONSTANTS
    Phones,         \* authenticators, by their public key
    Nobody,         \* no phone yet
    Capacity,       \* of either queue: 16 in the code
    MAX_TUNNEL_REDIRECTS,
    ReusesAfter,    \* outcomes after which the caller goes on using the channel
    MaxSessions,    \* bound: channels opened
    MaxCalls,       \* bound: calls made
    MaxLinks,       \* bound: links a phone hands out
    MaxOdd          \* bound: forged updates, bad frames and lost contacts

TunnelAssumption ==
    /\ Nobody \notin Phones
    /\ Capacity \in Nat \ {0}
    /\ MAX_TUNNEL_REDIRECTS \in Nat
    /\ MaxSessions \in Nat /\ MaxCalls \in Nat /\ MaxLinks \in Nat /\ MaxOdd \in Nat

ASSUME TunnelValues == TunnelAssumption

VARIABLES
    session,    \* what the channel was opened with, and the phone it reached
    task,       \* where the connection task is
    pending,    \* the response the task cannot yet put into its full queue
    redirects,  \* redirects followed
    conn,       \* the watched ConnectionState
    told,       \* CableUpdates sent to the application, in order
    near,       \* history: an advertisement for this very session was seen
    fault,      \* history: the task ended with an error
    requests,   \* cbor_tx: from the caller to the task
    responses,  \* cbor_rx: from the task to the caller
    up, down,   \* the data channel, to and from the phone
    store,      \* per phone, the link kept of it; 0 is none
    copies,     \* per phone, the links in CableKnownDevice objects made so far
    links,      \* per phone, how many links it handed out
    contacts,   \* per phone, the links the tunnel server still routes
    pc,         \* where the caller is
    call,       \* the call under way
    outcome,    \* what the last call on this channel returned
    answer,     \* history: the call whose answer it was given
    reused,     \* history: the channel was used on after a call was given up
    n           \* the bounds

sessionVars == <<session, redirects, near>>
queueVars == <<requests, responses>>
wireVars == <<up, down>>
phoneVars == <<links, contacts>>
storeVars == <<store, copies>>
callerVars == <<pc, call, outcome, answer, reused>>
vars == <<sessionVars, task, pending, conn, told, fault, queueVars, wireVars,
          storeVars, phoneVars, callerVars, n>>

Call == 1..MaxCalls
NoLink == 0
ForgedLink == MaxLinks + 1
Closed == [kind |-> "none", phone |-> Nobody, link |-> NoLink, persistent |-> FALSE]

Outcomes ==
    {"none", "ok", "ConnectionFailed", "TransportUnavailable", "Timeout", "Aborted"}

Frame(type) ==
    [type |-> type, id |-> 0, phone |-> Nobody, link |-> NoLink, signed |-> FALSE]

FrameType ==
    [type : {"initial", "ctap", "update", "close", "bad"},
     id : {0} \cup Call, phone : Phones \cup {Nobody}, link : 0..ForgedLink,
     signed : BOOLEAN]

Requests == [id : Call, cmd : {"GetInfo", "Other"}]

Init ==
    /\ session = Closed /\ redirects = 0 /\ near = FALSE
    /\ task = "none" /\ pending = 0 /\ conn = "Connecting" /\ told = <<>>
    /\ fault = FALSE
    /\ requests = <<>> /\ responses = <<>> /\ up = <<>> /\ down = <<>>
    /\ store = [p \in Phones |-> NoLink] /\ copies = [p \in Phones |-> {}]
    /\ links = [p \in Phones |-> 0]
    /\ contacts = [p \in Phones |-> {}]
    /\ pc = "idle" /\ call = [id |-> 0, cmd |-> "Other"]
    /\ outcome = "none" /\ answer = 0 /\ reused = FALSE
    /\ n = [sessions |-> 0, calls |-> 0, odd |-> 0]

-------------------------------------------------------------------------------
(* The connection task, up to the tunnel loop. *)

UpdateOf ==
    [proximity |-> "ProximityCheck", connect |-> "Connecting",
     handshake |-> "Authenticating"]

Enter(stage) ==
    /\ task' = stage
    /\ told' = Append(told, UpdateOf[stage])

(* Changed form: a known device is connected to without proximity check. *)
NextStage_WithoutProximity ==
    IF session.kind = "qr"
    THEN [proximity |-> "connect", connect |-> "handshake"]
    ELSE [connect |-> "handshake", proximity |-> "handshake"]

(* The advertisement of a scanned QR code says where to connect; a known   *)
(* device is contacted first, and advertises what it was sent.             *)
NextStage ==
    IF session.kind = "qr"
    THEN [proximity |-> "connect", connect |-> "handshake"]
    ELSE [connect |-> "proximity", proximity |-> "handshake"]

(* Changed form: the application is not told. *)
send_error_Silent(updates) == updates

send_error(updates) == Append(updates, "Error")

(* A stage or the loop returns, and drops its ends of the queues.  After   *)
(* that, an error is told, and then the state becomes Terminated.          *)
Fail ==
    /\ task' = "failing"
    /\ fault' = TRUE
    /\ pending' = 0
    /\ UNCHANGED told

CloseCleanly ==
    /\ task' = "ending"
    /\ pending' = 0
    /\ UNCHANGED <<fault, told>>

TellError ==
    /\ task = "failing"
    /\ task' = "ending"
    /\ told' = send_error(told)
    /\ UNCHANGED <<sessionVars, pending, conn, fault, queueVars, wireVars, storeVars,
                   phoneVars, callerVars, n>>

Terminate ==
    /\ task = "ending"
    /\ task' = "done"
    /\ conn' = "Terminated"
    /\ UNCHANGED <<sessionVars, pending, told, fault, queueVars, wireVars, storeVars,
                   phoneVars, callerVars, n>>

(* The one advertisement that decrypts under this session's key. *)
await_advertisement(p) ==
    /\ task = "proximity"
    /\ session.kind = "known" => p = session.phone
    /\ near' = TRUE
    /\ session' = [session EXCEPT !.phone = p]
    /\ Enter(NextStage[task])
    /\ UNCHANGED <<redirects, pending, conn, fault, queueVars, wireVars, storeVars,
                   phoneVars, callerVars, n>>

(* A known device is reached through the contact its link names. *)
Reachable ==
    session.kind = "known" => session.link \in contacts[session.phone]

connection_stage ==
    /\ task = "connect"
    /\ Reachable
    /\ Enter(NextStage[task])
    /\ redirects' = 0
    /\ UNCHANGED <<session, near, pending, conn, fault, queueVars, wireVars, storeVars,
                   phoneVars, callerVars, n>>

(* Changed form: one redirect too many. *)
MayFollow_OneMore == redirects <= MAX_TUNNEL_REDIRECTS

(* The first request and MAX_TUNNEL_REDIRECTS more are made. *)
MayFollow == redirects < MAX_TUNNEL_REDIRECTS

follow_redirect ==
    /\ task = "connect"
    /\ redirects' = redirects + 1
    /\ IF MayFollow
       THEN UNCHANGED <<task, fault, told, pending>>
       ELSE Fail
    /\ UNCHANGED <<session, near, conn, queueVars, wireVars, storeVars, phoneVars,
                   callerVars, n>>

(* 410 Gone makes a known device's record be deleted, by its public key. *)
tunnel_gone ==
    /\ task = "connect"
    /\ ~Reachable
    /\ store' = [store EXCEPT ![session.phone] = NoLink]
    /\ UNCHANGED copies
    /\ Fail
    /\ UNCHANGED <<sessionVars, conn, queueVars, wireVars, phoneVars, callerVars, n>>

(* do_handshake, and the state that lets callers in.  The phone's initial  *)
(* message follows, unless it is a broken phone.                           *)
handshake_stage ==
    /\ task = "handshake"
    /\ task' = "initial"
    /\ told' = Append(told, "Connected")
    /\ conn' = "Connected"
    /\ \E type \in {"initial", "bad"} : down' = <<Frame(type)>>
    /\ UNCHANGED <<sessionVars, pending, fault, queueVars, up, storeVars, phoneVars,
                   callerVars, n>>

(* Any stage may fail: no adapter, no tunnel server, a wrong handshake. *)
stage_fails ==
    /\ task \in {"proximity", "connect", "handshake"}
    /\ Fail
    /\ UNCHANGED <<sessionVars, conn, queueVars, wireVars, storeVars, phoneVars,
                   callerVars, n>>

connection_recv_initial ==
    /\ task = "initial"
    /\ IF Head(down).type = "initial"
       THEN task' = "loop" /\ UNCHANGED <<pending, fault, told>>
       ELSE Fail
    /\ down' = Tail(down)
    /\ UNCHANGED <<sessionVars, conn, queueVars, up, storeVars, phoneVars, callerVars, n>>

-------------------------------------------------------------------------------
(* The tunnel loop: whichever of the data channel and the request queue    *)
(* has something.                                                          *)

Looping == task = "loop" /\ pending = 0

(* Into the response queue, or wait for room in it. *)
Respond(id) ==
    IF Len(responses) < Capacity
    THEN responses' = Append(responses, id) /\ UNCHANGED pending
    ELSE pending' = id /\ UNCHANGED responses

(* Changed form: an update that is not signed by the phone evicts it. *)
apply_linking_update_Evicting(frame) ==
    [store EXCEPT ![frame.phone] = IF frame.signed THEN frame.link ELSE NoLink]

(* Only a valid signature stores a link; anything else leaves the record   *)
(* alone.                                                                  *)
apply_linking_update(frame) ==
    IF frame.signed THEN [store EXCEPT ![frame.phone] = frame.link] ELSE store

(* The key that proves an update is the QR code's, so none is applied on a *)
(* known device's channel, nor without a store.                            *)
MayLink == session.kind = "qr" /\ session.persistent

(* Changed form: an update is taken for a response. *)
IsResponse_UpdateToo(frame) == frame.type \in {"ctap", "update"}

IsResponse(frame) == frame.type = "ctap"

connection_recv ==
    /\ Looping
    /\ down # <<>>
    /\ LET frame == Head(down)
       IN  \/ /\ IsResponse(frame)
              /\ Respond(frame.id)
              /\ UNCHANGED <<task, fault, told, store>>
           \/ /\ frame.type = "update" /\ ~IsResponse(frame)
              /\ store' = IF MayLink THEN apply_linking_update(frame) ELSE store
              /\ UNCHANGED <<task, pending, fault, told, responses>>
           \/ /\ frame.type = "close"
              /\ CloseCleanly
              /\ UNCHANGED <<store, responses>>
           \/ /\ frame.type = "bad"
              /\ Fail
              /\ UNCHANGED <<store, responses>>
    /\ down' = Tail(down)
    /\ UNCHANGED <<sessionVars, conn, requests, up, copies, phoneVars, callerVars, n>>

deliver_pending ==
    /\ task = "loop" /\ pending # 0
    /\ Len(responses) < Capacity
    /\ responses' = Append(responses, pending)
    /\ pending' = 0
    /\ UNCHANGED <<sessionVars, task, conn, told, fault, requests, wireVars, storeVars,
                   phoneVars, callerVars, n>>

(* GetInfo is answered from the initial message. *)
connection_send ==
    /\ Looping
    /\ requests # <<>>
    /\ requests' = Tail(requests)
    /\ LET request == Head(requests)
       IN  IF request.cmd = "GetInfo"
           THEN Respond(request.id) /\ UNCHANGED up
           ELSE up' = Append(up, request.id) /\ UNCHANGED <<responses, pending>>
    /\ UNCHANGED <<sessionVars, task, conn, told, fault, down, storeVars, phoneVars,
                   callerVars, n>>

(* The frame cannot be sent. *)
connection_send_fails ==
    /\ Looping
    /\ requests # <<>> /\ Head(requests).cmd # "GetInfo"
    /\ requests' = Tail(requests)
    /\ Fail
    /\ UNCHANGED <<sessionVars, conn, responses, wireVars, storeVars, phoneVars,
                   callerVars, n>>

-------------------------------------------------------------------------------
(* The caller: ctap2 protocol code that does cbor_send, then cbor_recv.    *)

CallerChange == UNCHANGED <<sessionVars, task, pending, conn, told, fault,
                            wireVars, storeVars, phoneVars>>
SameChannel == UNCHANGED <<sessionVars, task, pending, conn, told, fault, queueVars,
                           wireVars, phoneVars, callerVars>>

Return(result, tag) ==
    /\ pc' = "idle"
    /\ outcome' = result
    /\ answer' = tag
    /\ UNCHANGED <<call, reused>>

Goto(location) == pc' = location /\ UNCHANGED <<call, outcome, answer, reused>>

(* The task has dropped its ends of the queues. *)
Hung == task \in {"failing", "ending", "done"}

Begin(cmd) ==
    /\ pc = "idle" /\ session # Closed
    /\ n.calls < MaxCalls
    /\ outcome \in ReusesAfter \cup {"none", "ok"}
    /\ n' = [n EXCEPT !.calls = @ + 1]
    /\ call' = [id |-> n.calls + 1, cmd |-> cmd]
    /\ pc' = "sendWait" /\ outcome' = "none" /\ answer' = 0
    /\ reused' = (reused \/ outcome \notin {"none", "ok"})
    /\ UNCHANGED queueVars
    /\ CallerChange

IsConnected == conn = "Connected"

(* Both halves of a call wait here, however long the handshake takes. *)
wait_for_connection ==
    /\ pc \in {"sendWait", "recvWait"}
    /\ \/ /\ IsConnected
          /\ Goto(IF pc = "sendWait" THEN "send" ELSE "recv")
       \/ /\ conn = "Terminated"
          /\ Return("ConnectionFailed", 0)
    /\ UNCHANGED <<queueVars, n>>
    /\ CallerChange

cbor_send ==
    /\ pc = "send"
    /\ IF Hung THEN Return("TransportUnavailable", 0) /\ UNCHANGED requests
       ELSE IF Len(requests) < Capacity
       THEN Goto("recvWait") /\ requests' = Append(requests, call)
       ELSE Return("Timeout", 0) /\ UNCHANGED requests
    /\ UNCHANGED <<responses, n>>
    /\ CallerChange

(* Changed form: the receive timeout is not kept. *)
TimesOut_Never == FALSE

TimesOut == ~Hung

cbor_recv ==
    /\ pc = "recv"
    /\ \/ /\ responses # <<>>
          /\ responses' = Tail(responses)
          /\ Return("ok", Head(responses))
       \/ /\ responses = <<>> /\ Hung
          /\ Return("TransportUnavailable", 0)
          /\ UNCHANGED responses
       \/ /\ responses = <<>> /\ TimesOut
          /\ Return("Timeout", 0)
          /\ UNCHANGED responses
    /\ UNCHANGED <<requests, n>>
    /\ CallerChange

(* The caller drops the call's future at one of its awaits. *)
Abandon ==
    /\ pc # "idle"
    /\ Return("Aborted", 0)
    /\ UNCHANGED <<queueVars, n>>
    /\ CallerChange

-------------------------------------------------------------------------------
(* The application opens and drops channels.                               *)

Open(kind, phone, link, persistent) ==
    /\ session = Closed /\ n.sessions < MaxSessions
    /\ n' = [n EXCEPT !.sessions = @ + 1]
    /\ session' = [kind |-> kind, phone |-> phone, link |-> link, persistent |-> persistent]
    /\ LET first == IF kind = "qr" THEN "proximity" ELSE "connect"
       IN  task' = first /\ told' = <<UpdateOf[first]>>
    /\ redirects' = 0 /\ near' = FALSE /\ fault' = FALSE
    /\ UNCHANGED <<pending, conn, queueVars, wireVars, storeVars, phoneVars, callerVars>>

OpenQrCode == \E persistent \in BOOLEAN : Open("qr", Nobody, NoLink, persistent)

(* CableKnownDevice::new copies a record, and lasts as long as the         *)
(* application likes, also when the record does not.                       *)
CopyRecord ==
    /\ session = Closed
    /\ \E p \in Phones :
         /\ store[p] \notin copies[p] \cup {NoLink}
         /\ copies' = [copies EXCEPT ![p] = @ \cup {store[p]}]
    /\ UNCHANGED <<store, n>>
    /\ SameChannel

OpenKnownDevice ==
    \E p \in Phones : \E link \in copies[p] : Open("known", p, link, TRUE)

(* CableChannel::drop aborts the task at whichever await it stands. *)
drop ==
    /\ session # Closed /\ pc = "idle"
    /\ session' = Closed /\ task' = "none" /\ pending' = 0 /\ conn' = "Connecting"
    /\ told' = <<>> /\ near' = FALSE /\ fault' = FALSE /\ redirects' = 0
    /\ requests' = <<>> /\ responses' = <<>> /\ up' = <<>> /\ down' = <<>>
    /\ outcome' = "none" /\ answer' = 0 /\ reused' = FALSE
    /\ UNCHANGED <<storeVars, phoneVars, pc, call, n>>

-------------------------------------------------------------------------------
(* The phone, and the tunnel server.                                       *)

HungUp == \E i \in DOMAIN down : down[i].type = "close"

PhoneSends(frame) ==
    /\ task \in {"initial", "loop"} /\ ~HungUp
    /\ down' = Append(down, frame)
    /\ UNCHANGED <<sessionVars, task, pending, conn, told, fault, queueVars, storeVars,
                   callerVars>>

PhoneAnswers ==
    /\ up # <<>>
    /\ PhoneSends([Frame("ctap") EXCEPT !.id = Head(up)])
    /\ up' = Tail(up)
    /\ UNCHANGED <<phoneVars, n>>

(* The phone hands out a link, for a later session without a QR code. *)
PhoneLinks ==
    LET p == session.phone
    IN  /\ task \in {"initial", "loop"}
        /\ links[p] < MaxLinks
        /\ links' = [links EXCEPT ![p] = @ + 1]
        /\ contacts' = [contacts EXCEPT ![p] = @ \cup {links[p] + 1}]
        /\ PhoneSends([Frame("update") EXCEPT !.phone = p, !.link = links[p] + 1,
                                              !.signed = TRUE])
        /\ UNCHANGED <<up, n>>

Odd == n.odd < MaxOdd /\ n' = [n EXCEPT !.odd = @ + 1]

(* An update in some phone's name that the phone did not sign. *)
ForgedUpdate ==
    /\ Odd
    /\ \E p \in Phones :
         PhoneSends([Frame("update") EXCEPT !.phone = p, !.link = ForgedLink])
    /\ UNCHANGED <<up, phoneVars>>

(* A frame that does not decrypt, or is not a tunnel message; a Shutdown   *)
(* without payload is one of them.                                         *)
BadFrame == Odd /\ PhoneSends(Frame("bad")) /\ UNCHANGED <<up, phoneVars>>

(* A Shutdown message with a payload, or the end of the data channel.      *)
PhoneHangsUp == PhoneSends(Frame("close")) /\ UNCHANGED <<up, phoneVars, n>>

(* The user unlinks this platform, or the contact is replaced. *)
ContactLost ==
    /\ Odd
    /\ \E p \in Phones : \E g \in contacts[p] :
         contacts' = [contacts EXCEPT ![p] = @ \ {g}]
    /\ UNCHANGED <<sessionVars, task, pending, conn, told, fault, queueVars,
                   wireVars, storeVars, links, callerVars>>

Task ==
    \/ TellError \/ Terminate \/ connection_recv_initial \/ connection_recv \/ deliver_pending
    \/ connection_send \/ connection_send_fails

Caller == wait_for_connection \/ cbor_send \/ cbor_recv

Stages ==
    \/ \E p \in Phones : await_advertisement(p)
    \/ connection_stage \/ follow_redirect \/ tunnel_gone \/ handshake_stage
    \/ stage_fails

Application ==
    \/ OpenQrCode \/ CopyRecord \/ OpenKnownDevice \/ drop \/ Abandon
    \/ \E cmd \in {"GetInfo", "Other"} : Begin(cmd)

Outside ==
    PhoneAnswers \/ PhoneLinks \/ ForgedUpdate \/ BadFrame \/ PhoneHangsUp \/ ContactLost

Next == Task \/ Caller \/ Stages \/ Application \/ Outside

Spec == Init /\ [][Next]_vars

(* The runtime polls the task and the caller, and timers fire.  A stage    *)
(* may take for ever: nobody need scan the QR code.                        *)
FairSpec == Spec /\ WF_vars(Task) /\ WF_vars(Caller)

-------------------------------------------------------------------------------
(* Types, the capacity of the queues, and the limit on redirects           *)
(* (tunnel.rs:137-186).                                                    *)
TypeOK ==
    /\ session \in [kind : {"none", "qr", "known"}, phone : Phones \cup {Nobody},
                    link : 0..MaxLinks, persistent : BOOLEAN]
    /\ task \in {"none", "proximity", "connect", "handshake", "initial", "loop",
                 "failing", "ending", "done"}
    /\ pending \in {0} \cup Call
    /\ redirects \in 0..(MAX_TUNNEL_REDIRECTS + 1)
    /\ conn \in {"Connecting", "Connected", "Terminated"}
    /\ near \in BOOLEAN /\ fault \in BOOLEAN
    /\ requests \in Seq(Requests) /\ Len(requests) <= Capacity
    /\ responses \in Seq({0} \cup Call) /\ Len(responses) <= Capacity
    /\ up \in Seq(Call) /\ down \in Seq(FrameType)
    /\ store \in [Phones -> 0..ForgedLink]
    /\ copies \in [Phones -> SUBSET (1..ForgedLink)]
    /\ links \in [Phones -> 0..MaxLinks]
    /\ contacts \in [Phones -> SUBSET (1..MaxLinks)]
    /\ pc \in {"idle", "sendWait", "send", "recvWait", "recv"}
    /\ call \in [id : {0} \cup Call, cmd : {"GetInfo", "Other"}]
    /\ outcome \in Outcomes /\ answer \in {0} \cup Call
    /\ reused \in BOOLEAN

(* A call is only given the answer to its own request, never a phone's     *)
(* update and never another call's answer, as long as no call on the       *)
(* channel was given up before: the queues carry no identifiers            *)
(* (protocol.rs:275-412, channel.rs:161-197).                              *)
AnswersMatch == outcome = "ok" /\ ~reused => answer = call.id

(* Callers are let in only after an advertisement for this very session    *)
(* was received: a tunnel alone does not show that the phone is near       *)
(* (qr_code_device.rs:213-234, known_devices.rs:165-190).                  *)
ConnectedOnlyWhenNear == conn = "Connected" => near

(* When a call fails because the connection did, the application has been  *)
(* told of the error by then (connection_stages.rs:259-263).               *)
FailuresAreTold ==
    fault /\ outcome = "ConnectionFailed" => Contains(told, "Error")

(* The store never holds a link its phone did not hand out, whatever       *)
(* updates arrive, on whichever kind of channel (protocol.rs:612-690); and *)
(* a phone is forgotten only when the contact its own channel was opened   *)
(* with is gone, by no update (protocol.rs:633,                            *)
(* connection_stages.rs:324-341).                                          *)
StoredLinksAreGenuine == \A p \in Phones : store[p] \in 0..links[p]
ForgetsTheGone ==
    \A p \in Phones :
        store[p] # NoLink /\ store'[p] = NoLink =>
            /\ session.kind = "known" /\ session.phone = p
            /\ session.link \notin contacts[p]
StoreIsGenuine == []StoredLinksAreGenuine /\ [][ForgetsTheGone]_vars

(* Once the connection is made, or has failed, every call returns.         *)
CallsReturn ==
    (pc # "idle" /\ (conn # "Connecting" \/ Hung)) ~> (pc = "idle")

================================================================================
