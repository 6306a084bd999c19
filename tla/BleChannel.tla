------------------------------ MODULE BleChannel ------------------------------
(***************************************************************************)
(* One program using one authenticator over Bluetooth Low Energy           *)
(* (transport/ble/channel.rs, device.rs and btleplug/): reading the        *)
(* revisions the device supports, opening a channel on a bonded link,      *)
(* exchanges on it, and dropping it.                                       *)
(*                                                                         *)
(* Nothing in the code ends the radio link: a channel that is dropped      *)
(* leaves the device connected, so what the device still has to say        *)
(* reaches the next channel.  Notifications wait in the stream of the      *)
(* channel, between calls too, and a call that is dropped while it waits   *)
(* leaves them there.                                                      *)
(***************************************************************************)
EXTENDS BleFraming, FiniteSets

CONSTANTS
    RequestSizes,   \* bytes of data of a request
    AnswerSizes,    \* bytes of data of an answer
    ControlPoints,  \* lengths of a fragment the device may ask for
    Supports,       \* sets of revisions the device may support
    Timeout,        \* the receive timeout, in ticks
    MaxOpens,       \* bound: channels opened
    MaxCalls,       \* bound: exchanges
    MaxExtras,      \* bound: keep-alives and pings of the device
    MaxLosses,      \* bound: notifications the stream drops
    MaxBondChanges  \* bound: changes of the bonding by the user

BleChannelAssumption ==
    /\ RequestSizes \subseteq Nat /\ AnswerSizes \subseteq Nat \ {0}
    /\ ControlPoints \subseteq Nat
    /\ Supports \subseteq SUBSET {"V2", "U2fv12", "U2fv11"}
    /\ Timeout \in Nat /\ MaxOpens \in Nat /\ MaxCalls \in Nat
    /\ MaxExtras \in Nat /\ MaxLosses \in Nat /\ MaxBondChanges \in Nat

VARIABLES
    peer,      \* the peer as the operating system knows it: bonding, link
    revisions, \* BleDevice.revisions, an Option: {} before they are read
    chan,      \* the channel: whether it exists, the revision it selected
    pc,        \* where the caller's task is
    call,      \* number of the call under way or last made
    out,       \* fragments still to write
    inq,       \* the notification stream
    recv,      \* frame_recv: its parser, and ticks since the last notification
    dev,       \* the authenticator
    outcome,   \* per call, what it returned
    answer,    \* history: per call, the data it was given
    vouched,   \* history: the link was found bonded since it was made
    broken,    \* history: a call or a new channel starts in the middle of an answer
    size,      \* history: bytes of the request of the call
    executed,  \* history: the last request the device was given to work on
    n          \* the bounds

vars == <<peer, revisions, chan, pc, call, out, inq, recv, dev, outcome, answer,
          vouched, broken, size, executed, n>>

Call == 1..MaxCalls

BondingState == {"Bonded", "NotBonded", "Unknown"}
FidoRevision == {"V2", "U2fv12", "U2fv11"}

Failures ==
    {"OperationFailed", "ConnectionFailed", "InvalidFraming", "Canceled", "Timeout",
     "Aborted", "Panicked"}

Idle == pc = "idle"
NoRecv == [parser |-> <<>>, waited |-> 0]
NoChannel == [exists |-> FALSE, revision |-> "none"]

Init ==
    /\ peer \in [bonding : BondingState, linked : {FALSE}]
    /\ revisions = {}
    /\ chan = NoChannel
    /\ pc = "idle"
    /\ call = 0
    /\ out = <<>>
    /\ inq = <<>>
    /\ recv = NoRecv
    /\ dev \in [rx : {<<>>}, busy : {0}, tx : {<<>>}, max : ControlPoints,
                supports : Supports]
    /\ outcome = [c \in Call |-> "none"]
    /\ answer = [c \in Call |-> <<>>]
    /\ vouched = FALSE
    /\ broken = FALSE
    /\ size = 0
    /\ executed = {}
    /\ n = [opens |-> 0, extras |-> 0, pings |-> 0, losses |-> 0, bonds |-> 0]

-------------------------------------------------------------------------------
(* The authenticator, external: it works on one message at a time, each    *)
(* carrying the number of its call as data.                                *)

Notify(d, msg) == [d EXCEPT !.tx = @ \o fragments(msg, d.max)]

AnswerOf(c, bytes) == Frame(Msg, [i \in 1..bytes |-> c])

Taken(fragment) ==
    IF fragment[1] \in BleCommand THEN <<fragment>> ELSE Append(dev.rx, fragment)

(* The device has the whole of a message, by the length it announces.      *)
Complete(fragment) ==
    (fragment[1] \in BleCommand \/ dev.rx # <<>>) /\ ~more_fragments_needed(Taken(fragment))

Executes(fragment) ==
    Complete(fragment) /\ frame(Taken(fragment)).cmd = Msg /\ dev.busy = 0

Reaction(fragment) ==
    LET rest == [dev EXCEPT !.rx = <<>>]
    IN  IF Executes(fragment) THEN [rest EXCEPT !.busy = call]
        ELSE IF ~Complete(fragment)
        THEN [dev EXCEPT !.rx = IF dev.rx = <<>> /\ fragment[1] \notin BleCommand
                                THEN <<>> ELSE Taken(fragment)]
        ELSE IF frame(Taken(fragment)).cmd = Msg THEN Notify(rest, Frame(Error, <<call>>))
        ELSE IF dev.busy # 0 THEN Notify([rest EXCEPT !.busy = 0], AnswerOf(dev.busy, 1))
        ELSE rest

DeviceChange(d) ==
    /\ dev' = d
    /\ UNCHANGED <<peer, revisions, chan, pc, call, out, recv, outcome, answer, vouched,
                   broken, size, executed>>

DeviceAnswers ==
    /\ dev.busy # 0
    /\ \E msg \in {AnswerOf(dev.busy, bytes) : bytes \in AnswerSizes}
                    \cup {Frame(Error, <<dev.busy>>), Frame(Cancel, <<>>)} :
         DeviceChange(Notify([dev EXCEPT !.busy = 0], msg))
    /\ UNCHANGED <<inq, n>>

(* A keep-alive while it works, or a ping. *)
DeviceExtra ==
    /\ dev.busy # 0
    /\ n.extras < MaxExtras
    /\ \E cmd \in {Keepalive, Ping} :
         /\ DeviceChange(Notify(dev, Frame(cmd, <<dev.busy>>)))
         /\ n' = [n EXCEPT !.extras = @ + 1, !.pings = @ + IF cmd = Ping THEN 1 ELSE 0]
    /\ UNCHANGED inq

(* A notification reaches the stream of an open channel, which may drop it *)
(* when nobody reads it for long.                                          *)
DeviceNotifies ==
    /\ dev.tx # <<>>
    /\ peer.linked
    /\ \/ inq' = (IF chan.exists THEN Append(inq, Head(dev.tx)) ELSE inq) /\ UNCHANGED n
       \/ /\ chan.exists /\ n.losses < MaxLosses
          /\ n' = [n EXCEPT !.losses = @ + 1]
          /\ UNCHANGED inq
    /\ DeviceChange([dev EXCEPT !.tx = Tail(@)])

(* The user pairs the device, or removes the pairing, or BlueZ cannot be   *)
(* asked for a while.  Once a channel is open nobody asks.                 *)
BondingChanges ==
    /\ ~chan.exists
    /\ n.bonds < MaxBondChanges
    /\ n' = [n EXCEPT !.bonds = @ + 1]
    /\ \E b \in BondingState \ {peer.bonding} : peer' = [peer EXCEPT !.bonding = b]
    /\ UNCHANGED <<revisions, chan, pc, call, out, inq, recv, dev, outcome, answer,
                   vouched, broken, size, executed>>

(* The radio link is lost, and with it what the device had under way. *)
LinkLost ==
    /\ peer.linked
    /\ peer' = [peer EXCEPT !.linked = FALSE]
    /\ vouched' = FALSE
    /\ dev' = [dev EXCEPT !.rx = <<>>, !.busy = 0, !.tx = <<>>]
    /\ UNCHANGED <<revisions, chan, pc, call, out, inq, recv, outcome, answer, broken,
                   size, executed, n>>

-------------------------------------------------------------------------------
(* Opening: BleDevice::channel, supported_fido_revisions, manager::connect *)
(* and Connection::new.                                                    *)

(* SupportedRevisions::select_best. *)
select_best(supported) ==
    IF "V2" \in supported THEN "V2"
    ELSE IF "U2fv12" \in supported THEN "U2fv12"
    ELSE IF "U2fv11" \in supported THEN "U2fv11"
    ELSE "none"

(* Changed form: a bonding that cannot be queried passes. *)
bonded_or_refused_Unknown == peer.bonding # "NotBonded"

(* enforce_bonded. *)
bonded_or_refused == peer.bonding = "Bonded"

OpenStep(next) ==
    /\ pc' = next
    /\ UNCHANGED <<call, out, inq, recv, dev, outcome, answer, size, executed>>

(* The revisions are read once per BleDevice. *)
channel ==
    /\ Idle /\ ~chan.exists
    /\ n.opens < MaxOpens
    /\ n' = [n EXCEPT !.opens = @ + 1]
    /\ OpenStep(IF revisions = {} THEN "enforce" ELSE "select")
    /\ UNCHANGED <<peer, revisions, chan, vouched, broken>>

(* A step of opening fails.  The link, if there is one, stays. *)
OpenFails ==
    /\ pc \in {"enforce", "read", "select", "verify", "endpoints"}
    /\ OpenStep("idle")
    /\ UNCHANGED <<peer, revisions, chan, vouched, broken, n>>

enforce_bonded ==
    /\ pc = "enforce"
    /\ bonded_or_refused
    /\ OpenStep("read")
    /\ UNCHANGED <<peer, revisions, chan, vouched, broken, n>>

(* connect, discover_services and the read of the bitfield. *)
supported_fido_revisions ==
    /\ pc = "read"
    /\ peer' = [peer EXCEPT !.linked = TRUE]
    /\ vouched' = (vouched /\ peer.linked)
    /\ revisions' = {dev.supports}
    /\ OpenStep("select")
    /\ UNCHANGED <<chan, broken, n>>

(* BleChannel::new selects a revision, manager::connect connects. *)
connect ==
    /\ pc = "select"
    /\ IF select_best(UNION revisions) = "none"
       THEN OpenStep("idle") /\ UNCHANGED <<peer, vouched>>
       ELSE /\ peer' = [peer EXCEPT !.linked = TRUE]
            /\ vouched' = (vouched /\ peer.linked)
            /\ OpenStep("verify")
    /\ UNCHANGED <<revisions, chan, broken, n>>

(* manager::connect asks again once connected. *)
enforce_bonded_link ==
    /\ pc = "verify"
    /\ bonded_or_refused
    /\ vouched' = (peer.linked /\ peer.bonding = "Bonded")
    /\ OpenStep("endpoints")
    /\ UNCHANGED <<peer, revisions, chan, broken, n>>

(* Connection::new: services and characteristics, notifications, and the   *)
(* revision written to the device.                                         *)
Connection_new ==
    /\ pc = "endpoints"
    /\ peer.linked
    /\ chan' = [exists |-> TRUE, revision |-> select_best(UNION revisions)]
    /\ broken' = (broken \/ (dev.tx # <<>> /\ Head(dev.tx)[1] \notin BleCommand))
    /\ OpenStep("idle")
    /\ UNCHANGED <<peer, revisions, vouched, n>>

(* The channel is dropped, and with it the stream; the link stays. *)
drop ==
    /\ Idle /\ chan.exists
    /\ chan' = NoChannel
    /\ inq' = <<>>
    /\ UNCHANGED <<peer, revisions, pc, call, out, recv, dev, outcome, answer, vouched,
                   broken, size, executed, n>>

-------------------------------------------------------------------------------
(* An exchange: apdu_send or cbor_send, then apdu_recv or cbor_recv.       *)

UnchangedLink == UNCHANGED <<peer, revisions, chan, vouched, n>>

UnchangedRequest == UNCHANGED <<broken, size, executed>> /\ UnchangedLink

Return(result, data) ==
    /\ outcome' = [outcome EXCEPT ![call] = result]
    /\ answer' = [answer EXCEPT ![call] = data]
    /\ pc' = "idle"
    /\ out' = <<>>
    /\ recv' = NoRecv

(* frame_send reads the length of the control point, and cuts the frame. *)
Begin ==
    /\ Idle /\ chan.exists
    /\ call < MaxCalls
    /\ call' = call + 1
    /\ size' \in RequestSizes
    /\ LET request == Frame(Msg, [i \in 1..size' |-> call + 1])
       IN  \/ /\ MayFragment(dev.max)
              /\ pc' = "send"
              /\ out' = fragments(request, dev.max)
              /\ UNCHANGED outcome
           \/ /\ ~MayFragment(dev.max)
              /\ outcome' = [outcome EXCEPT ![call + 1] = "InvalidFraming"]
              /\ UNCHANGED <<pc, out>>
           \/ /\ MayFragment(dev.max) /\ SequenceOverflows(request, dev.max)
              /\ outcome' = [outcome EXCEPT ![call + 1] = "Panicked"]
              /\ UNCHANGED <<pc, out>>
    /\ UNCHANGED <<inq, recv, dev, answer, broken, executed>>
    /\ UnchangedLink

(* One write of frame_send. *)
frame_send ==
    /\ pc = "send"
    /\ \/ /\ out # <<>> /\ peer.linked
          /\ dev' = Reaction(Head(out))
          /\ executed' = IF Executes(Head(out))
                         THEN {[id |-> call, size |-> size,
                                data |-> frame(Taken(Head(out))).data]}
                         ELSE executed
          /\ out' = Tail(out)
          /\ UNCHANGED <<pc, recv, size, outcome, answer>>
       \/ /\ out # <<>>
          /\ Return("OperationFailed", <<>>)
          /\ size' = 0
          /\ UNCHANGED <<dev, executed>>
       \/ /\ out = <<>>
          /\ pc' = "recv"
          /\ size' = 0 /\ executed' = {}
          /\ UNCHANGED <<out, recv, dev, outcome, answer>>
    /\ UNCHANGED <<call, inq, broken>>
    /\ UnchangedLink

(* Changed form: keep-alives are not told from answers. *)
IsKeepalive_Ignored(message) == FALSE

IsKeepalive(message) == message.cmd = Keepalive


(* What the parser holds when the loop goes on after a whole frame:        *)
(* a keep-alive is taken out, a ping stays in front of what follows.       *)
AfterFrame(message) ==
    IF IsKeepalive(message) THEN <<>> ELSE Append(recv.parser, Head(inq))

(* One notification of frame_recv. *)
frame_recv ==
    LET taken == Append(recv.parser, Head(inq))
        message == frame(taken)
    IN  /\ pc = "recv"
        /\ inq # <<>>
        /\ inq' = Tail(inq)
        /\ IF ~AcceptableFragment(recv.parser, Head(inq)) THEN Return("InvalidFraming", <<>>)
           ELSE IF more_fragments_needed(taken)
           THEN /\ recv' = [parser |-> taken, waited |-> 0]
                /\ UNCHANGED <<pc, out, outcome, answer>>
           ELSE IF ~HasFrame(taken) THEN Return("InvalidFraming", <<>>)
           ELSE IF IsKeepalive(message) \/ message.cmd = Ping
           THEN /\ recv' = [parser |-> AfterFrame(message), waited |-> 0]
                /\ UNCHANGED <<pc, out, outcome, answer>>
           ELSE IF message.cmd = Cancel THEN Return("Canceled", <<>>)
           ELSE IF message.cmd = Error THEN Return("OperationFailed", <<>>)
           ELSE Return("ok", message.data)
        /\ UNCHANGED <<call, dev>>
        /\ UnchangedRequest

(* Without a link the stream ends behind its last notification. *)
stream_ends ==
    /\ pc = "recv" /\ inq = <<>> /\ ~peer.linked
    /\ Return("ConnectionFailed", <<>>)
    /\ UNCHANGED <<call, inq, dev>>
    /\ UnchangedRequest

Tick ==
    /\ pc = "recv" /\ inq = <<>> /\ recv.waited < Timeout
    /\ recv' = [recv EXCEPT !.waited = @ + 1]
    /\ UNCHANGED <<pc, call, out, inq, dev, outcome, answer>>
    /\ UnchangedRequest

(* Changed form: the wait for a notification has no end. *)
Expired_Never == FALSE

(* The timeout is on each notification, not on the answer. *)
Expired == recv.waited >= Timeout

CancelFragments == fragments(Frame(Cancel, <<>>), dev.max)

frame_recv_times_out ==
    /\ pc = "recv" /\ inq = <<>> /\ Expired
    /\ pc' = "cancel"
    /\ out' = CancelFragments
    /\ UNCHANGED <<call, inq, recv, dev, outcome, answer>>
    /\ UnchangedRequest

LeftInTheMiddle ==
    /\ broken' = (broken \/ recv.parser # <<>>)
    /\ size' = 0 /\ executed' = {}

(* send_cancel is best effort: the call ends the same way. *)
send_cancel ==
    /\ pc = "cancel"
    /\ Return("Timeout", <<>>)
    /\ LeftInTheMiddle
    /\ IF peer.linked /\ out # <<>> THEN dev' = Reaction(Head(out)) ELSE UNCHANGED dev
    /\ UNCHANGED <<call, inq>>
    /\ UnchangedLink

(* The future is dropped where it waits. *)
Abandon ==
    /\ pc \in {"send", "recv", "cancel"}
    /\ Return("Aborted", <<>>)
    /\ LeftInTheMiddle
    /\ UNCHANGED <<call, inq, dev>>
    /\ UnchangedLink

Opening == channel \/ OpenFails \/ enforce_bonded \/ supported_fido_revisions
            \/ connect \/ enforce_bonded_link \/ Connection_new \/ drop

Exchanging == Begin \/ frame_send \/ frame_recv \/ stream_ends \/ Tick
                \/ frame_recv_times_out \/ send_cancel \/ Abandon

Outside == DeviceAnswers \/ DeviceExtra \/ DeviceNotifies \/ BondingChanges \/ LinkLost

Next == Opening \/ Exchanging \/ Outside

Spec == Init /\ [][Next]_vars

-------------------------------------------------------------------------------
TypeOK ==
    /\ peer \in [bonding : BondingState, linked : BOOLEAN]
    /\ revisions \subseteq SUBSET FidoRevision /\ Cardinality(revisions) <= 1
    /\ chan \in [exists : BOOLEAN, revision : FidoRevision \cup {"none"}]
    /\ pc \in {"idle", "enforce", "read", "select", "verify", "endpoints",
               "send", "recv", "cancel"}
    /\ call \in {0} \cup Call
    /\ \A i \in DOMAIN out : Len(out[i]) \in 1..dev.max
    /\ \A i \in DOMAIN inq : Len(inq[i]) \in 1..dev.max
    /\ recv.waited \in 0..Timeout
    /\ outcome \in [Call -> Failures \cup {"none", "ok"}]
    /\ vouched \in BOOLEAN /\ broken \in BOOLEAN

(* Requests only go to a device whose link was found bonded after it was   *)
(* made, though the bonding may change at every await and BlueZ may not    *)
(* know it (manager.rs:232-246, pairing.rs:53-69).                         *)
OnlyOverBondedLinks == chan.exists /\ peer.linked => vouched

(* The call whose answer a call was given: its number is the data. *)
Gave(c) == IF answer[c] = <<>> THEN 0 ELSE answer[c][1]

(* An answer is given as it was sent: all of its bytes, nothing else.  The *)
(* fragments are joined in order of arrival, whatever their numbers        *)
(* (framing.rs:97-147), so this needs that none is dropped, and that no    *)
(* call before, or channel, was left in the middle of an answer.           *)
Undisturbed == n.losses = 0 /\ ~broken

AnswersAreWhole ==
    Undisturbed =>
        \A c \in Call :
            outcome[c] = "ok" => \E bytes \in AnswerSizes \cup {1} :
                                    answer[c] = [i \in 1..bytes |-> answer[c][1]]

(* The device works on what a call sent, all of it, also when a call       *)
(* before broke off in the middle (framing.rs:38-79), up to the 65535      *)
(* bytes that a frame can announce.                                        *)
BleRequestsAreWhole ==
    \A e \in executed :
        e.size < BYTE * BYTE => e.data = [i \in 1..e.size |-> e.id]

BleMessagesAreWhole == AnswersAreWhole /\ BleRequestsAreWhole

(* A call does not go on waiting once the device has said all it has to    *)
(* say, whatever came before its answer (connection.rs:151-207); a ping,   *)
(* which stays in the parser and is what the answer is joined to, makes    *)
(* an exception.  And the device does not go on working for a call that    *)
(* timed out (connection.rs:165-177).                                      *)
NothingLeftToHear ==
    /\ pc = "recv" /\ inq = <<>> /\ peer.linked
    /\ dev.busy = 0 /\ dev.tx = <<>>
    /\ Undisturbed

===============================================================================
