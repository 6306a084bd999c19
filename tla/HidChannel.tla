------------------------------ MODULE HidChannel ------------------------------
(***************************************************************************)
(* One program using one authenticator over USB HID                        *)
(* (transport/hid/channel.rs): opening a channel, transactions on it, and  *)
(* dropping it.                                                            *)
(*                                                                         *)
(* Three threads of the code meet here.  The caller's task sends: hid_send *)
(* is synchronous and holds the device's mutex.  Receiving is done by a    *)
(* blocking closure (spawn_blocking) that takes the same mutex and reads   *)
(* until its deadline; the task awaits it, and when the task's future is   *)
(* dropped at that await the closure is not stopped: it goes on, or starts *)
(* later.  Any thread may send a cancellation through a HidChannelHandle.  *)
(* The device answers in its own time.                                     *)
(*                                                                         *)
(* Calls are numbered.  A request carries the number of its call, and the  *)
(* answer repeats it; the number also serves as the nonce of INIT and as   *)
(* the cid INIT allocates.                                                 *)
(***************************************************************************)
EXTENDS HidFraming, FiniteSets

CONSTANTS
    Commands,       \* what the caller may transact: of {"Cbor", "Msg", "Wink"}
    Sizes,          \* payload lengths of requests and answers
    Timeout,        \* the receive timeout, in ticks
    ReusesAfter,    \* outcomes after which the caller goes on using the channel
    MaxCalls,       \* bound: opens and transactions
    MaxOdd          \* bound: cancellations sent, keep-alive messages, reports
                    \* for other programs that arrive here too

(* InitResponse::default().cid, until INIT has succeeded. *)
ReservedCid == 0

(* The cid of another program's channel, and 0xFFFFFFFF: two numbers that  *)
(* are no call's.                                                          *)
ForeignCid == MaxCalls + 1
BROADCAST_CID == MaxCalls + 2

ChannelAssumption ==
    /\ Commands \subseteq {"Cbor", "Msg", "Wink"}
    /\ Commands \subseteq HidCommand
    /\ Sizes \subseteq Nat \ {0}
    /\ Timeout \in Nat
    /\ MaxCalls \in Nat /\ MaxOdd \in Nat

VARIABLES
    chan,     \* the channel: whether it exists, and the cid of its InitResponse
    pc,       \* where the caller's task is
    call,     \* the call under way: number, command, outcome to report
    sending,  \* what hid_send writes: its purpose, the packets left
    lock,     \* holder of the device mutex
    reader,   \* per call, the blocking closure of its hid_recv
    cancels,  \* messages in the cancellation channel, of capacity 1
    inq,      \* reports the operating system holds for the channel
    dev,      \* the authenticator
    outcome,  \* per call, what it returned
    answer,   \* history: per call, the call whose answer it was given
    gaveUp,   \* history: calls whose hid_recv gave up
    n         \* the bounds

vars == <<chan, pc, call, sending, lock, reader, cancels, inq, dev, outcome,
          answer, gaveUp, n>>

Call == 1..MaxCalls

Outcomes ==
    {"none", "ok", "Timeout", "Cancelled", "FrameParse", "ResponseDecode",
     "InvalidInit", "Aborted", "UserActionTimeout"}

NoCall == [id |-> 0, cmd |-> "Init", then |-> "none"]
NoSending == [for |-> "request", fallback |-> FALSE, out |-> <<>>]
NoReader == [at |-> "none", parser |-> <<>>, waited |-> 0, got |-> "none"]
Closed == [exists |-> FALSE, cid |-> ReservedCid]
NotBusy == [id |-> 0, cid |-> ReservedCid, cmd |-> "Cbor"]

PacketType ==
    [cid : {ReservedCid, BROADCAST_CID, ForeignCid} \cup Call, init : BOOLEAN,
     cmd : HidCommand, seq : 0..PACKET_CONT_SEQ_MAX, bcnt : Nat,
     data : Seq(0..ForeignCid)]

Message(cid, cmd, id, size) ==
    [cid |-> cid, cmd |-> cmd, payload |-> [i \in 1..size |-> id]]

Request(id, cmd, size) ==
    Message(IF cmd = "Init" THEN BROADCAST_CID ELSE chan.cid, cmd, id, size)

CancelMessage == [cid |-> chan.cid, cmd |-> "Cancel", payload |-> <<>>]

Init ==
    /\ chan = Closed
    /\ pc = "idle"
    /\ call = NoCall
    /\ sending = NoSending
    /\ lock = "free"
    /\ reader = [c \in Call |-> NoReader]
    /\ cancels = 0
    /\ inq = <<>>
    /\ dev = [rx |-> <<>>, busy |-> NotBusy, tx |-> <<>>]
    /\ outcome = [c \in Call |-> "none"]
    /\ answer = [c \in Call |-> 0]
    /\ gaveUp = {}
    /\ n = [calls |-> 0, cancels |-> 0, odd |-> 0]

-------------------------------------------------------------------------------
(* The authenticator.  dev.rx is the request it is assembling, dev.busy    *)
(* the one it works on, dev.tx the reports it has still to send.           *)

Answers(d, msg) == [d EXCEPT !.tx = @ \o ReportsOf(msg)]

(* The states the device may be in after a report from the host: CANCEL    *)
(* ends the request of that channel, INIT is served at once or refused     *)
(* while another request is worked on, and so is a second request.         *)
Reactions(p) ==
    LET working == dev.busy.id # 0
        refused == Answers(dev, Message(p.cid, "Error", p.data[1], 1))
        taken == IF p.init THEN <<p>> ELSE Append(dev.rx, p)
        complete == taken[1].init /\ ~more_packets_needed(taken)
    IN  IF p.init /\ p.cmd = "Cancel"
        THEN IF working /\ dev.busy.cid = p.cid
             THEN {Answers([dev EXCEPT !.busy = NotBusy],
                           Message(p.cid, dev.busy.cmd, dev.busy.id, 1))}
             ELSE {[dev EXCEPT !.rx = <<>>]}
        ELSE IF p.init /\ p.cmd = "Init"
        THEN {Answers([dev EXCEPT !.rx = <<>>], Message(p.cid, "Init", p.data[1], 1))}
                \cup (IF working THEN {refused} ELSE {})
        ELSE IF working THEN {IF p.init THEN refused ELSE dev}
        ELSE IF complete
        THEN {[dev EXCEPT !.rx = <<>>,
                          !.busy = [id |-> p.data[1], cid |-> p.cid, cmd |-> taken[1].cmd]]}
        ELSE {[dev EXCEPT !.rx = IF taken[1].init THEN taken ELSE <<>>]}

DeviceChange(d) ==
    /\ dev' = d
    /\ UNCHANGED <<chan, pc, call, sending, lock, reader, cancels, outcome,
                   answer, gaveUp>>

(* The device is done with a request, and may leave it unanswered. *)
DeviceFinishes ==
    /\ dev.busy.id # 0
    /\ LET rest == [dev EXCEPT !.busy = NotBusy]
       IN  \/ \E size \in Sizes :
                DeviceChange(Answers(rest, Message(dev.busy.cid, dev.busy.cmd,
                                                   dev.busy.id, size)))
           \/ DeviceChange(rest)
    /\ UNCHANGED <<inq, n>>

DeviceKeepsAlive ==
    /\ dev.busy.id # 0
    /\ n.cancels + n.odd < MaxOdd
    /\ n' = [n EXCEPT !.odd = @ + 1]
    /\ DeviceChange(Answers(dev, Message(dev.busy.cid, "KeepAlive", dev.busy.id, 1)))
    /\ UNCHANGED inq

(* A report reaches the host; without an open channel nobody holds it. *)
DeviceSends ==
    /\ dev.tx # <<>>
    /\ inq' = IF chan.exists THEN Append(inq, Head(dev.tx)) ELSE inq
    /\ DeviceChange([dev EXCEPT !.tx = Tail(@)])
    /\ UNCHANGED n

(* The device answers another program: every open channel gets the report. *)
ForeignArrives ==
    /\ chan.exists
    /\ n.cancels + n.odd < MaxOdd
    /\ n' = [n EXCEPT !.odd = @ + 1]
    /\ \E msg \in {Message(BROADCAST_CID, "Init", ForeignCid, 1),
                   Message(ForeignCid, "KeepAlive", ForeignCid, 1),
                   Message(ForeignCid, "Cbor", ForeignCid, 1)} :
         inq' = inq \o ReportsOf(msg)
    /\ DeviceChange(dev)

-------------------------------------------------------------------------------
(* hid_send: under the mutex, one packet after the other, with a look at   *)
(* the cancellation channel before each.  A cancelled send is followed by  *)
(* the packets of CANCEL, written in the same way.                         *)

Send(purpose, msg) ==
    /\ pc' = "lock"
    /\ sending' = [for |-> purpose, fallback |-> FALSE, out |-> ReportsOf(msg)]

(* Changed form: reading does not wait for the mutex, nor does writing. *)
MayLock_Always == TRUE

(* Mutex::lock returns. *)
MayLock == lock = "free"

hid_send_lock ==
    /\ pc = "lock"
    /\ MayLock
    /\ lock' = "sender"
    /\ pc' = "write"
    /\ UNCHANGED <<chan, call, sending, reader, cancels, inq, dev, outcome,
                   answer, gaveUp, n>>

hid_send_packet ==
    /\ pc = "write"
    /\ sending.out # <<>>
    /\ cancels = 0
    /\ dev' \in Reactions(Head(sending.out))
    /\ sending' = [sending EXCEPT !.out = Tail(@)]
    /\ UNCHANGED <<chan, pc, call, lock, reader, cancels, inq, outcome, answer,
                   gaveUp, n>>

(* Changed form: a cancelled send is not followed by CANCEL. *)
TriesCancel_Never == FALSE

(* A cancelled hid_send writes CANCEL, once. *)
TriesCancel == ~sending.fallback

(* The call returns.  HidChannel::new drops the channel if INIT failed. *)
Return(result, tag) ==
    /\ outcome' = [outcome EXCEPT ![call.id] = result]
    /\ answer' = [answer EXCEPT ![call.id] = tag]
    /\ IF call.cmd = "Init" /\ result # "ok"
       THEN Send("drop", CancelMessage) /\ UNCHANGED chan
       ELSE /\ pc' = "idle"
            /\ sending' = NoSending
            /\ chan' = IF call.cmd = "Init" THEN [chan EXCEPT !.cid = call.id] ELSE chan

(* The channel object is gone: its report queue, its cancellation channel  *)
(* and what its closures still do no longer matter to anybody.             *)
Gone ==
    /\ chan' = Closed
    /\ pc' = "idle"
    /\ sending' = NoSending
    /\ reader' = [c \in Call |-> NoReader]
    /\ cancels' = 0
    /\ inq' = <<>>

(* hid_send returns: what its caller does next. *)
Sent(cancelled) ==
    /\ lock' = "free"
    /\ \/ /\ sending.for = "request" /\ ~cancelled
          /\ reader' = [reader EXCEPT ![call.id] = [NoReader EXCEPT !.at = "spawned"]]
          /\ pc' = "receive"
          /\ sending' = NoSending
          /\ UNCHANGED <<chan, inq, outcome, answer, call>>
       \/ /\ sending.for = "request" /\ cancelled
          /\ Return("Cancelled", 0)
          /\ UNCHANGED <<reader, inq, call>>
       \/ /\ sending.for = "giveUp"
          /\ Return(call.then, 0)
          /\ UNCHANGED <<reader, inq, call>>
       \/ /\ sending.for = "drop"
          /\ Gone
          /\ call' = NoCall
          /\ UNCHANGED <<outcome, answer>>

hid_send_cancelled ==
    /\ pc = "write"
    /\ sending.out # <<>>
    /\ cancels > 0
    /\ IF TriesCancel
       THEN /\ sending' = [sending EXCEPT !.fallback = TRUE,
                                          !.out = ReportsOf(CancelMessage)]
            /\ cancels' = 0
            /\ UNCHANGED <<chan, pc, call, lock, reader, inq, outcome, answer>>
       ELSE /\ Sent(TRUE)
            /\ IF sending.for = "drop" THEN TRUE ELSE cancels' = 0
    /\ UNCHANGED <<dev, gaveUp, n>>

hid_send_done ==
    /\ pc = "write"
    /\ sending.out = <<>>
    /\ Sent(sending.fallback)
    /\ IF sending.for = "drop" THEN TRUE ELSE UNCHANGED cancels
    /\ UNCHANGED <<dev, gaveUp, n>>

-------------------------------------------------------------------------------
(* The blocking closure of hid_recv: hid_recv_hidapi under the mutex.      *)

ReaderChange(c, r) ==
    /\ reader' = [reader EXCEPT ![c] = r]
    /\ UNCHANGED <<chan, pc, call, sending, dev, outcome, answer, gaveUp, n>>

hid_recv_lock(c) ==
    /\ reader[c].at = "spawned"
    /\ MayLock
    /\ lock' = "reader"
    /\ ReaderChange(c, [NoReader EXCEPT !.at = "reading"])
    /\ UNCHANGED <<cancels, inq>>

(* Changed form: no deadline is kept. *)
Expired_Never(r) == FALSE

(* Nothing is left of the deadline set when the closure started. *)
Expired(r) == r.waited >= Timeout

Ended(c, what) == ReaderChange(c, [NoReader EXCEPT !.at = "ended", !.got = what]) /\ lock' = "free"

(* One round of the loop: cancellation, deadline, then one report. *)
hid_recv_hidapi(c) ==
    LET r == reader[c]
        taken == Append(r.parser, Head(inq))
    IN  /\ r.at = "reading"
        /\ \/ /\ cancels > 0
              /\ cancels' = 0
              /\ Ended(c, "Cancelled")
              /\ UNCHANGED inq
           \/ /\ cancels = 0 /\ Expired(r)
              /\ Ended(c, "Timeout")
              /\ UNCHANGED <<cancels, inq>>
           \/ /\ cancels = 0 /\ ~Expired(r) /\ inq # <<>>
              /\ inq' = Tail(inq)
              /\ IF Acceptable(r.parser, Head(inq)) /\ more_packets_needed(taken)
                 THEN ReaderChange(c, [r EXCEPT !.parser = taken]) /\ UNCHANGED lock
                 ELSE IF Acceptable(r.parser, Head(inq)) /\ HasMessage(taken)
                 THEN /\ ReaderChange(c, [r EXCEPT !.at = "ended", !.parser = taken,
                                                  !.waited = 0, !.got = "message"])
                      /\ lock' = "free"
                 ELSE Ended(c, "FrameParse")
              /\ UNCHANGED cancels

(* Time passes for the closure that reads, and for hid_recv. *)
Tick ==
    /\ \E c \in Call :
         /\ reader[c].at = "reading" /\ reader[c].waited < Timeout
         /\ reader' = [reader EXCEPT ![c].waited = @ + 1]
    /\ UNCHANGED <<chan, pc, call, sending, lock, cancels, inq, dev, outcome,
                   answer, gaveUp, n>>

-------------------------------------------------------------------------------
(* hid_recv in the caller's task, and what the call makes of the message.  *)

(* Changed form: keep-alives are not told from answers. *)
IsKeepAlive_Ignored(msg) == FALSE

IsKeepAlive(msg) == msg.cmd = "KeepAlive"

(* init() wants an INIT with its nonce, apdu_recv a status word, cbor_recv *)
(* a status byte; none looks at the cid, and the latter two not at the     *)
(* command.                                                                *)
Decoded(msg) ==
    IF call.cmd = "Init"
    THEN IF msg.cmd = "Init" /\ msg.payload[1] = call.id THEN "ok" ELSE "InvalidInit"
    ELSE IF call.cmd = "Msg" /\ Len(msg.payload) < 2 THEN "ResponseDecode" ELSE "ok"

hid_recv ==
    LET r == reader[call.id]
        msg == message(r.parser)
    IN  /\ pc = "receive"
        /\ r.at = "ended"
        /\ \/ /\ r.got = "message" /\ IsKeepAlive(msg)
              /\ reader' = [reader EXCEPT ![call.id] = [NoReader EXCEPT !.at = "spawned"]]
              /\ UNCHANGED <<chan, pc, call, sending, outcome, answer, gaveUp>>
           \/ /\ r.got \in {"Timeout", "Cancelled"}
              /\ reader' = [reader EXCEPT ![call.id] = NoReader]
              /\ Send("giveUp", CancelMessage)
              /\ call' = [call EXCEPT !.then = r.got]
              /\ gaveUp' = gaveUp \cup {call.id}
              /\ UNCHANGED <<chan, outcome, answer>>
           \/ /\ r.got = "FrameParse"
              /\ reader' = [reader EXCEPT ![call.id] = NoReader]
              /\ Return("FrameParse", 0)
              /\ UNCHANGED <<call, gaveUp>>
           \/ /\ r.got = "message" /\ ~IsKeepAlive(msg)
              /\ reader' = [reader EXCEPT ![call.id] = NoReader]
              /\ Return(Decoded(msg), msg.payload[1])
              /\ UNCHANGED <<call, gaveUp>>
        /\ UNCHANGED <<lock, cancels, inq, dev, n>>

(* The task's future is dropped while it awaits the closure: by the caller *)
(* or, for a CTAP1 command, by the timeout around the whole exchange       *)
(* (proto/ctap1/protocol.rs).                                              *)
Abandon ==
    /\ pc = "receive"
    /\ call.cmd # "Init"
    /\ \E result \in {"Aborted", "UserActionTimeout"} :
         /\ result = "UserActionTimeout" => call.cmd = "Msg"
         /\ Return(result, 0)
    /\ UNCHANGED <<call, lock, reader, cancels, inq, dev, gaveUp, n>>

-------------------------------------------------------------------------------
(* The caller. *)

Begin(cmd, size) ==
    /\ pc = "idle"
    /\ n.calls < MaxCalls
    /\ n' = [n EXCEPT !.calls = @ + 1]
    /\ call' = [id |-> n.calls + 1, cmd |-> cmd, then |-> "none"]
    /\ Send("request", Request(n.calls + 1, cmd, size))
    /\ UNCHANGED <<lock, dev, outcome, answer, gaveUp>>

(* HidChannel::new: a new handle on the device, then INIT. *)
new ==
    /\ ~chan.exists
    /\ chan' = [exists |-> TRUE, cid |-> ReservedCid]
    /\ cancels' = 0
    /\ inq' = <<>>
    /\ Begin("Init", 1)
    /\ UNCHANGED reader

(* A command on the channel, unless the caller gave the channel up. *)
transact ==
    /\ chan.exists
    /\ outcome[n.calls] \in ReusesAfter \cup {"ok"}
    /\ \E cmd \in Commands, size \in Sizes : Begin(cmd, size)
    /\ UNCHANGED <<chan, cancels, inq, reader>>

(* The caller drops the channel. *)
drop ==
    /\ pc = "idle"
    /\ chan.exists
    /\ Send("drop", CancelMessage)
    /\ UNCHANGED <<chan, call, lock, reader, cancels, inq, dev, outcome,
                   answer, gaveUp, n>>

(* Another thread cancels through a handle; a second sender waits until    *)
(* the first cancellation was taken.                                       *)
cancel_ongoing_operation ==
    /\ chan.exists /\ chan.cid # ReservedCid
    /\ cancels = 0
    /\ n.cancels + n.odd < MaxOdd
    /\ n' = [n EXCEPT !.cancels = @ + 1]
    /\ cancels' = 1
    /\ UNCHANGED <<chan, pc, call, sending, lock, reader, inq, dev, outcome,
                   answer, gaveUp>>

Program ==
    \/ hid_send_lock \/ hid_send_packet \/ hid_send_cancelled \/ hid_send_done
    \/ hid_recv
    \/ \E c \in Call : hid_recv_lock(c) \/ hid_recv_hidapi(c)

Caller == new \/ transact \/ drop \/ Abandon \/ cancel_ongoing_operation

Device == DeviceFinishes \/ DeviceKeepsAlive \/ DeviceSends \/ ForeignArrives

Next == Program \/ Tick \/ Caller \/ Device

Spec == Init /\ [][Next]_vars

(* The program's threads run, and time passes.  The device owes nothing.   *)
FairSpec == Spec /\ WF_vars(Program) /\ WF_vars(Tick)

-------------------------------------------------------------------------------
ReaderType ==
    [at : {"none", "spawned", "reading", "ended"}, parser : Seq(PacketType),
     waited : 0..Timeout, got : {"none", "message", "Timeout", "Cancelled", "FrameParse"}]

(* The types, and mutual exclusion on the device: the mutex is held by the *)
(* sender exactly while it writes, and by at most one closure              *)
(* (channel.rs:304-370).                                                   *)
TypeOK ==
    /\ chan \in [exists : BOOLEAN, cid : {ReservedCid} \cup Call]
    /\ pc \in {"idle", "lock", "write", "receive"}
    /\ call \in [id : {0} \cup Call, cmd : Commands \cup {"Init"}, then : Outcomes]
    /\ sending \in [for : {"request", "giveUp", "drop"}, fallback : BOOLEAN,
                    out : Seq(PacketType)]
    /\ reader \in [Call -> ReaderType]
    /\ cancels \in 0..1
    /\ inq \in Seq(PacketType)
    /\ dev \in [rx : Seq(PacketType), tx : Seq(PacketType),
                busy : [id : {0} \cup Call, cid : {ReservedCid} \cup Call,
                        cmd : HidCommand]]
    /\ outcome \in [Call -> Outcomes]
    /\ answer \in [Call -> 0..ForeignCid]
    /\ gaveUp \subseteq Call
    /\ (lock = "sender") <=> (pc = "write")
    /\ (lock = "reader") <=> (\E c \in Call : reader[c].at = "reading")
    /\ \A c, d \in Call :
         reader[c].at = "reading" /\ reader[d].at = "reading" => c = d

(* A call is given the answer to its own request, not a keep-alive and no  *)
(* other call's, unless on this channel a call before it failed and left   *)
(* an answer behind, or an answer to another program was taken for one     *)
(* (channel.rs:357-408, where messages are told apart by their command     *)
(* alone).  INIT has its nonce and is never wrong.                         *)
AnswersAreOwn ==
    \A c \in Call :
        outcome[c] = "none" /\ outcome'[c] = "ok" /\ answer'[c] # c =>
            /\ call.cmd # "Init"
            /\ \E d \in (chan.cid + 1)..c :
                outcome[d] \notin {"none", "ok"} \/ answer'[d] = ForeignCid
AnswersMatch == [][AnswersAreOwn]_vars

(* A call that gave up, cancelled or out of time, has told the device so   *)
(* by the time it returns (channel.rs:398-403); after a channel is         *)
(* dropped, in whatever state an abandoned call left its closure, the      *)
(* device works on nothing of it (channel.rs:462-477).  A cancellation     *)
(* that arrives while CANCEL is being written stops it, but it is written  *)
(* again; a second one stops it for good (channel.rs:312-321).             *)
NothingLeftRunning ==
    n.cancels < 2 =>
        /\ \A c \in gaveUp :
              outcome[c] \in {"Timeout", "Cancelled"} => dev.busy.id # c
        /\ ~chan.exists => dev.busy.id = 0

(* Every call returns and every drop completes, whatever the device does   *)
(* and whoever holds the mutex (channel.rs:355-459).                       *)
CallsReturn == (pc # "idle") ~> (pc = "idle")
================================================================================
