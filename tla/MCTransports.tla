----------------------------- MODULE MCTransports -----------------------------
(***************************************************************************)
(* HID and caBLE in one check: a behaviour is of one message of any length *)
(* on a disturbed wire (HidReassembly), of a program and a HID device that *)
(* transact (HidChannel), of a caBLE channel (CableTunnel, which this      *)
(* module extends), of what passes between caBLE channels and phones       *)
(* (CableHandshake), or of messages on the stream below one (L2capStream), *)
(* three bytes at a time.  HID reports of 9 bytes: one packet takes two    *)
(* bytes of payload, the next four; four sequence numbers; what is         *)
(* transacted takes two packets.  The queues of caBLE hold one: the        *)
(* phones' sending and the caller's abandoning of calls fill them.         *)
(***************************************************************************)
EXTENDS CableTunnel, HidFraming, FiniteSets, TLC

CONSTANTS
    Areas,          \* what is checked: "wire", "hid", "cable", "handshake", "stream"
    p1, p2,         \* the phones
    Timeout, HidCalls, MaxDisturbances, MaxLength

VARIABLES
    area,
    sent, wire, parser, result, received, odd,              \* of HidReassembly
    at, asked, returned, given, counts,                     \* of HidChannel
    chan, sending, lock, reader, cancels, inq, dev, gaveUp,
    channels, ends, toPhone, fromPhone, records, linked,    \* of CableHandshake
    peer, read_buf                                          \* of L2capStream

bytes == <<sent, wire, result, received>>
onWire == <<bytes, parser, odd>>
onStream == <<bytes, peer, read_buf>>
ofHid == <<at, asked, returned, given, counts, chan, sending, lock, reader, cancels, inq, dev,
           gaveUp>>
ofHandshake == <<channels, ends, toPhone, fromPhone, records, linked>>
mcvars == <<area, onWire, onStream, ofHid, vars, ofHandshake>>

Ours == 7
Theirs == 9

MCHidCommand == {"Init", "Cbor", "Msg", "Wink", "Cancel", "KeepAlive", "Error"}

(* The bytes of a payload are told apart by their position. *)
Payload(k) == [i \in 1..k |-> i]

MCMessages == {[cid |-> Ours, cmd |-> "Cbor", payload |-> Payload(k)] : k \in 0..MaxLength}

(* What other programs' transactions and a broken device may put in        *)
(* between: a whole message and a continuation of another channel, an      *)
(* empty report, and a command that is no HidCommand.                      *)
MCStrays ==
    LET foreign == [cid |-> Theirs, cmd |-> "KeepAlive", payload |-> <<99>>]
        long == [cid |-> Theirs, cmd |-> "Cbor", payload |-> [i \in 1..(InitRoom + 1) |-> 99]]
    IN  {ReportsOf(foreign)[1], ReportsOf(long)[2],
         [cid |-> 0, init |-> FALSE, cmd |-> "none", seq |-> 0, bcnt |-> 0,
          data |-> [i \in 1..ContRoom |-> 0]],
         Report([cid |-> Ours, init |-> TRUE, cmd |-> "none", seq |-> 0,
                 bcnt |-> 0, data |-> <<>>])}

Wire ==
    INSTANCE HidReassembly WITH
        Messages <- MCMessages, Strays <- MCStrays, outcome <- result

Hid ==
    INSTANCE HidChannel WITH
        Commands <- {"Cbor", "Msg"}, Sizes <- {3}, MaxCalls <- HidCalls,
        ReusesAfter <- {"Timeout", "Cancelled", "UserActionTimeout"},
        pc <- at, call <- asked, outcome <- returned, answer <- given, n <- counts

(* The services of the phones are one with a number and one without.       *)
Handshake ==
    INSTANCE CableHandshake WITH
        ServiceOf <- (p1 :> 1 @@ p2 :> 256), KNOWN_TUNNEL_DOMAINS <- 2,
        PADDING_GRANULARITY <- 2, MAX_CBOR_SIZE <- 3,
        Bodies <- {<<4>>, <<4, 0>>, <<4, 0, 1, 7>>},
        QrCodes <- {[persistent |-> TRUE, transports |-> "CloudAssistedOrLocal"],
                    [persistent |-> FALSE, transports |-> "CloudAssistedOnly"]},
        MaxEnds <- 2, MaxAsked <- 1,
        session <- channels, up <- toPhone, down <- fromPhone, store <- records, links <- linked

(* Messages that begin and end with parts of the mark between them.        *)
Stream ==
    INSTANCE L2capStream WITH
        CR <- 13, LF <- 10, Bodies <- {<<>>, <<1, 13>>, <<10, 1, 2>>, <<13, 13>>}, ChunkSize <- 3,
        MaxMessages <- 2, ended <- result

ASSUME TransportsAssumption ==
    /\ Phones = {p1, p2}
    /\ Wire!ReassemblyAssumption /\ Hid!ChannelAssumption
    /\ Stream!L2capAssumption /\ Handshake!HandshakeAssumption

-------------------------------------------------------------------------------
(* Where a behaviour is not of CableTunnel, no channel is ever opened.     *)

IdleBytes == sent = 0 /\ wire = 0 /\ result = 0 /\ received = 0
IdleWire == parser = 0 /\ odd = 0
IdleStream == peer = 0 /\ read_buf = 0
IdleHid ==
    /\ at = "idle" /\ asked = 0 /\ returned = 0 /\ given = 0 /\ counts = 0
    /\ chan = 0 /\ sending = 0 /\ lock = 0 /\ reader = 0 /\ cancels = 0 /\ inq = 0 /\ dev = 0
    /\ gaveUp = 0
IdleHandshake ==
    /\ channels = 0 /\ ends = 0 /\ toPhone = 0 /\ fromPhone = 0 /\ records = 0 /\ linked = 0

MCInit ==
    /\ area \in Areas /\ Init
    /\ \/ area = "wire" /\ Wire!Init /\ IdleStream /\ IdleHid /\ IdleHandshake
       \/ area = "stream" /\ Stream!Init /\ IdleWire /\ IdleHid /\ IdleHandshake
       \/ area = "hid" /\ Hid!Init /\ IdleBytes /\ IdleWire /\ IdleStream /\ IdleHandshake
       \/ /\ area = "cable"
          /\ IdleBytes /\ IdleWire /\ IdleStream /\ IdleHid /\ IdleHandshake
       \/ /\ area = "handshake" /\ Handshake!Init
          /\ IdleBytes /\ parser = 0 /\ IdleStream /\ IdleHid

InWire == area = "wire" /\ UNCHANGED <<area, peer, read_buf, ofHid, vars, ofHandshake>>
InStream == area = "stream" /\ UNCHANGED <<area, parser, odd, ofHid, vars, ofHandshake>>
InHid == area = "hid" /\ UNCHANGED <<area, onWire, onStream, vars, ofHandshake>>
InCable == area = "cable" /\ UNCHANGED <<area, onWire, onStream, ofHid, ofHandshake>>
InHandshake == area = "handshake" /\ UNCHANGED <<area, parser, onStream, ofHid, vars>>

MCNext ==
    \/ InWire /\ Wire!Next
    \/ InStream /\ Stream!Next
    \/ InHid /\ Hid!Next
    \/ InCable /\ Next
    \/ InHandshake /\ Handshake!Next

MCSpec == MCInit /\ [][MCNext]_mcvars

(* The fairness of HidChannel and of CableTunnel.  The threads of the      *)
(* program run and its tasks are polled, and time passes; neither a device *)
(* nor a phone owes anything.                                              *)
MCFairSpec ==
    /\ MCSpec
    /\ WF_mcvars((InHid /\ Hid!Program) \/ (InCable /\ Task))
    /\ WF_mcvars((InHid /\ Hid!Tick) \/ (InCable /\ Caller))

-------------------------------------------------------------------------------
(* The properties of the modules, each in its own behaviours; those of     *)
(* CableTunnel are checked under their own names.                          *)

(* A HID device's messages are taken whole or not at all; a call is given  *)
(* its own answer, unless one before it failed; and the device is not left *)
(* at work for a caller who has given up.                                  *)
HidCallsAreServed ==
    /\ [](area = "wire" => Wire!DeliversWhatWasSent)
    /\ [](area = "hid" => Hid!TypeOK /\ Hid!NothingLeftRunning)
    /\ [][area = "hid" => Hid!AnswersAreOwn]_mcvars

(* Below a hybrid channel messages arrive whole and in order; the keys are *)
(* shared with the very phone that was near; no handshake fails without a  *)
(* cause; and a record says what leads back to its phone.                  *)
PhonesAreReached ==
    /\ area = "stream" => Stream!DeliversWhatWasSent
    /\ area = "handshake" =>
         /\ Handshake!DeliversWhatWasSent /\ Handshake!KeysAreShared
         /\ Handshake!FailsForACause /\ Handshake!RecordsAreGenuine

(* A call over HID returns whatever the device does; one over caBLE, once  *)
(* the connection is made or has failed.                                   *)
Due == at # "idle" \/ (pc # "idle" /\ (conn # "Connecting" \/ Hung))
===============================================================================
