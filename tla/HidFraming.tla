------------------------------ MODULE HidFraming ------------------------------
(***************************************************************************)
(* CTAPHID framing (transport/hid/framing.rs): a message is cut into an    *)
(* initialization packet and numbered continuation packets, and put        *)
(* together again from the reports a device sends.                         *)
(*                                                                         *)
(* A packet is a record of its header fields and its data bytes.  Byte 4   *)
(* is either a command with the high bit set (init = TRUE) or a sequence   *)
(* number.  Bytes are naturals, 0 being the filling of a short report.     *)
(***************************************************************************)
EXTENDS Naturals, Sequences, SequencesExt

CONSTANTS
    PACKET_SIZE,          \* bytes of a report: 64 in channel.rs
    PACKET_CONT_SEQ_MAX,  \* the last sequence number: 0x7F
    HidCommand            \* the commands a message can carry

PACKET_INITIAL_HEADER_SIZE == 7
PACKET_CONT_HEADER_SIZE == 5

ASSUME FramingAssumption ==
    /\ PACKET_SIZE \in Nat /\ PACKET_SIZE > PACKET_INITIAL_HEADER_SIZE
    /\ PACKET_CONT_SEQ_MAX \in Nat

InitRoom == PACKET_SIZE - PACKET_INITIAL_HEADER_SIZE
ContRoom == PACKET_SIZE - PACKET_CONT_HEADER_SIZE

-------------------------------------------------------------------------------
(* Cutting a message into packets. *)

(* Continuation packets that n bytes of payload take. *)
Continuations(n) ==
    IF n <= InitRoom THEN 0 ELSE (n - InitRoom + ContRoom - 1) \div ContRoom

(***************************************************************************)
(* The sequence number is incremented after every continuation packet and  *)
(* the whole message is refused once it passes the last one, also when     *)
(* that packet was the last of the message.                                *)
(***************************************************************************)
TooLarge(msg) == Continuations(Len(msg.payload)) > PACKET_CONT_SEQ_MAX

(* Iterator::take: up to count elements, from position first. *)
Take(s, first, count) == SubSeq(s, first, Min({first + count - 1, Len(s)}))

InitialPacket(msg) ==
    [cid |-> msg.cid, init |-> TRUE, cmd |-> msg.cmd, seq |-> 0,
     bcnt |-> Len(msg.payload) % 65536, data |-> Take(msg.payload, 1, InitRoom)]

ContinuationPacket(msg, k) ==
    [cid |-> msg.cid, init |-> FALSE, cmd |-> msg.cmd, seq |-> k, bcnt |-> 0,
     data |-> Take(msg.payload, InitRoom + k * ContRoom + 1, ContRoom)]

(* The packets of a message that is not TooLarge. *)
packets(msg) ==
    <<InitialPacket(msg)>> \o
    [i \in 1..Continuations(Len(msg.payload)) |-> ContinuationPacket(msg, i - 1)]

(* hid_send_hidapi fills a packet up to a whole report. *)
Report(p) ==
    LET room == IF p.init THEN InitRoom ELSE ContRoom
    IN  [p EXCEPT !.data = @ \o [i \in 1..(room - Len(@)) |-> 0]]

ReportsOf(msg) ==
    LET ps == packets(msg) IN [i \in DOMAIN ps |-> Report(ps[i])]

-------------------------------------------------------------------------------
(* HidMessageParser: the sequence of the reports taken so far. *)

AllZero(p) ==
    /\ p.cid = 0 /\ ~p.init /\ p.seq = 0
    /\ \A i \in DOMAIN p.data : p.data[i] = 0

(* The checks of update on a report, given the packets taken before it. *)
Acceptable(parser, p) ==
    /\ ~AllZero(p)
    /\ IF parser = <<>>
       THEN p.init
       ELSE /\ p.cid = parser[1].cid
            /\ ~p.init
            /\ Len(parser) - 1 <= PACKET_CONT_SEQ_MAX
            /\ p.seq = Len(parser) - 1

payload_len(parser) == FoldSeq(LAMBDA p, sum : Len(p.data) + sum, 0, parser)

more_packets_needed(parser) ==
    parser = <<>> \/ parser[1].bcnt > payload_len(parser)

(* message(): the data up to the announced length, unless the command is   *)
(* none of HidCommand.                                                     *)
HasMessage(parser) == ~more_packets_needed(parser) /\ parser[1].cmd \in HidCommand

(* Changed form: the filling of the last report is not cut off. *)
message_Untruncated(parser) ==
    [cid |-> parser[1].cid, cmd |-> parser[1].cmd,
     payload |-> FlattenSeq([i \in DOMAIN parser |-> parser[i].data])]

message(parser) ==
    [cid |-> parser[1].cid, cmd |-> parser[1].cmd,
     payload |-> SubSeq(FlattenSeq([i \in DOMAIN parser |-> parser[i].data]),
                        1, parser[1].bcnt)]
===============================================================================
