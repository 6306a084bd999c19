------------------------------ MODULE BleFraming ------------------------------
(***************************************************************************)
(* CTAPBLE framing (transport/ble/framing.rs): a message is cut into an    *)
(* initial fragment and continuation fragments of the length the device    *)
(* accepts, and put together again from notifications.                     *)
(*                                                                         *)
(* A fragment is a sequence of bytes: command and two bytes of length in   *)
(* the initial fragment, a sequence number in the others, then data.  The  *)
(* parser tells fragments apart by their position alone, so a byte has no  *)
(* meaning of its own.  BYTE, 256 in the code, is the number of values of  *)
(* a byte; a smaller one brings the limits of the length and the sequence  *)
(* number within reach of short messages.                                  *)
(***************************************************************************)
EXTENDS Naturals, Sequences, SequencesExt

CONSTANT BYTE

(* What a byte must at least tell apart. *)
BleFramingAssumption == BYTE \in Nat /\ BYTE > 1

INITIAL_FRAGMENT_HEADER_LENGTH == 3
CONT_FRAGMENT_HEADER_LENGTH == 1

(* The values of BleCommand, none of them a sequence number in practice.   *)
Ping == 129
Keepalive == 130
Msg == 131
Cancel == 190
Error == 191
BleCommand == {Ping, Keepalive, Msg, Cancel, Error}

Frame(cmd, data) == [cmd |-> cmd, data |-> data]

-------------------------------------------------------------------------------
(* BleFrame::fragments. *)

(* A shorter fragment would have no room for data beside the header. *)
MayFragment(max) == max > INITIAL_FRAGMENT_HEADER_LENGTH

(* data.len() as u16, in two bytes. *)
LengthBytes(frame) ==
    LET length == Len(frame.data) % (BYTE * BYTE)
    IN  <<length \div BYTE, length % BYTE>>

ContinuationsOf(frame, max) ==
    LET rest == Len(frame.data) - (max - INITIAL_FRAGMENT_HEADER_LENGTH)
        room == max - CONT_FRAGMENT_HEADER_LENGTH
    IN  IF rest <= 0 THEN 0 ELSE (rest + room - 1) \div room

(* seq: u8, incremented after every continuation fragment: a debug build   *)
(* panics past the last value, also when no fragment follows.              *)
SequenceOverflows(frame, max) == ContinuationsOf(frame, max) >= BYTE

UpTo(s, first, count) == SubSeq(s, first, Min({first + count - 1, Len(s)}))

(* The fragments; the sequence number of a release build wraps around.     *)
fragments(frame, max) ==
    LET first == max - INITIAL_FRAGMENT_HEADER_LENGTH
        room == max - CONT_FRAGMENT_HEADER_LENGTH
    IN  << <<frame.cmd>> \o LengthBytes(frame) \o UpTo(frame.data, 1, first) >> \o
        [k \in 1..ContinuationsOf(frame, max) |->
            <<(k - 1) % BYTE>> \o UpTo(frame.data, first + (k - 1) * room + 1, room)]

-------------------------------------------------------------------------------
(* BleFrameParser: the fragments taken so far. *)

(* update() refuses a fragment that has no room for its header. *)
AcceptableFragment(parser, fragment) ==
    IF parser = <<>> THEN Len(fragment) >= INITIAL_FRAGMENT_HEADER_LENGTH
    ELSE Len(fragment) >= CONT_FRAGMENT_HEADER_LENGTH

expected_bytes(parser) == parser[1][2] * BYTE + parser[1][3]

data_len(parser) ==
    FoldSeq(LAMBDA fragment, sum : Len(fragment) + sum, 0, parser)
        - INITIAL_FRAGMENT_HEADER_LENGTH - (Len(parser) - 1) * CONT_FRAGMENT_HEADER_LENGTH

more_fragments_needed(parser) ==
    parser = <<>> \/ expected_bytes(parser) > data_len(parser)

(* frame() knows the command of the first fragment. *)
HasFrame(parser) == ~more_fragments_needed(parser) /\ parser[1][1] \in BleCommand

(* Changed form: the sequence number stays in the data. *)
frame_WithSequence(parser) ==
    Frame(parser[1][1],
          SubSeq(parser[1], INITIAL_FRAGMENT_HEADER_LENGTH + 1, Len(parser[1]))
            \o FlattenSeq(Tail(parser)))

(* The data of all fragments, in order of arrival: neither the sequence    *)
(* number is read nor is the data cut to the announced length.             *)
frame(parser) ==
    Frame(parser[1][1],
          SubSeq(parser[1], INITIAL_FRAGMENT_HEADER_LENGTH + 1, Len(parser[1]))
            \o FlattenSeq([k \in 1..Len(parser) - 1 |->
                            SubSeq(parser[k + 1], CONT_FRAGMENT_HEADER_LENGTH + 1,
                                   Len(parser[k + 1]))]))
===============================================================================
