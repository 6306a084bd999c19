------------------------------ MODULE L2capStream ------------------------------
(***************************************************************************)
(* Messages over the byte stream of an L2CAP socket (transport/cable/      *)
(* l2cap.rs): each is followed by CR LF, arrives in pieces of any length,  *)
(* and is cut out of a buffer.  All that recv knows is in that buffer, so  *)
(* that recv may be dropped and called anew between any two steps.         *)
(***************************************************************************)
EXTENDS Naturals, Sequences, SequencesExt

CONSTANTS
    CR, LF,
    Bodies,     \* what is sent; CR LF is not in it
    ChunkSize,  \* 1024
    MaxMessages \* bound of the exploration

(* The assumption on these; asserted where they get their values. *)
L2capAssumption ==
    /\ CR # LF
    /\ \A b \in Bodies : ~\E i \in 1..(Len(b) - 1) : b[i] = CR /\ b[i + 1] = LF
    /\ ChunkSize \in Nat \ {0}

VARIABLES
    sent,       \* the messages the peer has sent
    wire,       \* the bytes under way
    peer,       \* "open", "closed" at the end of a message or within one, or "reset"
    read_buf,
    received,
    ended       \* what recv ended with

lvars == <<sent, wire, peer, read_buf, received, ended>>

EOM == <<CR, LF>>

Framed(message) == message \o EOM

(* The first place where EOM is, or none. *)
Ends(buf) == {i \in 1..(Len(buf) - 1) : SubSeq(buf, i, i + 1) = EOM}

(* Changed form, with which the property is tested. *)
Rest_Cleared(buf, end) == <<>>
Rest(buf, end) == SubSeq(buf, end + 2, Len(buf))

PeerSends(message) ==
    /\ peer = "open" /\ Len(sent) < MaxMessages
    /\ sent' = Append(sent, message)
    /\ wire' = wire \o Framed(message)
    /\ UNCHANGED <<peer, read_buf, received, ended>>

(* It closes the stream, with a message half written perhaps.              *)
PeerCloses(message, written) ==
    /\ peer = "open"
    /\ written \in 0..(Len(message) + 1)
    /\ peer' = IF written = 0 THEN "closed" ELSE "closed within"
    /\ wire' = wire \o SubSeq(Framed(message), 1, written)
    /\ UNCHANGED <<sent, read_buf, received, ended>>

(* ECONNRESET: what was under way is lost. *)
PeerResets ==
    /\ peer # "reset"
    /\ peer' = "reset" /\ wire' = <<>>
    /\ UNCHANGED <<sent, read_buf, received, ended>>

split_next_message ==
    /\ ended = "no" /\ Ends(read_buf) # {}
    /\ LET end == CHOOSE i \in Ends(read_buf) : \A j \in Ends(read_buf) : i <= j
       IN  /\ received' = Append(received, SubSeq(read_buf, 1, end - 1))
           /\ read_buf' = Rest(read_buf, end)
    /\ UNCHANGED <<sent, wire, peer, ended>>

Read(k) ==
    /\ ended = "no" /\ Ends(read_buf) = {}
    /\ k \in 1..ChunkSize /\ k <= Len(wire)
    /\ read_buf' = read_buf \o SubSeq(wire, 1, k)
    /\ wire' = SubSeq(wire, k + 1, Len(wire))
    /\ UNCHANGED <<sent, peer, received, ended>>

ReadsEnd ==
    /\ ended = "no" /\ Ends(read_buf) = {}
    /\ peer # "open" /\ wire = <<>>
    /\ ended' = IF read_buf = <<>> THEN "None" ELSE "ConnectionLost"
    /\ UNCHANGED <<sent, wire, peer, read_buf, received>>

Init ==
    /\ sent = <<>> /\ wire = <<>> /\ peer = "open"
    /\ read_buf = <<>> /\ received = <<>> /\ ended = "no"

Next ==
    \/ \E m \in Bodies : PeerSends(m) \/ \E k \in 0..(Len(m) + 1) : PeerCloses(m, k)
    \/ PeerResets
    \/ split_next_message \/ \E k \in 1..ChunkSize : Read(k)
    \/ ReadsEnd

Spec == Init /\ [][Next]_lvars

-------------------------------------------------------------------------------
(* The messages come whole and in order, however they were cut up; a       *)
(* stream that ended in order has given them all, and one that broke off   *)
(* within a message is not taken for one.                                  *)
DeliversWhatWasSent ==
    /\ IsPrefix(received, sent)
    /\ ended = "None" /\ peer # "reset" => peer = "closed" /\ received = sent
===============================================================================
