----------------------------- MODULE HidReassembly -----------------------------
(***************************************************************************)
(* One message travelling through HidFraming: the sender cuts it into      *)
(* reports, and hid_recv_hidapi (transport/hid/channel.rs) feeds a new     *)
(* HidMessageParser with what arrives until it is done or refuses.         *)
(*                                                                         *)
(* A report may be repeated, lost or overtaken by its successor, and       *)
(* reports of another channel may arrive in between: every program that    *)
(* has the device open receives all of its reports.                        *)
(***************************************************************************)
EXTENDS HidFraming

CONSTANTS
    Messages,        \* the messages that may be sent
    Strays,          \* reports that may arrive from elsewhere
    MaxDisturbances  \* bound: reports repeated, lost, overtaken or stray

ReassemblyAssumption == MaxDisturbances \in Nat

VARIABLES
    sent,     \* the message
    wire,     \* reports under way, oldest first
    parser,   \* the packets taken
    outcome,  \* what update or packets() said last
    received, \* the message parsed, once outcome is "done"
    odd       \* disturbances so far

vars == <<sent, wire, parser, outcome, received, odd>>

NoMessage == [cid |-> 0, cmd |-> "none", payload |-> <<>>]

Init ==
    /\ sent \in Messages
    /\ wire = IF TooLarge(sent) THEN <<>> ELSE ReportsOf(sent)
    /\ parser = <<>>
    /\ outcome = IF TooLarge(sent) THEN "tooLarge" ELSE "more"
    /\ received = NoMessage
    /\ odd = 0

(* hid_recv_hidapi reads a report and updates the parser. *)
update ==
    /\ outcome = "more"
    /\ wire # <<>>
    /\ LET taken == Append(parser, Head(wire))
       IN  IF ~Acceptable(parser, Head(wire))
           THEN /\ outcome' = "parseError"
                /\ UNCHANGED <<parser, received>>
           ELSE /\ parser' = taken
                /\ outcome' = IF more_packets_needed(taken) THEN "more"
                              ELSE IF HasMessage(taken) THEN "done"
                              ELSE "parseError"
                /\ received' = IF HasMessage(taken) THEN message(taken) ELSE received
    /\ wire' = Tail(wire)
    /\ UNCHANGED <<sent, odd>>

Disturb(reports) ==
    /\ outcome = "more"
    /\ odd < MaxDisturbances
    /\ odd' = odd + 1
    /\ wire' = reports
    /\ UNCHANGED <<sent, parser, outcome, received>>

Repeat == wire # <<>> /\ Disturb(<<Head(wire)>> \o wire)
Lose == wire # <<>> /\ Disturb(Tail(wire))
Overtake == Len(wire) > 1 /\ Disturb(<<wire[2], wire[1]>> \o SubSeq(wire, 3, Len(wire)))
Stray == \E p \in Strays : Disturb(<<p>> \o wire)

Next == update \/ Repeat \/ Lose \/ Overtake \/ Stray

Spec == Init /\ [][Next]_vars

-------------------------------------------------------------------------------
(* The parser holds the packets of one channel, an initialization packet   *)
(* first and the continuations numbered from 0 without a gap, never more   *)
(* of them than there are sequence numbers (framing.rs:141-193).           *)
TypeOK ==
    /\ sent \in Messages
    /\ outcome \in {"more", "done", "parseError", "tooLarge"}
    /\ odd \in 0..MaxDisturbances
    /\ Len(parser) <= PACKET_CONT_SEQ_MAX + 2
    /\ \A i \in DOMAIN parser :
        /\ parser[i].cid = parser[1].cid
        /\ parser[i].init <=> i = 1
        /\ i > 1 => parser[i].seq = i - 2

(* A message the parser delivers for the sender's channel is the message   *)
(* that was sent, whatever was repeated, lost, overtaken or mixed in: its  *)
(* bytes are never out of place, cut short or another channel's.           *)
(* Undisturbed, it delivers it with the last report, and not before        *)
(* (framing.rs:121-266).                                                   *)
DeliversWhatWasSent ==
    /\ outcome = "done" /\ received.cid = sent.cid => received = sent
    /\ odd = 0 /\ outcome # "tooLarge" => (outcome = "done" <=> wire = <<>>)
===============================================================================
