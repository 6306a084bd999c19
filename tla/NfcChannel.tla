------------------------------ MODULE NfcChannel ------------------------------
(***************************************************************************)
(* One program using security cards through NFC readers (transport/nfc):   *)
(* looking for a FIDO card, opening a channel, and exchanges on it.        *)
(*                                                                         *)
(* Everything is made of APDUs: the program transmits one and the card     *)
(* answers it, synchronously.  A CTAP2 request longer than a chunk is a    *)
(* chain of APDUs, and an answer longer than a response is fetched with    *)
(* GET RESPONSE.  The reader is opened in shared mode and without a        *)
(* transaction, so another program may select an applet between any two    *)
(* APDUs; a transmission may fail, and the channel remembers nothing of    *)
(* the chain it broke off.                                                 *)
(***************************************************************************)
EXTENDS Naturals, Sequences, FiniteSets

CONSTANTS
    CHUNK,          \* bytes of a request in one APDU: 250 in cbor_send
    Readers,        \* number of readers
    Kinds,          \* kinds of card that may lie on a reader
    RequestSizes,   \* bytes of a request
    AnswerParts,    \* responses that an answer takes
    MaxOpens,       \* bound: channels opened
    MaxCalls,       \* bound: exchanges
    MaxFailures,    \* bound: transmissions that fail
    MaxOthers       \* bound: applets selected by other programs

(* What a card implements: CTAP2 alone, CTAP1 alone, both, an applet that  *)
(* answers SELECT with some other version, or no such applet.              *)
CardKind == {"fido2", "u2f", "both", "unknown", "none"}

ASSUME NfcAssumption ==
    /\ CHUNK \in Nat \ {0} /\ Readers \in Nat \ {0} /\ Kinds \subseteq CardKind
    /\ RequestSizes \subseteq Nat \ {0} /\ AnswerParts \subseteq Nat \ {0}
    /\ MaxOpens \in Nat /\ MaxCalls \in Nat /\ MaxFailures \in Nat /\ MaxOthers \in Nat

VARIABLES
    cards,    \* per reader, its card
    chan,     \* the channel: its reader or 0, and the protocols it supports
    pc,       \* where the caller's task is
    job,      \* the exchange under way
    slot,     \* apdu_response and cbor_response: the answer to be received
    call,     \* number of the last call
    picked,   \* the reader get_nfc_device found, or 0
    outcome,  \* per call, what it returned
    answer,   \* history: per call, the data it was given
    executed, \* history: the last CTAP2 request a card was given to execute
    broken,   \* history: the channel's chain of APDUs was disturbed
    n         \* the bounds

vars == <<cards, chan, pc, job, slot, call, picked, outcome, answer, executed, broken, n>>

Call == 1..MaxCalls
Reader == 1..Readers
Outcomes == {"none", "ok", "Apdu", "Transport", "ResponseDecode", "NoResponse"}

Unsupported == [u2f |-> FALSE, fido2 |-> FALSE]
NoAnswer == [data |-> <<>>, sw |-> "9000"]
NoChannel == [reader |-> 0, supported |-> Unsupported]
NoJob == [for |-> "none", finding |-> 0, id |-> 0, apdus |-> <<>>, payload |-> <<>>, sw |-> "9000"]
Card(kind) == [kind |-> kind, applet |-> "none", chain |-> <<>>, rest |-> <<>>]

Init ==
    /\ cards \in [Reader -> {Card(kind) : kind \in Kinds}]
    /\ chan = NoChannel
    /\ pc = "idle"
    /\ job = NoJob
    /\ slot = <<>>
    /\ call = 0
    /\ picked = 0
    /\ outcome = [c \in Call |-> "none"]
    /\ answer = [c \in Call |-> NoAnswer]
    /\ executed = {}
    /\ broken = FALSE
    /\ n = [opens |-> 0, failures |-> 0, others |-> 0]

-------------------------------------------------------------------------------
(* APDUs. *)

Apdu(ins, more, data) == [ins |-> ins, more |-> more, data |-> data]
SelectApdu == Apdu("SELECT", FALSE, <<>>)

(* while rest.len() > CHUNK: a chunk that may be more, then the last one.  *)
ChunksOf(size) == (size + CHUNK - 1) \div CHUNK

(* The chain of CTAP MSG commands that cbor_send makes of a request.       *)
CtapMsgs(request) ==
    LET k == ChunksOf(Len(request))
        end(i) == IF i * CHUNK < Len(request) THEN i * CHUNK ELSE Len(request)
    IN  [i \in 1..k |-> Apdu("CTAPMSG", i < k, SubSeq(request, (i - 1) * CHUNK + 1, end(i)))]

(* What a response carries, and its status word: 61xx has more to fetch.   *)
Response(card, payload, sw) == [card |-> card, payload |-> payload, sw |-> sw]

Refusal(card) == Response([card EXCEPT !.chain = <<>>, !.rest = <<>>], <<>>, "error")

(* An answer of several parts, the first in this response. *)
Answered(card, tag, parts) ==
    LET part == [id |-> tag, of |-> parts]
    IN  Response([card EXCEPT !.chain = <<>>, !.rest = [i \in 1..parts - 1 |-> part]],
                 <<part>>, IF parts > 1 THEN "61" ELSE "9000")

Version(kind) ==
    CASE kind = "fido2" -> "FIDO_2" [] kind \in {"u2f", "both"} -> "U2F_V2" [] OTHER -> "other"

(* The responses a card may give, external. *)
Responses(card, apdu) ==
    LET selected == card.applet = "fido"
    IN  CASE apdu.ins = "SELECT" ->
               IF card.kind = "none" THEN {Refusal(card)}
               ELSE {Response([Card(card.kind) EXCEPT !.applet = "fido"],
                              <<Version(card.kind)>>, "9000")}
          [] apdu.ins = "GETRESPONSE" ->
               IF card.rest = <<>> THEN {Refusal(card)}
               ELSE {Response([card EXCEPT !.rest = Tail(@)], <<Head(card.rest)>>,
                              IF Len(card.rest) > 1 THEN "61" ELSE "9000")}
          [] apdu.ins = "CTAPMSG" ->
               IF ~selected \/ card.kind \notin {"fido2", "both"} THEN {Refusal(card)}
               ELSE IF apdu.more
               THEN {Response([card EXCEPT !.chain = @ \o apdu.data], <<>>, "9000"), Refusal(card)}
               ELSE {Answered(card, job.id, parts) : parts \in AnswerParts}
                      \cup {Response([card EXCEPT !.chain = <<>>], <<>>, "9000")}
          [] OTHER ->
               IF ~selected \/ card.kind \notin {"u2f", "both"} THEN {Refusal(card)}
               ELSE {Answered(card, job.id, parts) : parts \in AnswerParts} \cup {Refusal(card)}

-------------------------------------------------------------------------------
(* handle_raw: transmit, then GET RESPONSE while the status is 61xx.       *)

Fetching == job.sw = "61"
ToTransmit == IF Fetching THEN Apdu("GETRESPONSE", FALSE, <<>>) ELSE Head(job.apdus)

transmit ==
    /\ pc = "transmit"
    /\ Fetching \/ job.apdus # <<>>
    /\ LET r == chan.reader
           apdu == ToTransmit
       IN  \E response \in Responses(cards[r], apdu) :
             /\ cards' = [cards EXCEPT ![r] = response.card]
             /\ job' = [job EXCEPT !.apdus = IF Fetching THEN @ ELSE Tail(@),
                                   !.payload = IF Fetching THEN @ \o response.payload
                                               ELSE response.payload,
                                   !.sw = response.sw]
             /\ executed' = IF apdu.ins = "CTAPMSG" /\ ~apdu.more /\ response.sw # "error"
                            THEN {[data |-> cards[r].chain \o apdu.data,
                                                 id |-> job.id, broken |-> broken]}
                            ELSE executed
    /\ pc' = "check"
    /\ UNCHANGED <<chan, slot, call, picked, outcome, answer, broken, n>>

(* The reader reports an error, or libnfc waited 5 s.  The card may have   *)
(* taken the command or not.                                               *)
transmit_fails ==
    /\ pc = "transmit"
    /\ Fetching \/ job.apdus # <<>>
    /\ n.failures < MaxFailures
    /\ n' = [n EXCEPT !.failures = @ + 1]
    /\ broken' = TRUE
    /\ \/ UNCHANGED cards
       \/ \E response \in Responses(cards[chan.reader], ToTransmit) :
            cards' = [cards EXCEPT ![chan.reader] = response.card]
    /\ job' = [job EXCEPT !.sw = "failed"]
    /\ pc' = "check"
    /\ UNCHANGED <<chan, slot, call, picked, outcome, answer, executed>>

(* Another program selects an applet of the card. *)
OtherSelects ==
    /\ chan.reader # 0
    /\ n.others < MaxOthers
    /\ n' = [n EXCEPT !.others = @ + 1]
    /\ broken' = TRUE
    /\ \E applet \in {"fido", "other"} :
         cards' = [cards EXCEPT ![chan.reader] = [Card(@.kind) EXCEPT !.applet = applet]]
    /\ UNCHANGED <<chan, pc, job, slot, call, picked, outcome, answer, executed>>

fetch_more ==
    /\ pc = "check" /\ Fetching
    /\ pc' = "transmit"
    /\ UNCHANGED <<cards, chan, job, slot, call, picked, outcome, answer, executed, broken, n>>

-------------------------------------------------------------------------------
(* handle: the status word of a CTAP2 or SELECT command must be 9000.      *)

Checked == pc = "check" /\ ~Fetching
Failed == job.sw # "9000"
ErrorOf == IF job.sw = "failed" THEN "Transport" ELSE "Apdu"

(* Changed form: the answers to the first commands of a chain are not      *)
(* looked at.                                                              *)
ChainGoesOn_Regardless == job.apdus # <<>>

(* The chain goes on with its next command. *)
ChainGoesOn == ~Failed /\ job.apdus # <<>>

next_command ==
    /\ Checked /\ job.for \in {"cbor", "probe"}
    /\ ChainGoesOn
    /\ pc' = "transmit"
    /\ job' = [job EXCEPT !.sw = "9000"]
    /\ UNCHANGED <<cards, chan, slot, call, picked, outcome, answer, executed, broken, n>>

Last == Checked /\ (Failed \/ job.apdus = <<>>)

Exchanged == UNCHANGED <<cards, chan, call, picked, executed, broken, n>>

(* Changed form: the status word of the last command is not looked at.     *)
Decodes_AnyStatus == job.sw # "failed" /\ (job.for = "cbor" => job.payload # <<>>)

(* cbor_send decodes the response; apdu_send takes any status word.        *)
Decodes ==
    IF job.for = "apdu" THEN job.sw # "failed"
    ELSE ~Failed /\ job.payload # <<>>

send_done ==
    /\ Last /\ job.for \in {"cbor", "apdu"}
    /\ Decodes
    /\ slot' = <<[data |-> job.payload, sw |-> IF job.for = "apdu" THEN job.sw ELSE "9000"]>>
    /\ pc' = "recv"
    /\ UNCHANGED <<job, outcome, answer>>
    /\ Exchanged

Return(result, data) ==
    /\ outcome' = [outcome EXCEPT ![call] = result]
    /\ answer' = [answer EXCEPT ![call] = data]
    /\ pc' = "idle"
    /\ job' = NoJob

send_fails ==
    /\ Last /\ job.for \in {"cbor", "apdu"}
    /\ ~Decodes
    /\ Return(IF Failed THEN ErrorOf ELSE "ResponseDecode", NoAnswer)
    /\ UNCHANGED slot
    /\ Exchanged

(* Changed form: the slot is read, and keeps what it holds.                *)
TakenSlot_Kept == slot

(* Option::take leaves nothing behind. *)
TakenSlot == <<>>

(* cbor_recv and apdu_recv take the slot, whichever call filled it.        *)
recv ==
    /\ pc = "recv"
    /\ IF slot = <<>> THEN Return("NoResponse", NoAnswer) ELSE Return("ok", slot[1])
    /\ slot' = TakenSlot
    /\ Exchanged

-------------------------------------------------------------------------------
(* Opening: NfcDevice::channel_sync and select_fido2; looking for a card:  *)
(* get_nfc_device opens each reader in turn.                               *)

Start(reader, finding) ==
    /\ chan' = [reader |-> reader, supported |-> Unsupported]
    /\ job' = [NoJob EXCEPT !.for = "select", !.finding = finding, !.apdus = <<SelectApdu>>]
    /\ pc' = "transmit"
    /\ broken' = FALSE

channel ==
    /\ pc = "idle" /\ chan.reader = 0
    /\ n.opens < MaxOpens
    /\ n' = [n EXCEPT !.opens = @ + 1]
    /\ \E reader \in Reader : Start(reader, 0)
    /\ UNCHANGED <<cards, slot, call, picked, outcome, answer, executed>>

get_nfc_device ==
    /\ pc = "idle" /\ chan.reader = 0
    /\ n.opens < MaxOpens
    /\ n' = [n EXCEPT !.opens = @ + 1]
    /\ Start(1, 1)
    /\ UNCHANGED <<cards, slot, call, picked, outcome, answer, executed>>

(* The object of a channel goes: PC/SC unpowers the card, libnfc leaves    *)
(* its field.                                                              *)
Reset(card) == Card(card.kind)

Dropped ==
    /\ cards' = [cards EXCEPT ![chan.reader] = Reset(@)]
    /\ slot' = <<>>

(* is_fido: whether select_fido2 succeeded, whatever it found. *)
is_fido(supported) == TRUE

(* SELECT and the probe are over.  The caller gets the channel; the search *)
(* drops it, and stops at the first card it takes for FIDO.                *)
Opened(ok, supported) ==
    IF job.finding = 0
    THEN /\ IF ok
            THEN /\ chan' = [chan EXCEPT !.supported = supported]
                 /\ UNCHANGED <<cards, slot>>
            ELSE chan' = NoChannel /\ Dropped
         /\ pc' = "idle"
         /\ job' = NoJob
         /\ UNCHANGED <<picked, broken>>
    ELSE IF ok /\ is_fido(supported)
    THEN /\ picked' = job.finding
         /\ chan' = NoChannel /\ Dropped
         /\ pc' = "idle"
         /\ job' = NoJob
         /\ UNCHANGED broken
    ELSE /\ Dropped
         /\ IF job.finding < Readers
            THEN Start(job.finding + 1, job.finding + 1)
            ELSE chan' = NoChannel /\ pc' = "idle" /\ job' = NoJob /\ UNCHANGED broken
         /\ UNCHANGED picked

(* U2F_V2 is answered by cards with and without CTAP2. *)
NeedsProbe(version) == version = "U2F_V2"

select_fido2 ==
    /\ Last /\ job.for = "select"
    /\ IF Failed THEN Opened(FALSE, Unsupported)
       ELSE IF NeedsProbe(job.payload[1])
       THEN /\ job' = [NoJob EXCEPT !.for = "probe", !.finding = job.finding,
                                    !.apdus = CtapMsgs(<<0>>)]
            /\ pc' = "transmit"
            /\ UNCHANGED <<cards, chan, slot, picked, broken>>
       ELSE Opened(TRUE, [u2f |-> job.payload[1] = "U2F_V2", fido2 |-> job.payload[1] # "other"])
    /\ UNCHANGED <<call, outcome, answer, executed, n>>

(* ctap2_get_info after U2F_V2. *)
probe_done ==
    /\ Last /\ job.for = "probe"
    /\ Opened(TRUE, [u2f |-> TRUE, fido2 |-> ~Failed /\ job.payload # <<>>])
    /\ UNCHANGED <<call, outcome, answer, executed, n>>

drop ==
    /\ pc = "idle" /\ chan.reader # 0
    /\ Dropped
    /\ chan' = NoChannel
    /\ UNCHANGED <<pc, job, call, picked, outcome, answer, executed, broken, n>>

(* cbor_send or apdu_send. *)
Begin ==
    /\ pc = "idle" /\ chan.reader # 0
    /\ call < MaxCalls
    /\ call' = call + 1
    /\ pc' = "transmit"
    /\ \/ \E size \in RequestSizes :
            job' = [NoJob EXCEPT !.for = "cbor", !.id = call + 1,
                                 !.apdus = CtapMsgs([i \in 1..size |-> call + 1])]
       \/ job' = [NoJob EXCEPT !.for = "apdu", !.id = call + 1,
                               !.apdus = <<Apdu("U2F", FALSE, <<call + 1>>)>>]
    /\ UNCHANGED <<cards, chan, slot, picked, outcome, answer, executed, broken, n>>

Next ==
    \/ transmit \/ transmit_fails \/ fetch_more \/ next_command
    \/ send_done \/ send_fails \/ recv
    \/ channel \/ get_nfc_device \/ select_fido2 \/ probe_done \/ drop
    \/ Begin \/ OtherSelects

Spec == Init /\ [][Next]_vars

-------------------------------------------------------------------------------
(* The types, and that the slots are empty between calls, so that no call  *)
(* is given what another left (channel.rs:261-319).                        *)
TypeOK ==
    /\ \A r \in Reader : cards[r].kind \in CardKind /\ cards[r].applet \in {"none", "fido", "other"}
    /\ chan \in [reader : 0..Readers, supported : [u2f : BOOLEAN, fido2 : BOOLEAN]]
    /\ pc \in {"idle", "transmit", "check", "recv"}
    /\ job.for \in {"none", "select", "probe", "cbor", "apdu"} /\ job.finding \in 0..Readers
    /\ Len(slot) <= 1 /\ (pc = "idle" => slot = <<>>)
    /\ call \in 0..MaxCalls
    /\ picked \in 0..Readers
    /\ outcome \in [Call -> Outcomes]
    /\ broken \in BOOLEAN

(* The call whose answer a call was given. *)
Gave(c) ==
    IF outcome[c] # "ok" THEN 0
    ELSE IF answer[c].data = <<>> THEN c ELSE answer[c].data[1].id

(* A call is given its own answer, all of it and nothing else, however     *)
(* many responses it took and whatever came between (channel.rs:168-213).  *)
OwnAnswers ==
    \A c \in Call :
        outcome[c] = "ok" /\ answer[c].sw = "9000" =>
            /\ answer[c].data # <<>>
            /\ \A i \in DOMAIN answer[c].data :
                 answer[c].data[i] = [id |-> c, of |-> Len(answer[c].data)]

(* A card is given to execute what one call sent, whole, unless a failed   *)
(* transmission or another program disturbed the chain on this channel     *)
(* (channel.rs:266-313); a new channel starts over.                        *)
RequestsAreWhole ==
    \A e \in executed : ~e.broken =>
        /\ \A i \in DOMAIN e.data : e.data[i] = e.id
        /\ Len(e.data) \in RequestSizes \/ e.id = 0

(* The card that get_nfc_device picks speaks a FIDO protocol               *)
(* (device.rs:104-112, the result of inner).                               *)
PicksFido == picked # 0 => cards[picked].kind \in {"fido2", "u2f", "both"}
===============================================================================
