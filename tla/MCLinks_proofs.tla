----------------------------- MODULE MCLinks_proofs -----------------------------
(***************************************************************************)
(* Proofs about the channels of MCLinks.  First NfcChannel, for any        *)
(* readers and cards, chunks, requests and answers of any size, any number *)
(* of calls, and failures anywhere.  Then what BleChannel does on a        *)
(* Bluetooth link, for fragments of any length as well.  In the end what   *)
(* the two have in common: that they keep the promise of Exchange, and     *)
(* what a caller has of it.                                                *)
(***************************************************************************)
EXTENDS MCLinks, FiniteSetTheorems, SequenceTheorems, WellFoundedInduction, TLAPS

-------------------------------------------------------------------------------
(* NFC.  The inductive invariant: the types of what TypeOK leaves open.    *)

Status == {"9000", "61", "error", "failed"}
Part == [id : 0..MaxCalls, of : Nat]
Versions == {"FIDO_2", "U2F_V2", "other"}
ApduType ==
    [ins : {"SELECT", "CTAPMSG", "GETRESPONSE", "U2F"}, more : BOOLEAN, data : Seq(0..MaxCalls)]
CardType ==
    [kind : CardKind, applet : {"none", "fido", "other"}, chain : Seq(0..MaxCalls), rest : Seq(Part)]
JobType(S) ==
    [for : {"none", "select", "probe", "cbor", "apdu"}, finding : 0..Readers, id : 0..MaxCalls,
     apdus : Seq(ApduType), payload : Seq(S), sw : Status]
Carried(j) == IF j.for = "select" THEN Versions ELSE Part
SlotType == [data : Seq(Part), sw : Status]

ChanType == [reader : 0..Readers, supported : [u2f : BOOLEAN, fido2 : BOOLEAN]]

Typed ==
    /\ cards \in [Reader -> CardType]
    /\ chan \in ChanType
    /\ pc \in {"idle", "transmit", "check", "recv"}
    /\ job \in JobType(Carried(job))
    /\ slot \in Seq(SlotType) /\ Len(slot) <= 1
    /\ call \in 0..MaxCalls
    /\ picked \in 0..Readers
    /\ outcome \in [Call -> Outcomes] /\ answer \in [Call -> SlotType]
    /\ broken \in BOOLEAN

(* Where the caller's task is, what it is doing there, and for which call. *)
InsOf(for) ==
    IF for = "select" THEN "SELECT" ELSE IF for = "apdu" THEN "U2F" ELSE "CTAPMSG"

(* What is still to be sent: a chain, every command of which but the last  *)
(* says that there are more, or a single command.                          *)
Commands(apdus, for) ==
    \A i \in DOMAIN apdus : /\ apdus[i].ins = InsOf(for)
                            /\ apdus[i].more <=> i < Len(apdus)
                            /\ apdus[i].more => apdus[i].ins = "CTAPMSG"

Exchanging == pc # "idle" /\ job.for \in {"cbor", "apdu"}

Located ==
    /\ pc # "idle" => chan.reader # 0 /\ job.for # "none"
    /\ pc = "recv" => job.for \in {"cbor", "apdu"} /\ slot # <<>>
    /\ pc # "recv" => slot = <<>>
    /\ Exchanging => call \in Call /\ job.id = call
    /\ pc = "transmit" => job.sw \in {"9000", "61"} /\ (Fetching \/ job.apdus # <<>>)
    /\ job.for = "select" => ~Fetching
    /\ job.for = "probe" => job.id = 0
    /\ Commands(job.apdus, job.for)
    /\ Fetching => job.apdus = <<>>
    /\ \A c \in Call : outcome[c] = "none" <=> (c > call \/ (c = call /\ Exchanging))

(* What a call is given, and what it has of that while it fetches more.    *)
OfCall(data, id) == \A i \in DOMAIN data : data[i].id = id

Whole(data, id) ==
    data # <<>> /\ \A i \in DOMAIN data : data[i] = [id |-> id, of |-> Len(data)]

Begun(data, rest, id) ==
    /\ data # <<>>
    /\ \A i \in DOMAIN data : data[i] = [id |-> id, of |-> data[1].of]
    /\ \A i \in DOMAIN rest : rest[i] = [id |-> id, of |-> data[1].of]
    /\ rest # <<>> => Len(data) + Len(rest) = data[1].of

Owned ==
    /\ pc \in {"transmit", "check"} /\ job.for # "select" =>
        /\ OfCall(job.payload, job.id)
        /\ Fetching => Begun(job.payload, cards[chan.reader].rest, job.id)
        /\ pc = "check" /\ job.sw = "9000" =>
            /\ job.payload # <<>> => Whole(job.payload, job.id)
            /\ job.for = "apdu" => job.payload # <<>>
    /\ pc = "recv" =>
        OfCall(slot[1].data, call) /\ (slot[1].sw = "9000" => Whole(slot[1].data, call))
    /\ \A c \in Call : outcome[c] = "ok" =>
        OfCall(answer[c].data, c) /\ (answer[c].sw = "9000" => Whole(answer[c].data, c))

(* What the card has of a chain, on a channel that nobody disturbed, and   *)
(* what it is still to be sent.                                            *)
RequestOf(bytes, id) == [i \in 1..bytes |-> id]

Chained(chain, apdus, id, counts) ==
    \E bytes \in counts : \E sent \in 0..ChunksOf(bytes) :
        /\ sent + Len(apdus) = ChunksOf(bytes) /\ Len(chain) = sent * CHUNK
        /\ \A i \in DOMAIN chain : chain[i] = id
        /\ \A i \in DOMAIN apdus : apdus[i] = CtapMsgs(RequestOf(bytes, id))[sent + i]

Sizes == IF job.for = "probe" THEN {1} ELSE RequestSizes

Sent ==
    /\ \A r \in Reader : r # chan.reader => cards[r].chain = <<>>
    /\ chan.reader # 0 /\ ~broken =>
        LET chain == cards[chan.reader].chain
        IN  IF pc \in {"transmit", "check"} /\ job.for \in {"cbor", "probe"}
                /\ job.apdus # <<>> /\ ~Failed /\ ~Fetching
            THEN Chained(chain, job.apdus, job.id, Sizes)
            ELSE chain = <<>>
    /\ RequestsAreWhole

IInv == Typed /\ Located /\ Owned /\ Sent

-------------------------------------------------------------------------------
(* Sequences.                                                              *)

LEMMA Split ==
    ASSUME NEW S, NEW s \in Seq(S), s # <<>>
    PROVE  /\ Len(s) \in Nat /\ Len(s) > 0 /\ DOMAIN s = 1..Len(s)
           /\ Head(s) = s[1] /\ Head(s) \in S
           /\ Tail(s) \in Seq(S) /\ Len(Tail(s)) = Len(s) - 1
           /\ DOMAIN Tail(s) = 1..(Len(s) - 1)
           /\ \A i \in 1..(Len(s) - 1) : Tail(s)[i] = s[i + 1]
    OBVIOUS

LEMMA Joined ==
    ASSUME NEW S, NEW s \in Seq(S), NEW t \in Seq(S)
    PROVE  /\ s \o t \in Seq(S) /\ Len(s \o t) = Len(s) + Len(t)
           /\ Len(s) \in Nat /\ Len(t) \in Nat
           /\ DOMAIN (s \o t) = 1..(Len(s) + Len(t))
           /\ \A i \in 1..(Len(s) + Len(t)) :
                (s \o t)[i] = IF i <= Len(s) THEN s[i] ELSE t[i - Len(s)]
    OBVIOUS

LEMMA Single ==
    ASSUME NEW S, NEW x \in S
    PROVE  /\ <<x>> \in Seq(S) /\ Len(<<x>>) = 1 /\ DOMAIN <<x>> = 1..1 /\ <<x>>[1] = x
           /\ <<x>> # <<>>
    OBVIOUS

LEMMA Empty == /\ \A S : <<>> \in Seq(S)
               /\ Len(<<>>) = 0 /\ DOMAIN <<>> = {}
    OBVIOUS

-------------------------------------------------------------------------------
(* What a card may answer.                                                 *)

LEMMA AnsweredIsWhole ==
    ASSUME NEW card \in CardType, NEW tag \in 0..MaxCalls, NEW parts \in AnswerParts,
           NEW response, response = Answered(card, tag, parts)
    PROVE  /\ response.card \in CardType /\ response.card.kind = card.kind
           /\ response.card.chain = <<>>
           /\ response.payload \in Seq(Part) /\ OfCall(response.payload, tag)
           /\ response.payload # <<>>
           /\ response.sw \in {"9000", "61"}
           /\ response.sw = "61" => Begun(response.payload, response.card.rest, tag)
           /\ response.sw = "9000" => Whole(response.payload, tag)
<1> DEFINE part == [id |-> tag, of |-> parts]
<1> DEFINE rest == [i \in 1..parts - 1 |-> part]
<1>1. parts \in Nat /\ parts > 0
    BY NfcAssumption
<1>2. part \in Part /\ part.id = tag /\ part.of = parts
    BY <1>1 DEF Part
<1>3. /\ response.card = [card EXCEPT !.chain = <<>>, !.rest = rest]
      /\ response.payload = <<part>> /\ response.sw = IF parts > 1 THEN "61" ELSE "9000"
    BY DEF Answered, Response
<1> HIDE DEF part
<1>4. rest \in Seq(Part) /\ Len(rest) = parts - 1 /\ DOMAIN rest = 1..(parts - 1)
      /\ \A i \in DOMAIN rest : rest[i] = part
    BY <1>1, <1>2
<1> HIDE DEF rest
<1>5. /\ response.card \in CardType /\ response.card.kind = card.kind
      /\ response.card.chain = <<>> /\ response.card.rest = rest
    BY <1>3, <1>4, Empty DEF CardType
<1>6. /\ <<part>> \in Seq(Part) /\ Len(<<part>>) = 1 /\ DOMAIN <<part>> = 1..1
      /\ <<part>>[1] = part /\ <<part>> # <<>>
    BY <1>2, Single
<1>7. part = [id |-> tag, of |-> parts]
    BY DEF part
<1>8. OfCall(response.payload, tag)
    BY <1>2, <1>3, <1>6 DEF OfCall
<1>9. ASSUME response.sw = "61" PROVE Begun(response.payload, response.card.rest, tag)
    BY <1>1, <1>2, <1>3, <1>4, <1>5, <1>6, <1>7 DEF Begun
<1>10. ASSUME response.sw = "9000" PROVE Whole(response.payload, tag)
    BY <1>1, <1>2, <1>3, <1>6, <1>7, <1>10 DEF Whole
<1> QED
    BY <1>3, <1>5, <1>6, <1>8, <1>9, <1>10

LEMMA RefusalIsEmpty ==
    ASSUME NEW card \in CardType, NEW response, response = Refusal(card)
    PROVE  /\ response.card \in CardType /\ response.card.kind = card.kind
           /\ response.card.chain = <<>> /\ response.payload = <<>> /\ response.sw = "error"
    BY Empty DEF Refusal, Response, CardType

(* A command of CTAP2 or CTAP1: the whole of an answer to it, or its first *)
(* part, or nothing; and the chain goes on, or there is none.              *)
LEMMA CommandResponses ==
    ASSUME NEW card \in CardType, NEW apdu \in ApduType, apdu.ins \in {"CTAPMSG", "U2F"},
           job.id \in 0..MaxCalls, NEW response \in Responses(card, apdu)
    PROVE  /\ response.card \in CardType /\ response.card.kind = card.kind
           /\ response.payload \in Seq(Part) /\ OfCall(response.payload, job.id)
           /\ response.sw \in {"9000", "61", "error"}
           /\ response.sw = "61" => Begun(response.payload, response.card.rest, job.id)
           /\ response.sw = "9000" /\ response.payload # <<>> => Whole(response.payload, job.id)
           /\ response.sw = "9000" /\ apdu.ins = "U2F" => response.payload # <<>>
           /\ response.card.chain =
                IF apdu.ins = "CTAPMSG" /\ apdu.more /\ response.sw # "error"
                THEN card.chain \o apdu.data ELSE <<>>
           /\ apdu.ins = "CTAPMSG" /\ apdu.more => response.sw # "61"
<1>1. CASE response = Refusal(card)
    BY <1>1, RefusalIsEmpty, Empty DEF OfCall
<1>2. CASE \E parts \in AnswerParts : response = Answered(card, job.id, parts)
           /\ ~(apdu.ins = "CTAPMSG" /\ apdu.more)
    BY <1>2, AnsweredIsWhole
<1>3. CASE /\ apdu.ins = "CTAPMSG" /\ apdu.more
           /\ response = Response([card EXCEPT !.chain = @ \o apdu.data], <<>>, "9000")
  <2>1. card.chain \o apdu.data \in Seq(0..MaxCalls)
      BY Joined DEF CardType, ApduType
  <2>2. /\ response.card \in CardType /\ response.card.kind = card.kind
        /\ response.card.chain = card.chain \o apdu.data
        /\ response.payload = <<>> /\ response.sw = "9000"
      BY <1>3, <2>1 DEF Response, CardType
  <2> QED BY <1>3, <2>2, Empty DEF OfCall
<1>4. CASE /\ apdu.ins = "CTAPMSG" /\ ~apdu.more
           /\ response = Response([card EXCEPT !.chain = <<>>], <<>>, "9000")
  <2>1. /\ response.card \in CardType /\ response.card.kind = card.kind
        /\ response.card.chain = <<>>
        /\ response.payload = <<>> /\ response.sw = "9000"
      BY <1>4, Empty DEF Response, CardType
  <2> QED BY <1>4, <2>1, Empty DEF OfCall
<1> QED
  <2>1. CASE apdu.ins = "CTAPMSG"
      BY <2>1, <1>1, <1>2, <1>3, <1>4 DEF Responses
  <2>2. CASE apdu.ins = "U2F"
      BY <2>2, <1>1, <1>2 DEF Responses
  <2> QED BY <2>1, <2>2

(* GET RESPONSE: the next part of what the card has left.                  *)
LEMMA FetchResponses ==
    ASSUME NEW card \in CardType, NEW apdu, apdu.ins = "GETRESPONSE",
           NEW response \in Responses(card, apdu)
    PROVE  /\ response.card \in CardType /\ response.card.kind = card.kind
           /\ response.payload \in Seq(Part)
           /\ \/ /\ response.sw = "error" /\ response.payload = <<>>
                 /\ response.card.chain = <<>>
              \/ /\ card.rest # <<>> /\ response.payload = <<Head(card.rest)>>
                 /\ response.card = [card EXCEPT !.rest = Tail(card.rest)]
                 /\ response.sw = IF Len(card.rest) > 1 THEN "61" ELSE "9000"
<1>1. CASE card.rest = <<>>
  <2>1. response = Refusal(card)
      BY <1>1 DEF Responses
  <2> QED BY <2>1, RefusalIsEmpty, Empty
<1>2. CASE card.rest # <<>>
  <2>1. /\ response.payload = <<Head(card.rest)>>
        /\ response.card = [card EXCEPT !.rest = Tail(card.rest)]
        /\ response.sw = IF Len(card.rest) > 1 THEN "61" ELSE "9000"
      BY <1>2 DEF Responses, Response
  <2>2. card.rest \in Seq(Part)
      BY DEF CardType
  <2> HIDE DEF Part
  <2>3. Head(card.rest) \in Part /\ Tail(card.rest) \in Seq(Part)
      BY <1>2, <2>2, Split
  <2>4. response.payload \in Seq(Part)
      BY <2>1, <2>3, Single
  <2>5. response.card \in CardType /\ response.card.kind = card.kind
      BY <2>1, <2>3 DEF CardType
  <2> QED BY <1>2, <2>1, <2>4, <2>5
<1> QED
    BY <1>1, <1>2

(* SELECT: a version, or nothing.                                          *)
LEMMA SelectResponses ==
    ASSUME NEW card \in CardType, NEW apdu, apdu.ins = "SELECT",
           NEW response \in Responses(card, apdu)
    PROVE  /\ response.card \in CardType /\ response.card.kind = card.kind
           /\ response.card.chain = <<>> /\ response.payload \in Seq(Versions)
           /\ response.sw \in {"9000", "error"}
<1>1. CASE card.kind = "none"
  <2>1. response = Refusal(card)
      BY <1>1 DEF Responses
  <2> QED BY <2>1, RefusalIsEmpty, Empty
<1>2. CASE card.kind # "none"
  <2>1. response = Response([Card(card.kind) EXCEPT !.applet = "fido"], <<Version(card.kind)>>, "9000")
      BY <1>2 DEF Responses
  <2>2. Version(card.kind) \in Versions
      BY DEF Version, Versions
  <2>3. <<Version(card.kind)>> \in Seq(Versions)
      BY <2>2, Single
  <2>4. /\ response.card.kind = card.kind /\ response.card.chain = <<>>
        /\ response.card \in CardType
      BY <2>1, Empty DEF Response, Card, CardType
  <2>5. response.payload = <<Version(card.kind)>> /\ response.sw = "9000"
      BY <2>1 DEF Response
  <2> QED BY <2>3, <2>4, <2>5
<1> QED
    BY <1>1, <1>2

-------------------------------------------------------------------------------
(* What a transmission meets.                                              *)

LEMMA Transmitting ==
    ASSUME Typed, Located, pc = "transmit"
    PROVE  /\ chan.reader \in Reader /\ cards[chan.reader] \in CardType
           /\ job.id \in 0..MaxCalls /\ job.apdus \in Seq(ApduType)
           /\ Fetching => ToTransmit.ins = "GETRESPONSE" /\ job.for # "select"
           /\ ~Fetching => /\ job.apdus # <<>> /\ ToTransmit = job.apdus[1]
                           /\ ToTransmit \in ApduType
                           /\ ToTransmit.ins = InsOf(job.for)
                           /\ ToTransmit.more <=> Len(job.apdus) > 1
                           /\ ToTransmit.more => ToTransmit.ins = "CTAPMSG"
                           /\ Tail(job.apdus) \in Seq(ApduType)
<1>1. chan.reader \in Reader /\ job.for # "none"
    BY DEF Typed, Located, ChanType, Reader
<1>2. cards[chan.reader] \in CardType
    BY <1>1 DEF Typed
<1>3. job.id \in 0..MaxCalls /\ job.apdus \in Seq(ApduType)
    BY DEF Typed, JobType
<1>4. ASSUME Fetching PROVE ToTransmit.ins = "GETRESPONSE" /\ job.for # "select"
    BY <1>4 DEF ToTransmit, Apdu, Located
<1>5. ASSUME ~Fetching
      PROVE  /\ job.apdus # <<>> /\ ToTransmit = job.apdus[1]
             /\ ToTransmit \in ApduType
             /\ ToTransmit.ins = InsOf(job.for)
             /\ ToTransmit.more <=> Len(job.apdus) > 1
             /\ ToTransmit.more => ToTransmit.ins = "CTAPMSG"
             /\ Tail(job.apdus) \in Seq(ApduType)
  <2>1. job.apdus # <<>>
      BY <1>5 DEF Located
  <2> HIDE DEF ApduType
  <2>2. /\ Head(job.apdus) = job.apdus[1] /\ Head(job.apdus) \in ApduType
        /\ 1 \in DOMAIN job.apdus /\ Tail(job.apdus) \in Seq(ApduType)
      BY <1>3, <2>1, Split
  <2>3. ToTransmit = job.apdus[1]
      BY <1>5, <2>2 DEF ToTransmit
  <2>4. Commands(job.apdus, job.for)
      BY DEF Located
  <2>5. /\ ToTransmit.ins = InsOf(job.for) /\ (ToTransmit.more <=> Len(job.apdus) > 1)
        /\ ToTransmit.more => ToTransmit.ins = "CTAPMSG"
      BY <2>2, <2>3, <2>4 DEF Commands
  <2> QED BY <2>1, <2>2, <2>3, <2>5
<1> QED
    BY <1>1, <1>2, <1>3, <1>4, <1>5

LEMMA InsAreKnown == job.for # "select" => InsOf(job.for) \in {"CTAPMSG", "U2F"}
    BY DEF InsOf

LEMMA ResponsesHere ==
    ASSUME Typed, Located, pc = "transmit",
           NEW response \in Responses(cards[chan.reader], ToTransmit)
    PROVE  /\ response.card \in CardType
           /\ response.card.kind = cards[chan.reader].kind
           /\ response.payload \in Seq(Carried(job))
           /\ response.sw \in {"9000", "61", "error"}
           /\ job.for = "select" => response.sw # "61"
           /\ ~Fetching /\ job.for \notin {"cbor", "probe"} => response.card.chain = <<>>
<1> USE Transmitting
<1>1. CASE Fetching
  <2>1. ToTransmit.ins = "GETRESPONSE" /\ job.for # "select"
      BY <1>1
  <2>2. Carried(job) = Part
      BY <2>1 DEF Carried
  <2> QED BY <1>1, <2>1, <2>2, FetchResponses, ZenonT(40)
<1>2. CASE ~Fetching /\ job.for = "select"
  <2>1. ToTransmit.ins = "SELECT" /\ Carried(job) = Versions
      BY <1>2 DEF InsOf, Carried
  <2> QED BY <1>2, <2>1, SelectResponses
<1>3. CASE ~Fetching /\ job.for # "select"
  <2>1. job.for \in {"probe", "cbor", "apdu"}
      BY <1>3 DEF Typed, Located, JobType
  <2>2. /\ ToTransmit.ins \in {"CTAPMSG", "U2F"} /\ Carried(job) = Part
        /\ job.for \notin {"cbor", "probe"} => ToTransmit.ins = "U2F"
      BY <1>3, <2>1 DEF InsOf, Carried
  <2> QED BY <1>3, <2>1, <2>2, CommandResponses
<1> QED
    BY <1>1, <1>2, <1>3

(* A channel's opening goes on or ends: the channel is kept, or there is   *)
(* none any more, or another one starts, or the card is asked again.       *)
Rests ==
    /\ pc' = "idle" /\ job' \in {job, NoJob}
    /\ \/ /\ chan' \in ChanType /\ chan'.reader = chan.reader
          /\ UNCHANGED <<cards, broken>>
       \/ chan' = NoChannel /\ UNCHANGED broken
          /\ cards' = [cards EXCEPT ![chan.reader] = Reset(@)]

Starts ==
    /\ \E reader \in Reader, finding \in 0..Readers : Start(reader, finding)
    /\ \/ chan.reader = 0 /\ UNCHANGED cards
       \/ cards' = [cards EXCEPT ![chan.reader] = Reset(@)]

Probes ==
    /\ pc = "check" /\ job.for = "select"
    /\ job' = [NoJob EXCEPT !.for = "probe", !.finding = job.finding, !.apdus = CtapMsgs(<<0>>)]
    /\ pc' = "transmit"
    /\ UNCHANGED <<cards, chan, broken>>

Opening ==
    /\ pc = "idle" \/ (pc = "check" /\ job.for \in {"select", "probe"} /\ Last)
    /\ Rests \/ Starts \/ Probes
    /\ slot' = <<>> /\ picked' \in 0..Readers
    /\ UNCHANGED <<call, outcome, answer, executed>>

LEMMA OpenedIs ==
    ASSUME Typed, Located, pc = "check",
           NEW ok, NEW supported \in [u2f : BOOLEAN, fido2 : BOOLEAN], Opened(ok, supported)
    PROVE  (Rests \/ Starts) /\ slot' = <<>> /\ picked' \in 0..Readers
<1>1. /\ slot = <<>> /\ job.finding \in 0..Readers /\ picked \in 0..Readers
      /\ chan \in ChanType
    BY DEF Typed, Located, JobType
<1>2. CASE job.finding = 0 /\ ok
  <2>1. [chan EXCEPT !.supported = supported] \in ChanType
        /\ [chan EXCEPT !.supported = supported].reader = chan.reader
      BY <1>1 DEF ChanType
  <2> QED BY <1>1, <1>2, <2>1 DEF Opened, Rests
<1>3. CASE job.finding = 0 /\ ~ok
    BY <1>1, <1>3 DEF Opened, Rests, Dropped
<1>4. CASE job.finding # 0 /\ ok /\ is_fido(supported)
    BY <1>1, <1>4 DEF Opened, Rests, Dropped
<1>5. CASE job.finding # 0 /\ ~(ok /\ is_fido(supported))
  <2>1. slot' = <<>> /\ picked' = picked
        /\ cards' = [cards EXCEPT ![chan.reader] = Reset(@)]
      BY <1>5 DEF Opened, Dropped
  <2>2. CASE job.finding < Readers
    <3>1. Start(job.finding + 1, job.finding + 1)
        BY <1>5, <2>2 DEF Opened
    <3>2. job.finding + 1 \in Reader /\ job.finding + 1 \in 0..Readers
        BY <1>1, <2>2, NfcAssumption DEF Reader
    <3> QED BY <1>1, <2>1, <3>1, <3>2 DEF Starts
  <2>3. CASE ~(job.finding < Readers)
      BY <1>1, <1>5, <2>1, <2>3 DEF Opened, Rests
  <2> QED BY <2>2, <2>3
<1> QED
    BY <1>2, <1>3, <1>4, <1>5

LEMMA OpeningIs ==
    ASSUME Typed, Located,
           channel \/ get_nfc_device \/ select_fido2 \/ probe_done \/ drop
    PROVE  Opening
<1>1. picked \in 0..Readers /\ (pc # "recv" => slot = <<>>)
    BY DEF Typed, Located
<1>2. CASE channel
  <2>1. PICK reader \in Reader : Start(reader, 0)
      BY <1>2 DEF channel
  <2>2. 0 \in 0..Readers
      BY NfcAssumption
  <2>3. Starts
      BY <1>2, <2>1, <2>2 DEF channel, Starts
  <2> QED BY <1>1, <1>2, <2>3 DEF channel, Opening
<1>3. CASE get_nfc_device
  <2>1. 1 \in Reader /\ 1 \in 0..Readers
      BY NfcAssumption DEF Reader
  <2>2. Starts
      BY <1>3, <2>1 DEF get_nfc_device, Starts
  <2> QED BY <1>1, <1>3, <2>2 DEF get_nfc_device, Opening
<1>4. CASE select_fido2
  <2>1. /\ pc = "check" /\ job.for = "select" /\ Last
        /\ UNCHANGED <<call, outcome, answer, executed>>
      BY <1>4 DEF select_fido2, Last, Checked
  <2>2. CASE Failed
    <3>1. Opened(FALSE, Unsupported) /\ Unsupported \in [u2f : BOOLEAN, fido2 : BOOLEAN]
        BY <1>4, <2>2 DEF select_fido2, Unsupported
    <3> QED BY <2>1, <3>1, OpenedIs DEF Opening
  <2>3. CASE ~Failed /\ NeedsProbe(job.payload[1])
    <3>1. /\ job' = [NoJob EXCEPT !.for = "probe", !.finding = job.finding,
                                  !.apdus = CtapMsgs(<<0>>)]
          /\ pc' = "transmit"
          /\ UNCHANGED <<cards, chan, slot, picked, broken>>
        BY <1>4, <2>3 DEF select_fido2
    <3> QED BY <1>1, <2>1, <3>1 DEF Opening, Probes
  <2>4. CASE ~Failed /\ ~NeedsProbe(job.payload[1])
    <3> DEFINE found ==
            [u2f |-> job.payload[1] = "U2F_V2", fido2 |-> job.payload[1] # "other"]
    <3>1. Opened(TRUE, found)
        BY <1>4, <2>4 DEF select_fido2
    <3>2. found \in [u2f : BOOLEAN, fido2 : BOOLEAN]
        BY Zenon
    <3> HIDE DEF found
    <3> QED BY <2>1, <3>1, <3>2, OpenedIs DEF Opening
  <2> QED BY <2>2, <2>3, <2>4
<1>5. CASE probe_done
  <2>1. /\ pc = "check" /\ job.for = "probe" /\ Last
        /\ UNCHANGED <<call, outcome, answer, executed>>
      BY <1>5 DEF probe_done, Last, Checked
  <2> DEFINE found == [u2f |-> TRUE, fido2 |-> ~Failed /\ job.payload # <<>>]
  <2>2. Opened(TRUE, found)
      BY <1>5 DEF probe_done
  <2>3. found \in [u2f : BOOLEAN, fido2 : BOOLEAN]
      BY Zenon
  <2> HIDE DEF found
  <2> QED BY <2>1, <2>2, <2>3, OpenedIs DEF Opening
<1>6. CASE drop
    BY <1>1, <1>6 DEF drop, Dropped, Opening, Rests
<1> QED
    BY <1>2, <1>3, <1>4, <1>5, <1>6

-------------------------------------------------------------------------------
(* Types.                                                                  *)

LEMMA CardsAreTyped ==
    ASSUME NEW kind \in CardKind
    PROVE  /\ Card(kind) \in CardType /\ Card(kind).kind = kind
           /\ Card(kind).chain = <<>> /\ Card(kind).rest = <<>>
    BY Empty DEF Card, CardType

LEMMA ResetIsTyped ==
    ASSUME NEW card \in CardType
    PROVE  Reset(card) \in CardType /\ Reset(card).chain = <<>> /\ Reset(card).rest = <<>>
    BY CardsAreTyped DEF Reset, CardType

LEMMA NoJobIsTyped ==
    /\ NoJob \in JobType(Carried(NoJob)) /\ NoJob.for = "none" /\ NoJob.apdus = <<>>
    /\ NoJob.payload = <<>> /\ NoJob.sw = "9000" /\ NoJob.id = 0 /\ NoJob.finding = 0
<1>1. 0 \in 0..Readers /\ 0 \in 0..MaxCalls
    BY NfcAssumption
<1> QED
    BY <1>1, Empty DEF NoJob, JobType, Status

(* What the caller starts with: commands, and nothing answered yet.        *)
Made(what, reader, number, apdus) ==
    [for |-> what, finding |-> reader, id |-> number, apdus |-> apdus,
     payload |-> <<>>, sw |-> "9000"]

LEMMA FreshJob ==
    ASSUME NEW what \in {"select", "probe", "cbor", "apdu"}, NEW reader \in 0..Readers,
           NEW number \in 0..MaxCalls, NEW apdus \in Seq(ApduType)
    PROVE  LET j == Made(what, reader, number, apdus)
           IN  /\ j \in JobType(Carried(j)) /\ j.for = what /\ j.finding = reader
               /\ j.id = number /\ j.apdus = apdus /\ j.payload = <<>> /\ j.sw = "9000"
<1> DEFINE j == Made(what, reader, number, apdus)
<1>1. /\ j.for = what /\ j.finding = reader /\ j.id = number
      /\ j.apdus = apdus /\ j.payload = <<>> /\ j.sw = "9000"
    BY DEF Made
<1>2. <<>> \in Seq(Carried(j))
    BY Empty
<1>3. j \in JobType(Carried(j))
    BY <1>2 DEF JobType, Status, Made
<1> QED
    BY <1>1, <1>3

LEMMA MadeOf ==
    ASSUME NEW what, NEW number, NEW apdus, NEW j,
           j = [NoJob EXCEPT !.for = what, !.id = number, !.apdus = apdus]
    PROVE  j = Made(what, 0, number, apdus)
    BY DEF NoJob, Made

LEMMA ChunksAreCounted ==
    ASSUME NEW len \in Nat \ {0}
    PROVE  /\ ChunksOf(len) \in Nat /\ ChunksOf(len) >= 1
           /\ ChunksOf(len) * CHUNK >= len
           /\ (ChunksOf(len) - 1) * CHUNK < len
<1>1. CHUNK \in Nat /\ CHUNK > 0
    BY NfcAssumption
<1>2. ASSUME NEW a \in Nat, NEW b \in Nat, b > 0
      PROVE  /\ a \div b \in Nat /\ (a \div b) * b <= a /\ a < (a \div b) * b + b
    BY <1>2, Z3
<1>3. len + CHUNK - 1 \in Nat /\ len + CHUNK - 1 >= CHUNK
    BY <1>1
<1> DEFINE k == (len + CHUNK - 1) \div CHUNK
<1>4. k \in Nat /\ k * CHUNK <= len + CHUNK - 1 /\ len + CHUNK - 1 < k * CHUNK + CHUNK
    BY <1>1, <1>2, <1>3
<1> HIDE DEF k
<1>5. k # 0
    BY <1>1, <1>3, <1>4, Z3
<1>6. (k - 1) * CHUNK = k * CHUNK - CHUNK
    BY <1>1, <1>4, Z3
<1>7. k * CHUNK \in Nat
    BY <1>1, <1>4, Z3
<1>8. k = ChunksOf(len)
    BY DEF k, ChunksOf
<1> QED
    BY <1>1, <1>4, <1>5, <1>6, <1>7, <1>8

(* The chain of commands of a request: every one but the last is full, and *)
(* says that there are more.                                               *)
IsPart(data, length, id) ==
    data \in Seq(0..MaxCalls) /\ Len(data) = length /\ \A x \in DOMAIN data : data[x] = id

LEMMA PartOfRequest ==
    ASSUME NEW len \in Nat, NEW id \in 0..MaxCalls, NEW from \in Nat, NEW to \in Nat,
           from <= to, to <= len
    PROVE  IsPart(SubSeq(RequestOf(len, id), from + 1, to), to - from, id)
<1> DEFINE request == RequestOf(len, id)
           data == SubSeq(request, from + 1, to)
<1>1. request \in Seq(0..MaxCalls) /\ Len(request) = len /\ \A i \in 1..len : request[i] = id
    BY DEF RequestOf
<1> HIDE DEF request
<1>2. /\ \A i \in (from + 1)..to : request[i] \in 0..MaxCalls
      /\ Len(data) = to - from /\ DOMAIN data = 1..(to - from)
      /\ \A i \in 1..(to - from) : data[i] = request[from + i]
    BY <1>1
<1>3. \A i \in 1..(to - from) : data[i] = id
    BY <1>1, <1>2
<1>4. data \in Seq(0..MaxCalls)
    BY <1>1
<1> HIDE DEF data
<1>5. IsPart(data, to - from, id)
    BY <1>2, <1>3, <1>4 DEF IsPart
<1> QED
    BY <1>5 DEF data, request

LEMMA ChunksAreOrdered ==
    ASSUME NEW i \in Nat, NEW k \in Nat, i <= k
    PROVE  i * CHUNK \in Nat /\ k * CHUNK \in Nat /\ i * CHUNK <= k * CHUNK
<1>1. CHUNK \in Nat
    BY NfcAssumption
<1> QED
    BY <1>1, Z3

PartAt(bytes, i, id) ==
    SubSeq(RequestOf(bytes, id), (i - 1) * CHUNK + 1, IF i * CHUNK < bytes THEN i * CHUNK ELSE bytes)

LEMMA PartsAreFull ==
    ASSUME NEW bytes \in Nat \ {0}, NEW id \in 0..MaxCalls, NEW i \in 1..ChunksOf(bytes)
    PROVE  IsPart(PartAt(bytes, i, id),
                  IF i < ChunksOf(bytes) THEN CHUNK ELSE bytes - (i - 1) * CHUNK, id)
<1> DEFINE k == ChunksOf(bytes)
           from == (i - 1) * CHUNK
           to == IF i * CHUNK < bytes THEN i * CHUNK ELSE bytes
           part == SubSeq(RequestOf(bytes, id), from + 1, to)
<1>1. /\ CHUNK \in Nat /\ CHUNK > 0 /\ k \in Nat /\ k >= 1
      /\ k * CHUNK >= bytes /\ (k - 1) * CHUNK < bytes /\ bytes \in Nat
    BY ChunksAreCounted, NfcAssumption
<1>2. PartAt(bytes, i, id) = part
    BY DEF PartAt
<1> HIDE DEF k
<1>3. i \in Nat /\ i >= 1 /\ i <= k
    BY <1>1 DEF k
<1>4. from \in Nat /\ (k - 1) * CHUNK \in Nat /\ from <= (k - 1) * CHUNK
    BY <1>1, <1>3, ChunksAreOrdered
<1>5. from + CHUNK = i * CHUNK
    BY <1>1, <1>3, Z3
<1> HIDE DEF from
<1>6. CASE i < k
  <2>1. i * CHUNK <= (k - 1) * CHUNK
      BY <1>1, <1>3, <1>6, ChunksAreOrdered
  <2>2. to = from + CHUNK /\ to \in Nat /\ to <= bytes /\ from <= to /\ to - from = CHUNK
      BY <1>1, <1>4, <1>5, <2>1
  <2> HIDE DEF to
  <2>3. IsPart(part, to - from, id)
      BY <1>1, <1>4, <2>2, PartOfRequest
  <2> HIDE DEF part
  <2> QED BY <1>2, <1>6, <2>2, <2>3 DEF k
<1>7. CASE ~(i < k)
  <2>1. i = k
      BY <1>1, <1>3, <1>7
  <2>2. to = bytes /\ from = (k - 1) * CHUNK
      BY <1>1, <2>1 DEF from
  <2>3. to \in Nat /\ to <= bytes /\ from <= to
      BY <1>1, <1>4, <2>2
  <2>4. bytes - (i - 1) * CHUNK = to - from
      BY <2>2 DEF from
  <2> HIDE DEF to
  <2>5. IsPart(part, to - from, id)
      BY <1>1, <1>4, <2>3, PartOfRequest
  <2> HIDE DEF part
  <2> QED BY <1>2, <1>7, <2>4, <2>5, Zenon DEF k
<1> QED
    BY <1>6, <1>7

ChainIs(msgs, bytes, id) ==
    /\ msgs \in Seq(ApduType) /\ Len(msgs) = ChunksOf(bytes) /\ DOMAIN msgs = 1..ChunksOf(bytes)
    /\ \A i \in 1..ChunksOf(bytes) :
         /\ msgs[i].ins = "CTAPMSG" /\ (msgs[i].more <=> i < ChunksOf(bytes))
         /\ IsPart(msgs[i].data,
                   IF i < ChunksOf(bytes) THEN CHUNK ELSE bytes - (i - 1) * CHUNK, id)

LEMMA ChainOf ==
    ASSUME NEW bytes \in Nat \ {0}, NEW id \in 0..MaxCalls
    PROVE  ChainIs(CtapMsgs(RequestOf(bytes, id)), bytes, id)
<1> DEFINE k == ChunksOf(bytes)
           msgs == CtapMsgs(RequestOf(bytes, id))
<1>1. Len(RequestOf(bytes, id)) = bytes
    BY DEF RequestOf
<1>2. msgs = [i \in 1..k |-> Apdu("CTAPMSG", i < k, PartAt(bytes, i, id))]
    BY <1>1, Zenon DEF CtapMsgs, PartAt
<1>3. k \in Nat
    BY ChunksAreCounted
<1> HIDE DEF msgs
<1>4. ASSUME NEW i \in 1..k
      PROVE  msgs[i] \in ApduType /\ msgs[i].ins = "CTAPMSG" /\ (msgs[i].more <=> i < k)
             /\ msgs[i].data = PartAt(bytes, i, id)
  <2> DEFINE data == PartAt(bytes, i, id)
  <2>1. msgs[i] = [ins |-> "CTAPMSG", more |-> i < k, data |-> data]
      BY <1>2 DEF Apdu
  <2>2. data \in Seq(0..MaxCalls)
      BY PartsAreFull DEF IsPart
  <2> HIDE DEF data, k
  <2>3. CASE i < k
    <3>1. (i < k) = TRUE
        BY <2>3
    <3>2. msgs[i] = [ins |-> "CTAPMSG", more |-> TRUE, data |-> data]
        BY <2>1, <3>1, Zenon
    <3> QED BY <2>2, <2>3, <3>2 DEF ApduType, data
  <2>4. CASE ~(i < k)
    <3>1. (i < k) = FALSE
        BY <2>4
    <3>2. msgs[i] = [ins |-> "CTAPMSG", more |-> FALSE, data |-> data]
        BY <2>1, <3>1, Zenon
    <3> QED BY <2>2, <2>4, <3>2 DEF ApduType, data
  <2> QED BY <2>3, <2>4
<1>5. DOMAIN msgs = 1..k
    BY <1>2
<1>6. msgs \in Seq(ApduType) /\ Len(msgs) = k
    BY <1>2, <1>3, <1>4
<1>7. \A i \in 1..k :
        IsPart(PartAt(bytes, i, id), IF i < k THEN CHUNK ELSE bytes - (i - 1) * CHUNK, id)
    BY PartsAreFull, Zenon
<1> HIDE DEF k
<1>8. \A i \in 1..k :
        /\ msgs[i].ins = "CTAPMSG" /\ (msgs[i].more <=> i < k)
        /\ IsPart(msgs[i].data, IF i < k THEN CHUNK ELSE bytes - (i - 1) * CHUNK, id)
    BY <1>4, <1>7, Zenon
<1> QED
    BY <1>5, <1>6, <1>8, Zenon DEF ChainIs, k, msgs

LEMMA ProbeIsAChain ==
    <<0>> = RequestOf(1, 0) /\ ChainIs(CtapMsgs(<<0>>), 1, 0)
<1>1. <<0>> = RequestOf(1, 0)
    BY DEF RequestOf
<1>2. 1 \in Nat \ {0} /\ 0 \in 0..MaxCalls
    BY NfcAssumption
<1>3. ChainIs(CtapMsgs(RequestOf(1, 0)), 1, 0)
    BY <1>2, ChainOf
<1> QED
    BY <1>1, <1>3

LEMMA TypedHasTypes == ASSUME Typed, Located PROVE TypeOK
<1>1. \A r \in Reader : cards[r].kind \in CardKind /\ cards[r].applet \in {"none", "fido", "other"}
    BY DEF Typed, CardType
<1>2. job.for \in {"none", "select", "probe", "cbor", "apdu"} /\ job.finding \in 0..Readers
    BY DEF Typed, JobType
<1>3. Len(slot) <= 1 /\ (pc = "idle" => slot = <<>>)
    BY DEF Typed, Located
<1>4. /\ chan \in [reader : 0..Readers, supported : [u2f : BOOLEAN, fido2 : BOOLEAN]]
      /\ pc \in {"idle", "transmit", "check", "recv"}
      /\ call \in 0..MaxCalls /\ picked \in 0..Readers
      /\ outcome \in [Call -> Outcomes] /\ broken \in BOOLEAN
    BY DEF Typed, ChanType
<1> QED
    BY <1>1, <1>2, <1>3, <1>4 DEF TypeOK

LEMMA TypedInit == Init => Typed
<1> SUFFICES ASSUME Init PROVE Typed
    OBVIOUS
<1>1. cards \in [Reader -> CardType]
  <2>1. cards \in [Reader -> {Card(kind) : kind \in Kinds}]
      BY DEF Init
  <2>2. {Card(kind) : kind \in Kinds} \subseteq CardType
      BY CardsAreTyped, NfcAssumption
  <2> HIDE DEF CardType
  <2> QED BY <2>1, <2>2
<1>2. chan \in ChanType /\ picked \in 0..Readers /\ call \in 0..MaxCalls
    BY NfcAssumption DEF Init, NoChannel, ChanType, Unsupported
<1>3. job \in JobType(Carried(job))
    BY NoJobIsTyped DEF Init
<1>4. slot \in Seq(SlotType) /\ Len(slot) <= 1
    BY Empty DEF Init
<1>5. outcome \in [Call -> Outcomes] /\ answer \in [Call -> SlotType]
  <2>1. NoAnswer \in SlotType
      BY Empty DEF NoAnswer, SlotType, Status
  <2>2. "none" \in Outcomes
      BY DEF Outcomes
  <2> QED BY <2>1, <2>2 DEF Init
<1> QED
    BY <1>1, <1>2, <1>3, <1>4, <1>5 DEF Init, Typed

(* One card answers, or is reset.                                          *)
LEMMA OneCardChanges ==
    ASSUME Typed, NEW reader, NEW card, reader \in Reader => card \in CardType,
           cards' = [cards EXCEPT ![reader] = card]
    PROVE  /\ cards' \in [Reader -> CardType]
           /\ reader \in Reader => cards'[reader] = card
           /\ \A r \in Reader : r # reader => cards'[r] = cards[r]
<1>1. cards \in [Reader -> CardType]
    BY DEF Typed
<1> HIDE DEF CardType
<1> QED
    BY <1>1

LEMMA TypedTransmit == ASSUME Typed, Located, transmit PROVE Typed'
<1>1. PICK response \in Responses(cards[chan.reader], ToTransmit) :
        /\ cards' = [cards EXCEPT ![chan.reader] = response.card]
        /\ job' = [job EXCEPT !.apdus = IF Fetching THEN @ ELSE Tail(@),
                              !.payload = IF Fetching THEN @ \o response.payload
                                          ELSE response.payload,
                              !.sw = response.sw]
    BY DEF transmit
<1>2. pc = "transmit" /\ pc' = "check"
      /\ UNCHANGED <<chan, slot, call, picked, outcome, answer, broken, n>>
    BY DEF transmit
<1>3. /\ response.card \in CardType /\ response.payload \in Seq(Carried(job))
      /\ response.sw \in {"9000", "61", "error"}
    BY <1>1, <1>2, ResponsesHere
<1>4. cards' \in [Reader -> CardType]
    BY <1>1, <1>3, OneCardChanges
<1>5. job' \in JobType(Carried(job'))
  <2> DEFINE apdus == IF Fetching THEN job.apdus ELSE Tail(job.apdus)
             payload == IF Fetching THEN job.payload \o response.payload ELSE response.payload
  <2>1. job \in JobType(Carried(job)) /\ apdus \in Seq(ApduType)
      BY <1>2, Transmitting DEF Typed
  <2>2. payload \in Seq(Carried(job))
    <3>1. job.payload \in Seq(Carried(job))
        BY <2>1 DEF JobType
    <3> HIDE DEF Carried
    <3> QED BY <1>3, <3>1, Joined
  <2>3. job' = [job EXCEPT !.apdus = apdus, !.payload = payload, !.sw = response.sw]
      BY <1>1
  <2> HIDE DEF apdus, payload
  <2>4. response.sw \in Status
      BY <1>3 DEF Status
  <2>5. job'.for = job.for /\ job' \in JobType(Carried(job))
      BY <2>1, <2>2, <2>3, <2>4 DEF JobType
  <2> QED BY <2>5 DEF Carried
<1> QED
    BY <1>2, <1>4, <1>5 DEF Typed

LEMMA TypedFails == ASSUME Typed, Located, transmit_fails PROVE Typed'
<1>1. pc = "transmit" /\ pc' = "check" /\ broken' = TRUE
      /\ job' = [job EXCEPT !.sw = "failed"]
      /\ UNCHANGED <<chan, slot, call, picked, outcome, answer, executed>>
    BY DEF transmit_fails
<1>2. cards' \in [Reader -> CardType]
  <2>1. CASE UNCHANGED cards
      BY <2>1 DEF Typed
  <2>2. CASE \E response \in Responses(cards[chan.reader], ToTransmit) :
               cards' = [cards EXCEPT ![chan.reader] = response.card]
      BY <1>1, <2>2, ResponsesHere, OneCardChanges
  <2> QED BY <2>1, <2>2 DEF transmit_fails
<1>3. job' \in JobType(Carried(job'))
  <2>1. job \in JobType(Carried(job))
      BY DEF Typed
  <2>2. job'.for = job.for /\ job' \in JobType(Carried(job))
      BY <1>1, <2>1 DEF JobType, Status
  <2> QED BY <2>2 DEF Carried
<1> QED
    BY <1>1, <1>2, <1>3 DEF Typed

LEMMA TypedOpening == ASSUME Typed, Located, Opening PROVE Typed'
<1>1. /\ slot' = <<>> /\ picked' \in 0..Readers
      /\ UNCHANGED <<call, outcome, answer, executed>>
    BY DEF Opening
<1>2. slot' \in Seq(SlotType) /\ Len(slot') <= 1
    BY <1>1, Empty
<1>3. \A r \in Reader : Reset(cards[r]) \in CardType
    BY ResetIsTyped DEF Typed
<1>4. cards' = [cards EXCEPT ![chan.reader] = Reset(@)] => cards' \in [Reader -> CardType]
    BY <1>3, OneCardChanges
<1>5. UNCHANGED cards => cards' \in [Reader -> CardType]
    BY DEF Typed
<1>6. CASE Rests
  <2>0. NoChannel \in ChanType
      BY NfcAssumption DEF NoChannel, ChanType, Unsupported
  <2>1. chan' \in ChanType
      BY <1>6, <2>0 DEF Rests
  <2>2. job' \in JobType(Carried(job'))
      BY <1>6, NoJobIsTyped DEF Rests, Typed
  <2> QED BY <1>1, <1>2, <1>4, <1>5, <1>6, <2>1, <2>2 DEF Rests, Typed
<1>7. CASE Starts
  <2>1. PICK reader \in Reader, finding \in 0..Readers : Start(reader, finding)
      BY <1>7 DEF Starts
  <2>2. chan' \in ChanType
      BY <2>1, NfcAssumption DEF Start, ChanType, Unsupported, Reader
  <2>3. job' = Made("select", finding, 0, <<SelectApdu>>)
      BY <2>1 DEF Start, NoJob, Made
  <2>4. SelectApdu \in ApduType
      BY Empty DEF SelectApdu, Apdu, ApduType
  <2>5. <<SelectApdu>> \in Seq(ApduType) /\ 0 \in 0..MaxCalls
      BY <2>4, Single, NfcAssumption
  <2>6. job' \in JobType(Carried(job'))
      BY <2>3, <2>5, FreshJob
  <2>7. pc' = "transmit" /\ broken' = FALSE
      BY <2>1 DEF Start
  <2> QED BY <1>1, <1>2, <1>4, <1>5, <1>7, <2>2, <2>6, <2>7 DEF Starts, Typed
<1>8. CASE Probes
  <2>1. ChainIs(CtapMsgs(<<0>>), 1, 0)
      BY ProbeIsAChain
  <2>2. CtapMsgs(<<0>>) \in Seq(ApduType)
      BY <2>1 DEF ChainIs
  <2>3. job' = Made("probe", job.finding, 0, CtapMsgs(<<0>>))
      BY <1>8 DEF Probes, NoJob, Made
  <2>4. job.finding \in 0..Readers /\ 0 \in 0..MaxCalls
      BY NfcAssumption DEF Typed, JobType
  <2>5. job' \in JobType(Carried(job'))
      BY <2>2, <2>3, <2>4, FreshJob
  <2> QED BY <1>1, <1>2, <1>5, <1>8, <2>5 DEF Probes, Typed
<1> QED
    BY <1>6, <1>7, <1>8 DEF Opening

(* A call starts: the chain of its request, or its one command of CTAP1.   *)
U2fApdu(id) == Apdu("U2F", FALSE, <<id>>)

Begins ==
    \/ \E len \in RequestSizes :
         job' = Made("cbor", 0, call + 1, CtapMsgs(RequestOf(len, call + 1)))
    \/ job' = Made("apdu", 0, call + 1, <<U2fApdu(call + 1)>>)

LEMMA BeginIs ==
    ASSUME Typed, Begin
    PROVE  /\ Begins /\ call' \in Call /\ call' = call + 1 /\ pc = "idle" /\ pc' = "transmit"
           /\ chan.reader # 0
           /\ UNCHANGED <<cards, chan, slot, picked, outcome, answer, executed, broken, n>>
<1>1. /\ call \in 0..MaxCalls /\ call < MaxCalls /\ call' = call + 1
      /\ pc = "idle" /\ pc' = "transmit" /\ chan.reader # 0
      /\ UNCHANGED <<cards, chan, slot, picked, outcome, answer, executed, broken, n>>
    BY DEF Begin, Typed
<1>2. call' \in Call
    BY <1>1, NfcAssumption DEF Call
<1>3. CASE \E len \in RequestSizes :
            job' = [NoJob EXCEPT !.for = "cbor", !.id = call + 1,
                                 !.apdus = CtapMsgs([i \in 1..len |-> call + 1])]
  <2>1. PICK len \in RequestSizes :
            job' = [NoJob EXCEPT !.for = "cbor", !.id = call + 1,
                                 !.apdus = CtapMsgs(RequestOf(len, call + 1))]
      BY <1>3, Zenon DEF RequestOf
  <2>2. job' = Made("cbor", 0, call + 1, CtapMsgs(RequestOf(len, call + 1)))
      BY <2>1, MadeOf, Zenon
  <2> QED BY <1>1, <1>2, <2>2 DEF Begins
<1>4. CASE job' = [NoJob EXCEPT !.for = "apdu", !.id = call + 1,
                               !.apdus = <<Apdu("U2F", FALSE, <<call + 1>>)>>]
  <2>1. job' = Made("apdu", 0, call + 1, <<U2fApdu(call + 1)>>)
      BY <1>4, MadeOf, Zenon DEF U2fApdu
  <2> QED BY <1>1, <1>2, <2>1 DEF Begins
<1> QED
    BY <1>3, <1>4, Zenon DEF Begin

LEMMA BegunJob ==
    ASSUME Begins, call + 1 \in Call
    PROVE  /\ job' \in JobType(Carried(job')) /\ job'.for \in {"cbor", "apdu"}
           /\ job'.id = call + 1 /\ job'.payload = <<>> /\ job'.sw = "9000"
           /\ job'.apdus # <<>>
           /\ Commands(job'.apdus, job'.for)
<1>1. call + 1 \in 0..MaxCalls /\ 0 \in 0..Readers
    BY NfcAssumption DEF Call
<1>2. CASE \E len \in RequestSizes :
            job' = Made("cbor", 0, call + 1, CtapMsgs(RequestOf(len, call + 1)))
  <2>1. PICK len \in RequestSizes :
            job' = Made("cbor", 0, call + 1, CtapMsgs(RequestOf(len, call + 1)))
      BY <1>2
  <2> DEFINE apdus == CtapMsgs(RequestOf(len, call + 1))
  <2>2. len \in Nat \ {0}
      BY NfcAssumption
  <2>3. ChainIs(apdus, len, call + 1)
      BY <1>1, <2>2, ChainOf
  <2>4. ChunksOf(len) \in Nat /\ ChunksOf(len) >= 1
      BY <2>2, ChunksAreCounted
  <2> HIDE DEF apdus
  <2>5. /\ apdus \in Seq(ApduType) /\ DOMAIN apdus = 1..ChunksOf(len)
        /\ Commands(apdus, "cbor")
      BY <2>3 DEF ChainIs, Commands, InsOf
  <2>6. apdus # <<>>
      BY <2>4, <2>5, Empty
  <2> DEFINE j == Made("cbor", 0, call + 1, apdus)
  <2>7. /\ j \in JobType(Carried(j)) /\ j.for = "cbor" /\ j.id = call + 1
        /\ j.apdus = apdus /\ j.payload = <<>> /\ j.sw = "9000"
      BY <1>1, <2>5, FreshJob
  <2>8. job' = j
      BY <2>1 DEF apdus
  <2> HIDE DEF j
  <2> QED BY <2>5, <2>6, <2>7, <2>8
<1>3. CASE job' = Made("apdu", 0, call + 1, <<U2fApdu(call + 1)>>)
  <2> DEFINE apdus == <<U2fApdu(call + 1)>>
  <2>1. <<call + 1>> \in Seq(0..MaxCalls)
      BY <1>1, Single
  <2>2. /\ U2fApdu(call + 1) \in ApduType /\ U2fApdu(call + 1).ins = "U2F"
        /\ ~U2fApdu(call + 1).more
      BY <2>1 DEF U2fApdu, Apdu, ApduType
  <2> HIDE DEF ApduType
  <2>3. /\ apdus \in Seq(ApduType) /\ apdus # <<>> /\ DOMAIN apdus = 1..1 /\ Len(apdus) = 1
        /\ apdus[1].ins = "U2F" /\ ~apdus[1].more
      BY <2>2, Single
  <2> HIDE DEF apdus
  <2>6. Commands(apdus, "apdu")
      BY <2>3 DEF Commands, InsOf
  <2> DEFINE j == Made("apdu", 0, call + 1, apdus)
  <2>4. /\ j \in JobType(Carried(j)) /\ j.for = "apdu" /\ j.id = call + 1
        /\ j.apdus = apdus /\ j.payload = <<>> /\ j.sw = "9000"
      BY <1>1, <2>3, FreshJob
  <2>5. job' = j
      BY <1>3 DEF apdus
  <2> HIDE DEF j
  <2> QED BY <2>3, <2>4, <2>5, <2>6
<1> QED
    BY <1>2, <1>3 DEF Begins

LEMMA TypedBegin == ASSUME Typed, Begin PROVE Typed'
<1>1. /\ Begins /\ call' \in Call /\ call' = call + 1 /\ pc' = "transmit"
      /\ UNCHANGED <<cards, chan, slot, picked, outcome, answer, broken>>
    BY BeginIs
<1>2. job' \in JobType(Carried(job')) /\ call' \in 0..MaxCalls
    BY <1>1, BegunJob DEF Call
<1> QED
    BY <1>1, <1>2 DEF Typed

LEMMA TypedReturn ==
    ASSUME Typed, NEW end \in Outcomes, NEW data \in SlotType, Return(end, data),
           UNCHANGED <<cards, chan, call, picked, broken>>, slot' \in {slot, <<>>}
    PROVE  Typed'
<1>1. /\ outcome' = [outcome EXCEPT ![call] = end] /\ answer' = [answer EXCEPT ![call] = data]
      /\ pc' = "idle" /\ job' = NoJob
    BY DEF Return
<1>2. outcome' \in [Call -> Outcomes] /\ answer' \in [Call -> SlotType]
    BY <1>1 DEF Typed
<1>3. job' \in JobType(Carried(job'))
    BY <1>1, NoJobIsTyped
<1>4. slot' \in Seq(SlotType) /\ Len(slot') <= 1
  <2> HIDE DEF SlotType
  <2>1. CASE slot' = slot
      BY <2>1 DEF Typed
  <2>2. CASE slot' = <<>>
      BY <2>2, Empty
  <2> QED BY <2>1, <2>2
<1> QED
    BY <1>1, <1>2, <1>3, <1>4 DEF Typed

LEMMA SlotIsTyped ==
    ASSUME Typed, slot # <<>> PROVE slot[1] \in SlotType
<1>1. slot \in Seq(SlotType)
    BY DEF Typed
<1> HIDE DEF SlotType
<1> QED
    BY <1>1, Split

LEMMA NoAnswerIsTyped == NoAnswer \in SlotType
    BY Empty DEF NoAnswer, SlotType, Status

LEMMA TypedNext == ASSUME Typed, Located, [Next]_vars PROVE Typed'
<1>1. CASE transmit
    BY <1>1, TypedTransmit
<1>2. CASE transmit_fails
    BY <1>2, TypedFails
<1>3. CASE fetch_more
    BY <1>3 DEF fetch_more, Typed
<1>4. CASE next_command
  <2>1. job \in JobType(Carried(job))
      BY DEF Typed
  <2>2. job' \in JobType(Carried(job)) /\ job'.for = job.for
      BY <1>4, <2>1 DEF next_command, JobType, Status
  <2>3. job' \in JobType(Carried(job'))
      BY <2>2 DEF Carried
  <2> QED BY <1>4, <2>3 DEF next_command, Typed
<1>5. CASE send_done
  <2>1. /\ slot' = <<[data |-> job.payload, sw |-> IF job.for = "apdu" THEN job.sw ELSE "9000"]>>
        /\ pc' = "recv" /\ UNCHANGED <<job, outcome, answer, cards, chan, call, picked, broken>>
        /\ job.for \in {"cbor", "apdu"}
      BY <1>5 DEF send_done, Exchanged
  <2>2. job.payload \in Seq(Part) /\ job.sw \in Status
      BY <2>1 DEF Typed, JobType, Carried
  <2>3. [data |-> job.payload, sw |-> IF job.for = "apdu" THEN job.sw ELSE "9000"] \in SlotType
      BY <2>2 DEF SlotType, Status
  <2>4. slot' \in Seq(SlotType) /\ Len(slot') <= 1
      BY <2>1, <2>3, Single
  <2> QED BY <2>1, <2>4 DEF Typed
<1>6. CASE send_fails
  <2>1. /\ Return(IF Failed THEN ErrorOf ELSE "ResponseDecode", NoAnswer)
        /\ UNCHANGED <<cards, chan, call, picked, broken, slot>>
      BY <1>6 DEF send_fails, Exchanged
  <2>2. (IF Failed THEN ErrorOf ELSE "ResponseDecode") \in Outcomes
      BY DEF ErrorOf, Outcomes
  <2> QED BY <2>1, <2>2, NoAnswerIsTyped, TypedReturn
<1>7. CASE recv
  <2>1. /\ IF slot = <<>> THEN Return("NoResponse", NoAnswer) ELSE Return("ok", slot[1])
        /\ slot' = <<>> /\ UNCHANGED <<cards, chan, call, picked, broken>>
      BY <1>7 DEF recv, Exchanged, TakenSlot
  <2>2. "NoResponse" \in Outcomes /\ "ok" \in Outcomes
      BY DEF Outcomes
  <2>3. CASE slot = <<>>
      BY <2>1, <2>2, <2>3, NoAnswerIsTyped, TypedReturn
  <2>4. CASE slot # <<>>
      BY <2>1, <2>2, <2>4, SlotIsTyped, TypedReturn
  <2> QED BY <2>3, <2>4
<1>8. CASE Begin
    BY <1>8, TypedBegin
<1>9. CASE OtherSelects
  <2>1. PICK applet \in {"fido", "other"} :
            cards' = [cards EXCEPT ![chan.reader] = [Card(@.kind) EXCEPT !.applet = applet]]
      BY <1>9 DEF OtherSelects
  <2>2. ASSUME NEW card \in CardType PROVE [Card(card.kind) EXCEPT !.applet = applet] \in CardType
      BY Empty DEF Card, CardType
  <2>3. cards' \in [Reader -> CardType]
      BY <2>1, <2>2, OneCardChanges DEF Typed
  <2> QED BY <1>9, <2>3 DEF OtherSelects, Typed
<1>10. CASE channel \/ get_nfc_device \/ select_fido2 \/ probe_done \/ drop
    BY <1>10, OpeningIs, TypedOpening
<1>11. CASE UNCHANGED vars
    BY <1>11 DEF vars, Typed
<1> QED
    BY <1>1, <1>2, <1>3, <1>4, <1>5, <1>6, <1>7, <1>8, <1>9, <1>10, <1>11 DEF Next

-------------------------------------------------------------------------------
(* Where the caller's task is.                                             *)

LEMMA LocatedInit == Init => Located
<1> SUFFICES ASSUME Init PROVE Located
    OBVIOUS
<1>1. /\ pc = "idle" /\ slot = <<>> /\ call = 0 /\ job.for = "none" /\ job.sw = "9000"
      /\ job.apdus = <<>>
    BY NoJobIsTyped DEF Init
<1>2. \A c \in Call : outcome[c] = "none" /\ c > call
    BY <1>1, NfcAssumption DEF Init, Call
<1> QED
    BY <1>1, <1>2, Empty DEF Located, Exchanging, Fetching, Commands

LEMMA LocatedTransmit == ASSUME Typed, Located, transmit PROVE Located'
<1>1. PICK response \in Responses(cards[chan.reader], ToTransmit) :
        job' = [job EXCEPT !.apdus = IF Fetching THEN @ ELSE Tail(@),
                           !.payload = IF Fetching THEN @ \o response.payload
                                       ELSE response.payload,
                           !.sw = response.sw]
    BY DEF transmit
<1>2. pc = "transmit" /\ pc' = "check" /\ UNCHANGED <<chan, slot, call, outcome>>
    BY DEF transmit
<1>3. job.for = "select" => response.sw # "61"
    BY <1>1, <1>2, ResponsesHere
<1>4. /\ job'.for = job.for /\ job'.id = job.id /\ job'.sw = response.sw
      /\ job'.apdus = IF Fetching THEN job.apdus ELSE Tail(job.apdus)
    BY <1>1 DEF Typed, JobType
<1>5. Commands(job'.apdus, job'.for) /\ (job'.sw = "61" => job'.apdus = <<>>)
  <2>1. CASE Fetching
      BY <1>4, <2>1 DEF Located
  <2>2. CASE ~Fetching
    <3>1. job.apdus # <<>> /\ job.apdus \in Seq(ApduType)
        BY <1>2, <2>2, Transmitting
    <3>2. /\ DOMAIN job.apdus = 1..Len(job.apdus) /\ Len(job.apdus) \in Nat
          /\ DOMAIN Tail(job.apdus) = 1..(Len(job.apdus) - 1) /\ Len(job.apdus) > 0
          /\ Len(Tail(job.apdus)) = Len(job.apdus) - 1
          /\ Tail(job.apdus) \in Seq(ApduType)
          /\ \A i \in 1..(Len(job.apdus) - 1) : Tail(job.apdus)[i] = job.apdus[i + 1]
      <4> HIDE DEF ApduType
      <4> QED BY <3>1, Split
    <3>3. Commands(Tail(job.apdus), job.for)
        BY <3>2 DEF Located, Commands
    <3>4. ASSUME response.sw = "61" PROVE Tail(job.apdus) = <<>>
      <4>1. job.for # "select"
          BY <1>3, <3>4
      <4>2. /\ ToTransmit \in ApduType /\ ToTransmit.ins \in {"CTAPMSG", "U2F"}
            /\ ToTransmit.more <=> Len(job.apdus) > 1
            /\ ToTransmit.more => ToTransmit.ins = "CTAPMSG"
            /\ cards[chan.reader] \in CardType /\ job.id \in 0..MaxCalls
          BY <1>2, <2>2, <4>1, Transmitting, InsAreKnown
      <4>3. ~ToTransmit.more
          BY <1>1, <3>4, <4>2, CommandResponses
      <4>4. ~(Len(job.apdus) > 1)
          BY <4>2, <4>3, Zenon
      <4> DEFINE rest == Tail(job.apdus)
      <4>5. /\ Len(rest) = Len(job.apdus) - 1 /\ Len(job.apdus) \in Nat /\ Len(job.apdus) > 0
            /\ rest \in Seq(ApduType)
          BY <3>2, Zenon
      <4> HIDE DEF ApduType, rest
      <4>6. rest # <<>> => Len(rest) > 0
          BY <4>5, Split
      <4>7. rest = <<>>
          BY <4>4, <4>5, <4>6
      <4> QED BY <4>7 DEF rest
    <3> QED BY <1>4, <2>2, <3>3, <3>4
  <2> QED BY <2>1, <2>2
<1> QED
    BY <1>2, <1>3, <1>4, <1>5 DEF Located, Exchanging, Fetching

LEMMA LocatedOpening == ASSUME Typed, Located, Opening PROVE Located'
<1>1. slot' = <<>> /\ UNCHANGED <<call, outcome>> /\ ~Exchanging
    BY DEF Opening, Exchanging
<1>2. \A c \in Call : outcome[c] = "none" <=> c > call
    BY <1>1 DEF Located
<1>3. CASE Rests
  <2>1. /\ job'.for = "select" => ~(job'.sw = "61")
        /\ job'.for = "probe" => job'.id = 0
        /\ job'.sw = "61" => job'.apdus = <<>>
        /\ Commands(job'.apdus, job'.for)
      BY <1>3, NoJobIsTyped, Empty DEF Rests, Located, Fetching, Commands
  <2>2. pc' = "idle"
      BY <1>3 DEF Rests
  <2> QED BY <1>1, <1>2, <2>1, <2>2 DEF Located, Exchanging, Fetching
<1>4. CASE Starts
  <2>1. PICK reader \in Reader, finding \in 0..Readers : Start(reader, finding)
      BY <1>4 DEF Starts
  <2>2. chan'.reader # 0 /\ pc' = "transmit"
      BY <2>1, NfcAssumption DEF Start, Reader
  <2>3. job'.for = "select" /\ job'.sw = "9000" /\ job'.apdus = <<SelectApdu>>
      BY <2>1 DEF Start, NoJob
  <2>4. SelectApdu.ins = "SELECT" /\ ~SelectApdu.more
      BY DEF SelectApdu, Apdu
  <2>5. /\ job'.apdus # <<>> /\ DOMAIN job'.apdus = 1..1 /\ Len(job'.apdus) = 1
        /\ job'.apdus[1] = SelectApdu
      BY <2>3, Single
  <2>6. Commands(job'.apdus, job'.for)
      BY <2>3, <2>4, <2>5 DEF Commands, InsOf
  <2> QED BY <1>1, <1>2, <2>2, <2>3, <2>5, <2>6 DEF Located, Exchanging, Fetching
<1>5. CASE Probes
  <2>1. ChainIs(CtapMsgs(<<0>>), 1, 0)
      BY ProbeIsAChain
  <2>2. /\ job'.for = "probe" /\ job'.sw = "9000" /\ job'.id = 0 /\ job'.apdus = CtapMsgs(<<0>>)
        /\ pc' = "transmit" /\ pc = "check" /\ UNCHANGED chan
      BY <1>5 DEF Probes, NoJob
  <2>3. ChunksOf(1) \in Nat /\ ChunksOf(1) >= 1
      BY ChunksAreCounted
  <2>4. /\ DOMAIN job'.apdus = 1..ChunksOf(1)
        /\ Commands(job'.apdus, job'.for)
      BY <2>1, <2>2 DEF ChainIs, Commands, InsOf
  <2>5. job'.apdus # <<>>
      BY <2>3, <2>4, Empty
  <2> QED BY <1>1, <1>2, <2>2, <2>4, <2>5 DEF Located, Exchanging, Fetching
<1> QED
    BY <1>3, <1>4, <1>5 DEF Opening

LEMMA LocatedReturn ==
    ASSUME Typed, Located, Exchanging, NEW end \in Outcomes \ {"none"}, NEW data,
           Return(end, data), UNCHANGED call, slot' = <<>>
    PROVE  Located'
<1>1. call \in Call /\ pc' = "idle" /\ job' = NoJob
      /\ outcome' = [outcome EXCEPT ![call] = end]
    BY DEF Return, Located
<1>2. \A c \in Call : outcome'[c] = "none" <=> c > call'
    BY <1>1 DEF Typed, Located, Call
<1>3. job'.for = "none" /\ job'.apdus = <<>>
    BY <1>1, NoJobIsTyped
<1>4. Commands(job'.apdus, job'.for)
    BY <1>3, Empty DEF Commands
<1> QED
    BY <1>1, <1>2, <1>3, <1>4 DEF Located, Exchanging

LEMMA LocatedNext == ASSUME Typed, Located, [Next]_vars PROVE Located'
<1>1. CASE transmit
    BY <1>1, LocatedTransmit
<1>2. CASE transmit_fails
  <2>1. /\ pc = "transmit" /\ pc' = "check" /\ job' = [job EXCEPT !.sw = "failed"]
        /\ UNCHANGED <<chan, slot, call, outcome>>
      BY <1>2 DEF transmit_fails
  <2>2. /\ job'.for = job.for /\ job'.id = job.id /\ job'.sw = "failed"
        /\ job'.apdus = job.apdus
      BY <2>1 DEF Typed, JobType
  <2> QED BY <2>1, <2>2 DEF Located, Exchanging, Fetching
<1>3. CASE fetch_more
    BY <1>3 DEF fetch_more, Located, Exchanging, Fetching
<1>4. CASE next_command
  <2>1. /\ pc = "check" /\ pc' = "transmit" /\ job' = [job EXCEPT !.sw = "9000"]
        /\ UNCHANGED <<chan, slot, call, outcome>> /\ job.apdus # <<>>
      BY <1>4 DEF next_command, Checked, ChainGoesOn
  <2>2. /\ job'.for = job.for /\ job'.id = job.id /\ job'.sw = "9000"
        /\ job'.apdus = job.apdus
      BY <2>1 DEF Typed, JobType
  <2> QED BY <2>1, <2>2 DEF Located, Exchanging, Fetching
<1>5. CASE send_done
  <2>1. /\ pc = "check" /\ pc' = "recv" /\ job.for \in {"cbor", "apdu"}
        /\ UNCHANGED <<job, chan, call, outcome>>
      BY <1>5 DEF send_done, Exchanged, Last, Checked
  <2>2. slot' # <<>>
      BY <1>5, Single DEF send_done
  <2> QED BY <2>1, <2>2 DEF Located, Exchanging, Fetching
<1>6. CASE send_fails
  <2>1. /\ Return(IF Failed THEN ErrorOf ELSE "ResponseDecode", NoAnswer)
        /\ UNCHANGED <<call, slot>> /\ Exchanging /\ pc # "recv"
      BY <1>6 DEF send_fails, Exchanged, Last, Checked, Exchanging
  <2>2. (IF Failed THEN ErrorOf ELSE "ResponseDecode") \in Outcomes \ {"none"}
      BY DEF ErrorOf, Outcomes
  <2>3. slot' = <<>>
      BY <2>1 DEF Located
  <2> QED BY <2>1, <2>2, <2>3, LocatedReturn
<1>7. CASE recv
  <2>1. /\ Return("ok", slot[1]) /\ slot' = <<>> /\ UNCHANGED call /\ Exchanging
      BY <1>7 DEF recv, Exchanged, TakenSlot, Located, Exchanging
  <2>2. "ok" \in Outcomes \ {"none"}
      BY DEF Outcomes
  <2> QED BY <2>1, <2>2, LocatedReturn
<1>8. CASE Begin
  <2>1. /\ Begins /\ call' \in Call /\ call' = call + 1 /\ pc = "idle" /\ pc' = "transmit"
        /\ chan.reader # 0 /\ UNCHANGED <<chan, slot, outcome>>
      BY <1>8, BeginIs
  <2>2. /\ job'.for \in {"cbor", "apdu"} /\ job'.id = call + 1 /\ job'.sw = "9000"
        /\ job'.apdus # <<>>
        /\ Commands(job'.apdus, job'.for)
      BY <2>1, BegunJob
  <2>3. \A c \in Call : outcome'[c] = "none" <=> (c > call' \/ c = call')
      BY <2>1 DEF Typed, Located, Exchanging, Call
  <2> QED BY <2>1, <2>2, <2>3 DEF Located, Exchanging, Fetching
<1>9. CASE OtherSelects
    BY <1>9 DEF OtherSelects, Located, Exchanging, Fetching
<1>10. CASE channel \/ get_nfc_device \/ select_fido2 \/ probe_done \/ drop
    BY <1>10, OpeningIs, LocatedOpening
<1>11. CASE UNCHANGED vars
    BY <1>11 DEF vars, Located, Exchanging, Fetching
<1> QED
    BY <1>1, <1>2, <1>3, <1>4, <1>5, <1>6, <1>7, <1>8, <1>9, <1>10, <1>11 DEF Next

-------------------------------------------------------------------------------
(* A call is given its own answer.                                         *)

LEMMA OwnedInit == Init => Owned
<1> SUFFICES ASSUME Init PROVE Owned
    OBVIOUS
<1>1. pc = "idle" /\ \A c \in Call : outcome[c] = "none"
    BY DEF Init
<1> QED
    BY <1>1 DEF Owned

(* One more part of an answer: it is whole when nothing is left of it.     *)
LEMMA OneMorePart ==
    ASSUME NEW data \in Seq(Part), NEW rest \in Seq(Part), NEW id,
           Begun(data, rest, id), rest # <<>>, OfCall(data, id)
    PROVE  LET all == data \o <<Head(rest)>>
           IN  /\ OfCall(all, id)
               /\ Len(rest) > 1 => Begun(all, Tail(rest), id)
               /\ ~(Len(rest) > 1) => Whole(all, id)
<1> DEFINE all == data \o <<Head(rest)>>
           of == data[1].of
<1>1. /\ Len(rest) \in Nat /\ Len(rest) > 0 /\ DOMAIN rest = 1..Len(rest)
      /\ Head(rest) = rest[1] /\ Head(rest) \in Part
      /\ Tail(rest) \in Seq(Part) /\ Len(Tail(rest)) = Len(rest) - 1
      /\ DOMAIN Tail(rest) = 1..(Len(rest) - 1)
      /\ \A i \in 1..(Len(rest) - 1) : Tail(rest)[i] = rest[i + 1]
  <2> HIDE DEF Part
  <2> QED BY Split
<1>2. /\ Len(data) \in Nat /\ Len(data) > 0 /\ DOMAIN data = 1..Len(data)
  <2> HIDE DEF Part
  <2> QED BY Split DEF Begun
<1>3. /\ \A i \in DOMAIN data : data[i] = [id |-> id, of |-> of]
      /\ \A i \in DOMAIN rest : rest[i] = [id |-> id, of |-> of]
      /\ Len(data) + Len(rest) = of
    BY DEF Begun
<1> DEFINE part == [id |-> id, of |-> of]
<1> HIDE DEF of
<1>4. part.id = id
    OBVIOUS
<1>5. (\A i \in DOMAIN data : data[i] = part) /\ (\A i \in DOMAIN rest : rest[i] = part)
    BY <1>3
<1> HIDE DEF part
<1>6. Head(rest) = part
    BY <1>1, <1>5
<1>7. /\ <<Head(rest)>> \in Seq(Part) /\ Len(<<Head(rest)>>) = 1
      /\ <<Head(rest)>>[1] = Head(rest)
  <2> HIDE DEF Part
  <2> QED BY <1>1, Single
<1>8. /\ all \in Seq(Part) /\ Len(all) = Len(data) + 1 /\ DOMAIN all = 1..(Len(data) + 1)
      /\ \A i \in 1..(Len(data) + 1) :
           all[i] = IF i <= Len(data) THEN data[i] ELSE <<Head(rest)>>[i - Len(data)]
  <2> HIDE DEF Part
  <2> QED BY <1>7, Joined
<1> HIDE DEF all
<1>9. ASSUME NEW i \in DOMAIN all PROVE all[i] = part
  <2>1. CASE i <= Len(data)
    <3>1. all[i] = data[i] /\ i \in DOMAIN data
        BY <1>2, <1>8, <2>1
    <3> QED BY <1>5, <3>1
  <2>2. CASE ~(i <= Len(data))
    <3>1. i = Len(data) + 1
        BY <1>2, <1>8, <2>2
    <3>2. all[i] = <<Head(rest)>>[1]
        BY <1>2, <1>8, <2>2, <3>1
    <3> QED BY <1>6, <1>7, <3>2
  <2> QED BY <2>1, <2>2
<1>10. all # <<>> /\ 1 \in DOMAIN all /\ OfCall(all, id)
    BY <1>2, <1>4, <1>8, <1>9, Empty DEF OfCall
<1>11. all[1].of = of /\ part = [id |-> id, of |-> of]
    BY <1>9, <1>10 DEF part
<1>12. ASSUME Len(rest) > 1 PROVE Begun(all, Tail(rest), id)
  <2>1. \A i \in DOMAIN Tail(rest) : Tail(rest)[i] = part
      BY <1>1, <1>5
  <2>2. Len(all) + Len(Tail(rest)) = of
      BY <1>1, <1>2, <1>3, <1>8
  <2>3. /\ all[1].of = of /\ [id |-> id, of |-> all[1].of] = part
      BY <1>11
  <2> QED BY <1>9, <1>10, <2>1, <2>2, <2>3, Zenon DEF Begun
<1>13. ASSUME ~(Len(rest) > 1) PROVE Whole(all, id)
  <2>1. Len(all) = of
      BY <1>1, <1>2, <1>3, <1>8, <1>13
  <2>2. [id |-> id, of |-> Len(all)] = part
      BY <1>11, <2>1
  <2> QED BY <1>9, <1>10, <2>2, Zenon DEF Whole
<1> QED
    BY <1>10, <1>12, <1>13 DEF all

LEMMA OwnedTransmit == ASSUME Typed, Located, Owned, transmit PROVE Owned'
<1>1. PICK response \in Responses(cards[chan.reader], ToTransmit) :
        /\ cards' = [cards EXCEPT ![chan.reader] = response.card]
        /\ job' = [job EXCEPT !.apdus = IF Fetching THEN @ ELSE Tail(@),
                              !.payload = IF Fetching THEN @ \o response.payload
                                          ELSE response.payload,
                              !.sw = response.sw]
    BY DEF transmit
<1>2. pc = "transmit" /\ pc' = "check" /\ UNCHANGED <<chan, slot, call, outcome, answer>>
    BY DEF transmit
<1>3. /\ response.card \in CardType /\ response.payload \in Seq(Carried(job))
      /\ chan.reader \in Reader /\ cards[chan.reader] \in CardType
    BY <1>1, <1>2, ResponsesHere, Transmitting
<1>4. cards'[chan'.reader] = response.card
    BY <1>1, <1>2, <1>3, OneCardChanges
<1>5. /\ job'.for = job.for /\ job'.id = job.id /\ job'.sw = response.sw
      /\ job'.payload = IF Fetching THEN job.payload \o response.payload ELSE response.payload
    BY <1>1 DEF Typed, JobType
<1>6. \A c \in Call : outcome'[c] = "ok" =>
        OfCall(answer'[c].data, c) /\ (answer'[c].sw = "9000" => Whole(answer'[c].data, c))
    BY <1>2 DEF Owned
<1>7. CASE job.for = "select"
    BY <1>2, <1>5, <1>6, <1>7 DEF Owned
<1>8. CASE job.for # "select" /\ ~Fetching
  <2>1. /\ ToTransmit \in ApduType /\ ToTransmit.ins = InsOf(job.for) /\ job.id \in 0..MaxCalls
      BY <1>2, <1>8, Transmitting
  <2>2. ToTransmit.ins \in {"CTAPMSG", "U2F"} /\ (job.for = "apdu" => ToTransmit.ins = "U2F")
      BY <1>8, <2>1 DEF InsOf
  <2>3. /\ OfCall(response.payload, job.id)
        /\ response.sw = "61" => Begun(response.payload, response.card.rest, job.id)
        /\ response.sw = "9000" /\ response.payload # <<>> => Whole(response.payload, job.id)
        /\ response.sw = "9000" /\ ToTransmit.ins = "U2F" => response.payload # <<>>
      BY <1>3, <2>1, <2>2, CommandResponses
  <2> QED BY <1>2, <1>4, <1>5, <1>6, <1>8, <2>2, <2>3 DEF Owned, Fetching
<1>9. CASE job.for # "select" /\ Fetching
  <2> DEFINE rest == cards[chan.reader].rest
  <2>1. /\ OfCall(job.payload, job.id) /\ Begun(job.payload, rest, job.id)
      BY <1>2, <1>9 DEF Owned
  <2>2. job.payload \in Seq(Part) /\ rest \in Seq(Part)
      BY <1>3, <1>9 DEF Typed, JobType, CardType, Carried
  <2>3. ToTransmit.ins = "GETRESPONSE"
      BY <1>2, <1>9, Transmitting
  <2>4. CASE response.sw = "error" /\ response.payload = <<>>
    <3>1. job'.payload = job.payload
        BY <1>5, <1>9, <2>2, <2>4
    <3> QED BY <1>2, <1>5, <1>6, <2>1, <2>4, <3>1 DEF Owned, Fetching
  <2>5. CASE /\ rest # <<>> /\ response.payload = <<Head(rest)>>
             /\ response.card = [cards[chan.reader] EXCEPT !.rest = Tail(rest)]
             /\ response.sw = IF Len(rest) > 1 THEN "61" ELSE "9000"
    <3> DEFINE all == job.payload \o <<Head(rest)>>
    <3>1. /\ OfCall(all, job.id)
          /\ Len(rest) > 1 => Begun(all, Tail(rest), job.id)
          /\ ~(Len(rest) > 1) => Whole(all, job.id)
        BY <2>1, <2>2, <2>5, OneMorePart
    <3>2. job'.payload = all
        BY <1>5, <1>9, <2>5
    <3>3. cards'[chan'.reader].rest = Tail(rest)
        BY <1>3, <1>4, <2>5 DEF CardType
    <3>4. all # <<>>
      <4>1. <<Head(rest)>> \in Seq(Part) /\ Len(<<Head(rest)>>) = 1
        <5> HIDE DEF Part, rest
        <5>1. Head(rest) \in Part
            BY <2>2, <2>5, Split
        <5> QED BY <5>1, Single
      <4> HIDE DEF Part, rest
      <4>2. Len(all) = Len(job.payload) + 1 /\ Len(job.payload) \in Nat
          BY <2>2, <4>1, Joined
      <4> QED BY <4>2, Empty
    <3> HIDE DEF all
    <3>5. /\ job'.sw = "61" => Begun(job'.payload, cards'[chan'.reader].rest, job'.id)
          /\ job'.sw = "9000" => Whole(job'.payload, job'.id)
          /\ OfCall(job'.payload, job'.id) /\ job'.payload # <<>>
        BY <1>5, <2>5, <3>1, <3>2, <3>3, <3>4
    <3> QED BY <1>2, <1>6, <3>5 DEF Owned, Fetching
  <2>6. \/ response.sw = "error" /\ response.payload = <<>>
        \/ /\ rest # <<>> /\ response.payload = <<Head(rest)>>
           /\ response.card = [cards[chan.reader] EXCEPT !.rest = Tail(rest)]
           /\ response.sw = IF Len(rest) > 1 THEN "61" ELSE "9000"
    <3> HIDE DEF CardType, Responses, Part
    <3> QED BY <1>3, <2>3, FetchResponses
  <2> QED
    <3> HIDE DEF rest
    <3> QED BY <2>4, <2>5, <2>6
<1> QED
    BY <1>7, <1>8, <1>9

LEMMA OwnedNext == ASSUME Typed, Located, Owned, [Next]_vars PROVE Owned'
<1> DEFINE Told == \A c \in Call : outcome[c] = "ok" =>
            OfCall(answer[c].data, c) /\ (answer[c].sw = "9000" => Whole(answer[c].data, c))
<1>1. Told
    BY DEF Owned
<1>2. UNCHANGED <<outcome, answer>> => Told'
    BY <1>1
<1>3. ASSUME NEW end \in Outcomes, NEW data, Return(end, data), Exchanging,
             end = "ok" =>
                OfCall(data.data, call) /\ (data.sw = "9000" => Whole(data.data, call))
      PROVE  Told' /\ pc' = "idle"
  <2>1. outcome' = [outcome EXCEPT ![call] = end] /\ answer' = [answer EXCEPT ![call] = data]
        /\ pc' = "idle"
      BY <1>3 DEF Return
  <2>2. call \in Call /\ outcome \in [Call -> Outcomes] /\ answer \in [Call -> SlotType]
      BY <1>3 DEF Located, Typed
  <2> HIDE DEF SlotType, Outcomes
  <2>3. /\ outcome'[call] = end /\ answer'[call] = data
        /\ \A c \in Call : c # call => outcome'[c] = outcome[c] /\ answer'[c] = answer[c]
      BY <2>1, <2>2
  <2> QED BY <1>1, <1>3, <2>1, <2>3
<1> HIDE DEF Told
<1>4. CASE transmit
    BY <1>4, OwnedTransmit
<1>5. CASE transmit_fails
  <2>1. /\ pc = "transmit" /\ pc' = "check" /\ job' = [job EXCEPT !.sw = "failed"]
        /\ UNCHANGED <<outcome, answer>>
      BY <1>5 DEF transmit_fails
  <2>2. /\ job'.for = job.for /\ job'.id = job.id /\ job'.sw = "failed"
        /\ job'.payload = job.payload
      BY <2>1 DEF Typed, JobType
  <2> QED BY <1>2, <2>1, <2>2 DEF Owned, Fetching, Told
<1>6. CASE fetch_more
    BY <1>2, <1>6 DEF fetch_more, Owned, Fetching, Told
<1>7. CASE next_command
  <2>1. /\ pc = "check" /\ pc' = "transmit" /\ job' = [job EXCEPT !.sw = "9000"]
        /\ UNCHANGED <<outcome, answer>>
      BY <1>7 DEF next_command, Checked
  <2>2. /\ job'.for = job.for /\ job'.id = job.id /\ job'.sw = "9000"
        /\ job'.payload = job.payload
      BY <2>1 DEF Typed, JobType
  <2> QED BY <1>2, <2>1, <2>2 DEF Owned, Fetching, Told
<1>8. CASE send_done
  <2> DEFINE sent == [data |-> job.payload, sw |-> IF job.for = "apdu" THEN job.sw ELSE "9000"]
  <2>1. /\ pc = "check" /\ ~Fetching /\ pc' = "recv" /\ job.for \in {"cbor", "apdu"}
        /\ slot' = <<sent>> /\ Decodes /\ UNCHANGED <<job, call, outcome, answer>>
      BY <1>8 DEF send_done, Exchanged, Last, Checked
  <2>2. job.id = call /\ OfCall(job.payload, call)
      BY <2>1 DEF Located, Owned, Exchanging
  <2>3. sent.sw = "9000" => Whole(job.payload, call)
    <3>1. job.for = "cbor" => job.sw = "9000" /\ job.payload # <<>>
        BY <2>1 DEF Decodes, Failed
    <3> QED BY <2>1, <2>2, <3>1 DEF Owned
  <2>4. slot'[1] = sent /\ sent.data = job.payload
      BY <2>1
  <2> HIDE DEF sent
  <2> QED BY <1>2, <2>1, <2>2, <2>3, <2>4 DEF Owned, Told
<1>9. CASE send_fails
  <2>1. /\ Return(IF Failed THEN ErrorOf ELSE "ResponseDecode", NoAnswer) /\ Exchanging
      BY <1>9 DEF send_fails, Last, Checked, Exchanging
  <2>2. (IF Failed THEN ErrorOf ELSE "ResponseDecode") \in Outcomes \ {"ok"}
      BY DEF ErrorOf, Outcomes
  <2> QED BY <1>3, <2>1, <2>2 DEF Owned, Told
<1>10. CASE recv
  <2>1. Return("ok", slot[1]) /\ Exchanging /\ pc = "recv" /\ "ok" \in Outcomes
      BY <1>10 DEF recv, Located, Exchanging, Outcomes
  <2>2. OfCall(slot[1].data, call) /\ (slot[1].sw = "9000" => Whole(slot[1].data, call))
      BY <2>1 DEF Owned
  <2> QED BY <1>3, <2>1, <2>2 DEF Owned, Told
<1>11. CASE Begin
  <2>1. /\ Begins /\ call' \in Call /\ call' = call + 1 /\ pc' = "transmit"
        /\ UNCHANGED <<outcome, answer>>
      BY <1>11, BeginIs
  <2>2. job'.payload = <<>> /\ job'.sw = "9000"
      BY <2>1, BegunJob
  <2> QED BY <1>2, <2>1, <2>2, Empty DEF Owned, Fetching, OfCall, Told
<1>12. CASE OtherSelects
  <2>1. PICK applet \in {"fido", "other"} :
            cards' = [cards EXCEPT ![chan.reader] = [Card(@.kind) EXCEPT !.applet = applet]]
      BY <1>12 DEF OtherSelects
  <2>2. chan.reader \in Reader /\ UNCHANGED <<chan, pc, job, slot, call, outcome, answer>>
      BY <1>12 DEF OtherSelects, Typed, ChanType, Reader
  <2>3. cards'[chan.reader] = [Card(cards[chan.reader].kind) EXCEPT !.applet = applet]
      BY <2>1, <2>2 DEF Typed
  <2>4. cards'[chan'.reader].rest = <<>>
      BY <2>2, <2>3 DEF Card
  <2>5. Fetching /\ pc \in {"transmit", "check"} /\ job.for # "select" =>
            Begun(job.payload, <<>>, job.id)
      BY Empty DEF Owned, Begun
  <2> QED BY <1>2, <2>2, <2>4, <2>5 DEF Owned, Fetching, Told
<1>13. CASE channel \/ get_nfc_device \/ select_fido2 \/ probe_done \/ drop
  <2>1. Opening
      BY <1>13, OpeningIs
  <2>2. UNCHANGED <<outcome, answer>>
      BY <2>1 DEF Opening
  <2>3. CASE Rests
      BY <1>2, <2>2, <2>3 DEF Rests, Owned, Told
  <2>4. CASE Starts
    <3>1. job'.for = "select" /\ pc' = "transmit"
        BY <2>4 DEF Starts, Start, NoJob
    <3> QED BY <1>2, <2>2, <3>1 DEF Owned, Told
  <2>5. CASE Probes
    <3>1. job'.payload = <<>> /\ job'.sw = "9000" /\ pc' = "transmit"
        BY <2>5 DEF Probes, NoJob
    <3> QED BY <1>2, <2>2, <3>1, Empty DEF Owned, Fetching, OfCall, Told
  <2> QED BY <2>1, <2>3, <2>4, <2>5 DEF Opening
<1>14. CASE UNCHANGED vars
    BY <1>14 DEF vars, Owned, Fetching
<1> QED
    BY <1>4, <1>5, <1>6, <1>7, <1>8, <1>9, <1>10, <1>11, <1>12, <1>13, <1>14 DEF Next

-------------------------------------------------------------------------------
(* A card is given whole requests.                                         *)

(* One more command of a chain. *)
LEMMA OneMoreCommand ==
    ASSUME NEW chain \in Seq(0..MaxCalls), NEW apdus \in Seq(ApduType), apdus # <<>>,
           NEW id \in 0..MaxCalls, NEW counts, counts \subseteq Nat \ {0},
           Chained(chain, apdus, id, counts)
    PROVE  LET all == chain \o apdus[1].data
           IN  /\ all \in Seq(0..MaxCalls) /\ \A i \in DOMAIN all : all[i] = id
               /\ Len(apdus) > 1 => Chained(all, Tail(apdus), id, counts)
               /\ ~(Len(apdus) > 1) => Len(all) \in counts
<1>1. PICK bytes \in counts : \E sent \in 0..ChunksOf(bytes) :
        /\ sent + Len(apdus) = ChunksOf(bytes) /\ Len(chain) = sent * CHUNK
        /\ \A i \in DOMAIN chain : chain[i] = id
        /\ \A i \in DOMAIN apdus : apdus[i] = CtapMsgs(RequestOf(bytes, id))[sent + i]
    BY DEF Chained
<1>2. PICK sent \in 0..ChunksOf(bytes) :
        /\ sent + Len(apdus) = ChunksOf(bytes) /\ Len(chain) = sent * CHUNK
        /\ \A i \in DOMAIN chain : chain[i] = id
        /\ \A i \in DOMAIN apdus : apdus[i] = CtapMsgs(RequestOf(bytes, id))[sent + i]
    BY <1>1
<1> DEFINE k == ChunksOf(bytes)
           msgs == CtapMsgs(RequestOf(bytes, id))
           data == apdus[1].data
           all == chain \o data
           rest == Tail(apdus)
<1>3. bytes \in Nat \ {0} /\ k \in Nat /\ k >= 1 /\ sent \in Nat
    BY ChunksAreCounted
<1>4. ChainIs(msgs, bytes, id)
    BY <1>3, ChainOf
<1>5. /\ Len(apdus) \in Nat /\ Len(apdus) > 0 /\ DOMAIN apdus = 1..Len(apdus)
      /\ rest \in Seq(ApduType) /\ Len(rest) = Len(apdus) - 1
      /\ DOMAIN rest = 1..(Len(apdus) - 1)
      /\ \A i \in 1..(Len(apdus) - 1) : rest[i] = apdus[i + 1]
  <2> HIDE DEF ApduType
  <2> QED BY Split
<1>6. sent + 1 \in 1..k /\ apdus[1] = msgs[sent + 1] /\ (sent + 1 < k <=> Len(apdus) > 1)
    BY <1>2, <1>3, <1>5
<1>7. IsPart(data, IF sent + 1 < k THEN CHUNK ELSE bytes - (sent + 1 - 1) * CHUNK, id)
    BY <1>4, <1>6 DEF ChainIs
<1>8. sent + 1 - 1 = sent
    BY <1>3
<1> HIDE DEF data, msgs, k, rest
<1>9. data \in Seq(0..MaxCalls) /\ \A i \in DOMAIN data : data[i] = id
    BY <1>7 DEF IsPart
<1>10. Len(data) = IF sent + 1 < k THEN CHUNK ELSE bytes - sent * CHUNK
    BY <1>7, <1>8 DEF IsPart
<1>11. /\ all \in Seq(0..MaxCalls) /\ Len(all) = Len(chain) + Len(data)
       /\ Len(chain) \in Nat /\ Len(data) \in Nat
       /\ DOMAIN all = 1..(Len(chain) + Len(data))
       /\ \A i \in 1..(Len(chain) + Len(data)) :
            all[i] = IF i <= Len(chain) THEN chain[i] ELSE data[i - Len(chain)]
    BY <1>9, Joined
<1>12. DOMAIN chain = 1..Len(chain) /\ DOMAIN data = 1..Len(data)
    BY <1>9
<1> HIDE DEF all
<1>13. ASSUME NEW i \in DOMAIN all PROVE all[i] = id
  <2>1. CASE i <= Len(chain)
    <3>1. i \in DOMAIN chain /\ all[i] = chain[i]
        BY <1>11, <1>12, <2>1
    <3> QED BY <1>2, <3>1
  <2>2. CASE ~(i <= Len(chain))
    <3>1. i - Len(chain) \in DOMAIN data /\ all[i] = data[i - Len(chain)]
        BY <1>11, <1>12, <2>2
    <3> QED BY <1>9, <3>1
  <2> QED BY <2>1, <2>2
<1>14. sent * CHUNK \in Nat /\ (sent + 1) * CHUNK = sent * CHUNK + CHUNK
    BY <1>3, NfcAssumption, Z3
<1>15. ASSUME Len(apdus) > 1 PROVE Chained(all, rest, id, counts)
  <2>1. sent + 1 \in 0..k /\ sent + 1 + Len(rest) = k
      BY <1>2, <1>3, <1>5, <1>15 DEF k
  <2>2. Len(all) = (sent + 1) * CHUNK
      BY <1>2, <1>6, <1>10, <1>11, <1>14, <1>15
  <2>3. ASSUME NEW i \in DOMAIN rest PROVE rest[i] = msgs[(sent + 1) + i]
    <3>1. i \in Nat /\ i + 1 \in DOMAIN apdus /\ rest[i] = apdus[i + 1]
        BY <1>5
    <3>2. sent + (i + 1) = (sent + 1) + i
        BY <1>3, <3>1
    <3> QED BY <1>2, <3>1, <3>2 DEF msgs
  <2> QED BY <1>13, <2>1, <2>2, <2>3 DEF Chained, k, msgs
<1>16. ASSUME ~(Len(apdus) > 1) PROVE Len(all) \in counts
  <2>1. Len(all) = bytes
      BY <1>2, <1>3, <1>6, <1>10, <1>11, <1>14, <1>16
  <2> QED BY <2>1
<1> QED
    BY <1>11, <1>13, <1>15, <1>16 DEF all, data, rest

LEMMA SentInit == Init => Sent
<1> SUFFICES ASSUME Init PROVE Sent
    OBVIOUS
<1>1. /\ chan.reader = 0 /\ executed = {}
      /\ cards \in [Reader -> {Card(kind) : kind \in Kinds}]
    BY DEF Init, NoChannel
<1>2. \A kind \in Kinds : Card(kind).chain = <<>>
    BY CardsAreTyped, NfcAssumption
<1>3. \A r \in Reader : cards[r].chain = <<>>
    BY <1>1, <1>2
<1> QED
    BY <1>1, <1>3 DEF Sent, RequestsAreWhole

(* A chain is under way. *)
Chaining ==
    /\ pc \in {"transmit", "check"} /\ job.for \in {"cbor", "probe"}
    /\ job.apdus # <<>> /\ ~Failed /\ ~Fetching

Elsewhere == \A r \in Reader : r # chan.reader => cards[r].chain = <<>>

SentHere ==
    chan.reader # 0 /\ ~broken =>
        IF Chaining THEN Chained(cards[chan.reader].chain, job.apdus, job.id, Sizes)
        ELSE cards[chan.reader].chain = <<>>

LEMMA SentIs == Sent <=> Elsewhere /\ SentHere /\ RequestsAreWhole
    BY Zenon DEF Sent, Elsewhere, SentHere, Chaining

LEMMA SentWillBe == Elsewhere' /\ SentHere' /\ RequestsAreWhole' => Sent'
    BY Zenon DEF Sent, Elsewhere, SentHere, Chaining

LEMMA SizesAreSizes == Sizes \subseteq Nat \ {0}
    BY NfcAssumption DEF Sizes

LEMMA SentTransmit == ASSUME Typed, Located, Sent, transmit PROVE Sent'
<1>1. PICK response \in Responses(cards[chan.reader], ToTransmit) :
        /\ cards' = [cards EXCEPT ![chan.reader] = response.card]
        /\ job' = [job EXCEPT !.apdus = IF Fetching THEN @ ELSE Tail(@),
                              !.payload = IF Fetching THEN @ \o response.payload
                                          ELSE response.payload,
                              !.sw = response.sw]
        /\ executed' = IF ToTransmit.ins = "CTAPMSG" /\ ~ToTransmit.more /\ response.sw # "error"
                       THEN {[data |-> cards[chan.reader].chain \o ToTransmit.data,
                              id |-> job.id, broken |-> broken]}
                       ELSE executed
    BY DEF transmit
<1>2. pc = "transmit" /\ pc' = "check" /\ UNCHANGED <<chan, broken>>
    BY DEF transmit
<1>3. /\ response.card \in CardType /\ response.sw \in {"9000", "61", "error"}
      /\ chan.reader \in Reader /\ cards[chan.reader] \in CardType /\ chan.reader # 0
      /\ job.id \in 0..MaxCalls
    BY <1>1, <1>2, ResponsesHere, Transmitting, NfcAssumption DEF Reader
<1>4. /\ cards'[chan'.reader] = response.card
      /\ \A r \in Reader : r # chan.reader => cards'[r] = cards[r]
    BY <1>1, <1>2, <1>3, OneCardChanges
<1>5. /\ job'.for = job.for /\ job'.id = job.id /\ job'.sw = response.sw
      /\ job'.apdus = IF Fetching THEN job.apdus ELSE Tail(job.apdus)
    BY <1>1 DEF Typed, JobType
<1>6. Elsewhere /\ SentHere /\ RequestsAreWhole
    BY SentIs
<1>7. Elsewhere'
    BY <1>2, <1>4, <1>6 DEF Elsewhere
<1>8. SUFFICES SentHere' /\ RequestsAreWhole'
    BY <1>7, SentWillBe
<1> DEFINE chain == cards[chan.reader].chain
<1>9. chain \in Seq(0..MaxCalls)
    BY <1>3 DEF CardType
<1>10. CASE Fetching
  <2>1. job.apdus = <<>> /\ ToTransmit.ins = "GETRESPONSE"
      BY <1>2, <1>10, Transmitting DEF Located
  <2>2. ~broken => chain = <<>>
      BY <1>3, <1>6, <1>10 DEF SentHere, Chaining
  <2>3. response.card.chain \in {chain, <<>>}
    <3>1. \/ response.card.chain = <<>>
          \/ response.card =
               [cards[chan.reader] EXCEPT !.rest = Tail(cards[chan.reader].rest)]
        BY <1>1, <1>3, <2>1, FetchResponses
    <3> QED BY <1>3, <3>1 DEF CardType
  <2>4. ~Chaining' /\ executed' = executed
      BY <1>1, <1>5, <1>10, <2>1 DEF Chaining
  <2> QED BY <1>2, <1>4, <1>6, <2>2, <2>3, <2>4 DEF SentHere, RequestsAreWhole
<1>11. CASE ~Fetching /\ job.for \notin {"cbor", "probe"}
  <2>1. response.card.chain = <<>>
      BY <1>1, <1>2, <1>11, ResponsesHere
  <2>2. ~Chaining'
      BY <1>5, <1>11 DEF Chaining
  <2>3. ToTransmit.ins # "CTAPMSG"
    <3>1. ToTransmit.ins = InsOf(job.for) /\ job.for \in {"select", "apdu"}
        BY <1>2, <1>11, Transmitting DEF Located, Typed, JobType
    <3> QED BY <3>1 DEF InsOf
  <2>4. executed' = executed
      BY <1>1, <2>3
  <2> QED BY <1>2, <1>4, <1>6, <2>1, <2>2, <2>4 DEF SentHere, RequestsAreWhole
<1>12. CASE ~Fetching /\ job.for \in {"cbor", "probe"}
  <2> DEFINE all == chain \o ToTransmit.data
  <2>1. /\ job.apdus # <<>> /\ ToTransmit = job.apdus[1] /\ ToTransmit \in ApduType
        /\ ToTransmit.ins = InsOf(job.for) /\ job.apdus \in Seq(ApduType)
        /\ ToTransmit.more <=> Len(job.apdus) > 1
        /\ Tail(job.apdus) \in Seq(ApduType)
      BY <1>2, <1>12, Transmitting
  <2>2. ToTransmit.ins = "CTAPMSG"
      BY <1>12, <2>1 DEF InsOf
  <2>3. response.card.chain = IF ToTransmit.more /\ response.sw # "error" THEN all ELSE <<>>
      BY <1>3, <2>1, <2>2, CommandResponses
  <2>4. Chaining
      BY <1>2, <1>12, <2>1 DEF Chaining, Located, Failed, Fetching
  <2>5. ASSUME ~broken
        PROVE  /\ \A i \in DOMAIN all : all[i] = job.id
               /\ ToTransmit.more => Chained(all, Tail(job.apdus), job.id, Sizes)
               /\ ~ToTransmit.more => Len(all) \in Sizes
    <3>1. Chained(chain, job.apdus, job.id, Sizes)
        BY <1>3, <1>6, <2>4, <2>5 DEF SentHere
    <3> DEFINE joined == chain \o job.apdus[1].data
    <3>2. /\ \A i \in DOMAIN joined : joined[i] = job.id
          /\ Len(job.apdus) > 1 => Chained(joined, Tail(job.apdus), job.id, Sizes)
          /\ ~(Len(job.apdus) > 1) => Len(joined) \in Sizes
      <4> HIDE DEF ApduType, chain, Sizes
      <4> QED BY <1>3, <1>9, <2>1, <3>1, OneMoreCommand, SizesAreSizes
    <3>3. joined = all
        BY <2>1
    <3> HIDE DEF joined, all
    <3> QED BY <2>1, <3>2, <3>3, Zenon
  <2> HIDE DEF all, chain
  <2>6. RequestsAreWhole'
    <3>1. CASE ToTransmit.more \/ response.sw = "error"
        BY <1>1, <1>6, <3>1 DEF RequestsAreWhole
    <3>2. CASE ~ToTransmit.more /\ response.sw # "error"
      <4>1. executed' = {[data |-> all, id |-> job.id, broken |-> broken]}
          BY <1>1, <2>2, <3>2 DEF all, chain
      <4>2. job.for = "probe" => job.id = 0
          BY DEF Located
      <4>3. ~broken => Len(all) \in RequestSizes \/ job.id = 0
          BY <1>12, <2>5, <3>2, <4>2 DEF Sizes
      <4>4. CASE broken
          BY <4>1, <4>4 DEF RequestsAreWhole
      <4>5. CASE ~broken
          BY <2>5, <4>1, <4>3, <4>5 DEF RequestsAreWhole
      <4> QED BY <4>4, <4>5
    <3> QED BY <3>1, <3>2
  <2>7. SentHere'
    <3>1. CASE ToTransmit.more /\ response.sw = "9000"
      <4>1. ~broken => Chained(response.card.chain, job'.apdus, job'.id, Sizes)
          BY <1>5, <1>12, <2>3, <2>5, <3>1
      <4>2. Sizes' = Sizes
          BY <1>5 DEF Sizes
      <4>3. Chaining'
        <5>1. Len(job.apdus) > 1
            BY <2>1, <3>1, Zenon
        <5>2. Tail(job.apdus) # <<>>
          <6> DEFINE rest == Tail(job.apdus)
          <6>1. Len(rest) = Len(job.apdus) - 1 /\ Len(job.apdus) \in Nat
            <7> HIDE DEF ApduType
            <7> QED BY <2>1, Split
          <6> HIDE DEF rest
          <6>2. rest # <<>>
              BY <5>1, <6>1, Empty
          <6> QED BY <6>2 DEF rest
        <5> QED BY <1>2, <1>5, <1>12, <3>1, <5>2 DEF Chaining, Failed, Fetching
      <4> QED BY <1>2, <1>4, <4>1, <4>2, <4>3 DEF SentHere
    <3>2. CASE ~(ToTransmit.more /\ response.sw = "9000")
      <4>1. response.sw = "61" => ~ToTransmit.more
          BY <1>3, <2>1, <2>2, CommandResponses
      <4>2. response.card.chain = <<>>
          BY <1>3, <2>3, <3>2, <4>1
      <4>3. ~Chaining'
        <5>1. CASE response.sw # "9000"
            BY <1>5, <5>1 DEF Chaining, Failed
        <5>2. CASE ~ToTransmit.more
          <6>1. ~(Len(job.apdus) > 1)
              BY <2>1, <5>2, Zenon
          <6> DEFINE rest == Tail(job.apdus)
          <6>2. /\ Len(rest) = Len(job.apdus) - 1 /\ Len(job.apdus) \in Nat
                /\ Len(job.apdus) > 0 /\ rest \in Seq(ApduType)
            <7> HIDE DEF ApduType
            <7> QED BY <2>1, Split
          <6> HIDE DEF rest, ApduType
          <6>3. rest # <<>> => Len(rest) > 0
              BY <6>2, Split
          <6>4. rest = <<>>
              BY <6>1, <6>2, <6>3
          <6> QED BY <1>5, <1>12, <6>4 DEF Chaining, rest
        <5> QED BY <3>2, <5>1, <5>2
      <4> QED BY <1>2, <1>4, <4>2, <4>3 DEF SentHere
    <3> QED BY <3>1, <3>2
  <2> QED BY <2>6, <2>7
<1> QED
    BY <1>10, <1>11, <1>12

LEMMA ChainStarts ==
    ASSUME NEW counts, NEW len \in counts, len \in Nat \ {0}, NEW id \in 0..MaxCalls,
           NEW apdus, apdus = CtapMsgs(RequestOf(len, id))
    PROVE  Chained(<<>>, apdus, id, counts)
<1> DEFINE k == ChunksOf(len)
           msgs == CtapMsgs(RequestOf(len, id))
<1>1. ChainIs(msgs, len, id)
    BY ChainOf
<1>2. k \in Nat /\ Len(msgs) = k /\ DOMAIN msgs = 1..k
    BY <1>1, ChunksAreCounted DEF ChainIs
<1> HIDE DEF msgs, k
<1>3. apdus = msgs
    BY DEF msgs
<1>4. 0 \in 0..k /\ 0 + Len(msgs) = k /\ 0 * CHUNK = 0
    BY <1>2, NfcAssumption
<1>5. \A i \in DOMAIN msgs : msgs[i] = msgs[0 + i]
    BY <1>2
<1>6. \E sent \in 0..k :
        /\ sent + Len(msgs) = k /\ Len(<<>>) = sent * CHUNK
        /\ \A i \in DOMAIN <<>> : <<>>[i] = id
        /\ \A i \in DOMAIN msgs : msgs[i] = msgs[sent + i]
  <2>1. Len(<<>>) = 0 * CHUNK /\ \A i \in DOMAIN <<>> : <<>>[i] = id
      BY <1>4, Empty
  <2> QED BY <1>4, <1>5, <2>1
<1> QED
    BY <1>3, <1>6, ZenonT(40) DEF Chained, k, msgs

LEMMA SentBegin == ASSUME Typed, Located, Sent, Begin PROVE Sent'
<1>1. /\ Begins /\ call' \in Call /\ call' = call + 1 /\ pc = "idle" /\ pc' = "transmit"
      /\ UNCHANGED <<cards, chan, executed, broken>>
    BY BeginIs
<1>2. Elsewhere /\ SentHere /\ RequestsAreWhole
    BY SentIs
<1>3. Elsewhere' /\ RequestsAreWhole'
    BY <1>1, <1>2 DEF Elsewhere, RequestsAreWhole
<1>4. chan.reader # 0 /\ ~broken => cards[chan.reader].chain = <<>>
    BY <1>1, <1>2 DEF SentHere, Chaining
<1>5. job'.id = call + 1 /\ job'.for \in {"cbor", "apdu"} /\ job'.sw = "9000" /\ job'.apdus # <<>>
    BY <1>1, BegunJob
<1>6. CASE \E len \in RequestSizes :
            job' = Made("cbor", 0, call + 1, CtapMsgs(RequestOf(len, call + 1)))
  <2>1. PICK len \in RequestSizes :
            job' = Made("cbor", 0, call + 1, CtapMsgs(RequestOf(len, call + 1)))
      BY <1>6
  <2>2. job'.for = "cbor" /\ job'.apdus = CtapMsgs(RequestOf(len, call + 1))
      BY <2>1 DEF Made
  <2>3. len \in Nat \ {0} /\ call + 1 \in 0..MaxCalls
      BY <1>1, NfcAssumption DEF Call
  <2>4. Chained(<<>>, job'.apdus, job'.id, RequestSizes)
      BY <1>5, <2>2, <2>3, ChainStarts
  <2>5. Sizes' = RequestSizes /\ Chaining'
      BY <1>1, <1>5, <2>2 DEF Sizes, Chaining, Failed, Fetching
  <2>6. SentHere'
      BY <1>1, <1>4, <2>4, <2>5 DEF SentHere
  <2> QED BY <1>3, <2>6, SentWillBe
<1>7. CASE job' = Made("apdu", 0, call + 1, <<U2fApdu(call + 1)>>)
  <2>1. job'.for = "apdu"
      BY <1>7 DEF Made
  <2>2. SentHere'
      BY <1>1, <1>4, <2>1 DEF SentHere, Chaining
  <2> QED BY <1>3, <2>2, SentWillBe
<1> QED
    BY <1>1, <1>6, <1>7 DEF Begins

LEMMA SentOpening == ASSUME Typed, Located, Sent, Opening PROVE Sent'
<1>1. Elsewhere /\ SentHere /\ RequestsAreWhole
    BY SentIs
<1>2. executed' = executed /\ RequestsAreWhole'
    BY <1>1 DEF Opening, RequestsAreWhole
<1>3. chan.reader # 0 /\ ~broken => cards[chan.reader].chain = <<>>
    BY <1>1 DEF Opening, Last, SentHere, Chaining
<1>4. cards' = [cards EXCEPT ![chan.reader] = Reset(@)] =>
        \A r \in Reader : cards'[r].chain = <<>>
  <2> SUFFICES ASSUME cards' = [cards EXCEPT ![chan.reader] = Reset(@)], NEW r \in Reader
               PROVE  cards'[r].chain = <<>>
      OBVIOUS
  <2>1. CASE r = chan.reader
    <3>1. cards[r] \in CardType
        BY DEF Typed
    <3>2. Reset(cards[r]).chain = <<>> /\ Reset(cards[r]) \in CardType
        BY <3>1, ResetIsTyped
    <3>3. cards' = [cards EXCEPT ![chan.reader] = Reset(cards[r])]
        BY <2>1
    <3>4. cards'[r] = Reset(cards[r])
        BY <2>1, <3>2, <3>3, OneCardChanges
    <3> QED BY <3>2, <3>4
  <2>2. CASE r # chan.reader
    <3>1. cards'[r] = cards[r]
      <4>1. cards \in [Reader -> CardType]
          BY DEF Typed
      <4> HIDE DEF CardType
      <4> QED BY <2>2, <4>1
    <3> QED BY <1>1, <2>2, <3>1 DEF Elsewhere
  <2> QED BY <2>1, <2>2
<1>5. CASE Rests
  <2>1. CASE /\ chan' \in ChanType /\ chan'.reader = chan.reader /\ UNCHANGED <<cards, broken>>
    <3>1. Elsewhere' /\ SentHere'
        BY <1>1, <1>3, <1>5, <2>1 DEF Rests, Elsewhere, SentHere, Chaining
    <3> QED BY <1>2, <3>1, SentWillBe
  <2>2. CASE /\ chan' = NoChannel /\ cards' = [cards EXCEPT ![chan.reader] = Reset(@)]
    <3>1. Elsewhere' /\ SentHere'
        BY <1>4, <2>2 DEF Elsewhere, SentHere, NoChannel
    <3> QED BY <1>2, <3>1, SentWillBe
  <2> QED BY <1>5, <2>1, <2>2 DEF Rests
<1>6. CASE Starts
  <2>1. PICK reader \in Reader, finding \in 0..Readers : Start(reader, finding)
      BY <1>6 DEF Starts
  <2>2. job'.for = "select" /\ chan'.reader \in Reader
      BY <2>1 DEF Start, NoJob
  <2>3. \A r \in Reader : cards'[r].chain = <<>>
    <3>1. CASE chan.reader = 0 /\ UNCHANGED cards
        BY <1>1, <3>1 DEF Elsewhere, Reader
    <3> QED BY <1>4, <1>6, <3>1 DEF Starts
  <2>4. Elsewhere' /\ SentHere'
      BY <2>2, <2>3 DEF Elsewhere, SentHere, Chaining
  <2> QED BY <1>2, <2>4, SentWillBe
<1>7. CASE Probes
  <2>1. /\ job'.for = "probe" /\ job'.id = 0 /\ job'.apdus = CtapMsgs(<<0>>) /\ job'.sw = "9000"
        /\ pc' = "transmit" /\ UNCHANGED <<cards, chan, broken>>
      BY <1>7 DEF Probes, NoJob
  <2>2. <<0>> = RequestOf(1, 0) /\ ChainIs(CtapMsgs(<<0>>), 1, 0)
      BY ProbeIsAChain
  <2>3. Chained(<<>>, CtapMsgs(<<0>>), 0, {1})
    <3>1. 1 \in {1} /\ 1 \in Nat \ {0} /\ 0 \in 0..MaxCalls
        BY NfcAssumption
    <3>2. CtapMsgs(<<0>>) = CtapMsgs(RequestOf(1, 0))
        BY <2>2
    <3> QED BY <3>1, <3>2, ChainStarts
  <2>4. Sizes' = {1}
      BY <2>1 DEF Sizes
  <2>5. job'.apdus # <<>>
    <3>1. DOMAIN CtapMsgs(<<0>>) = 1..ChunksOf(1) /\ ChunksOf(1) \in Nat /\ ChunksOf(1) >= 1
        BY <2>2, ChunksAreCounted DEF ChainIs
    <3> QED BY <2>1, <3>1, Empty
  <2>6. Chaining'
      BY <2>1, <2>5 DEF Chaining, Failed, Fetching
  <2>7. Elsewhere' /\ SentHere'
      BY <1>1, <1>3, <2>1, <2>3, <2>4, <2>6 DEF Elsewhere, SentHere
  <2> QED BY <1>2, <2>7, SentWillBe
<1> QED
    BY <1>5, <1>6, <1>7 DEF Opening

LEMMA SentNext == ASSUME Typed, Located, Sent, [Next]_vars PROVE Sent'
<1>1. Elsewhere /\ SentHere /\ RequestsAreWhole
    BY SentIs
<1>2. ASSUME UNCHANGED <<cards, chan, broken, executed>>, ~Chaining, ~Chaining' PROVE Sent'
  <2>1. Elsewhere' /\ SentHere' /\ RequestsAreWhole'
      BY <1>1, <1>2 DEF Elsewhere, SentHere, RequestsAreWhole
  <2> QED BY <2>1, SentWillBe
<1>3. ASSUME NEW card, cards' = [cards EXCEPT ![chan.reader] = card], broken' = TRUE,
             UNCHANGED <<chan, executed>>
      PROVE  Sent'
  <2>1. cards \in [Reader -> CardType]
      BY DEF Typed
  <2> HIDE DEF CardType
  <2>2. \A r \in Reader : r # chan.reader => cards'[r] = cards[r]
      BY <1>3, <2>1
  <2>3. Elsewhere' /\ SentHere' /\ RequestsAreWhole'
      BY <1>1, <1>3, <2>2 DEF Elsewhere, SentHere, RequestsAreWhole
  <2> QED BY <2>3, SentWillBe
<1>4. CASE transmit
    BY <1>4, SentTransmit
<1>5. CASE transmit_fails
  <2>1. broken' = TRUE /\ UNCHANGED <<chan, executed>>
      BY <1>5 DEF transmit_fails
  <2>2. CASE UNCHANGED cards
    <3>1. Elsewhere' /\ SentHere' /\ RequestsAreWhole'
        BY <1>1, <2>1, <2>2 DEF Elsewhere, SentHere, RequestsAreWhole
    <3> QED BY <3>1, SentWillBe
  <2>3. CASE \E response \in Responses(cards[chan.reader], ToTransmit) :
               cards' = [cards EXCEPT ![chan.reader] = response.card]
      BY <1>3, <2>1, <2>3
  <2> QED BY <1>5, <2>2, <2>3 DEF transmit_fails
<1>6. CASE fetch_more
    BY <1>2, <1>6 DEF fetch_more, Chaining, Fetching
<1>7. CASE next_command
  <2>1. /\ pc = "check" /\ pc' = "transmit" /\ job' = [job EXCEPT !.sw = "9000"]
        /\ UNCHANGED <<cards, chan, executed, broken>> /\ job.apdus # <<>>
        /\ job.for \in {"cbor", "probe"} /\ ~Fetching /\ ~Failed
      BY <1>7 DEF next_command, Checked, ChainGoesOn
  <2>2. /\ job'.for = job.for /\ job'.id = job.id /\ job'.sw = "9000"
        /\ job'.apdus = job.apdus
      BY <2>1 DEF Typed, JobType
  <2>3. Chaining /\ Chaining' /\ Sizes' = Sizes
      BY <2>1, <2>2 DEF Chaining, Failed, Fetching, Sizes
  <2>4. Elsewhere' /\ SentHere' /\ RequestsAreWhole'
      BY <1>1, <2>1, <2>2, <2>3 DEF Elsewhere, SentHere, RequestsAreWhole
  <2> QED BY <2>4, SentWillBe
<1>8. CASE send_done
    BY <1>2, <1>8 DEF send_done, Exchanged, Last, Chaining
<1>9. CASE send_fails
    BY <1>2, <1>9 DEF send_fails, Exchanged, Last, Chaining, Return
<1>10. CASE recv
    BY <1>2, <1>10 DEF recv, Exchanged, Chaining, Return
<1>11. CASE Begin
    BY <1>11, SentBegin
<1>12. CASE OtherSelects
  <2>1. PICK applet \in {"fido", "other"} :
            cards' = [cards EXCEPT ![chan.reader] = [Card(@.kind) EXCEPT !.applet = applet]]
      BY <1>12 DEF OtherSelects
  <2>2. broken' = TRUE /\ UNCHANGED <<chan, executed>>
      BY <1>12 DEF OtherSelects
  <2> QED BY <1>3, <2>1, <2>2
<1>13. CASE channel \/ get_nfc_device \/ select_fido2 \/ probe_done \/ drop
    BY <1>13, OpeningIs, SentOpening
<1>14. CASE UNCHANGED vars
  <2>1. Elsewhere' /\ SentHere' /\ RequestsAreWhole'
      BY <1>1, <1>14 DEF vars, Elsewhere, SentHere, RequestsAreWhole, Chaining, Failed, Fetching, Sizes
  <2> QED BY <2>1, SentWillBe
<1> QED
    BY <1>4, <1>5, <1>6, <1>7, <1>8, <1>9, <1>10, <1>11, <1>12, <1>13, <1>14 DEF Next

-------------------------------------------------------------------------------
(* The theorems.                                                           *)

LEMMA IInvInit == Init => IInv
    BY TypedInit, LocatedInit, OwnedInit, SentInit DEF IInv

LEMMA IInvNext == IInv /\ [Next]_vars => IInv'
    BY TypedNext, LocatedNext, OwnedNext, SentNext DEF IInv

LEMMA Invariance == Spec => []IInv
    BY IInvInit, IInvNext, PTL DEF Spec

(* The types, and that the slot is empty between calls, so that no call is *)
(* given what another left there (channel.rs:261-319).                     *)
THEOREM NfcTypesAreCorrect == Spec => []TypeOK
<1>1. IInv => TypeOK
    BY TypedHasTypes DEF IInv
<1> QED
    BY <1>1, Invariance, PTL

(* A call is given its own answer, all of it and nothing else, however     *)
(* many responses it took, whatever failed before and whatever another     *)
(* program selected in between (channel.rs:168-213).                       *)
THEOREM AnswersAreOwn == Spec => []OwnAnswers
<1>1. IInv => OwnAnswers
    BY DEF IInv, Owned, Whole, OwnAnswers
<1> QED
    BY <1>1, Invariance, PTL

(* A card executes what one call sent, whole, on a channel whose chain no  *)
(* failed transmission and no other program disturbed (channel.rs:266-313).*)
THEOREM RequestsStayWhole == Spec => []RequestsAreWhole
<1>1. IInv => RequestsAreWhole
    BY DEF IInv, Sent
<1> QED
    BY <1>1, Invariance, PTL

(* The channel keeps the promise of Exchange, of which every call's answer *)
(* is its own.                                                             *)
Ending(end) == IF end \in {"none", "ok"} THEN end ELSE "failed"

Promise ==
    INSTANCE Exchange WITH
        result <- [c \in Call |-> Ending(outcome[c])], given <- [c \in Call |-> Gave(c)]

LEMMA GaveOwn ==
    ASSUME IInv, NEW c \in Call
    PROVE  Gave(c) = IF outcome[c] = "ok" THEN c ELSE 0
<1>1. CASE outcome[c] = "ok"
  <2>1. answer[c].data \in Seq(Part) /\ OfCall(answer[c].data, c)
      BY <1>1 DEF IInv, Typed, Owned, SlotType
  <2>2. answer[c].data # <<>> => 1 \in DOMAIN answer[c].data
    <3> HIDE DEF Part
    <3> QED BY <2>1, Split
  <2> QED BY <1>1, <2>1, <2>2 DEF Gave, OfCall
<1>2. CASE outcome[c] # "ok"
    BY <1>2 DEF Gave
<1> QED
    BY <1>1, <1>2

LEMMA GaveWillBeOwn ==
    ASSUME IInv', NEW c \in Call
    PROVE  Gave(c)' = IF outcome'[c] = "ok" THEN c ELSE 0
<1>1. CASE outcome'[c] = "ok"
  <2>1. answer'[c].data \in Seq(Part) /\ OfCall(answer'[c].data, c)
      BY <1>1 DEF IInv, Typed, Owned, SlotType
  <2>2. answer'[c].data # <<>> => 1 \in DOMAIN answer'[c].data
    <3> HIDE DEF Part
    <3> QED BY <2>1, Split
  <2> QED BY <1>1, <2>1, <2>2 DEF Gave, OfCall
<1>2. CASE outcome'[c] # "ok"
    BY <1>2 DEF Gave
<1> QED
    BY <1>1, <1>2

LEMMA PromiseInit == Init => Promise!Init
<1> SUFFICES ASSUME Init PROVE Promise!Init
    OBVIOUS
<1>1. \A c \in Call : outcome[c] = "none"
    BY DEF Init
<1>2. \A c \in Call : Ending(outcome[c]) = "none" /\ Gave(c) = 0
    BY <1>1 DEF Ending, Gave
<1>3. Promise!Call = Call
    BY DEF Promise!Call, Call
<1> QED
    BY <1>2, <1>3 DEF Promise!Init

(* A call that returns is the current one of Exchange, and ends there.     *)
LEMMA PromiseEnds ==
    ASSUME IInv, IInv', Exchanging, NEW end \in Outcomes \ {"none"},
           outcome' = [outcome EXCEPT ![call] = end]
    PROVE  Promise!Next
<1> DEFINE before == [c \in Call |-> Ending(outcome[c])]
           gave == [c \in Call |-> Gave(c)]
<1>1. call \in Call /\ \A c \in Call : outcome[c] = "none" <=> (c > call \/ c = call)
    BY DEF IInv, Located
<1>2. outcome \in [Call -> Outcomes]
    BY DEF IInv, Typed
<1>3. outcome'[call] = end /\ \A c \in Call : c # call => outcome'[c] = outcome[c]
    BY <1>1, <1>2
<1>4. \A c \in Call : /\ Gave(c) = IF outcome[c] = "ok" THEN c ELSE 0
                      /\ Gave(c)' = IF outcome'[c] = "ok" THEN c ELSE 0
  <2>1. \A c \in Call : Gave(c) = IF outcome[c] = "ok" THEN c ELSE 0
      BY GaveOwn
  <2>2. \A c \in Call : Gave(c)' = IF outcome'[c] = "ok" THEN c ELSE 0
      BY GaveWillBeOwn
  <2> QED BY <2>1, <2>2
<1>5. Promise!Call = Call
    BY DEF Promise!Call, Call
<1>6. Promise!Current(call)
  <2>1. Ending(outcome[call]) = "none"
      BY <1>1 DEF Ending
  <2>2. \A d \in Call : d < call => Ending(outcome[d]) # "none"
      BY <1>1 DEF Ending, Call
  <2> QED BY <1>1, <1>5, <2>1, <2>2 DEF Promise!Current
<1>7. CASE end = "ok"
  <2>1. [c \in Call |-> Ending(outcome'[c])] = [before EXCEPT ![call] = "ok"]
      BY <1>1, <1>3, <1>7 DEF Ending
  <2>2. [c \in Call |-> Gave(c)'] = [gave EXCEPT ![call] = call]
      BY <1>1, <1>3, <1>4, <1>7
  <2>3. Promise!ForTaking(call, call)
    <3>1. ASSUME NEW d \in Call PROVE gave[d] # call
      <4>1. gave[d] = IF outcome[d] = "ok" THEN d ELSE 0
          BY <1>4
      <4>2. outcome[call] = "none" /\ call # 0
          BY <1>1 DEF Call
      <4> QED BY <4>1, <4>2
    <3> QED BY <1>1, <1>5, <3>1 DEF Promise!ForTaking, Call
  <2>4. Promise!Succeed(call)
      BY <1>1, <1>5, <1>6, <2>1, <2>2, <2>3 DEF Promise!Succeed
  <2> QED BY <1>1, <1>5, <2>4 DEF Promise!Next
<1>8. CASE end # "ok"
  <2>1. [c \in Call |-> Ending(outcome'[c])] = [before EXCEPT ![call] = "failed"]
      BY <1>1, <1>3, <1>8 DEF Ending
  <2>2. [c \in Call |-> Gave(c)'] = gave
      BY <1>1, <1>3, <1>4, <1>8
  <2>3. Promise!Fail(call)
      BY <1>1, <1>5, <1>6, <2>1, <2>2 DEF Promise!Fail
  <2> QED BY <1>1, <1>5, <2>3 DEF Promise!Next
<1> QED
    BY <1>7, <1>8

LEMMA PromiseNext ==
    IInv /\ IInv' /\ [Next]_vars => [Promise!Next]_Promise!vars
<1> SUFFICES ASSUME IInv, IInv', [Next]_vars PROVE [Promise!Next]_Promise!vars
    OBVIOUS
<1>1. ASSUME UNCHANGED <<outcome, answer>> PROVE UNCHANGED Promise!vars
  <2>1. \A c \in Call : Gave(c)' = Gave(c) /\ Ending(outcome[c])' = Ending(outcome[c])
      BY <1>1 DEF Gave, Ending
  <2> QED BY <2>1 DEF Promise!vars
<1>2. CASE send_fails
  <2>1. /\ outcome' = [outcome EXCEPT ![call] = IF Failed THEN ErrorOf ELSE "ResponseDecode"]
        /\ Exchanging
      BY <1>2 DEF send_fails, Return, Last, Checked, Exchanging
  <2>2. (IF Failed THEN ErrorOf ELSE "ResponseDecode") \in Outcomes \ {"none"}
      BY DEF ErrorOf, Outcomes
  <2> QED BY <2>1, <2>2, PromiseEnds
<1>3. CASE recv
  <2>1. outcome' = [outcome EXCEPT ![call] = "ok"] /\ Exchanging
      BY <1>3 DEF recv, Return, IInv, Located, Exchanging
  <2>2. "ok" \in Outcomes \ {"none"}
      BY DEF Outcomes
  <2> QED BY <2>1, <2>2, PromiseEnds
<1>4. CASE transmit \/ transmit_fails \/ fetch_more \/ next_command \/ send_done
    BY <1>1, <1>4 DEF transmit, transmit_fails, fetch_more, next_command, send_done
<1>5. CASE channel \/ get_nfc_device \/ select_fido2 \/ probe_done \/ drop \/ Begin \/ OtherSelects
    BY <1>1, <1>5 DEF channel, get_nfc_device, select_fido2, probe_done, drop, Begin, OtherSelects
<1>6. CASE UNCHANGED vars
    BY <1>1, <1>6 DEF vars
<1> QED
    BY <1>2, <1>3, <1>4, <1>5, <1>6 DEF Next

(* Calls over NFC end in the order they were made, and one that succeeds   *)
(* has its own answer, which no other call is given (channel.rs:168-319).  *)
THEOREM KeepsThePromise == Spec => Promise!Spec
    BY Invariance, PromiseInit, PromiseNext, PTL DEF Spec, Promise!Spec


-------------------------------------------------------------------------------
(* Bluetooth.  Fragments are told apart by their position alone, and who begins in the *)
(* middle of a message takes a continuation fragment for an initial one if *)
(* its number is that of a command.  In the code the 130th, numbered 129,  *)
(* is the first that may be (framing.rs:24), so this speaks of messages    *)
(* shorter than that: 2400 bytes over the smallest control points of 20.   *)
NumbersAreNoCommands ==
    \A bytes \in BleRequestSizes \cup AnswerSizes \cup {0, 1}, max \in ControlPoints :
        Ble!MayFragment(max) =>
            \A k \in 1..Ble!ContinuationsOf(Ble!Frame(Ble!Msg, [i \in 1..bytes |-> 0]), max) :
                (k - 1) % BYTE \notin Ble!BleCommand

(* The inductive invariant.  First the types of what TypeOK leaves open: a *)
(* fragment fits the device, and the initial one of an answer carries the  *)
(* number of its call behind the header.                                   *)

FragmentOf(max) == {f \in Seq(Nat) : Len(f) \in 1..max}
Answers(f, a) == f[1] = Ble!Msg /\ f[4] = a
AnswerFragment(max) ==
    {f \in FragmentOf(max) :
        NumbersAreNoCommands /\ f[1] = Ble!Msg => Len(f) >= 4 /\ f[4] \in Call}

OpeningPlace == {"enforce", "read", "select", "verify", "endpoints"}
CallingPlace == {"send", "recv", "cancel"}

DeviceType ==
    [rx : Seq(Seq(Nat)), busy : 0..MaxCalls, tx : Seq(Seq(Nat)), max : ControlPoints,
     supports : Supports]

BleTyped ==
    /\ peer \in [bonding : Ble!BondingState, linked : BOOLEAN]
    /\ dev \in DeviceType
    /\ dev.rx \in Seq(FragmentOf(dev.max)) /\ dev.tx \in Seq(AnswerFragment(dev.max))
    /\ revisions \in {{}, {dev.supports}}
    /\ opened \in [exists : BOOLEAN, revision : Ble!FidoRevision \cup {"none"}]
    /\ at \in {"idle"} \cup OpeningPlace \cup CallingPlace
    /\ last \in 0..MaxCalls
    /\ out \in Seq(FragmentOf(dev.max)) /\ inq \in Seq(AnswerFragment(dev.max))
    /\ received \in [parser : Seq(AnswerFragment(dev.max)), waited : 0..Timeout]
    /\ result \in [Call -> Ble!Failures \cup {"none", "ok"}]
    /\ given \in [Call -> Seq(Nat)]
    /\ vouched \in BOOLEAN /\ cut \in BOOLEAN

(* Where the caller's task is.  While a channel exists, or is about to,    *)
(* the link was found bonded; only the first fragment of a request begins  *)
(* a message; and the calls end in the order they were made.               *)
BleLocated ==
    /\ at \in OpeningPlace => ~opened.exists
    /\ at \in CallingPlace => opened.exists /\ last \in Call /\ Ble!MayFragment(dev.max)
    /\ dev.busy # 0 => Ble!MayFragment(dev.max)
    /\ (at = "endpoints" \/ opened.exists) /\ peer.linked => vouched
    /\ NumbersAreNoCommands /\ at = "send" =>
         \A i \in DOMAIN out : out[i][1] \in Ble!BleCommand => i = 1 /\ out[i][1] = Ble!Msg
    /\ at = "cancel" /\ out # <<>> => out[1][1] = Ble!Cancel
    /\ \A c \in Call : result[c] = "none" <=> (c > last \/ (c = last /\ at \in CallingPlace))
    /\ \A c \in Call : result[c] # "ok" => given[c] = <<>>
    /\ NumbersAreNoCommands =>
         \A c \in Call : result[c] = "ok" => given[c] # <<>> /\ given[c][1] \in Call

(* Where the answer to a call may be: the device works on the request, the *)
(* answer is on its way, in the stream, in the parser, or it was given; or *)
(* the device may still come to execute the request.  It is in one place   *)
(* at most.                                                                *)
Among(s, a) == \E i \in DOMAIN s : Answers(s[i], a)
OnceAmong(s, a) == \A i, j \in DOMAIN s : Answers(s[i], a) /\ Answers(s[j], a) => i = j
Parsed(a) == received.parser # <<>> /\ Answers(received.parser[1], a)
WasGiven(a) == \E c \in Call : given[c] # <<>> /\ given[c][1] = a
ToCome(a) ==
    \/ a > last
    \/ a = last /\ at = "send" /\ out # <<>> /\ (out[1][1] = Ble!Msg \/ dev.rx # <<>>)

InOnePlace(a) ==
    /\ OnceAmong(dev.tx, a) /\ OnceAmong(inq, a)
    /\ Among(dev.tx, a) => ~Among(inq, a)
    /\ Among(dev.tx, a) \/ Among(inq, a) => dev.busy # a /\ ~Parsed(a)
    /\ Parsed(a) => dev.busy # a
    /\ WasGiven(a) => dev.busy # a /\ ~Among(dev.tx, a) /\ ~Among(inq, a) /\ ~Parsed(a)
    /\ ToCome(a) =>
         /\ dev.busy # a /\ ~Among(dev.tx, a) /\ ~Among(inq, a) /\ ~Parsed(a)
         /\ ~WasGiven(a)

Apart == \A a \in Call : InOnePlace(a)

BleInv == BleTyped /\ BleLocated

-------------------------------------------------------------------------------
(* Fragments.                                                              *)

LEMMA MinOfTwo ==
    ASSUME NEW a \in Int, NEW b \in Int
    PROVE  Ble!Min({a, b}) = IF a <= b THEN a ELSE b
<1>1. CASE a <= b
  <2>1. a \in {a, b} /\ \A y \in {a, b} : a <= y
      BY <1>1
  <2>2. \A x \in {a, b} : (\A y \in {a, b} : x <= y) => x = a
      BY <1>1
  <2> QED BY <1>1, <2>1, <2>2 DEF Ble!Min
<1>2. CASE b < a
  <2>1. b \in {a, b} /\ \A y \in {a, b} : b <= y
      BY <1>2
  <2>2. \A x \in {a, b} : (\A y \in {a, b} : x <= y) => x = b
      BY <1>2
  <2> QED BY <1>2, <2>1, <2>2 DEF Ble!Min
<1> QED
    BY <1>1, <1>2

(* The data of a fragment: no more than there is room for.                 *)
LEMMA DataFits ==
    ASSUME NEW data \in Seq(Nat), NEW first \in Nat \ {0}, NEW count \in Nat
    PROVE  /\ Ble!UpTo(data, first, count) \in Seq(Nat)
           /\ Len(Ble!UpTo(data, first, count)) \in 0..count
           /\ first = 1 /\ count > 0 /\ data # <<>> =>
                /\ Len(Ble!UpTo(data, first, count)) > 0
                /\ Ble!UpTo(data, first, count)[1] = data[1]
<1> DEFINE end == IF first + count - 1 <= Len(data) THEN first + count - 1 ELSE Len(data)
           part == SubSeq(data, first, end)
<1>1. Len(data) \in Nat /\ (data # <<>> => Len(data) > 0) /\ \A i \in 1..Len(data) : data[i] \in Nat
    OBVIOUS
<1>2. Ble!UpTo(data, first, count) = part
  <2>1. first + count - 1 \in Int /\ Len(data) \in Int
      BY <1>1
  <2>2. Ble!Min({first + count - 1, Len(data)}) = end
      BY <2>1, MinOfTwo
  <2> QED BY <2>2 DEF Ble!UpTo
<1>3. end \in Int /\ first \in Int /\ end <= Len(data) /\ end <= first + count - 1
    BY <1>1
<1>4. first = 1 /\ count > 0 /\ data # <<>> => end >= 1
    BY <1>1
<1> HIDE DEF end
<1>5. \A i \in first..end : data[i] \in Nat
    BY <1>1, <1>3
<1>6. /\ part \in Seq(Nat) /\ Len(part) = (IF first <= end THEN end - first + 1 ELSE 0)
      /\ \A i \in 1..end - first + 1 : part[i] = data[first + i - 1]
    BY <1>3, <1>5, SubSeqProperties
<1> HIDE DEF part
<1>7. Len(part) \in 0..count
    BY <1>3, <1>6
<1>8. first = 1 /\ count > 0 /\ data # <<>> => Len(part) > 0 /\ part[1] = data[1]
    BY <1>3, <1>4, <1>6
<1> QED
    BY <1>2, <1>6, <1>7, <1>8

LEMMA Divided ==
    ASSUME NEW a \in Nat, NEW b \in Nat, b > 0
    PROVE  a \div b \in Nat /\ a % b \in Nat
    BY Z3

LEMMA ContinuationsCounted ==
    ASSUME NEW frame, frame.data \in Seq(Nat), NEW max \in Nat, Ble!MayFragment(max)
    PROVE  Ble!ContinuationsOf(frame, max) \in Nat
<1> DEFINE rest == Len(frame.data) - (max - 3)
           room == max - 1
<1>1. rest \in Int /\ room \in Nat /\ room > 0
    BY DEF Ble!MayFragment, Ble!INITIAL_FRAGMENT_HEADER_LENGTH
<1>2. Ble!ContinuationsOf(frame, max) = IF rest <= 0 THEN 0 ELSE (rest + room - 1) \div room
    BY DEF Ble!ContinuationsOf, Ble!INITIAL_FRAGMENT_HEADER_LENGTH, Ble!CONT_FRAGMENT_HEADER_LENGTH
<1> HIDE DEF rest, room
<1>3. rest > 0 => rest + room - 1 \in Nat
    BY <1>1
<1> QED
    BY <1>1, <1>2, <1>3, Divided

LEMMA HeaderAndData ==
    ASSUME NEW max \in Nat, NEW header \in Seq(Nat), NEW data \in Seq(Nat),
           Len(header) > 0, Len(header) + Len(data) <= max
    PROVE  /\ header \o data \in FragmentOf(max)
           /\ Len(header \o data) = Len(header) + Len(data)
           /\ (header \o data)[1] = header[1]
           /\ Len(data) > 0 => (header \o data)[Len(header) + 1] = data[1]
    BY DEF FragmentOf

FragmentsOf(cmd, data, max) == Ble!fragments(Ble!Frame(cmd, data), max)

Numbered(fs, count) ==
    \A i \in DOMAIN fs : i # 1 => \E k \in 1..count : fs[i][1] = (k - 1) % BYTE

(* What BleFrame::fragments makes of a message (framing.rs:38-79).         *)
LEMMA Fragmented ==
    ASSUME NEW cmd \in Nat, NEW data \in Seq(Nat), NEW max \in Nat, Ble!MayFragment(max)
    PROVE  LET fs == FragmentsOf(cmd, data, max) IN
           /\ fs \in Seq(FragmentOf(max)) /\ fs # <<>> /\ 1 \in DOMAIN fs
           /\ fs[1][1] = cmd
           /\ data # <<>> => Len(fs[1]) >= 4 /\ fs[1][4] = data[1]
           /\ Numbered(fs, Ble!ContinuationsOf(Ble!Frame(cmd, data), max))
<1> DEFINE fs == FragmentsOf(cmd, data, max)
           message == Ble!Frame(cmd, data)
           first == max - 3
           room == max - 1
           count == Ble!ContinuationsOf(message, max)
           header == <<cmd>> \o Ble!LengthBytes(message)
           initial == header \o Ble!UpTo(data, 1, first)
           continuation(k) == <<(k - 1) % BYTE>> \o Ble!UpTo(data, first + (k - 1) * room + 1, room)
           rest == [k \in 1..count |-> continuation(k)]
<1>1. BYTE \in Nat /\ BYTE > 0
    BY LinksAssumption DEF Ble!BleFramingAssumption
<1>2. message.cmd = cmd /\ message.data = data
    BY DEF Ble!Frame
<1>3. fs = <<initial>> \o rest
    BY <1>2 DEF FragmentsOf, Ble!fragments, Ble!INITIAL_FRAGMENT_HEADER_LENGTH,
                Ble!CONT_FRAGMENT_HEADER_LENGTH
<1>4. first \in Nat \ {0} /\ room \in Nat /\ max = first + 3 /\ max = room + 1
    BY DEF Ble!MayFragment, Ble!INITIAL_FRAGMENT_HEADER_LENGTH
<1>5. count \in Nat
    BY <1>2, ContinuationsCounted
<1>6. header \in Seq(Nat) /\ Len(header) = 3 /\ header[1] = cmd
  <2> DEFINE all == BYTE * BYTE
             length == Len(data) % all
  <2>1. all \in Nat /\ all > 0
      BY <1>1, Z3
  <2>2. length \in Nat
      BY <2>1, Divided
  <2> DEFINE high == length \div BYTE
             low == length % BYTE
  <2> HIDE DEF length
  <2>3. high \in Nat /\ low \in Nat
      BY <1>1, <2>2, Divided
  <2>4. Ble!LengthBytes(message) = <<high, low>>
      BY <1>2 DEF Ble!LengthBytes, length
  <2> HIDE DEF high, low
  <2>5. header = <<cmd>> \o <<high, low>>
      BY <2>4
  <2>6. /\ <<cmd>> \in Seq(Nat) /\ Len(<<cmd>>) = 1 /\ <<cmd>>[1] = cmd
        /\ <<high, low>> \in Seq(Nat) /\ Len(<<high, low>>) = 2
      BY <2>3
  <2> HIDE DEF header
  <2> QED BY <2>5, <2>6, Joined
<1> HIDE DEF header, first, room
<1>7. /\ initial \in FragmentOf(max) /\ initial[1] = cmd
      /\ data # <<>> => Len(initial) >= 4 /\ initial[4] = data[1]
  <2> DEFINE part == Ble!UpTo(data, 1, first)
  <2>1. /\ part \in Seq(Nat) /\ Len(part) \in 0..first
        /\ data # <<>> => Len(part) > 0 /\ part[1] = data[1]
      BY <1>4, DataFits
  <2> HIDE DEF part
  <2>2. Len(header) > 0 /\ Len(header) + Len(part) <= max
      BY <1>4, <1>6, <2>1
  <2>3. header \o part \in FragmentOf(max) /\ Len(header \o part) = 3 + Len(part)
        /\ (header \o part)[1] = cmd /\ (Len(part) > 0 => (header \o part)[4] = part[1])
    <3> HIDE DEF FragmentOf
    <3>1. /\ header \o part \in FragmentOf(max) /\ Len(header \o part) = Len(header) + Len(part)
          /\ (header \o part)[1] = header[1]
          /\ Len(part) > 0 => (header \o part)[Len(header) + 1] = part[1]
        BY <1>6, <2>1, <2>2, HeaderAndData
    <3>2. Len(header) + 1 = 4
        BY <1>6
    <3> QED BY <1>6, <3>1, <3>2
  <2> QED BY <2>1, <2>3 DEF part
<1>8. ASSUME NEW k \in 1..count
      PROVE  continuation(k) \in FragmentOf(max) /\ continuation(k)[1] = (k - 1) % BYTE
  <2> DEFINE number == (k - 1) % BYTE
             from == first + (k - 1) * room + 1
             part == Ble!UpTo(data, from, room)
  <2>1. k - 1 \in Nat
      BY <1>5
  <2>2. number \in Nat
      BY <1>1, <2>1, Divided
  <2>3. (k - 1) * room \in Nat
      BY <1>4, <2>1, Z3
  <2>4. from \in Nat \ {0}
      BY <1>4, <2>3
  <2> HIDE DEF number, from
  <2>5. part \in Seq(Nat) /\ Len(part) \in 0..room
      BY <1>4, <2>4, DataFits
  <2> HIDE DEF part
  <2>6. <<number>> \in Seq(Nat) /\ Len(<<number>>) = 1 /\ <<number>>[1] = number
      BY <2>2
  <2>7. <<number>> \o part \in FragmentOf(max) /\ (<<number>> \o part)[1] = number
    <3>1. Len(<<number>>) > 0 /\ Len(<<number>>) + Len(part) <= max
        BY <1>4, <2>5, <2>6
    <3> HIDE DEF FragmentOf
    <3> QED BY <2>5, <2>6, <3>1, HeaderAndData
  <2> QED BY <2>7 DEF number, from, part
<1> HIDE DEF initial, continuation, count
<1>9. <<initial>> \in Seq(FragmentOf(max)) /\ Len(<<initial>>) = 1 /\ <<initial>>[1] = initial
  <2> HIDE DEF FragmentOf
  <2> QED BY <1>7
<1>10. /\ rest \in Seq(FragmentOf(max)) /\ Len(rest) = count
       /\ \A k \in 1..count : rest[k] = continuation(k)
  <2> HIDE DEF FragmentOf
  <2> QED BY <1>5, <1>8
<1> HIDE DEF rest
<1>11. /\ fs \in Seq(FragmentOf(max)) /\ DOMAIN fs = 1..(1 + count) /\ fs # <<>> /\ fs[1] = initial
       /\ \A i \in DOMAIN fs : i # 1 => i - 1 \in 1..count /\ fs[i] = rest[i - 1]
  <2> HIDE DEF FragmentOf
  <2> QED BY <1>3, <1>5, <1>9, <1>10, Joined
<1>12. Numbered(fs, count)
    BY <1>8, <1>10, <1>11 DEF Numbered
<1> QED
    BY <1>5, <1>7, <1>11, <1>12 DEF count

-------------------------------------------------------------------------------
(* What FlattenSeq, a recursive function, gives for sequences of bytes.    *)

LEMMA LeastOf ==
    ASSUME NEW T, T \subseteq Nat, T # {}
    PROVE  \E k \in T : \A m \in T : k <= m
<1> DEFINE Before == {p \in Nat \X Nat : p[1] < p[2]}
<1>1. IsWellFoundedOn(Before, Nat)
    BY NatLessThanWellFounded DEF OpToRel
<1>2. PICK x \in T : \A y \in T : <<y, x>> \notin Before
  <2> HIDE DEF Before
  <2> QED BY <1>1, WFMin
<1>3. \A y \in T : ~(y < x)
    BY <1>2
<1> QED
    BY <1>3

Flattening(seqs, m, g) ==
    [i \in 1..m |-> IF i = 1 THEN seqs[i] ELSE g[i - 1] \o seqs[i]]

LEMMA FlatteningExists ==
    ASSUME NEW seqs, NEW count \in Nat
    PROVE  \E g : g = Flattening(seqs, count, g)
<1> DEFINE Missing == {m \in Nat : ~\E g : g = Flattening(seqs, m, g)}
<1>1. SUFFICES ASSUME Missing # {} PROVE FALSE
    OBVIOUS
<1>2. PICK m \in Missing : \A j \in Missing : m <= j
  <2>1. Missing \subseteq Nat
      OBVIOUS
  <2> HIDE DEF Missing
  <2> QED BY <1>1, <2>1, LeastOf
<1>3. m \in Nat /\ ~\E g : g = Flattening(seqs, m, g)
    OBVIOUS
<1>4. CASE m = 0
  <2> DEFINE g == [i \in 1..0 |-> 0]
  <2>1. g = Flattening(seqs, 0, g)
      BY DEF Flattening
  <2> QED BY <1>3, <1>4, <2>1
<1>5. CASE m # 0
  <2>1. m - 1 \in Nat /\ ~(m <= m - 1)
      BY <1>3, <1>5
  <2>2. m - 1 \notin Missing
    <3> HIDE DEF Missing
    <3> QED BY <1>2, <2>1
  <2>3. PICK h : h = Flattening(seqs, m - 1, h)
      BY <2>1, <2>2
  <2>4. \A i \in 1..(m - 1) : h[i] = IF i = 1 THEN seqs[i] ELSE h[i - 1] \o seqs[i]
      BY <2>3 DEF Flattening
  <2> DEFINE top == IF m = 1 THEN seqs[m] ELSE h[m - 1] \o seqs[m]
             g == [i \in 1..m |-> IF i = m THEN top ELSE h[i]]
  <2> HIDE DEF top
  <2>5. g[m] = top /\ \A i \in 1..(m - 1) : g[i] = h[i]
    <3>1. m \in 1..m /\ \A i \in 1..(m - 1) : i \in 1..m /\ i # m
        BY <1>3, <1>5
    <3> QED BY <3>1
  <2>6. ASSUME NEW i \in 1..m
        PROVE  g[i] = IF i = 1 THEN seqs[i] ELSE g[i - 1] \o seqs[i]
    <3> HIDE DEF g
    <3>1. i \in Nat /\ (i = m \/ i \in 1..(m - 1)) /\ (i # 1 => i - 1 \in 1..(m - 1))
        BY <1>3
    <3>2. i # 1 => g[i - 1] = h[i - 1]
        BY <2>5, <3>1
    <3>3. CASE i = m
        BY <2>5, <3>2, <3>3 DEF top
    <3>4. CASE i \in 1..(m - 1)
        BY <2>4, <2>5, <3>2, <3>4
    <3> QED BY <3>1, <3>3, <3>4
  <2>7. g = [i \in 1..m |-> g[i]]
      OBVIOUS
  <2>8. g = Flattening(seqs, m, g)
    <3> HIDE DEF g
    <3> QED BY <2>6, <2>7 DEF Flattening
  <2> QED BY <1>3, <2>8
<1> QED
    BY <1>4, <1>5

LEMMA Flattened ==
    ASSUME NEW S, NEW seqs \in Seq(Seq(S))
    PROVE  Ble!FlattenSeq(seqs) \in Seq(S)
<1> DEFINE count == Len(seqs)
           flat == CHOOSE g : g = Flattening(seqs, count, g)
<1>1. count \in Nat /\ (count # 0 => count \in 1..count) /\ (count = 0 => seqs = <<>>)
      /\ \A i \in 1..count : seqs[i] \in Seq(S)
    OBVIOUS
<1>2. Ble!FlattenSeq(seqs) = IF count = 0 THEN seqs ELSE flat[count]
    BY DEF Ble!FlattenSeq, Flattening
<1> HIDE DEF count
<1>3. flat = Flattening(seqs, count, flat)
    BY <1>1, FlatteningExists
<1> HIDE DEF flat
<1>4. \A i \in 1..count : flat[i] = IF i = 1 THEN seqs[i] ELSE flat[i - 1] \o seqs[i]
    BY <1>3 DEF Flattening
<1> DEFINE Bad == {i \in 1..count : flat[i] \notin Seq(S)}
<1>5. Bad = {}
  <2>1. SUFFICES ASSUME Bad # {} PROVE FALSE
      OBVIOUS
  <2>2. PICK i \in Bad : \A j \in Bad : i <= j
    <3>1. Bad \subseteq Nat
        BY <1>1
    <3> HIDE DEF Bad
    <3> QED BY <2>1, <3>1, LeastOf
  <2>3. i \in 1..count /\ flat[i] \notin Seq(S) /\ i \in Nat
      BY <1>1
  <2>4. i # 1
      BY <1>1, <1>4, <2>3
  <2>5. i - 1 \in 1..count /\ ~(i <= i - 1)
      BY <1>1, <2>3, <2>4
  <2>6. flat[i - 1] \in Seq(S)
      BY <2>2, <2>5
  <2>7. flat[i] = flat[i - 1] \o seqs[i]
      BY <1>4, <2>3, <2>4
  <2> QED BY <1>1, <2>3, <2>6, <2>7, Joined
<1>6. \A i \in 1..count : flat[i] \in Seq(S)
    BY <1>5
<1>7. count # 0 => flat[count] \in Seq(S)
    BY <1>1, <1>6
<1> QED
    BY <1>1, <1>2, <1>7

-------------------------------------------------------------------------------
(* Messages.                                                               *)

LEMMA ConstantTypes ==
    /\ BYTE \in Nat /\ BYTE > 1
    /\ BleRequestSizes \subseteq Nat /\ AnswerSizes \subseteq Nat \ {0}
    /\ ControlPoints \subseteq Nat
    /\ Supports \subseteq SUBSET {"V2", "U2fv12", "U2fv11"}
    /\ Timeout \in Nat /\ MaxCalls \in Nat
    BY LinksAssumption, NfcAssumption DEF Ble!BleFramingAssumption, Ble!BleChannelAssumption

LEMMA CommandsAre ==
    /\ Ble!BleCommand \subseteq Nat
    /\ Ble!Msg \in Ble!BleCommand /\ Ble!Cancel \in Ble!BleCommand /\ Ble!Error \in Ble!BleCommand
    /\ Ble!Ping \in Ble!BleCommand /\ Ble!Keepalive \in Ble!BleCommand
    /\ Ble!Msg \notin {Ble!Cancel, Ble!Error, Ble!Ping, Ble!Keepalive}
    /\ Ble!BleCommand \ {Ble!Cancel, Ble!Error, Ble!Ping, Ble!Keepalive} = {Ble!Msg}
    BY DEF Ble!BleCommand, Ble!Msg, Ble!Cancel, Ble!Error, Ble!Ping, Ble!Keepalive

LEMMA NumbersHold ==
    ASSUME NumbersAreNoCommands,
           NEW cmd, NEW data \in Seq(Nat),
           Len(data) \in BleRequestSizes \cup AnswerSizes \cup {0, 1},
           NEW max \in ControlPoints, Ble!MayFragment(max),
           NEW k \in 1..Ble!ContinuationsOf(Ble!Frame(cmd, data), max)
    PROVE  (k - 1) % BYTE \notin Ble!BleCommand
<1> DEFINE bytes == Len(data)
           other == [i \in 1..bytes |-> 0]
<1>1. bytes \in Nat /\ Len(other) = bytes
    OBVIOUS
<1>2. Ble!ContinuationsOf(Ble!Frame(cmd, data), max)
        = Ble!ContinuationsOf(Ble!Frame(Ble!Msg, other), max)
    BY <1>1 DEF Ble!ContinuationsOf, Ble!Frame
<1> QED
    BY <1>2 DEF NumbersAreNoCommands

(* The fragments of a message begin it at the first one and nowhere else.  *)
LEMMA BegunOnce ==
    ASSUME NEW cmd \in Ble!BleCommand, NEW data \in Seq(Nat),
           Len(data) \in BleRequestSizes \cup AnswerSizes \cup {0, 1},
           NEW max \in ControlPoints, Ble!MayFragment(max)
    PROVE  LET fs == FragmentsOf(cmd, data, max) IN
           /\ fs \in Seq(FragmentOf(max)) /\ fs # <<>> /\ 1 \in DOMAIN fs
           /\ fs[1][1] = cmd
           /\ data # <<>> => Len(fs[1]) >= 4 /\ fs[1][4] = data[1]
           /\ NumbersAreNoCommands =>
                \A i \in DOMAIN fs : fs[i][1] \in Ble!BleCommand => i = 1
<1> DEFINE fs == FragmentsOf(cmd, data, max)
<1>1. cmd \in Nat /\ max \in Nat
    BY ConstantTypes, CommandsAre
<1>2. /\ fs \in Seq(FragmentOf(max)) /\ fs # <<>> /\ 1 \in DOMAIN fs
      /\ fs[1][1] = cmd
      /\ data # <<>> => Len(fs[1]) >= 4 /\ fs[1][4] = data[1]
      /\ Numbered(fs, Ble!ContinuationsOf(Ble!Frame(cmd, data), max))
  <2> HIDE DEF FragmentOf
  <2> QED BY <1>1, Fragmented
<1>3. NumbersAreNoCommands => \A i \in DOMAIN fs : fs[i][1] \in Ble!BleCommand => i = 1
    BY <1>2, NumbersHold DEF Numbered
<1> QED
    BY <1>2, <1>3

(* What the device says: the answer to a call, or something else.          *)
LEMMA SaidOnce ==
    ASSUME NEW cmd \in Ble!BleCommand, NEW data \in Seq(Nat),
           Len(data) \in AnswerSizes \cup {0, 1},
           cmd = Ble!Msg => data # <<>> /\ data[1] \in Call,
           NEW max \in ControlPoints, Ble!MayFragment(max)
    PROVE  LET fs == FragmentsOf(cmd, data, max) IN
           /\ fs \in Seq(AnswerFragment(max))
           /\ NumbersAreNoCommands =>
                \A a : /\ Among(fs, a) <=> cmd = Ble!Msg /\ data[1] = a
                       /\ OnceAmong(fs, a)
<1> DEFINE fs == FragmentsOf(cmd, data, max)
<1>1. /\ fs \in Seq(FragmentOf(max)) /\ 1 \in DOMAIN fs
      /\ fs[1][1] = cmd
      /\ data # <<>> => Len(fs[1]) >= 4 /\ fs[1][4] = data[1]
      /\ NumbersAreNoCommands =>
            \A i \in DOMAIN fs : fs[i][1] \in Ble!BleCommand => i = 1
    BY BegunOnce
<1>2. Ble!Msg \in Ble!BleCommand
    BY CommandsAre
<1>3. \A i \in DOMAIN fs : fs[i] \in AnswerFragment(max)
  <2>1. \A i \in DOMAIN fs : fs[i] \in FragmentOf(max)
    <3> HIDE DEF FragmentOf
    <3> QED BY <1>1
  <2> HIDE DEF FragmentOf
  <2> QED BY <1>1, <1>2, <2>1 DEF AnswerFragment
<1>4. fs \in Seq(AnswerFragment(max))
  <2> HIDE DEF AnswerFragment, FragmentOf
  <2>1. DOMAIN fs = 1..Len(fs) /\ Len(fs) \in Nat /\ fs = [i \in 1..Len(fs) |-> fs[i]]
      BY <1>1
  <2> QED BY <1>3, <2>1
<1>5. ASSUME NumbersAreNoCommands, NEW a
      PROVE  /\ Among(fs, a) <=> cmd = Ble!Msg /\ data[1] = a
             /\ OnceAmong(fs, a)
    BY <1>1, <1>2, <1>5 DEF Among, OnceAmong, Answers
<1> QED
    BY <1>4, <1>5

(* What the parser makes of its fragments (framing.rs:128-147): the command *)
(* and the first byte of data are those of the first fragment.             *)
LEMMA FrameIs ==
    ASSUME NEW parser \in Seq(Seq(Nat)), parser # <<>>
    PROVE  /\ Ble!frame(parser).cmd = parser[1][1]
           /\ Ble!frame(parser).data \in Seq(Nat)
           /\ Len(parser[1]) >= 4 =>
                /\ Ble!frame(parser).data # <<>>
                /\ Ble!frame(parser).data[1] = parser[1][4]
<1> DEFINE start == SubSeq(parser[1], 4, Len(parser[1]))
           part(k) == SubSeq(parser[k + 1], 2, Len(parser[k + 1]))
           parts == [k \in 1..Len(parser) - 1 |-> part(k)]
           rest == Ble!FlattenSeq(parts)
<1>1. Ble!frame(parser) = [cmd |-> parser[1][1], data |-> start \o rest]
    BY DEF Ble!frame, Ble!Frame, Ble!INITIAL_FRAGMENT_HEADER_LENGTH, Ble!CONT_FRAGMENT_HEADER_LENGTH
<1>2. Len(parser) \in Nat /\ Len(parser) >= 1 /\ parser[1] \in Seq(Nat)
      /\ \A k \in 1..Len(parser) : parser[k] \in Seq(Nat)
    OBVIOUS
<1>3. ASSUME NEW s \in Seq(Nat), NEW m \in Nat \ {0}
      PROVE  /\ SubSeq(s, m, Len(s)) \in Seq(Nat)
             /\ Len(SubSeq(s, m, Len(s))) = IF m <= Len(s) THEN Len(s) - m + 1 ELSE 0
             /\ \A i \in 1..Len(s) - m + 1 : SubSeq(s, m, Len(s))[i] = s[m + i - 1]
  <2>1. Len(s) \in Int /\ m \in Int /\ \A i \in m..Len(s) : s[i] \in Nat
      OBVIOUS
  <2> QED BY <2>1, SubSeqProperties
<1>4. /\ start \in Seq(Nat)
      /\ Len(parser[1]) >= 4 => Len(start) > 0 /\ start[1] = parser[1][4]
  <2>1. /\ start \in Seq(Nat)
        /\ Len(start) = IF 4 <= Len(parser[1]) THEN Len(parser[1]) - 4 + 1 ELSE 0
        /\ \A i \in 1..Len(parser[1]) - 4 + 1 : start[i] = parser[1][4 + i - 1]
      BY <1>2, <1>3
  <2>2. Len(parser[1]) \in Nat
      BY <1>2
  <2> HIDE DEF start
  <2> QED BY <2>1, <2>2
<1>5. parts \in Seq(Seq(Nat))
  <2>1. \A k \in 1..Len(parser) - 1 : part(k) \in Seq(Nat)
    <3>1. ASSUME NEW k \in 1..Len(parser) - 1 PROVE part(k) \in Seq(Nat)
      <4>1. k + 1 \in 1..Len(parser)
          BY <1>2
      <4> QED BY <1>2, <1>3, <4>1
    <3> QED BY <3>1
  <2>2. Len(parser) - 1 \in Nat
      BY <1>2
  <2> HIDE DEF part
  <2> QED BY <2>1, <2>2
<1> HIDE DEF start, parts
<1>6. rest \in Seq(Nat)
    BY <1>5, Flattened
<1> HIDE DEF rest
<1>7. /\ start \o rest \in Seq(Nat)
      /\ Len(start) > 0 => start \o rest # <<>> /\ (start \o rest)[1] = start[1]
    BY <1>4, <1>6
<1> QED
    BY <1>1, <1>4, <1>7

-------------------------------------------------------------------------------
(* Answers among fragments.                                                *)

LEMMA NoneAmong == \A a : ~Among(<<>>, a) /\ OnceAmong(<<>>, a)
    BY DEF Among, OnceAmong

LEMMA OneMore ==
    ASSUME NEW s \in Seq(Seq(Nat)), NEW f \in Seq(Nat), NEW a
    PROVE  /\ Among(Append(s, f), a) <=> Among(s, a) \/ Answers(f, a)
           /\ OnceAmong(s, a) /\ (Answers(f, a) => ~Among(s, a)) => OnceAmong(Append(s, f), a)
<1>1. /\ DOMAIN s = 1..Len(s) /\ Len(s) \in Nat
      /\ DOMAIN Append(s, f) = 1..(Len(s) + 1)
      /\ \A i \in 1..Len(s) : Append(s, f)[i] = s[i]
      /\ Append(s, f)[Len(s) + 1] = f
    OBVIOUS
<1>2. \A i \in 1..(Len(s) + 1) : i \in 1..Len(s) \/ i = Len(s) + 1
    BY <1>1
<1>3. 1..Len(s) \subseteq 1..(Len(s) + 1) /\ Len(s) + 1 \in 1..(Len(s) + 1)
    BY <1>1
<1> DEFINE t == Append(s, f)
           top == Len(s) + 1
<1> HIDE DEF t, top
<1> QED
    BY <1>1, <1>2, <1>3 DEF Among, OnceAmong, t, top

LEMMA OneLess ==
    ASSUME NEW s \in Seq(Seq(Nat)), s # <<>>, NEW a
    PROVE  /\ Among(s, a) <=> Answers(Head(s), a) \/ Among(Tail(s), a)
           /\ OnceAmong(s, a) =>
                OnceAmong(Tail(s), a) /\ ~(Answers(Head(s), a) /\ Among(Tail(s), a))
<1>1. /\ Len(s) \in Nat /\ Len(s) > 0 /\ DOMAIN s = 1..Len(s)
      /\ Head(s) = s[1]
      /\ DOMAIN Tail(s) = 1..(Len(s) - 1)
      /\ \A i \in 1..(Len(s) - 1) : Tail(s)[i] = s[i + 1]
    BY Split
<1>2. /\ \A i \in 1..(Len(s) - 1) : i + 1 \in 1..Len(s) /\ i + 1 # 1
      /\ \A i \in 1..Len(s) : i # 1 => i - 1 \in 1..(Len(s) - 1) /\ (i - 1) + 1 = i
      /\ 1 \in 1..Len(s)
      /\ \A i, j \in 1..(Len(s) - 1) : i + 1 = j + 1 => i = j
    BY <1>1
<1> DEFINE t == Tail(s)
<1>3. \A i \in 1..(Len(s) - 1) : t[i] = s[i + 1]
    BY <1>1
<1>4. \A i \in 1..Len(s) : i # 1 => i - 1 \in DOMAIN t /\ t[i - 1] = s[i]
    BY <1>1, <1>2
<1>5. DOMAIN t = 1..(Len(s) - 1)
    BY <1>1
<1> HIDE DEF t
<1>6. Among(s, a) <=> Answers(s[1], a) \/ Among(t, a)
    BY <1>1, <1>2, <1>3, <1>4, <1>5 DEF Among
<1>7. OnceAmong(s, a) => OnceAmong(t, a) /\ ~(Answers(s[1], a) /\ Among(t, a))
  <2>1. ASSUME OnceAmong(s, a), NEW i \in DOMAIN t, NEW j \in DOMAIN t,
               Answers(t[i], a), Answers(t[j], a)
        PROVE  i = j
    <3>1. i + 1 \in DOMAIN s /\ j + 1 \in DOMAIN s /\ Answers(s[i + 1], a) /\ Answers(s[j + 1], a)
        BY <1>1, <1>2, <1>3, <1>5, <2>1
    <3>2. i + 1 = j + 1
        BY <2>1, <3>1 DEF OnceAmong
    <3> QED BY <1>2, <1>5, <3>2
  <2>2. ASSUME OnceAmong(s, a), Answers(s[1], a), NEW i \in DOMAIN t, Answers(t[i], a)
        PROVE  FALSE
    <3>1. i + 1 \in DOMAIN s /\ 1 \in DOMAIN s /\ Answers(s[i + 1], a) /\ i + 1 # 1
        BY <1>1, <1>2, <1>3, <1>5, <2>2
    <3> QED BY <2>2, <3>1 DEF OnceAmong
  <2> QED BY <2>1, <2>2 DEF Among, OnceAmong
<1> QED
    BY <1>1, <1>6, <1>7 DEF t

LEMMA MoreOfThem ==
    ASSUME NEW s \in Seq(Seq(Nat)), NEW t \in Seq(Seq(Nat)), NEW a
    PROVE  /\ Among(s \o t, a) <=> Among(s, a) \/ Among(t, a)
           /\ OnceAmong(s, a) /\ OnceAmong(t, a) /\ ~(Among(s, a) /\ Among(t, a)) =>
                OnceAmong(s \o t, a)
<1> DEFINE u == s \o t
<1>1. /\ Len(s) \in Nat /\ Len(t) \in Nat /\ DOMAIN s = 1..Len(s) /\ DOMAIN t = 1..Len(t)
      /\ DOMAIN u = 1..(Len(s) + Len(t))
      /\ \A i \in 1..(Len(s) + Len(t)) : u[i] = IF i <= Len(s) THEN s[i] ELSE t[i - Len(s)]
    OBVIOUS
<1> HIDE DEF u
<1>2. /\ \A i \in DOMAIN s : i \in DOMAIN u /\ u[i] = s[i]
      /\ \A i \in DOMAIN t : i + Len(s) \in DOMAIN u /\ u[i + Len(s)] = t[i]
      /\ \A i \in DOMAIN u : \/ i \in DOMAIN s /\ u[i] = s[i]
                             \/ i - Len(s) \in DOMAIN t /\ u[i] = t[i - Len(s)] /\ i > Len(s)
    BY <1>1
<1>3. Among(u, a) <=> Among(s, a) \/ Among(t, a)
    BY <1>2 DEF Among
<1>4. ASSUME OnceAmong(s, a), OnceAmong(t, a), ~(Among(s, a) /\ Among(t, a))
      PROVE  OnceAmong(u, a)
  <2>1. SUFFICES ASSUME NEW i \in DOMAIN u, NEW j \in DOMAIN u, Answers(u[i], a), Answers(u[j], a)
                 PROVE  i = j
      BY DEF OnceAmong
  <2>2. CASE i \in DOMAIN s /\ u[i] = s[i]
    <3>1. Among(s, a)
        BY <2>1, <2>2 DEF Among
    <3>2. j \in DOMAIN s /\ u[j] = s[j]
        BY <1>2, <1>4, <2>1, <3>1 DEF Among
    <3> QED BY <1>4, <2>1, <2>2, <3>2 DEF OnceAmong
  <2>3. CASE i - Len(s) \in DOMAIN t /\ u[i] = t[i - Len(s)] /\ i > Len(s)
    <3>1. Among(t, a)
        BY <2>1, <2>3 DEF Among
    <3>2. j - Len(s) \in DOMAIN t /\ u[j] = t[j - Len(s)]
        BY <1>2, <1>4, <2>1, <3>1 DEF Among
    <3>3. i - Len(s) = j - Len(s)
        BY <1>4, <2>1, <2>3, <3>2 DEF OnceAmong
    <3> QED BY <1>1, <3>3
  <2> QED BY <1>2, <2>2, <2>3
<1> QED
    BY <1>3, <1>4 DEF u

LEMMA Wider ==
    ASSUME NEW max
    PROVE  /\ FragmentOf(max) \subseteq Seq(Nat)
           /\ AnswerFragment(max) \subseteq FragmentOf(max)
           /\ Seq(FragmentOf(max)) \subseteq Seq(Seq(Nat))
           /\ Seq(AnswerFragment(max)) \subseteq Seq(FragmentOf(max))
           /\ Seq(AnswerFragment(max)) \subseteq Seq(Seq(Nat))
<1>1. ASSUME NEW A, NEW B, A \subseteq B PROVE Seq(A) \subseteq Seq(B)
    BY <1>1
<1>2. FragmentOf(max) \subseteq Seq(Nat)
    BY DEF FragmentOf
<1>3. AnswerFragment(max) \subseteq FragmentOf(max)
    BY DEF AnswerFragment
<1> HIDE DEF FragmentOf, AnswerFragment
<1> QED
    BY <1>1, <1>2, <1>3

(* What is on its way from the device after it says more.                  *)
LEMMA SaidMore ==
    ASSUME NEW cmd \in Ble!BleCommand, NEW data \in Seq(Nat),
           Len(data) \in AnswerSizes \cup {0, 1},
           cmd = Ble!Msg => data # <<>> /\ data[1] \in Call,
           NEW max \in ControlPoints, Ble!MayFragment(max),
           NEW tx \in Seq(AnswerFragment(max))
    PROVE  /\ tx \o FragmentsOf(cmd, data, max) \in Seq(AnswerFragment(max))
           /\ NumbersAreNoCommands =>
                \A a : /\ Among(tx \o FragmentsOf(cmd, data, max), a) <=>
                            Among(tx, a) \/ (cmd = Ble!Msg /\ data[1] = a)
                       /\ OnceAmong(tx, a) /\ ~(Among(tx, a) /\ cmd = Ble!Msg /\ data[1] = a) =>
                            OnceAmong(tx \o FragmentsOf(cmd, data, max), a)
<1> DEFINE fs == FragmentsOf(cmd, data, max)
<1>1. /\ fs \in Seq(AnswerFragment(max))
      /\ NumbersAreNoCommands =>
            \A a : /\ Among(fs, a) <=> cmd = Ble!Msg /\ data[1] = a
                   /\ OnceAmong(fs, a)
    BY SaidOnce
<1> HIDE DEF fs
<1>2. tx \o fs \in Seq(AnswerFragment(max))
  <2> HIDE DEF AnswerFragment
  <2> QED BY <1>1, Joined
<1>3. tx \in Seq(Seq(Nat)) /\ fs \in Seq(Seq(Nat))
    BY <1>1, Wider
<1>4. ASSUME NumbersAreNoCommands, NEW a
      PROVE  /\ Among(tx \o fs, a) <=> Among(tx, a) \/ (cmd = Ble!Msg /\ data[1] = a)
             /\ OnceAmong(tx, a) /\ ~(Among(tx, a) /\ cmd = Ble!Msg /\ data[1] = a) =>
                    OnceAmong(tx \o fs, a)
  <2> HIDE DEF Among, OnceAmong
  <2> QED BY <1>1, <1>3, <1>4, MoreOfThem
<1> QED
    BY <1>2, <1>4 DEF fs

(* The device after a step: it keeps its limits, works on one call, and    *)
(* has fragments of its own making on their way.                           *)
DeviceKept(d) ==
    /\ d \in DeviceType /\ d.max = dev.max /\ d.supports = dev.supports
    /\ d.rx \in Seq(FragmentOf(dev.max)) /\ d.tx \in Seq(AnswerFragment(dev.max))
    /\ d.busy # 0 => Ble!MayFragment(dev.max)

LEMMA DeviceIsKept ==
    ASSUME BleInv
    PROVE  /\ DeviceKept(dev)
           /\ dev.max \in ControlPoints /\ dev.busy \in 0..MaxCalls
    BY DEF BleInv, BleTyped, BleLocated, DeviceKept, DeviceType

LEMMA Noted ==
    ASSUME BleInv, NEW d, DeviceKept(d), Ble!MayFragment(dev.max),
           NEW cmd \in Ble!BleCommand, NEW data \in Seq(Nat),
           Len(data) \in AnswerSizes \cup {0, 1},
           cmd = Ble!Msg => data # <<>> /\ data[1] \in Call
    PROVE  /\ DeviceKept(Ble!Notify(d, Ble!Frame(cmd, data)))
           /\ Ble!Notify(d, Ble!Frame(cmd, data))
                = [d EXCEPT !.tx = d.tx \o FragmentsOf(cmd, data, dev.max)]
<1> DEFINE more == d.tx \o FragmentsOf(cmd, data, dev.max)
<1>1. Ble!Notify(d, Ble!Frame(cmd, data)) = [d EXCEPT !.tx = more]
    BY DEF Ble!Notify, FragmentsOf, DeviceKept
<1>2. more \in Seq(AnswerFragment(dev.max))
  <2>1. dev.max \in ControlPoints /\ d.tx \in Seq(AnswerFragment(dev.max))
      BY DeviceIsKept DEF DeviceKept
  <2> QED BY <2>1, SaidMore
<1> HIDE DEF more
<1>3. more \in Seq(Seq(Nat))
    BY <1>2, Wider
<1>4. DeviceKept([d EXCEPT !.tx = more])
  <2> HIDE DEF FragmentOf, AnswerFragment
  <2> QED BY <1>2, <1>3 DEF DeviceKept, DeviceType
<1> QED
    BY <1>1, <1>4 DEF more

SaysAlso(d, ids) ==
    \A a : /\ Among(d.tx, a) <=> Among(dev.tx, a) \/ a \in ids
           /\ OnceAmong(dev.tx, a) /\ ~(Among(dev.tx, a) /\ a \in ids) => OnceAmong(d.tx, a)

(* A step in which the device does not begin to work on a call: it goes on *)
(* as before, or answers the one it worked on.                             *)
GoesOn(d) ==
    \/ d.busy \in {dev.busy, 0} /\ SaysAlso(d, {})
    \/ dev.busy # 0 /\ d.busy = 0 /\ SaysAlso(d, {dev.busy})

LEMMA Speaks ==
    ASSUME BleInv, NEW d, DeviceKept(d), d.tx = dev.tx, Ble!MayFragment(dev.max),
           NEW cmd \in Ble!BleCommand, NEW data \in Seq(Nat),
           Len(data) \in AnswerSizes \cup {0, 1},
           cmd = Ble!Msg => data # <<>> /\ data[1] \in Call
    PROVE  LET e == Ble!Notify(d, Ble!Frame(cmd, data))
           IN  /\ DeviceKept(e) /\ e.busy = d.busy /\ e.rx = d.rx
               /\ NumbersAreNoCommands => SaysAlso(e, IF cmd = Ble!Msg THEN {data[1]} ELSE {})
<1> DEFINE e == Ble!Notify(d, Ble!Frame(cmd, data))
           more == dev.tx \o FragmentsOf(cmd, data, dev.max)
<1>1. DeviceKept(e) /\ e = [d EXCEPT !.tx = more]
  <2>1. /\ DeviceKept(e)
        /\ e = [d EXCEPT !.tx = d.tx \o FragmentsOf(cmd, data, dev.max)]
    <3> HIDE DEF DeviceKept
    <3> QED BY Noted
  <2> HIDE DEF e
  <2> QED BY <2>1
<1>2. e.tx = more /\ e.busy = d.busy /\ e.rx = d.rx
    BY <1>1 DEF DeviceKept, DeviceType
<1>3. dev.max \in ControlPoints /\ dev.tx \in Seq(AnswerFragment(dev.max))
    BY DeviceIsKept DEF DeviceKept
<1>4. NumbersAreNoCommands =>
        \A a : /\ Among(more, a) <=> Among(dev.tx, a) \/ (cmd = Ble!Msg /\ data[1] = a)
               /\ OnceAmong(dev.tx, a) /\ ~(Among(dev.tx, a) /\ cmd = Ble!Msg /\ data[1] = a) =>
                    OnceAmong(more, a)
    BY <1>3, SaidMore
<1> HIDE DEF e, more
<1>5. NumbersAreNoCommands => SaysAlso(e, IF cmd = Ble!Msg THEN {data[1]} ELSE {})
    BY <1>2, <1>4 DEF SaysAlso
<1> QED
    BY <1>1, <1>2, <1>5 DEF e

LEMMA AnswerIs ==
    ASSUME NEW c \in Call, NEW bytes \in AnswerSizes \cup {1}
    PROVE  \E data \in Seq(Nat) : /\ Ble!AnswerOf(c, bytes) = Ble!Frame(Ble!Msg, data)
                                  /\ Len(data) \in AnswerSizes \cup {0, 1}
                                  /\ data # <<>> /\ data[1] = c
<1> DEFINE data == [i \in 1..bytes |-> c]
<1>1. bytes \in Nat /\ bytes > 0 /\ c \in Nat
    BY ConstantTypes DEF Call
<1>2. data \in Seq(Nat) /\ Len(data) = bytes /\ data # <<>> /\ data[1] = c
    BY <1>1
<1> QED
    BY <1>2 DEF Ble!AnswerOf

LEMMA AnswersItsCall ==
    ASSUME BleInv, NEW d, DeviceKept(d), d.tx = dev.tx, d.busy = 0, dev.busy # 0,
           NEW bytes \in AnswerSizes \cup {1}
    PROVE  LET e == Ble!Notify(d, Ble!AnswerOf(dev.busy, bytes))
           IN  DeviceKept(e) /\ e.rx = d.rx /\ (NumbersAreNoCommands => GoesOn(e))
<1>1. dev.busy \in Call /\ Ble!MayFragment(dev.max)
    BY ConstantTypes DEF BleInv, BleTyped, BleLocated, DeviceType, Call
<1>2. PICK data \in Seq(Nat) : /\ Ble!AnswerOf(dev.busy, bytes) = Ble!Frame(Ble!Msg, data)
                               /\ Len(data) \in AnswerSizes \cup {0, 1}
                               /\ data # <<>> /\ data[1] = dev.busy
    BY <1>1, AnswerIs
<1> DEFINE e == Ble!Notify(d, Ble!Frame(Ble!Msg, data))
<1>3. /\ DeviceKept(e) /\ e.busy = d.busy /\ e.rx = d.rx
      /\ NumbersAreNoCommands => SaysAlso(e, IF Ble!Msg = Ble!Msg THEN {data[1]} ELSE {})
    BY <1>1, <1>2, CommandsAre, Speaks
<1>4. NumbersAreNoCommands => GoesOn(e)
  <2> HIDE DEF e
  <2> QED BY <1>2, <1>3 DEF GoesOn
<1> QED
    BY <1>2, <1>3, <1>4

LEMMA SaysSomethingElse ==
    ASSUME BleInv, NEW d, DeviceKept(d), d.tx = dev.tx, Ble!MayFragment(dev.max),
           d.busy \in {dev.busy, 0},
           NEW cmd \in Ble!BleCommand \ {Ble!Msg}, NEW data \in Seq(Nat), Len(data) \in {0, 1}
    PROVE  LET e == Ble!Notify(d, Ble!Frame(cmd, data))
           IN  DeviceKept(e) /\ e.rx = d.rx /\ (NumbersAreNoCommands => GoesOn(e))
<1> DEFINE e == Ble!Notify(d, Ble!Frame(cmd, data))
<1>1. /\ DeviceKept(e) /\ e.busy = d.busy /\ e.rx = d.rx
      /\ NumbersAreNoCommands => SaysAlso(e, IF cmd = Ble!Msg THEN {data[1]} ELSE {})
    BY Speaks
<1> HIDE DEF e
<1>2. NumbersAreNoCommands => GoesOn(e)
    BY <1>1 DEF GoesOn
<1> QED
    BY <1>1, <1>2 DEF e

(* What the device does with a fragment written to it.                     *)
LEMMA Reacts ==
    ASSUME BleInv, last \in Call, Ble!MayFragment(dev.max), NEW f \in FragmentOf(dev.max)
    PROVE  LET d == Ble!Reaction(f)
           IN  /\ DeviceKept(d)
               /\ Ble!Executes(f) =>
                    /\ dev.busy = 0 /\ d = [dev EXCEPT !.rx = <<>>, !.busy = last]
                    /\ f[1] \in Ble!BleCommand => f[1] = Ble!Msg
                    /\ f[1] \in Ble!BleCommand \/ dev.rx # <<>>
               /\ ~Ble!Executes(f) /\ NumbersAreNoCommands => GoesOn(d)
               /\ f[1] \notin Ble!BleCommand /\ dev.rx = <<>> => d.rx = <<>>
<1> DEFINE rest == [dev EXCEPT !.rx = <<>>]
           taken == Ble!Taken(f)
<1>1. DeviceKept(dev) /\ dev.max \in ControlPoints /\ dev.busy \in 0..MaxCalls
    BY DeviceIsKept
<1>2. f \in Seq(Nat) /\ Seq(FragmentOf(dev.max)) \subseteq Seq(Seq(Nat))
    BY Wider
<1>3. taken \in Seq(FragmentOf(dev.max)) /\ taken # <<>>
  <2> HIDE DEF FragmentOf
  <2>1. dev.rx \in Seq(FragmentOf(dev.max))
      BY <1>1 DEF DeviceKept
  <2>2. taken = IF f[1] \in Ble!BleCommand THEN <<f>> ELSE Append(dev.rx, f)
      BY DEF Ble!Taken
  <2>3. <<f>> \in Seq(FragmentOf(dev.max)) /\ <<f>> # <<>>
      OBVIOUS
  <2>4. Append(dev.rx, f) \in Seq(FragmentOf(dev.max)) /\ Append(dev.rx, f) # <<>>
      BY <2>1, AppendProperties
  <2> HIDE DEF taken
  <2> QED BY <2>2, <2>3, <2>4
<1>4. taken \in Seq(Seq(Nat))
    BY <1>2, <1>3
<1>5. /\ DeviceKept(rest) /\ rest.busy = dev.busy /\ rest.tx = dev.tx /\ rest.rx = <<>>
      /\ rest.max = dev.max
  <2> HIDE DEF FragmentOf, AnswerFragment
  <2> QED BY <1>1, Empty DEF DeviceKept, DeviceType
<1>6. ASSUME NEW d, DeviceKept(d), d.tx = dev.tx, d.busy \in {dev.busy, 0} PROVE GoesOn(d)
    BY <1>6 DEF GoesOn, SaysAlso
<1>7. CASE Ble!Executes(f)
  <2> DEFINE e == [rest EXCEPT !.busy = last]
  <2>1. Ble!Reaction(f) = e
      BY <1>7 DEF Ble!Reaction
  <2>2. DeviceKept(e)
    <3>1. last \in 0..MaxCalls
        BY ConstantTypes DEF Call
    <3> HIDE DEF FragmentOf, AnswerFragment
    <3> QED BY <1>1, <3>1, Empty DEF DeviceKept, DeviceType
  <2>3. e = [dev EXCEPT !.rx = <<>>, !.busy = last] /\ e.rx = <<>>
      BY <1>1 DEF DeviceKept, DeviceType
  <2>4. dev.busy = 0 /\ Ble!frame(taken).cmd = Ble!Msg /\ Ble!Complete(f)
      BY <1>7 DEF Ble!Executes
  <2>5. f[1] \in Ble!BleCommand => f[1] = Ble!Msg
    <3>1. CASE f[1] \in Ble!BleCommand
      <4>1. taken = <<f>>
          BY <3>1 DEF Ble!Taken
      <4>2. Ble!frame(taken).cmd = taken[1][1]
          BY <1>3, <1>4, FrameIs
      <4> QED BY <2>4, <4>1, <4>2
    <3> QED BY <3>1
  <2>6. f[1] \in Ble!BleCommand \/ dev.rx # <<>>
      BY <2>4 DEF Ble!Complete
  <2> HIDE DEF e
  <2> QED BY <1>7, <2>1, <2>2, <2>3, <2>4, <2>5, <2>6
<1>8. CASE ~Ble!Executes(f) /\ ~Ble!Complete(f)
  <2> DEFINE rx == IF dev.rx = <<>> /\ f[1] \notin Ble!BleCommand THEN <<>> ELSE taken
             e == [dev EXCEPT !.rx = rx]
  <2>1. Ble!Reaction(f) = e
      BY <1>8 DEF Ble!Reaction
  <2>2. rx \in Seq(FragmentOf(dev.max)) /\ rx \in Seq(Seq(Nat))
      BY <1>3, <1>4, Empty
  <2>3. f[1] \notin Ble!BleCommand /\ dev.rx = <<>> => rx = <<>>
      OBVIOUS
  <2> HIDE DEF rx
  <2>4. DeviceKept(e) /\ e.rx = rx /\ e.tx = dev.tx /\ e.busy = dev.busy
    <3> HIDE DEF FragmentOf, AnswerFragment
    <3> QED BY <1>1, <2>2 DEF DeviceKept, DeviceType
  <2> HIDE DEF e
  <2>5. GoesOn(e)
      BY <1>6, <2>4
  <2> QED BY <1>8, <2>1, <2>3, <2>4, <2>5
<1>9. CASE ~Ble!Executes(f) /\ Ble!Complete(f) /\ Ble!frame(taken).cmd = Ble!Msg
  <2> DEFINE e == Ble!Notify(rest, Ble!Frame(Ble!Error, <<last>>))
  <2>1. Ble!Reaction(f) = e
      BY <1>9 DEF Ble!Reaction
  <2>2. DeviceKept(e) /\ e.rx = rest.rx /\ (NumbersAreNoCommands => GoesOn(e))
    <3>1. <<last>> \in Seq(Nat) /\ Len(<<last>>) \in {0, 1}
        BY DEF Call
    <3>2. Ble!Error \in Ble!BleCommand \ {Ble!Msg}
        BY CommandsAre
    <3> HIDE DEF rest
    <3> QED BY <1>5, <3>1, <3>2, SaysSomethingElse
  <2> HIDE DEF e
  <2> QED BY <1>5, <1>9, <2>1, <2>2
<1>10. CASE /\ ~Ble!Executes(f) /\ Ble!Complete(f) /\ Ble!frame(taken).cmd # Ble!Msg
            /\ dev.busy # 0
  <2> DEFINE free == [rest EXCEPT !.busy = 0]
             e == Ble!Notify(free, Ble!AnswerOf(dev.busy, 1))
  <2>1. Ble!Reaction(f) = e
      BY <1>10 DEF Ble!Reaction
  <2>2. DeviceKept(free) /\ free.tx = dev.tx /\ free.busy = 0 /\ free.rx = <<>>
    <3>1. 0 \in 0..MaxCalls
        BY ConstantTypes
    <3> HIDE DEF FragmentOf, AnswerFragment
    <3> QED BY <1>1, <3>1, Empty DEF DeviceKept, DeviceType
  <2> HIDE DEF free
  <2>3. DeviceKept(e) /\ e.rx = free.rx /\ (NumbersAreNoCommands => GoesOn(e))
      BY <1>10, <2>2, AnswersItsCall
  <2> HIDE DEF e
  <2> QED BY <1>10, <2>1, <2>2, <2>3
<1>11. CASE /\ ~Ble!Executes(f) /\ Ble!Complete(f) /\ Ble!frame(taken).cmd # Ble!Msg
            /\ dev.busy = 0
  <2>1. Ble!Reaction(f) = rest
      BY <1>11 DEF Ble!Reaction
  <2>2. GoesOn(rest)
      BY <1>5, <1>6
  <2> HIDE DEF rest
  <2> QED BY <1>5, <1>11, <2>1, <2>2
<1> QED
    BY <1>7, <1>8, <1>9, <1>10, <1>11

-------------------------------------------------------------------------------
(* The first part of the invariant is inductive.                           *)

Fits(s) == s \in Seq(FragmentOf(dev.max))
FitsAnswers(s) == s \in Seq(AnswerFragment(dev.max))
ReceivedType == [parser : Seq(AnswerFragment(dev.max)), waited : 0..Timeout]

LEMMA NoFragments == Fits(<<>>) /\ FitsAnswers(<<>>) /\ Ble!NoRecv \in ReceivedType
<1>1. 0 \in 0..Timeout
    BY ConstantTypes
<1> HIDE DEF FragmentOf, AnswerFragment
<1> QED
    BY <1>1, Empty DEF Fits, FitsAnswers, ReceivedType, Ble!NoRecv

LEMMA TypesHold ==
    BleInv =>
        /\ Fits(out) /\ FitsAnswers(inq) /\ received \in ReceivedType
        /\ Fits(dev.rx) /\ FitsAnswers(dev.tx)
    BY DEF BleInv, BleTyped, Fits, FitsAnswers, ReceivedType

LEMMA TypesWillHold ==
    ASSUME BleInv, DeviceKept(dev'),
           peer' \in [bonding : Ble!BondingState, linked : BOOLEAN],
           revisions' \in {{}, {dev.supports}},
           opened' \in [exists : BOOLEAN, revision : Ble!FidoRevision \cup {"none"}],
           at' \in {"idle"} \cup OpeningPlace \cup CallingPlace,
           last' \in 0..MaxCalls,
           Fits(out'), FitsAnswers(inq'), received' \in ReceivedType,
           result' \in [Call -> Ble!Failures \cup {"none", "ok"}],
           given' \in [Call -> Seq(Nat)],
           vouched' \in BOOLEAN, cut' \in BOOLEAN
    PROVE  BleTyped'
<1> HIDE DEF FragmentOf, AnswerFragment
<1>1. dev'.max = dev.max /\ dev'.supports = dev.supports
    BY DEF DeviceKept
<1> QED
    BY <1>1 DEF BleTyped, DeviceKept, Fits, FitsAnswers, ReceivedType

LEMMA Selected == Ble!select_best(UNION revisions) \in Ble!FidoRevision \cup {"none"}
    BY DEF Ble!select_best, Ble!FidoRevision

LEMMA OpeningKeeps ==
    ASSUME BleInv, Ble!Opening
    PROVE  BleInv'
<1> USE DEF OpeningPlace, CallingPlace
<1>1. /\ peer \in [bonding : Ble!BondingState, linked : BOOLEAN]
      /\ revisions \in {{}, {dev.supports}}
      /\ opened \in [exists : BOOLEAN, revision : Ble!FidoRevision \cup {"none"}]
      /\ last \in 0..MaxCalls
      /\ result \in [Call -> Ble!Failures \cup {"none", "ok"}]
      /\ given \in [Call -> Seq(Nat)]
      /\ vouched \in BOOLEAN /\ cut \in BOOLEAN
    BY DEF BleInv, BleTyped
<1>2. /\ UNCHANGED <<last, out, received, dev, result, given>>
      /\ inq' = inq \/ inq' = <<>>
      /\ at \in {"idle"} \cup OpeningPlace /\ at' \in {"idle"} \cup OpeningPlace
    BY DEF Ble!Opening, Ble!channel, Ble!OpenFails, Ble!enforce_bonded,
           Ble!supported_fido_revisions, Ble!connect, Ble!enforce_bonded_link,
           Ble!Connection_new, Ble!drop, Ble!OpenStep, Ble!Idle
<1>3. /\ peer' \in [bonding : Ble!BondingState, linked : BOOLEAN]
      /\ revisions' \in {{}, {dev.supports}}
      /\ vouched' \in BOOLEAN
    BY <1>1 DEF Ble!Opening, Ble!channel, Ble!OpenFails, Ble!enforce_bonded,
           Ble!supported_fido_revisions, Ble!connect, Ble!enforce_bonded_link,
           Ble!Connection_new, Ble!drop, Ble!OpenStep
<1>4. /\ opened' \in [exists : BOOLEAN, revision : Ble!FidoRevision \cup {"none"}]
      /\ cut' \in BOOLEAN
  <2>1. CASE UNCHANGED opened /\ UNCHANGED cut
      BY <1>1, <2>1
  <2>2. CASE Ble!Connection_new
    <3>1. opened' = [exists |-> TRUE, revision |-> Ble!select_best(UNION revisions)]
          /\ cut' = (cut \/ (dev.tx # <<>> /\ Head(dev.tx)[1] \notin Ble!BleCommand))
        BY <2>2 DEF Ble!Connection_new
    <3> QED BY <3>1, Selected
  <2>3. CASE Ble!drop
      BY <1>1, <2>3 DEF Ble!drop, Ble!NoChannel
  <2>4. (UNCHANGED opened /\ UNCHANGED cut) \/ Ble!Connection_new \/ Ble!drop
      BY DEF Ble!Opening, Ble!channel, Ble!OpenFails, Ble!enforce_bonded,
             Ble!supported_fido_revisions, Ble!connect, Ble!enforce_bonded_link
  <2> QED BY <2>1, <2>2, <2>3, <2>4
<1>5. BleTyped'
  <2>1. DeviceKept(dev') /\ Fits(out') /\ FitsAnswers(inq') /\ received' \in ReceivedType
    <3> HIDE DEF FragmentOf, AnswerFragment
    <3> QED BY <1>2, DeviceIsKept, TypesHold, NoFragments DEF Fits, FitsAnswers
  <2>2. at' \in {"idle"} \cup OpeningPlace \cup CallingPlace
      BY <1>2
  <2> HIDE DEF OpeningPlace, CallingPlace
  <2> QED BY <1>1, <1>2, <1>3, <1>4, <2>1, <2>2, TypesWillHold
<1>6. /\ at' \in OpeningPlace => ~opened'.exists
      /\ (at' = "endpoints" \/ opened'.exists) /\ peer'.linked => vouched'
  <2>1. /\ at \in OpeningPlace => ~opened.exists
        /\ (at = "endpoints" \/ opened.exists) /\ peer.linked => vouched
      BY DEF BleInv, BleLocated
  <2>2. CASE Ble!channel
      BY <1>1, <2>1, <2>2 DEF Ble!channel, Ble!OpenStep
  <2>3. CASE Ble!OpenFails
      BY <1>1, <2>1, <2>3 DEF Ble!OpenFails, Ble!OpenStep
  <2>4. CASE Ble!enforce_bonded
      BY <1>1, <2>1, <2>4 DEF Ble!enforce_bonded, Ble!OpenStep
  <2>5. CASE Ble!supported_fido_revisions
      BY <1>1, <2>1, <2>5 DEF Ble!supported_fido_revisions, Ble!OpenStep
  <2>6. CASE Ble!connect
      BY <1>1, <2>1, <2>6 DEF Ble!connect, Ble!OpenStep
  <2>7. CASE Ble!enforce_bonded_link
      BY <1>1, <2>1, <2>7 DEF Ble!enforce_bonded_link, Ble!bonded_or_refused, Ble!OpenStep
  <2>8. CASE Ble!Connection_new
      BY <1>1, <2>1, <2>8 DEF Ble!Connection_new, Ble!OpenStep
  <2>9. CASE Ble!drop
      BY <1>1, <2>1, <2>9 DEF Ble!drop, Ble!NoChannel, Ble!Idle
  <2> QED BY <2>2, <2>3, <2>4, <2>5, <2>6, <2>7, <2>8, <2>9 DEF Ble!Opening
<1>7. BleLocated'
    BY <1>2, <1>6 DEF BleInv, BleLocated
<1> QED
    BY <1>5, <1>7 DEF BleInv

(* What the device does of itself: it answers, says that it still works or  *)
(* pings, or a notification of it reaches the stream.                      *)
LEMMA AnsweringIs ==
    ASSUME BleInv, Ble!DeviceAnswers
    PROVE  DeviceKept(dev') /\ dev'.rx = dev.rx /\ (NumbersAreNoCommands => GoesOn(dev'))
<1> DEFINE free == [dev EXCEPT !.busy = 0]
<1>1. dev.busy # 0 /\ Ble!MayFragment(dev.max)
    BY DEF BleInv, BleLocated, Ble!DeviceAnswers
<1>2. DeviceKept(free) /\ free.tx = dev.tx /\ free.busy = 0 /\ free.rx = dev.rx
  <2>1. 0 \in 0..MaxCalls
      BY ConstantTypes
  <2> HIDE DEF FragmentOf, AnswerFragment
  <2> QED BY <2>1, DeviceIsKept DEF DeviceKept, DeviceType
<1>3. PICK msg \in {Ble!AnswerOf(dev.busy, bytes) : bytes \in AnswerSizes}
                  \cup {Ble!Frame(Ble!Error, <<dev.busy>>), Ble!Frame(Ble!Cancel, <<>>)} :
           dev' = Ble!Notify(free, msg)
    BY DEF Ble!DeviceAnswers, Ble!DeviceChange
<1> HIDE DEF free
<1>4. CASE \E bytes \in AnswerSizes : msg = Ble!AnswerOf(dev.busy, bytes)
    BY <1>1, <1>2, <1>3, <1>4, AnswersItsCall
<1>5. CASE msg = Ble!Frame(Ble!Error, <<dev.busy>>)
  <2>1. <<dev.busy>> \in Seq(Nat) /\ Len(<<dev.busy>>) \in {0, 1}
    <3>1. dev.busy \in Nat
        BY DeviceIsKept
    <3> QED BY <3>1
  <2>2. Ble!Error \in Ble!BleCommand \ {Ble!Msg}
      BY CommandsAre
  <2> QED BY <1>1, <1>2, <1>3, <1>5, <2>1, <2>2, SaysSomethingElse
<1>6. CASE msg = Ble!Frame(Ble!Cancel, <<>>)
  <2>1. <<>> \in Seq(Nat) /\ Len(<<>>) \in {0, 1}
      OBVIOUS
  <2>2. Ble!Cancel \in Ble!BleCommand \ {Ble!Msg}
      BY CommandsAre
  <2> QED BY <1>1, <1>2, <1>3, <1>6, <2>1, <2>2, SaysSomethingElse
<1> QED
    BY <1>4, <1>5, <1>6

LEMMA ExtraIs ==
    ASSUME BleInv, Ble!DeviceExtra
    PROVE  DeviceKept(dev') /\ dev'.rx = dev.rx /\ (NumbersAreNoCommands => GoesOn(dev'))
<1>1. dev.busy # 0 /\ Ble!MayFragment(dev.max) /\ DeviceKept(dev)
    BY DeviceIsKept DEF BleInv, BleLocated, Ble!DeviceExtra
<1>2. PICK cmd \in {Ble!Keepalive, Ble!Ping} : dev' = Ble!Notify(dev, Ble!Frame(cmd, <<dev.busy>>))
    BY DEF Ble!DeviceExtra, Ble!DeviceChange
<1>3. <<dev.busy>> \in Seq(Nat) /\ Len(<<dev.busy>>) \in {0, 1}
  <2>1. dev.busy \in Nat
      BY DeviceIsKept
  <2> QED BY <2>1
<1>4. cmd \in Ble!BleCommand \ {Ble!Msg}
    BY <1>2, CommandsAre
<1> QED
    BY <1>1, <1>2, <1>3, <1>4, SaysSomethingElse

LEMMA NotifyingIs ==
    ASSUME BleInv, Ble!DeviceNotifies
    PROVE  /\ DeviceKept(dev') /\ dev' = [dev EXCEPT !.tx = Tail(dev.tx)] /\ dev.tx # <<>>
           /\ FitsAnswers(inq') /\ (inq' = inq \/ inq' = Append(inq, Head(dev.tx)))
<1>1. DeviceKept(dev) /\ FitsAnswers(inq)
    BY DeviceIsKept, TypesHold
<1>2. /\ dev.tx # <<>> /\ dev' = [dev EXCEPT !.tx = Tail(dev.tx)]
      /\ inq' = inq \/ inq' = Append(inq, Head(dev.tx))
    BY DEF Ble!DeviceNotifies, Ble!DeviceChange
<1> HIDE DEF FragmentOf, AnswerFragment
<1>3. /\ Head(dev.tx) \in AnswerFragment(dev.max)
      /\ Tail(dev.tx) \in Seq(AnswerFragment(dev.max))
    BY <1>1, <1>2, Split DEF DeviceKept
<1>4. Tail(dev.tx) \in Seq(Seq(Nat))
    BY <1>3, Wider
<1>5. DeviceKept(dev')
    BY <1>1, <1>2, <1>3, <1>4 DEF DeviceKept, DeviceType
<1>6. FitsAnswers(inq')
    BY <1>1, <1>2, <1>3, AppendProperties, SMTT(30) DEF FitsAnswers
<1> QED
    BY <1>2, <1>5, <1>6

(* The device and its link. *)
LEMMA OutsideKeeps ==
    ASSUME BleInv, Ble!Outside
    PROVE  BleInv'
<1> DEFINE Quiet == UNCHANGED <<revisions, opened, at, last, out, received, result, given, cut>>
<1>1. DeviceKept(dev) /\ Fits(out) /\ FitsAnswers(inq) /\ received \in ReceivedType
    BY DeviceIsKept, TypesHold
<1>2. ASSUME Quiet, DeviceKept(dev'), FitsAnswers(inq'), vouched' \in BOOLEAN,
             peer' \in [bonding : Ble!BondingState, linked : BOOLEAN],
             opened.exists \/ at = "endpoints" =>
                (peer'.linked => peer.linked /\ vouched' = vouched)
      PROVE  BleInv'
  <2>1. BleTyped'
    <3>1. /\ revisions' \in {{}, {dev.supports}}
          /\ opened' \in [exists : BOOLEAN, revision : Ble!FidoRevision \cup {"none"}]
          /\ at' \in {"idle"} \cup OpeningPlace \cup CallingPlace
          /\ last' \in 0..MaxCalls
          /\ result' \in [Call -> Ble!Failures \cup {"none", "ok"}]
          /\ given' \in [Call -> Seq(Nat)]
          /\ cut' \in BOOLEAN
        BY <1>2 DEF BleInv, BleTyped
    <3>2. Fits(out') /\ received' \in ReceivedType
        BY <1>1, <1>2
    <3> HIDE DEF Quiet
    <3> QED BY <1>2, <3>1, <3>2, TypesWillHold
  <2>2. dev'.max = dev.max /\ (dev'.busy # 0 => Ble!MayFragment(dev.max))
      BY <1>2 DEF DeviceKept
  <2>3. BleLocated'
      BY <1>2, <2>2 DEF BleInv, BleLocated, Ble!MayFragment
  <2> QED BY <2>1, <2>3 DEF BleInv
<1>3. /\ peer \in [bonding : Ble!BondingState, linked : BOOLEAN]
      /\ vouched \in BOOLEAN
    BY DEF BleInv, BleTyped
<1>4. CASE Ble!DeviceAnswers
  <2>1. Quiet /\ UNCHANGED <<peer, inq, vouched>>
      BY <1>4 DEF Ble!DeviceAnswers, Ble!DeviceChange
  <2>2. DeviceKept(dev')
      BY <1>4, AnsweringIs
  <2> QED BY <1>1, <1>2, <1>3, <2>1, <2>2
<1>5. CASE Ble!DeviceExtra
  <2>1. Quiet /\ UNCHANGED <<peer, inq, vouched>>
      BY <1>5 DEF Ble!DeviceExtra, Ble!DeviceChange
  <2>2. DeviceKept(dev')
      BY <1>5, ExtraIs
  <2> QED BY <1>1, <1>2, <1>3, <2>1, <2>2
<1>6. CASE Ble!DeviceNotifies
  <2>1. Quiet /\ UNCHANGED <<peer, vouched>>
      BY <1>6 DEF Ble!DeviceNotifies, Ble!DeviceChange
  <2>2. DeviceKept(dev') /\ FitsAnswers(inq')
      BY <1>6, NotifyingIs
  <2> QED BY <1>1, <1>2, <1>3, <2>1, <2>2
<1>7. CASE Ble!BondingChanges
  <2>1. /\ Quiet /\ UNCHANGED <<inq, dev, vouched>>
        /\ \E b \in Ble!BondingState : peer' = [peer EXCEPT !.bonding = b]
      BY <1>7 DEF Ble!BondingChanges
  <2>2. peer'.linked = peer.linked /\ peer' \in [bonding : Ble!BondingState, linked : BOOLEAN]
      BY <1>3, <2>1
  <2> QED BY <1>1, <1>2, <1>3, <2>1, <2>2
<1>8. CASE Ble!LinkLost
  <2>1. /\ Quiet /\ UNCHANGED inq
        /\ vouched' = FALSE /\ peer' = [peer EXCEPT !.linked = FALSE]
        /\ dev' = [dev EXCEPT !.rx = <<>>, !.busy = 0, !.tx = <<>>]
      BY <1>8 DEF Ble!LinkLost
  <2>2. ~peer'.linked /\ peer' \in [bonding : Ble!BondingState, linked : BOOLEAN]
      BY <1>3, <2>1
  <2>3. DeviceKept(dev')
    <3>1. 0 \in 0..MaxCalls
        BY ConstantTypes
    <3> HIDE DEF FragmentOf, AnswerFragment
    <3> QED BY <1>1, <2>1, <3>1, Empty DEF DeviceKept, DeviceType
  <2> QED BY <1>1, <1>2, <2>1, <2>2, <2>3
<1> QED
    BY <1>4, <1>5, <1>6, <1>7, <1>8 DEF Ble!Outside

(* A call returns. *)
LEMMA Returned ==
    ASSUME BleInv, at \in CallingPlace,
           NEW r \in Ble!Failures \cup {"ok"}, NEW d \in Seq(Nat), Ble!Return(r, d),
           r # "ok" => d = <<>>,
           NumbersAreNoCommands /\ r = "ok" => d # <<>> /\ d[1] \in Call,
           UNCHANGED <<peer, revisions, opened, last, vouched>>,
           DeviceKept(dev'), FitsAnswers(inq'), cut' \in BOOLEAN
    PROVE  BleInv'
<1>1. /\ last \in Call /\ opened.exists /\ Ble!MayFragment(dev.max)
      /\ (at = "endpoints" \/ opened.exists) /\ peer.linked => vouched
      /\ \A c \in Call : result[c] = "none" <=> (c > last \/ (c = last /\ at \in CallingPlace))
      /\ \A c \in Call : result[c] # "ok" => given[c] = <<>>
      /\ NumbersAreNoCommands =>
            \A c \in Call : result[c] = "ok" => given[c] # <<>> /\ given[c][1] \in Call
    BY DEF BleInv, BleLocated
<1>2. result \in [Call -> Ble!Failures \cup {"none", "ok"}] /\ given \in [Call -> Seq(Nat)]
    BY DEF BleInv, BleTyped
<1>3. /\ result' = [result EXCEPT ![last] = r] /\ given' = [given EXCEPT ![last] = d]
      /\ at' = "idle" /\ out' = <<>> /\ received' = Ble!NoRecv
    BY DEF Ble!Return
<1>4. /\ result'[last] = r /\ given'[last] = d
      /\ \A c \in Call : c # last => result'[c] = result[c] /\ given'[c] = given[c]
      /\ result' \in [Call -> Ble!Failures \cup {"none", "ok"}] /\ given' \in [Call -> Seq(Nat)]
    BY <1>1, <1>2, <1>3
<1>5. BleTyped'
  <2>1. /\ peer' \in [bonding : Ble!BondingState, linked : BOOLEAN]
        /\ revisions' \in {{}, {dev.supports}}
        /\ opened' \in [exists : BOOLEAN, revision : Ble!FidoRevision \cup {"none"}]
        /\ at' \in {"idle"} \cup OpeningPlace \cup CallingPlace
        /\ last' \in 0..MaxCalls
        /\ vouched' \in BOOLEAN
      BY <1>3 DEF BleInv, BleTyped
  <2>2. Fits(out') /\ received' \in ReceivedType
      BY <1>3, NoFragments
  <2> QED BY <1>4, <2>1, <2>2, TypesWillHold
<1>6. at' = "idle" /\ at' \notin OpeningPlace /\ at' \notin CallingPlace
    BY <1>3 DEF OpeningPlace, CallingPlace
<1>7. dev'.max = dev.max /\ (dev'.busy # 0 => Ble!MayFragment(dev.max))
    BY DEF DeviceKept
<1>8. r # "none" /\ \A c \in Call : c = last \/ c # last
    BY DEF Ble!Failures
<1>9. \A c \in Call : result'[c] = "none" <=> c > last
    BY <1>1, <1>4, <1>8 DEF Call
<1>10. /\ \A c \in Call : result'[c] # "ok" => given'[c] = <<>>
       /\ NumbersAreNoCommands =>
            \A c \in Call : result'[c] = "ok" => given'[c] # <<>> /\ given'[c][1] \in Call
    BY <1>1, <1>4, <1>8
<1>11. BleLocated'
    BY <1>1, <1>6, <1>7, <1>9, <1>10 DEF BleLocated, Ble!MayFragment
<1> QED
    BY <1>5, <1>11 DEF BleInv

(* A call goes on. *)
LEMMA StaysInCall ==
    ASSUME BleInv, at \in CallingPlace, at' \in CallingPlace,
           UNCHANGED <<peer, revisions, opened, last, vouched, result, given>>,
           DeviceKept(dev'), FitsAnswers(inq'), Fits(out'), received' \in ReceivedType,
           cut' \in BOOLEAN,
           NumbersAreNoCommands /\ at' = "send" =>
             \A i \in DOMAIN out' : out'[i][1] \in Ble!BleCommand => i = 1 /\ out'[i][1] = Ble!Msg,
           at' = "cancel" /\ out' # <<>> => out'[1][1] = Ble!Cancel
    PROVE  BleInv'
<1>1. BleTyped'
  <2>1. /\ peer' \in [bonding : Ble!BondingState, linked : BOOLEAN]
        /\ revisions' \in {{}, {dev.supports}}
        /\ opened' \in [exists : BOOLEAN, revision : Ble!FidoRevision \cup {"none"}]
        /\ at' \in {"idle"} \cup OpeningPlace \cup CallingPlace
        /\ last' \in 0..MaxCalls
        /\ vouched' \in BOOLEAN
        /\ result' \in [Call -> Ble!Failures \cup {"none", "ok"}] /\ given' \in [Call -> Seq(Nat)]
      BY DEF BleInv, BleTyped
  <2> QED BY <2>1, TypesWillHold
<1>2. dev'.max = dev.max
    BY DEF DeviceKept
<1>3. BleLocated'
  <2>1. /\ last \in Call /\ opened.exists /\ Ble!MayFragment(dev.max)
        /\ (at = "endpoints" \/ opened.exists) /\ peer.linked => vouched
        /\ \A c \in Call : result[c] = "none" <=> (c > last \/ (c = last /\ at \in CallingPlace))
        /\ \A c \in Call : result[c] # "ok" => given[c] = <<>>
        /\ NumbersAreNoCommands =>
              \A c \in Call : result[c] = "ok" => given[c] # <<>> /\ given[c][1] \in Call
      BY DEF BleInv, BleLocated
  <2>2. at' \notin OpeningPlace /\ at' # "endpoints"
      BY DEF OpeningPlace, CallingPlace
  <2> QED BY <1>2, <2>1, <2>2 DEF BleLocated, Ble!MayFragment
<1> QED
    BY <1>1, <1>3 DEF BleInv

LEMMA FirstOf ==
    ASSUME NEW S, NEW s \in Seq(S), NEW x \in S
    PROVE  /\ Append(s, x) \in Seq(S) /\ Append(s, x) # <<>>
           /\ Append(s, x)[1] = (IF s = <<>> THEN x ELSE s[1])
           /\ Append(s, x)[1] \in S
<1>1. /\ Append(s, x) \in Seq(S) /\ Append(s, x) # <<>>
      /\ Len(s) \in Nat /\ (s # <<>> => 1 \in 1..Len(s)) /\ (s = <<>> => Len(s) = 0)
      /\ \A i \in 1..Len(s) : Append(s, x)[i] = s[i] /\ s[i] \in S
      /\ Append(s, x)[Len(s) + 1] = x
    BY AppendProperties
<1>2. CASE s = <<>>
  <2>1. Len(s) + 1 = 1
      BY <1>1, <1>2
  <2> QED BY <1>1, <1>2, <2>1
<1>3. CASE s # <<>>
    BY <1>1, <1>3
<1> QED
    BY <1>2, <1>3

(* One notification taken from the stream: the call goes on with what the  *)
(* parser holds, fails, or is given the data of the frame.                 *)
TakenFragments == Append(received.parser, Head(inq))

LEMMA Receives ==
    ASSUME BleInv, Ble!frame_recv
    PROVE  /\ at = "recv" /\ inq # <<>> /\ inq' = Tail(inq) /\ FitsAnswers(inq')
           /\ Head(inq) \in Seq(Nat)
           /\ TakenFragments[1] = IF received.parser = <<>> THEN Head(inq) ELSE received.parser[1]
           /\ UNCHANGED <<peer, revisions, opened, last, vouched, dev, cut>>
           /\ \/ /\ UNCHANGED <<at, out, result, given>>
                 /\ received' \in ReceivedType
                 /\ received'.parser \in {<<>>, TakenFragments}
              \/ \E r \in Ble!Failures : Ble!Return(r, <<>>)
              \/ /\ Ble!Return("ok", Ble!frame(TakenFragments).data)
                 /\ Ble!frame(TakenFragments).data \in Seq(Nat)
                 /\ NumbersAreNoCommands =>
                      /\ TakenFragments[1][1] = Ble!Msg /\ TakenFragments[1][4] \in Call
                      /\ Ble!frame(TakenFragments).data # <<>>
                      /\ Ble!frame(TakenFragments).data[1] = TakenFragments[1][4]
<1> DEFINE taken == TakenFragments
           message == Ble!frame(taken)
<1>1. /\ at = "recv" /\ inq # <<>> /\ inq' = Tail(inq)
      /\ UNCHANGED <<peer, revisions, opened, last, vouched, dev, cut>>
    BY DEF Ble!frame_recv, Ble!UnchangedRequest, Ble!UnchangedLink
<1>2. FitsAnswers(inq) /\ received.parser \in Seq(AnswerFragment(dev.max)) /\ 0 \in 0..Timeout
    BY TypesHold, ConstantTypes DEF ReceivedType
<1>3. Head(inq) \in AnswerFragment(dev.max) /\ FitsAnswers(inq')
  <2> HIDE DEF AnswerFragment
  <2> QED BY <1>1, <1>2, Split DEF FitsAnswers
<1>4. /\ taken \in Seq(AnswerFragment(dev.max)) /\ taken # <<>>
      /\ taken[1] = IF received.parser = <<>> THEN Head(inq) ELSE received.parser[1]
      /\ taken[1] \in AnswerFragment(dev.max)
  <2> HIDE DEF AnswerFragment
  <2> QED BY <1>2, <1>3, FirstOf DEF TakenFragments
<1>5. Head(inq) \in Seq(Nat) /\ taken \in Seq(Seq(Nat))
    BY <1>3, <1>4, Wider
<1>6. /\ message.cmd = taken[1][1] /\ message.data \in Seq(Nat)
      /\ Len(taken[1]) >= 4 => message.data # <<>> /\ message.data[1] = taken[1][4]
    BY <1>4, <1>5, FrameIs
<1>7. ASSUME NEW p \in {<<>>, taken} PROVE [parser |-> p, waited |-> 0] \in ReceivedType
  <2>1. p \in Seq(AnswerFragment(dev.max))
    <3> HIDE DEF AnswerFragment, taken
    <3> QED BY <1>4, <1>7, Empty
  <2> QED BY <1>2, <2>1 DEF ReceivedType
<1>8. \/ Ble!Return("InvalidFraming", <<>>)
      \/ /\ received' = [parser |-> taken, waited |-> 0] /\ UNCHANGED <<at, out, result, given>>
      \/ /\ received' = [parser |-> Ble!AfterFrame(message), waited |-> 0]
         /\ UNCHANGED <<at, out, result, given>>
      \/ Ble!Return("Canceled", <<>>) \/ Ble!Return("OperationFailed", <<>>)
      \/ /\ Ble!Return("ok", message.data) /\ Ble!HasFrame(taken)
         /\ message.cmd \notin {Ble!Keepalive, Ble!Ping, Ble!Cancel, Ble!Error}
  <2> HIDE DEF message
  <2> QED BY DEF Ble!frame_recv, Ble!IsKeepalive, TakenFragments, message
<1>9. Ble!AfterFrame(message) \in {<<>>, taken}
    BY DEF Ble!AfterFrame, TakenFragments
<1>10. CASE \/ Ble!Return("InvalidFraming", <<>>) \/ Ble!Return("Canceled", <<>>)
            \/ Ble!Return("OperationFailed", <<>>)
    BY <1>1, <1>3, <1>4, <1>5, <1>10 DEF Ble!Failures
<1>11. CASE /\ \E p \in {<<>>, taken} : received' = [parser |-> p, waited |-> 0]
            /\ UNCHANGED <<at, out, result, given>>
    BY <1>1, <1>3, <1>4, <1>5, <1>7, <1>11
<1>12. CASE /\ Ble!Return("ok", message.data) /\ Ble!HasFrame(taken)
            /\ message.cmd \notin {Ble!Keepalive, Ble!Ping, Ble!Cancel, Ble!Error}
  <2>1. taken[1][1] = Ble!Msg
    <3>1. taken[1][1] \in Ble!BleCommand
        BY <1>12 DEF Ble!HasFrame
    <3> QED BY <1>6, <1>12, <3>1, CommandsAre
  <2>2. NumbersAreNoCommands => Len(taken[1]) >= 4 /\ taken[1][4] \in Call
      BY <1>4, <2>1 DEF AnswerFragment
  <2> QED BY <1>1, <1>3, <1>4, <1>5, <1>6, <1>12, <2>1, <2>2
<1> QED
    BY <1>8, <1>9, <1>10, <1>11, <1>12

(* A write of a request. *)
LEMMA Writes ==
    ASSUME BleInv, Ble!frame_send
    PROVE  /\ at = "send" /\ UNCHANGED <<peer, revisions, opened, last, vouched, inq, cut>>
           /\ \/ /\ out # <<>> /\ Head(out) \in FragmentOf(dev.max)
                 /\ Head(out) = out[1] /\ 1 \in DOMAIN out
                 /\ dev' = Ble!Reaction(Head(out)) /\ out' = Tail(out) /\ Fits(out')
                 /\ \A i \in DOMAIN out' : i + 1 \in DOMAIN out /\ i + 1 # 1 /\ out'[i] = out[i + 1]
                 /\ UNCHANGED <<at, received, result, given>>
              \/ Ble!Return("OperationFailed", <<>>) /\ UNCHANGED dev
              \/ /\ out = <<>> /\ at' = "recv" /\ UNCHANGED <<out, received, dev, result, given>>
<1>1. at = "send" /\ UNCHANGED <<peer, revisions, opened, last, vouched, inq, cut>>
    BY DEF Ble!frame_send, Ble!UnchangedLink
<1>2. \/ /\ out # <<>> /\ dev' = Ble!Reaction(Head(out)) /\ out' = Tail(out)
         /\ UNCHANGED <<at, received, result, given>>
      \/ Ble!Return("OperationFailed", <<>>) /\ UNCHANGED dev
      \/ /\ out = <<>> /\ at' = "recv" /\ UNCHANGED <<out, received, dev, result, given>>
    BY DEF Ble!frame_send
<1>3. ASSUME out # <<>>, out' = Tail(out)
      PROVE  /\ Head(out) \in FragmentOf(dev.max) /\ Head(out) = out[1] /\ 1 \in DOMAIN out
             /\ Fits(out')
             /\ \A i \in DOMAIN out' : i + 1 \in DOMAIN out /\ i + 1 # 1 /\ out'[i] = out[i + 1]
  <2>1. out \in Seq(FragmentOf(dev.max))
      BY TypesHold DEF Fits
  <2> HIDE DEF FragmentOf
  <2>2. /\ Len(out) \in Nat /\ Len(out) > 0 /\ DOMAIN out = 1..Len(out)
        /\ Head(out) = out[1] /\ Head(out) \in FragmentOf(dev.max)
        /\ out' \in Seq(FragmentOf(dev.max)) /\ DOMAIN out' = 1..(Len(out) - 1)
        /\ \A i \in 1..(Len(out) - 1) : out'[i] = out[i + 1]
      BY <1>3, <2>1, Split
  <2> QED BY <2>2 DEF Fits
<1> QED
    BY <1>1, <1>2, <1>3

(* The cancellation, and the end of the call with it. *)
LEMMA CancelIs ==
    ASSUME BleInv, Ble!frame_recv_times_out
    PROVE  /\ at = "recv" /\ at' = "cancel" /\ Fits(out') /\ out' # <<>> /\ out'[1][1] = Ble!Cancel
           /\ UNCHANGED <<peer, revisions, opened, last, vouched, inq, received, dev, result,
                          given, cut>>
<1>1. /\ at = "recv" /\ at' = "cancel" /\ out' = FragmentsOf(Ble!Cancel, <<>>, dev.max)
      /\ UNCHANGED <<peer, revisions, opened, last, vouched, inq, received, dev, result,
                     given, cut>>
    BY DEF Ble!frame_recv_times_out, Ble!CancelFragments, FragmentsOf, Ble!UnchangedRequest,
           Ble!UnchangedLink
<1>2. Ble!MayFragment(dev.max) /\ dev.max \in ControlPoints
    BY <1>1, DeviceIsKept DEF BleInv, BleLocated, CallingPlace
<1>3. <<>> \in Seq(Nat) /\ Len(<<>>) = 0 /\ Ble!Cancel \in Ble!BleCommand
    BY CommandsAre
<1>4. LET fs == FragmentsOf(Ble!Cancel, <<>>, dev.max)
      IN  fs \in Seq(FragmentOf(dev.max)) /\ fs # <<>> /\ fs[1][1] = Ble!Cancel
  <2> DEFINE nothing == <<>>
  <2>1. nothing \in Seq(Nat) /\ Len(nothing) \in BleRequestSizes \cup AnswerSizes \cup {0, 1}
      BY <1>3
  <2> HIDE DEF nothing, FragmentOf
  <2>2. LET fs == FragmentsOf(Ble!Cancel, nothing, dev.max)
        IN  fs \in Seq(FragmentOf(dev.max)) /\ fs # <<>> /\ fs[1][1] = Ble!Cancel
      BY <1>2, <1>3, <2>1, BegunOnce
  <2> QED BY <2>2 DEF nothing
<1> QED
    BY <1>1, <1>4 DEF Fits

LEMMA Cancels ==
    ASSUME BleInv, Ble!send_cancel
    PROVE  /\ at = "cancel" /\ Ble!Return("Timeout", <<>>)
           /\ UNCHANGED <<peer, revisions, opened, last, vouched, inq>> /\ cut' \in BOOLEAN
           /\ DeviceKept(dev')
           /\ NumbersAreNoCommands => GoesOn(dev')
<1>1. /\ at = "cancel" /\ Ble!Return("Timeout", <<>>)
      /\ UNCHANGED <<peer, revisions, opened, last, vouched, inq>>
      /\ cut' = (cut \/ received.parser # <<>>)
      /\ dev' = dev \/ (out # <<>> /\ dev' = Ble!Reaction(Head(out)))
    BY DEF Ble!send_cancel, Ble!LeftInTheMiddle, Ble!UnchangedLink
<1>2. cut' \in BOOLEAN
    BY <1>1 DEF BleInv, BleTyped
<1>3. CASE dev' = dev
    BY <1>1, <1>2, <1>3, DeviceIsKept DEF GoesOn, SaysAlso
<1>4. CASE out # <<>> /\ dev' = Ble!Reaction(Head(out))
  <2>1. last \in Call /\ Ble!MayFragment(dev.max) /\ out[1][1] = Ble!Cancel
      BY <1>1, <1>4 DEF BleInv, BleLocated, CallingPlace
  <2>2. Head(out) \in FragmentOf(dev.max) /\ Head(out) = out[1]
    <3> HIDE DEF FragmentOf
    <3> QED BY <1>4, TypesHold, Split DEF Fits
  <2>3. ~Ble!Executes(Head(out))
    <3>1. Ble!Executes(Head(out)) /\ Head(out)[1] \in Ble!BleCommand => Head(out)[1] = Ble!Msg
        BY <2>1, <2>2, Reacts
    <3> QED BY <2>1, <2>2, <3>1, CommandsAre
  <2>4. /\ DeviceKept(Ble!Reaction(Head(out)))
        /\ NumbersAreNoCommands => GoesOn(Ble!Reaction(Head(out)))
      BY <2>1, <2>2, <2>3, Reacts
  <2> QED BY <1>1, <1>2, <1>4, <2>4
<1> QED
    BY <1>1, <1>3, <1>4

(* A call begins: its request is cut, or it ends at once. *)
Asks ==
    /\ at' = "send" /\ Ble!MayFragment(dev.max) /\ Fits(out') /\ UNCHANGED result
    /\ NumbersAreNoCommands =>
         \A i \in DOMAIN out' : out'[i][1] \in Ble!BleCommand => i = 1 /\ out'[i][1] = Ble!Msg

EndsAtOnce ==
    /\ \E r \in Ble!Failures : result' = [result EXCEPT ![last + 1] = r]
    /\ UNCHANGED <<at, out>>

LEMMA CallBegins ==
    ASSUME BleInv, Ble!Begin
    PROVE  /\ at = "idle" /\ opened.exists /\ last + 1 \in Call /\ last' = last + 1
           /\ UNCHANGED <<peer, revisions, opened, vouched, inq, received, dev, given, cut>>
           /\ Asks \/ EndsAtOnce
<1>1. /\ at = "idle" /\ opened.exists /\ last + 1 \in Call /\ last' = last + 1
      /\ UNCHANGED <<peer, revisions, opened, vouched, inq, received, dev, given, cut>>
  <2>1. last < MaxCalls /\ last \in 0..MaxCalls /\ MaxCalls \in Nat
      BY ConstantTypes DEF Ble!Begin, BleInv, BleTyped
  <2>2. last + 1 \in Call
      BY <2>1 DEF Call
  <2> QED BY <2>2 DEF Ble!Begin, Ble!Idle, Ble!UnchangedLink
<1> DEFINE data == [i \in 1..size' |-> last + 1]
<1>2. /\ size' \in BleRequestSizes
      /\ \/ /\ Ble!MayFragment(dev.max) /\ at' = "send" /\ UNCHANGED result
            /\ out' = FragmentsOf(Ble!Msg, data, dev.max)
         \/ EndsAtOnce
    BY DEF Ble!Begin, FragmentsOf, Ble!Failures, EndsAtOnce
<1>3. data \in Seq(Nat) /\ Len(data) \in BleRequestSizes \cup AnswerSizes \cup {0, 1}
  <2>1. size' \in Nat /\ last + 1 \in Nat
      BY <1>1, <1>2, ConstantTypes DEF Call
  <2> QED BY <1>2, <2>1
<1> HIDE DEF data
<1>4. ASSUME Ble!MayFragment(dev.max), at' = "send", UNCHANGED result,
             out' = FragmentsOf(Ble!Msg, data, dev.max)
      PROVE  Asks
  <2>1. dev.max \in ControlPoints /\ Ble!Msg \in Ble!BleCommand
      BY DeviceIsKept, CommandsAre
  <2> HIDE DEF FragmentOf
  <2>2. LET fs == FragmentsOf(Ble!Msg, data, dev.max)
        IN  /\ fs \in Seq(FragmentOf(dev.max)) /\ fs[1][1] = Ble!Msg
            /\ NumbersAreNoCommands =>
                 \A i \in DOMAIN fs : fs[i][1] \in Ble!BleCommand => i = 1
      BY <1>3, <1>4, <2>1, BegunOnce
  <2> QED BY <1>4, <2>2 DEF Fits, Asks
<1> QED
    BY <1>1, <1>2, <1>4

LEMMA ExchangingKeeps ==
    ASSUME BleInv, Ble!Exchanging
    PROVE  BleInv'
<1>1. /\ DeviceKept(dev) /\ Fits(out) /\ FitsAnswers(inq) /\ received \in ReceivedType
      /\ cut \in BOOLEAN
    BY DeviceIsKept, TypesHold DEF BleInv, BleTyped
<1>2. <<>> \in Seq(Nat) /\ "send" \in CallingPlace /\ "recv" \in CallingPlace /\ "cancel" \in CallingPlace
    BY DEF CallingPlace
<1>3. CASE Ble!Begin
  <2>0. /\ at = "idle" /\ opened.exists /\ last + 1 \in Call /\ last' = last + 1
        /\ UNCHANGED <<peer, revisions, opened, vouched, inq, received, dev, given, cut>>
        /\ Asks \/ EndsAtOnce
      BY <1>3, CallBegins
  <2>1. BleTyped'
    <3>1. /\ peer' \in [bonding : Ble!BondingState, linked : BOOLEAN]
          /\ revisions' \in {{}, {dev.supports}}
          /\ opened' \in [exists : BOOLEAN, revision : Ble!FidoRevision \cup {"none"}]
          /\ vouched' \in BOOLEAN /\ cut' \in BOOLEAN /\ given' \in [Call -> Seq(Nat)]
        BY <2>0 DEF BleInv, BleTyped
    <3>2. at' \in {"idle"} \cup OpeningPlace \cup CallingPlace
        BY <1>2, <2>0 DEF Asks, EndsAtOnce
    <3>3. last' \in 0..MaxCalls
        BY <2>0 DEF Call
    <3>4. result' \in [Call -> Ble!Failures \cup {"none", "ok"}]
      <4>1. result \in [Call -> Ble!Failures \cup {"none", "ok"}]
          BY DEF BleInv, BleTyped
      <4> QED BY <2>0, <4>1 DEF Asks, EndsAtOnce
    <3>5. DeviceKept(dev') /\ FitsAnswers(inq') /\ received' \in ReceivedType
      <4>1. UNCHANGED <<dev, inq, received>>
          BY <2>0
      <4> QED BY <1>1, <4>1 DEF FitsAnswers
    <3>6. Fits(out')
      <4>1. Fits(out') \/ UNCHANGED out
          BY <2>0 DEF Asks, EndsAtOnce
      <4> QED BY <1>1, <4>1
    <3> QED BY <3>1, <3>2, <3>3, <3>4, <3>5, <3>6, TypesWillHold
  <2>2. BleLocated'
    <3>1. /\ at = "idle" /\ opened.exists /\ last + 1 \in Call /\ last' = last + 1
          /\ UNCHANGED <<peer, opened, vouched, dev, given>>
          /\ \/ /\ at' = "send" /\ Ble!MayFragment(dev.max) /\ UNCHANGED result
                /\ NumbersAreNoCommands =>
                     \A i \in DOMAIN out' : out'[i][1] \in Ble!BleCommand =>
                                                i = 1 /\ out'[i][1] = Ble!Msg
             \/ /\ \E r \in Ble!Failures : result' = [result EXCEPT ![last + 1] = r]
                /\ UNCHANGED <<at, out>>
        BY <2>0 DEF Asks, EndsAtOnce
    <3>2. /\ dev.busy # 0 => Ble!MayFragment(dev.max)
          /\ peer.linked => vouched
          /\ \A c \in Call : result[c] = "none" <=> (c > last \/ (c = last /\ at \in CallingPlace))
          /\ \A c \in Call : result[c] # "ok" => given[c] = <<>>
          /\ NumbersAreNoCommands =>
                \A c \in Call : result[c] = "ok" => given[c] # <<>> /\ given[c][1] \in Call
          /\ last \in 0..MaxCalls /\ result \in [Call -> Ble!Failures \cup {"none", "ok"}]
        BY <3>1 DEF BleInv, BleLocated, BleTyped
    <3>3. at \notin CallingPlace /\ \A c \in Call : (c > last <=> (c > last + 1 \/ c = last + 1))
        BY <3>1, <3>2 DEF CallingPlace, Call
    <3>4. CASE at' = "send" /\ UNCHANGED result
      <4>1. \A c \in Call : result'[c] = "none" <=> (c > last' \/ (c = last' /\ at' \in CallingPlace))
          BY <1>2, <3>1, <3>2, <3>3, <3>4
      <4>2. NumbersAreNoCommands =>
                \A i \in DOMAIN out' : out'[i][1] \in Ble!BleCommand => i = 1 /\ out'[i][1] = Ble!Msg
          BY <3>1, <3>4
      <4>3. at' \notin OpeningPlace /\ Ble!MayFragment(dev.max)
          BY <3>1, <3>4 DEF OpeningPlace
      <4> QED BY <1>2, <3>1, <3>2, <3>4, <4>1, <4>2, <4>3 DEF BleLocated, Ble!MayFragment
    <3>5. CASE /\ \E r \in Ble!Failures : result' = [result EXCEPT ![last + 1] = r]
               /\ UNCHANGED <<at, out>>
      <4>1. PICK r \in Ble!Failures : result' = [result EXCEPT ![last + 1] = r]
          BY <3>5
      <4>2. r \notin {"none", "ok"} /\ result'[last + 1] = r
            /\ \A c \in Call : c # last + 1 => result'[c] = result[c]
          BY <3>1, <3>2, <4>1 DEF Ble!Failures
      <4>3. result[last + 1] = "none" /\ last + 1 > last
          BY <3>1, <3>2
      <4>4. \A c \in Call : result'[c] = "none" <=> (c > last' \/ (c = last' /\ at' \in CallingPlace))
          BY <3>1, <3>2, <3>3, <3>5, <4>2, <4>3 DEF Call
      <4>5. /\ \A c \in Call : result'[c] # "ok" => given[c] = <<>>
            /\ NumbersAreNoCommands =>
                \A c \in Call : result'[c] = "ok" => given[c] # <<>> /\ given[c][1] \in Call
          BY <3>2, <4>2, <4>3
      <4>6. at' = "idle" /\ at' \notin OpeningPlace /\ at' \notin CallingPlace
          BY <3>1, <3>5 DEF OpeningPlace, CallingPlace
      <4> QED BY <3>1, <3>2, <4>4, <4>5, <4>6 DEF BleLocated, Ble!MayFragment
    <3> QED BY <3>1, <3>4, <3>5
  <2> QED BY <2>1, <2>2 DEF BleInv
<1>4. CASE Ble!frame_send
  <2>1. at = "send" /\ UNCHANGED <<peer, revisions, opened, last, vouched, inq, cut>>
      BY <1>4, Writes
  <2>2. NumbersAreNoCommands =>
            \A i \in DOMAIN out : out[i][1] \in Ble!BleCommand => i = 1 /\ out[i][1] = Ble!Msg
      BY <2>1 DEF BleInv, BleLocated
  <2>3. CASE /\ out # <<>> /\ Head(out) \in FragmentOf(dev.max)
             /\ dev' = Ble!Reaction(Head(out)) /\ Fits(out')
             /\ \A i \in DOMAIN out' : i + 1 \in DOMAIN out /\ i + 1 # 1 /\ out'[i] = out[i + 1]
             /\ UNCHANGED <<at, received, result, given>>
    <3>1. last \in Call /\ Ble!MayFragment(dev.max)
        BY <1>2, <2>1 DEF BleInv, BleLocated
    <3>2. DeviceKept(dev')
        BY <2>3, <3>1, Reacts
    <3>3. NumbersAreNoCommands =>
            \A i \in DOMAIN out' : out'[i][1] \in Ble!BleCommand => i = 1 /\ out'[i][1] = Ble!Msg
        BY <2>2, <2>3
    <3> QED BY <1>1, <1>2, <2>1, <2>3, <3>2, <3>3, StaysInCall
  <2>4. CASE Ble!Return("OperationFailed", <<>>) /\ UNCHANGED dev
      BY <1>1, <1>2, <2>1, <2>4, Returned DEF Ble!Failures
  <2>5. CASE out = <<>> /\ at' = "recv" /\ UNCHANGED <<out, received, dev, result, given>>
      BY <1>1, <1>2, <2>1, <2>5, StaysInCall
  <2> QED BY <1>4, <2>3, <2>4, <2>5, Writes
<1>5. CASE Ble!frame_recv
  <2>1. /\ at = "recv" /\ FitsAnswers(inq')
        /\ UNCHANGED <<peer, revisions, opened, last, vouched, dev, cut>>
      BY <1>5, Receives
  <2>2. CASE UNCHANGED <<at, out, result, given>> /\ received' \in ReceivedType
      BY <1>1, <1>2, <2>1, <2>2, StaysInCall
  <2>3. CASE \E r \in Ble!Failures : Ble!Return(r, <<>>)
    <3>1. PICK r \in Ble!Failures : Ble!Return(r, <<>>)
        BY <2>3
    <3>2. r # "ok"
        BY DEF Ble!Failures
    <3> QED BY <1>1, <1>2, <2>1, <3>1, <3>2, Returned
  <2>4. CASE /\ Ble!Return("ok", Ble!frame(TakenFragments).data)
             /\ Ble!frame(TakenFragments).data \in Seq(Nat)
             /\ NumbersAreNoCommands =>
                  /\ TakenFragments[1][4] \in Call
                  /\ Ble!frame(TakenFragments).data # <<>>
                  /\ Ble!frame(TakenFragments).data[1] = TakenFragments[1][4]
      BY <1>1, <1>2, <2>1, <2>4, Returned
  <2> QED BY <1>5, <2>2, <2>3, <2>4, Receives
<1>6. CASE Ble!stream_ends
  <2>1. /\ at = "recv" /\ Ble!Return("ConnectionFailed", <<>>)
        /\ UNCHANGED <<peer, revisions, opened, last, vouched, dev, inq, cut>>
      BY <1>6 DEF Ble!stream_ends, Ble!UnchangedRequest, Ble!UnchangedLink
  <2> QED BY <1>1, <1>2, <2>1, Returned DEF Ble!Failures
<1>7. CASE Ble!Tick
  <2>1. /\ at = "recv" /\ received.waited < Timeout
        /\ received' = [received EXCEPT !.waited = @ + 1]
        /\ UNCHANGED <<peer, revisions, opened, last, vouched, dev, inq, cut, at, out, result, given>>
      BY <1>7 DEF Ble!Tick, Ble!UnchangedRequest, Ble!UnchangedLink
  <2>2. received' \in ReceivedType
    <3>1. received.waited + 1 \in 0..Timeout
        BY <1>1, <2>1, ConstantTypes DEF ReceivedType
    <3> HIDE DEF AnswerFragment
    <3> QED BY <1>1, <2>1, <3>1 DEF ReceivedType
  <2> QED BY <1>1, <1>2, <2>1, <2>2, StaysInCall
<1>8. CASE Ble!frame_recv_times_out
    BY <1>1, <1>2, <1>8, CancelIs, StaysInCall
<1>9. CASE Ble!send_cancel
    BY <1>1, <1>2, <1>9, Cancels, Returned DEF Ble!Failures
<1>10. CASE Ble!Abandon
  <2>1. /\ at \in CallingPlace /\ Ble!Return("Aborted", <<>>)
        /\ UNCHANGED <<peer, revisions, opened, last, vouched, dev, inq>>
        /\ cut' = (cut \/ received.parser # <<>>)
      BY <1>10 DEF Ble!Abandon, Ble!LeftInTheMiddle, Ble!UnchangedLink, CallingPlace
  <2>2. cut' \in BOOLEAN
      BY <1>1, <2>1
  <2> QED BY <1>1, <1>2, <2>1, <2>2, Returned DEF Ble!Failures
<1> QED
    BY <1>3, <1>4, <1>5, <1>6, <1>7, <1>8, <1>9, <1>10 DEF Ble!Exchanging

LEMMA BleBegins == Ble!Init => BleInv
<1> SUFFICES ASSUME Ble!Init PROVE BleInv
    OBVIOUS
<1>1. /\ peer \in [bonding : Ble!BondingState, linked : {FALSE}] /\ revisions = {}
      /\ opened = Ble!NoChannel /\ at = "idle" /\ last = 0 /\ out = <<>> /\ inq = <<>>
      /\ received = Ble!NoRecv /\ result = [c \in Call |-> "none"]
      /\ given = [c \in Call |-> <<>>] /\ vouched = FALSE /\ cut = FALSE
      /\ dev \in [rx : {<<>>}, busy : {0}, tx : {<<>>}, max : ControlPoints, supports : Supports]
    BY DEF Ble!Init, Ble!Call, Call
<1>2. dev.rx = <<>> /\ dev.busy = 0 /\ dev.tx = <<>> /\ dev \in DeviceType
  <2>1. 0 \in 0..MaxCalls
      BY ConstantTypes
  <2> QED BY <1>1, <2>1, Empty DEF DeviceType
<1>3. at \notin OpeningPlace /\ at \notin CallingPlace
    BY <1>1 DEF OpeningPlace, CallingPlace
<1>4. BleTyped
  <2>1. Fits(<<>>) /\ FitsAnswers(<<>>) /\ Ble!NoRecv \in ReceivedType
      BY NoFragments
  <2>2. 0 \in 0..MaxCalls
      BY ConstantTypes
  <2>3. opened \in [exists : BOOLEAN, revision : Ble!FidoRevision \cup {"none"}]
      BY <1>1 DEF Ble!NoChannel
  <2>4. peer \in [bonding : Ble!BondingState, linked : BOOLEAN]
      BY <1>1
  <2>5. result \in [Call -> Ble!Failures \cup {"none", "ok"}] /\ given \in [Call -> Seq(Nat)]
      BY <1>1
  <2> HIDE DEF FragmentOf, AnswerFragment, DeviceType
  <2> QED BY <1>1, <1>2, <2>1, <2>2, <2>3, <2>4, <2>5 DEF BleTyped, Fits, FitsAnswers, ReceivedType
<1>5. BleLocated
  <2>1. \A c \in Call : c > last
      BY <1>1 DEF Call
  <2>2. \A c \in Call : result[c] = "none" /\ given[c] = <<>>
      BY <1>1
  <2>3. ~opened.exists /\ at # "endpoints" /\ at # "send" /\ at # "cancel"
      BY <1>1 DEF Ble!NoChannel
  <2> QED BY <1>2, <1>3, <2>1, <2>2, <2>3 DEF BleLocated
<1> QED
    BY <1>4, <1>5 DEF BleInv

LEMMA BleGoesOn == BleInv /\ [Ble!Next]_bleVars => BleInv'
<1> SUFFICES ASSUME BleInv, [Ble!Next]_bleVars PROVE BleInv'
    OBVIOUS
<1>1. CASE Ble!Next
    BY <1>1, OpeningKeeps, ExchangingKeeps, OutsideKeeps DEF Ble!Next
<1>2. CASE UNCHANGED bleVars
  <2>1. UNCHANGED <<peer, revisions, opened, at, last, out, inq, received, dev, result, given,
                    vouched, cut>>
      BY <1>2 DEF bleVars
  <2>2. BleTyped'
    <3> HIDE DEF FragmentOf, AnswerFragment, DeviceType
    <3> QED BY <2>1 DEF BleInv, BleTyped
  <2>3. BleLocated'
      BY <2>1 DEF BleInv, BleLocated, Ble!MayFragment
  <2> QED BY <2>2, <2>3 DEF BleInv
<1> QED
    BY <1>1, <1>2

(* On the link in use.                                                     *)
LinksInv ==
    /\ link \in {"ble", "nfc"}
    /\ IInv
    /\ link = "ble" => BleInv

LEMMA LinksBegin == MCInit => LinksInv
    BY IInvInit, BleBegins DEF MCInit, IdleNfc, LinksInv

LEMMA LinksGoOn == LinksInv /\ [MCNext]_mcvars => LinksInv'
<1> SUFFICES ASSUME LinksInv, [MCNext]_mcvars PROVE LinksInv'
    OBVIOUS
<1>1. /\ UNCHANGED link
      /\ link = "ble" => [Ble!Next]_bleVars /\ UNCHANGED vars
      /\ link = "nfc" => [Next]_vars
    BY DEF LinksInv, MCNext, OnBle, OnNfc, mcvars
<1>2. [Next]_vars
    BY <1>1 DEF LinksInv
<1>3. IInv'
    BY <1>2, IInvNext DEF LinksInv
<1>4. link' = "ble" => BleInv'
    BY <1>1, BleGoesOn DEF LinksInv
<1> QED
    BY <1>1, <1>3, <1>4 DEF LinksInv

LEMMA LinksInvariance == MCSpec => []LinksInv
    BY LinksBegin, LinksGoOn, PTL DEF MCSpec

(* Requests go over Bluetooth only while the link was found bonded since   *)
(* it was made, whatever the user does to the bonding, BlueZ knows of it,  *)
(* and the radio loses in between (manager.rs:232-246, pairing.rs:53-69).  *)
THEOREM BondedLinksOnly == MCSpec => []OnlyOverBondedLinks
<1>1. ASSUME BleInv PROVE Ble!TypeOK /\ Ble!OnlyOverBondedLinks
  <2>1. /\ peer \in [bonding : Ble!BondingState, linked : BOOLEAN]
        /\ opened \in [exists : BOOLEAN, revision : Ble!FidoRevision \cup {"none"}]
        /\ at \in {"idle"} \cup OpeningPlace \cup CallingPlace
        /\ last \in 0..MaxCalls
        /\ result \in [Call -> Ble!Failures \cup {"none", "ok"}]
        /\ vouched \in BOOLEAN /\ cut \in BOOLEAN
        /\ dev \in DeviceType /\ revisions \in {{}, {dev.supports}}
      BY <1>1 DEF BleInv, BleTyped
  <2>2. revisions \subseteq SUBSET Ble!FidoRevision /\ Ble!Cardinality(revisions) <= 1
    <3>1. dev.supports \subseteq Ble!FidoRevision
        BY <2>1, ConstantTypes DEF DeviceType, Ble!FidoRevision
    <3>2. Cardinality({}) = 0 /\ Cardinality({dev.supports}) = 1
        BY FS_EmptySet, FS_Singleton
    <3>3. Ble!Cardinality(revisions) = Cardinality(revisions)
        BY DEF Ble!Cardinality, Cardinality
    <3> QED BY <2>1, <3>1, <3>2, <3>3
  <2>3. /\ \A i \in DOMAIN out : Len(out[i]) \in 1..dev.max
        /\ \A i \in DOMAIN inq : Len(inq[i]) \in 1..dev.max
    <3>1. out \in Seq(FragmentOf(dev.max)) /\ inq \in Seq(FragmentOf(dev.max))
        BY <1>1, TypesHold, Wider DEF Fits, FitsAnswers
    <3>2. /\ \A i \in DOMAIN out : out[i] \in FragmentOf(dev.max)
          /\ \A i \in DOMAIN inq : inq[i] \in FragmentOf(dev.max)
      <4> HIDE DEF FragmentOf
      <4> QED BY <3>1
    <3> QED BY <3>2 DEF FragmentOf
  <2>4. received.waited \in 0..Timeout
      BY <1>1, TypesHold DEF ReceivedType
  <2>5. last \in {0} \cup Ble!Call /\ Ble!Call = Call
      BY <2>1, ConstantTypes DEF Ble!Call, Call
  <2>6. at \in {"idle", "enforce", "read", "select", "verify", "endpoints", "send", "recv", "cancel"}
      BY <2>1 DEF OpeningPlace, CallingPlace
  <2>7. Ble!OnlyOverBondedLinks
      BY <1>1 DEF BleInv, BleLocated, Ble!OnlyOverBondedLinks
  <2>8. /\ peer \in [bonding : Ble!BondingState, linked : BOOLEAN]
        /\ opened \in [exists : BOOLEAN, revision : Ble!FidoRevision \cup {"none"}]
        /\ result \in [Ble!Call -> Ble!Failures \cup {"none", "ok"}]
        /\ vouched \in BOOLEAN /\ cut \in BOOLEAN
      BY <2>1, <2>5
  <2>9. last \in {0} \cup Ble!Call
      BY <2>5
  <2> HIDE DEF Ble!Call, Ble!Failures, Ble!FidoRevision, Ble!BondingState
  <2>10. Ble!TypeOK
      BY <2>2, <2>3, <2>4, <2>6, <2>8, <2>9, Zenon DEF Ble!TypeOK
  <2> QED BY <2>7, <2>10
<1>2. LinksInv => OnlyOverBondedLinks
    BY <1>1 DEF LinksInv, OnlyOverBondedLinks
<1> QED
    BY <1>2, LinksInvariance, PTL

-------------------------------------------------------------------------------
(* An answer is in one place at most, if no fragment's number is a command.*)

(* A step that leaves the notifications where they are.                    *)
LEMMA Unmoved ==
    ASSUME NEW a \in Call, InOnePlace(a),
           GoesOn(dev') \/ (dev'.tx = <<>> /\ dev'.busy = 0),
           inq' = inq \/ inq' = <<>>,
           Parsed(a)' => Parsed(a), WasGiven(a)' => WasGiven(a), ToCome(a)' => ToCome(a)
    PROVE  InOnePlace(a)'
<1>1. a # 0
    BY DEF Call
<1>2. /\ dev'.busy = a => dev.busy = a
      /\ Among(dev'.tx, a) => Among(dev.tx, a) \/ (dev.busy = a /\ dev'.busy = 0)
      /\ OnceAmong(dev'.tx, a)
    BY <1>1, NoneAmong DEF GoesOn, SaysAlso, InOnePlace
<1>3. (Among(inq', a) => Among(inq, a)) /\ OnceAmong(inq', a)
    BY NoneAmong DEF InOnePlace
<1> QED
    BY <1>1, <1>2, <1>3 DEF InOnePlace

LEMMA ToComeNoMore ==
    ASSUME UNCHANGED last, at' # "send", NEW a
    PROVE  ToCome(a)' => ToCome(a)
    BY DEF ToCome

LEMMA ReturnsEmpty ==
    ASSUME BleInv, NEW r, Ble!Return(r, <<>>), NEW a
    PROVE  ~Parsed(a)' /\ (WasGiven(a)' => WasGiven(a)) /\ at' # "send"
<1>1. /\ given' = [given EXCEPT ![last] = <<>>] /\ received' = Ble!NoRecv /\ at' = "idle"
    BY DEF Ble!Return
<1>2. \A c \in Call : given'[c] = <<>> \/ given'[c] = given[c]
    BY <1>1 DEF BleInv, BleTyped
<1>3. received'.parser = <<>>
    BY <1>1 DEF Ble!NoRecv
<1> QED
    BY <1>1, <1>2, <1>3 DEF Parsed, WasGiven

LEMMA ApartNotifying ==
    ASSUME BleInv, NEW a \in Call, InOnePlace(a), Ble!DeviceNotifies
    PROVE  InOnePlace(a)'
<1> DEFINE first == Head(dev.tx)
           rest == Tail(dev.tx)
<1>1. /\ dev' = [dev EXCEPT !.tx = rest] /\ dev.tx # <<>>
      /\ inq' = inq \/ inq' = Append(inq, first)
    BY NotifyingIs
<1>2. dev \in DeviceType /\ dev.tx \in Seq(Seq(Nat)) /\ inq \in Seq(Seq(Nat))
    BY TypesHold, Wider DEF BleInv, BleTyped, FitsAnswers
<1>3. first \in Seq(Nat)
    BY <1>1, <1>2, Split
<1>4. /\ Among(dev.tx, a) <=> Answers(first, a) \/ Among(rest, a)
      /\ OnceAmong(dev.tx, a) => OnceAmong(rest, a) /\ ~(Answers(first, a) /\ Among(rest, a))
    BY <1>1, <1>2, OneLess
<1>5. /\ Among(Append(inq, first), a) <=> Among(inq, a) \/ Answers(first, a)
      /\ OnceAmong(inq, a) /\ (Answers(first, a) => ~Among(inq, a)) => OnceAmong(Append(inq, first), a)
    BY <1>2, <1>3, OneMore
<1>6. UNCHANGED <<at, last, out, received, given>>
    BY DEF Ble!DeviceNotifies, Ble!DeviceChange
<1>7. dev'.tx = rest /\ dev'.busy = dev.busy /\ dev'.rx = dev.rx
    BY <1>1, <1>2 DEF DeviceType
<1> HIDE DEF first, rest
<1>8. (Parsed(a)' <=> Parsed(a)) /\ (WasGiven(a)' <=> WasGiven(a)) /\ (ToCome(a)' <=> ToCome(a))
    BY <1>6, <1>7 DEF Parsed, WasGiven, ToCome
<1> QED
    BY <1>1, <1>4, <1>5, <1>7, <1>8 DEF InOnePlace

LEMMA ApartReceiving ==
    ASSUME BleInv, NumbersAreNoCommands, NEW a \in Call, InOnePlace(a), Ble!frame_recv
    PROVE  InOnePlace(a)'
<1> DEFINE first == Head(inq)
           taken == TakenFragments[1]
<1>1. /\ at = "recv" /\ inq # <<>> /\ inq' = Tail(inq) /\ first \in Seq(Nat)
      /\ taken = IF received.parser = <<>> THEN first ELSE received.parser[1]
      /\ UNCHANGED <<last, dev>>
      /\ \/ /\ UNCHANGED <<at, given>>
            /\ received'.parser \in {<<>>, TakenFragments}
         \/ \E r \in Ble!Failures : Ble!Return(r, <<>>)
         \/ /\ Ble!Return("ok", Ble!frame(TakenFragments).data)
            /\ taken[1] = Ble!Msg
            /\ Ble!frame(TakenFragments).data[1] = taken[4]
    BY Receives
<1>2. inq \in Seq(Seq(Nat))
    BY TypesHold, Wider DEF FitsAnswers
<1>3. /\ Among(inq, a) <=> Answers(first, a) \/ Among(inq', a)
      /\ OnceAmong(inq, a) => OnceAmong(inq', a) /\ ~(Answers(first, a) /\ Among(inq', a))
    BY <1>1, <1>2, OneLess
<1> HIDE DEF first
<1>4. Answers(taken, a) => Parsed(a) \/ Answers(first, a)
    BY <1>1 DEF Parsed
<1> HIDE DEF taken
<1>5. at' # "send"
    BY <1>1 DEF Ble!Return
<1>6. ToCome(a)' => ToCome(a)
    BY <1>1, <1>5, ToComeNoMore
<1>7. \/ ~Parsed(a)' /\ (WasGiven(a)' => WasGiven(a) \/ Answers(taken, a))
      \/ (Parsed(a)' => Answers(taken, a)) /\ (WasGiven(a)' => WasGiven(a))
  <2>1. CASE UNCHANGED <<at, given>> /\ received'.parser \in {<<>>, TakenFragments}
      BY <2>1 DEF Parsed, WasGiven, taken
  <2>2. CASE \E r \in Ble!Failures : Ble!Return(r, <<>>)
      BY <2>2, ReturnsEmpty
  <2>3. CASE /\ Ble!Return("ok", Ble!frame(TakenFragments).data)
             /\ taken[1] = Ble!Msg
             /\ Ble!frame(TakenFragments).data[1] = taken[4]
    <3> DEFINE data == Ble!frame(TakenFragments).data
    <3>1. given' = [given EXCEPT ![last] = data] /\ received' = Ble!NoRecv
        BY <2>3 DEF Ble!Return
    <3>2. data[1] = taken[4]
        BY <2>3
    <3> HIDE DEF data
    <3>3. \A c \in Call : given'[c] = data \/ given'[c] = given[c]
        BY <3>1 DEF BleInv, BleTyped
    <3>4. ~Parsed(a)'
        BY <3>1 DEF Parsed, Ble!NoRecv
    <3>5. WasGiven(a)' => WasGiven(a) \/ Answers(taken, a)
        BY <2>3, <3>2, <3>3 DEF WasGiven, Answers
    <3> QED BY <3>4, <3>5
  <2> QED BY <1>1, <2>1, <2>2, <2>3
<1> QED
    BY <1>1, <1>3, <1>4, <1>6, <1>7 DEF InOnePlace

LEMMA ApartWriting ==
    ASSUME BleInv, NumbersAreNoCommands, NEW a \in Call, InOnePlace(a), Ble!frame_send
    PROVE  InOnePlace(a)'
<1>1. /\ at = "send" /\ UNCHANGED <<last, inq>>
      /\ last \in Call /\ Ble!MayFragment(dev.max)
      /\ \A i \in DOMAIN out : out[i][1] \in Ble!BleCommand => i = 1 /\ out[i][1] = Ble!Msg
    BY Writes DEF BleInv, BleLocated, CallingPlace
<1>2. GoesOn(dev)
    BY DEF GoesOn, SaysAlso
<1>3. CASE Ble!Return("OperationFailed", <<>>) /\ UNCHANGED dev
  <2>1. ~Parsed(a)' /\ (WasGiven(a)' => WasGiven(a)) /\ at' # "send"
      BY <1>3, ReturnsEmpty
  <2>2. ToCome(a)' => ToCome(a)
      BY <1>1, <2>1, ToComeNoMore
  <2> QED BY <1>1, <1>2, <1>3, <2>1, <2>2, Unmoved
<1>4. CASE out = <<>> /\ at' = "recv" /\ UNCHANGED <<out, received, dev, result, given>>
  <2>1. (Parsed(a)' => Parsed(a)) /\ (WasGiven(a)' => WasGiven(a))
      BY <1>4 DEF Parsed, WasGiven
  <2>2. ToCome(a)' => ToCome(a)
      BY <1>1, <1>4, ToComeNoMore
  <2> QED BY <1>1, <1>2, <1>4, <2>1, <2>2, Unmoved
<1>5. CASE /\ out # <<>> /\ Head(out) \in FragmentOf(dev.max)
           /\ Head(out) = out[1] /\ 1 \in DOMAIN out
           /\ dev' = Ble!Reaction(Head(out)) /\ out' = Tail(out) /\ Fits(out')
           /\ \A i \in DOMAIN out' : i + 1 \in DOMAIN out /\ i + 1 # 1 /\ out'[i] = out[i + 1]
           /\ UNCHANGED <<at, received, result, given>>
  <2> DEFINE f == Head(out)
  <2>1. /\ DeviceKept(dev')
        /\ Ble!Executes(f) =>
             /\ dev.busy = 0 /\ dev' = [dev EXCEPT !.rx = <<>>, !.busy = last]
             /\ f[1] \in Ble!BleCommand => f[1] = Ble!Msg
             /\ f[1] \in Ble!BleCommand \/ dev.rx # <<>>
        /\ ~Ble!Executes(f) => GoesOn(dev')
        /\ f[1] \notin Ble!BleCommand /\ dev.rx = <<>> => dev'.rx = <<>>
      BY <1>1, <1>5, Reacts
  <2>2. (Parsed(a)' <=> Parsed(a)) /\ (WasGiven(a)' <=> WasGiven(a))
      BY <1>5 DEF Parsed, WasGiven
  <2>3. out' # <<>> => out'[1][1] \notin Ble!BleCommand
    <3>1. out' # <<>> => 1 \in DOMAIN out'
      <4> HIDE DEF FragmentOf
      <4> QED BY <1>5, Split DEF Fits
    <3> QED BY <1>1, <1>5, <3>1
  <2>4. ToCome(a)' => a > last \/ (a = last /\ dev'.rx # <<>>)
      BY <1>1, <2>3, CommandsAre DEF ToCome
  <2>5. f[1] \in Ble!BleCommand \/ dev.rx # <<>> => ToCome(last)
      BY <1>1, <1>5 DEF ToCome
  <2> HIDE DEF f
  <2>6. CASE ~Ble!Executes(f)
    <3>1. ToCome(a)' => ToCome(a)
      <4>1. dev'.rx # <<>> => ToCome(last)
          BY <2>1, <2>5
      <4> QED BY <2>4, <4>1 DEF ToCome
    <3> QED BY <1>1, <2>1, <2>2, <2>6, <3>1, Unmoved
  <2>7. CASE Ble!Executes(f)
    <3>1. ToCome(last) /\ dev.busy = 0
        BY <2>1, <2>5, <2>7
    <3>2. dev'.tx = dev.tx /\ dev'.busy = last /\ dev'.rx = <<>>
        BY <2>1, <2>7 DEF BleInv, BleTyped, DeviceType
    <3>3. ToCome(a)' => ToCome(a) /\ a # last
        BY <1>1, <2>4, <3>2 DEF ToCome, Call
    <3>4. a = last =>
            ~Among(dev.tx, a) /\ ~Among(inq, a) /\ ~Parsed(a) /\ ~WasGiven(a)
        BY <3>1 DEF InOnePlace
    <3>5. CASE a = last
      <4>1. /\ ~Among(dev'.tx, a) /\ ~Among(inq', a) /\ ~Parsed(a)' /\ ~WasGiven(a)' /\ ~ToCome(a)'
            /\ OnceAmong(dev'.tx, a) /\ OnceAmong(inq', a)
          BY <1>1, <2>2, <3>2, <3>3, <3>4, <3>5 DEF InOnePlace
      <4> QED BY <4>1 DEF InOnePlace
    <3>6. CASE a # last
        BY <1>1, <2>2, <3>2, <3>3, <3>6 DEF InOnePlace
    <3> QED BY <3>5, <3>6
  <2> QED BY <2>6, <2>7
<1> QED
    BY <1>3, <1>4, <1>5, Writes

LEMMA ApartNext ==
    ASSUME BleInv, NumbersAreNoCommands, NEW a \in Call, InOnePlace(a), [Ble!Next]_bleVars
    PROVE  InOnePlace(a)'
<1>1. GoesOn(dev)
    BY DEF GoesOn, SaysAlso
<1>2. ASSUME UNCHANGED <<received, given>>
      PROVE  (Parsed(a)' => Parsed(a)) /\ (WasGiven(a)' => WasGiven(a))
    BY <1>2 DEF Parsed, WasGiven
<1>3. CASE Ble!Opening
  <2>1. /\ UNCHANGED <<last, out, received, dev, result, given>>
        /\ inq' = inq \/ inq' = <<>>
        /\ at' # "send"
      BY <1>3 DEF Ble!Opening, Ble!channel, Ble!OpenFails, Ble!enforce_bonded,
             Ble!supported_fido_revisions, Ble!connect, Ble!enforce_bonded_link,
             Ble!Connection_new, Ble!drop, Ble!OpenStep, Ble!Idle
  <2>2. ToCome(a)' => ToCome(a)
      BY <2>1, ToComeNoMore
  <2> QED BY <1>1, <1>2, <2>1, <2>2, Unmoved
<1>4. ASSUME GoesOn(dev') \/ (dev'.tx = <<>> /\ dev'.busy = 0),
             UNCHANGED <<inq, received, given, last, out, at>>,
             dev'.rx = dev.rx \/ dev'.rx = <<>>
      PROVE  InOnePlace(a)'
  <2>1. ToCome(a)' => ToCome(a)
      BY <1>4 DEF ToCome
  <2> QED BY <1>2, <1>4, <2>1, Unmoved
<1>5. CASE Ble!DeviceAnswers
  <2>1. dev'.rx = dev.rx /\ GoesOn(dev')
      BY <1>5, AnsweringIs
  <2>2. UNCHANGED <<inq, received, given, last, out, at>>
      BY <1>5 DEF Ble!DeviceAnswers, Ble!DeviceChange
  <2> QED BY <1>4, <2>1, <2>2
<1>6. CASE Ble!DeviceExtra
  <2>1. dev'.rx = dev.rx /\ GoesOn(dev')
      BY <1>6, ExtraIs
  <2>2. UNCHANGED <<inq, received, given, last, out, at>>
      BY <1>6 DEF Ble!DeviceExtra, Ble!DeviceChange
  <2> QED BY <1>4, <2>1, <2>2
<1>7. CASE Ble!DeviceNotifies
    BY <1>7, ApartNotifying
<1>8. CASE Ble!BondingChanges \/ UNCHANGED bleVars
  <2>1. UNCHANGED <<inq, received, given, last, out, at, dev>>
      BY <1>8 DEF Ble!BondingChanges, bleVars
  <2> QED BY <1>1, <1>4, <2>1
<1>9. CASE Ble!LinkLost
  <2>1. /\ UNCHANGED <<inq, received, given, last, out, at>>
        /\ dev' = [dev EXCEPT !.rx = <<>>, !.busy = 0, !.tx = <<>>]
      BY <1>9 DEF Ble!LinkLost
  <2>2. dev'.rx = <<>> /\ dev'.busy = 0 /\ dev'.tx = <<>>
      BY <2>1 DEF BleInv, BleTyped, DeviceType
  <2> QED BY <1>4, <2>1, <2>2
<1>10. CASE Ble!Begin
  <2>1. last' = last + 1 /\ last + 1 \in Call /\ UNCHANGED <<inq, received, dev, given>>
      BY <1>10, CallBegins
  <2>2. ToCome(a)' => a > last
    <3>1. last \in 0..MaxCalls
        BY DEF BleInv, BleTyped
    <3> QED BY <2>1, <3>1 DEF ToCome, Call
  <2>3. ToCome(a)' => ToCome(a)
      BY <2>2 DEF ToCome
  <2> QED BY <1>1, <1>2, <2>1, <2>3, Unmoved
<1>11. CASE Ble!frame_send
    BY <1>11, ApartWriting
<1>12. CASE Ble!frame_recv
    BY <1>12, ApartReceiving
<1>13. ASSUME NEW r, Ble!Return(r, <<>>), UNCHANGED <<last, inq>>, GoesOn(dev')
       PROVE  InOnePlace(a)'
  <2>1. ~Parsed(a)' /\ (WasGiven(a)' => WasGiven(a)) /\ at' # "send"
      BY <1>13, ReturnsEmpty
  <2>2. ToCome(a)' => ToCome(a)
      BY <1>13, <2>1, ToComeNoMore
  <2> QED BY <1>13, <2>1, <2>2, Unmoved
<1>14. CASE Ble!stream_ends \/ Ble!Abandon
  <2>1. /\ \E r \in {"ConnectionFailed", "Aborted"} : Ble!Return(r, <<>>)
        /\ UNCHANGED <<last, inq, dev>>
      BY <1>14 DEF Ble!stream_ends, Ble!Abandon
  <2> QED BY <1>1, <1>13, <2>1
<1>15. CASE Ble!send_cancel
    BY <1>13, <1>15, Cancels
<1>16. CASE Ble!Tick
  <2>1. /\ received' = [received EXCEPT !.waited = @ + 1] /\ at = "recv"
        /\ UNCHANGED <<last, inq, dev, at, given>>
      BY <1>16 DEF Ble!Tick, Ble!UnchangedRequest, Ble!UnchangedLink
  <2>2. received'.parser = received.parser
      BY <2>1, TypesHold DEF ReceivedType
  <2>3. (Parsed(a)' => Parsed(a)) /\ (WasGiven(a)' => WasGiven(a))
      BY <2>1, <2>2 DEF Parsed, WasGiven
  <2>4. ToCome(a)' => ToCome(a)
      BY <2>1, ToComeNoMore
  <2> QED BY <1>1, <2>1, <2>3, <2>4, Unmoved
<1>17. CASE Ble!frame_recv_times_out
  <2>1. at' = "cancel" /\ UNCHANGED <<last, inq, received, dev, given>>
      BY <1>17, CancelIs
  <2>2. ToCome(a)' => ToCome(a)
      BY <2>1, ToComeNoMore
  <2> QED BY <1>1, <1>2, <2>1, <2>2, Unmoved
<1> QED
    BY <1>3, <1>5, <1>6, <1>7, <1>8, <1>9, <1>10, <1>11, <1>12, <1>14, <1>15, <1>16, <1>17
       DEF Ble!Next, Ble!Exchanging, Ble!Outside

LEMMA ApartFromTheStart == Ble!Init => Apart
<1> SUFFICES ASSUME Ble!Init, NEW a \in Call PROVE InOnePlace(a)
    BY DEF Apart
<1>1. /\ dev.tx = <<>> /\ dev.busy = 0 /\ inq = <<>> /\ received.parser = <<>>
      /\ \A c \in Call : given[c] = <<>>
    BY DEF Ble!Init, Ble!NoRecv, Ble!Call, Call
<1>2. ~Parsed(a) /\ ~WasGiven(a) /\ a # 0
    BY <1>1 DEF Parsed, WasGiven, Call
<1> QED
    BY <1>1, <1>2, NoneAmong DEF InOnePlace

-------------------------------------------------------------------------------
(* Both channels keep the promise of Exchange.                             *)

EndedAs(o) == IF o \in {"none", "ok"} THEN o ELSE "failed"

(* A call that ends in Exchange: r and g before, rn and gn after.          *)
Ends(r, rn, g, gn) ==
    \E c \in Call :
        /\ r[c] = "none" /\ \A d \in Call : d < c => r[d] # "none"
        /\ \/ /\ rn = [r EXCEPT ![c] = "ok"]
              /\ \E a \in Call : /\ a <= c /\ \A d \in Call : g[d] # a
                                 /\ gn = [g EXCEPT ![c] = a]
           \/ rn = [r EXCEPT ![c] = "failed"] /\ gn = g

LEMMA EndsIsAStep ==
    LET r == Ended(IF link = "ble" THEN result ELSE outcome)
        g == [c \in Call |-> IF link = "ble" THEN Ble!Gave(c) ELSE Gave(c)]
    IN  Ends(r, r', g, g') => ToExchange!Next
    BY DEF ToExchange!Next, ToExchange!Succeed, ToExchange!Fail, ToExchange!Current,
           ToExchange!ForTaking, ToExchange!Call, Call, Ends

(* What the promise sees of a Bluetooth link.                              *)
LEMMA SeenOverBle ==
    ASSUME link = "ble"
    PROVE  /\ Ended(IF link = "ble" THEN result ELSE outcome) = [c \in Call |-> EndedAs(result[c])]
           /\ [c \in Call |-> IF link = "ble" THEN Ble!Gave(c) ELSE Gave(c)]
                = [c \in Call |-> Ble!Gave(c)]
    BY DEF Ended, EndedAs

LEMMA SeenOverNfc ==
    ASSUME link = "nfc"
    PROVE  /\ Ended(IF link = "ble" THEN result ELSE outcome) = [c \in Call |-> Ending(outcome[c])]
           /\ [c \in Call |-> IF link = "ble" THEN Ble!Gave(c) ELSE Gave(c)]
                = [c \in Call |-> Gave(c)]
    BY DEF Ended, Ending

LEMMA ExchangeBegins == MCInit => ToExchange!Init
<1>1. ToExchange!Call = Call
    BY DEF ToExchange!Call, Call
<1>2. CASE link = "ble" /\ Ble!Init
  <2>1. \A c \in Call : result[c] = "none" /\ given[c] = <<>>
      BY <1>2 DEF Ble!Init, Ble!Call, Call
  <2>2. \A c \in Call : EndedAs(result[c]) = "none" /\ Ble!Gave(c) = 0
      BY <2>1 DEF EndedAs, Ble!Gave
  <2> QED BY <1>1, <1>2, <2>2, SeenOverBle DEF ToExchange!Init
<1>3. CASE link = "nfc" /\ Init
  <2>1. Promise!Init /\ Promise!Call = Call
      BY <1>3, PromiseInit DEF Promise!Call, Call
  <2> QED BY <1>1, <1>3, <2>1, SeenOverNfc DEF ToExchange!Init, Promise!Init
<1> QED
    BY <1>2, <1>3 DEF MCInit

LEMMA NfcKeepsIt ==
    ASSUME link = "nfc", UNCHANGED link, [Promise!Next]_Promise!vars
    PROVE  [ToExchange!Next]_ToExchange!vars
<1> DEFINE R == [c \in Call |-> Ending(outcome[c])]
           G == [c \in Call |-> Gave(c)]
<1>1. /\ Ended(IF link = "ble" THEN result ELSE outcome) = R
      /\ [c \in Call |-> IF link = "ble" THEN Ble!Gave(c) ELSE Gave(c)] = G
    BY SeenOverNfc
<1>2. /\ Ended(IF link = "ble" THEN result ELSE outcome)' = R'
      /\ [c \in Call |-> IF link = "ble" THEN Ble!Gave(c) ELSE Gave(c)]' = G'
    BY DEF Ended, Ending
<1> DEFINE X == Ended(IF link = "ble" THEN result ELSE outcome)
           Y == [c \in Call |-> IF link = "ble" THEN Ble!Gave(c) ELSE Gave(c)]
<1>3. Promise!Next => Ends(R, R', G, G')
    BY DEF Promise!Next, Promise!Succeed, Promise!Fail, Promise!Current, Promise!ForTaking,
           Promise!Call, Call, Ends
<1>4. Ends(X, X', Y, Y') => ToExchange!Next
    BY EndsIsAStep
<1>5. X = R /\ X' = R' /\ Y = G /\ Y' = G'
    BY <1>1, <1>2
<1>6. CASE UNCHANGED Promise!vars
  <2>1. UNCHANGED <<R, G>>
      BY <1>6 DEF Promise!vars
  <2> HIDE DEF R, G
  <2>2. UNCHANGED <<X, Y>>
      BY <1>5, <2>1
  <2> QED BY <2>2 DEF ToExchange!vars
<1>7. CASE Promise!Next
  <2>1. Ends(R, R', G, G')
      BY <1>3, <1>7
  <2> HIDE DEF R, G, X, Y
  <2>2. Ends(X, X', Y, Y')
      BY <1>5, <2>1
  <2> QED BY <1>4, <2>2
<1> QED
    BY <1>6, <1>7

(* A call over Bluetooth that fails, or succeeds.                          *)
LEMMA BleFails ==
    ASSUME BleInv, NEW c \in Call, result[c] = "none", \A d \in Call : d < c => result[d] # "none",
           NEW o \in Ble!Failures, result' = [result EXCEPT ![c] = o],
           \A d \in Call : given'[d] = given[d]
    PROVE  LET r == [d \in Call |-> EndedAs(result[d])]
               g == [d \in Call |-> Ble!Gave(d)]
           IN  Ends(r, r', g, g')
<1> DEFINE r == [d \in Call |-> EndedAs(result[d])]
           g == [d \in Call |-> Ble!Gave(d)]
<1>1. EndedAs(o) = "failed"
    BY DEF EndedAs, Ble!Failures
<1>2. result'[c] = o /\ \A d \in Call : d # c => result'[d] = result[d]
    BY DEF BleInv, BleTyped
<1>3. r' = [r EXCEPT ![c] = "failed"]
    BY <1>1, <1>2 DEF EndedAs
<1>4. g' = g
    BY DEF Ble!Gave
<1>5. r[c] = "none" /\ \A d \in Call : d < c => r[d] # "none"
    BY DEF EndedAs
<1> HIDE DEF r, g
<1> QED
    BY <1>3, <1>4, <1>5 DEF Ends, r, g

LEMMA BleSucceeds ==
    ASSUME BleInv, NEW c \in Call, result[c] = "none", \A d \in Call : d < c => result[d] # "none",
           NEW a \in Call, a <= c, ~WasGiven(a),
           NEW data \in Seq(Nat), data # <<>>, data[1] = a,
           result' = [result EXCEPT ![c] = "ok"], given' = [given EXCEPT ![c] = data]
    PROVE  LET r == [d \in Call |-> EndedAs(result[d])]
               g == [d \in Call |-> Ble!Gave(d)]
           IN  Ends(r, r', g, g')
<1> DEFINE r == [d \in Call |-> EndedAs(result[d])]
           g == [d \in Call |-> Ble!Gave(d)]
<1>1. result'[c] = "ok" /\ \A d \in Call : d # c => result'[d] = result[d]
    BY DEF BleInv, BleTyped
<1>2. given'[c] = data /\ \A d \in Call : d # c => given'[d] = given[d]
    BY DEF BleInv, BleTyped
<1>3. r' = [r EXCEPT ![c] = "ok"]
    BY <1>1 DEF EndedAs
<1>4. g' = [g EXCEPT ![c] = a]
  <2>1. Ble!Gave(c)' = a /\ \A d \in Call : d # c => Ble!Gave(d)' = Ble!Gave(d)
      BY <1>2 DEF Ble!Gave
  <2>2. \A d \in Call : Ble!Gave(d)' = [g EXCEPT ![c] = a][d]
      BY <2>1
  <2> QED BY <2>2
<1>5. r[c] = "none" /\ \A d \in Call : d < c => r[d] # "none"
    BY DEF EndedAs
<1>6. \A d \in Call : g[d] # a
    BY DEF WasGiven, Ble!Gave, Call
<1> HIDE DEF r, g
<1>7. Ends(r, r', g, g')
  <2>1. \E b \in Call : b <= c /\ (\A d \in Call : g[d] # b) /\ g' = [g EXCEPT ![c] = b]
      BY <1>4, <1>6
  <2> QED BY <1>3, <1>5, <2>1 DEF Ends
<1> QED
    BY <1>7 DEF r, g

(* The calls over Bluetooth, each step of theirs.                          *)
LEMMA BleKeepsIt ==
    ASSUME BleInv, Apart, NumbersAreNoCommands, [Ble!Next]_bleVars
    PROVE  LET r == [d \in Call |-> EndedAs(result[d])]
               g == [d \in Call |-> Ble!Gave(d)]
           IN  Ends(r, r', g, g') \/ UNCHANGED <<r, g>>
<1> DEFINE r == [d \in Call |-> EndedAs(result[d])]
           g == [d \in Call |-> Ble!Gave(d)]
<1>1. /\ \A c \in Call : result[c] = "none" <=> (c > last \/ (c = last /\ at \in CallingPlace))
      /\ \A c \in Call : result[c] # "ok" => given[c] = <<>>
      /\ at \in CallingPlace => last \in Call
      /\ last \in 0..MaxCalls
    BY DEF BleInv, BleTyped, BleLocated
<1>2. ASSUME UNCHANGED <<result, given>> PROVE UNCHANGED <<r, g>>
    BY <1>2 DEF EndedAs, Ble!Gave
<1>3. ASSUME at \in CallingPlace
      PROVE  last \in Call /\ result[last] = "none" /\ \A d \in Call : d < last => result[d] # "none"
    BY <1>1, <1>3 DEF Call
<1>4. ASSUME at \in CallingPlace, NEW o \in Ble!Failures, Ble!Return(o, <<>>)
      PROVE  Ends(r, r', g, g')
  <2>1. result' = [result EXCEPT ![last] = o] /\ given' = [given EXCEPT ![last] = <<>>]
      BY <1>4 DEF Ble!Return
  <2>2. given[last] = <<>>
      BY <1>1, <1>3, <1>4
  <2>3. \A d \in Call : given'[d] = given[d]
      BY <2>1, <2>2 DEF BleInv, BleTyped
  <2> QED BY <1>3, <1>4, <2>1, <2>3, BleFails
<1> HIDE DEF r, g
<1>5. CASE Ble!Opening \/ Ble!Outside \/ UNCHANGED bleVars
  <2>1. UNCHANGED <<result, given>>
      BY <1>5 DEF Ble!Opening, Ble!channel, Ble!OpenFails, Ble!enforce_bonded,
             Ble!supported_fido_revisions, Ble!connect, Ble!enforce_bonded_link,
             Ble!Connection_new, Ble!drop, Ble!OpenStep, Ble!Outside, Ble!DeviceAnswers,
             Ble!DeviceExtra, Ble!DeviceNotifies, Ble!DeviceChange, Ble!BondingChanges,
             Ble!LinkLost, bleVars
  <2> QED BY <1>2, <2>1 DEF r, g
<1>6. CASE Ble!Begin
  <2>1. /\ at = "idle" /\ last + 1 \in Call /\ UNCHANGED given
        /\ Asks \/ EndsAtOnce
      BY <1>6, CallBegins
  <2>2. CASE Asks
      BY <1>2, <2>1, <2>2 DEF Asks, r, g
  <2>3. CASE EndsAtOnce
    <3>1. PICK o \in Ble!Failures : result' = [result EXCEPT ![last + 1] = o]
        BY <2>3 DEF EndsAtOnce
    <3>2. result[last + 1] = "none"
        BY <1>1, <2>1
    <3>3. \A d \in Call : d < last + 1 => result[d] # "none"
        BY <1>1, <2>1 DEF Call, CallingPlace
    <3> QED BY <2>1, <3>1, <3>2, <3>3, BleFails DEF r, g
  <2> QED BY <2>1, <2>2, <2>3
<1>7. CASE Ble!frame_send
  <2>1. at \in CallingPlace
      BY <1>7 DEF Ble!frame_send, CallingPlace
  <2>2. Ble!Return("OperationFailed", <<>>) \/ UNCHANGED <<result, given>>
      BY <1>7, Writes
  <2> QED BY <1>2, <1>4, <2>1, <2>2 DEF Ble!Failures, r, g
<1>8. CASE Ble!stream_ends \/ Ble!send_cancel \/ Ble!Abandon
  <2>1. /\ at \in CallingPlace
        /\ \E o \in {"ConnectionFailed", "Timeout", "Aborted"} : Ble!Return(o, <<>>)
      BY <1>8 DEF Ble!stream_ends, Ble!send_cancel, Ble!Abandon, CallingPlace
  <2> QED BY <1>4, <2>1 DEF Ble!Failures, r, g
<1>9. CASE Ble!Tick \/ Ble!frame_recv_times_out
  <2>1. UNCHANGED <<result, given>>
      BY <1>9 DEF Ble!Tick, Ble!frame_recv_times_out
  <2> QED BY <1>2, <2>1 DEF r, g
<1>10. CASE Ble!frame_recv
  <2> DEFINE data == Ble!frame(TakenFragments).data
             a == TakenFragments[1][4]
  <2>1. /\ at = "recv" /\ inq # <<>> /\ Head(inq) \in Seq(Nat)
        /\ TakenFragments[1] = IF received.parser = <<>> THEN Head(inq) ELSE received.parser[1]
        /\ \/ UNCHANGED <<result, given>>
           \/ \E o \in Ble!Failures : Ble!Return(o, <<>>)
           \/ /\ Ble!Return("ok", data)
              /\ data \in Seq(Nat) /\ TakenFragments[1][1] = Ble!Msg /\ a \in Call
              /\ data # <<>> /\ data[1] = a
      BY <1>10, Receives
  <2>2. at \in CallingPlace
      BY <2>1 DEF CallingPlace
  <2>3. CASE /\ Ble!Return("ok", data)
             /\ data \in Seq(Nat) /\ TakenFragments[1][1] = Ble!Msg /\ a \in Call
             /\ data # <<>> /\ data[1] = a
    <3>1. Among(inq, a) \/ Parsed(a)
      <4>1. inq \in Seq(Seq(Nat))
          BY TypesHold, Wider DEF FitsAnswers
      <4>2. Answers(TakenFragments[1], a)
          BY <2>3 DEF Answers
      <4>3. Answers(Head(inq), a) => Among(inq, a)
          BY <2>1, <4>1, OneLess
      <4> QED BY <2>1, <4>2, <4>3 DEF Parsed
    <3>2. ~WasGiven(a) /\ ~ToCome(a)
        BY <2>3, <3>1 DEF Apart, InOnePlace
    <3> HIDE DEF a, data
    <3>3. a <= last
        BY <1>1, <2>3, <3>2 DEF ToCome, Call
    <3>4. result' = [result EXCEPT ![last] = "ok"] /\ given' = [given EXCEPT ![last] = data]
        BY <2>3 DEF Ble!Return
    <3> QED BY <1>3, <2>2, <2>3, <3>2, <3>3, <3>4, BleSucceeds DEF r, g
  <2> HIDE DEF a, data
  <2> QED BY <1>2, <1>4, <2>1, <2>2, <2>3 DEF r, g
<1> QED
    BY <1>5, <1>6, <1>7, <1>8, <1>9, <1>10 DEF Ble!Next, Ble!Exchanging, r, g

LEMMA ExchangeGoesOn ==
    ASSUME NumbersAreNoCommands, LinksInv, link = "ble" => Apart, [MCNext]_mcvars
    PROVE  [ToExchange!Next]_ToExchange!vars
<1>1. /\ UNCHANGED link
      /\ link = "ble" => [Ble!Next]_bleVars
      /\ link = "nfc" => [Next]_vars
    BY DEF LinksInv, MCNext, OnBle, OnNfc, mcvars
<1>2. CASE link = "nfc"
  <2>1. IInv /\ IInv' /\ [Next]_vars
      BY <1>1, <1>2, IInvNext DEF LinksInv
  <2>2. [Promise!Next]_Promise!vars
      BY <2>1, PromiseNext
  <2> QED BY <1>1, <1>2, <2>2, NfcKeepsIt
<1>3. CASE link = "ble"
  <2> DEFINE X == Ended(IF link = "ble" THEN result ELSE outcome)
             Y == [c \in Call |-> IF link = "ble" THEN Ble!Gave(c) ELSE Gave(c)]
             r == [c \in Call |-> EndedAs(result[c])]
             g == [c \in Call |-> Ble!Gave(c)]
  <2>1. X = r /\ Y = g
      BY <1>3, SeenOverBle
  <2>2. X' = r' /\ Y' = g'
      BY <1>1, <1>3 DEF Ended, EndedAs
  <2>3. Ends(r, r', g, g') \/ UNCHANGED <<r, g>>
      BY <1>1, <1>3, BleKeepsIt DEF LinksInv
  <2>4. Ends(X, X', Y, Y') => ToExchange!Next
      BY EndsIsAStep
  <2> HIDE DEF X, Y, r, g
  <2>5. Ends(X, X', Y, Y') \/ UNCHANGED <<X, Y>>
      BY <2>1, <2>2, <2>3
  <2> QED BY <2>4, <2>5 DEF ToExchange!vars, X, Y
<1> QED
    BY <1>2, <1>3 DEF LinksInv

LEMMA ApartGoesOn ==
    ASSUME NumbersAreNoCommands, LinksInv, link = "ble" => Apart, [MCNext]_mcvars
    PROVE  link' = "ble" => Apart'
<1>1. /\ UNCHANGED link
      /\ link = "ble" => BleInv /\ [Ble!Next]_bleVars
    BY DEF LinksInv, MCNext, OnBle, OnNfc, mcvars
<1>2. ASSUME link = "ble", NEW a \in Call PROVE InOnePlace(a)'
  <2>1. BleInv /\ InOnePlace(a) /\ [Ble!Next]_bleVars
      BY <1>1, <1>2 DEF Apart
  <2> QED BY <2>1, ApartNext
<1> QED
    BY <1>1, <1>2 DEF Apart

(* An answer is in one place at most: the device works on it, or it is on  *)
(* its way, in the stream, in the parser, or was given to one call, and    *)
(* none of these before its request is executed (connection.rs:103-207).   *)
AnswersAreApart == link = "ble" => Apart

THEOREM AnswersStayApart ==
    ASSUME NumbersAreNoCommands PROVE MCSpec => []AnswersAreApart
<1>1. MCInit => AnswersAreApart
    BY ApartFromTheStart DEF MCInit, AnswersAreApart
<1>2. LinksInv /\ AnswersAreApart /\ [MCNext]_mcvars => AnswersAreApart'
    BY ApartGoesOn DEF AnswersAreApart
<1> QED
    BY <1>1, <1>2, LinksInvariance, PTL DEF MCSpec

(* Both channels keep the promise of an exchange: calls end in the order   *)
(* they were made, and one that succeeds has its own answer, or one that   *)
(* a call before it was owed and gave up; no answer is given twice         *)
(* (connection.rs:103-207, nfc/channel.rs:168-319).                        *)
THEOREM ExchangeIsKept ==
    ASSUME NumbersAreNoCommands PROVE MCSpec => KeepsExchange
<1>1. LinksInv /\ AnswersAreApart /\ [MCNext]_mcvars => [ToExchange!Next]_ToExchange!vars
    BY ExchangeGoesOn DEF AnswersAreApart
<1> QED
    BY <1>1, ExchangeBegins, LinksInvariance, AnswersStayApart, PTL
       DEF MCSpec, KeepsExchange, ToExchange!Spec
-------------------------------------------------------------------------------
(* What a caller has of the promise.  r is how the calls ended, g which    *)
(* answer each was given: calls end in order, only those that succeed are  *)
(* given an answer, and none is given before its request.                  *)
ByTurns(r, g) ==
    /\ r \in [Call -> {"none", "ok", "failed"}] /\ g \in [Call -> {0} \cup Call]
    /\ \A c, d \in Call : d < c /\ r[c] # "none" => r[d] # "none"
    /\ \A c \in Call : r[c] # "ok" <=> g[c] = 0
    /\ \A c \in Call : g[c] <= c

Once(g) == \A c, d \in Call : g[c] = g[d] /\ g[c] # 0 => c = d /\ g[c] <= c

OwnBeforeFailures(r, g) ==
    \A c \in Call : (r[c] = "ok" /\ \A d \in Call : d < c => r[d] = "ok") => g[c] = c

LEMMA EndedByTurns ==
    ASSUME NEW r, NEW rn, NEW g, NEW gn, ByTurns(r, g), Ends(r, rn, g, gn)
    PROVE  ByTurns(rn, gn) /\ (Once(g) => Once(gn))
<1>1. PICK c \in Call :
          /\ r[c] = "none" /\ \A d \in Call : d < c => r[d] # "none"
          /\ \/ /\ rn = [r EXCEPT ![c] = "ok"]
                /\ \E a \in Call : /\ a <= c /\ \A d \in Call : g[d] # a
                                   /\ gn = [g EXCEPT ![c] = a]
             \/ rn = [r EXCEPT ![c] = "failed"] /\ gn = g
    BY DEF Ends
<1>2. CASE rn = [r EXCEPT ![c] = "failed"] /\ gn = g
    BY <1>1, <1>2 DEF ByTurns, Once, Call
<1>3. ASSUME NEW a \in Call, a <= c, \A d \in Call : g[d] # a,
             rn = [r EXCEPT ![c] = "ok"], gn = [g EXCEPT ![c] = a]
      PROVE  ByTurns(rn, gn) /\ (Once(g) => Once(gn))
    BY <1>1, <1>3 DEF ByTurns, Once, Call
<1> QED
    BY <1>1, <1>2, <1>3

(* The answers given to the calls before c being 1..(c - 1), the only one  *)
(* left for c is its own.                                                  *)
LEMMA EndedWithItsOwn ==
    ASSUME NEW r, NEW rn, NEW g, NEW gn, ByTurns(r, g), OwnBeforeFailures(r, g),
           Ends(r, rn, g, gn)
    PROVE  OwnBeforeFailures(rn, gn)
<1> SUFFICES ASSUME NEW e \in Call, rn[e] = "ok", \A d \in Call : d < e => rn[d] = "ok"
             PROVE  gn[e] = e
    BY DEF OwnBeforeFailures
<1>1. PICK c \in Call :
          /\ r[c] = "none" /\ \A d \in Call : d < c => r[d] # "none"
          /\ \/ /\ rn = [r EXCEPT ![c] = "ok"]
                /\ \E a \in Call : /\ a <= c /\ \A d \in Call : g[d] # a
                                   /\ gn = [g EXCEPT ![c] = a]
             \/ rn = [r EXCEPT ![c] = "failed"] /\ gn = g
    BY DEF Ends
<1>2. e # c => r[e] = "ok" /\ gn[e] = g[e] /\ ~(c < e)
    BY <1>1 DEF ByTurns
<1>3. \A d \in Call : d < e => r[d] = "ok"
    BY <1>1, <1>2 DEF ByTurns, Call
<1>4. CASE e # c
    BY <1>2, <1>3, <1>4 DEF OwnBeforeFailures
<1>5. CASE e = c
  <2>1. PICK a \in Call : /\ a <= c /\ \A d \in Call : g[d] # a
                         /\ gn = [g EXCEPT ![c] = a]
      BY <1>1, <1>5 DEF ByTurns
  <2>2. \A d \in Call : d < c => g[d] = d
    <3> SUFFICES ASSUME NEW d \in Call, d < c PROVE g[d] = d
        OBVIOUS
    <3>1. \A b \in Call : b < d => r[b] = "ok"
        BY <1>3, <1>5 DEF Call
    <3> QED BY <1>3, <1>5, <3>1 DEF OwnBeforeFailures
  <2>3. a = c
      BY <2>1, <2>2 DEF Call
  <2> QED BY <1>5, <2>1, <2>3 DEF ByTurns
<1> QED
    BY <1>4, <1>5

Outcome == Ended(IF link = "ble" THEN result ELSE outcome)
Answer == [c \in Call |-> IF link = "ble" THEN Ble!Gave(c) ELSE Gave(c)]
CallsAreAnswered ==
    ByTurns(Outcome, Answer) /\ Once(Answer) /\ OwnBeforeFailures(Outcome, Answer)

LEMMA AnsweredFirst == ToExchange!Init => CallsAreAnswered
<1> SUFFICES ASSUME ToExchange!Init PROVE CallsAreAnswered
    OBVIOUS
<1>1. Outcome = [c \in Call |-> "none"] /\ Answer = [c \in Call |-> 0]
    BY DEF ToExchange!Init, ToExchange!Call, Call, Outcome, Answer
<1> HIDE DEF Outcome, Answer
<1> QED
    BY <1>1 DEF CallsAreAnswered, ByTurns, Once, OwnBeforeFailures, Call

LEMMA AnsweredNext ==
    CallsAreAnswered /\ [ToExchange!Next]_ToExchange!vars => CallsAreAnswered'
<1> SUFFICES ASSUME CallsAreAnswered, [ToExchange!Next]_ToExchange!vars PROVE CallsAreAnswered'
    OBVIOUS
<1>1. Ends(Outcome, Outcome', Answer, Answer') \/ UNCHANGED <<Outcome, Answer>>
    BY DEF ToExchange!Next, ToExchange!Succeed, ToExchange!Fail, ToExchange!Current,
           ToExchange!ForTaking, ToExchange!Call, Call, Ends, ToExchange!vars, Outcome, Answer
<1> HIDE DEF Outcome, Answer
<1>2. CASE Ends(Outcome, Outcome', Answer, Answer')
    BY <1>2, EndedByTurns, EndedWithItsOwn DEF CallsAreAnswered
<1>3. CASE UNCHANGED <<Outcome, Answer>>
    BY <1>3 DEF CallsAreAnswered
<1> QED
    BY <1>1, <1>2, <1>3

LEMMA AnsweredMeans ==
    CallsAreAnswered => ToExchange!TypeOK /\ ToExchange!NoAnswerTwice /\ ToExchange!OwnUntilFailure
BY DEF CallsAreAnswered, ByTurns, Once, OwnBeforeFailures, ToExchange!TypeOK,
       ToExchange!NoAnswerTwice, ToExchange!OwnUntilFailure, ToExchange!Call, Call, Outcome, Answer

LEMMA AnsweredAlways == ToExchange!Spec => []CallsAreAnswered
BY AnsweredFirst, AnsweredNext, PTL DEF ToExchange!Spec

(* No two calls are given one answer, whatever failed before, on a channel *)
(* that keeps the promise of Exchange (transport/channel.rs:83-95).        *)
THEOREM AnswersAreGivenOnce == ToExchange!Spec => []ToExchange!NoAnswerTwice
BY AnsweredMeans, AnsweredAlways, PTL

(* A channel on which no call has failed gives every call its own answer   *)
(* (transport/channel.rs:83-95).                                           *)
THEOREM OwnAnswersUntilFailure == ToExchange!Spec => []ToExchange!OwnUntilFailure
BY AnsweredMeans, AnsweredAlways, PTL

(* So do the two channels of the composition: neither gives two calls one  *)
(* answer (connection.rs:103-207, nfc/channel.rs:168-319).                 *)
THEOREM LinksAnswerOnce ==
    ASSUME NumbersAreNoCommands
    PROVE  MCSpec => [](ToExchange!NoAnswerTwice /\ ToExchange!OwnUntilFailure)
BY ExchangeIsKept, AnswersAreGivenOnce, OwnAnswersUntilFailure, PTL DEF KeepsExchange
=================================================================================
