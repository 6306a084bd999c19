--------------------------- MODULE CableTunnel_proofs ---------------------------
(***************************************************************************)
(* Proofs about CableTunnel, for any set of phones, any capacity of the    *)
(* queues, any number of redirects, and without the bounds of the runs.    *)
(***************************************************************************)
EXTENDS CableTunnel, TLAPS

-------------------------------------------------------------------------------
(* The inductive invariant.  What the type of the state leaves open.       *)
Update == {"ProximityCheck", "Connecting", "Authenticating", "Connected", "Error"}

Counted ==
    /\ n \in [sessions : Nat, calls : 0..MaxCalls, odd : Nat]
    /\ told \in Seq(Update)

(* A channel that is not open has no task, and a task knows its phone once *)
(* it has seen an advertisement, or was opened with a record.              *)
Opened ==
    /\ session.kind = "none" => session = Closed
    /\ session = Closed <=> task = "none"
    /\ session = Closed => conn = "Connecting" /\ ~fault /\ pc = "idle"
    /\ session.kind = "known" => session.phone \in Phones
    /\ near => session.phone \in Phones
    /\ pc # "idle" => call.id \in Call
    /\ task \in {"proximity", "connect"} => redirects <= MAX_TUNNEL_REDIRECTS

(* Proximity is shown before the handshake, in the order of either kind of *)
(* channel.                                                                *)
NearFirst ==
    /\ conn = "Connected" => near
    /\ task \in {"handshake", "initial", "loop"} => near
    /\ task = "connect" /\ session.kind = "qr" => near

(* The error is told before the state becomes Terminated, which is what a  *)
(* waiting call learns of.                                                 *)
ToldFirst ==
    /\ fault => task \in {"failing", "ending", "done"}
    /\ fault /\ task \in {"ending", "done"} => Contains(told, "Error")
    /\ conn = "Terminated" => task = "done"
    /\ outcome = "ConnectionFailed" => conn = "Terminated"

(* Whatever is signed, copied, stored or routed was handed out.            *)
Genuine ==
    /\ \A p \in Phones : /\ store[p] \in 0..links[p]
                         /\ copies[p] \subseteq 1..links[p]
                         /\ contacts[p] \subseteq 1..links[p]
    /\ \A i \in 1..Len(down) :
          down[i].signed => /\ down[i].phone \in Phones
                            /\ down[i].link \in 1..links[down[i].phone]

(* Until a call is given up, the request of the call under way, or its     *)
(* answer, is in one place at most, and nothing of another call is in any. *)
NoAnswer(s) == \A i \in 1..Len(s) : s[i].type # "ctap"

OneAnswer(s, id) ==
    \E i \in 1..Len(s) :
        /\ s[i].type = "ctap" /\ s[i].id = id
        /\ \A j \in 1..Len(s) : j # i => s[j].type # "ctap"

Places == {"requests", "up", "down", "pending", "responses"}

EmptyBut(place) ==
    /\ place = "requests"  \/ requests = <<>>
    /\ place = "up"        \/ up = <<>>
    /\ place = "down"      \/ NoAnswer(down)
    /\ place = "pending"   \/ pending = 0
    /\ place = "responses" \/ responses = <<>>

Empty == EmptyBut("nowhere")

Outstanding ==
    \/ Empty
    \/ EmptyBut("requests") /\ requests = <<call>>
    \/ EmptyBut("up") /\ up = <<call.id>>
    \/ EmptyBut("down") /\ OneAnswer(down, call.id)
    \/ EmptyBut("pending") /\ pending = call.id
    \/ EmptyBut("responses") /\ responses = <<call.id>>

Own ==
    /\ pc # "idle" => outcome = "none"
    /\ ~reused =>
          /\ pc \in {"sendWait", "send"} => Empty
          /\ pc = "idle" /\ outcome \in {"none", "ok"} => Empty
          /\ pc \in {"recvWait", "recv"} => Outstanding
          /\ outcome = "ok" => answer = call.id

IInv == TypeOK /\ Counted /\ Opened /\ NearFirst /\ ToldFirst /\ Genuine /\ Own

-------------------------------------------------------------------------------
(* What the operators return.                                              *)
LEMMA StageOrder ==
    /\ session.kind = "qr" =>
          NextStage["proximity"] = "connect" /\ NextStage["connect"] = "handshake"
    /\ session.kind # "qr" =>
          NextStage["connect"] = "proximity" /\ NextStage["proximity"] = "handshake"
    BY DEF NextStage

LEMMA StageUpdates ==
    \A stage \in {"proximity", "connect", "handshake"} : UpdateOf[stage] \in Update
    BY DEF UpdateOf, Update

LEMMA FrameFields ==
    ASSUME NEW type
    PROVE  /\ Frame(type).type = type /\ Frame(type).id = 0
           /\ Frame(type).phone = Nobody /\ Frame(type).link = NoLink
           /\ Frame(type).signed = FALSE
    BY DEF Frame

LEMMA FrameIsTyped ==
    ASSUME TunnelAssumption,
           NEW type \in {"initial", "ctap", "update", "close", "bad"}
    PROVE  /\ Frame(type) \in FrameType
           /\ \A id \in {0} \cup Call : [Frame(type) EXCEPT !.id = id] \in FrameType
<1>1. Nobody \in Phones \cup {Nobody} /\ NoLink \in 0..ForgedLink
    BY DEF NoLink, ForgedLink, TunnelAssumption
<1> QED
    BY <1>1 DEF Frame, FrameType

(* Queues: what enters, and what leaves.                                   *)
LEMMA Pushed ==
    ASSUME NEW S, NEW s \in Seq(S), NEW e \in S
    PROVE  Append(s, e) \in Seq(S) /\ Len(Append(s, e)) = Len(s) + 1 /\ Len(s) \in Nat
    OBVIOUS

LEMMA Popped ==
    ASSUME NEW S, NEW s \in Seq(S)
    PROVE  /\ Tail(s) \in Seq(S) /\ Len(s) \in Nat
           /\ s # <<>> => Head(s) \in S /\ Len(Tail(s)) = Len(s) - 1
<1>1. CASE s = <<>>
    BY <1>1
<1>2. CASE s # <<>>
    BY <1>2
<1> QED
    BY <1>1, <1>2

\* The only element of a queue of one is its head, and nothing is left behind it.
LEMMA Single ==
    ASSUME NEW x, NEW seq, seq = <<x>>
    PROVE  Head(seq) = x /\ Tail(seq) = <<>>
    OBVIOUS

LEMMA ContainsAppended ==
    ASSUME NEW s \in Seq(Update), NEW e \in Update
    PROVE  Contains(Append(s, e), e)
    BY DEF Contains

(* One answer in a queue: what leaves it, and what enters.                 *)
LEMMA OneLeaves ==
    ASSUME NEW s \in Seq(FrameType), s # <<>>, NEW id, OneAnswer(s, id)
    PROVE  IF Head(s).type = "ctap"
           THEN Head(s).id = id /\ NoAnswer(Tail(s))
           ELSE OneAnswer(Tail(s), id)
    BY DEF OneAnswer, NoAnswer

LEMMA NoneLeaves ==
    ASSUME NEW s \in Seq(FrameType), s # <<>>, NoAnswer(s)
    PROVE  Head(s).type # "ctap" /\ NoAnswer(Tail(s))
    BY DEF NoAnswer

LEMMA AnswerEnters ==
    ASSUME NEW s \in Seq(FrameType), NEW f \in FrameType
    PROVE  /\ NoAnswer(s) /\ f.type = "ctap" => OneAnswer(Append(s, f), f.id)
           /\ NoAnswer(s) /\ f.type # "ctap" => NoAnswer(Append(s, f))
           /\ \A id : OneAnswer(s, id) /\ f.type # "ctap"
                         => OneAnswer(Append(s, f), id)
    BY DEF OneAnswer, NoAnswer

-------------------------------------------------------------------------------
(* The steps, grouped as the proofs below need them.                       *)

(* The caller's, and the application's that leave the channel open.        *)
Calling ==
    \/ wait_for_connection \/ cbor_send \/ cbor_recv \/ Abandon
    \/ \E cmd \in {"GetInfo", "Other"} : Begin(cmd)

Opening == OpenQrCode \/ OpenKnownDevice

(* The loop of the task, and its end.                                      *)
Staging == \E p \in Phones : await_advertisement(p)

Failing ==
    follow_redirect \/ tunnel_gone \/ stage_fails \/ connection_recv_initial

Serving ==
    connection_recv \/ deliver_pending \/ connection_send \/ connection_send_fails

LEMMA StepCases ==
    ASSUME [Next]_vars
    PROVE  \/ TellError \/ Terminate \/ Staging \/ connection_stage \/ handshake_stage
           \/ Failing \/ Serving \/ Calling \/ Opening \/ CopyRecord \/ drop
           \/ Outside \/ UNCHANGED vars
    BY DEF Next, Task, Caller, Stages, Application, Calling, Opening, Staging,
           Failing, Serving

(* What the caller's steps leave alone, and the phones'.                   *)
LEMMA CallingFrame ==
    ASSUME Calling
    PROVE  UNCHANGED <<session, redirects, near, task, pending, conn, told, fault, up,
                       down, store, copies, links, contacts>>
<1> USE DEF CallerChange, sessionVars, wireVars, storeVars, phoneVars
<1>1. CASE wait_for_connection \/ cbor_send \/ cbor_recv
    BY <1>1 DEF wait_for_connection, cbor_send, cbor_recv
<1>2. CASE Abandon \/ \E cmd \in {"GetInfo", "Other"} : Begin(cmd)
    BY <1>2 DEF Abandon, Begin
<1> QED
    BY <1>1, <1>2 DEF Calling

LEMMA OutsideFrame ==
    ASSUME Outside
    PROVE  UNCHANGED <<session, redirects, near, task, pending, conn, told, fault,
                       requests, responses, store, copies, pc, call, outcome,
                       answer, reused>>
<1> USE DEF PhoneSends, sessionVars, queueVars, storeVars, callerVars
<1>1. CASE PhoneAnswers \/ PhoneLinks \/ ForgedUpdate \/ BadFrame \/ PhoneHangsUp
    BY <1>1 DEF PhoneAnswers, PhoneLinks, ForgedUpdate, BadFrame, PhoneHangsUp
<1>2. CASE ContactLost
    BY <1>2 DEF ContactLost
<1> QED
    BY <1>1, <1>2 DEF Outside

LEMMA FailingFrame ==
    ASSUME Failing
    PROVE  /\ UNCHANGED <<session, near, conn, told, requests, responses, up, copies,
                          links, contacts, pc, call, outcome, answer, reused, n>>
           /\ task \in {"proximity", "connect", "handshake", "initial"}
           /\ task' \in {"failing", task} \/ (task = "initial" /\ task' = "loop")
           /\ task' # "failing" => fault' = fault
           /\ pending' = IF task' = "failing" THEN 0 ELSE pending
           /\ store' = store \/ tunnel_gone
           /\ down' = down \/ (task = "initial" /\ down' = Tail(down))
           /\ redirects' = redirects \/ follow_redirect
<1> USE DEF Fail, sessionVars, queueVars, wireVars, phoneVars, storeVars, callerVars
<1>1. CASE follow_redirect \/ stage_fails
    BY <1>1 DEF follow_redirect, stage_fails
<1>2. CASE tunnel_gone
    BY <1>2 DEF tunnel_gone
<1>3. CASE connection_recv_initial
    BY <1>3 DEF connection_recv_initial
<1> QED
    BY <1>1, <1>2, <1>3 DEF Failing

LEMMA ServingFrame ==
    ASSUME Serving
    PROVE  /\ UNCHANGED <<session, redirects, near, conn, told, copies, links,
                          contacts, pc, call, outcome, answer, reused, n>>
           /\ task = "loop"
           /\ task' \in {"loop", "ending", "failing"}
           /\ task' # "failing" => fault' = fault
           /\ store' = store \/ connection_recv
<1> USE DEF Fail, CloseCleanly, Looping, sessionVars, queueVars, wireVars, phoneVars,
            storeVars, callerVars
<1>1. CASE connection_recv
    BY <1>1 DEF connection_recv
<1>2. CASE deliver_pending
    BY <1>2 DEF deliver_pending
<1>3. CASE connection_send \/ connection_send_fails
    BY <1>3 DEF connection_send, connection_send_fails
<1> QED
    BY <1>1, <1>2, <1>3 DEF Serving

LEMMA OpeningFrame ==
    ASSUME Opening
    PROVE  /\ session = Closed
           /\ session' \in [kind : {"qr", "known"}, phone : Phones \cup {Nobody},
                            link : {NoLink} \cup UNION {copies[p] : p \in Phones},
                            persistent : BOOLEAN]
           /\ session'.kind = "qr" =>
                 task' = "proximity" /\ session'.link = NoLink
           /\ session'.kind = "known" =>
                 task' = "connect" /\ session'.phone \in Phones
                 /\ session'.link \in copies[session'.phone]
           /\ told' = <<UpdateOf[task']>>
           /\ redirects' = 0 /\ near' = FALSE /\ fault' = FALSE
           /\ n' = [n EXCEPT !.sessions = @ + 1]
           /\ UNCHANGED <<pending, conn, requests, responses, up, down, store, copies,
                          links, contacts, pc, call, outcome, answer, reused>>
<1> USE DEF Open, queueVars, wireVars, storeVars, phoneVars, callerVars
<1>1. CASE OpenQrCode
    BY <1>1 DEF OpenQrCode
<1>2. CASE OpenKnownDevice
    BY <1>2 DEF OpenKnownDevice
<1> QED
    BY <1>1, <1>2 DEF Opening

LEMMA StagingFrame ==
    ASSUME Staging
    PROVE  \E p \in Phones :
              /\ task = "proximity" /\ near' = TRUE
              /\ session.kind = "known" => p = session.phone
              /\ session' = [session EXCEPT !.phone = p]
              /\ task' = NextStage["proximity"]
              /\ told' = Append(told, UpdateOf[task'])
              /\ UNCHANGED <<redirects, pending, conn, fault, requests, responses, up,
                             down, store, copies, links, contacts, pc, call,
                             outcome, answer, reused, n>>
    BY DEF Staging, await_advertisement, Enter, queueVars, wireVars, storeVars,
           phoneVars, callerVars

LEMMA NextStages ==
    ASSUME session.kind \in {"qr", "known"}
    PROVE  /\ NextStage["proximity"] \in {"connect", "handshake"}
           /\ NextStage["connect"] \in {"proximity", "handshake"}
    BY StageOrder

LEMMA StoredIsClosed == Closed.kind = "none" /\ Closed.phone = Nobody /\ Closed.link = NoLink
    BY DEF Closed

-------------------------------------------------------------------------------
(* Every step preserves each part of the invariant.                        *)
LEMMA OpenedKept ==
    ASSUME TunnelAssumption, IInv, [Next]_vars
    PROVE  Opened'
<1> USE DEF Opened, sessionVars, queueVars, wireVars, storeVars, phoneVars, callerVars
<1>0. Opened /\ session.kind \in {"none", "qr", "known"} /\ redirects \in Nat
    BY DEF IInv, TypeOK, TunnelAssumption
<1>1. CASE TellError \/ Terminate
    BY <1>0, <1>1 DEF TellError, Terminate
<1>2. CASE Staging
  <2>1. PICK p \in Phones :
              /\ task = "proximity" /\ near' = TRUE
              /\ session.kind = "known" => p = session.phone
              /\ session' = [session EXCEPT !.phone = p]
              /\ task' = NextStage["proximity"]
              /\ UNCHANGED <<redirects, conn, fault, pc, call>>
      BY <1>2, StagingFrame
  <2>2. session'.kind = session.kind /\ session'.phone = p
      BY <2>1 DEF IInv, TypeOK
  <2>3. session.kind \in {"qr", "known"}
      BY <1>0, <2>1
  <2>4. session' # Closed
      BY <2>2, <2>3, StoredIsClosed
  <2> QED
      BY <1>0, <2>1, <2>2, <2>3, <2>4, NextStages
<1>3. CASE connection_stage
  <2>1. /\ task = "connect" /\ task' = NextStage["connect"] /\ redirects' = 0
        /\ UNCHANGED <<session, near, conn, fault, pc, call>>
      BY <1>3 DEF connection_stage, Enter
  <2>2. session.kind \in {"qr", "known"}
      BY <1>0, <2>1
  <2> QED
      BY <1>0, <2>1, <2>2, NextStages DEF TunnelAssumption
<1>4. CASE handshake_stage
    BY <1>0, <1>4 DEF handshake_stage
<1>5. CASE Failing
  <2>1. CASE follow_redirect
    <3>1. MayFollow => redirects' <= MAX_TUNNEL_REDIRECTS
        BY <1>0, <2>1 DEF follow_redirect, MayFollow, TunnelAssumption
    <3> QED
        BY <1>0, <2>1, <3>1 DEF follow_redirect, Fail
  <2> QED
      BY <1>0, <1>5, <2>1, FailingFrame
<1>6. CASE Serving
    BY <1>0, <1>6, ServingFrame
<1>7. CASE Calling
  <2>1. pc' # "idle" => session # Closed /\ call'.id \in Call
    <3>1. CASE \E cmd \in {"GetInfo", "Other"} : Begin(cmd)
      <4>1. n.calls \in Nat /\ n.calls < MaxCalls /\ MaxCalls \in Nat
          BY <3>1 DEF Begin, IInv, Counted, TunnelAssumption
      <4> QED
          BY <3>1, <4>1 DEF Begin, Call
    <3>2. CASE wait_for_connection \/ cbor_send \/ cbor_recv \/ Abandon
        BY <1>0, <3>2
        DEF wait_for_connection, cbor_send, cbor_recv, Abandon, Return, Goto
    <3> QED
        BY <1>7, <3>1, <3>2 DEF Calling
  <2> QED
      BY <1>0, <1>7, <2>1, CallingFrame
<1>8. CASE Opening
  <2>1. session' # Closed /\ session'.kind # "none"
      BY <1>8, OpeningFrame, StoredIsClosed
  <2> QED
      BY <1>0, <1>8, <2>1, OpeningFrame DEF TunnelAssumption
<1>9. CASE CopyRecord
    BY <1>0, <1>9 DEF CopyRecord, SameChannel
<1>10. CASE drop
    BY <1>0, <1>10, StoredIsClosed DEF drop
<1>11. CASE Outside
    BY <1>0, <1>11, OutsideFrame
<1>12. CASE UNCHANGED vars
    BY <1>0, <1>12 DEF vars
<1> QED
    BY <1>1, <1>2, <1>3, <1>4, <1>5, <1>6, <1>7, <1>8, <1>9, <1>10, <1>11,
       <1>12, StepCases

LEMMA NearKept ==
    ASSUME TunnelAssumption, IInv, [Next]_vars
    PROVE  NearFirst'
<1> USE DEF NearFirst, sessionVars, queueVars, wireVars, storeVars, phoneVars, callerVars
<1>0. NearFirst /\ Opened /\ session.kind \in {"none", "qr", "known"}
    BY DEF IInv, TypeOK
<1>1. CASE TellError \/ Terminate
    BY <1>0, <1>1 DEF TellError, Terminate
<1>2. CASE Staging
    BY <1>0, <1>2, StagingFrame
<1>3. CASE connection_stage
  <2>1. /\ task = "connect" /\ task' = NextStage["connect"]
        /\ UNCHANGED <<session, near, conn>>
      BY <1>3 DEF connection_stage, Enter
  <2>2. task' = "handshake" => near
      BY <1>0, <2>1, StageOrder
  <2>3. task' \in {"proximity", "handshake"}
      BY <1>0, <2>1, NextStages DEF Opened
  <2> QED
      BY <1>0, <2>1, <2>2, <2>3
<1>4. CASE handshake_stage
    BY <1>0, <1>4 DEF handshake_stage
<1>5. CASE Failing
    BY <1>0, <1>5, FailingFrame
<1>6. CASE Serving
    BY <1>0, <1>6, ServingFrame
<1>7. CASE Calling
    BY <1>0, <1>7, CallingFrame
<1>8. CASE Opening
    BY <1>0, <1>8, OpeningFrame DEF Opened
<1>9. CASE CopyRecord
    BY <1>0, <1>9 DEF CopyRecord, SameChannel
<1>10. CASE drop
    BY <1>0, <1>10 DEF drop
<1>11. CASE Outside
    BY <1>0, <1>11, OutsideFrame
<1>12. CASE UNCHANGED vars
    BY <1>0, <1>12 DEF vars
<1> QED
    BY <1>1, <1>2, <1>3, <1>4, <1>5, <1>6, <1>7, <1>8, <1>9, <1>10, <1>11,
       <1>12, StepCases

LEMMA ToldKept ==
    ASSUME TunnelAssumption, IInv, [Next]_vars
    PROVE  ToldFirst'
<1> USE DEF ToldFirst, sessionVars, queueVars, wireVars, storeVars, phoneVars, callerVars
<1>0. ToldFirst /\ Opened /\ told \in Seq(Update) /\ session.kind \in {"none", "qr", "known"}
    BY DEF IInv, TypeOK, Counted
<1>1. CASE TellError
  <2>1. Contains(told', "Error")
      BY <1>0, <1>1, ContainsAppended DEF TellError, send_error, Update
  <2> QED
      BY <1>0, <1>1, <2>1 DEF TellError
<1>2. CASE Terminate
    BY <1>0, <1>2 DEF Terminate, Contains
<1>3. CASE Staging \/ connection_stage
  <2>1. /\ task \in {"proximity", "connect"} /\ UNCHANGED <<conn, fault, outcome>>
      BY <1>3, StagingFrame DEF connection_stage
  <2> QED
      BY <1>0, <2>1
<1>4. CASE handshake_stage
    BY <1>0, <1>4 DEF handshake_stage
<1>5. CASE Failing
    BY <1>0, <1>5, FailingFrame
<1>6. CASE Serving
    BY <1>0, <1>6, ServingFrame
<1>7. CASE Calling
  <2>1. outcome' = "ConnectionFailed" => conn = "Terminated"
      BY <1>0, <1>7
      DEF Calling, wait_for_connection, cbor_send, cbor_recv, Abandon, Begin,
          Return, Goto, IsConnected
  <2>2. Contains(told, "Error")' = Contains(told, "Error")
      BY <1>7, CallingFrame DEF Contains
  <2> QED
      BY <1>0, <1>7, <2>1, <2>2, CallingFrame
<1>8. CASE Opening
    BY <1>0, <1>8, OpeningFrame DEF Opened
<1>9. CASE CopyRecord
  <2>1. UNCHANGED <<fault, task, told, conn, outcome>>
      BY <1>9 DEF CopyRecord, SameChannel
  <2> QED
      BY <1>0, <2>1 DEF Contains
<1>10. CASE drop
    BY <1>10 DEF drop
<1>11. CASE Outside
  <2>1. UNCHANGED <<fault, task, told, conn, outcome>>
      BY <1>11, OutsideFrame
  <2> QED
      BY <1>0, <2>1 DEF Contains
<1>12. CASE UNCHANGED vars
    BY <1>0, <1>12 DEF vars, Contains
<1> QED
    BY <1>1, <1>2, <1>3, <1>4, <1>5, <1>6, <1>7, <1>8, <1>9, <1>10, <1>11,
       <1>12, StepCases

(* The links: signed ones were handed out, and so were those kept.         *)
LEMMA GenuineKept ==
    ASSUME TunnelAssumption, IInv, [Next]_vars
    PROVE  Genuine'
<1> USE DEF sessionVars, queueVars, wireVars, storeVars, phoneVars, callerVars
<1>0. /\ Genuine /\ Opened /\ NearFirst
      /\ down \in Seq(FrameType) /\ links \in [Phones -> 0..MaxLinks]
      /\ store \in [Phones -> 0..ForgedLink]
      /\ copies \in [Phones -> SUBSET (1..ForgedLink)]
      /\ contacts \in [Phones -> SUBSET (1..MaxLinks)]
    BY DEF IInv, TypeOK
<1>1. CASE UNCHANGED <<store, copies, contacts, links, down>>
    BY <1>0, <1>1 DEF Genuine
<1>2. CASE UNCHANGED <<store, copies, contacts, links>> /\ down # <<>> /\ down' = Tail(down)
    BY <1>0, <1>2 DEF Genuine
<1>3. CASE TellError \/ Terminate \/ Staging \/ connection_stage \/ Calling \/ Opening
           \/ UNCHANGED vars
    BY <1>1, <1>3, StagingFrame, CallingFrame, OpeningFrame
    DEF TellError, Terminate, connection_stage, vars
<1>4. CASE handshake_stage
  <2>1. PICK type \in {"initial", "bad"} : down' = <<Frame(type)>>
      BY <1>4 DEF handshake_stage
  <2>2. UNCHANGED <<store, copies, contacts, links>>
      BY <1>4 DEF handshake_stage
  <2>3. Frame(type).signed = FALSE
      BY FrameFields
  <2>4. \A i \in 1..Len(down') : down'[i].signed = FALSE
    <3> HIDE DEF Frame
    <3> QED
        BY <2>1, <2>3
  <2> QED
      BY <1>0, <2>2, <2>4 DEF Genuine
<1>5. CASE Failing
  <2>1. CASE tunnel_gone
    <3>1. /\ session.phone \in Phones /\ UNCHANGED <<copies, contacts, links, down>>
          /\ store' = [store EXCEPT ![session.phone] = NoLink]
        BY <1>0, <2>1 DEF tunnel_gone, Reachable, Opened
    <3> QED
        BY <1>0, <3>1 DEF Genuine, NoLink
  <2>2. CASE connection_recv_initial
    <3>1. UNCHANGED <<store, copies, contacts, links>> /\ down' = Tail(down)
        BY <2>2 DEF connection_recv_initial
    <3>2. CASE down # <<>>
        BY <1>2, <3>1, <3>2
    <3>3. CASE down = <<>>
        BY <1>0, <3>1, <3>3 DEF Genuine
    <3> QED
        BY <3>2, <3>3
  <2> QED
      BY <1>1, <1>5, <2>1, <2>2
      DEF Failing, follow_redirect, stage_fails
<1>6. CASE Serving
  <2>1. CASE connection_recv
    <3>1. /\ UNCHANGED <<copies, contacts, links>> /\ down # <<>> /\ down' = Tail(down)
          /\ store' \in {store, apply_linking_update(Head(down))}
        BY <2>1 DEF connection_recv
    <3>2. CASE store' = store
        BY <1>2, <3>1, <3>2
    <3>3. CASE store' # store
      <4>1. /\ Head(down) = down[1] /\ Head(down).signed
            /\ store' = [store EXCEPT ![Head(down).phone] = Head(down).link]
          BY <3>1, <3>3, <1>0 DEF apply_linking_update
      <4>2. /\ Head(down).phone \in Phones
            /\ Head(down).link \in 1..links[Head(down).phone]
          BY <1>0, <3>1, <4>1 DEF Genuine
      <4> QED
          BY <1>0, <3>1, <4>1, <4>2 DEF Genuine
    <3> QED
        BY <3>2, <3>3
  <2> QED
      BY <1>1, <1>6, <2>1
      DEF Serving, deliver_pending, connection_send, connection_send_fails
<1>7. CASE CopyRecord
  <2>1. PICK p \in Phones :
           /\ store[p] \notin copies[p] \cup {NoLink}
           /\ copies' = [copies EXCEPT ![p] = @ \cup {store[p]}]
      BY <1>7 DEF CopyRecord
  <2>2. UNCHANGED <<store, contacts, links, down>>
      BY <1>7 DEF CopyRecord, SameChannel
  <2>3. store[p] \in 1..links[p]
      BY <1>0, <2>1 DEF Genuine, NoLink
  <2> QED
      BY <1>0, <2>1, <2>2, <2>3 DEF Genuine
<1>8. CASE drop
    BY <1>0, <1>8 DEF drop, Genuine
<1>9. CASE Outside
  <2>1. CASE PhoneAnswers \/ ForgedUpdate \/ BadFrame \/ PhoneHangsUp
    <3>1. UNCHANGED <<store, copies, contacts, links>>
        BY <2>1 DEF PhoneAnswers, ForgedUpdate, BadFrame, PhoneHangsUp, PhoneSends
    <3>2. \E frame : down' = Append(down, frame) /\ frame.signed = FALSE
      <4>1. CASE PhoneAnswers
        <5> DEFINE frame == [Frame("ctap") EXCEPT !.id = Head(up)]
        <5>1. frame.signed = FALSE
            BY DEF Frame
        <5>2. down' = Append(down, frame)
            BY <4>1 DEF PhoneAnswers, PhoneSends
        <5> HIDE DEF frame
        <5> QED
            BY <5>1, <5>2
      <4>2. CASE ForgedUpdate
        <5> DEFINE frame(p) == [Frame("update") EXCEPT !.phone = p, !.link = ForgedLink]
        <5>1. \A p : frame(p).signed = FALSE
            BY DEF Frame
        <5>2. \E p \in Phones : down' = Append(down, frame(p))
            BY <4>2 DEF ForgedUpdate, PhoneSends
        <5> HIDE DEF frame
        <5> QED
            BY <5>1, <5>2
      <4>3. CASE BadFrame \/ PhoneHangsUp
          BY <4>3, FrameFields DEF BadFrame, PhoneHangsUp, PhoneSends
      <4> QED
          BY <2>1, <4>1, <4>2, <4>3
    <3> QED
        BY <1>0, <3>1, <3>2 DEF Genuine
  <2>2. CASE PhoneLinks
    <3> DEFINE p == session.phone
               frame == [Frame("update") EXCEPT !.phone = p, !.link = links[p] + 1,
                                                !.signed = TRUE]
    <3>1. /\ p \in Phones /\ UNCHANGED <<store, copies>>
          /\ links' = [links EXCEPT ![p] = @ + 1]
          /\ contacts' = [contacts EXCEPT ![p] = @ \cup {links[p] + 1}]
          /\ down' = Append(down, frame)
        BY <1>0, <2>2 DEF PhoneLinks, PhoneSends, NearFirst, Opened
    <3>2. \A q \in Phones : links[q] \in Nat /\ links'[q] \in Nat /\ links[q] <= links'[q]
        BY <1>0, <3>1
    <3>3. links'[p] = links[p] + 1
        BY <1>0, <3>1
    <3>4. /\ frame.phone = p /\ frame.link = links[p] + 1
        BY DEF Frame
    <3>5. \A i \in 1..Len(down') :
             down'[i].signed => /\ down'[i].phone \in Phones
                                /\ down'[i].link \in 1..links'[down'[i].phone]
      <4> SUFFICES ASSUME NEW i \in 1..Len(down'), down'[i].signed
                   PROVE  /\ down'[i].phone \in Phones
                          /\ down'[i].link \in 1..links'[down'[i].phone]
          OBVIOUS
      <4> HIDE DEF frame
      <4>1. CASE i = Len(down) + 1
          BY <1>0, <3>1, <3>2, <3>3, <3>4, <4>1
      <4>2. CASE i # Len(down) + 1
        <5>1. i \in 1..Len(down) /\ down'[i] = down[i]
            BY <1>0, <3>1, <4>2
        <5>2. down[i].phone \in Phones /\ down[i].link \in 1..links[down[i].phone]
            BY <1>0, <5>1 DEF Genuine
        <5> QED
            BY <3>2, <5>1, <5>2
      <4> QED
          BY <4>1, <4>2
    <3>6. \A q \in Phones : /\ store'[q] \in 0..links'[q]
                            /\ copies'[q] \subseteq 1..links'[q]
                            /\ contacts'[q] \subseteq 1..links'[q]
      <4> SUFFICES ASSUME NEW q \in Phones
                   PROVE  /\ store'[q] \in 0..links'[q]
                          /\ copies'[q] \subseteq 1..links'[q]
                          /\ contacts'[q] \subseteq 1..links'[q]
          OBVIOUS
      <4>1. store[q] \in 0..links[q] /\ copies[q] \subseteq 1..links[q]
            /\ contacts[q] \subseteq 1..links[q]
          BY <1>0 DEF Genuine
      <4>2. contacts'[q] \subseteq contacts[q] \cup {links'[q]} /\ (q # p => contacts'[q] = contacts[q])
          BY <1>0, <3>1, <3>3
      <4>3. q = p => links'[q] \in 1..links'[q]
          BY <3>2, <3>3
      <4> QED
          BY <3>1, <3>2, <4>1, <4>2, <4>3
    <3> QED
        BY <3>5, <3>6 DEF Genuine
  <2>3. CASE ContactLost
    <3>1. PICK p \in Phones : \E g \in contacts[p] : contacts' = [contacts EXCEPT ![p] = @ \ {g}]
        BY <2>3 DEF ContactLost
    <3>2. UNCHANGED <<store, copies, links, down>>
        BY <2>3 DEF ContactLost
    <3> QED
        BY <1>0, <3>1, <3>2 DEF Genuine
  <2> QED
      BY <1>9, <2>1, <2>2, <2>3 DEF Outside
<1> QED
    BY <1>3, <1>4, <1>5, <1>6, <1>7, <1>8, <1>9, StepCases

-------------------------------------------------------------------------------
(* The types, a group of variables at a time.                              *)
TaskTyped ==
    /\ session \in [kind : {"none", "qr", "known"}, phone : Phones \cup {Nobody},
                    link : 0..MaxLinks, persistent : BOOLEAN]
    /\ task \in {"none", "proximity", "connect", "handshake", "initial", "loop",
                 "failing", "ending", "done"}
    /\ redirects \in 0..(MAX_TUNNEL_REDIRECTS + 1)
    /\ conn \in {"Connecting", "Connected", "Terminated"}
    /\ near \in BOOLEAN /\ fault \in BOOLEAN
    /\ told \in Seq(Update)

QueuesTyped ==
    /\ pending \in {0} \cup Call
    /\ requests \in Seq(Requests) /\ Len(requests) <= Capacity
    /\ responses \in Seq({0} \cup Call) /\ Len(responses) <= Capacity
    /\ up \in Seq(Call) /\ down \in Seq(FrameType)

LinksTyped ==
    /\ store \in [Phones -> 0..ForgedLink]
    /\ copies \in [Phones -> SUBSET (1..ForgedLink)]
    /\ links \in [Phones -> 0..MaxLinks]
    /\ contacts \in [Phones -> SUBSET (1..MaxLinks)]

CallerTyped ==
    /\ pc \in {"idle", "sendWait", "send", "recvWait", "recv"}
    /\ call \in [id : {0} \cup Call, cmd : {"GetInfo", "Other"}]
    /\ outcome \in Outcomes /\ answer \in {0} \cup Call
    /\ reused \in BOOLEAN
    /\ n \in [sessions : Nat, calls : 0..MaxCalls, odd : Nat]

LEMMA TypesAreThose ==
    TypeOK /\ Counted <=> TaskTyped /\ QueuesTyped /\ LinksTyped /\ CallerTyped
    BY DEF TypeOK, Counted, TaskTyped, QueuesTyped, LinksTyped, CallerTyped

LEMMA TaskTypeKept ==
    ASSUME TunnelAssumption, IInv, [Next]_vars
    PROVE  TaskTyped'
<1> USE DEF TaskTyped, sessionVars, queueVars, wireVars, storeVars, phoneVars, callerVars
<1>0. TaskTyped /\ Opened /\ Genuine /\ links \in [Phones -> 0..MaxLinks] /\ MaxLinks \in Nat
    BY TypesAreThose DEF IInv, LinksTyped, TunnelAssumption
<1>1. CASE TellError \/ Terminate
  <2>1. told' \in Seq(Update)
      BY <1>0, <1>1, Pushed DEF TellError, send_error, Terminate, Update
  <2> QED
      BY <1>0, <1>1, <2>1 DEF TellError, Terminate
<1>2. CASE Staging
  <2>1. session.kind \in {"qr", "known"}
      BY <1>0, <1>2, StagingFrame DEF Opened
  <2>2. PICK p \in Phones :
              /\ near' = TRUE /\ session' = [session EXCEPT !.phone = p]
              /\ task' = NextStage["proximity"]
              /\ told' = Append(told, UpdateOf[task'])
              /\ UNCHANGED <<redirects, conn, fault>>
      BY <1>2, StagingFrame
  <2>3. task' \in {"connect", "handshake"} /\ UpdateOf[task'] \in Update
      BY <2>1, <2>2, NextStages, StageUpdates
  <2>4. told' \in Seq(Update)
      BY <1>0, <2>2, <2>3, Pushed
  <2> QED
      BY <1>0, <2>2, <2>3, <2>4
<1>3. CASE connection_stage
  <2>1. /\ task = "connect" /\ task' = NextStage["connect"] /\ redirects' = 0
        /\ told' = Append(told, UpdateOf[task']) /\ UNCHANGED <<session, near, conn, fault>>
      BY <1>3 DEF connection_stage, Enter
  <2>2. session.kind \in {"qr", "known"}
      BY <1>0, <2>1 DEF Opened
  <2>3. task' \in {"proximity", "handshake"} /\ UpdateOf[task'] \in Update
      BY <2>1, <2>2, NextStages, StageUpdates
  <2> QED
      BY <1>0, <2>1, <2>3 DEF TunnelAssumption
<1>4. CASE handshake_stage
    BY <1>0, <1>4 DEF handshake_stage, Update
<1>5. CASE Failing
  <2>1. redirects' \in 0..(MAX_TUNNEL_REDIRECTS + 1)
      BY <1>0, <1>5, FailingFrame DEF follow_redirect, Opened, TunnelAssumption
  <2>2. fault' \in BOOLEAN
      BY <1>0, <1>5
      DEF Failing, follow_redirect, tunnel_gone, stage_fails,
          connection_recv_initial, Fail
  <2> QED
      BY <1>0, <1>5, <2>1, <2>2, FailingFrame
<1>6. CASE Serving
  <2>1. fault' \in BOOLEAN
      BY <1>0, <1>6
      DEF Serving, connection_recv, deliver_pending, connection_send,
          connection_send_fails, Fail, CloseCleanly
  <2> QED
      BY <1>0, <1>6, <2>1, ServingFrame
<1>7. CASE Calling
    BY <1>0, <1>7, CallingFrame
<1>8. CASE Opening
  <2>1. \A p \in Phones : copies[p] \subseteq 0..MaxLinks
      BY <1>0 DEF Genuine
  <2>2. session'.link \in 0..MaxLinks
      BY <1>0, <1>8, <2>1, OpeningFrame DEF NoLink
  <2>3. told' \in Seq(Update)
    <3>1. task' \in {"proximity", "connect"} /\ told' = <<UpdateOf[task']>>
        BY <1>8, OpeningFrame
    <3>2. UpdateOf[task'] \in Update
        BY <3>1, StageUpdates
    <3> QED
        BY <3>1, <3>2
  <2> QED
      BY <1>0, <1>8, <2>2, <2>3, OpeningFrame DEF TunnelAssumption
<1>9. CASE CopyRecord
    BY <1>0, <1>9 DEF CopyRecord, SameChannel
<1>10. CASE drop
  <2>1. session' = Closed /\ 0 \in 0..MaxLinks /\ 0 \in 0..(MAX_TUNNEL_REDIRECTS + 1)
      BY <1>0, <1>10 DEF drop, TunnelAssumption
  <2>2. Closed \in [kind : {"none", "qr", "known"}, phone : Phones \cup {Nobody},
                    link : 0..MaxLinks, persistent : BOOLEAN]
      BY <2>1 DEF Closed, NoLink
  <2>3. /\ task' = "none" /\ redirects' = 0 /\ conn' = "Connecting" /\ near' = FALSE
        /\ fault' = FALSE /\ told' = <<>>
      BY <1>10 DEF drop
  <2>4. told' \in Seq(Update)
      BY <2>3
  <2> QED
      BY <2>1, <2>2, <2>3, <2>4
<1>11. CASE Outside
    BY <1>0, <1>11, OutsideFrame
<1>12. CASE UNCHANGED vars
    BY <1>0, <1>12 DEF vars
<1> QED
    BY <1>1, <1>2, <1>3, <1>4, <1>5, <1>6, <1>7, <1>8, <1>9, <1>10, <1>11,
       <1>12, StepCases

LEMMA RespondType ==
    ASSUME TunnelAssumption, responses \in Seq({0} \cup Call), Len(responses) <= Capacity,
           pending \in {0} \cup Call, NEW id \in {0} \cup Call, Respond(id)
    PROVE  /\ responses' \in Seq({0} \cup Call) /\ Len(responses') <= Capacity
           /\ pending' \in {0} \cup Call
<1>1. Append(responses, id) \in Seq({0} \cup Call)
      /\ Len(Append(responses, id)) = Len(responses) + 1 /\ Len(responses) \in Nat
    BY Pushed
<1> QED
    BY <1>1, SMTT(30) DEF Respond, TunnelAssumption

LEMMA QueueTypesKept ==
    ASSUME TunnelAssumption, IInv, [Next]_vars
    PROVE  QueuesTyped'
<1> USE DEF QueuesTyped, sessionVars, queueVars, wireVars, storeVars, phoneVars, callerVars
<1>0. /\ QueuesTyped /\ CallerTyped /\ LinksTyped /\ Opened /\ NearFirst
      /\ Capacity \in Nat \ {0} /\ MaxLinks \in Nat
    BY TypesAreThose DEF IInv, TunnelAssumption
<1>1. CASE UNCHANGED <<pending, requests, responses, up, down>>
    BY <1>0, <1>1
<1>2. CASE TellError \/ Terminate \/ Staging \/ connection_stage \/ Opening
           \/ CopyRecord \/ UNCHANGED vars
    BY <1>1, <1>2, StagingFrame, OpeningFrame
    DEF TellError, Terminate, connection_stage, CopyRecord, SameChannel, vars
<1>3. CASE handshake_stage
  <2>1. UNCHANGED <<pending, requests, responses, up>>
      BY <1>3 DEF handshake_stage
  <2>2. PICK type \in {"initial", "bad"} : down' = <<Frame(type)>>
      BY <1>3 DEF handshake_stage
  <2>3. Frame(type) \in FrameType
      BY FrameIsTyped
  <2> QED
      BY <1>0, <2>1, <2>2, <2>3
<1>4. CASE Failing
  <2>1. down' \in Seq(FrameType)
    <3>1. down' \in {down, Tail(down)}
        BY <1>4, FailingFrame
    <3> QED
        BY <1>0, <3>1, Popped
  <2> QED
      BY <1>0, <1>4, <2>1, FailingFrame
<1>5. CASE Serving
  <2> USE DEF Respond, Fail, CloseCleanly
  <2>1. CASE connection_recv
    <3>1. /\ UNCHANGED <<requests, up>> /\ down # <<>> /\ down' = Tail(down)
          /\ \/ Respond(Head(down).id)
             \/ responses' = responses /\ pending' \in {0, pending}
        BY <2>1 DEF connection_recv
    <3>2. Head(down) \in FrameType /\ down' \in Seq(FrameType)
        BY <1>0, <3>1, Popped
    <3>3. Head(down).id \in {0} \cup Call
        BY <3>2 DEF FrameType
    <3>4. CASE Respond(Head(down).id)
        BY <1>0, <3>1, <3>2, <3>3, <3>4, RespondType
    <3>5. CASE responses' = responses /\ pending' \in {0, pending}
        BY <1>0, <3>1, <3>2, <3>5
    <3> QED
        BY <3>1, <3>4, <3>5
  <2>2. CASE deliver_pending
      BY <1>0, <2>2, Pushed DEF deliver_pending
  <2>3. CASE connection_send
    <3>1. /\ Head(requests) \in Requests /\ requests' = Tail(requests) /\ down' = down
          /\ requests' \in Seq(Requests) /\ Len(requests') <= Capacity
        BY <1>0, <2>3, Popped DEF connection_send
    <3>2. Head(requests).id \in Call
        BY <3>1 DEF Requests
    <3>3. CASE Respond(Head(requests).id) /\ up' = up
        BY <1>0, <3>1, <3>2, <3>3, RespondType
    <3>4. CASE up' = Append(up, Head(requests).id) /\ UNCHANGED <<responses, pending>>
        BY <1>0, <3>1, <3>2, <3>4, Pushed
    <3> QED
        BY <2>3, <3>3, <3>4 DEF connection_send
  <2>4. CASE connection_send_fails
    <3>1. /\ requests # <<>> /\ requests' = Tail(requests) /\ pending' = 0
          /\ UNCHANGED <<responses, up, down>>
        BY <2>4 DEF connection_send_fails
    <3> QED
        BY <1>0, <3>1, Popped
  <2> QED
      BY <1>5, <2>1, <2>2, <2>3, <2>4 DEF Serving
<1>6. CASE Calling
  <2>1. UNCHANGED <<pending, up, down>>
      BY <1>6, CallingFrame
  <2>2. CASE cbor_send
    <3>1. call \in [id : {0} \cup Call, cmd : {"GetInfo", "Other"}] /\ call.id \in Call
        BY <1>0, <2>2 DEF cbor_send, CallerTyped, Opened
    <3>2. call \in Requests
        BY <3>1 DEF Requests
    <3>3. /\ responses' = responses
          /\ \/ requests' = requests
             \/ Len(requests) < Capacity /\ requests' = Append(requests, call)
        BY <2>2 DEF cbor_send
    <3>4. Append(requests, call) \in Seq(Requests)
          /\ Len(Append(requests, call)) = Len(requests) + 1 /\ Len(requests) \in Nat
        BY <1>0, <3>2, Pushed
    <3>5. requests' \in Seq(Requests) /\ Len(requests') <= Capacity
      <4>1. CASE requests' = requests
          BY <1>0, <4>1
      <4>2. CASE Len(requests) < Capacity /\ requests' = Append(requests, call)
        <5>1. Len(requests') = Len(requests) + 1 /\ requests' \in Seq(Requests)
            BY <3>4, <4>2
        <5>2. Len(requests) \in Nat /\ Capacity \in Nat
            BY <1>0, <3>4
        <5> HIDE DEF QueuesTyped
        <5> QED BY <4>2, <5>1, <5>2
      <4> QED BY <3>3, <4>1, <4>2
    <3> QED
        BY <1>0, <2>1, <3>3, <3>5
  <2>3. CASE cbor_recv
    <3>1. /\ requests' = requests
          /\ responses' = responses \/ (responses # <<>> /\ responses' = Tail(responses))
        BY <2>3 DEF cbor_recv
    <3>2. Tail(responses) \in Seq({0} \cup Call) /\ Len(responses) \in Nat
          /\ (responses # <<>> => Len(Tail(responses)) = Len(responses) - 1)
        BY <1>0, Popped
    <3>3. CASE responses' = responses
        BY <1>0, <2>1, <3>1, <3>3
    <3>4. CASE responses # <<>> /\ responses' = Tail(responses)
      <4>1. Len(responses') = Len(responses) - 1 /\ responses' \in Seq({0} \cup Call)
          BY <3>2, <3>4
      <4>2. Len(responses') <= Capacity
          BY <1>0, <3>2, <4>1
      <4> QED
          BY <1>0, <2>1, <3>1, <4>1, <4>2
    <3> QED
        BY <3>1, <3>3, <3>4
  <2>4. CASE wait_for_connection \/ Abandon \/ \E cmd \in {"GetInfo", "Other"} : Begin(cmd)
      BY <1>0, <2>1, <2>4 DEF wait_for_connection, Abandon, Begin
  <2> QED
      BY <1>6, <2>2, <2>3, <2>4 DEF Calling
<1>7. CASE drop
    BY <1>0, <1>7 DEF drop
<1>8. CASE Outside
  <2>1. UNCHANGED <<pending, requests, responses>>
      BY <1>8, OutsideFrame
  <2>2. CASE PhoneAnswers
    <3>1. up # <<>> /\ up' = Tail(up) /\ Head(up) \in Call
        BY <1>0, <2>2 DEF PhoneAnswers
    <3>2. [Frame("ctap") EXCEPT !.id = Head(up)] \in FrameType
        BY <3>1, FrameIsTyped
    <3> QED
        BY <1>0, <2>1, <2>2, <3>1, <3>2 DEF PhoneAnswers, PhoneSends
  <2>3. CASE PhoneLinks
    <3>1. /\ session.phone \in Phones /\ up' = up
          /\ down' = Append(down, [Frame("update") EXCEPT
                        !.phone = session.phone, !.link = links[session.phone] + 1,
                        !.signed = TRUE])
        BY <1>0, <2>3 DEF PhoneLinks, PhoneSends, NearFirst, Opened
    <3>2. links[session.phone] + 1 \in 0..ForgedLink
        BY <1>0, <3>1 DEF LinksTyped, ForgedLink
    <3>3. [Frame("update") EXCEPT !.phone = session.phone,
             !.link = links[session.phone] + 1, !.signed = TRUE] \in FrameType
        BY <3>1, <3>2 DEF Frame, FrameType
    <3> QED
        BY <1>0, <2>1, <3>1, <3>3
  <2>4. CASE ForgedUpdate
    <3>1. PICK p \in Phones :
             down' = Append(down, [Frame("update") EXCEPT !.phone = p, !.link = ForgedLink])
        BY <2>4 DEF ForgedUpdate, PhoneSends
    <3>2. ForgedLink \in 0..ForgedLink
        BY <1>0 DEF ForgedLink
    <3>3. [Frame("update") EXCEPT !.phone = p, !.link = ForgedLink] \in FrameType
        BY <3>2 DEF Frame, FrameType
    <3> QED
        BY <1>0, <2>1, <2>4, <3>1, <3>3 DEF ForgedUpdate
  <2>5. CASE BadFrame \/ PhoneHangsUp
    <3>1. \E type \in {"bad", "close"} : down' = Append(down, Frame(type)) /\ up' = up
        BY <2>5 DEF BadFrame, PhoneHangsUp, PhoneSends
    <3> QED
        BY <1>0, <2>1, <3>1, FrameIsTyped
  <2>6. CASE ContactLost
      BY <1>1, <2>6 DEF ContactLost
  <2> QED
      BY <1>8, <2>2, <2>3, <2>4, <2>5, <2>6 DEF Outside
<1> QED
    BY <1>2, <1>3, <1>4, <1>5, <1>6, <1>7, <1>8, StepCases

LEMMA LinkTypesKept ==
    ASSUME TunnelAssumption, IInv, [Next]_vars
    PROVE  LinksTyped'
<1> USE DEF LinksTyped, sessionVars, queueVars, wireVars, storeVars, phoneVars, callerVars
<1>0. /\ LinksTyped /\ Opened /\ NearFirst /\ Genuine /\ MaxLinks \in Nat
      /\ down \in Seq(FrameType)
    BY TypesAreThose DEF IInv, QueuesTyped, TunnelAssumption
<1>1. CASE UNCHANGED <<store, copies, contacts, links>>
    BY <1>0, <1>1
<1>2. CASE \/ TellError \/ Terminate \/ Staging \/ connection_stage \/ handshake_stage
           \/ Calling \/ Opening \/ drop \/ UNCHANGED vars
    BY <1>1, <1>2, StagingFrame, CallingFrame, OpeningFrame
    DEF TellError, Terminate, connection_stage, handshake_stage, drop, vars
<1>3. CASE Failing
    BY <1>0, <1>1, <1>3, FailingFrame DEF tunnel_gone, NoLink, ForgedLink
<1>4. CASE Serving
  <2>1. CASE connection_recv
    <3>1. /\ UNCHANGED <<copies, contacts, links>> /\ down # <<>>
          /\ store' \in {store, apply_linking_update(Head(down))}
        BY <2>1 DEF connection_recv
    <3>2. Head(down) \in FrameType
        BY <1>0, <3>1, Popped
    <3>3. Head(down).link \in 0..ForgedLink
        BY <3>2 DEF FrameType
    <3>4. apply_linking_update(Head(down)) \in [Phones -> 0..ForgedLink]
        BY <1>0, <3>3 DEF apply_linking_update
    <3> QED
        BY <1>0, <3>1, <3>4
  <2> QED
      BY <1>1, <1>4, <2>1
      DEF Serving, deliver_pending, connection_send, connection_send_fails
<1>5. CASE CopyRecord
  <2>1. PICK p \in Phones :
           /\ store[p] \notin copies[p] \cup {NoLink}
           /\ copies' = [copies EXCEPT ![p] = @ \cup {store[p]}]
      BY <1>5 DEF CopyRecord
  <2>2. UNCHANGED <<store, contacts, links>>
      BY <1>5 DEF CopyRecord, SameChannel
  <2>3. store[p] \in 1..ForgedLink
      BY <1>0, <2>1 DEF NoLink
  <2> QED
      BY <1>0, <2>1, <2>2, <2>3
<1>6. CASE Outside
  <2>1. CASE PhoneLinks
    <3>1. /\ session.phone \in Phones /\ links[session.phone] < MaxLinks
          /\ links' = [links EXCEPT ![session.phone] = @ + 1]
          /\ contacts' = [contacts EXCEPT ![session.phone] = @ \cup {links[session.phone] + 1}]
          /\ UNCHANGED <<store, copies>>
        BY <1>0, <2>1 DEF PhoneLinks, PhoneSends, NearFirst, Opened
    <3>2. links[session.phone] + 1 \in 1..MaxLinks /\ links[session.phone] + 1 \in 0..MaxLinks
        BY <1>0, <3>1
    <3> QED
        BY <1>0, <3>1, <3>2
  <2>2. CASE ContactLost
    <3>1. PICK p \in Phones :
             \E g \in contacts[p] : contacts' = [contacts EXCEPT ![p] = @ \ {g}]
        BY <2>2 DEF ContactLost
    <3>2. UNCHANGED <<store, copies, links>>
        BY <2>2 DEF ContactLost
    <3> QED
        BY <1>0, <3>1, <3>2
  <2> QED
      BY <1>1, <1>6, <2>1, <2>2
      DEF Outside, PhoneAnswers, ForgedUpdate, BadFrame, PhoneHangsUp, PhoneSends
<1> QED
    BY <1>2, <1>3, <1>4, <1>5, <1>6, StepCases

LEMMA CallerTypesKept ==
    ASSUME TunnelAssumption, IInv, [Next]_vars
    PROVE  CallerTyped'
<1> USE DEF CallerTyped, sessionVars, queueVars, wireVars, storeVars, phoneVars, callerVars
<1>0. /\ CallerTyped /\ MaxCalls \in Nat /\ responses \in Seq({0} \cup Call)
    BY TypesAreThose DEF IInv, QueuesTyped, TunnelAssumption
<1>1. CASE UNCHANGED <<pc, call, outcome, answer, reused, n>>
    BY <1>0, <1>1
<1>2. CASE \/ TellError \/ Terminate \/ Staging \/ connection_stage \/ handshake_stage
           \/ Failing \/ Serving \/ CopyRecord \/ UNCHANGED vars
    BY <1>1, <1>2, StagingFrame, FailingFrame, ServingFrame
    DEF TellError, Terminate, connection_stage, handshake_stage, CopyRecord,
        SameChannel, vars
<1>3. CASE Calling
  <2>1. CASE \E cmd \in {"GetInfo", "Other"} : Begin(cmd)
    <3>1. PICK cmd \in {"GetInfo", "Other"} : Begin(cmd)
        BY <2>1
    <3>2. n.calls + 1 \in Call /\ n.calls + 1 \in 0..MaxCalls
        BY <1>0, <3>1 DEF Begin, Call
    <3>3. reused' \in BOOLEAN
        BY <1>0, <3>1 DEF Begin
    <3>4. call' = [id |-> n.calls + 1, cmd |-> cmd] /\ n' = [n EXCEPT !.calls = @ + 1]
          /\ pc' = "sendWait" /\ outcome' = "none" /\ answer' = 0
        BY <3>1 DEF Begin
    <3> QED
        BY <1>0, <3>2, <3>3, <3>4 DEF Outcomes
  <2>2. CASE wait_for_connection
      BY <1>0, <2>2 DEF wait_for_connection, Return, Goto, Outcomes
  <2>3. CASE cbor_send
      BY <1>0, <2>3 DEF cbor_send, Return, Goto, Outcomes
  <2>4. CASE cbor_recv
    <3>1. responses # <<>> => Head(responses) \in {0} \cup Call
        BY <1>0, Popped
    <3> QED
        BY <1>0, <2>4, <3>1 DEF cbor_recv, Return, Outcomes
  <2>5. CASE Abandon
      BY <1>0, <2>5 DEF Abandon, Return, Outcomes
  <2> QED
      BY <1>3, <2>1, <2>2, <2>3, <2>4, <2>5 DEF Calling
<1>4. CASE Opening
    BY <1>0, <1>4, OpeningFrame
<1>5. CASE drop
    BY <1>0, <1>5 DEF drop, Outcomes
<1>6. CASE Outside
  <2>1. UNCHANGED <<pc, call, outcome, answer, reused>>
      BY <1>6, OutsideFrame
  <2>2. n' = n \/ n' = [n EXCEPT !.odd = @ + 1]
      BY <1>6 DEF Outside, PhoneAnswers, PhoneLinks, ForgedUpdate, BadFrame,
                  PhoneHangsUp, ContactLost, Odd
  <2> QED
      BY <1>0, <2>1, <2>2
<1> QED
    BY <1>2, <1>3, <1>4, <1>5, <1>6, StepCases

-------------------------------------------------------------------------------
(* A call's own answer.                                                    *)
LEMMA MovedKeepsOwn ==
    ASSUME Own, UNCHANGED <<pc, call, outcome, answer, reused>>,
           Empty => Empty', Outstanding => Outstanding'
    PROVE  Own'
    BY DEF Own

(* What leaves the data channel without becoming an answer, or is lost.    *)
LEMMA LosingKeepsOwn ==
    ASSUME Own, UNCHANGED <<pc, call, outcome, answer, reused>>,
           requests' \in {requests, <<>>}, responses' = responses, up' = up,
           pending' \in {pending, 0},
           \/ UNCHANGED down
           \/ NoAnswer(down')
           \/ /\ NoAnswer(down) => NoAnswer(down')
              /\ OneAnswer(down, call.id) => OneAnswer(down', call.id)
    PROVE  Own'
<1>1. Empty => Empty'
    BY DEF Empty, EmptyBut, NoAnswer
<1>2. Outstanding => Outstanding'
    BY DEF Outstanding, Empty, EmptyBut, NoAnswer, OneAnswer
<1> QED
    BY <1>1, <1>2, MovedKeepsOwn

LEMMA TailKeepsAnswers ==
    ASSUME down \in Seq(FrameType), NEW id
    PROVE  \/ NoAnswer(Tail(down))
           \/ /\ NoAnswer(down) => NoAnswer(Tail(down))
              /\ OneAnswer(down, id) => OneAnswer(Tail(down), id)
<1>1. CASE down = <<>>
    BY <1>1 DEF NoAnswer
<1>2. CASE down # <<>>
    BY <1>2, OneLeaves, NoneLeaves
<1> QED
    BY <1>1, <1>2

(* The answer that reaches the task goes to the caller.                    *)
LEMMA RespondingMoves ==
    ASSUME NEW id, Respond(id), responses = <<>>, pending = 0
    PROVE  \/ responses' = <<id>> /\ pending' = 0
           \/ responses' = <<>> /\ pending' = id
    BY DEF Respond

LEMMA ServingKeepsOwn ==
    ASSUME TunnelAssumption, TypeOK, Own, Serving
    PROVE  Own'
<1> USE DEF sessionVars, queueVars, wireVars, storeVars, phoneVars, callerVars, TypeOK
<1>0. UNCHANGED <<pc, call, outcome, answer, reused>>
    BY ServingFrame
<1>1. CASE connection_recv
  <2>1. /\ pending = 0 /\ down # <<>> /\ down' = Tail(down) /\ UNCHANGED <<requests, up>>
        /\ \/ Head(down).type = "ctap" /\ Respond(Head(down).id)
           \/ Head(down).type # "ctap" /\ responses' = responses /\ pending' \in {0, pending}
      BY <1>1 DEF connection_recv, Looping, IsResponse, Fail, CloseCleanly
  <2>2. CASE Head(down).type # "ctap" /\ responses' = responses /\ pending' \in {0, pending}
    <3>1. /\ NoAnswer(down) => NoAnswer(down')
          /\ OneAnswer(down, call.id) => OneAnswer(down', call.id)
        BY <2>1, <2>2, OneLeaves, NoneLeaves
    <3> QED
        BY <1>0, <2>1, <2>2, <3>1, LosingKeepsOwn
  <2>3. CASE Head(down).type = "ctap" /\ Respond(Head(down).id)
    <3>1. ~NoAnswer(down)
        BY <2>1, <2>3, NoneLeaves
    <3>2. Outstanding => EmptyBut("down") /\ OneAnswer(down, call.id)
        BY <3>1 DEF Outstanding, Empty, EmptyBut
    <3>3. Outstanding => Head(down).id = call.id /\ NoAnswer(down')
        BY <2>1, <2>3, <3>2, OneLeaves
    <3>4. Outstanding => /\ responses = <<>> /\ pending = 0 /\ requests' = <<>> /\ up' = <<>>
                         /\ NoAnswer(down)'
        BY <2>1, <3>2, <3>3 DEF EmptyBut, NoAnswer
    <3>5. Outstanding => Outstanding'
        BY <1>0, <2>3, <3>3, <3>4, RespondingMoves DEF Outstanding, EmptyBut
    <3>6. ~Empty
        BY <3>1 DEF Empty, EmptyBut
    <3> QED
        BY <1>0, <3>5, <3>6, MovedKeepsOwn
  <2> QED
      BY <2>1, <2>2, <2>3
<1>2. CASE deliver_pending
  <2>1. /\ pending # 0 /\ pending' = 0 /\ UNCHANGED <<requests, up, down>>
        /\ responses' = Append(responses, pending)
      BY <1>2 DEF deliver_pending
  <2>2. Outstanding => /\ EmptyBut("pending") /\ pending = call.id
      BY <2>1 DEF Outstanding, Empty, EmptyBut
  <2>3. Outstanding => /\ responses' = <<call.id>> /\ requests' = <<>> /\ up' = <<>>
                       /\ NoAnswer(down)'
      BY <2>1, <2>2 DEF EmptyBut, NoAnswer
  <2>4. Outstanding => Outstanding'
      BY <1>0, <2>1, <2>3 DEF Outstanding, EmptyBut
  <2>5. ~Empty
      BY <2>1 DEF Empty, EmptyBut
  <2> QED
      BY <1>0, <2>4, <2>5, MovedKeepsOwn
<1>3. CASE connection_send \/ connection_send_fails
  <2>1. /\ pending = 0 /\ requests # <<>> /\ requests' = Tail(requests) /\ down' = down
        /\ \/ Respond(Head(requests).id) /\ up' = up
           \/ up' = Append(up, Head(requests).id) /\ UNCHANGED <<responses, pending>>
           \/ UNCHANGED <<up, responses>> /\ pending' = 0
      BY <1>3 DEF connection_send, connection_send_fails, Looping, Fail
  <2>2. Outstanding => EmptyBut("requests") /\ requests = <<call>>
      BY <2>1 DEF Outstanding, Empty, EmptyBut
  <2>3. Outstanding => /\ requests' = <<>> /\ Head(requests).id = call.id
                       /\ responses = <<>> /\ up = <<>> /\ NoAnswer(down)'
      BY <2>1, <2>2 DEF EmptyBut, NoAnswer
  <2>4. Outstanding => Outstanding'
    <3>1. CASE Respond(Head(requests).id) /\ up' = up
        BY <1>0, <2>1, <2>3, <3>1, RespondingMoves DEF Outstanding, EmptyBut
    <3>2. CASE up' = Append(up, Head(requests).id) /\ UNCHANGED <<responses, pending>>
      <4>1. Outstanding => up' = <<call.id>>
          BY <2>3, <3>2
      <4> QED
          BY <1>0, <2>1, <2>3, <3>2, <4>1 DEF Outstanding, EmptyBut
    <3>3. CASE UNCHANGED <<up, responses>> /\ pending' = 0
        BY <1>0, <2>1, <2>3, <3>3 DEF Outstanding, Empty, EmptyBut
    <3> QED
        BY <2>1, <3>1, <3>2, <3>3
  <2>5. ~Empty
      BY <2>1 DEF Empty, EmptyBut
  <2> QED
      BY <1>0, <2>4, <2>5, MovedKeepsOwn
<1> QED
    BY <1>1, <1>2, <1>3 DEF Serving

LEMMA OutsideKeepsOwn ==
    ASSUME TunnelAssumption, IInv, Outside
    PROVE  Own'
<1>0. /\ Own /\ down \in Seq(FrameType) /\ up \in Seq(Call)
      /\ UNCHANGED <<pending, requests, responses, pc, call, outcome, answer, reused>>
    BY OutsideFrame DEF IInv, TypeOK
<1>1. CASE PhoneAnswers
  <2> DEFINE frame == [Frame("ctap") EXCEPT !.id = Head(up)]
  <2>1. up # <<>> /\ up' = Tail(up) /\ down' = Append(down, frame)
      BY <1>1 DEF PhoneAnswers, PhoneSends
  <2>2. Head(up) \in Call
      BY <1>0, <2>1, Popped
  <2>3. frame \in FrameType
      BY <2>2, FrameIsTyped
  <2>4. frame.type = "ctap" /\ frame.id = Head(up)
      BY DEF Frame
  <2> HIDE DEF frame
  <2>5. Outstanding => EmptyBut("up") /\ up = <<call.id>>
      BY <2>1 DEF Outstanding, Empty, EmptyBut
  <2>6. Outstanding => up' = <<>> /\ Head(up) = call.id /\ NoAnswer(down)
    <3>1. Outstanding => up = <<call.id>>
        BY <2>5
    <3>2. Outstanding => up' = <<>> /\ Head(up) = call.id
      <4>1. SUFFICES ASSUME Outstanding
                     PROVE  up' = <<>> /\ Head(up) = call.id
          OBVIOUS
      <4>2. Head(up) = call.id /\ Tail(up) = <<>>
          BY <3>1, <4>1, Single
      <4> QED
          BY <2>1, <4>2
    <3>3. Outstanding => NoAnswer(down)
        BY <2>5 DEF EmptyBut
    <3> QED
        BY <3>2, <3>3
  <2>7. Outstanding => OneAnswer(down', call.id)
      BY <1>0, <2>1, <2>3, <2>4, <2>6, AnswerEnters
  <2>8. Outstanding => Outstanding'
    <3>1. Outstanding => OneAnswer(down, call.id)'
        BY <1>0, <2>7 DEF OneAnswer
    <3> QED
        BY <1>0, <2>5, <2>6, <3>1 DEF Outstanding, EmptyBut
  <2>9. ~Empty
      BY <2>1 DEF Empty, EmptyBut
  <2> QED
      BY <1>0, <2>8, <2>9, MovedKeepsOwn
<1>2. CASE PhoneLinks \/ ForgedUpdate \/ BadFrame \/ PhoneHangsUp
  <2>1. up' = up
      BY <1>2 DEF PhoneLinks, ForgedUpdate, BadFrame, PhoneHangsUp
  <2>2. \E frame : frame.type # "ctap" /\ down' = Append(down, frame)
    <3>1. CASE PhoneLinks
      <4> DEFINE frame == [Frame("update") EXCEPT
                    !.phone = session.phone, !.link = links[session.phone] + 1,
                    !.signed = TRUE]
      <4>1. frame.type = "update"
          BY DEF Frame
      <4>2. down' = Append(down, frame)
          BY <3>1 DEF PhoneLinks, PhoneSends
      <4> HIDE DEF frame
      <4> QED
          BY <4>1, <4>2
    <3>2. CASE ForgedUpdate
      <4> DEFINE frame(p) == [Frame("update") EXCEPT !.phone = p, !.link = ForgedLink]
      <4>1. \A p : frame(p).type = "update"
          BY DEF Frame
      <4>2. \E p \in Phones : down' = Append(down, frame(p))
          BY <3>2 DEF ForgedUpdate, PhoneSends
      <4> HIDE DEF frame
      <4> QED
          BY <4>1, <4>2
    <3>3. CASE BadFrame \/ PhoneHangsUp
        BY <3>3, FrameFields DEF BadFrame, PhoneHangsUp, PhoneSends
    <3> QED
        BY <1>2, <3>1, <3>2, <3>3
  <2>3. /\ NoAnswer(down) => NoAnswer(down')
        /\ OneAnswer(down, call.id) => OneAnswer(down', call.id)
      BY <1>0, <2>2, SMTT(30) DEF NoAnswer, OneAnswer
  <2> QED
      BY <1>0, <2>1, <2>3, LosingKeepsOwn
<1>3. CASE ContactLost
    BY <1>0, <1>3, LosingKeepsOwn DEF ContactLost, wireVars
<1> QED
    BY <1>1, <1>2, <1>3 DEF Outside

LEMMA CallingKeepsOwn ==
    ASSUME TunnelAssumption, IInv, Calling
    PROVE  Own'
<1> USE DEF Return, Goto
<1>0. Own /\ TypeOK /\ UNCHANGED <<pending, up, down>>
    BY CallingFrame DEF IInv
<1>1. CASE \E cmd \in {"GetInfo", "Other"} : Begin(cmd)
  <2>1. /\ pc = "idle" /\ pc' = "sendWait" /\ outcome' = "none"
        /\ reused' = (reused \/ outcome \notin {"none", "ok"})
        /\ UNCHANGED <<requests, responses>>
      BY <1>1 DEF Begin, queueVars
  <2>2. Empty' = Empty
      BY <1>0, <2>1 DEF Empty, EmptyBut, NoAnswer
  <2> QED
      BY <1>0, <2>1, <2>2 DEF Own
<1>2. CASE wait_for_connection
  <2>1. /\ UNCHANGED <<requests, responses, call, reused>>
        /\ \/ pc = "sendWait" /\ pc' = "send" /\ outcome' = outcome
           \/ pc = "recvWait" /\ pc' = "recv" /\ outcome' = outcome
           \/ pc \in {"sendWait", "recvWait"} /\ pc' = "idle" /\ outcome' = "ConnectionFailed"
      BY <1>2 DEF wait_for_connection, queueVars
  <2>2. Empty' = Empty /\ Outstanding' = Outstanding
      BY <1>0, <2>1 DEF Outstanding, Empty, EmptyBut, NoAnswer, OneAnswer
  <2> QED
      BY <1>0, <2>1, <2>2 DEF Own
<1>3. CASE cbor_send
  <2>1. /\ pc = "send" /\ UNCHANGED <<responses, call, reused>>
        /\ \/ /\ pc' = "idle" /\ outcome' \in {"TransportUnavailable", "Timeout"}
           \/ /\ pc' = "recvWait" /\ outcome' = outcome
              /\ requests' = Append(requests, call)
      BY <1>3 DEF cbor_send
  <2>2. CASE pc' = "idle" /\ outcome' \in {"TransportUnavailable", "Timeout"}
      BY <1>0, <2>2 DEF Own
  <2>3. CASE /\ pc' = "recvWait" /\ outcome' = outcome
             /\ requests' = Append(requests, call)
    <3>1. Empty => Outstanding'
      <4>1. requests = <<>> => requests' = <<call>>
          BY <2>3
      <4> QED
          BY <1>0, <2>1, <4>1 DEF Outstanding, Empty, EmptyBut, NoAnswer
    <3> QED
        BY <1>0, <2>1, <2>3, <3>1 DEF Own
  <2> QED
      BY <2>1, <2>2, <2>3
<1>4. CASE cbor_recv
  <2>1. /\ pc = "recv" /\ pc' = "idle" /\ UNCHANGED <<requests, call, reused>>
        /\ \/ /\ responses # <<>> /\ responses' = Tail(responses)
              /\ outcome' = "ok" /\ answer' = Head(responses)
           \/ outcome' \in {"TransportUnavailable", "Timeout"}
      BY <1>4 DEF cbor_recv
  <2>2. CASE outcome' \in {"TransportUnavailable", "Timeout"}
      BY <1>0, <2>1, <2>2 DEF Own
  <2>3. CASE /\ responses # <<>> /\ responses' = Tail(responses)
             /\ outcome' = "ok" /\ answer' = Head(responses)
    <3>1. Outstanding => EmptyBut("responses") /\ responses = <<call.id>>
        BY <2>3 DEF Outstanding, Empty, EmptyBut
    <3>2. Outstanding => responses' = <<>> /\ answer' = call.id
      <4>1. SUFFICES ASSUME Outstanding
                     PROVE  responses' = <<>> /\ answer' = call.id
          OBVIOUS
      <4>2. Head(responses) = call.id /\ Tail(responses) = <<>>
          BY <3>1, <4>1, Single
      <4> QED
          BY <2>3, <4>2
    <3>3. Outstanding => Empty'
        BY <1>0, <2>1, <3>1, <3>2 DEF Empty, EmptyBut, NoAnswer
    <3> QED
        BY <1>0, <2>1, <2>3, <3>2, <3>3 DEF Own
  <2> QED
      BY <2>1, <2>2, <2>3
<1>5. CASE Abandon
    BY <1>0, <1>5 DEF Abandon, Own
<1> QED
    BY <1>1, <1>2, <1>3, <1>4, <1>5 DEF Calling

LEMMA OwnKept ==
    ASSUME TunnelAssumption, IInv, [Next]_vars
    PROVE  Own'
<1> USE DEF sessionVars, queueVars, wireVars, storeVars, phoneVars, callerVars
<1>0. Own /\ TypeOK
    BY DEF IInv
<1>1. CASE UNCHANGED <<requests, responses, up, down, pending, pc, call, outcome,
                       answer, reused>>
    BY <1>0, <1>1, LosingKeepsOwn
<1>2. CASE TellError \/ Terminate \/ Staging \/ connection_stage \/ Opening \/ CopyRecord
           \/ UNCHANGED vars
    BY <1>1, <1>2, StagingFrame, OpeningFrame
    DEF TellError, Terminate, connection_stage, CopyRecord, SameChannel, vars
<1>3. CASE handshake_stage
  <2>1. /\ UNCHANGED <<requests, responses, up, pending, pc, call, outcome, answer, reused>>
        /\ \E type \in {"initial", "bad"} : down' = <<Frame(type)>>
      BY <1>3 DEF handshake_stage
  <2>2. NoAnswer(down')
    <3>1. PICK type \in {"initial", "bad"} : down' = <<Frame(type)>>
        BY <2>1
    <3>2. Frame(type).type # "ctap"
        BY FrameFields
    <3> QED
        BY <3>1, <3>2 DEF NoAnswer
  <2> QED
      BY <1>0, <2>1, <2>2, LosingKeepsOwn
<1>4. CASE Failing
  <2>1. /\ UNCHANGED <<requests, responses, up, pc, call, outcome, answer, reused>>
        /\ down' \in {down, Tail(down)} /\ pending' \in {pending, 0}
      BY <1>4, FailingFrame
  <2>2. \/ down' = down
        \/ NoAnswer(down')
        \/ /\ NoAnswer(down) => NoAnswer(down')
           /\ OneAnswer(down, call.id) => OneAnswer(down', call.id)
      BY <1>0, <2>1, TailKeepsAnswers DEF TypeOK
  <2> QED
      BY <1>0, <2>1, <2>2, LosingKeepsOwn
<1>5. CASE drop
    BY <1>5 DEF drop, Own, Empty, EmptyBut, NoAnswer
<1> QED
    BY <1>0, <1>2, <1>3, <1>4, <1>5, ServingKeepsOwn, CallingKeepsOwn,
       OutsideKeepsOwn, StepCases

-------------------------------------------------------------------------------
LEMMA InitSafe == ASSUME TunnelAssumption PROVE Init => IInv
<1> SUFFICES ASSUME Init PROVE IInv
    OBVIOUS
<1> USE DEF Init, TunnelAssumption
<1>1. TaskTyped
  <2>1. 0 \in 0..MaxLinks /\ 0 \in 0..(MAX_TUNNEL_REDIRECTS + 1)
      OBVIOUS
  <2>2. session \in [kind : {"none", "qr", "known"}, phone : Phones \cup {Nobody},
                     link : 0..MaxLinks, persistent : BOOLEAN]
      BY <2>1 DEF Closed, NoLink
  <2>3. told \in Seq(Update)
      OBVIOUS
  <2> QED
      BY <2>1, <2>2, <2>3 DEF TaskTyped
<1>2. QueuesTyped
    BY DEF QueuesTyped
<1>3. LinksTyped
  <2>1. 0 \in 0..ForgedLink /\ 0 \in 0..MaxLinks
      BY DEF ForgedLink
  <2>2. store \in [Phones -> 0..ForgedLink]
      BY <2>1 DEF NoLink
  <2>3. links \in [Phones -> 0..MaxLinks]
      BY <2>1
  <2>4. copies \in [Phones -> SUBSET (1..ForgedLink)]
      OBVIOUS
  <2>5. contacts \in [Phones -> SUBSET (1..MaxLinks)]
      OBVIOUS
  <2> QED
      BY <2>2, <2>3, <2>4, <2>5 DEF LinksTyped
<1>4. CallerTyped
  <2>1. n \in [sessions : Nat, calls : 0..MaxCalls, odd : Nat]
    <3>1. 0 \in Nat /\ 0 \in 0..MaxCalls
        OBVIOUS
    <3> QED
        BY <3>1
  <2>2. call \in [id : {0} \cup Call, cmd : {"GetInfo", "Other"}]
      OBVIOUS
  <2> QED
      BY <2>1, <2>2 DEF CallerTyped, Outcomes
<1>5. Opened /\ NearFirst /\ ToldFirst
    BY DEF Opened, NearFirst, ToldFirst, Closed
<1>6. Genuine
    BY DEF Genuine, NoLink
<1>7. Own
    BY DEF Own, Empty, EmptyBut, NoAnswer
<1> QED
    BY <1>1, <1>2, <1>3, <1>4, <1>5, <1>6, <1>7, TypesAreThose DEF IInv

LEMMA Safety == ASSUME TunnelAssumption PROVE Spec => []IInv
<1>1. Init => IInv
    BY InitSafe
<1>2. IInv /\ [Next]_vars => IInv'
  <2> SUFFICES ASSUME IInv, [Next]_vars PROVE IInv'
      OBVIOUS
  <2>1. (TypeOK /\ Counted)'
    <3>1. TaskTyped' /\ QueuesTyped' /\ LinksTyped' /\ CallerTyped'
        BY TaskTypeKept, QueueTypesKept, LinkTypesKept, CallerTypesKept
    <3> QED
        BY <3>1 DEF TypeOK, Counted, TaskTyped, QueuesTyped, LinksTyped, CallerTyped
  <2> QED
      BY <2>1, OpenedKept, NearKept, ToldKept, GenuineKept, OwnKept DEF IInv
<1> QED
    BY <1>1, <1>2, PTL DEF Spec

(***************************************************************************)
(* The state keeps its type: the queues never hold more than they may, and *)
(* no more redirects are followed than tunnel.rs allows.                   *)
(***************************************************************************)
THEOREM TunnelTypesAreCorrect == Spec => []TypeOK
<1>1. IInv => TypeOK
    BY DEF IInv
<1> QED
    BY <1>1, TunnelValues, Safety, PTL

(***************************************************************************)
(* A caller is let in only after an advertisement of this very session,    *)
(* whichever kind of channel it is and however its stages fail.            *)
(***************************************************************************)
THEOREM NearBeforeConnected == Spec => []ConnectedOnlyWhenNear
<1>1. IInv => ConnectedOnlyWhenNear
    BY DEF IInv, NearFirst, ConnectedOnlyWhenNear
<1> QED
    BY <1>1, TunnelValues, Safety, PTL

(***************************************************************************)
(* A call that fails with the connection finds the application told, since *)
(* the task tells it before it ends the wait.                              *)
(***************************************************************************)
THEOREM ErrorsAreToldFirst == Spec => []FailuresAreTold
<1>1. IInv => FailuresAreTold
    BY DEF IInv, ToldFirst, FailuresAreTold
<1> QED
    BY <1>1, TunnelValues, Safety, PTL

(***************************************************************************)
(* While no call on a channel was given up, each call is given its own     *)
(* answer, though the queues and the frames carry no identifiers.          *)
(***************************************************************************)
THEOREM AnswersAreMatched == Spec => []AnswersMatch
<1>1. IInv => AnswersMatch
    BY DEF IInv, Own, AnswersMatch
<1> QED
    BY <1>1, TunnelValues, Safety, PTL

(***************************************************************************)
(* The store holds what phones handed out, whatever updates arrive; and no *)
(* update makes a phone forgotten: its record is deleted by a channel      *)
(* opened with it, when the contact that channel was opened with is gone.  *)
(***************************************************************************)
THEOREM StoresAreGenuine == Spec => StoreIsGenuine
<1>1. IInv => StoredLinksAreGenuine
    BY DEF IInv, Genuine, StoredLinksAreGenuine
<1>2. IInv /\ [Next]_vars => [ForgetsTheGone]_vars
  <2> SUFFICES ASSUME IInv, [Next]_vars PROVE ForgetsTheGone
      OBVIOUS
  <2>0. /\ store \in [Phones -> 0..ForgedLink] /\ down \in Seq(FrameType)
        /\ Genuine /\ links \in [Phones -> 0..MaxLinks]
      BY DEF IInv, TypeOK
  <2>1. CASE store' = store
      BY <2>1 DEF ForgetsTheGone
  <2>2. CASE tunnel_gone
      BY <2>0, <2>2 DEF tunnel_gone, Reachable, ForgetsTheGone
  <2>3. CASE connection_recv /\ store' # store
    <3>1. /\ down # <<>> /\ Head(down) = down[1] /\ Head(down).signed
          /\ store' = [store EXCEPT ![Head(down).phone] = Head(down).link]
        BY <2>0, <2>3 DEF connection_recv, apply_linking_update
    <3>2. Head(down).link # 0
        BY <2>0, <3>1 DEF Genuine
    <3>3. \A p \in Phones : store'[p] = store[p] \/ store'[p] # 0
        BY <2>0, <3>1, <3>2
    <3> QED
        BY <3>3 DEF ForgetsTheGone, NoLink
  <2>4. CASE TellError \/ Terminate \/ Staging \/ connection_stage \/ handshake_stage
             \/ Calling \/ Opening \/ CopyRecord \/ drop \/ Outside \/ UNCHANGED vars
      BY <2>1, <2>4, StagingFrame, CallingFrame, OpeningFrame, OutsideFrame
      DEF TellError, Terminate, connection_stage, handshake_stage, CopyRecord, drop,
          vars, storeVars
  <2> QED
      BY <2>1, <2>2, <2>3, <2>4, StepCases, FailingFrame, ServingFrame
<1> QED
    BY <1>1, <1>2, TunnelValues, Safety, PTL DEF Spec, StoreIsGenuine

===============================================================================
