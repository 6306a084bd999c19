------------------------------- MODULE UxUpdates -------------------------------
(***************************************************************************)
(* Updates of a channel to the user's interfaces, and the PINs that come   *)
(* back (lib.rs, transport/channel.rs, and the two places of               *)
(* webauthn/pin_uv_auth_token.rs that wait for one).  An update is         *)
(* broadcast: what every subscriber reads is a copy of one value, which    *)
(* holds the only sender of the prompt's reply channel behind a shared     *)
(* reference, so that whoever answers must be the last to hold a copy.     *)
(* One ceremony runs on a channel at a time; it waits for a reply, or for  *)
(* the sender to be gone.                                                  *)
(***************************************************************************)
EXTENDS Naturals, Sequences

CONSTANTS
    Receivers,  \* those who may subscribe
    Pins, NoPin,
    Capacity,   \* of the broadcast channel; 16
    MaxPrompts  \* bound of the exploration

(* A queue that keeps nothing would keep the last update from everybody.   *)
(* The assumption on these; asserted where they get their values.          *)
UxAssumption == NoPin \notin Pins /\ Capacity \in Nat \ {0} /\ MaxPrompts \in Nat

VARIABLES
    task,        \* the ceremony: [pc, prompt]
    subscribed,
    unread,      \* of each receiver: prompts, and 0 for an update without a reply
    held,        \* of each receiver: the prompts it has a copy of
    answer,      \* what is in the reply channel of each prompt
    told, ended \* history: who was told the PIN is sent, how each wait ended

uxvars == <<task, subscribed, unread, held, answer, told, ended>>

Prompts == 1..MaxPrompts

Waits(p) == task.pc = "wait" /\ task.prompt = p

Unread(r, p) == \E i \in 1..Len(unread[r]) : unread[r][i] = p

(* A copy of the prompt is still somewhere: its reply channel has a        *)
(* sender.                                                                 *)
Alive(p) == \E r \in Receivers : p \in held[r] \/ Unread(r, p)

(* Nobody else has a copy, read or unread.                                 *)
LastCopy(r, p) ==
    /\ \A q \in Receivers \ {r} : p \notin held[q]
    /\ \A q \in Receivers : ~Unread(q, p)

(* Each subscriber's queue keeps the newest; one that lags loses the rest. *)
Newest(queue) == IF Len(queue) > Capacity THEN Tail(queue) ELSE queue
Broadcast(m) ==
    unread' = [r \in Receivers |->
                 IF r \in subscribed THEN Newest(Append(unread[r], m)) ELSE unread[r]]

Begin ==
    /\ task.pc = "idle"
    /\ task' = [task EXCEPT !.pc = "run"]
    /\ UNCHANGED <<subscribed, unread, held, answer, told, ended>>

(* PresenceRequired and UvRetry.                                           *)
Notify ==
    /\ task.pc = "run"
    /\ Broadcast(0)
    /\ UNCHANGED <<task, subscribed, held, answer, told, ended>>

(* obtain_pin, and a round of try_to_set_pin, up to the wait.  Without a   *)
(* subscriber the update is dropped, and the sender with it.               *)
Ask ==
    /\ task.pc = "run" /\ task.prompt < MaxPrompts
    /\ task' = [pc |-> "wait", prompt |-> task.prompt + 1]
    /\ Broadcast(task.prompt + 1)
    /\ UNCHANGED <<subscribed, held, answer, told, ended>>

(* The wait returns the PIN.  A PIN to set may be turned down for its      *)
(* length or by a policy, which leads to another prompt; the same prompt   *)
(* or another may come later in the ceremony.                              *)
Resumes ==
    /\ task.pc = "wait" /\ answer[task.prompt] # NoPin
    /\ ended' = [ended EXCEPT ![task.prompt] = "pin"]
    /\ task' = [task EXCEPT !.pc = "run"]
    /\ UNCHANGED <<subscribed, unread, held, answer, told>>

HungUp(p) == ~Alive(p) /\ answer[p] = NoPin

(* The sender is gone: PINRequired, or Cancelled for a PIN to set.         *)
NoPinProvided ==
    /\ task.pc = "wait" /\ HungUp(task.prompt)
    /\ ended' = [ended EXCEPT ![task.prompt] = "hung up"]
    /\ task' = [task EXCEPT !.pc = "idle"]
    /\ UNCHANGED <<subscribed, unread, held, answer, told>>

(* The ceremony ends otherwise.                                            *)
Finish ==
    /\ task.pc = "run"
    /\ task' = [task EXCEPT !.pc = "idle"]
    /\ UNCHANGED <<subscribed, unread, held, answer, told, ended>>

(* The caller drops the future.                                            *)
Dropped ==
    /\ task.pc = "wait"
    /\ ended' = [ended EXCEPT ![task.prompt] = "dropped"]
    /\ task' = [task EXCEPT !.pc = "idle"]
    /\ UNCHANGED <<subscribed, unread, held, answer, told>>

get_ux_update_receiver(r) ==
    /\ r \notin subscribed
    /\ subscribed' = subscribed \cup {r}
    /\ UNCHANGED <<task, unread, held, answer, told, ended>>

(* It drops its subscription; the updates it has taken stay with it.       *)
Unsubscribe(r) ==
    /\ r \in subscribed
    /\ subscribed' = subscribed \ {r}
    /\ unread' = [unread EXCEPT ![r] = <<>>]
    /\ UNCHANGED <<task, held, answer, told, ended>>

Receive(r) ==
    /\ unread[r] # <<>>
    /\ unread' = [unread EXCEPT ![r] = Tail(@)]
    /\ held' = [held EXCEPT ![r] = @ \cup ({Head(unread[r])} \ {0})]
    /\ UNCHANGED <<task, subscribed, answer, told, ended>>

(* Changed form: any copy will do.                                         *)
into_inner_Any(r, p) == TRUE
into_inner(r, p) == LastCopy(r, p)

(* PinRequiredUpdate::send_pin and PinNotSetUpdate::set_pin: the update is *)
(* consumed, whatever comes of it.                                         *)
send_pin(r, p, pin) ==
    /\ p \in held[r]
    /\ held' = [held EXCEPT ![r] = @ \ {p}]
    /\ \/ /\ into_inner(r, p) /\ Waits(p)
          /\ answer' = [answer EXCEPT ![p] = pin]
          /\ told' = [told EXCEPT ![p] = @ \cup {<<r, pin>>}]
       \/ ~(into_inner(r, p) /\ Waits(p)) /\ UNCHANGED <<answer, told>>
    /\ UNCHANGED <<task, subscribed, unread, ended>>

cancel(r, p) ==
    /\ p \in held[r]
    /\ held' = [held EXCEPT ![r] = @ \ {p}]
    /\ UNCHANGED <<task, subscribed, unread, answer, told, ended>>

(* What an interface does with a prompt in the end.                        *)
Settles(r, p) == cancel(r, p) \/ \E pin \in Pins : send_pin(r, p, pin)

Init ==
    /\ task = [pc |-> "idle", prompt |-> 0]
    /\ subscribed = {}
    /\ unread = [r \in Receivers |-> <<>>]
    /\ held = [r \in Receivers |-> {}]
    /\ answer = [p \in Prompts |-> NoPin]
    /\ told = [p \in Prompts |-> {}]
    /\ ended = [p \in Prompts |-> "no"]

CeremonyStep ==
    Begin \/ Notify \/ Ask \/ Resumes \/ NoPinProvided \/ Finish \/ Dropped
InterfaceStep(r) ==
    \/ get_ux_update_receiver(r) \/ Unsubscribe(r) \/ Receive(r)
    \/ \E p \in Prompts : Settles(r, p)

Next == CeremonyStep \/ \E r \in Receivers : InterfaceStep(r)

Spec == Init /\ [][Next]_uxvars

(* The ceremony's task is polled; each subscriber reads on a task of its   *)
(* own, as get_ux_update_receiver asks, and does something with a prompt:  *)
(* some of this happens.                                                   *)
Moves ==
    \/ Resumes \/ NoPinProvided
    \/ \E r \in Receivers : Receive(r) \/ \E p \in Prompts : Settles(r, p)

FairSpec == Spec /\ WF_uxvars(Moves)

-------------------------------------------------------------------------------

TypeOK ==
    /\ task \in [pc : {"idle", "run", "wait"}, prompt : 0..MaxPrompts]
    /\ subscribed \in SUBSET Receivers
    /\ unread \in [Receivers -> Seq(0..MaxPrompts)]
    /\ held \in [Receivers -> SUBSET Prompts]
    /\ answer \in [Prompts -> Pins \cup {NoPin}]
    /\ told \in [Prompts -> SUBSET (Receivers \X Pins)]
    /\ ended \in [Prompts -> {"no", "pin", "hung up", "dropped"}]

(* At most one interface is told that it has answered, the ceremony goes   *)
(* on with that PIN and no other, and an answer that was taken is not      *)
(* reported as a prompt nobody answered.                                   *)
AnswersAreKept ==
    \A p \in Prompts :
        /\ ended[p] = "pin" => \E r \in Receivers : told[p] = {<<r, answer[p]>>}
        /\ told[p] # {} =>
             ended[p] # "hung up" /\ \E r \in Receivers : told[p] = {<<r, answer[p]>>}

(* The ceremony gives a prompt up only when nobody can answer it any more: *)
(* an interface that still has it, or has still to read it, is waited for. *)
NobodyIsCutOff == \A p \in Prompts : ended[p] = "hung up" => ~Alive(p)

(* Both of them.                                                           *)
PromptsAreSettled == AnswersAreKept /\ NobodyIsCutOff

(* Every wait ends: with a PIN, or because all copies of the prompt are    *)
(* gone, those included that nobody ever reads.                            *)
WaitsEnd == (task.pc = "wait") ~> (task.pc # "wait")
===============================================================================
