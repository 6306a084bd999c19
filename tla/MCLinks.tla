-------------------------------- MODULE MCLinks --------------------------------
(***************************************************************************)
(* The NFC channel, which this module extends, and the Bluetooth channel   *)
(* in one check: a behaviour is one of a program that uses the one link or *)
(* the other.  The variables of the other channel stay as they began.      *)
(***************************************************************************)
EXTENDS NfcChannel

CONSTANTS
    BYTE, BleRequestSizes, AnswerSizes, ControlPoints, Supports, Timeout,
    MaxExtras, MaxLosses, MaxBondChanges   \* Bluetooth

VARIABLES
    link,    \* the link in use
    peer, revisions, opened, at, last, out, inq, received, dev, result, given,
    vouched, cut, size, working, used    \* Bluetooth

Ble ==
    INSTANCE BleChannel WITH
        RequestSizes <- BleRequestSizes,
        chan <- opened, pc <- at, call <- last, recv <- received, outcome <- result,
        answer <- given, broken <- cut, executed <- working, n <- used

ASSUME LinksAssumption == Ble!BleFramingAssumption /\ Ble!BleChannelAssumption

bleVars == <<peer, revisions, opened, at, last, out, inq, received, dev, result, given, vouched, cut,
             size, working, used>>
mcvars == <<link, vars, bleVars>>

(* A channel that is never opened. *)
IdleNfc == cards = [r \in Reader |-> Card(CHOOSE kind \in Kinds : TRUE)] /\ Init
IdleBle ==
    /\ peer = 0 /\ revisions = 0 /\ opened = 0 /\ at = "idle" /\ last = 0 /\ out = 0 /\ inq = 0
    /\ received = 0 /\ dev = 0 /\ result = 0 /\ given = 0 /\ vouched = 0 /\ cut = 0 /\ size = 0
    /\ working = 0 /\ used = 0

MCInit ==
    \/ link = "ble" /\ Ble!Init /\ IdleNfc
    \/ link = "nfc" /\ Init /\ IdleBle

OnBle == link = "ble" /\ UNCHANGED <<link, vars>>
OnNfc == link = "nfc" /\ UNCHANGED <<link, bleVars>>

MCNext ==
    \/ OnBle /\ Ble!Next
    \/ OnNfc /\ Next

MCSpec == MCInit /\ [][MCNext]_mcvars

(* The caller's task is polled, and time passes. *)
MCFairSpec ==
    /\ MCSpec
    /\ WF_mcvars(OnBle /\ Ble!frame_send) /\ WF_mcvars(OnBle /\ Ble!frame_recv)
    /\ WF_mcvars(OnBle /\ Ble!stream_ends) /\ WF_mcvars(OnBle /\ Ble!Tick)
    /\ WF_mcvars(OnBle /\ Ble!frame_recv_times_out) /\ WF_mcvars(OnBle /\ Ble!send_cancel)

-------------------------------------------------------------------------------
(* The properties of the two modules, each on its own link; TypeOK,        *)
(* OwnAnswers and PicksFido are those of NfcChannel.                       *)

(* Nothing is exchanged over a Bluetooth link without a bond.              *)
OnlyOverBondedLinks == link = "ble" => Ble!TypeOK /\ Ble!OnlyOverBondedLinks

(* Both channels keep the promise of an exchange: a call is given its own  *)
(* answer, or one that a call before it gave up, and no answer twice; for  *)
(* NFC the first kind alone (OwnAnswers).                                  *)
Ended(outcomes) ==
    [c \in Call |-> IF outcomes[c] \in {"none", "ok"} THEN outcomes[c] ELSE "failed"]
ToExchange ==
    INSTANCE Exchange WITH
        result <- Ended(IF link = "ble" THEN result ELSE outcome),
        given <- [c \in Call |-> IF link = "ble" THEN Ble!Gave(c) ELSE Gave(c)]

KeepsExchange == ToExchange!Spec


(* What the other side takes for a message is what was sent.               *)
MessagesAreWhole == RequestsAreWhole /\ (link = "ble" => Ble!BleMessagesAreWhole)
===============================================================================
