------------------------------ MODULE Management ------------------------------
(***************************************************************************)
(* The management commands of an authenticator as an application issues    *)
(* them on one channel: its credentials are listed, renamed and deleted,   *)
(* fingerprints are enrolled sample by sample, its policy is changed, it   *)
(* is reset.  Each call is one command, authorised first where it needs to *)
(* be (UserVerification.tla); a list takes a Begin and as many Nexts as    *)
(* the Begin announced, and what a Next returns depends on what the        *)
(* authenticator remembers of the Begin.                                   *)
(*                                                                         *)
(* Authenticators from before the standard's final version answer to other *)
(* command codes, the "preview" ones.                                      *)
(***************************************************************************)
EXTENDS Naturals, Sequences, FiniteSets, SequencesExt

CONSTANTS
    Credentials,    \* the discoverable credentials there may be
    RpOf,           \* the relying party of each
    Templates,      \* the fingerprints there may be
    Samples,        \* the samples an enrolment takes
    Authenticators, \* [cm, bio: the codes it answers to, options]
    MaxListSize,    \* max_rpids_for_setminpinlength
    MaxCommands, MaxFailures, MaxOthers     \* bounds of the exploration

VARIABLES
    credentials,    \* the authenticator's credentials
    remembered,     \* its enumeration in progress: [kind, left]
    enrolled,       \* its fingerprints
    enrolling,      \* its enrolment in progress: [template, left]
    policy,         \* what was configured
    cm, bio,        \* the codes it answers to: credential management, fingerprints
    options,        \* the options of its getInfo
    record,         \* the application's stored token for this authenticator: there is one
    cred_mgmt_preview,  \* the channel's note of the code a Begin used
    list,           \* the application's list: [kind, rp, total, items]
    outcome,        \* how the last call ended
    undisturbed,    \* history: nothing touched the enumeration since its Begin
    missed,         \* history: an undisturbed enumeration failed or ran short
    n               \* the commands, failures and foreign commands so far

device == <<credentials, remembered, enrolled, enrolling, policy, cm, bio, options>>
Modes == {"real", "preview", "both", "none"}

(* The assumption on the constants; asserted where they get their values.  *)
ManagementAssumption ==
    /\ IsFiniteSet(Credentials)
    /\ \A a \in Authenticators : a.cm \in Modes /\ a.bio \in Modes
    /\ Samples \in Nat \ {0}
    /\ MaxCommands \in Nat /\ MaxFailures \in Nat /\ MaxOthers \in Nat

vars == <<device, record, cred_mgmt_preview, list, outcome, undisturbed, missed, n>>

NoList == [kind |-> "none", rp |-> "none", total |-> 0, items |-> <<>>]
Nothing == [kind |-> "none", left |-> <<>>]
NoEnrolling == [template |-> "none", left |-> 0]

Rps == {RpOf[c] : c \in credentials}
CredentialsOf(rp) == {c \in credentials : RpOf[c] = rp}

TypeOK ==
    /\ credentials \subseteq Credentials /\ enrolled \subseteq Templates
    /\ remembered.kind \in {"none", "rps", "creds"}
    /\ enrolling.left \in 0..Samples
    /\ cm \in Modes /\ bio \in Modes
    /\ cred_mgmt_preview \in BOOLEAN /\ record \in BOOLEAN
    /\ list.kind \in {"none", "rps", "creds"} /\ Len(list.items) <= list.total
    /\ outcome \in {"none", "ok", "InvalidCommand", "NotAllowed", "NoCredentials",
                    "InvalidDeviceResponse", "NotSupported", "RequestTooLarge", "failed"}
    /\ n \in [commands : 0..MaxCommands, failures : 0..MaxFailures, others : 0..MaxOthers]

Init ==
    /\ credentials \in SUBSET Credentials
    /\ remembered = Nothing /\ enrolled = {} /\ enrolling = NoEnrolling
    /\ policy = {}
    /\ \E a \in Authenticators : cm = a.cm /\ bio = a.bio /\ options = a.options
    /\ record \in BOOLEAN /\ cred_mgmt_preview = FALSE
    /\ list = NoList /\ outcome = "none"
    /\ undisturbed = FALSE /\ missed = FALSE
    /\ n = [commands |-> 0, failures |-> 0, others |-> 0]

-------------------------------------------------------------------------------
(* One call.                                                               *)

Call ==
    /\ n.commands < MaxCommands
    /\ n' = [n EXCEPT !.commands = @ + 1]

(* The preview code is taken where the authenticator has no other.         *)
handle_legacy_preview(mode) == mode = "preview"

Answers(mode, legacy) == mode \in {"both", IF legacy THEN "preview" ELSE "real"}

(* The command is not carried out, and changes nothing but a list that the *)
(* application is told to be broken off.                                   *)
Ends(result) ==
    /\ outcome' = result
    /\ UNCHANGED device

(* What a reset leaves of the authenticator's state: nothing.              *)
Emptied ==
    /\ credentials' = {} /\ remembered' = Nothing /\ enrolled' = {} /\ enrolling' = NoEnrolling
    /\ policy' = {}

(* A command fails on its way or is declined, or its answer is lost after  *)
(* the authenticator has carried it out.                                   *)
Fails ==
    /\ n.commands < MaxCommands /\ n.failures < MaxFailures
    /\ n' = [n EXCEPT !.commands = @ + 1, !.failures = @ + 1]
    /\ outcome' = "failed"
    /\ \/ remembered' \in {remembered, Nothing,
                           [remembered EXCEPT !.left = IF @ = <<>> THEN @ ELSE Tail(@)]}
          /\ UNCHANGED <<credentials, enrolled, enrolling, policy>>
       \/ /\ \E c \in credentials : credentials' = credentials \ {c}
          /\ UNCHANGED <<remembered, enrolled, enrolling, policy>>
       \/ Emptied
    /\ list' = NoList /\ undisturbed' = FALSE
    /\ UNCHANGED <<cm, bio, options, record, cred_mgmt_preview, missed>>

-------------------------------------------------------------------------------
(* Credential management.                                                  *)

(* Changed form, with which the properties are tested. *)
set_cred_mgmt_preview_Forgotten(legacy) == UNCHANGED cred_mgmt_preview

set_cred_mgmt_preview(legacy) == cred_mgmt_preview' = legacy

(* A Begin, with what there is to list.                                    *)
enumerate_begin(kind, rp, all) ==
    LET legacy == handle_legacy_preview(cm)
    IN  /\ Call
        /\ UNCHANGED <<record, missed>>
        /\ \/ /\ ~Answers(cm, legacy) /\ Ends("InvalidCommand")
              /\ UNCHANGED <<cred_mgmt_preview, list, undisturbed>>
           \/ /\ Answers(cm, legacy) /\ all = {}
              /\ outcome' \in {"NoCredentials", "InvalidDeviceResponse"}
              /\ IF outcome' = "NoCredentials" THEN UNCHANGED cred_mgmt_preview
                 ELSE set_cred_mgmt_preview(legacy)
              /\ remembered' = Nothing
              /\ list' = NoList /\ undisturbed' = FALSE
              /\ UNCHANGED <<credentials, enrolled, enrolling, policy, cm, bio, options>>
           \/ /\ Answers(cm, legacy) /\ all # {}
              /\ LET items == SetToSeq(all)
                 IN  /\ remembered' = [kind |-> kind, left |-> Tail(items)]
                     /\ list' = [kind |-> kind, rp |-> rp, total |-> Len(items),
                                 items |-> <<Head(items)>>]
              /\ outcome' = "ok"
              /\ set_cred_mgmt_preview(legacy)
              /\ undisturbed' = TRUE
              /\ UNCHANGED <<credentials, enrolled, enrolling, policy, cm, bio, options>>

enumerate_rps_begin == enumerate_begin("rps", "none", Rps)
enumerate_credentials_begin(rp) == enumerate_begin("creds", rp, CredentialsOf(rp))

(* A Next: no verification, no getInfo, the code the Begin used.           *)
enumerate_next(kind) ==
    /\ list.kind = kind /\ Len(list.items) < list.total
    /\ Call
    /\ IF Answers(cm, cred_mgmt_preview) /\ remembered.kind = kind /\ remembered.left # <<>>
       THEN /\ list' = [list EXCEPT !.items = Append(@, Head(remembered.left))]
            /\ remembered' = [remembered EXCEPT !.left = Tail(@)]
            /\ outcome' = "ok"
            /\ missed' = missed
            /\ UNCHANGED <<credentials, enrolled, enrolling, policy, cm, bio, options, undisturbed>>
       ELSE /\ Ends(IF Answers(cm, cred_mgmt_preview) THEN "NotAllowed" ELSE "InvalidCommand")
            /\ list' = NoList
            /\ missed' = (missed \/ undisturbed)
            /\ undisturbed' = FALSE
    /\ UNCHANGED <<record, cred_mgmt_preview>>

enumerate_rps_next_rp == enumerate_next("rps")
enumerate_credentials_next == enumerate_next("creds")

(* The other commands may make the authenticator forget its enumeration.   *)
Forgets == remembered' \in {remembered, Nothing}

get_credential_metadata ==
    LET legacy == handle_legacy_preview(cm)
    IN  /\ Call
        /\ outcome' = IF Answers(cm, legacy) THEN "ok" ELSE "InvalidCommand"
        /\ Forgets /\ undisturbed' = FALSE
        /\ UNCHANGED <<credentials, enrolled, enrolling, policy, cm, bio, options,
                       cred_mgmt_preview, list, record, missed>>

delete_credential(c) ==
    LET legacy == handle_legacy_preview(cm)
    IN  /\ Call
        /\ outcome' = IF ~Answers(cm, legacy) THEN "InvalidCommand"
                      ELSE IF c \in credentials THEN "ok" ELSE "NoCredentials"
        /\ credentials' = IF outcome' = "ok" THEN credentials \ {c} ELSE credentials
        /\ Forgets /\ undisturbed' = FALSE
        /\ UNCHANGED <<enrolled, enrolling, policy, cm, bio, options, cred_mgmt_preview,
                       list, record, missed>>

(* The preview has no such command, so none is sent.                       *)
update_user_info(c) ==
    /\ Call
    /\ \/ handle_legacy_preview(cm) /\ outcome' = "InvalidCommand"
       \/ /\ ~handle_legacy_preview(cm)
          /\ outcome' = IF ~Answers(cm, FALSE) THEN "InvalidCommand"
                        ELSE IF c \in credentials THEN "ok" ELSE "NoCredentials"
    /\ Forgets /\ undisturbed' = FALSE
    /\ UNCHANGED <<credentials, enrolled, enrolling, policy, cm, bio, options,
                   cred_mgmt_preview, list, record, missed>>

-------------------------------------------------------------------------------
(* Fingerprints.  The two questions about the sensor are put without       *)
(* verification, and so without a look at getInfo.                         *)

Unlisted == Forgets /\ undisturbed' = FALSE
            /\ UNCHANGED <<credentials, policy, cm, bio, options, cred_mgmt_preview, list, record, missed>>

BioCommand == Call /\ Unlisted

Refused(legacy) ==
    ~Answers(bio, legacy) /\ outcome' = "InvalidCommand" /\ UNCHANGED <<enrolled, enrolling>>

ask_sensor ==
    /\ BioCommand
    /\ \/ Refused(FALSE)
       \/ Answers(bio, FALSE) /\ outcome' = "ok" /\ UNCHANGED <<enrolled, enrolling>>
get_bio_modality == ask_sensor
get_fingerprint_sensor_info == ask_sensor

Verified == handle_legacy_preview(bio)

get_bio_enrollments ==
    /\ BioCommand
    /\ \/ Refused(Verified)
       \/ Answers(bio, Verified) /\ outcome' = "ok" /\ UNCHANGED <<enrolled, enrolling>>

remove_bio_enrollment(t) ==
    /\ BioCommand
    /\ \/ Refused(Verified)
       \/ /\ Answers(bio, Verified)
          /\ outcome' = IF t \in enrolled THEN "ok" ELSE "NotAllowed"
          /\ enrolled' = enrolled \ {t}
          /\ UNCHANGED enrolling

rename_bio_enrollment(t) ==
    /\ BioCommand
    /\ \/ Refused(Verified)
       \/ /\ Answers(bio, Verified)
          /\ outcome' = IF t \in enrolled THEN "ok" ELSE "NotAllowed"
          /\ UNCHANGED <<enrolled, enrolling>>

(* A Begin takes the first sample; the last sample enrols the finger.      *)
start_new_bio_enrollment(t) ==
    /\ BioCommand
    /\ \/ Refused(Verified)
       \/ /\ Answers(bio, Verified)
          /\ t \notin enrolled
          /\ outcome' = "ok"
          /\ enrolling' = [template |-> t, left |-> Samples - 1]
          /\ UNCHANGED enrolled

capture_next_bio_enrollment_sample(t) ==
    /\ BioCommand
    /\ \/ Refused(Verified)
       \/ /\ Answers(bio, Verified) /\ enrolling.template # t
          /\ outcome' = "NotAllowed" /\ UNCHANGED <<enrolled, enrolling>>
       \/ /\ Answers(bio, Verified) /\ enrolling.template = t
          /\ outcome' = "ok"
          /\ \/ UNCHANGED <<enrolled, enrolling>>       \* a bad sample
             \/ /\ enrolling.left > 1
                /\ enrolling' = [enrolling EXCEPT !.left = @ - 1] /\ UNCHANGED enrolled
             \/ /\ enrolling.left = 1
                /\ enrolled' = enrolled \cup {t} /\ enrolling' = NoEnrolling

cancel_current_bio_enrollment ==
    /\ BioCommand
    /\ \/ Refused(Verified)
       \/ Answers(bio, Verified) /\ outcome' = "ok" /\ enrolling' = NoEnrolling /\ UNCHANGED enrolled

-------------------------------------------------------------------------------
(* Policy, and reset.                                                      *)

Needs == [toggle_always_uv |-> {"authnrCfg", "alwaysUv"},
          enable_enterprise_attestation |-> {"authnrCfg", "ep"},
          set_min_pin_length |-> {"authnrCfg", "setMinPINLength"},
          force_change_pin |-> {"authnrCfg", "setMinPINLength"},
          set_min_pin_length_rpids |-> {"authnrCfg", "setMinPINLength", "minPinLength"}]

authenticator_config(command, size) ==
    /\ Call
    /\ \/ /\ ~(Needs[command] \subseteq options)
          /\ outcome' = "NotSupported" /\ UNCHANGED policy
       \/ /\ Needs[command] \subseteq options
          /\ size > MaxListSize
          /\ outcome' = "RequestTooLarge" /\ UNCHANGED policy
       \/ /\ Needs[command] \subseteq options
          /\ size <= MaxListSize
          /\ outcome' = "ok"
          /\ policy' = IF command = "toggle_always_uv" /\ command \in policy
                       THEN policy \ {command} ELSE policy \cup {command}
    /\ Forgets /\ undisturbed' = FALSE
    /\ UNCHANGED <<credentials, enrolled, enrolling, cm, bio, options, cred_mgmt_preview, list,
                   record, missed>>

(* The record is recognised before the reset and deleted after it; where   *)
(* getInfo fails, it stays.                                                *)
reset ==
    /\ Call
    /\ Emptied
    /\ record' \in IF n.failures < MaxFailures THEN {FALSE, record} ELSE {FALSE}
    /\ outcome' = "ok"
    /\ undisturbed' = FALSE
    /\ UNCHANGED <<cm, bio, options, cred_mgmt_preview, list, missed>>

(* Another application begins a list of its own, or deletes a credential.  *)
another_client ==
    /\ n.others < MaxOthers
    /\ n' = [n EXCEPT !.others = @ + 1]
    /\ \/ /\ Rps # {}
          /\ remembered' = [kind |-> "rps", left |-> Tail(SetToSeq(Rps))]
          /\ UNCHANGED credentials
       \/ \E rp \in Rps :
          /\ remembered' = [kind |-> "creds", left |-> Tail(SetToSeq(CredentialsOf(rp)))]
          /\ UNCHANGED credentials
       \/ \E c \in credentials : credentials' = credentials \ {c} /\ Forgets
    /\ undisturbed' = FALSE
    /\ UNCHANGED <<enrolled, enrolling, policy, cm, bio, options, cred_mgmt_preview, list, outcome,
                   record, missed>>

Next ==
    \/ enumerate_rps_begin \/ enumerate_rps_next_rp
    \/ \E rp \in Rps : enumerate_credentials_begin(rp)
    \/ enumerate_credentials_next
    \/ get_credential_metadata
    \/ \E c \in Credentials : delete_credential(c) \/ update_user_info(c)
    \/ get_bio_modality \/ get_fingerprint_sensor_info \/ get_bio_enrollments
    \/ \E t \in Templates :
        \/ remove_bio_enrollment(t) \/ rename_bio_enrollment(t)
        \/ start_new_bio_enrollment(t) \/ capture_next_bio_enrollment_sample(t)
    \/ cancel_current_bio_enrollment
    \/ \E command \in DOMAIN Needs : authenticator_config(command, 0)
    \/ authenticator_config("set_min_pin_length_rpids", MaxListSize + 1)
    \/ reset \/ Fails \/ another_client

Spec == Init /\ [][Next]_vars

-------------------------------------------------------------------------------
(* A list that nothing disturbs is whole: no Next of it is refused, and    *)
(* after the announced number of them it holds what there was to list.     *)
ListsAreWhole ==
    /\ ~missed
    /\ (undisturbed /\ Len(list.items) = list.total) =>
            ToSet(list.items) = IF list.kind = "rps" THEN Rps ELSE CredentialsOf(list.rp)
===============================================================================
