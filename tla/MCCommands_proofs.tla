--------------------------- MODULE MCCommands_proofs ---------------------------
(***************************************************************************)
(* Proofs about the composition MCCommands, from those about the modules   *)
(* it is composed of: Sharing_proofs, Management_proofs and                *)
(* LargeBlobs_proofs.  Each of these is taken with the constants and the   *)
(* variables that MCCommands gives the module itself; a definition it has  *)
(* through either instance is the same.  A behaviour of one area is one of *)
(* that area's module, and what is proved of the module holds in it.       *)
(***************************************************************************)
EXTENDS MCCommands, TLAPS

Sharing ==
    INSTANCE Sharing_proofs WITH
        Channels <- {"c1", "c2", "c3"}, Authenticators <- {"d1", "d2"},
        DeviceOf <- [c \in {"c1", "c2", "c3"} |-> IF c = "c3" THEN "d2" ELSE "d1"],
        ModelOf <- [d \in {"d1", "d2"} |-> "m"],
        Receivers <- {"first", "second"}, Pins <- {"0000", "1234"}, NoPin <- "none",
        Capacity <- 2, MaxPrompts <- 2,
        held <- has, n <- steps

ManageTheory ==
    INSTANCE Management_proofs WITH
        Credentials <- {"c1", "c2", "c3"},
        RpOf <- [c \in {"c1", "c2", "c3"} |-> IF c = "c3" THEN "r2" ELSE "r1"],
        Templates <- {"t1"}, MaxListSize <- 1, MaxCommands <- 3,
        Authenticators <- {[cm |-> "real", bio |-> "preview", options |-> Configurable],
                           [cm |-> "preview", bio |-> "real", options |-> {}],
                           [cm |-> "both", bio |-> "none",
                            options |-> Configurable \ {"minPinLength"}],
                           [cm |-> "none", bio |-> "both", options |-> {}]},
        remembered <- left, list <- shown, outcome <- result, n <- steps

BlobsTheory ==
    INSTANCE LargeBlobs_proofs WITH
        Keys <- {"k1", "k2"}, NoKey <- "nokey", Blobs <- {"b1", "b2"}, Huge <- "huge",
        NoBlob <- "noblob", Contents <- MCContents,
        Assertions <- {<<"k1", "k2">>, <<"nokey", "k2">>, <<"nokey">>},
        pc <- at, n <- steps, held <- has

-------------------------------------------------------------------------------
(* User interfaces (UxUpdates).                                            *)

LEMMA UxInitIsSame ==
    Interfaces!Init => Sharing!Ux!Init
BY DEF Interfaces!Init, Sharing!Ux!Init, Interfaces!Prompts, Sharing!Ux!Prompts

LEMMA CeremonyIsSame ==
    Interfaces!CeremonyStep => Sharing!Ux!CeremonyStep
BY DEF Interfaces!CeremonyStep, Sharing!Ux!CeremonyStep, Interfaces!Begin, Sharing!Ux!Begin,
       Interfaces!Notify, Sharing!Ux!Notify, Interfaces!Ask, Sharing!Ux!Ask,
       Interfaces!Resumes, Sharing!Ux!Resumes, Interfaces!NoPinProvided,
       Sharing!Ux!NoPinProvided, Interfaces!Finish, Sharing!Ux!Finish, Interfaces!Dropped,
       Sharing!Ux!Dropped, Interfaces!Broadcast, Sharing!Ux!Broadcast, Interfaces!Newest,
       Sharing!Ux!Newest, Interfaces!HungUp, Sharing!Ux!HungUp, Interfaces!Alive,
       Sharing!Ux!Alive, Interfaces!Unread, Sharing!Ux!Unread

LEMMA InterfaceIsSame ==
    \A r : Interfaces!InterfaceStep(r) => Sharing!Ux!InterfaceStep(r)
BY DEF Interfaces!InterfaceStep, Sharing!Ux!InterfaceStep,
       Interfaces!get_ux_update_receiver, Sharing!Ux!get_ux_update_receiver,
       Interfaces!Unsubscribe, Sharing!Ux!Unsubscribe, Interfaces!Receive,
       Sharing!Ux!Receive, Interfaces!Settles, Sharing!Ux!Settles, Interfaces!cancel,
       Sharing!Ux!cancel, Interfaces!send_pin, Sharing!Ux!send_pin, Interfaces!into_inner,
       Sharing!Ux!into_inner, Interfaces!LastCopy, Sharing!Ux!LastCopy, Interfaces!Unread,
       Sharing!Ux!Unread, Interfaces!Waits, Sharing!Ux!Waits, Interfaces!Prompts,
       Sharing!Ux!Prompts

LEMMA UxNextIsSame ==
    Interfaces!Next => Sharing!Ux!Next
BY CeremonyIsSame, InterfaceIsSame DEF Interfaces!Next, Sharing!Ux!Next

LEMMA UxPromises ==
    Sharing!UxInv => Interfaces!TypeOK /\ Interfaces!PromptsAreSettled
BY Sharing!SettledByInv
   DEF Interfaces!TypeOK, Sharing!Ux!TypeOK, Interfaces!Prompts, Sharing!Ux!Prompts,
       Interfaces!PromptsAreSettled, Sharing!Ux!PromptsAreSettled,
       Interfaces!AnswersAreKept, Sharing!Ux!AnswersAreKept, Interfaces!NobodyIsCutOff,
       Sharing!Ux!NobodyIsCutOff, Interfaces!Alive, Sharing!Ux!Alive, Interfaces!Unread,
       Sharing!Ux!Unread, Sharing!UxInv

-------------------------------------------------------------------------------
(* The shared store (SharedStore).                                         *)

LEMMA StoreCardinalityIsSame == \A S : Store!Cardinality(S) = Sharing!Cardinality(S)
BY DEF Store!Cardinality, Sharing!Cardinality

LEMMA StoreAssumptionIsSame ==
    Store!SharedStoreAssumption => Sharing!SharedStoreAssumption
BY DEF Store!SharedStoreAssumption, Sharing!SharedStoreAssumption,
       Store!IsFiniteSet, Sharing!IsFiniteSet

LEMMA StoreInitIsSame == Store!Init <=> Sharing!Init
BY DEF Store!Init, Sharing!Init, Store!Token, Sharing!Token, Store!Idle,
       Sharing!Idle

LEMMA StoreStepIsSame == \A c : Store!Step(c) => Sharing!Step(c)
<1> TAKE c
<1>1. Store!GetInfo(c) => Sharing!GetInfo(c)
  BY SMTT(30) DEF Store!GetInfo, Sharing!GetInfo, Store!At, Sharing!At, Store!Become,
         Sharing!Become
<1>2. Store!recognize_authenticator(c) => Sharing!recognize_authenticator(c)
  BY DEF Store!recognize_authenticator, Sharing!recognize_authenticator, Store!At,
         Sharing!At, Store!Become, Sharing!Become, Store!Recognized,
         Sharing!Recognized, Store!decrypt_enc_identifier,
         Sharing!decrypt_enc_identifier
<1>3. Store!Mint(c) => Sharing!Mint(c)
  BY DEF Store!Mint, Sharing!Mint, Store!At, Sharing!At, Store!Become,
         Sharing!Become
<1>4. Store!List(c) => Sharing!List(c)
  BY DEF Store!List, Sharing!List, Store!At, Sharing!At, Store!Become,
         Sharing!Become, Store!decrypt_enc_identifier,
         Sharing!decrypt_enc_identifier, Store!Minted, Sharing!Minted,
         Store!reap_superseded_records, Sharing!reap_superseded_records
<1>5. Store!Reap(c) => Sharing!Reap(c)
  BY DEF Store!Reap, Sharing!Reap, Store!At, Sharing!At, Store!Become,
         Sharing!Become, Store!Delete, Sharing!Delete
<1>6. Store!Put(c) => Sharing!Put(c)
  BY DEF Store!Put, Sharing!Put, Store!At, Sharing!At, Store!Become,
         Sharing!Become, Store!decrypt_enc_identifier,
         Sharing!decrypt_enc_identifier, Store!Minted, Sharing!Minted
<1>7. Store!Accepted(c) => Sharing!Accepted(c)
  BY DEF Store!Accepted, Sharing!Accepted, Store!Idle, Sharing!Idle, Store!At,
         Sharing!At, Store!Become, Sharing!Become, Store!Done, Sharing!Done
<1>8. Store!Refused(c) => Sharing!Refused(c)
  BY DEF Store!Refused, Sharing!Refused, Store!Idle, Sharing!Idle, Store!At,
         Sharing!At, Store!Become, Sharing!Become, Store!Done, Sharing!Done
<1>9. Store!Evict(c) => Sharing!Evict(c)
  BY DEF Store!Evict, Sharing!Evict, Store!At, Sharing!At, Store!Become,
         Sharing!Become, Store!Delete, Sharing!Delete
<1>10. Store!change_pin(c) => Sharing!change_pin(c)
  BY DEF Store!change_pin, Sharing!change_pin, Store!Idle, Sharing!Idle,
         Store!At, Sharing!At, Store!Become, Sharing!Become, Store!Done,
         Sharing!Done
<1>11. Store!Drop(c) => Sharing!Drop(c)
  BY DEF Store!Drop, Sharing!Drop, Store!Idle, Sharing!Idle, Store!At,
         Sharing!At, Store!Become, Sharing!Become, Store!Done, Sharing!Done,
         Store!Delete, Sharing!Delete
<1> QED
  BY <1>1, <1>2, <1>3, <1>4, <1>5, <1>6, <1>7, <1>8, <1>9, <1>10, <1>11
     DEF Store!Step, Sharing!Step

LEMMA StoreNextIsSame == Store!Next => Sharing!Next
<1>1. \A c, command : Store!Start(c, command) => Sharing!Start(c, command)
  BY DEF Store!Start, Sharing!Start, Store!Idle, Sharing!Idle, Store!At,
         Sharing!At, Store!Become, Sharing!Become
<1>2. \A c : Store!Abandon(c) => Sharing!Abandon(c)
  BY DEF Store!Abandon, Sharing!Abandon, Store!Idle, Sharing!Idle, Store!At,
         Sharing!At, Store!Become, Sharing!Become, Store!Done, Sharing!Done
<1> QED
  BY <1>1, <1>2, StoreStepIsSame DEF Store!Next, Sharing!Next

LEMMA StoreTypesAreSame == Sharing!TypeOK => Store!TypeOK
BY DEF Store!TypeOK, Sharing!TypeOK, Store!Record, Sharing!Record

LEMMA NoPileIsSame ==
    Sharing!NoPile' /\ Sharing!RemovedForItsOwn => Store!KeepsApart
BY StoreCardinalityIsSame
   DEF Sharing!NoPile, Sharing!RemovedForItsOwn, Store!KeepsApart,
       Store!RecordsOf, Sharing!RecordsOf

-------------------------------------------------------------------------------
(* Management of an authenticator (Management).                            *)

LEMMA ToSetIsSame == \A s : Manage!ToSet(s) = ManageTheory!ToSet(s)
BY DEF Manage!ToSet, ManageTheory!ToSet

LEMMA SetToSeqIsSame == \A s : Manage!SetToSeq(s) = ManageTheory!SetToSeq(s)
BY DEF Manage!SetToSeq, ManageTheory!SetToSeq, Manage!IsInjective,
       ManageTheory!IsInjective, Manage!Cardinality, ManageTheory!Cardinality

LEMMA ManageFinite ==
    \A S : Manage!IsFiniteSet(S) <=> ManageTheory!IsFiniteSet(S)
BY DEF Manage!IsFiniteSet, ManageTheory!IsFiniteSet

LEMMA ManageAssumptionIsSame ==
    Manage!ManagementAssumption => ManageTheory!ManagementAssumption
BY ManageFinite
   DEF Manage!ManagementAssumption, ManageTheory!ManagementAssumption, Manage!Modes,
       ManageTheory!Modes

LEMMA ManageInitIsSame == Manage!Init => ManageTheory!Init
BY DEF Manage!Init, ManageTheory!Init, Manage!NoList, ManageTheory!NoList,
       Manage!Nothing, ManageTheory!Nothing, Manage!NoEnrolling,
       ManageTheory!NoEnrolling

LEMMA BeginIsSame ==
    \A k, rp, all :
        Manage!enumerate_begin(k, rp, all) => ManageTheory!enumerate_begin(k, rp, all)
BY SetToSeqIsSame, SMTT(30)
   DEF Manage!enumerate_begin, ManageTheory!enumerate_begin, Manage!device,
       ManageTheory!device, Manage!NoList, ManageTheory!NoList, Manage!Nothing,
       ManageTheory!Nothing, Manage!Call, ManageTheory!Call,
       Manage!handle_legacy_preview, ManageTheory!handle_legacy_preview, Manage!Answers,
       ManageTheory!Answers, Manage!Ends, ManageTheory!Ends,
       Manage!set_cred_mgmt_preview, ManageTheory!set_cred_mgmt_preview

LEMMA NextIsSame ==
    \A k : Manage!enumerate_next(k) => ManageTheory!enumerate_next(k)
BY DEF Manage!enumerate_next, ManageTheory!enumerate_next, Manage!device,
       ManageTheory!device, Manage!NoList, ManageTheory!NoList, Manage!Call,
       ManageTheory!Call, Manage!Answers, ManageTheory!Answers, Manage!Ends,
       ManageTheory!Ends

LEMMA MetadataIsSame ==
    Manage!get_credential_metadata => ManageTheory!get_credential_metadata
BY DEF Manage!get_credential_metadata, ManageTheory!get_credential_metadata,
       Manage!Nothing, ManageTheory!Nothing, Manage!Call, ManageTheory!Call,
       Manage!handle_legacy_preview, ManageTheory!handle_legacy_preview, Manage!Answers,
       ManageTheory!Answers, Manage!Forgets, ManageTheory!Forgets

LEMMA DeleteIsSame ==
    \A c : Manage!delete_credential(c) => ManageTheory!delete_credential(c)
BY DEF Manage!delete_credential, ManageTheory!delete_credential, Manage!Nothing,
       ManageTheory!Nothing, Manage!Call, ManageTheory!Call,
       Manage!handle_legacy_preview, ManageTheory!handle_legacy_preview, Manage!Answers,
       ManageTheory!Answers, Manage!Forgets, ManageTheory!Forgets

LEMMA UpdateIsSame ==
    \A c : Manage!update_user_info(c) => ManageTheory!update_user_info(c)
BY DEF Manage!update_user_info, ManageTheory!update_user_info, Manage!Nothing,
       ManageTheory!Nothing, Manage!Call, ManageTheory!Call,
       Manage!handle_legacy_preview, ManageTheory!handle_legacy_preview, Manage!Answers,
       ManageTheory!Answers, Manage!Forgets, ManageTheory!Forgets

LEMMA BioCommandIsSame == Manage!BioCommand => ManageTheory!BioCommand
BY DEF Manage!BioCommand, ManageTheory!BioCommand, Manage!Unlisted,
       ManageTheory!Unlisted, Manage!Forgets, ManageTheory!Forgets, Manage!Nothing,
       ManageTheory!Nothing, Manage!Call, ManageTheory!Call

LEMMA RefusedIsSame ==
    \A legacy : Manage!Refused(legacy) => ManageTheory!Refused(legacy)
BY DEF Manage!Refused, ManageTheory!Refused, Manage!Answers, ManageTheory!Answers

LEMMA SensorIsSame == Manage!ask_sensor => ManageTheory!ask_sensor
BY BioCommandIsSame, RefusedIsSame
   DEF Manage!ask_sensor, ManageTheory!ask_sensor, Manage!Answers, ManageTheory!Answers

LEMMA EnrollmentsIsSame ==
    Manage!get_bio_enrollments => ManageTheory!get_bio_enrollments
BY BioCommandIsSame, RefusedIsSame
   DEF Manage!get_bio_enrollments, ManageTheory!get_bio_enrollments, Manage!Answers,
       ManageTheory!Answers, Manage!Verified, ManageTheory!Verified,
       Manage!handle_legacy_preview, ManageTheory!handle_legacy_preview

LEMMA CancelIsSame ==
    Manage!cancel_current_bio_enrollment => ManageTheory!cancel_current_bio_enrollment
BY BioCommandIsSame, RefusedIsSame
   DEF Manage!cancel_current_bio_enrollment, ManageTheory!cancel_current_bio_enrollment,
       Manage!Answers, ManageTheory!Answers, Manage!Verified, ManageTheory!Verified,
       Manage!handle_legacy_preview, ManageTheory!handle_legacy_preview,
       Manage!NoEnrolling, ManageTheory!NoEnrolling

LEMMA RemoveIsSame ==
    \A t : Manage!remove_bio_enrollment(t) => ManageTheory!remove_bio_enrollment(t)
BY BioCommandIsSame, RefusedIsSame
   DEF Manage!remove_bio_enrollment, ManageTheory!remove_bio_enrollment, Manage!Answers,
       ManageTheory!Answers, Manage!Verified, ManageTheory!Verified,
       Manage!handle_legacy_preview, ManageTheory!handle_legacy_preview

LEMMA RenameIsSame ==
    \A t : Manage!rename_bio_enrollment(t) => ManageTheory!rename_bio_enrollment(t)
BY BioCommandIsSame, RefusedIsSame
   DEF Manage!rename_bio_enrollment, ManageTheory!rename_bio_enrollment, Manage!Answers,
       ManageTheory!Answers, Manage!Verified, ManageTheory!Verified,
       Manage!handle_legacy_preview, ManageTheory!handle_legacy_preview

LEMMA StartIsSame ==
    \A t : Manage!start_new_bio_enrollment(t) => ManageTheory!start_new_bio_enrollment(t)
BY BioCommandIsSame, RefusedIsSame
   DEF Manage!start_new_bio_enrollment, ManageTheory!start_new_bio_enrollment,
       Manage!Answers, ManageTheory!Answers, Manage!Verified, ManageTheory!Verified,
       Manage!handle_legacy_preview, ManageTheory!handle_legacy_preview

LEMMA CaptureIsSame ==
    \A t :
        Manage!capture_next_bio_enrollment_sample(t)
            => ManageTheory!capture_next_bio_enrollment_sample(t)
BY BioCommandIsSame, RefusedIsSame
   DEF Manage!capture_next_bio_enrollment_sample,
       ManageTheory!capture_next_bio_enrollment_sample, Manage!Answers,
       ManageTheory!Answers, Manage!Verified, ManageTheory!Verified,
       Manage!handle_legacy_preview, ManageTheory!handle_legacy_preview,
       Manage!NoEnrolling, ManageTheory!NoEnrolling

LEMMA ConfigIsSame ==
    \A command, size :
        Manage!authenticator_config(command, size) => ManageTheory!authenticator_config(command, size)
BY DEF Manage!authenticator_config, ManageTheory!authenticator_config, Manage!Needs,
       ManageTheory!Needs, Manage!Call, ManageTheory!Call, Manage!Forgets,
       ManageTheory!Forgets, Manage!Nothing, ManageTheory!Nothing

LEMMA ResetIsSame == Manage!reset => ManageTheory!reset
BY DEF Manage!reset, ManageTheory!reset, Manage!Emptied, ManageTheory!Emptied,
       Manage!Call, ManageTheory!Call, Manage!Nothing, ManageTheory!Nothing,
       Manage!NoEnrolling, ManageTheory!NoEnrolling

LEMMA FailsIsSame == Manage!Fails => ManageTheory!Fails
BY DEF Manage!Fails, ManageTheory!Fails, Manage!Emptied, ManageTheory!Emptied,
       Manage!Nothing, ManageTheory!Nothing, Manage!NoEnrolling,
       ManageTheory!NoEnrolling, Manage!NoList, ManageTheory!NoList

LEMMA AnotherClientIsSame == Manage!another_client => ManageTheory!another_client
BY SetToSeqIsSame
   DEF Manage!another_client, ManageTheory!another_client, Manage!Rps, ManageTheory!Rps,
       Manage!CredentialsOf, ManageTheory!CredentialsOf, Manage!Forgets,
       ManageTheory!Forgets, Manage!Nothing, ManageTheory!Nothing

LEMMA ManageNextIsSame == Manage!Next => ManageTheory!Next
BY BeginIsSame, NextIsSame, MetadataIsSame, DeleteIsSame, UpdateIsSame, SensorIsSame,
   EnrollmentsIsSame, CancelIsSame, RemoveIsSame, RenameIsSame, StartIsSame,
   CaptureIsSame, ConfigIsSame, ResetIsSame, FailsIsSame, AnotherClientIsSame
   DEF Manage!Next, ManageTheory!Next, Manage!Rps, ManageTheory!Rps,
       Manage!CredentialsOf, ManageTheory!CredentialsOf, Manage!Needs,
       ManageTheory!Needs, Manage!enumerate_rps_begin, ManageTheory!enumerate_rps_begin,
       Manage!enumerate_rps_next_rp, ManageTheory!enumerate_rps_next_rp,
       Manage!enumerate_credentials_begin, ManageTheory!enumerate_credentials_begin,
       Manage!enumerate_credentials_next, ManageTheory!enumerate_credentials_next,
       Manage!get_bio_modality, ManageTheory!get_bio_modality,
       Manage!get_fingerprint_sensor_info, ManageTheory!get_fingerprint_sensor_info

LEMMA ManageTypesIsSame == ManageTheory!TypeOK => Manage!TypeOK
BY DEF Manage!TypeOK, ManageTheory!TypeOK, Manage!Modes, ManageTheory!Modes

LEMMA ListsIsSame == ManageTheory!ListsAreWhole => Manage!ListsAreWhole
BY ToSetIsSame
   DEF Manage!ListsAreWhole, ManageTheory!ListsAreWhole, Manage!Rps, ManageTheory!Rps,
       Manage!CredentialsOf, ManageTheory!CredentialsOf

-------------------------------------------------------------------------------
(* Blobs (LargeBlobs).                                                     *)

LEMMA ElemsAreSame == LargeBlob!Elems = BlobsTheory!Elems
BY DEF LargeBlob!Elems, BlobsTheory!Elems

LEMMA BlobsAssumptionIsSame ==
    LargeBlob!LargeBlobsAssumption => BlobsTheory!LargeBlobsAssumption
BY ElemsAreSame DEF LargeBlob!LargeBlobsAssumption, BlobsTheory!LargeBlobsAssumption

LEMMA EndsAreSame ==
    \A s : /\ LargeBlob!Front(s) = BlobsTheory!Front(s) /\ LargeBlob!Last(s) = BlobsTheory!Last(s)
           /\ LargeBlob!ToSet(s) = BlobsTheory!ToSet(s)
           /\ LargeBlob!ToStore!Failed(s) = BlobsTheory!ToStore!Failed(s)
BY DEF LargeBlob!Front, BlobsTheory!Front, LargeBlob!Last, BlobsTheory!Last, LargeBlob!ToSet,
       BlobsTheory!ToSet, LargeBlob!ToStore!Failed, BlobsTheory!ToStore!Failed,
       LargeBlob!ToStore!Written, BlobsTheory!ToStore!Written

LEMMA KeptIsSame == \A s, T : LargeBlob!Kept(s, T) = BlobsTheory!Kept(s, T)
BY DEF LargeBlob!Kept, BlobsTheory!Kept

LEMMA ArraysAreSame ==
    \A s : /\ LargeBlob!Serialize(s) = BlobsTheory!Serialize(s)
           /\ LargeBlob!trailer_matches(s) <=> BlobsTheory!trailer_matches(s)
           /\ LargeBlob!parses(s) <=> BlobsTheory!parses(s)
           /\ LargeBlob!parse_array_raw_entries(s) = BlobsTheory!parse_array_raw_entries(s)
           /\ LargeBlob!Elements(s) = BlobsTheory!Elements(s)
           /\ LargeBlob!too_long(s) <=> BlobsTheory!too_long(s)
           /\ LargeBlob!fetch_or_initial(s) = BlobsTheory!fetch_or_initial(s)
BY EndsAreSame
   DEF LargeBlob!Serialize, BlobsTheory!Serialize, LargeBlob!array_trailer,
       BlobsTheory!array_trailer, LargeBlob!trailer_matches, BlobsTheory!trailer_matches,
       LargeBlob!parses, BlobsTheory!parses, LargeBlob!parse_array_raw_entries,
       BlobsTheory!parse_array_raw_entries, LargeBlob!Elements, BlobsTheory!Elements,
       LargeBlob!too_long, BlobsTheory!too_long, LargeBlob!fetch_or_initial,
       BlobsTheory!fetch_or_initial

LEMMA MalformedIsSame ==
    LargeBlob!Malformed = BlobsTheory!Malformed /\ LargeBlob!Junk = BlobsTheory!Junk
BY DEF LargeBlob!Malformed, BlobsTheory!Malformed, LargeBlob!Junk, BlobsTheory!Junk, LargeBlob!Entry,
       BlobsTheory!Entry, LargeBlob!array_trailer, BlobsTheory!array_trailer

LEMMA RebuiltIsSame ==
    \A elements, key, new :
        LargeBlob!rebuild_serialized_array(elements, key, new)
            = BlobsTheory!rebuild_serialized_array(elements, key, new)
BY ElemsAreSame, KeptIsSame, ArraysAreSame
   DEF LargeBlob!rebuild_serialized_array, BlobsTheory!rebuild_serialized_array,
       LargeBlob!entry_decrypts_under_key, BlobsTheory!entry_decrypts_under_key

LEMMA StoreOfIsSame == \A a : LargeBlob!StoreOf(a) = BlobsTheory!StoreOf(a)
BY ElemsAreSame, EndsAreSame, KeptIsSame, ArraysAreSame
   DEF LargeBlob!StoreOf, BlobsTheory!StoreOf, LargeBlob!Opaque, BlobsTheory!Opaque

LEMMA BlobsInitIsSame == LargeBlob!Init => BlobsTheory!Init
BY ArraysAreSame, MalformedIsSame
   DEF LargeBlob!Init, BlobsTheory!Init, LargeBlob!NoUpload, BlobsTheory!NoUpload

LEMMA FinishIsSame == \A r : LargeBlob!Finish(r) => BlobsTheory!Finish(r)
BY DEF LargeBlob!Finish, BlobsTheory!Finish

LEMMA FailedIsSame == \A c : LargeBlob!Failed(c) = BlobsTheory!Failed(c)
BY DEF LargeBlob!Failed, BlobsTheory!Failed, LargeBlob!Written, BlobsTheory!Written

LEMMA AssertionIsSame ==
    \A c : LargeBlob!get_assertion_large_blob(c) => BlobsTheory!get_assertion_large_blob(c)
BY FinishIsSame, FailedIsSame, EndsAreSame
   DEF LargeBlob!get_assertion_large_blob, BlobsTheory!get_assertion_large_blob,
       LargeBlob!device, BlobsTheory!device

LEMMA CallsAreSame == LargeBlob!Calls = BlobsTheory!Calls
BY DEF LargeBlob!Calls, BlobsTheory!Calls

LEMMA FoundIsSame ==
    \A body, key :
        LargeBlob!decrypt_first_matching(LargeBlob!parse_large_blob_array(body), key)
            = BlobsTheory!decrypt_first_matching(BlobsTheory!parse_large_blob_array(body), key)
BY ElemsAreSame, KeptIsSame, ArraysAreSame
   DEF LargeBlob!decrypt_first_matching, BlobsTheory!decrypt_first_matching,
       LargeBlob!parse_large_blob_array, BlobsTheory!parse_large_blob_array,
       LargeBlob!entry_decrypts_under_key, BlobsTheory!entry_decrypts_under_key

LEMMA ReadingIsSame ==
    \A s : LargeBlob!fetch_large_blob_entries(s) => BlobsTheory!fetch_large_blob_entries(s)
BY FoundIsSame, ArraysAreSame, EndsAreSame, FinishIsSame, FailedIsSame
   DEF LargeBlob!fetch_large_blob_entries, BlobsTheory!fetch_large_blob_entries, LargeBlob!Read,
       BlobsTheory!Read

LEMMA UploadBeginsIsSame ==
    \A elements, new :
        LargeBlob!upload_begins(elements, new) => BlobsTheory!upload_begins(elements, new)
BY ArraysAreSame, RebuiltIsSame, FinishIsSame, FailedIsSame
   DEF LargeBlob!upload_begins, BlobsTheory!upload_begins

LEMMA FetchedIsSame == \A s : LargeBlob!Fetched(s) => BlobsTheory!Fetched(s)
BY ReadingIsSame, UploadBeginsIsSame, ArraysAreSame, EndsAreSame, FinishIsSame, FailedIsSame
   DEF LargeBlob!Fetched, BlobsTheory!Fetched, LargeBlob!write_authenticator_large_blob,
       BlobsTheory!write_authenticator_large_blob, LargeBlob!delete_authenticator_large_blob,
       BlobsTheory!delete_authenticator_large_blob, LargeBlob!entry_decrypts_under_key,
       BlobsTheory!entry_decrypts_under_key, LargeBlob!Entry, BlobsTheory!Entry

LEMMA FragmentIsSame == \A s, i : LargeBlob!Fragment(s, i) = BlobsTheory!Fragment(s, i)
BY DEF LargeBlob!Fragment, BlobsTheory!Fragment

LEMMA FetchIsSame == LargeBlob!fetch_serialized_array => BlobsTheory!fetch_serialized_array
BY FetchedIsSame, FragmentIsSame, ArraysAreSame, MalformedIsSame, FinishIsSame, FailedIsSame
   DEF LargeBlob!fetch_serialized_array, BlobsTheory!fetch_serialized_array, LargeBlob!device,
       BlobsTheory!device

LEMMA TakesIsSame ==
    /\ LargeBlob!Takes <=> BlobsTheory!Takes
    /\ LargeBlob!DeviceSets <=> BlobsTheory!DeviceSets
    /\ LargeBlob!Data = BlobsTheory!Data /\ LargeBlob!Length = BlobsTheory!Length
    /\ LargeBlob!NoUpload = BlobsTheory!NoUpload
BY FragmentIsSame, ArraysAreSame
   DEF LargeBlob!Takes, BlobsTheory!Takes, LargeBlob!DeviceSets, BlobsTheory!DeviceSets,
       LargeBlob!Data, BlobsTheory!Data, LargeBlob!Length, BlobsTheory!Length, LargeBlob!NoUpload,
       BlobsTheory!NoUpload

LEMMA UploadIsSame == LargeBlob!upload_serialized_array => BlobsTheory!upload_serialized_array
BY TakesIsSame, FragmentIsSame, FinishIsSame, FailedIsSame
   DEF LargeBlob!upload_serialized_array, BlobsTheory!upload_serialized_array,
       LargeBlob!Written, BlobsTheory!Written

LEMMA FailingIsSame == LargeBlob!command_fails => BlobsTheory!command_fails
BY TakesIsSame, FinishIsSame, FailedIsSame DEF LargeBlob!command_fails, BlobsTheory!command_fails

LEMMA OthersAreSame ==
    /\ LargeBlob!token_expires => BlobsTheory!token_expires
    /\ LargeBlob!power_cycle => BlobsTheory!power_cycle
    /\ LargeBlob!another_platform_uploads => BlobsTheory!another_platform_uploads
BY TakesIsSame, MalformedIsSame
   DEF LargeBlob!token_expires, BlobsTheory!token_expires, LargeBlob!power_cycle,
       BlobsTheory!power_cycle, LargeBlob!another_platform_uploads,
       BlobsTheory!another_platform_uploads, LargeBlob!platform, BlobsTheory!platform

LEMMA OtherWritesAreSame ==
    LargeBlob!another_platform_writes => BlobsTheory!another_platform_writes
BY TakesIsSame, MalformedIsSame, RebuiltIsSame, ArraysAreSame, EndsAreSame
   DEF LargeBlob!another_platform_writes, BlobsTheory!another_platform_writes, LargeBlob!Entry,
       BlobsTheory!Entry, LargeBlob!platform, BlobsTheory!platform

LEMMA BlobsNextIsSame == LargeBlob!Next => BlobsTheory!Next
BY AssertionIsSame, CallsAreSame, FetchIsSame, UploadIsSame, FailingIsSame, OthersAreSame,
   OtherWritesAreSame
   DEF LargeBlob!Next, BlobsTheory!Next

LEMMA BlobTypesAreSame == BlobsTheory!TypeOK => LargeBlob!TypeOK
BY TakesIsSame DEF LargeBlob!TypeOK, BlobsTheory!TypeOK

(* The store, seen through either instance.                                *)
LEMMA PastIsSame ==
    /\ LargeBlob!ToStore!svars = BlobsTheory!ToStore!svars
    /\ LargeBlob!ToStore!svars' = BlobsTheory!ToStore!svars'
BY StoreOfIsSame, ArraysAreSame DEF LargeBlob!ToStore!svars, BlobsTheory!ToStore!svars

LEMMA AnswersAreSame ==
    /\ \A c : LargeBlob!ToStore!Failed(c) = BlobsTheory!ToStore!Failed(c)
    /\ \A w : LargeBlob!ToStore!Written(w) = BlobsTheory!ToStore!Written(w)
    /\ \A results :
           BlobsTheory!ToStore!Return(results) => LargeBlob!ToStore!Return(results)
    /\ LargeBlob!ToStore!Empty = BlobsTheory!ToStore!Empty
    /\ LargeBlob!Opaque = BlobsTheory!Opaque
BY StoreOfIsSame, ArraysAreSame, EndsAreSame
   DEF LargeBlob!ToStore!Return, BlobsTheory!ToStore!Return, LargeBlob!ToStore!Empty,
       BlobsTheory!ToStore!Empty, LargeBlob!ToStore!Written, BlobsTheory!ToStore!Written,
       LargeBlob!Opaque, BlobsTheory!Opaque

LEMMA ReadFromIsSame ==
    \A s, key : LargeBlob!ToStore!ReadFrom(s, key) = BlobsTheory!ToStore!ReadFrom(s, key)
BY AnswersAreSame, SMTT(30) DEF LargeBlob!ToStore!ReadFrom, BlobsTheory!ToStore!ReadFrom

LEMMA StoreInitsAreSame == BlobsTheory!ToStore!Init => LargeBlob!ToStore!Init
BY StoreOfIsSame, ArraysAreSame, AnswersAreSame
   DEF LargeBlob!ToStore!Init, BlobsTheory!ToStore!Init

LEMMA StoreNextsAreSame == BlobsTheory!ToStore!Next => LargeBlob!ToStore!Next
<1>1. BlobsTheory!ToStore!Begin => LargeBlob!ToStore!Begin
  BY StoreOfIsSame, ArraysAreSame DEF LargeBlob!ToStore!Begin, BlobsTheory!ToStore!Begin
<1>2. BlobsTheory!ToStore!Refuse => LargeBlob!ToStore!Refuse
  BY StoreOfIsSame, AnswersAreSame DEF LargeBlob!ToStore!Refuse, BlobsTheory!ToStore!Refuse
<1>3. BlobsTheory!ToStore!Answer => LargeBlob!ToStore!Answer
  BY StoreOfIsSame, AnswersAreSame, ReadFromIsSame
     DEF LargeBlob!ToStore!Answer, BlobsTheory!ToStore!Answer
<1>4. BlobsTheory!ToStore!Look => LargeBlob!ToStore!Look
  <2>1. LargeBlob!StoreOf(array) = BlobsTheory!StoreOf(array)
        /\ LargeBlob!StoreOf(array)' = BlobsTheory!StoreOf(array)'
    BY StoreOfIsSame
  <2>2. {LargeBlob!StoreOf(a) : a \in has} = {BlobsTheory!StoreOf(a) : a \in has}
        /\ {LargeBlob!StoreOf(a) : a \in has}' = {BlobsTheory!StoreOf(a) : a \in has}'
    BY StoreOfIsSame
  <2>3. LargeBlob!StoreOf(LargeBlob!Serialize(existing))'
          = BlobsTheory!StoreOf(BlobsTheory!Serialize(existing))'
    BY StoreOfIsSame, ArraysAreSame
  <2>4. LargeBlob!ToStore!Empty = BlobsTheory!ToStore!Empty /\ LargeBlob!Opaque = BlobsTheory!Opaque
    BY AnswersAreSame
  <2> QED
    BY <2>1, <2>2, <2>3, <2>4 DEF LargeBlob!ToStore!Look, BlobsTheory!ToStore!Look
<1>5. BlobsTheory!ToStore!Change => LargeBlob!ToStore!Change
  BY StoreOfIsSame, ArraysAreSame, AnswersAreSame
     DEF LargeBlob!ToStore!Change, BlobsTheory!ToStore!Change
<1>6. BlobsTheory!ToStore!Fail => LargeBlob!ToStore!Fail
  BY StoreOfIsSame, AnswersAreSame DEF LargeBlob!ToStore!Fail, BlobsTheory!ToStore!Fail
<1>7. BlobsTheory!ToStore!Disturb => LargeBlob!ToStore!Disturb
  BY StoreOfIsSame, ArraysAreSame DEF LargeBlob!ToStore!Disturb, BlobsTheory!ToStore!Disturb
<1> QED
  BY <1>1, <1>2, <1>3, <1>4, <1>5, <1>6, <1>7
     DEF LargeBlob!ToStore!Next, BlobsTheory!ToStore!Next

-------------------------------------------------------------------------------
(* The composition: what each module's proofs preserve, in its behaviours. *)

UxHolds == area = "interfaces" => Sharing!UxInv
StoreInv == Sharing!OwnedStore /\ Sharing!InBounds /\ Sharing!Formed
StoreHolds == area = "store" => StoreInv
ManageHolds == area = "manage" => ManageTheory!IInv
BlobsHolds == area = "blobs" => BlobsTheory!Inv

LEMMA UxAssumed == Sharing!Ux!UxAssumption
BY DEF Sharing!Ux!UxAssumption

LEMMA StoreAssumed == Sharing!SharedStoreAssumption
BY StoreValues, StoreAssumptionIsSame

LEMMA ManageAssumed == ManageTheory!ManagementAssumption
BY ManageValues, ManageAssumptionIsSame

LEMMA BlobsAssumed == BlobsTheory!LargeBlobsAssumption
BY BlobsValues, BlobsAssumptionIsSame

LEMMA Beginnings ==
    ASSUME MCInit
    PROVE  /\ area = "interfaces" => Interfaces!Init
           /\ area = "store" => Store!Init
           /\ area = "manage" => Manage!Init
           /\ area = "blobs" => LargeBlob!Init
BY DEF MCInit, BeginBlobs, BeginManagement, BeginOperation, BeginAdmission, BeginStore,
       BeginInterfaces, BeginSigned, BeginWire

(* A step of the composition is one of the area's module, or changes none  *)
(* of its variables.                                                       *)
LEMMA Steps ==
    ASSUME [MCNext]_mcvars
    PROVE  /\ area' = area
           /\ area = "interfaces" => Interfaces!Next \/ UNCHANGED Sharing!Ux!uxvars
           /\ area = "store" => Store!Next \/ UNCHANGED Sharing!storevars
           /\ area = "manage" => Manage!Next \/ UNCHANGED ManageTheory!vars
           /\ area = "blobs" => LargeBlob!Next \/ UNCHANGED BlobsTheory!vars
<1>1. CASE MCNext
  BY <1>1 DEF MCNext, InBlobs, InManagement, InOperation, InAdmission, InStore, InInterfaces,
              InSigned, InWire
<1>2. CASE UNCHANGED mcvars
  BY <1>2 DEF mcvars, common, ofBlobs, ofManagement, ofStore, ofInterfaces, Sharing!Ux!uxvars,
              Sharing!storevars, ManageTheory!vars, ManageTheory!device, BlobsTheory!vars,
              BlobsTheory!device, BlobsTheory!platform
<1> QED
  BY <1>1, <1>2

LEMMA UxHoldsFirst == MCInit => UxHolds
BY Beginnings, UxInitIsSame, UxAssumed, Sharing!UxInvFirst DEF UxHolds

LEMMA UxHoldsNext == UxHolds /\ [MCNext]_mcvars => UxHolds'
<1> SUFFICES ASSUME Sharing!UxInv, [MCNext]_mcvars, area = "interfaces"
             PROVE  Sharing!UxInv'
  BY Steps DEF UxHolds
<1> QED
  BY Steps, UxNextIsSame, UxAssumed, Sharing!UxInvNext

LEMMA StoreHoldsFirst == MCInit => StoreHolds
BY Beginnings, StoreInitIsSame, StoreAssumed, Sharing!OwnedStoreInit, Sharing!BoundsInit
   DEF StoreHolds, StoreInv

LEMMA StoreMoves ==
    ASSUME StoreInv, [MCNext]_mcvars, area = "store"
    PROVE  StoreInv' /\ Store!KeepsApart
<1>1. [Sharing!Next]_(Sharing!storevars)
  BY Steps, StoreNextIsSame
<1>2. StoreInv' /\ (UNCHANGED Sharing!storevars \/ Sharing!RemovedForItsOwn)
  BY <1>1, StoreAssumed, Sharing!OwnedStoreStep, Sharing!BoundsNext DEF StoreInv
<1>3. Sharing!RemovedForItsOwn
  BY <1>2 DEF Sharing!storevars, Sharing!RemovedForItsOwn
<1>4. Sharing!NoPile'
  BY <1>2, StoreAssumed, Sharing!OwnedDoNotPile, PTL DEF StoreInv
<1> QED
  BY <1>2, <1>3, <1>4, NoPileIsSame

LEMMA ManageHoldsFirst == MCInit => ManageHolds
BY Beginnings, ManageInitIsSame, ManageAssumed, ManageTheory!InitInv DEF ManageHolds

LEMMA ManageHoldsNext == ManageHolds /\ [MCNext]_mcvars => ManageHolds'
<1> SUFFICES ASSUME ManageTheory!IInv, [MCNext]_mcvars, area = "manage"
             PROVE  ManageTheory!IInv'
  BY Steps DEF ManageHolds
<1> QED
  BY Steps, ManageNextIsSame, ManageAssumed, ManageTheory!NextInv

LEMMA BlobsHoldsFirst == MCInit => BlobsHolds
BY Beginnings, BlobsInitIsSame, BlobsAssumed, BlobsTheory!InitInv DEF BlobsHolds

(* A step keeps the invariant, and is one of the store or a stutter of it. *)
LEMMA BlobsMoves ==
    ASSUME BlobsTheory!Inv, [MCNext]_mcvars, area = "blobs"
    PROVE  BlobsTheory!Inv' /\ [LargeBlob!ToStore!Next]_(LargeBlob!ToStore!svars)
<1>1. CASE LargeBlob!Next
  <2>1. BlobsTheory!Inv' /\ [BlobsTheory!ToStore!Next]_(BlobsTheory!ToStore!svars)
    BY <1>1, BlobsNextIsSame, BlobsAssumed, BlobsTheory!StepSimulates
  <2> QED
    BY <2>1, PastIsSame, StoreNextsAreSame
<1>2. CASE UNCHANGED BlobsTheory!vars
  <2>1. BlobsTheory!Inv' /\ UNCHANGED BlobsTheory!ToStore!svars
    BY <1>2, BlobsAssumed, BlobsTheory!StutterSimulates
  <2> QED
    BY <2>1, PastIsSame
<1> QED
  BY <1>1, <1>2, Steps

(* A behaviour of the composition is one of WebAuthnOperation: outside its *)
(* area the operation has not begun.  So what WebAuthnOperation_proofs     *)
(* shows of webauthn_make_credential and webauthn_get_assertion            *)
(* (webauthn.rs) holds in the composition the runs check.                  *)
THEOREM OperationsOfTheComposition == MCSpec => Spec
<1>1. MCInit => Init
  BY DEF MCInit, BeginBlobs, BeginManagement, BeginOperation, BeginAdmission, BeginStore,
         BeginInterfaces, BeginSigned, BeginWire, IdleOperation
<1>2. [MCNext]_mcvars => [Next]_vars
  BY DEF MCNext, InBlobs, InManagement, InOperation, InAdmission, InStore, InInterfaces,
         InSigned, InWire, mcvars, vars
<1> QED
  BY <1>1, <1>2, PTL DEF MCSpec, Spec

(* PinRequiredUpdate::send_pin and the waits of pin_uv_auth_token.rs       *)
(* (lib.rs:150-230), in the composition the runs check.                    *)
THEOREM PromptsOfTheComposition == MCSpec => []PromptsAreSettled
<1>1. UxHolds => PromptsAreSettled
  BY UxPromises DEF UxHolds, PromptsAreSettled
<1> QED
  BY <1>1, UxHoldsFirst, UxHoldsNext, PTL DEF MCSpec

(* The enumerations of management/credential_management.rs:96-190, in the  *)
(* composition the runs check.                                             *)
THEOREM ListsOfTheComposition == MCSpec => []ListsAreWhole
<1>1. ManageHolds => ListsAreWhole
  BY ManageTheory!ListsOfInv, ManageTypesIsSame, ListsIsSame
     DEF ManageHolds, ListsAreWhole, ManageTheory!IInv, ManageTheory!Typed
<1> QED
  BY <1>1, ManageHoldsFirst, ManageHoldsNext, PTL DEF MCSpec

(* store_minted_token and recognize_authenticator over one store           *)
(* (pin_uv_auth_token.rs:340-497), in the composition the runs check.      *)
THEOREM RecordsOfTheComposition == MCSpec => RecordsAreKeptApart
<1>1. StoreHolds => (area = "store" => Store!TypeOK)
  BY StoreAssumed, Sharing!BoundsTypes, StoreTypesAreSame DEF StoreHolds, StoreInv
<1>2. StoreHolds /\ [MCNext]_mcvars => StoreHolds' /\ [area = "store" => Store!KeepsApart]_mcvars
  BY StoreMoves, Steps DEF StoreHolds
<1> QED
  BY <1>1, <1>2, StoreHoldsFirst, PTL DEF MCSpec, RecordsAreKeptApart

(* fetch_large_blob_entries, write_authenticator_large_blob and            *)
(* delete_authenticator_large_blob (ops/webauthn/large_blob.rs) as a store *)
(* that is changed in one step, in the composition the runs check.         *)
THEOREM StoreOfTheComposition == MCSpec => KeepsStore
<1>1. MCInit => (area = "blobs" => LargeBlob!ToStore!Init)
  BY Beginnings, BlobsInitIsSame, BlobsAssumed, BlobsTheory!InitSimulates, StoreInitsAreSame
<1>2. BlobsHolds => (area = "blobs" => LargeBlob!TypeOK)
  BY BlobsAssumed, BlobsTheory!InvTypes, BlobTypesAreSame DEF BlobsHolds
<1>3. BlobsHolds /\ [MCNext]_mcvars
         => /\ BlobsHolds'
            /\ [area = "blobs" /\ OfStore' # OfStore
                  => [LargeBlob!ToStore!Next]_(LargeBlob!ToStore!svars)]_mcvars
  BY BlobsMoves, Steps DEF BlobsHolds
<1> QED
  BY <1>1, <1>2, <1>3, BlobsHoldsFirst, PTL DEF MCSpec, KeepsStore
================================================================================
