------------------------ MODULE UserVerification_proofs ------------------------
(***************************************************************************)
(* Proofs about UserVerification, for every set of relying parties,        *)
(* authenticators and commands, and without the bounds of the runs.        *)
(***************************************************************************)
EXTENDS UserVerification, TLAPS

-----------------------------------------------------------------------------
(***************************************************************************)
(* The types of what the actions build.                                    *)
(***************************************************************************)
LEMMA ScopeType ==
    ASSUME NEW r \in RequestType, NEW i \in InfoType
    PROVE  /\ permissions(r, i) \in SUBSET Permission
           /\ permissions_rpid(r) \in RP \cup {NoRp}
    BY DEF permissions, permissions_rpid, Permission, RequestType, WebAuthnKinds

LEMMA EmptyTypes ==
    /\ NoToken \in TokenType
    /\ NoSecret \in SecretType
    /\ NoAuth \in AuthType
    /\ NoWire \in WireType
    /\ NoRequest \in RequestType
    BY DEF NoToken, TokenType, NoSecret, SecretType, NoAuth, AuthType, NoWire,
           NoParam, WireType, NoRequest, RequestType, Kind, UvLevel

LEMMA DeviceFields ==
    ASSUME NEW d \in DeviceType
    PROVE  /\ [d EXCEPT !.clientPin = "on"] \in DeviceType
           /\ [d EXCEPT !.force = FALSE] \in DeviceType
           /\ [d EXCEPT !.force = TRUE] \in DeviceType
           /\ [d EXCEPT !.gen = @ + 1] \in DeviceType
           /\ [d EXCEPT !.key = @ + 1] \in DeviceType
           /\ \A k \in Nat : [d EXCEPT !.uvRetries = k] \in DeviceType
           /\ \A t \in TokenType : [d EXCEPT !.tok = t] \in DeviceType
<1>1. /\ [d EXCEPT !.clientPin = "on"] \in DeviceType
      /\ [d EXCEPT !.gen = @ + 1] \in DeviceType
      /\ [d EXCEPT !.key = @ + 1] \in DeviceType
    BY DEF DeviceType, Option
<1>2. [d EXCEPT !.force = FALSE] \in DeviceType
    BY DEF DeviceType
<1>3. [d EXCEPT !.force = TRUE] \in DeviceType
    BY DEF DeviceType
<1>4. \A k \in Nat : [d EXCEPT !.uvRetries = k] \in DeviceType
    BY DEF DeviceType
<1>5. \A t \in TokenType : [d EXCEPT !.tok = t] \in DeviceType
    BY DEF DeviceType
<1> QED
    BY <1>1, <1>2, <1>3, <1>4, <1>5

LEMMA NewPinType ==
    ASSUME NEW d \in DeviceType
    PROVE  WithNewPin(d) \in DeviceType
<1> DEFINE d1 == [d EXCEPT !.clientPin = "on"]
           d2 == [d1 EXCEPT !.force = FALSE]
           d3 == [d2 EXCEPT !.gen = @ + 1]
<1>1. d1 \in DeviceType
    BY DeviceFields
<1>2. WithNewPin(d) = [d3 EXCEPT !.tok = NoToken]
    BY DEF WithNewPin
<1> HIDE DEF d1
<1>3. d2 \in DeviceType
    BY <1>1, DeviceFields
<1> HIDE DEF d2
<1>4. d3 \in DeviceType
    BY <1>3, DeviceFields
<1> HIDE DEF d3
<1> QED
    BY <1>2, <1>4, DeviceFields, EmptyTypes

LEMMA CounterTypes ==
    ASSUME WorldTyped
    PROVE  /\ [n EXCEPT !.tok = @ + 1] \in [tok : Nat, ss : Nat, rec : Nat, cer : Nat, ev : Nat]
           /\ [n EXCEPT !.ss = (@ + 1) % MaxSecrets] \in [tok : Nat, ss : Nat, rec : Nat, cer : Nat, ev : Nat]
           /\ [n EXCEPT !.rec = @ + 1] \in [tok : Nat, ss : Nat, rec : Nat, cer : Nat, ev : Nat]
           /\ [n EXCEPT !.cer = @ + 1] \in [tok : Nat, ss : Nat, rec : Nat, cer : Nat, ev : Nat]
           /\ [n EXCEPT !.ev = @ + 1] \in [tok : Nat, ss : Nat, rec : Nat, cer : Nat, ev : Nat]
<1>1. (n.ss + 1) % MaxSecrets \in Nat
    BY ConstantsAssumption DEF WorldTyped
<1> QED
    BY <1>1 DEF WorldTyped

LEMMA LocalsCleared ==
    ASSUME LocalsTyped, ClearLocals
    PROVE  LocalsTyped'
<1>1. info' \in InfoType
    BY DEF LocalsTyped, ClearLocals, InfoType, Option
<1> QED
    BY <1>1, EmptyTypes DEF LocalsTyped, ClearLocals

LEMMA Finished ==
    ASSUME LocalsTyped, NEW outcome \in Outcomes, Finish(outcome)
    PROVE  LocalsTyped' /\ pc' \in Locations /\ result' \in Outcomes
    BY LocalsCleared DEF Finish, Locations

LEMMA Failed ==
    ASSUME TypeOK, NEW outcome \in Outcomes, Fail(outcome)
    PROVE  TypeOK'
    BY Finished DEF TypeOK, Fail, WorldTyped, CommandTyped

LEMMA OperationType ==
    ASSUME NEW i \in InfoType, NEW b \in BOOLEAN
    PROVE  uv_operation(i, b) \in UvOperations \cup {"none"}
<1>1. i.clientPin \in Option
    BY DEF InfoType
<1> QED
    BY <1>1 DEF uv_operation, UvOperations, enabled, Option

LEMMA ChosenType ==
    ASSUME TypeOK
    PROVE  Chosen \in UvOperations \cup {"none"}
<1>1. Offered \in UvOperations \cup {"none"}
    BY OperationType DEF Offered, UvUnavailable, TypeOK, LocalsTyped
<1> QED
    BY <1>1 DEF Chosen, Downgraded, enforce_no_mc_ga_with_client_pin, UvOperations

LEMMA InitType == Init => TypeOK
<1> SUFFICES ASSUME Init PROVE TypeOK
    OBVIOUS
<1>1. PICK p \in Profiles, clientPin \in Option, force \in BOOLEAN :
         /\ dev = [profile |-> p, clientPin |-> clientPin, force |-> force,
                   uvRetries |-> MaxUvRetries, key |-> 1, gen |-> 1,
                   tok |-> NoToken]
         /\ info = [profile |-> p, clientPin |-> "absent", force |-> FALSE,
                    gen |-> 0]
    BY DEF Init
<1>2. dev \in DeviceType
    BY <1>1, EmptyTypes, ConstantsAssumption DEF DeviceType
<1>3. info \in InfoType
    BY <1>1, ConstantsAssumption DEF InfoType, Option
<1>4. n \in [tok : Nat, ss : Nat, rec : Nat, cer : Nat, ev : Nat]
    BY DEF Init
<1>5. /\ auth \in AuthType /\ req \in RequestType /\ wire \in WireType
      /\ ss \in SecretType /\ store \subseteq RecordType
    BY EmptyTypes DEF Init
<1>6. /\ pc \in Locations /\ used \in Sources /\ result \in Outcomes
      /\ op \in UvOperations \cup {"none"}
      /\ after \in {"none", "required", "force", "app"}
    BY DEF Init, Locations, Sources, Outcomes
<1>7. /\ needs \in BOOLEAN /\ blocked \in BOOLEAN /\ rejected \in BOOLEAN
      /\ told \in BOOLEAN /\ waited \in BOOLEAN
    BY DEF Init
<1>8. pin \in Nat /\ got \in Nat /\ recId \in Nat /\ retries \in 0..RetriesCap
    BY DEF Init, RetriesCap
<1> QED
    BY <1>2, <1>3, <1>4, <1>5, <1>6, <1>7, <1>8 DEF TypeOK, WorldTyped, CommandTyped, LocalsTyped

(* Deleting records, with or without loss, leaves records. *)
LEMMA DeletedType ==
    ASSUME TypeOK, NEW gone, NEW left \in StoreAfterDelete(gone)
    PROVE  left \subseteq RecordType
    BY DEF TypeOK, WorldTyped, StoreAfterDelete

LEMMA MintedType ==
    ASSUME TypeOK
    PROVE  \A s \in store_minted_token(got) : s \subseteq RecordType
<1> DEFINE ident == IF info.gen = got THEN "device" ELSE "garbage"
           record == [id |-> n.rec + 1, gen |-> got, ident |-> ident]
           left == StoreAfterDelete(reap_superseded_records(ident))
<1>1. record \in RecordType
    BY DEF TypeOK, WorldTyped, LocalsTyped, RecordType
<1>2. \A s \in left : s \subseteq RecordType
    BY DeletedType
<1>3. store_minted_token(got) \subseteq
          {records \cup {record} : records \in left} \cup left
    BY DEF store_minted_token
<1> HIDE DEF record, left
<1> QED
    BY <1>1, <1>2, <1>3

-----------------------------------------------------------------------------
(***************************************************************************)
(* Every step preserves the types.                                         *)
(***************************************************************************)
LEMMA StartType ==
    ASSUME TypeOK, NEW r \in Requests, Start(r)
    PROVE  TypeOK'
<1>1. r \in RequestType
    BY ConstantsAssumption
<1>2. WorldTyped'
    BY CounterTypes DEF TypeOK, Start, WorldTyped
<1>3. wire' \in WireType
    BY DEF Start, NoWire, NoParam, NoSecret, SecretType, WireType
<1>4. CommandTyped'
  <2>1. rejected' \in BOOLEAN /\ told' \in BOOLEAN /\ waited' \in BOOLEAN
      BY DEF Start
  <2>2. pc' \in Locations /\ used' \in Sources /\ result' \in Outcomes
      BY DEF Start, Goto, Locations, Sources, Outcomes
  <2>3. req' \in RequestType /\ retries' \in 0..RetriesCap
      BY <1>1 DEF Start, RetriesCap
  <2> QED
      BY <1>3, <2>1, <2>2, <2>3 DEF CommandTyped
<1>5. LocalsTyped'
    BY DEF Start, TypeOK, LocalsTyped, localVars
<1> QED
    BY <1>2, <1>4, <1>5 DEF TypeOK

(* Reuse, and the choice of an operation. *)
Choosing ==
    \/ FetchInfo \/ ReusePersistent \/ ReuseEphemeral \/ EnterHelper
    \/ TryToSetPin \/ Recheck \/ WithoutPinToSet
    \/ SkipVerification \/ EnterLoop
    \/ NoOperation \/ UseLegacyUv \/ ForbiddenForClientPin \/ ForcePinChange
    \/ ChooseOperation \/ LoopAgain

LEMMA DeviceInfoType == ASSUME WorldTyped PROVE DeviceInfo \in InfoType
    BY DEF WorldTyped, DeviceType, DeviceInfo, InfoType

LEMMA ChoosingType ==
    ASSUME TypeOK, Choosing
    PROVE  TypeOK'
<1> USE DEF TypeOK, WorldTyped, CommandTyped, LocalsTyped, Goto, localVars,
            devVars, platformVars
<1>1. CASE FetchInfo
    BY <1>1, DeviceInfoType DEF FetchInfo, Locations, Sources
<1>2. CASE ReusePersistent
  <2>1. PICK rec \in store : /\ calculate_and_set_uv_auth("store", rec.gen)
                             /\ recId' = rec.id
      BY <1>2 DEF ReusePersistent, recognize_authenticator
  <2>2. rec.gen \in Nat /\ rec.id \in Nat
      BY DEF RecordType
  <2>3. wire' \in WireType
      BY <2>1, <2>2 DEF calculate_and_set_uv_auth, WireType
  <2> QED
      BY <1>2, <2>1, <2>2, <2>3 DEF ReusePersistent, Locations, Sources
<1>3. CASE ReuseEphemeral
  <2>1. wire' \in WireType
      BY <1>3 DEF ReuseEphemeral, calculate_and_set_uv_auth, WireType, AuthType
  <2> QED
      BY <1>3, <2>1 DEF ReuseEphemeral, Locations, Sources
<1>4. CASE EnterHelper
  <2>1. needs' \in BOOLEAN
      BY <1>4 DEF EnterHelper, needs_shared_secret, needs_pin_uv_auth_token
  <2> QED
      BY <1>4, <2>1 DEF EnterHelper, Locations
<1>5. CASE TryToSetPin
    BY <1>5 DEF TryToSetPin, Locations
<1>6. CASE Recheck
  <2>1. CASE Fail("NoUvAvailable")
      BY <2>1, Failed DEF Outcomes
  <2> QED
      BY <1>6, <2>1, DeviceInfoType DEF Recheck, Locations
<1>7. CASE WithoutPinToSet
    BY <1>7 DEF WithoutPinToSet, Locations
<1>8. CASE SkipVerification
    BY <1>8 DEF SkipVerification, Locations, Sources
<1>9. CASE EnterLoop
    BY <1>9 DEF EnterLoop, Locations
<1>10. CASE NoOperation
    BY <1>10, Failed DEF NoOperation, Outcomes
<1>11. CASE UseLegacyUv
  <2>1. wire' \in WireType
      BY <1>11 DEF UseLegacyUv, ensure_uv_set, WebAuthnKinds, WireType
  <2> QED
      BY <1>11, <2>1 DEF UseLegacyUv, Locations, Sources
<1>12. CASE ForbiddenForClientPin
    BY <1>12, Failed DEF ForbiddenForClientPin, Outcomes
<1>13. CASE ForcePinChange
    BY <1>13 DEF ForcePinChange, Locations
<1>14. CASE ChooseOperation
  <2>1. CASE info.profile.proto
    <3>1. wire' \in WireType
        BY <1>14, <2>1 DEF ChooseOperation, ensure_uv_set, WebAuthnKinds, WireType
    <3>2. Chosen \in UvOperations \cup {"none"}
        BY ChosenType
    <3> QED
        BY <1>14, <2>1, <3>1, <3>2 DEF ChooseOperation, FirstStepOf, Locations
  <2> QED
      BY <1>14, <2>1, Failed DEF ChooseOperation, Outcomes
<1>15. CASE LoopAgain
    BY <1>15, DeviceInfoType DEF LoopAgain, Locations
<1> QED
    BY <1>1, <1>2, <1>3, <1>4, <1>5, <1>6, <1>7, <1>8, <1>9, <1>10, <1>11,
       <1>12, <1>13, <1>14, <1>15 DEF Choosing

(* Asking for a token, and packaging it. *)
Verifying ==
    \/ EnterPin \/ CancelPin \/ ObtainSharedSecret
    \/ GrantToken \/ RefusePin \/ RefuseUv \/ AskUvRetries \/ PackageToken

LEMMA VerifyingType ==
    ASSUME TypeOK, Verifying
    PROVE  TypeOK'
<1> USE DEF TypeOK, CommandTyped, LocalsTyped, Goto, localVars
<1>1. CASE EnterPin
    BY <1>1 DEF EnterPin, AfterPin, Locations, WorldTyped, DeviceType
<1>2. CASE CancelPin
    BY <1>2, Failed DEF CancelPin, Outcomes
<1>3. CASE ObtainSharedSecret
  <2>1. NewSecret \in SecretType
      BY DEF NewSecret, SecretType, WorldTyped, DeviceType
  <2>2. [NoAuth EXCEPT !.ss = NewSecret] \in AuthType
      BY <2>1 DEF NoAuth, AuthType
  <2>3. WorldTyped'
      BY <1>3, <2>2, CounterTypes DEF ObtainSharedSecret, WorldTyped
  <2>4. CommandTyped'
      BY <1>3 DEF ObtainSharedSecret, Locations, Sources
  <2>5. LocalsTyped'
      BY <1>3, <2>1 DEF ObtainSharedSecret
  <2> QED
      BY <2>3, <2>4, <2>5
<1>4. CASE GrantToken
  <2> DEFINE by == IF op = "UvToken" THEN "uv" ELSE "pin"
             token == [id |-> n.tok + 1, perms |-> permissions(req, info),
                       rp |-> permissions_rpid(req), by |-> by]
             charged == [dev EXCEPT !.uvRetries = MaxUvRetries]
  <2>1. token \in TokenType
      BY ScopeType DEF TokenType, WorldTyped
  <2>2. charged \in DeviceType
      BY DeviceFields, ConstantsAssumption DEF WorldTyped
  <2>3. [charged EXCEPT !.tok = token] \in DeviceType
    <3> HIDE DEF token, charged
    <3> QED
        BY <2>1, <2>2, DeviceFields
  <2>4. /\ dev' = charged \/ dev' = [charged EXCEPT !.tok = token]
        /\ n' = n \/ n' = [n EXCEPT !.tok = @ + 1]
      BY <1>4 DEF GrantToken, Scope
  <2>5. WorldTyped'
    <3> HIDE DEF token, charged
    <3> QED
        BY <1>4, <2>2, <2>3, <2>4, CounterTypes DEF GrantToken, WorldTyped
  <2>6. CommandTyped'
      BY <1>4 DEF GrantToken, Locations
  <2>7. LocalsTyped'
      BY <1>4 DEF GrantToken, WorldTyped, DeviceType
  <2> QED
      BY <2>5, <2>6, <2>7
<1>5. CASE RefusePin
  <2>1. dev' \in DeviceType
      BY <1>5 DEF RefusePin, WorldTyped, DeviceType
  <2> QED
      BY <1>5, <2>1, Finished DEF RefusePin, WorldTyped, Outcomes
<1>6. CASE RefuseUv
  <2>1. dev' \in DeviceType
      BY <1>6 DEF RefuseUv, WorldTyped, DeviceType
  <2> QED
      BY <1>6, <2>1 DEF RefuseUv, WorldTyped, Locations
<1>7. CASE AskUvRetries
  <2>1. CASE Fail("UVInvalid")
      BY <2>1, Failed DEF Outcomes
  <2> QED
      BY <1>7, <2>1 DEF AskUvRetries, WorldTyped, Locations
<1>8. CASE PackageToken
  <2>1. wire' \in WireType
      BY <1>8 DEF PackageToken, calculate_and_set_uv_auth, WireType
  <2>2. CASE Persist
    <3>1. store' \subseteq RecordType
        BY <2>2, MintedType DEF Persist
    <3> QED
        BY <1>8, <2>1, <2>2, <3>1, CounterTypes
        DEF PackageToken, Persist, WorldTyped, Locations, Sources
  <2>3. CASE Cache
    <3>1. auth' \in AuthType
        BY <2>3, ScopeType DEF Cache, CachedScope, Scope, AuthType
    <3> QED
        BY <1>8, <2>1, <2>3, <3>1
        DEF PackageToken, Cache, WorldTyped, Locations, Sources
  <2> QED
      BY <1>8, <2>2, <2>3 DEF PackageToken
<1> QED
    BY <1>1, <1>2, <1>3, <1>4, <1>5, <1>6, <1>7, <1>8 DEF Verifying

(* Sending the request, and what follows from the answer. *)
Sending ==
    \/ PrepareSend \/ Accept \/ RetryWithoutCache \/ RetryWithoutRecord
    \/ RejectFresh \/ OtherError \/ TransportError

LEMMA SendingType ==
    ASSUME TypeOK, Sending
    PROVE  TypeOK'
<1> USE DEF TypeOK, WorldTyped, CommandTyped, LocalsTyped, Goto, localVars
<1>1. CASE PrepareSend
  <2>1. calculate_hmac \in WireType /\ calculate_hmac_secret_mc \in WireType
      BY DEF calculate_hmac, calculate_hmac_secret_mc, WireType, AuthType
  <2>2. wire' \in {calculate_hmac, calculate_hmac_secret_mc, wire}
      BY <1>1, Zenon DEF PrepareSend
  <2>3. wire' \in WireType
      BY <2>1, <2>2
  <2> QED
      BY <1>1, <2>3 DEF PrepareSend, Locations
<1>2. CASE Accept
    BY <1>2, Finished DEF Accept, Outcomes
<1>3. CASE RetryWithoutCache
  <2>1. retries' \in 0..RetriesCap
      BY <1>3 DEF RetryWithoutCache, OneMoreRetry, RetriesCap
  <2> QED
      BY <1>3, <2>1, EmptyTypes
      DEF RetryWithoutCache, clear_uv_auth_token_store, Locations
<1>4. CASE RetryWithoutRecord
  <2>1. retries' \in 0..RetriesCap
      BY <1>4 DEF RetryWithoutRecord, OneMoreRetry, RetriesCap
  <2>2. store' \subseteq RecordType
      BY <1>4, DeletedType DEF RetryWithoutRecord
  <2> QED
      BY <1>4, <2>1, <2>2 DEF RetryWithoutRecord, Locations
<1>5. CASE RejectFresh
    BY <1>5, Failed DEF RejectFresh, Outcomes
<1>6. CASE OtherError
    BY <1>6, Failed DEF OtherError, Outcomes
<1>7. CASE TransportError
    BY <1>7, Failed DEF TransportError, Outcomes
<1> QED
    BY <1>1, <1>2, <1>3, <1>4, <1>5, <1>6, <1>7 DEF Sending

(* Setting and changing the PIN. *)
ChangingPin ==
    \/ TakeNewPin \/ RefuseNewPin \/ DeclineNewPin \/ CannotSetPin
    \/ EnterCurrentPin \/ ObtainSecretForPin \/ SetPin \/ PinPolicyViolation
    \/ CurrentPinRefused \/ EvictRecord

LEMMA ChangingPinType ==
    ASSUME TypeOK, ChangingPin
    PROVE  TypeOK'
<1> USE DEF TypeOK, CommandTyped, LocalsTyped, Goto, localVars
<1>1. CASE TakeNewPin
  <2>1. recId' \in Nat
      BY <1>1 DEF TakeNewPin, recognize_authenticator, WorldTyped, RecordType
  <2> QED
      BY <1>1, <2>1 DEF TakeNewPin, WorldTyped, Locations
<1>2. CASE RefuseNewPin
  <2>1. CASE after = "app"
      BY <1>2, <2>1, Failed DEF RefuseNewPin, Outcomes
  <2>2. CASE after # "app"
    <3>1. WorldTyped'
        BY <1>2, <2>2, CounterTypes DEF RefuseNewPin, WorldTyped
    <3> QED
        BY <1>2, <2>2, <3>1 DEF RefuseNewPin
  <2> QED
      BY <2>1, <2>2
<1>3. CASE DeclineNewPin
    BY <1>3, Failed DEF DeclineNewPin, Outcomes
<1>4. CASE CannotSetPin
    BY <1>4, Failed DEF CannotSetPin, Outcomes
<1>5. CASE EnterCurrentPin
    BY <1>5 DEF EnterCurrentPin, WorldTyped, DeviceType, Locations
<1>6. CASE ObtainSecretForPin
    BY <1>6 DEF ObtainSecretForPin, WorldTyped, DeviceType, SecretType, Locations
<1>7. CASE SetPin
    BY <1>7, NewPinType DEF SetPin, WorldTyped, Locations
<1>8. CASE PinPolicyViolation
  <2>1. CASE after = "app"
      BY <1>8, <2>1, Failed DEF PinPolicyViolation, Outcomes
  <2>2. CASE after # "app"
    <3>1. WorldTyped'
        BY <1>8, <2>2, CounterTypes DEF PinPolicyViolation, WorldTyped
    <3> QED
        BY <1>8, <2>2, <3>1 DEF PinPolicyViolation, Locations
  <2> QED
      BY <2>1, <2>2
<1>9. CASE CurrentPinRefused
  <2>1. dev' \in DeviceType
      BY <1>9, DeviceFields DEF CurrentPinRefused, WorldTyped
  <2> QED
      BY <1>9, <2>1, Finished DEF CurrentPinRefused, WorldTyped, Outcomes
<1>10. CASE EvictRecord
  <2>1. WorldTyped'
      BY <1>10, DeletedType DEF EvictRecord, WorldTyped
  <2>2. CASE after = "app"
      BY <1>10, <2>1, <2>2, Finished DEF EvictRecord, Outcomes
  <2>3. CASE after # "app"
      BY <1>10, <2>1, <2>3 DEF EvictRecord, Locations
  <2> QED
      BY <2>2, <2>3
<1> QED
    BY <1>1, <1>2, <1>3, <1>4, <1>5, <1>6, <1>7, <1>8, <1>9, <1>10 DEF ChangingPin

LEMMA EnvironmentType ==
    ASSUME TypeOK, Environment
    PROVE  TypeOK'
<1> USE DEF TypeOK
<1>1. ASSUME DeviceOnly, dev' \in DeviceType
      PROVE  TypeOK'
    BY <1>1, CounterTypes
    DEF DeviceOnly, Disturb, platformVars, localVars, WorldTyped, CommandTyped,
        LocalsTyped
<1>2. CASE PowerCycle
  <2> DEFINE renewed == [dev EXCEPT !.key = @ + 1]
  <2>1. renewed \in DeviceType
      BY DeviceFields DEF WorldTyped
  <2>2. dev' = [renewed EXCEPT !.tok = NoToken]
      BY <1>2 DEF PowerCycle
  <2>3. DeviceOnly
      BY <1>2 DEF PowerCycle
  <2> HIDE DEF renewed
  <2>4. dev' \in DeviceType
      BY <2>1, <2>2, DeviceFields, EmptyTypes
  <2> QED
      BY <1>1, <2>3, <2>4
<1>3. CASE TokenExpires
    BY <1>1, <1>3, DeviceFields, EmptyTypes DEF TokenExpires, WorldTyped
<1>4. CASE ForeignPinChange
    BY <1>1, <1>4, NewPinType DEF ForeignPinChange, WorldTyped
<1>5. CASE ForeignForceChange
    BY <1>1, <1>5, DeviceFields DEF ForeignForceChange, WorldTyped
<1>6. CASE Crash
  <2>1. WorldTyped'
      BY <1>6, CounterTypes, EmptyTypes DEF Crash, Disturb, WorldTyped
  <2>2. LocalsTyped' /\ pc' \in Locations /\ result' \in Outcomes
      BY <1>6, Finished DEF Crash, Outcomes
  <2> QED
      BY <1>6, <2>1, <2>2 DEF Crash, CommandTyped
<1> QED
    BY <1>2, <1>3, <1>4, <1>5, <1>6 DEF Environment

LEMMA NextCases ==
    ASSUME [Next]_vars
    PROVE  \/ \E r \in Requests : Start(r)
           \/ Choosing \/ Verifying \/ Sending \/ ChangingPin \/ Environment
           \/ UNCHANGED vars
    BY DEF Next, Rest, Program, UserAnswers, Choosing, Verifying, Sending,
           ChangingPin

(***************************************************************************)
(* The state keeps its type: whatever the authenticator answers, whenever  *)
(* the process dies, and however often the user mistypes.                  *)
(***************************************************************************)
THEOREM TypeCorrect == Spec => []TypeOK
<1>1. Init => TypeOK
    BY InitType
<1>2. TypeOK /\ [Next]_vars => TypeOK'
  <2> SUFFICES ASSUME TypeOK, [Next]_vars PROVE TypeOK'
      OBVIOUS
  <2>1. CASE UNCHANGED vars
      BY <2>1 DEF vars, TypeOK, WorldTyped, CommandTyped, LocalsTyped
  <2> QED
      BY <2>1, NextCases, StartType, ChoosingType, VerifyingType, SendingType,
         ChangingPinType, EnvironmentType
<1> QED
    BY <1>1, <1>2, PTL DEF Spec

-----------------------------------------------------------------------------
(***************************************************************************)
(* Reuse of tokens.  ReuseOnlyOnFirstAttempt is not inductive: why nothing *)
(* is left to reuse after a rejection depends on which kind of token was   *)
(* rejected, so the invariant follows each kind.                           *)
(***************************************************************************)
Persistent == set_persistent_token_use(req, info)

(* What getInfo says of a device never changes its fixed part. *)
ProfileKnown == info.profile = dev.profile

NoPcmrCached == "pcmr" \notin auth.perms

(* A command that may use persistent tokens never reuses the cached one. *)
ReuseFits ==
    pc \in {"extend", "send"} =>
        /\ used = "persistent" => Persistent
        /\ used = "ephemeral" => ~Persistent

(* After a rejection neither the store nor the cache is consulted. *)
NothingLeftToReuse ==
    retries = 1 =>
        /\ Persistent => rejected
        /\ ~Persistent /\ pc \notin {"idle", "extend", "send"} => auth.tok = 0

ReuseSafe ==
    /\ ProfileKnown
    /\ NoPcmrCached
    /\ ReuseFits
    /\ NothingLeftToReuse
    /\ ReuseOnlyOnFirstAttempt
    /\ StaleTokenNeverFailsCommand

LEMMA FailedReuse ==
    ASSUME TypeOK, ReuseSafe, NEW outcome, Fail(outcome),
           outcome = "PINAuthInvalid" => used \notin Reused
    PROVE  ReuseSafe'
<1>1. info'.profile = info.profile
    BY DEF Fail, Finish, ClearLocals, TypeOK, LocalsTyped, InfoType
<1> QED
    BY <1>1
    DEF Fail, Finish, ReuseSafe, ProfileKnown, NoPcmrCached, ReuseFits,
        NothingLeftToReuse, ReuseOnlyOnFirstAttempt, StaleTokenNeverFailsCommand,
        Persistent, set_persistent_token_use

LEMMA ChoosingReuse ==
    ASSUME TypeOK, ReuseSafe, Choosing
    PROVE  ReuseSafe'
<1> USE DEF ReuseSafe, ProfileKnown, NoPcmrCached, ReuseFits, NothingLeftToReuse,
            ReuseOnlyOnFirstAttempt, StaleTokenNeverFailsCommand, Persistent,
            set_persistent_token_use, Reused, Goto, localVars, devVars,
            platformVars
<1>1. CASE FetchInfo
    BY <1>1 DEF FetchInfo, DeviceInfo
<1>2. CASE ReusePersistent
    BY <1>2 DEF ReusePersistent, MayReusePersistent
<1>3. CASE ReuseEphemeral
  <2>1. ~Persistent
    <3>1. Persistent => Scope(req, info).perms = {"pcmr"}
        BY DEF Scope, permissions
    <3> QED
        BY <1>3, <3>1 DEF ReuseEphemeral, get_uv_auth_token, contains
  <2>2. auth.tok # 0
      BY <1>3 DEF ReuseEphemeral, get_uv_auth_token
  <2> QED
      BY <1>3, <2>1, <2>2 DEF ReuseEphemeral
<1>4. CASE EnterHelper
    BY <1>4 DEF EnterHelper
<1>5. CASE TryToSetPin
    BY <1>5 DEF TryToSetPin
<1>6. CASE Recheck
  <2>1. CASE Fail("NoUvAvailable")
      BY <2>1, FailedReuse
  <2> QED
      BY <1>6, <2>1 DEF Recheck, DeviceInfo
<1>7. CASE WithoutPinToSet
    BY <1>7 DEF WithoutPinToSet
<1>8. CASE SkipVerification
    BY <1>8 DEF SkipVerification
<1>9. CASE EnterLoop
    BY <1>9 DEF EnterLoop
<1>10. CASE NoOperation
    BY <1>10, FailedReuse DEF NoOperation
<1>11. CASE UseLegacyUv
    BY <1>11 DEF UseLegacyUv
<1>12. CASE ForbiddenForClientPin
    BY <1>12, FailedReuse DEF ForbiddenForClientPin
<1>13. CASE ForcePinChange
    BY <1>13 DEF ForcePinChange
<1>14. CASE ChooseOperation
  <2>1. CASE info.profile.proto
      BY <1>14, <2>1 DEF ChooseOperation, FirstStepOf
  <2> QED
      BY <1>14, <2>1, FailedReuse DEF ChooseOperation
<1>15. CASE LoopAgain
    BY <1>15 DEF LoopAgain, DeviceInfo
<1> QED
    BY <1>1, <1>2, <1>3, <1>4, <1>5, <1>6, <1>7, <1>8, <1>9, <1>10, <1>11,
       <1>12, <1>13, <1>14, <1>15 DEF Choosing

LEMMA PcmrIsPersistent ==
    ASSUME NEW r \in RequestType, NEW i \in InfoType,
           ~set_persistent_token_use(r, i)
    PROVE  "pcmr" \notin permissions(r, i)
    BY DEF permissions

LEMMA VerifyingReuse ==
    ASSUME TypeOK, ReuseSafe, Verifying
    PROVE  ReuseSafe'
<1> USE DEF ReuseSafe, ProfileKnown, NoPcmrCached, ReuseFits, NothingLeftToReuse,
            ReuseOnlyOnFirstAttempt, StaleTokenNeverFailsCommand, Persistent,
            set_persistent_token_use, Reused, Goto, localVars
<1>1. CASE EnterPin
    BY <1>1 DEF EnterPin, AfterPin
<1>2. CASE CancelPin
    BY <1>2, FailedReuse DEF CancelPin
<1>3. CASE ObtainSharedSecret
    BY <1>3 DEF ObtainSharedSecret, NoAuth
<1>4. CASE GrantToken
  <2>1. dev'.profile = dev.profile
      BY <1>4 DEF GrantToken, TypeOK, WorldTyped, DeviceType
  <2> QED
      BY <1>4, <2>1 DEF GrantToken
<1>5. CASE RefusePin
  <2>1. /\ dev'.profile = dev.profile
        /\ info'.profile = info.profile
      BY <1>5
      DEF RefusePin, Finish, ClearLocals, TypeOK, WorldTyped, LocalsTyped,
          DeviceType, InfoType
  <2> QED
      BY <1>5, <2>1 DEF RefusePin, Finish
<1>6. CASE RefuseUv
  <2>1. dev'.profile = dev.profile
      BY <1>6 DEF RefuseUv, TypeOK, WorldTyped, DeviceType
  <2> QED
      BY <1>6, <2>1 DEF RefuseUv
<1>7. CASE AskUvRetries
  <2>1. CASE Fail("UVInvalid")
      BY <2>1, FailedReuse
  <2> QED
      BY <1>7, <2>1 DEF AskUvRetries
<1>8. CASE PackageToken
  <2>1. used' = "newUv" \/ used' = "newPin"
      BY <1>8 DEF PackageToken
  <2>2. CASE Persistent
      BY <1>8, <2>1, <2>2 DEF PackageToken, Persist
  <2>3. CASE ~Persistent
    <3>1. "pcmr" \notin permissions(req, info)
        BY <2>3, PcmrIsPersistent DEF TypeOK, CommandTyped, LocalsTyped
    <3>2. "pcmr" \notin auth'.perms
        BY <1>8, <2>3, <3>1 DEF PackageToken, Cache, CachedScope, Scope
    <3> QED
        BY <1>8, <2>1, <2>3, <3>2 DEF PackageToken, Cache
  <2> QED
      BY <2>2, <2>3
<1> QED
    BY <1>1, <1>2, <1>3, <1>4, <1>5, <1>6, <1>7, <1>8 DEF Verifying

LEMMA SendingReuse ==
    ASSUME TypeOK, ReuseSafe, Sending
    PROVE  ReuseSafe'
<1> USE DEF ReuseSafe, ProfileKnown, NoPcmrCached, ReuseFits, NothingLeftToReuse,
            ReuseOnlyOnFirstAttempt, StaleTokenNeverFailsCommand, Persistent,
            set_persistent_token_use, Reused, Goto, localVars
<1>1. CASE PrepareSend
    BY <1>1 DEF PrepareSend
<1>2. CASE Accept
  <2>1. info'.profile = info.profile
      BY <1>2 DEF Accept, Finish, ClearLocals, TypeOK, LocalsTyped, InfoType
  <2> QED
      BY <1>2, <2>1 DEF Accept, Finish
<1>3. CASE RetryWithoutCache
  <2>1. used = "ephemeral" /\ pc = "send"
      BY <1>3 DEF RetryWithoutCache, RejectsAuth, EvictsCache
  <2>2. retries' = 1
      BY <1>3, <2>1
      DEF RetryWithoutCache, OneMoreRetry, TypeOK, CommandTyped, RetriesCap
  <2>3. auth' = NoAuth
      BY <1>3 DEF RetryWithoutCache, clear_uv_auth_token_store
  <2> QED
      BY <1>3, <2>1, <2>2, <2>3 DEF RetryWithoutCache, NoAuth
<1>4. CASE RetryWithoutRecord
  <2>1. used = "persistent" /\ pc = "send"
      BY <1>4 DEF RetryWithoutRecord, RejectsAuth, EvictsRecord
  <2>2. retries' = 1
      BY <1>4, <2>1
      DEF RetryWithoutRecord, OneMoreRetry, TypeOK, CommandTyped, RetriesCap
  <2>3. rejected'
      BY <1>4, <2>1 DEF RetryWithoutRecord
  <2> QED
      BY <1>4, <2>1, <2>2, <2>3 DEF RetryWithoutRecord
<1>5. CASE RejectFresh
    BY <1>5, FailedReuse DEF RejectFresh, EvictsCache, EvictsRecord
<1>6. CASE OtherError
    BY <1>6, FailedReuse DEF OtherError
<1>7. CASE TransportError
    BY <1>7, FailedReuse DEF TransportError
<1> QED
    BY <1>1, <1>2, <1>3, <1>4, <1>5, <1>6, <1>7 DEF Sending

LEMMA ChangingPinReuse ==
    ASSUME TypeOK, ReuseSafe, ChangingPin
    PROVE  ReuseSafe'
<1> USE DEF ReuseSafe, ProfileKnown, NoPcmrCached, ReuseFits, NothingLeftToReuse,
            ReuseOnlyOnFirstAttempt, StaleTokenNeverFailsCommand, Persistent,
            set_persistent_token_use, Reused, Goto, localVars
<1> SUFFICES ASSUME ~\E outcome \in {"Refused", "Cancelled"} : Fail(outcome)
             PROVE  ReuseSafe'
    BY FailedReuse
<1>1. CASE TakeNewPin
    BY <1>1 DEF TakeNewPin
<1>2. CASE RefuseNewPin
    BY <1>2 DEF RefuseNewPin
<1>3. CASE DeclineNewPin
    BY <1>3 DEF DeclineNewPin
<1>4. CASE CannotSetPin
    BY <1>4 DEF CannotSetPin
<1>5. CASE EnterCurrentPin
    BY <1>5 DEF EnterCurrentPin
<1>6. CASE ObtainSecretForPin
    BY <1>6 DEF ObtainSecretForPin
<1>7. CASE SetPin
  <2>1. dev'.profile = dev.profile
      BY <1>7 DEF SetPin, WithNewPin, TypeOK, WorldTyped, DeviceType
  <2> QED
      BY <1>7, <2>1 DEF SetPin
<1>8. CASE PinPolicyViolation
    BY <1>8 DEF PinPolicyViolation
<1>9. CASE CurrentPinRefused
  <2>1. /\ dev'.profile = dev.profile
        /\ info'.profile = info.profile
      BY <1>9
      DEF CurrentPinRefused, Finish, ClearLocals, TypeOK, WorldTyped, LocalsTyped,
          DeviceType, InfoType
  <2> QED
      BY <1>9, <2>1 DEF CurrentPinRefused, Finish
<1>10. CASE EvictRecord
  <2>1. CASE after = "app"
    <3>1. info'.profile = info.profile
        BY <1>10, <2>1
        DEF EvictRecord, Finish, ClearLocals, TypeOK, LocalsTyped, InfoType
    <3> QED
        BY <1>10, <2>1, <3>1 DEF EvictRecord, Finish
  <2>2. CASE after # "app"
      BY <1>10, <2>2 DEF EvictRecord
  <2> QED
      BY <2>1, <2>2
<1> QED
    BY <1>1, <1>2, <1>3, <1>4, <1>5, <1>6, <1>7, <1>8, <1>9, <1>10 DEF ChangingPin

LEMMA EnvironmentReuse ==
    ASSUME TypeOK, ReuseSafe, Environment
    PROVE  ReuseSafe'
<1> USE DEF ReuseSafe, ProfileKnown, NoPcmrCached, ReuseFits, NothingLeftToReuse,
            ReuseOnlyOnFirstAttempt, StaleTokenNeverFailsCommand, Persistent,
            set_persistent_token_use
<1>1. ASSUME DeviceOnly, dev'.profile = dev.profile
      PROVE  ReuseSafe'
    BY <1>1 DEF DeviceOnly, platformVars, localVars
<1>2. CASE PowerCycle \/ TokenExpires \/ ForeignPinChange \/ ForeignForceChange
  <2>1. dev'.profile = dev.profile
      BY <1>2
      DEF PowerCycle, TokenExpires, ForeignPinChange, WithNewPin,
          ForeignForceChange, TypeOK, WorldTyped, DeviceType
  <2>2. DeviceOnly
      BY <1>2 DEF PowerCycle, TokenExpires, ForeignPinChange, ForeignForceChange
  <2> QED
      BY <1>1, <2>1, <2>2
<1>3. CASE Crash
  <2>1. info'.profile = info.profile
      BY <1>3 DEF Crash, Finish, ClearLocals, TypeOK, LocalsTyped, InfoType
  <2> QED
      BY <1>3, <2>1 DEF Crash, Finish, NoAuth
<1> QED
    BY <1>2, <1>3 DEF Environment

LEMMA StartReuse ==
    ASSUME TypeOK, ReuseSafe, NEW r \in Requests, Start(r)
    PROVE  ReuseSafe'
    BY DEF ReuseSafe, ProfileKnown, NoPcmrCached, ReuseFits, NothingLeftToReuse,
           ReuseOnlyOnFirstAttempt, StaleTokenNeverFailsCommand, Start, Goto,
           localVars

LEMMA InitReuse == Init => ReuseSafe
    BY DEF Init, ReuseSafe, ProfileKnown, NoPcmrCached, ReuseFits, NoAuth,
           NothingLeftToReuse, ReuseOnlyOnFirstAttempt,
           StaleTokenNeverFailsCommand

THEOREM ReuseSafety == Spec => []ReuseSafe
<1>1. Init => ReuseSafe
    BY InitReuse
<1>2. TypeOK /\ ReuseSafe /\ [Next]_vars => ReuseSafe'
  <2> SUFFICES ASSUME TypeOK, ReuseSafe, [Next]_vars PROVE ReuseSafe'
      OBVIOUS
  <2>1. CASE UNCHANGED vars
      BY <2>1
      DEF vars, ReuseSafe, ProfileKnown, NoPcmrCached, ReuseFits,
          NothingLeftToReuse, ReuseOnlyOnFirstAttempt,
          StaleTokenNeverFailsCommand, Persistent, set_persistent_token_use
  <2> QED
      BY <2>1, NextCases, StartReuse, ChoosingReuse, VerifyingReuse, SendingReuse,
         ChangingPinReuse, EnvironmentReuse
<1> QED
    BY <1>1, <1>2, TypeCorrect, PTL DEF Spec

(***************************************************************************)
(* A cached or stored token is tried on the first attempt only, whether or *)
(* not the store manages to delete the rejected record.                    *)
(***************************************************************************)
THEOREM ReuseIsTriedOnce == Spec => []ReuseOnlyOnFirstAttempt
<1>1. ReuseSafe => ReuseOnlyOnFirstAttempt
    BY DEF ReuseSafe
<1> QED
    BY <1>1, ReuseSafety, PTL

(***************************************************************************)
(* No command reports PINAuthInvalid because of a token it reused.         *)
(***************************************************************************)
THEOREM StaleTokensAreHandled == Spec => []StaleTokenNeverFailsCommand
<1>1. ReuseSafe => StaleTokenNeverFailsCommand
    BY DEF ReuseSafe
<1> QED
    BY <1>1, ReuseSafety, PTL

(***************************************************************************)
(* Both: reusing a token costs a command at most one more attempt.         *)
(***************************************************************************)
THEOREM ReuseDoesNoHarm == Spec => []ReuseIsHarmless
<1>1. ReuseOnlyOnFirstAttempt /\ StaleTokenNeverFailsCommand => ReuseIsHarmless
    BY DEF ReuseIsHarmless
<1> QED
    BY <1>1, ReuseIsTriedOnce, StaleTokensAreHandled, PTL

-----------------------------------------------------------------------------
(***************************************************************************)
(* The ceremony implements CommandPromise: each step is a step of the      *)
(* promise, or changes nothing the promise speaks of.                      *)
(***************************************************************************)
PromiseStep == [Promise!Next]_(Promise!vars)

LEMMA FinishKeepsPromise ==
    ASSUME TypeOK, ReuseSafe, NEW outcome \in Outcomes, Finish(outcome),
           pc # "idle", retries' = retries,
           outcome = "PINAuthInvalid" => used \notin Reused
    PROVE  Promise!Return
    BY DEF Finish, Promise!Return, Phase, Source, Reused

LEMMA FailKeepsPromise ==
    ASSUME TypeOK, ReuseSafe, NEW outcome \in Outcomes, Fail(outcome),
           pc # "idle", outcome = "PINAuthInvalid" => used \notin Reused
    PROVE  PromiseStep
    BY FinishKeepsPromise DEF Fail, PromiseStep, Promise!Next

LEMMA PreparingKeepsPromise ==
    ASSUME Phase = "preparing", Phase' = "preparing", retries' = retries,
           result' = result
    PROVE  PromiseStep
    BY DEF PromiseStep, Promise!vars, Source

LEMMA ReadyKeepsPromise ==
    ASSUME Phase = "preparing", Phase' = "ready", retries' = retries,
           result' = result, used' \in Sources, used' \in Reused => retries = 0
    PROVE  PromiseStep
    BY DEF PromiseStep, Promise!Next, Promise!Authorise, Source, Phase, Reused

LEMMA ChoosingKeepsPromise ==
    ASSUME TypeOK, ReuseSafe, TypeOK', ReuseSafe', Choosing
    PROVE  PromiseStep
<1> USE DEF Goto, localVars, Phase
<1>1. CASE \/ FetchInfo \/ EnterHelper \/ TryToSetPin \/ WithoutPinToSet
           \/ EnterLoop \/ ForcePinChange \/ LoopAgain
    BY <1>1, PreparingKeepsPromise
    DEF FetchInfo, EnterHelper, TryToSetPin, WithoutPinToSet, EnterLoop,
        ForcePinChange, LoopAgain
<1>2. CASE ReusePersistent \/ ReuseEphemeral \/ SkipVerification \/ UseLegacyUv
  <2>1. retries = 0 \/ retries = 1
      BY DEF TypeOK, CommandTyped, RetriesCap, ReuseSafe, ReuseOnlyOnFirstAttempt
  <2>2. /\ Phase = "preparing" /\ Phase' = "ready"
        /\ retries' = retries /\ result' = result
        /\ pc' = "extend"
      BY <1>2
      DEF ReusePersistent, ReuseEphemeral, SkipVerification, UseLegacyUv
  <2>3. used' \in Sources /\ (used' \in Reused => retries = 0)
      BY <2>1, <2>2
      DEF TypeOK, CommandTyped, ReuseSafe, ReuseOnlyOnFirstAttempt
  <2> QED
      BY <2>2, <2>3, ReadyKeepsPromise
<1>3. CASE Recheck
    BY <1>3, PreparingKeepsPromise, FailKeepsPromise DEF Recheck, Outcomes
<1>4. CASE NoOperation \/ ForbiddenForClientPin
    BY <1>4, FailKeepsPromise DEF NoOperation, ForbiddenForClientPin, Outcomes
<1>5. CASE ChooseOperation
    BY <1>5, PreparingKeepsPromise, FailKeepsPromise
    DEF ChooseOperation, FirstStepOf, Outcomes
<1> QED
    BY <1>1, <1>2, <1>3, <1>4, <1>5 DEF Choosing

LEMMA VerifyingKeepsPromise ==
    ASSUME TypeOK, ReuseSafe, TypeOK', ReuseSafe', Verifying
    PROVE  PromiseStep
<1> USE DEF Goto, localVars, Phase
<1>1. CASE EnterPin \/ GrantToken
    BY <1>1, PreparingKeepsPromise DEF EnterPin, AfterPin, GrantToken
<1>2. CASE CancelPin
    BY <1>2, FailKeepsPromise DEF CancelPin, Outcomes
<1>3. CASE ObtainSharedSecret
  <2>1. CASE op \in {"OnlyForSharedSecret", "LegacyUv"}
    <3>1. used' \in {"legacyUv", "secretOnly"}
        BY <1>3, <2>1 DEF ObtainSharedSecret
    <3> QED
        BY <1>3, <2>1, <3>1, ReadyKeepsPromise
        DEF ObtainSharedSecret, Sources, Reused
  <2> QED
      BY <1>3, <2>1, PreparingKeepsPromise DEF ObtainSharedSecret
<1>4. CASE RefusePin
  <2>1. Promise!Return
      BY <1>4, FinishKeepsPromise DEF RefusePin, Outcomes
  <2> QED
      BY <2>1 DEF PromiseStep, Promise!Next
<1>5. CASE RefuseUv
    BY <1>5, PreparingKeepsPromise DEF RefuseUv
<1>6. CASE AskUvRetries
    BY <1>6, PreparingKeepsPromise, FailKeepsPromise DEF AskUvRetries, Outcomes
<1>7. CASE PackageToken
  <2>1. used' \in {"newUv", "newPin"}
      BY <1>7 DEF PackageToken
  <2> QED
      BY <1>7, <2>1, ReadyKeepsPromise DEF PackageToken, Sources, Reused
<1> QED
    BY <1>1, <1>2, <1>3, <1>4, <1>5, <1>6, <1>7 DEF Verifying

LEMMA SendingKeepsPromise ==
    ASSUME TypeOK, ReuseSafe, Sending
    PROVE  PromiseStep
<1> USE DEF Goto, localVars
<1>1. CASE PrepareSend
    BY <1>1 DEF PrepareSend, PromiseStep, Promise!vars, Phase, Source
<1>2. CASE Accept
  <2>1. Promise!Return
      BY <1>2, FinishKeepsPromise DEF Accept, Outcomes
  <2> QED
      BY <2>1 DEF PromiseStep, Promise!Next
<1>3. CASE RetryWithoutCache \/ RetryWithoutRecord
  <2>1. used \in Reused /\ pc = "send" /\ pc' = "info"
      BY <1>3
      DEF RetryWithoutCache, RetryWithoutRecord, RejectsAuth, EvictsCache,
          EvictsRecord, Reused
  <2>2. retries = 0
      BY <2>1
      DEF TypeOK, CommandTyped, RetriesCap, ReuseSafe, ReuseOnlyOnFirstAttempt
  <2>3. retries' = 1 /\ result' = result
      BY <1>3, <2>2 DEF RetryWithoutCache, RetryWithoutRecord, OneMoreRetry, RetriesCap
  <2>4. Promise!Retry
      BY <2>1, <2>2, <2>3 DEF Promise!Retry, Phase, Source
  <2> QED
      BY <2>4 DEF PromiseStep, Promise!Next
<1>4. CASE RejectFresh
    BY <1>4, FailKeepsPromise
    DEF RejectFresh, RejectsAuth, EvictsCache, EvictsRecord, Reused, Outcomes
<1>5. CASE OtherError \/ TransportError
    BY <1>5, FailKeepsPromise DEF OtherError, TransportError, Outcomes
<1> QED
    BY <1>1, <1>2, <1>3, <1>4, <1>5 DEF Sending

LEMMA ChangingPinKeepsPromise ==
    ASSUME TypeOK, ReuseSafe, ChangingPin
    PROVE  PromiseStep
<1> USE DEF Goto, localVars, Phase
<1>1. CASE TakeNewPin \/ EnterCurrentPin \/ ObtainSecretForPin \/ SetPin
    BY <1>1, PreparingKeepsPromise
    DEF TakeNewPin, EnterCurrentPin, ObtainSecretForPin, SetPin
<1>2. CASE RefuseNewPin \/ PinPolicyViolation
    BY <1>2, PreparingKeepsPromise, FailKeepsPromise
    DEF RefuseNewPin, PinPolicyViolation, Outcomes
<1>3. CASE DeclineNewPin \/ CannotSetPin
    BY <1>3, FailKeepsPromise DEF DeclineNewPin, CannotSetPin, Outcomes
<1>4. CASE CurrentPinRefused
  <2>1. Promise!Return
      BY <1>4, FinishKeepsPromise DEF CurrentPinRefused, Outcomes
  <2> QED
      BY <2>1 DEF PromiseStep, Promise!Next
<1>5. CASE EvictRecord
  <2>1. CASE after = "app"
    <3>1. Promise!Return
        BY <1>5, <2>1, FinishKeepsPromise DEF EvictRecord, Outcomes
    <3> QED
        BY <3>1 DEF PromiseStep, Promise!Next
  <2>2. CASE after # "app"
      BY <1>5, <2>2, PreparingKeepsPromise DEF EvictRecord
  <2> QED
      BY <2>1, <2>2
<1> QED
    BY <1>1, <1>2, <1>3, <1>4, <1>5 DEF ChangingPin

LEMMA EnvironmentKeepsPromise ==
    ASSUME TypeOK, ReuseSafe, Environment
    PROVE  PromiseStep
<1>1. CASE PowerCycle \/ TokenExpires \/ ForeignPinChange \/ ForeignForceChange
    BY <1>1
    DEF PowerCycle, TokenExpires, ForeignPinChange, ForeignForceChange,
        DeviceOnly, PromiseStep, Promise!vars, Phase, Source
<1>2. CASE Crash /\ pc = "idle"
  <2>1. Promise!Drop
      BY <1>2 DEF Crash, Finish, Promise!Drop, Phase, Source, Outcomes
  <2> QED
      BY <2>1 DEF PromiseStep, Promise!Next
<1>3. CASE Crash /\ pc # "idle"
  <2>1. Promise!Return
      BY <1>3, FinishKeepsPromise DEF Crash, Outcomes
  <2> QED
      BY <2>1 DEF PromiseStep, Promise!Next
<1> QED
    BY <1>1, <1>2, <1>3 DEF Environment

LEMMA StartKeepsPromise ==
    ASSUME NEW r \in Requests, Start(r)
    PROVE  PromiseStep
<1>1. Promise!Begin
    BY DEF Start, Goto, Promise!Begin, Phase, Source
<1> QED
    BY <1>1 DEF PromiseStep, Promise!Next

(***************************************************************************)
(* handle_errors! keeps its promise: a command is retried at most once, in *)
(* answer to a reused token that was rejected, and no reused token ever    *)
(* makes it fail.                                                          *)
(***************************************************************************)
THEOREM CommandsKeepPromise == Spec => KeepsPromise
<1>1. Init => Promise!Init
    BY DEF Init, Promise!Init, Phase, Source
<1>2. TypeOK /\ TypeOK' /\ ReuseSafe /\ ReuseSafe' /\ [Next]_vars
          => [Promise!Next]_(Promise!vars)
  <2> SUFFICES ASSUME TypeOK, TypeOK', ReuseSafe, ReuseSafe', [Next]_vars
               PROVE  PromiseStep
      BY DEF PromiseStep
  <2>1. CASE UNCHANGED vars
      BY <2>1 DEF vars, PromiseStep, Promise!vars, Phase, Source
  <2> QED
      BY <2>1, NextCases, StartKeepsPromise, ChoosingKeepsPromise,
         VerifyingKeepsPromise, SendingKeepsPromise, ChangingPinKeepsPromise,
         EnvironmentKeepsPromise
<1> QED
    BY <1>1, <1>2, TypeCorrect, ReuseSafety, PTL
    DEF Spec, KeepsPromise, Promise!Spec

-----------------------------------------------------------------------------
(***************************************************************************)
(* What is sent and what is granted: PINs and touches, the permissions of  *)
(* a token, the scope it is cached under, and the verification a request   *)
(* carries.                                                                *)
(***************************************************************************)

(* A step that returns to the application leaves the command's places. *)
LEMMA FailIsIdle ==
    ASSUME NEW outcome, Fail(outcome)
    PROVE  /\ pc' = "idle"
           /\ info' = [info EXCEPT !.clientPin = "absent", !.force = FALSE, !.gen = 0]
           /\ UNCHANGED <<dev, auth, req, n>>
    BY DEF Fail, Finish, ClearLocals

LEMMA FinishIsIdle ==
    ASSUME NEW outcome, Finish(outcome)
    PROVE  /\ pc' = "idle"
           /\ info' = [info EXCEPT !.clientPin = "absent", !.force = FALSE, !.gen = 0]
    BY DEF Finish, ClearLocals

-----------------------------------------------------------------------------
(***************************************************************************)
(* A PIN goes out under a secret obtained after it was typed.              *)
(***************************************************************************)
LEMMA VerifyingKeepsFresh ==
    ASSUME PinSentUnderFreshSecret, Verifying
    PROVE  PinSentUnderFreshSecret'
<1> USE DEF PinSentUnderFreshSecret, PinOperations, Goto
<1>1. CASE EnterPin
    BY <1>1 DEF EnterPin, AfterPin
<1>2. CASE CancelPin
    BY <1>2, FailIsIdle DEF CancelPin
<1>3. CASE ObtainSharedSecret
    BY <1>3 DEF ObtainSharedSecret
<1>4. CASE GrantToken
    BY <1>4 DEF GrantToken
<1>5. CASE RefusePin
    BY <1>5, FinishIsIdle DEF RefusePin
<1>6. CASE RefuseUv
    BY <1>6 DEF RefuseUv
<1>7. CASE AskUvRetries
    BY <1>7, FailIsIdle DEF AskUvRetries
<1>8. CASE PackageToken
    BY <1>8 DEF PackageToken
<1> QED
    BY <1>1, <1>2, <1>3, <1>4, <1>5, <1>6, <1>7, <1>8 DEF Verifying

LEMMA ChangingPinKeepsFresh ==
    ASSUME PinSentUnderFreshSecret, ChangingPin
    PROVE  PinSentUnderFreshSecret'
<1> USE DEF PinSentUnderFreshSecret, Goto
<1>1. CASE TakeNewPin
    BY <1>1 DEF TakeNewPin
<1>2. CASE RefuseNewPin
    BY <1>2, FailIsIdle DEF RefuseNewPin
<1>3. CASE DeclineNewPin
    BY <1>3, FailIsIdle DEF DeclineNewPin
<1>4. CASE CannotSetPin
    BY <1>4, FailIsIdle DEF CannotSetPin
<1>5. CASE EnterCurrentPin
    BY <1>5 DEF EnterCurrentPin
<1>6. CASE ObtainSecretForPin
    BY <1>6 DEF ObtainSecretForPin
<1>7. CASE SetPin
    BY <1>7 DEF SetPin
<1>8. CASE PinPolicyViolation
    BY <1>8, FailIsIdle DEF PinPolicyViolation
<1>9. CASE CurrentPinRefused
    BY <1>9, FinishIsIdle DEF CurrentPinRefused
<1>10. CASE EvictRecord
    BY <1>10, FinishIsIdle DEF EvictRecord
<1> QED
    BY <1>1, <1>2, <1>3, <1>4, <1>5, <1>6, <1>7, <1>8, <1>9, <1>10 DEF ChangingPin

(***************************************************************************)
(* Whatever happens between the prompt and the request, the secret a PIN   *)
(* is encrypted under cannot have expired while the user was typing.       *)
(***************************************************************************)
THEOREM PinsGoOutFresh == Spec => []PinSentUnderFreshSecret
<1>1. Init => PinSentUnderFreshSecret
    BY DEF Init, PinSentUnderFreshSecret
<1>2. PinSentUnderFreshSecret /\ [Next]_vars => PinSentUnderFreshSecret'
  <2> SUFFICES ASSUME PinSentUnderFreshSecret, [Next]_vars
               PROVE  PinSentUnderFreshSecret'
      OBVIOUS
  <2>1. CASE \E r \in Requests : Start(r)
      BY <2>1 DEF Start, Goto, PinSentUnderFreshSecret
  <2>2. CASE Choosing
    <3> USE DEF PinSentUnderFreshSecret, Goto, localVars
    <3>1. CASE \/ FetchInfo \/ ReusePersistent \/ ReuseEphemeral \/ EnterHelper
               \/ TryToSetPin \/ WithoutPinToSet \/ SkipVerification
               \/ EnterLoop \/ UseLegacyUv \/ ForcePinChange \/ LoopAgain
        BY <3>1
        DEF FetchInfo, ReusePersistent, ReuseEphemeral, EnterHelper, TryToSetPin,
            WithoutPinToSet, SkipVerification, EnterLoop, UseLegacyUv,
            ForcePinChange, LoopAgain
    <3>2. CASE Recheck \/ NoOperation \/ ForbiddenForClientPin
        BY <3>2, FailIsIdle DEF Recheck, NoOperation, ForbiddenForClientPin
    <3>3. CASE ChooseOperation
        BY <3>3, FailIsIdle DEF ChooseOperation, FirstStepOf
    <3> QED
        BY <2>2, <3>1, <3>2, <3>3 DEF Choosing
  <2>3. CASE Verifying
      BY <2>3, VerifyingKeepsFresh
  <2>4. CASE Sending
    <3> USE DEF PinSentUnderFreshSecret, Goto
    <3>1. CASE PrepareSend \/ RetryWithoutCache \/ RetryWithoutRecord
        BY <3>1 DEF PrepareSend, RetryWithoutCache, RetryWithoutRecord
    <3>2. CASE Accept \/ RejectFresh \/ OtherError \/ TransportError
        BY <3>2, FailIsIdle, FinishIsIdle
        DEF Accept, RejectFresh, OtherError, TransportError
    <3> QED
        BY <2>4, <3>1, <3>2 DEF Sending
  <2>5. CASE ChangingPin
      BY <2>5, ChangingPinKeepsFresh
  <2>6. CASE Environment
    <3>1. CASE Crash
        BY <3>1, FinishIsIdle DEF Crash, PinSentUnderFreshSecret
    <3>2. CASE DeviceOnly
        BY <3>2 DEF DeviceOnly, localVars, PinSentUnderFreshSecret
    <3> QED
        BY <2>6, <3>1, <3>2
        DEF Environment, PowerCycle, TokenExpires, ForeignPinChange,
            ForeignForceChange
  <2>7. CASE UNCHANGED vars
      BY <2>7 DEF vars, PinSentUnderFreshSecret
  <2> QED
      BY <2>1, <2>2, <2>3, <2>4, <2>5, <2>6, <2>7, NextCases
<1> QED
    BY <1>1, <1>2, PTL DEF Spec

-----------------------------------------------------------------------------
(***************************************************************************)
(* Touches.  The prompt that goes out while built-in UV mints a token has  *)
(* to be remembered until the request is sent.                             *)
(***************************************************************************)
TouchSafe ==
    /\ TouchIsAnnounced
    /\ pc \in {"getToken", "package"} /\ op = "UvToken" => told
    /\ pc = "extend" /\ used = "newUv" => told

LEMMA ChoosingKeepsTouch ==
    ASSUME TouchSafe, Choosing
    PROVE  TouchSafe'
<1> USE DEF TouchSafe, TouchIsAnnounced, Goto, localVars
<1>1. CASE \/ FetchInfo \/ EnterHelper \/ TryToSetPin \/ WithoutPinToSet
           \/ EnterLoop \/ ForcePinChange \/ LoopAgain
    BY <1>1
    DEF FetchInfo, EnterHelper, TryToSetPin, WithoutPinToSet, EnterLoop,
        ForcePinChange, LoopAgain
<1>2. CASE ReusePersistent \/ ReuseEphemeral \/ SkipVerification \/ UseLegacyUv
    BY <1>2 DEF ReusePersistent, ReuseEphemeral, SkipVerification, UseLegacyUv
<1>3. CASE Recheck \/ NoOperation \/ ForbiddenForClientPin
    BY <1>3, FailIsIdle DEF Recheck, NoOperation, ForbiddenForClientPin
<1>4. CASE ChooseOperation
    BY <1>4, FailIsIdle DEF ChooseOperation, FirstStepOf
<1> QED
    BY <1>1, <1>2, <1>3, <1>4 DEF Choosing

LEMMA VerifyingKeepsTouch ==
    ASSUME TouchSafe, Verifying
    PROVE  TouchSafe'
<1> USE DEF TouchSafe, TouchIsAnnounced, Goto, localVars
<1>1. CASE EnterPin
    BY <1>1 DEF EnterPin, AfterPin
<1>2. CASE ObtainSharedSecret
    BY <1>2 DEF ObtainSharedSecret
<1>3. CASE GrantToken
    BY <1>3 DEF GrantToken
<1>4. CASE PackageToken
    BY <1>4 DEF PackageToken
<1>5. CASE RefuseUv
    BY <1>5 DEF RefuseUv
<1>6. CASE CancelPin \/ RefusePin \/ AskUvRetries
    BY <1>6, FailIsIdle, FinishIsIdle DEF CancelPin, RefusePin, AskUvRetries
<1> QED
    BY <1>1, <1>2, <1>3, <1>4, <1>5, <1>6 DEF Verifying

LEMMA SendingKeepsTouch ==
    ASSUME TouchSafe, Sending
    PROVE  TouchSafe'
<1> USE DEF TouchSafe, TouchIsAnnounced, Goto
<1>1. CASE PrepareSend
    BY <1>1 DEF PrepareSend, AnnouncesPresence
<1>2. CASE RetryWithoutCache \/ RetryWithoutRecord
    BY <1>2 DEF RetryWithoutCache, RetryWithoutRecord
<1>3. CASE Accept \/ RejectFresh \/ OtherError \/ TransportError
    BY <1>3, FailIsIdle, FinishIsIdle
    DEF Accept, RejectFresh, OtherError, TransportError
<1> QED
    BY <1>1, <1>2, <1>3 DEF Sending

(* The places of a PIN change, which no property below speaks of. *)
LEMMA ChangingPinStays ==
    ASSUME ChangingPin
    PROVE  /\ pc' \in {"newPin", "curPin", "setKey", "setPin", "evict", "reloop",
                      "recheck", "idle"}
           /\ UNCHANGED <<auth, req, wire, used>>
<1> USE DEF Goto
<1>1. CASE \/ TakeNewPin \/ EnterCurrentPin \/ ObtainSecretForPin \/ SetPin
    BY <1>1 DEF TakeNewPin, EnterCurrentPin, ObtainSecretForPin, SetPin
<1>2. CASE RefuseNewPin \/ DeclineNewPin \/ CannotSetPin \/ PinPolicyViolation
    BY <1>2 DEF RefuseNewPin, DeclineNewPin, CannotSetPin, PinPolicyViolation,
                Fail, Finish
<1>3. CASE CurrentPinRefused \/ EvictRecord
    BY <1>3, FinishIsIdle DEF CurrentPinRefused, EvictRecord
<1> QED
    BY <1>1, <1>2, <1>3 DEF ChangingPin

(* The surroundings end the command or leave it where it is. *)
LEMMA EnvironmentStays ==
    ASSUME Environment
    PROVE  \/ /\ pc' = "idle" /\ auth' = NoAuth
              /\ info' = [info EXCEPT !.clientPin = "absent", !.force = FALSE,
                                      !.gen = 0]
              /\ UNCHANGED <<dev, req, n.tok>>
           \/ /\ UNCHANGED <<auth, store, localVars, pc, req, wire, used, told,
                             waited, n.tok>>
              /\ PowerCycle \/ TokenExpires \/ ForeignPinChange \/ ForeignForceChange
<1>1. CASE Crash
    BY <1>1, FinishIsIdle DEF Crash, Disturb
<1>2. CASE DeviceOnly /\ ~Crash
    BY <1>2 DEF DeviceOnly, Disturb, platformVars, Environment
<1> QED
    BY <1>1, <1>2
    DEF Environment, PowerCycle, TokenExpires, ForeignPinChange, ForeignForceChange

(***************************************************************************)
(* Whichever way the user was verified, and on every attempt, the touch    *)
(* was asked for before the request goes out.                              *)
(***************************************************************************)
THEOREM TouchesAreAnnounced == Spec => []TouchIsAnnounced
<1>1. Init => TouchSafe
    BY DEF Init, TouchSafe, TouchIsAnnounced
<1>2. TouchSafe /\ [Next]_vars => TouchSafe'
  <2> SUFFICES ASSUME TouchSafe, [Next]_vars PROVE TouchSafe'
      OBVIOUS
  <2>1. CASE \E r \in Requests : Start(r)
      BY <2>1 DEF Start, Goto, TouchSafe, TouchIsAnnounced
  <2>2. CASE ChangingPin
      BY <2>2, ChangingPinStays DEF TouchSafe, TouchIsAnnounced
  <2>3. CASE Environment
      BY <2>3, EnvironmentStays DEF TouchSafe, TouchIsAnnounced, localVars
  <2>4. CASE UNCHANGED vars
      BY <2>4 DEF vars, TouchSafe, TouchIsAnnounced
  <2> QED
      BY <2>1, <2>2, <2>3, <2>4, NextCases, ChoosingKeepsTouch,
         VerifyingKeepsTouch, SendingKeepsTouch
<1>3. TouchSafe => TouchIsAnnounced
    BY DEF TouchSafe
<1> QED
    BY <1>1, <1>2, <1>3, PTL DEF Spec

-----------------------------------------------------------------------------
(***************************************************************************)
(* noMcGaPermissionsWithClientPin is looked at when the operation is       *)
(* chosen; the token is minted three awaits later.                         *)
(***************************************************************************)
Choosable ==
    /\ pc = "waitPin" => op \in PinOperations
    /\ pc = "getToken" => op \in PinOperations \cup {"UvToken"}
    /\ pc = "keyAgree" => op # "none"

MayMint ==
    /\ pc \in {"waitPin", "keyAgree", "getToken"}
    /\ op \in PinOperations
    /\ info.profile.noMcGa
    => permissions(req, info) \cap {"mc", "ga"} = {}

MintSafe == Choosable /\ MayMint /\ PinNeverMintsMcGa

LEMMA ChosenMayMint ==
    ASSUME Chosen \in PinOperations, info.profile.noMcGa
    PROVE  permissions(req, info) \cap {"mc", "ga"} = {}
    BY DEF Chosen, enforce_no_mc_ga_with_client_pin, PinOperations

LEMMA ChoosingKeepsMint ==
    ASSUME MintSafe, Choosing
    PROVE  MintSafe'
<1> USE DEF MintSafe, Choosable, MayMint, PinNeverMintsMcGa, Goto, localVars
<1>1. CASE \/ FetchInfo \/ EnterHelper \/ TryToSetPin \/ WithoutPinToSet
           \/ EnterLoop \/ ForcePinChange \/ LoopAgain
    BY <1>1
    DEF FetchInfo, EnterHelper, TryToSetPin, WithoutPinToSet, EnterLoop,
        ForcePinChange, LoopAgain, devVars
<1>2. CASE ReusePersistent \/ ReuseEphemeral \/ SkipVerification \/ UseLegacyUv
    BY <1>2
    DEF ReusePersistent, ReuseEphemeral, SkipVerification, UseLegacyUv, devVars
<1>3. CASE Recheck \/ NoOperation \/ ForbiddenForClientPin
    BY <1>3, FailIsIdle DEF Recheck, NoOperation, ForbiddenForClientPin
<1>4. CASE ChooseOperation
  <2>1. CASE info.profile.proto
    <3>1. /\ op' = Chosen /\ Chosen # "none"
          /\ pc' = IF Chosen \in PinOperations THEN "waitPin" ELSE "keyAgree"
          /\ UNCHANGED <<dev, req, info>>
        BY <1>4, <2>1 DEF ChooseOperation, FirstStepOf
    <3>2. permissions(req, info)' = permissions(req, info)
        BY <3>1 DEF permissions, set_persistent_token_use
    <3> QED
        BY <3>1, <3>2, ChosenMayMint
  <2> QED
      BY <1>4, <2>1, FailIsIdle DEF ChooseOperation
<1> QED
    BY <1>1, <1>2, <1>3, <1>4 DEF Choosing

(* A grant renews the authenticator's token, but for the persistent one. *)
LEMMA Granted ==
    ASSUME TypeOK, GrantToken
    PROVE  /\ dev'.profile = dev.profile
           /\ \/ /\ permissions(req, info) = {"pcmr"}
                 /\ dev'.tok = dev.tok /\ n'.tok = n.tok
              \/ /\ got' = n.tok + 1 /\ n'.tok = n.tok + 1
                 /\ dev'.tok = [id |-> n.tok + 1, perms |-> permissions(req, info),
                                rp |-> permissions_rpid(req),
                                by |-> IF op = "UvToken" THEN "uv" ELSE "pin"]
<1> USE DEF TypeOK, WorldTyped, DeviceType
<1>1. Scope(req, info).perms = permissions(req, info)
      /\ Scope(req, info).rp = permissions_rpid(req)
    BY DEF Scope
<1>2. CASE permissions(req, info) = {"pcmr"}
    BY <1>1, <1>2 DEF GrantToken
<1>3. CASE permissions(req, info) # {"pcmr"}
    BY <1>1, <1>3, ZenonT(40) DEF GrantToken
<1> QED
    BY <1>2, <1>3

LEMMA VerifyingKeepsMint ==
    ASSUME TypeOK, ProfileKnown, MintSafe, Verifying
    PROVE  MintSafe'
<1> USE DEF MintSafe, Choosable, MayMint, PinNeverMintsMcGa, Goto
<1>1. CASE EnterPin
  <2>1. permissions(req, info)' = permissions(req, info)
      BY <1>1 DEF EnterPin, permissions, set_persistent_token_use
  <2> QED
      BY <1>1, <2>1 DEF EnterPin, AfterPin, PinOperations
<1>2. CASE ObtainSharedSecret
  <2>1. permissions(req, info)' = permissions(req, info)
      BY <1>2 DEF ObtainSharedSecret, permissions, set_persistent_token_use
  <2>2. op \in UvOperations
      BY <1>2 DEF ObtainSharedSecret, TypeOK, LocalsTyped
  <2> QED
      BY <1>2, <2>1, <2>2 DEF ObtainSharedSecret, UvOperations, PinOperations
<1>3. CASE GrantToken
  <2>1. PinNeverMintsMcGa'
      BY <1>3, Granted DEF GrantToken, ProfileKnown
  <2> QED
      BY <1>3, <2>1 DEF GrantToken
<1>4. CASE RefuseUv
  <2>1. dev'.profile = dev.profile /\ dev'.tok = dev.tok
      BY <1>4 DEF RefuseUv, TypeOK, WorldTyped, DeviceType
  <2> QED
      BY <1>4, <2>1 DEF RefuseUv
<1>5. CASE RefusePin
  <2>1. dev'.profile = dev.profile /\ dev'.tok = dev.tok
      BY <1>5 DEF RefusePin, TypeOK, WorldTyped, DeviceType
  <2> QED
      BY <1>5, <2>1, FinishIsIdle DEF RefusePin
<1>6. CASE CancelPin \/ AskUvRetries
    BY <1>6, FailIsIdle DEF CancelPin, AskUvRetries
<1>7. CASE PackageToken
    BY <1>7 DEF PackageToken
<1> QED
    BY <1>1, <1>2, <1>3, <1>4, <1>5, <1>6, <1>7 DEF Verifying

(* The authenticator's token changes by a grant, or is lost. *)
LEMMA ChangingPinLosesTokens ==
    ASSUME TypeOK, ChangingPin
    PROVE  /\ dev'.profile = dev.profile
           /\ dev'.tok \in {dev.tok, NoToken}
           /\ n'.tok = n.tok
<1> USE DEF TypeOK, WorldTyped, DeviceType
<1>1. CASE TakeNewPin \/ EnterCurrentPin \/ ObtainSecretForPin \/ EvictRecord
    BY <1>1 DEF TakeNewPin, EnterCurrentPin, ObtainSecretForPin, EvictRecord
<1>2. CASE SetPin \/ CurrentPinRefused
    BY <1>2 DEF SetPin, WithNewPin, CurrentPinRefused
<1>3. CASE RefuseNewPin \/ DeclineNewPin \/ CannotSetPin \/ PinPolicyViolation
    BY <1>3, FailIsIdle
    DEF RefuseNewPin, DeclineNewPin, CannotSetPin, PinPolicyViolation
<1> QED
    BY <1>1, <1>2, <1>3 DEF ChangingPin

LEMMA EnvironmentLosesTokens ==
    ASSUME TypeOK, Environment
    PROVE  /\ dev'.profile = dev.profile
           /\ dev'.tok \in {dev.tok, NoToken}
           /\ dev.clientPin = "on" => dev'.clientPin = "on"
<1>1. CASE Crash
    BY <1>1 DEF Crash
<1>2. CASE PowerCycle \/ TokenExpires \/ ForeignPinChange \/ ForeignForceChange
    BY <1>2
    DEF PowerCycle, TokenExpires, ForeignPinChange, WithNewPin,
        ForeignForceChange, TypeOK, WorldTyped, DeviceType
<1> QED
    BY <1>1, <1>2 DEF Environment

(***************************************************************************)
(* The strengthening is an invariant: what the operation was chosen for is *)
(* still what is asked for when the token is minted.                       *)
(***************************************************************************)
THEOREM MintSafety == Spec => []MintSafe
<1>1. Init => MintSafe
    BY DEF Init, MintSafe, Choosable, MayMint, PinNeverMintsMcGa, NoToken
<1>2. TypeOK /\ ReuseSafe /\ MintSafe /\ [Next]_vars => MintSafe'
  <2> SUFFICES ASSUME TypeOK, ReuseSafe, MintSafe, [Next]_vars PROVE MintSafe'
      OBVIOUS
  <2> USE DEF MintSafe, Choosable, MayMint, PinNeverMintsMcGa
  <2>1. CASE \E r \in Requests : Start(r)
      BY <2>1 DEF Start, Goto
  <2>2. CASE Choosing
      BY <2>2, ChoosingKeepsMint
  <2>3. CASE Verifying
      BY <2>3, VerifyingKeepsMint DEF ReuseSafe
  <2>4. CASE Sending
    <3>1. UNCHANGED dev /\ pc' \in {"send", "info", "idle"}
        BY <2>4, FailIsIdle, FinishIsIdle
        DEF Sending, PrepareSend, Accept, RetryWithoutCache, RetryWithoutRecord,
            RejectFresh, OtherError, TransportError, Goto
    <3> QED
        BY <3>1
  <2>5. CASE ChangingPin
      BY <2>5, ChangingPinStays, ChangingPinLosesTokens DEF NoToken
  <2>6. CASE Environment
    <3>1. PinNeverMintsMcGa'
        BY <2>6, EnvironmentLosesTokens DEF NoToken
    <3>2. pc' = "idle" \/ UNCHANGED <<pc, op, info, req>>
        BY <2>6, EnvironmentStays DEF localVars
    <3>3. UNCHANGED <<info, req>> => permissions(req, info)' = permissions(req, info)
        BY DEF permissions, set_persistent_token_use
    <3> QED
        BY <3>1, <3>2, <3>3
  <2>7. CASE UNCHANGED vars
    <3>1. permissions(req, info)' = permissions(req, info)
        BY <2>7 DEF vars, permissions, set_persistent_token_use
    <3> QED
        BY <2>7, <3>1 DEF vars
  <2> QED
      BY <2>1, <2>2, <2>3, <2>4, <2>5, <2>6, <2>7, NextCases
<1> QED
    BY <1>1, <1>2, TypeCorrect, ReuseSafety, PTL DEF Spec

(***************************************************************************)
(* On an authenticator with noMcGaPermissionsWithClientPin, no PIN mints   *)
(* an mc or ga token, by whatever path the loop arrives at the PIN.        *)
(***************************************************************************)
THEOREM PinsMintNoMcGa == Spec => []PinNeverMintsMcGa
<1>1. MintSafe => PinNeverMintsMcGa
    BY DEF MintSafe
<1> QED
    BY <1>1, MintSafety, PTL

-----------------------------------------------------------------------------
(***************************************************************************)
(* The cached scope.  Token identities only grow, so a token that was      *)
(* cached before is never the one that is granted; and between the grant   *)
(* and the caching of a token nothing changes what was asked for.          *)
(***************************************************************************)
GotIsGranted ==
    pc = "package" /\ permissions(req, info) # {"pcmr"} =>
        /\ got \in 1..n.tok
        /\ got = dev.tok.id => /\ dev.tok.perms = permissions(req, info)
                               /\ dev.tok.rp = permissions_rpid(req)

IdentitiesGrow == auth.tok <= n.tok /\ dev.tok.id <= n.tok

GrantKept ==
    auth.tok # 0 /\ auth.tok = dev.tok.id =>
        auth.perms = dev.tok.perms /\ auth.rp = dev.tok.rp

CacheSafe == GotIsGranted /\ IdentitiesGrow /\ GrantKept

LEMMA ChoosingKeepsCache ==
    ASSUME CacheSafe, Choosing
    PROVE  CacheSafe'
<1>1. UNCHANGED <<auth, dev, n>> /\ pc' # "package"
  <2> USE DEF Goto
  <2>1. CASE \/ FetchInfo \/ EnterHelper \/ TryToSetPin \/ WithoutPinToSet
             \/ EnterLoop \/ ForcePinChange \/ LoopAgain
      BY <2>1
      DEF FetchInfo, EnterHelper, TryToSetPin, WithoutPinToSet, EnterLoop,
          ForcePinChange, LoopAgain, devVars, platformVars
  <2>2. CASE ReusePersistent \/ ReuseEphemeral \/ SkipVerification \/ UseLegacyUv
      BY <2>2
      DEF ReusePersistent, ReuseEphemeral, SkipVerification, UseLegacyUv,
          devVars, platformVars
  <2>3. CASE Recheck \/ NoOperation \/ ForbiddenForClientPin
      BY <2>3, FailIsIdle DEF Recheck, NoOperation, ForbiddenForClientPin
  <2>4. CASE ChooseOperation
      BY <2>4, FailIsIdle DEF ChooseOperation, FirstStepOf
  <2> QED
      BY <2>1, <2>2, <2>3, <2>4 DEF Choosing
<1> QED
    BY <1>1 DEF CacheSafe, GotIsGranted, IdentitiesGrow, GrantKept

LEMMA VerifyingKeepsCache ==
    ASSUME TypeOK, CacheSafe, Verifying
    PROVE  CacheSafe'
<1> USE DEF CacheSafe, GotIsGranted, IdentitiesGrow, GrantKept, Goto
<1>1. CASE EnterPin
    BY <1>1 DEF EnterPin, AfterPin
<1>2. CASE CancelPin \/ AskUvRetries
    BY <1>2, FailIsIdle DEF CancelPin, AskUvRetries
<1>3. CASE ObtainSharedSecret
  <2>1. n'.tok = n.tok
      BY <1>3 DEF ObtainSharedSecret, TypeOK, WorldTyped
  <2>2. auth' = auth \/ auth'.tok = 0
      BY <1>3 DEF ObtainSharedSecret, NoAuth
  <2>3. n.tok \in Nat
      BY DEF TypeOK, WorldTyped
  <2> QED
      BY <1>3, <2>1, <2>2, <2>3 DEF ObtainSharedSecret
<1>4. CASE GrantToken
  <2>1. /\ permissions(req, info)' = permissions(req, info)
        /\ permissions_rpid(req)' = permissions_rpid(req)
      BY <1>4 DEF GrantToken, permissions, set_persistent_token_use, permissions_rpid
  <2>2. auth.tok \in Nat /\ dev.tok.id \in Nat /\ n.tok \in Nat
      BY DEF TypeOK, WorldTyped, AuthType, DeviceType, TokenType
  <2>3. CASE permissions(req, info) = {"pcmr"} /\ dev'.tok = dev.tok /\ n'.tok = n.tok
      BY <1>4, <2>1, <2>3 DEF GrantToken
  <2>4. CASE /\ got' = n.tok + 1 /\ n'.tok = n.tok + 1
             /\ dev'.tok = [id |-> n.tok + 1, perms |-> permissions(req, info),
                            rp |-> permissions_rpid(req),
                            by |-> IF op = "UvToken" THEN "uv" ELSE "pin"]
    <3>1. /\ dev'.tok.id = n.tok + 1 /\ dev'.tok.perms = permissions(req, info)
          /\ dev'.tok.rp = permissions_rpid(req)
        BY <2>4
    <3>2. auth' = auth /\ pc' = "package"
        BY <1>4 DEF GrantToken
    <3> QED
        BY <2>1, <2>2, <2>4, <3>1, <3>2
  <2> QED
      BY <1>4, <2>3, <2>4, Granted
<1>5. CASE RefusePin
  <2>1. dev'.tok = dev.tok
      BY <1>5 DEF RefusePin, TypeOK, WorldTyped, DeviceType
  <2> QED
      BY <1>5, <2>1, FinishIsIdle DEF RefusePin
<1>6. CASE RefuseUv
  <2>1. dev'.tok = dev.tok
      BY <1>6 DEF RefuseUv, TypeOK, WorldTyped, DeviceType
  <2> QED
      BY <1>6, <2>1 DEF RefuseUv
<1>7. CASE PackageToken
  <2>1. CASE set_persistent_token_use(req, info)
    <3>1. n'.tok = n.tok
        BY <1>7, <2>1 DEF PackageToken, Persist, TypeOK, WorldTyped
    <3> QED
        BY <1>7, <2>1, <3>1 DEF PackageToken, Persist
  <2>2. CASE ~set_persistent_token_use(req, info)
    <3>1. permissions(req, info) # {"pcmr"}
        BY <2>2 DEF permissions
    <3>2. /\ auth'.tok = got /\ auth'.perms = permissions(req, info)
          /\ auth'.rp = permissions_rpid(req)
          /\ n' = n /\ dev' = dev /\ pc = "package" /\ pc' = "extend"
        BY <1>7, <2>2 DEF PackageToken, Cache, CachedScope, Scope
    <3>3. n.tok \in Nat
        BY DEF TypeOK, WorldTyped
    <3> QED
        BY <3>1, <3>2, <3>3
  <2> QED
      BY <2>1, <2>2
<1> QED
    BY <1>1, <1>2, <1>3, <1>4, <1>5, <1>6, <1>7 DEF Verifying

LEMMA SendingKeepsCache ==
    ASSUME TypeOK, CacheSafe, Sending
    PROVE  CacheSafe'
<1>1. UNCHANGED <<dev, n>> /\ pc' # "package" /\ auth' \in {auth, NoAuth}
    BY FailIsIdle, FinishIsIdle
    DEF Sending, PrepareSend, Accept, RetryWithoutCache, RetryWithoutRecord,
        clear_uv_auth_token_store, RejectFresh, OtherError, TransportError, Goto
<1>2. n.tok \in Nat
    BY DEF TypeOK, WorldTyped
<1> QED
    BY <1>1, <1>2 DEF CacheSafe, GotIsGranted, IdentitiesGrow, GrantKept, NoAuth

LEMMA CacheSafety == Spec => []CacheSafe
<1>1. Init => CacheSafe
    BY DEF Init, CacheSafe, GotIsGranted, IdentitiesGrow, GrantKept, NoAuth, NoToken
<1>2. TypeOK /\ CacheSafe /\ [Next]_vars => CacheSafe'
  <2> SUFFICES ASSUME TypeOK, CacheSafe, [Next]_vars PROVE CacheSafe'
      OBVIOUS
  <2> USE DEF CacheSafe, GotIsGranted, IdentitiesGrow, GrantKept
  <2>1. n.tok \in Nat
      BY DEF TypeOK, WorldTyped
  <2>2. CASE \E r \in Requests : Start(r)
    <3>1. n'.tok = n.tok
        BY <2>2 DEF Start, TypeOK, WorldTyped
    <3> QED
        BY <2>2, <3>1 DEF Start, Goto
  <2>3. CASE ChangingPin
      BY <2>1, <2>3, ChangingPinStays, ChangingPinLosesTokens DEF NoToken
  <2>4. CASE Environment
    <3>1. UNCHANGED <<req, info>> =>
            UNCHANGED <<permissions(req, info), permissions_rpid(req)>>
        BY DEF permissions, set_persistent_token_use, permissions_rpid
    <3>2. \/ /\ pc' = "idle" /\ auth' = NoAuth /\ UNCHANGED <<dev, n.tok>>
          \/ UNCHANGED <<auth, pc, req, info, got, n.tok>>
        BY <2>4, EnvironmentStays DEF localVars
    <3>3. CASE pc' = "idle" /\ auth' = NoAuth /\ UNCHANGED <<dev, n.tok>>
        BY <2>1, <3>3 DEF NoAuth
    <3>4. CASE UNCHANGED <<auth, pc, req, info, got, n.tok>>
        BY <2>1, <2>4, <3>1, <3>4, EnvironmentLosesTokens DEF NoToken
    <3> QED
        BY <3>2, <3>3, <3>4
  <2>5. CASE UNCHANGED vars
    <3>1. UNCHANGED <<permissions(req, info), permissions_rpid(req)>>
        BY <2>5 DEF vars, permissions, set_persistent_token_use, permissions_rpid
    <3> QED
        BY <2>5, <3>1 DEF vars
  <2> QED
      BY <2>2, <2>3, <2>4, <2>5, NextCases, ChoosingKeepsCache,
         VerifyingKeepsCache, SendingKeepsCache
<1> QED
    BY <1>1, <1>2, TypeCorrect, PTL DEF Spec

(***************************************************************************)
(* The channel never believes its cached token to be worth more, or less,  *)
(* than what the authenticator granted with it.                            *)
(***************************************************************************)
THEOREM CacheIsWhatWasGranted == Spec => []CacheMatchesGrant
<1>1. ReuseSafe /\ CacheSafe => CacheMatchesGrant
    BY DEF ReuseSafe, NoPcmrCached, CacheSafe, GrantKept, CacheMatchesGrant
<1> QED
    BY <1>1, CacheSafety, ReuseSafety, PTL

-----------------------------------------------------------------------------
(***************************************************************************)
(* Required verification.  The guard before the loop looks at a getInfo    *)
(* that may be out of date when the request is sent; what keeps the        *)
(* argument together is that a device never loses its protection, and that *)
(* the loop is entered only with a protected one.                          *)
(***************************************************************************)
Required == req.kind \in WebAuthnKinds /\ req.uv = "required"

(* Between the guard and the choice of what the request carries, PIN       *)
(* changes forced by the loop included.                                    *)
InLoop ==
    \/ pc \in {"early", "loop", "waitPin", "keyAgree", "getToken", "uvRetries",
               "package", "reloop"}
    \/ /\ pc \in {"newPin", "curPin", "setKey", "setPin", "evict"}
       /\ after \notin {"app", "required"}

PinStaysSet == info.clientPin = "on" => dev.clientPin = "on"

LoopIsProtected == Required /\ InLoop => is_uv_protected(info)

SecretOnlyWhenBlocked ==
    Required /\ pc = "keyAgree" =>
        /\ op = "OnlyForSharedSecret" => blocked
        /\ op = "LegacyUv" => wire.uvOption

ReadyIsVerified ==
    Required /\ pc \in {"extend", "send"} => CarriesVerification \/ blocked

VerifiedSafe ==
    PinStaysSet /\ LoopIsProtected /\ SecretOnlyWhenBlocked /\ ReadyIsVerified

(* A step that ends the command. *)
LEMMA IdleIsVerified ==
    ASSUME pc' = "idle", info'.clientPin # "on"
    PROVE  VerifiedSafe'
    BY DEF VerifiedSafe, PinStaysSet, LoopIsProtected, InLoop,
           SecretOnlyWhenBlocked, ReadyIsVerified

LEMMA EndedIsVerified ==
    ASSUME TypeOK, pc' = "idle",
           info' = [info EXCEPT !.clientPin = "absent", !.force = FALSE, !.gen = 0]
    PROVE  VerifiedSafe'
<1>1. info'.clientPin # "on"
    BY DEF TypeOK, LocalsTyped, InfoType
<1> QED
    BY <1>1, IdleIsVerified

(* Looking at getInfo again never finds a protected device unprotected. *)
LEMMA ProtectionStays ==
    ASSUME ProfileKnown, PinStaysSet, is_uv_protected(info)
    PROVE  is_uv_protected(DeviceInfo)
    BY DEF ProfileKnown, PinStaysSet, is_uv_protected, enabled, DeviceInfo

LEMMA RequiredIsNotSkipped ==
    ASSUME Required, is_uv_protected(info)
    PROVE  ~MaySkipVerification
    BY DEF Required, MaySkipVerification, is_preferred

LEMMA RequiredChoice ==
    ASSUME TypeOK, Required, is_uv_protected(info)
    PROVE  /\ Chosen = "OnlyForSharedSecret" => blocked
           /\ Chosen = "LegacyUv" => Offered = "LegacyUv"
<1>1. Downgraded = Offered
    BY DEF Downgraded, Required
<1>2. Chosen \in {Offered, "UvToken", "none"}
    BY <1>1 DEF Chosen, enforce_no_mc_ga_with_client_pin
<1>3. Offered = "OnlyForSharedSecret" => blocked
  <2>1. ~blocked => UvUnavailable = FALSE
      BY DEF UvUnavailable, can_use_uv, Required, WebAuthnKinds
  <2>2. info.clientPin \in Option
      BY DEF TypeOK, LocalsTyped, InfoType
  <2> QED
      BY <2>1, <2>2 DEF Offered, uv_operation, is_uv_protected, enabled, Option
<1> QED
    BY <1>2, <1>3

LEMMA ChoosingKeepsVerified ==
    ASSUME TypeOK, ProfileKnown, VerifiedSafe, Choosing
    PROVE  VerifiedSafe'
<1> USE DEF VerifiedSafe, PinStaysSet, LoopIsProtected, InLoop,
            SecretOnlyWhenBlocked, ReadyIsVerified, Required, Goto, localVars,
            devVars, platformVars
<1>1. CASE FetchInfo
    BY <1>1 DEF FetchInfo, DeviceInfo
<1>2. CASE ReusePersistent \/ ReuseEphemeral
  <2>1. CarriesVerification'
    <3>1. PICK source, token : /\ source \in {"cache", "store"}
                                  /\ calculate_and_set_uv_auth(source, token)
        BY <1>2 DEF ReusePersistent, ReuseEphemeral
    <3>2. wire'.param.from = source /\ source # "none"
        BY <3>1 DEF calculate_and_set_uv_auth, TypeOK, CommandTyped, WireType
    <3> QED
        BY <3>2 DEF CarriesVerification, NoParam
  <2> QED
      BY <1>2, <2>1 DEF ReusePersistent, ReuseEphemeral
<1>3. CASE EnterHelper \/ TryToSetPin
    BY <1>3 DEF EnterHelper, TryToSetPin
<1>4. CASE WithoutPinToSet
    BY <1>4 DEF WithoutPinToSet, MustSetPin, is_uv_protected
<1>5. CASE EnterLoop
    BY <1>5 DEF EnterLoop, is_uv_protected
<1>6. CASE ForcePinChange
    BY <1>6 DEF ForcePinChange, is_uv_protected
<1>7. CASE Recheck
  <2>1. CASE Fail("NoUvAvailable")
      BY <2>1, FailIsIdle, EndedIsVerified
  <2> QED
      BY <1>7, <2>1 DEF Recheck, is_uv_protected, DeviceInfo
<1>8. CASE LoopAgain
  <2>1. Required => is_uv_protected(DeviceInfo)
      BY <1>8, ProtectionStays DEF LoopAgain
  <2> QED
      BY <1>8, <2>1 DEF LoopAgain, is_uv_protected, DeviceInfo
<1>9. CASE SkipVerification
    BY <1>9, RequiredIsNotSkipped DEF SkipVerification
<1>10. CASE UseLegacyUv
  <2>1. Required => CarriesVerification'
      BY <1>10 DEF UseLegacyUv, ensure_uv_set, CarriesVerification, TypeOK,
                   CommandTyped, WireType
  <2> QED
      BY <1>10, <2>1 DEF UseLegacyUv
<1>11. CASE NoOperation \/ ForbiddenForClientPin
    BY <1>11, FailIsIdle, EndedIsVerified DEF NoOperation, ForbiddenForClientPin
<1>12. CASE ChooseOperation
  <2>1. CASE info.profile.proto
    <3>1. Required /\ Offered = "LegacyUv" => wire'.uvOption
        BY <1>12, <2>1 DEF ChooseOperation, ensure_uv_set, TypeOK, CommandTyped,
                           WireType
    <3>2. /\ pc = "loop" /\ pc' \in {"waitPin", "keyAgree"} /\ op' = Chosen
          /\ UNCHANGED <<dev, req, info, blocked>>
        BY <1>12, <2>1 DEF ChooseOperation, FirstStepOf
    <3>3. Required =>
            /\ is_uv_protected(info) /\ is_uv_protected(info)'
            /\ Chosen = "OnlyForSharedSecret" => blocked
            /\ Chosen = "LegacyUv" => Offered = "LegacyUv"
        BY <3>2, RequiredChoice DEF is_uv_protected
    <3> QED
        BY <3>1, <3>2, <3>3
  <2> QED
      BY <1>12, <2>1, FailIsIdle, EndedIsVerified DEF ChooseOperation
<1> QED
    BY <1>1, <1>2, <1>3, <1>4, <1>5, <1>6, <1>7, <1>8, <1>9, <1>10, <1>11,
       <1>12 DEF Choosing

LEMMA VerifyingKeepsVerified ==
    ASSUME TypeOK, Choosable, VerifiedSafe, Verifying
    PROVE  VerifiedSafe'
<1> USE DEF VerifiedSafe, PinStaysSet, LoopIsProtected, InLoop,
            SecretOnlyWhenBlocked, ReadyIsVerified, Required, Goto, localVars,
            is_uv_protected
<1>1. CASE EnterPin
    BY <1>1 DEF EnterPin, AfterPin, Choosable, PinOperations
<1>2. CASE ObtainSharedSecret
    BY <1>2 DEF ObtainSharedSecret, CarriesVerification
<1>3. CASE GrantToken
  <2>1. dev'.clientPin = dev.clientPin
      BY <1>3 DEF GrantToken, TypeOK, WorldTyped, DeviceType
  <2> QED
      BY <1>3, <2>1 DEF GrantToken
<1>4. CASE RefuseUv
  <2>1. dev'.clientPin = dev.clientPin
      BY <1>4 DEF RefuseUv, TypeOK, WorldTyped, DeviceType
  <2> QED
      BY <1>4, <2>1 DEF RefuseUv
<1>5. CASE PackageToken
    BY <1>5 DEF PackageToken, calculate_and_set_uv_auth, CarriesVerification,
                NoParam
<1>6. CASE AskUvRetries
    BY <1>6, FailIsIdle, EndedIsVerified DEF AskUvRetries
<1>7. CASE CancelPin \/ RefusePin
    BY <1>7, FailIsIdle, FinishIsIdle, EndedIsVerified DEF CancelPin, RefusePin
<1> QED
    BY <1>1, <1>2, <1>3, <1>4, <1>5, <1>6, <1>7 DEF Verifying

LEMMA SendingKeepsVerified ==
    ASSUME TypeOK, VerifiedSafe, Sending
    PROVE  VerifiedSafe'
<1> USE DEF VerifiedSafe, PinStaysSet, LoopIsProtected, InLoop,
            SecretOnlyWhenBlocked, ReadyIsVerified, Required, Goto, localVars
<1>1. CASE PrepareSend
  <2>1. CarriesVerification' = CarriesVerification
    <3>1. wire' \in {calculate_hmac, calculate_hmac_secret_mc, wire}
        BY <1>1, Zenon DEF PrepareSend
    <3>2. wire'.param = wire.param /\ wire'.uvOption = wire.uvOption
        BY <3>1 DEF calculate_hmac, calculate_hmac_secret_mc, TypeOK,
                    CommandTyped, WireType
    <3> QED
        BY <3>2 DEF CarriesVerification
  <2> QED
      BY <1>1, <2>1 DEF PrepareSend
<1>2. CASE RetryWithoutCache \/ RetryWithoutRecord
    BY <1>2 DEF RetryWithoutCache, RetryWithoutRecord
<1>3. CASE Accept \/ RejectFresh \/ OtherError \/ TransportError
    BY <1>3, FailIsIdle, FinishIsIdle, EndedIsVerified
    DEF Accept, RejectFresh, OtherError, TransportError
<1> QED
    BY <1>1, <1>2, <1>3 DEF Sending

LEMMA ChangingPinKeepsVerified ==
    ASSUME TypeOK, VerifiedSafe, ChangingPin
    PROVE  VerifiedSafe'
<1> USE DEF VerifiedSafe, PinStaysSet, LoopIsProtected, InLoop,
            SecretOnlyWhenBlocked, ReadyIsVerified, Required, Goto, localVars,
            is_uv_protected
<1>1. CASE TakeNewPin \/ EnterCurrentPin \/ ObtainSecretForPin
    BY <1>1 DEF TakeNewPin, EnterCurrentPin, ObtainSecretForPin
<1>2. CASE SetPin
  <2>1. dev'.clientPin = "on"
      BY <1>2 DEF SetPin, WithNewPin, TypeOK, WorldTyped, DeviceType
  <2> QED
      BY <1>2, <2>1 DEF SetPin
<1>3. CASE RefuseNewPin
    BY <1>3, FailIsIdle, EndedIsVerified DEF RefuseNewPin
<1>4. CASE PinPolicyViolation
    BY <1>4, FailIsIdle, EndedIsVerified DEF PinPolicyViolation
<1>5. CASE DeclineNewPin \/ CannotSetPin \/ CurrentPinRefused
    BY <1>5, FailIsIdle, FinishIsIdle, EndedIsVerified
    DEF DeclineNewPin, CannotSetPin, CurrentPinRefused
<1>6. CASE EvictRecord
    BY <1>6, FinishIsIdle, EndedIsVerified DEF EvictRecord
<1> QED
    BY <1>1, <1>2, <1>3, <1>4, <1>5, <1>6 DEF ChangingPin

LEMMA VerifiedSafety == Spec => []VerifiedSafe
<1>1. Init => VerifiedSafe
    BY EndedIsVerified DEF Init, VerifiedSafe, PinStaysSet, LoopIsProtected,
       InLoop, SecretOnlyWhenBlocked, ReadyIsVerified
<1>2. TypeOK /\ ReuseSafe /\ MintSafe /\ VerifiedSafe /\ [Next]_vars
        => VerifiedSafe'
  <2> SUFFICES ASSUME TypeOK, ReuseSafe, MintSafe, VerifiedSafe, [Next]_vars
               PROVE  VerifiedSafe'
      OBVIOUS
  <2> USE DEF VerifiedSafe, PinStaysSet, LoopIsProtected, InLoop,
              SecretOnlyWhenBlocked, ReadyIsVerified, Required
  <2>1. CASE \E r \in Requests : Start(r)
      BY <2>1 DEF Start, Goto, localVars
  <2>2. CASE Environment
    <3>1. CASE UNCHANGED <<info, pc, req, wire, after, op, blocked>>
        BY <2>2, <3>1, EnvironmentLosesTokens
        DEF is_uv_protected, CarriesVerification
    <3> QED
        BY <2>2, <3>1, EnvironmentStays, EndedIsVerified DEF localVars
  <2>3. CASE UNCHANGED vars
      BY <2>3 DEF vars, is_uv_protected, CarriesVerification
  <2> QED
      BY <2>1, <2>2, <2>3, NextCases, ChoosingKeepsVerified,
         VerifyingKeepsVerified, SendingKeepsVerified, ChangingPinKeepsVerified
      DEF ReuseSafe, MintSafe
<1> QED
    BY <1>1, <1>2, TypeCorrect, ReuseSafety, MintSafety, PTL DEF Spec

(***************************************************************************)
(* A request for which verification is required goes out without any only  *)
(* if built-in UV was blocked while the command ran: no other path of the  *)
(* helper, its loop or its retries drops the requirement.                  *)
(***************************************************************************)
THEOREM UnverifiedNeedsBlock == Spec => []UnverifiedOnlyWhenBlocked
<1>1. VerifiedSafe => UnverifiedOnlyWhenBlocked
    BY DEF VerifiedSafe, ReadyIsVerified, Required, UnverifiedOnlyWhenBlocked
<1> QED
    BY <1>1, VerifiedSafety, PTL

-----------------------------------------------------------------------------
(***************************************************************************)
(* Stored tokens.  The parameter of a refused attempt is still in the      *)
(* request while the next one is made, so the invariant holds everywhere.  *)
(***************************************************************************)
ReadsOnly == req.kind = "cm" /\ req.readOnly

StoreSafe == wire.param.from = "store" => ReadsOnly

LEMMA ParamKept ==
    ASSUME StoreSafe, wire'.param = wire.param, req' = req
    PROVE  StoreSafe'
    BY DEF StoreSafe, ReadsOnly

LEMMA UvOptionKeepsParam ==
    ASSUME TypeOK PROVE ensure_uv_set.param = wire.param
    BY DEF ensure_uv_set, TypeOK, CommandTyped, WireType

LEMMA ChoosingKeepsStoreSafe ==
    ASSUME TypeOK, StoreSafe, Choosing
    PROVE  StoreSafe'
<1> USE DEF localVars
<1>1. CASE ReusePersistent
    BY <1>1 DEF ReusePersistent, MayReusePersistent, set_persistent_token_use,
                StoreSafe, ReadsOnly
<1>2. CASE ReuseEphemeral
  <2>1. wire'.param.from = "cache"
      BY <1>2 DEF ReuseEphemeral, calculate_and_set_uv_auth, TypeOK, CommandTyped,
                  WireType
  <2> QED
      BY <2>1 DEF StoreSafe
<1>3. CASE UseLegacyUv
    BY <1>3, ParamKept, UvOptionKeepsParam DEF UseLegacyUv
<1>4. CASE ChooseOperation
  <2>1. wire' \in {ensure_uv_set, wire} /\ req' = req
      BY <1>4, Zenon DEF ChooseOperation, Fail
  <2> QED
      BY <2>1, ParamKept, UvOptionKeepsParam
<1>5. CASE \/ FetchInfo \/ EnterHelper \/ TryToSetPin \/ WithoutPinToSet
           \/ SkipVerification \/ EnterLoop \/ ForcePinChange \/ LoopAgain
    BY <1>5, ParamKept
    DEF FetchInfo, EnterHelper, TryToSetPin, WithoutPinToSet, SkipVerification,
        EnterLoop, ForcePinChange, LoopAgain
<1>6. CASE Recheck \/ NoOperation \/ ForbiddenForClientPin
    BY <1>6, ParamKept DEF Recheck, NoOperation, ForbiddenForClientPin, Fail
<1> QED
    BY <1>1, <1>2, <1>3, <1>4, <1>5, <1>6 DEF Choosing

LEMMA VerifyingKeepsStoreSafe ==
    ASSUME TypeOK, StoreSafe, Verifying
    PROVE  StoreSafe'
<1>1. CASE PackageToken
  <2>1. CASE set_persistent_token_use(req, info)
      BY <1>1, <2>1 DEF PackageToken, set_persistent_token_use, StoreSafe, ReadsOnly
  <2>2. CASE ~set_persistent_token_use(req, info)
    <3>1. wire'.param.from = "fresh"
        BY <1>1, <2>2 DEF PackageToken, calculate_and_set_uv_auth, TypeOK,
                          CommandTyped, WireType
    <3> QED
        BY <3>1 DEF StoreSafe
  <2> QED
      BY <2>1, <2>2
<1>2. CASE ~PackageToken
    BY <1>2, ParamKept
    DEF Verifying, EnterPin, CancelPin, ObtainSharedSecret, GrantToken, RefusePin,
        RefuseUv, AskUvRetries, Fail
<1> QED
    BY <1>1, <1>2

LEMMA SendingKeepsStoreSafe ==
    ASSUME TypeOK, StoreSafe, Sending
    PROVE  StoreSafe'
<1>1. CASE PrepareSend
  <2>1. wire' \in {calculate_hmac, calculate_hmac_secret_mc, wire} /\ req' = req
      BY <1>1, Zenon DEF PrepareSend
  <2>2. wire'.param = wire.param
      BY <2>1 DEF calculate_hmac, calculate_hmac_secret_mc, TypeOK, CommandTyped,
                  WireType
  <2> QED
      BY <2>1, <2>2, ParamKept
<1>2. CASE ~PrepareSend
    BY <1>2, ParamKept
    DEF Sending, Accept, RetryWithoutCache, RetryWithoutRecord, RejectFresh,
        OtherError, TransportError, Fail
<1> QED
    BY <1>1, <1>2

(***************************************************************************)
(* The token of a stored record, minted or recognised, goes out with       *)
(* credential management commands that change nothing.                     *)
(***************************************************************************)
THEOREM StoredTokensOnlyRead == Spec => []StoredTokenOnlyReads
<1>1. Init => StoreSafe
    BY DEF Init, StoreSafe, NoWire, NoParam
<1>2. TypeOK /\ StoreSafe /\ [Next]_vars => StoreSafe'
  <2> SUFFICES ASSUME TypeOK, StoreSafe, [Next]_vars PROVE StoreSafe'
      OBVIOUS
  <2>1. CASE \E r \in Requests : Start(r)
      BY <2>1 DEF Start, StoreSafe, NoWire, NoParam
  <2>2. CASE ChangingPin
      BY <2>2, ChangingPinStays, ParamKept
  <2>3. CASE Environment
    <3>1. wire' = wire /\ req' = req
        BY <2>3 DEF Environment, PowerCycle, TokenExpires, ForeignPinChange,
                    ForeignForceChange, Crash, DeviceOnly
    <3> QED
        BY <3>1, ParamKept
  <2>4. CASE UNCHANGED vars
      BY <2>4, ParamKept DEF vars
  <2> QED
      BY <2>1, <2>2, <2>3, <2>4, NextCases, ChoosingKeepsStoreSafe,
         VerifyingKeepsStoreSafe, SendingKeepsStoreSafe
<1>3. StoreSafe => StoredTokenOnlyReads
    BY DEF StoreSafe, ReadsOnly, StoredTokenOnlyReads
<1> QED
    BY <1>1, <1>2, <1>3, TypeCorrect, PTL DEF Spec

-----------------------------------------------------------------------------
(* Deleting from a store that keeps its promises leaves one record still.  *)
LEMMA DeletingKeepsOne ==
    ASSUME ~LossyStore, OneRecordPerDevice, NEW gone,
           store' \in StoreAfterDelete(gone)
    PROVE  OneRecordPerDevice'
    BY DEF StoreAfterDelete, OneRecordPerDevice

LEMMA MintingKeepsOne ==
    ASSUME ~LossyStore, OneRecordPerDevice, store' \in store_minted_token(got)
    PROVE  OneRecordPerDevice'
<1> DEFINE ident == IF info.gen = got THEN "device" ELSE "garbage"
           record == [id |-> n.rec + 1, gen |-> got, ident |-> ident]
<1>1. store' = (store \ reap_superseded_records(ident)) \cup {record}
    BY DEF store_minted_token, StoreAfterDelete
<1>2. record.ident = ident
    OBVIOUS
<1> HIDE DEF record
<1>3. CASE ident = "device"
    BY <1>1, <1>2, <1>3 DEF reap_superseded_records, OneRecordPerDevice
<1>4. CASE ident # "device"
    BY <1>1, <1>2, <1>4 DEF reap_superseded_records, OneRecordPerDevice
<1> QED
    BY <1>3, <1>4

(***************************************************************************)
(* Over a store that does what it says, there is one record per device,    *)
(* whoever changes the PIN between the grant and the minting.              *)
(***************************************************************************)
THEOREM RecordsAreSuperseded ==
    ASSUME ~LossyStore
    PROVE  Spec => []OneRecordPerDevice
<1>1. Init => OneRecordPerDevice
    BY DEF Init, OneRecordPerDevice
<1>2. OneRecordPerDevice /\ [Next]_vars => OneRecordPerDevice'
  <2> SUFFICES ASSUME OneRecordPerDevice, [Next]_vars PROVE OneRecordPerDevice'
      OBVIOUS
  <2>1. CASE PackageToken
    <3>1. CASE Persist
        BY <3>1, MintingKeepsOne DEF Persist
    <3>2. CASE Cache
        BY <3>2 DEF Cache, OneRecordPerDevice
    <3> QED
        BY <2>1, <3>1, <3>2 DEF PackageToken
  <2>2. CASE RetryWithoutRecord \/ EvictRecord
      BY <2>2, DeletingKeepsOne DEF RetryWithoutRecord, EvictRecord
  <2>3. CASE store' = store
      BY <2>3 DEF OneRecordPerDevice
  <2>4. CASE Choosing
      BY <2>3, <2>4
      DEF Choosing, FetchInfo, ReusePersistent, ReuseEphemeral, EnterHelper,
          TryToSetPin, Recheck, WithoutPinToSet, SkipVerification, EnterLoop,
          NoOperation, UseLegacyUv, ForbiddenForClientPin, ForcePinChange,
          ChooseOperation, LoopAgain, Fail, platformVars
  <2>5. CASE Verifying
      BY <2>1, <2>3, <2>5
      DEF Verifying, EnterPin, CancelPin, ObtainSharedSecret, GrantToken,
          RefusePin, RefuseUv, AskUvRetries, Fail
  <2>6. CASE Sending
      BY <2>2, <2>3, <2>6
      DEF Sending, PrepareSend, Accept, RetryWithoutCache, RejectFresh,
          OtherError, TransportError, Fail
  <2>7. CASE ChangingPin
      BY <2>2, <2>3, <2>7
      DEF ChangingPin, TakeNewPin, RefuseNewPin, DeclineNewPin, CannotSetPin,
          EnterCurrentPin, ObtainSecretForPin, SetPin, PinPolicyViolation,
          CurrentPinRefused, Fail
  <2>8. CASE Environment
      BY <2>3, <2>8
      DEF Environment, PowerCycle, TokenExpires, ForeignPinChange,
          ForeignForceChange, Crash, DeviceOnly, platformVars
  <2>9. CASE UNCHANGED vars \/ \E r \in Requests : Start(r)
      BY <2>3, <2>9 DEF vars, Start
  <2> QED
      BY <2>4, <2>5, <2>6, <2>7, <2>8, <2>9, NextCases
<1> QED
    BY <1>1, <1>2, PTL DEF Spec

-----------------------------------------------------------------------------
(***************************************************************************)
(* The PRF input of an assertion.  RetryWithoutCache forgets the channel's *)
(* secret and leaves in the request what was encrypted under it.  It is    *)
(* not sent again because every way on obtains another secret first: PRF   *)
(* input requires verification, so that verification is not skipped, and   *)
(* the one operation that needs no secret, legacy built-in UV, belongs to  *)
(* authenticators that never issue a token for an assertion.               *)
(***************************************************************************)
ProfileFixed == dev'.profile = dev.profile

LEMMA ProfilesAreFixed ==
    ASSUME TypeOK, [Next]_vars
    PROVE  ProfileFixed
<1> USE DEF ProfileFixed
<1>1. CASE \E r \in Requests : Start(r)
    BY <1>1 DEF Start
<1>2. CASE Choosing
    BY <1>2
    DEF Choosing, FetchInfo, ReusePersistent, ReuseEphemeral, EnterHelper,
        TryToSetPin, Recheck, WithoutPinToSet, SkipVerification, EnterLoop,
        NoOperation, UseLegacyUv, ForbiddenForClientPin, ForcePinChange,
        ChooseOperation, LoopAgain, Fail, devVars
<1>3. CASE Verifying
  <2> USE DEF TypeOK, WorldTyped, DeviceType
  <2>1. CASE GrantToken
      BY <2>1, Granted
  <2>2. CASE RefusePin \/ RefuseUv
      BY <2>2 DEF RefusePin, RefuseUv
  <2>3. CASE dev' = dev
      BY <2>3
  <2> QED
      BY <1>3, <2>1, <2>2, <2>3
      DEF Verifying, EnterPin, CancelPin, ObtainSharedSecret, AskUvRetries,
          PackageToken, Fail
<1>4. CASE Sending
    BY <1>4
    DEF Sending, PrepareSend, Accept, RetryWithoutCache, RetryWithoutRecord,
        RejectFresh, OtherError, TransportError, Fail
<1>5. CASE ChangingPin
    BY <1>5, ChangingPinLosesTokens
<1>6. CASE Environment
    BY <1>6, EnvironmentLosesTokens
<1>7. CASE UNCHANGED vars
    BY <1>7 DEF vars
<1> QED
    BY <1>1, <1>2, <1>3, <1>4, <1>5, <1>6, <1>7, NextCases

(* Built-in UV without pinUvAuthTokens. *)
LegacyOnly == enabled(dev.profile.uv) /\ ~enabled(dev.profile.pinUvAuthToken)

(* Such an authenticator issues tokens for its management only. *)
LegacySafe ==
    LegacyOnly =>
        /\ ~blocked
        /\ pc # "uvRetries"
        /\ pc \in {"waitPin", "keyAgree", "getToken"} =>
              /\ op # "UvToken"
              /\ op \in PinOperations => req.kind \notin WebAuthnKinds
        /\ pc = "package" => req.kind \notin WebAuthnKinds
        /\ auth.tok # 0 => auth.perms \cap WebAuthnKinds = {}

LEMMA ManagementScope ==
    ASSUME NEW r \in RequestType, NEW i \in InfoType, r.kind \notin WebAuthnKinds
    PROVE  permissions(r, i) \cap WebAuthnKinds = {}
    BY DEF permissions, WebAuthnKinds

LEMMA LegacyChoice ==
    ASSUME TypeOK, ProfileKnown, LegacyOnly, ~blocked
    PROVE  /\ Chosen # "UvToken"
           /\ req.kind \in WebAuthnKinds => Chosen \notin PinOperations
<1>1. enabled(info.profile.uv) /\ ~enabled(info.profile.pinUvAuthToken)
    BY DEF LegacyOnly, ProfileKnown
<1>2. Offered # "UvToken"
  <2>1. info.clientPin \in Option
      BY DEF TypeOK, LocalsTyped, InfoType
  <2> QED
      BY <1>1, <2>1 DEF Offered, uv_operation, enabled, Option
<1>3. Downgraded # "UvToken"
    BY <1>2 DEF Downgraded
<1>4. CASE req.kind \in WebAuthnKinds
  <2>1. UvUnavailable = FALSE
      BY <1>4 DEF UvUnavailable, can_use_uv, WebAuthnKinds
  <2>2. Offered = "LegacyUv"
      BY <1>1, <2>1 DEF Offered, uv_operation
  <2>3. Chosen = "LegacyUv"
      BY <2>2 DEF Chosen, Downgraded, enforce_no_mc_ga_with_client_pin,
                  PinOperations
  <2> QED
      BY <2>3 DEF PinOperations
<1>5. CASE req.kind \notin WebAuthnKinds
  <2>1. permissions(req, info) \cap {"mc", "ga"} = {}
      BY <1>5, ManagementScope DEF TypeOK, CommandTyped, LocalsTyped, WebAuthnKinds
  <2>2. Chosen = Downgraded
      BY <2>1 DEF Chosen, enforce_no_mc_ga_with_client_pin
  <2> QED
      BY <1>3, <1>5, <2>2
<1> QED
    BY <1>4, <1>5

LEMMA ChoosingKeepsLegacy ==
    ASSUME TypeOK, ProfileKnown, ProfileFixed, LegacySafe, Choosing
    PROVE  LegacySafe'
<1>1. LegacyOnly' = LegacyOnly
    BY DEF ProfileFixed, LegacyOnly
<1> USE <1>1 DEF LegacySafe, Goto, localVars, platformVars
<1>2. CASE \/ FetchInfo \/ EnterHelper \/ TryToSetPin \/ WithoutPinToSet
           \/ EnterLoop \/ ForcePinChange \/ LoopAgain \/ ReusePersistent
           \/ ReuseEphemeral \/ SkipVerification \/ UseLegacyUv
    BY <1>2
    DEF FetchInfo, EnterHelper, TryToSetPin, WithoutPinToSet, EnterLoop,
        ForcePinChange, LoopAgain, ReusePersistent, ReuseEphemeral,
        SkipVerification, UseLegacyUv
<1>3. CASE Recheck \/ NoOperation \/ ForbiddenForClientPin
    BY <1>3 DEF Recheck, NoOperation, ForbiddenForClientPin, Fail, Finish,
                ClearLocals
<1>4. CASE ChooseOperation
  <2>1. CASE info.profile.proto
      BY <1>4, <2>1, LegacyChoice DEF ChooseOperation, FirstStepOf
  <2> QED
      BY <1>4, <2>1 DEF ChooseOperation, Fail, Finish, ClearLocals
<1> QED
    BY <1>2, <1>3, <1>4 DEF Choosing

LEMMA VerifyingKeepsLegacy ==
    ASSUME TypeOK, Choosable, ProfileFixed, LegacySafe, Verifying
    PROVE  LegacySafe'
<1>1. LegacyOnly' = LegacyOnly
    BY DEF ProfileFixed, LegacyOnly
<1> USE <1>1 DEF LegacySafe, Goto
<1>2. CASE EnterPin
    BY <1>2 DEF EnterPin, AfterPin
<1>3. CASE CancelPin \/ RefusePin
    BY <1>3 DEF CancelPin, RefusePin, Fail, Finish, ClearLocals
<1>4. CASE ObtainSharedSecret
    BY <1>4 DEF ObtainSharedSecret, NoAuth
<1>5. CASE GrantToken
    BY <1>5 DEF GrantToken, Choosable
<1>6. CASE RefuseUv
    BY <1>6 DEF RefuseUv
<1>7. CASE AskUvRetries
    BY <1>7 DEF AskUvRetries, Fail, Finish, ClearLocals
<1>8. CASE PackageToken
  <2>1. /\ pc = "package" /\ pc' = "extend" /\ UNCHANGED <<req, blocked>>
        /\ auth' = auth \/ auth'.perms = permissions(req, info)
      BY <1>8 DEF PackageToken, Persist, Cache, CachedScope, Scope, localVars
  <2>2. req.kind \notin WebAuthnKinds =>
          permissions(req, info) \cap WebAuthnKinds = {}
      BY ManagementScope DEF TypeOK, CommandTyped, LocalsTyped
  <2> QED
      BY <2>1, <2>2
<1> QED
    BY <1>2, <1>3, <1>4, <1>5, <1>6, <1>7, <1>8 DEF Verifying

LEMMA SendingKeepsLegacy ==
    ASSUME ProfileFixed, LegacySafe, Sending
    PROVE  LegacySafe'
<1>1. LegacyOnly' = LegacyOnly
    BY DEF ProfileFixed, LegacyOnly
<1>2. /\ pc' \in {"send", "info", "idle"}
      /\ ~blocked => ~blocked'
      /\ auth' \in {auth, NoAuth}
    BY DEF Sending, PrepareSend, Accept, RetryWithoutCache, RetryWithoutRecord,
           clear_uv_auth_token_store, RejectFresh, OtherError, TransportError,
           Goto, Fail, Finish, ClearLocals, localVars
<1> QED
    BY <1>1, <1>2 DEF LegacySafe, NoAuth

LEMMA LegacySafety == Spec => []LegacySafe
<1>1. Init => LegacySafe
    BY DEF Init, LegacySafe, NoAuth
<1>2. TypeOK /\ ReuseSafe /\ MintSafe /\ LegacySafe /\ [Next]_vars => LegacySafe'
  <2> SUFFICES ASSUME TypeOK, ReuseSafe, MintSafe, LegacySafe, [Next]_vars
               PROVE  LegacySafe'
      OBVIOUS
  <2>1. ProfileFixed /\ LegacyOnly' = LegacyOnly
      BY ProfilesAreFixed DEF ProfileFixed, LegacyOnly
  <2> USE DEF LegacySafe
  <2>2. CASE \E r \in Requests : Start(r)
      BY <2>1, <2>2 DEF Start, Goto, localVars
  <2>3. CASE ChangingPin
    <3>1. ~blocked => ~blocked'
        BY <2>3
        DEF ChangingPin, TakeNewPin, RefuseNewPin, DeclineNewPin, CannotSetPin,
            EnterCurrentPin, ObtainSecretForPin, SetPin, PinPolicyViolation,
            CurrentPinRefused, EvictRecord, Fail, Finish, ClearLocals, localVars
    <3> QED
        BY <2>1, <2>3, <3>1, ChangingPinStays
  <2>4. CASE Environment
    <3>1. CASE Crash
        BY <2>1, <3>1 DEF Crash, Finish, ClearLocals, NoAuth
    <3>2. CASE DeviceOnly
        BY <2>1, <3>2 DEF DeviceOnly, localVars, platformVars
    <3> QED
        BY <2>4, <3>1, <3>2
        DEF Environment, PowerCycle, TokenExpires, ForeignPinChange,
            ForeignForceChange
  <2>5. CASE UNCHANGED vars
      BY <2>1, <2>5 DEF vars
  <2> QED
      BY <2>1, <2>2, <2>3, <2>4, <2>5, NextCases, ChoosingKeepsLegacy,
         VerifyingKeepsLegacy, SendingKeepsLegacy DEF ReuseSafe, MintSafe
<1> QED
    BY <1>1, <1>2, TypeCorrect, ReuseSafety, MintSafety, PTL DEF Spec

-----------------------------------------------------------------------------
(***************************************************************************)
(* What is known of PRF input while a command runs.                        *)
(***************************************************************************)
PrfForcesVerification == \A r \in Requests : r.hmac => r.uv = "required"

HoldsInput == req.kind = "ga" /\ wire.ext # NoSecret

InputIsBound ==
    HoldsInput =>
        /\ req.hmac
        /\ pc \notin {"idle", "send"} => ~LegacyOnly
        /\ pc = "extend" => auth # NoAuth
        /\ pc = "send" => wire.ext = auth.ss

(* The cached token that was reused for an assertion was issued for one.   *)
ReusedIsNotLegacy ==
    req.kind = "ga" /\ pc \in {"extend", "send"} /\ used = "ephemeral"
        => ~LegacyOnly

InputSafe ==
    /\ req.hmac => req.uv = "required"
    /\ wire.ext # NoSecret => req.kind \in WebAuthnKinds
    /\ InputIsBound
    /\ ReusedIsNotLegacy

(* A step that does not bring the request nearer to being sent.            *)
LEMMA ElsewhereKeepsInput ==
    ASSUME InputSafe, ProfileFixed, req' = req, wire'.ext = wire.ext,
           pc' \notin {"extend", "send"}, pc \notin {"idle", "send"} \/ pc' = "idle"
    PROVE  InputSafe'
<1>1. LegacyOnly' = LegacyOnly
    BY DEF ProfileFixed, LegacyOnly
<1> QED
    BY <1>1 DEF InputSafe, InputIsBound, ReusedIsNotLegacy, HoldsInput, NoSecret

LEMMA InputIsProtected ==
    ASSUME InputSafe, HoldsInput, VerifiedSafe, InLoop
    PROVE  ~MaySkipVerification
<1>1. Required
    BY DEF InputSafe, InputIsBound, HoldsInput, Required, WebAuthnKinds
<1> QED
    BY <1>1, RequiredIsNotSkipped DEF VerifiedSafe, LoopIsProtected

LEMMA ReuseKeepsInput ==
    ASSUME TypeOK, ReuseSafe, LegacySafe, ProfileFixed, InputSafe,
           ReusePersistent \/ ReuseEphemeral
    PROVE  InputSafe'
<1>1. LegacyOnly' = LegacyOnly
    BY DEF ProfileFixed, LegacyOnly
<1>2. /\ pc = "lookup" /\ pc' = "extend" /\ req' = req /\ auth' = auth
      /\ wire'.ext = wire.ext
    BY DEF ReusePersistent, ReuseEphemeral, calculate_and_set_uv_auth, Goto,
           TypeOK, CommandTyped, WireType
<1>3. CASE ReusePersistent
  <2>1. req.kind = "cm"
      BY <1>3 DEF ReusePersistent, MayReusePersistent, set_persistent_token_use
  <2> QED
      BY <1>1, <1>2, <2>1
      DEF InputSafe, InputIsBound, ReusedIsNotLegacy, HoldsInput, NoSecret
<1>4. CASE ReuseEphemeral
  <2>1. auth # NoAuth
      BY <1>4 DEF ReuseEphemeral, get_uv_auth_token, NoAuth
  <2>2. req.kind = "ga" => "ga" \in permissions(req, info)
      BY DEF permissions
  <2>3. permissions(req, info) \subseteq auth.perms
      BY <1>4 DEF ReuseEphemeral, get_uv_auth_token, contains, Scope
  <2>4. req.kind = "ga" => ~LegacyOnly
      BY <1>4, <2>2, <2>3
      DEF LegacySafe, ReuseEphemeral, get_uv_auth_token, WebAuthnKinds
  <2> QED
      BY <1>1, <1>2, <2>1, <2>4
      DEF InputSafe, InputIsBound, ReusedIsNotLegacy, HoldsInput, NoSecret
<1> QED
    BY <1>3, <1>4

LEMMA ChoosingKeepsInput ==
    ASSUME TypeOK, ReuseSafe, LegacySafe, VerifiedSafe, ProfileFixed, InputSafe,
           Choosing
    PROVE  InputSafe'
<1> USE DEF Goto, devVars, platformVars
<1>1. CASE \/ FetchInfo \/ EnterHelper \/ TryToSetPin \/ WithoutPinToSet
           \/ EnterLoop \/ ForcePinChange \/ LoopAgain
    BY <1>1, ElsewhereKeepsInput
    DEF FetchInfo, EnterHelper, TryToSetPin, WithoutPinToSet, EnterLoop,
        ForcePinChange, LoopAgain
<1>2. CASE Recheck \/ NoOperation \/ ForbiddenForClientPin
    BY <1>2, ElsewhereKeepsInput
    DEF Recheck, NoOperation, ForbiddenForClientPin, Fail, Finish
<1>3. CASE ChooseOperation
  <2>1. wire'.ext = wire.ext
      BY <1>3 DEF ChooseOperation, ensure_uv_set, Fail, TypeOK, CommandTyped,
                  WireType
  <2> QED
      BY <1>3, <2>1, ElsewhereKeepsInput
      DEF ChooseOperation, FirstStepOf, Fail, Finish
<1>4. CASE SkipVerification
  <2>1. /\ pc' = "extend" /\ used' = "none" /\ UNCHANGED <<req, wire>>
        /\ ~HoldsInput
      BY <1>4, InputIsProtected DEF SkipVerification, InLoop
  <2> QED
      BY <2>1 DEF InputSafe, InputIsBound, ReusedIsNotLegacy, HoldsInput, NoSecret
<1>5. CASE UseLegacyUv
  <2>1. LegacyOnly
    <3>1. info.clientPin \in Option
        BY DEF TypeOK, LocalsTyped, InfoType
    <3>2. enabled(info.profile.uv) /\ ~enabled(info.profile.pinUvAuthToken)
        BY <1>5, <3>1 DEF UseLegacyUv, LegacyUvSuffices, Offered, uv_operation,
                          enabled, Option
    <3> QED
        BY <3>2 DEF LegacyOnly, ReuseSafe, ProfileKnown
  <2>2. ~HoldsInput
      BY <1>5, <2>1 DEF InputSafe, InputIsBound, UseLegacyUv
  <2>3. /\ pc' = "extend" /\ used' = "legacyUv" /\ req' = req
        /\ wire'.ext = wire.ext
      BY <1>5 DEF UseLegacyUv, ensure_uv_set, TypeOK, CommandTyped, WireType
  <2> QED
      BY <2>2, <2>3
      DEF InputSafe, InputIsBound, ReusedIsNotLegacy, HoldsInput, NoSecret
<1> QED
    BY <1>1, <1>2, <1>3, <1>4, <1>5, ReuseKeepsInput DEF Choosing

LEMMA VerifyingKeepsInput ==
    ASSUME TypeOK, ReuseSafe, CacheSafe, ProfileFixed, InputSafe, Verifying
    PROVE  InputSafe'
<1> USE DEF Goto
<1>1. CASE EnterPin \/ GrantToken \/ RefuseUv
    BY <1>1, ElsewhereKeepsInput DEF EnterPin, AfterPin, GrantToken, RefuseUv
<1>2. CASE CancelPin \/ RefusePin \/ AskUvRetries
    BY <1>2, ElsewhereKeepsInput DEF CancelPin, RefusePin, AskUvRetries, Fail, Finish
<1>3. CASE ObtainSharedSecret
  <2>1. CASE op \in {"OnlyForSharedSecret", "LegacyUv"}
    <3>1. auth'.ss.id = n.ss + 1 /\ n.ss + 1 # 0
        BY <1>3, <2>1
        DEF ObtainSharedSecret, NewSecret, NoAuth, TypeOK, WorldTyped
    <3>2. auth' # NoAuth
        BY <3>1 DEF NoAuth, NoSecret
    <3>3. /\ pc = "keyAgree" /\ pc' = "extend" /\ UNCHANGED <<dev, req, wire>>
          /\ used' # "ephemeral"
        BY <1>3, <2>1 DEF ObtainSharedSecret
    <3> QED
        BY <3>2, <3>3
        DEF InputSafe, InputIsBound, ReusedIsNotLegacy, HoldsInput, NoSecret,
            LegacyOnly
  <2> QED
      BY <1>3, <2>1, ElsewhereKeepsInput DEF ObtainSharedSecret
<1>4. CASE PackageToken
  <2>1. /\ pc = "package" /\ pc' = "extend" /\ UNCHANGED <<dev, req>>
        /\ wire'.ext = wire.ext /\ used' # "ephemeral"
      BY <1>4 DEF PackageToken, calculate_and_set_uv_auth, TypeOK, CommandTyped,
                  WireType
  <2>2. req.kind = "ga" => auth' # NoAuth
    <3> SUFFICES ASSUME req.kind = "ga" PROVE auth' # NoAuth
        OBVIOUS
    <3>1. permissions(req, info) # {"pcmr"}
        BY DEF permissions
    <3>2. got # 0
        BY <2>1, <3>1 DEF CacheSafe, GotIsGranted
    <3>3. auth'.tok = got
        BY <1>4 DEF PackageToken, Cache, set_persistent_token_use
    <3> QED
        BY <3>2, <3>3 DEF NoAuth
  <2> QED
      BY <2>1, <2>2
      DEF InputSafe, InputIsBound, ReusedIsNotLegacy, HoldsInput, NoSecret,
          LegacyOnly
<1> QED
    BY <1>1, <1>2, <1>3, <1>4 DEF Verifying

LEMMA SendingKeepsInput ==
    ASSUME TypeOK, ReuseSafe, ProfileFixed, InputSafe, Sending
    PROVE  InputSafe'
<1> USE DEF Goto
<1>1. CASE PrepareSend
  <2>1. /\ pc = "extend" /\ pc' = "send" /\ UNCHANGED <<dev, req, auth, used>>
        /\ req.kind = "ga" => wire' = calculate_hmac
        /\ req.kind \notin WebAuthnKinds => wire' = wire
      BY <1>1 DEF PrepareSend, WebAuthnKinds
  <2>2. /\ wire.ext \in SecretType
        /\ calculate_hmac.ext =
             IF req.hmac /\ auth # NoAuth THEN auth.ss ELSE wire.ext
      BY DEF calculate_hmac, TypeOK, CommandTyped, WireType
  <2>3. HoldsInput' => req.hmac /\ wire'.ext = auth.ss
      BY <2>1, <2>2 DEF InputSafe, InputIsBound, HoldsInput, NoSecret
  <2> QED
      BY <2>1, <2>3
      DEF InputSafe, InputIsBound, ReusedIsNotLegacy, HoldsInput, NoSecret,
          LegacyOnly, WebAuthnKinds
<1>2. CASE RetryWithoutCache
    BY <1>2
    DEF RetryWithoutCache, RejectsAuth, EvictsCache, InputSafe, InputIsBound,
        ReusedIsNotLegacy, HoldsInput, NoSecret, LegacyOnly
<1>3. CASE RetryWithoutRecord
  <2>1. req.kind = "cm"
      BY <1>3
      DEF RetryWithoutRecord, RejectsAuth, EvictsRecord, ReuseSafe, ReuseFits,
          Persistent, set_persistent_token_use
  <2> QED
      BY <1>3, <2>1
      DEF RetryWithoutRecord, InputSafe, InputIsBound, ReusedIsNotLegacy,
          HoldsInput, NoSecret
<1>4. CASE Accept \/ RejectFresh \/ OtherError \/ TransportError
    BY <1>4, ElsewhereKeepsInput
    DEF Accept, RejectFresh, OtherError, TransportError, Fail, Finish
<1> QED
    BY <1>1, <1>2, <1>3, <1>4 DEF Sending

(***************************************************************************)
(* When PRF input makes verification required, as the WebAuthn layer does  *)
(* (webauthn.rs, prf_forces_uv_upgrade), an assertion's input goes out     *)
(* under the secret its output will be decrypted with, on a retry as on    *)
(* the first attempt.  For makeCredential it does not: its input is        *)
(* consumed by the first attempt (the run of UserVerificationPrf.cfg).     *)
(***************************************************************************)
THEOREM AssertionInputsAreFresh ==
    ASSUME PrfForcesVerification
    PROVE  Spec => [](req.kind # "mc" => ExtensionUnderChannelSecret)
<1>1. Init => InputSafe
    BY DEF Init, InputSafe, InputIsBound, ReusedIsNotLegacy, HoldsInput,
           NoRequest, NoWire, NoSecret
<1>2. /\ TypeOK /\ ReuseSafe /\ CacheSafe /\ VerifiedSafe /\ LegacySafe
      /\ InputSafe /\ [Next]_vars
      => InputSafe'
  <2> SUFFICES ASSUME TypeOK, ReuseSafe, CacheSafe, VerifiedSafe, LegacySafe,
                      InputSafe, [Next]_vars
               PROVE  InputSafe'
      OBVIOUS
  <2>1. ProfileFixed
      BY ProfilesAreFixed
  <2>2. CASE \E r \in Requests : Start(r)
      BY <2>2
      DEF Start, Goto, NoWire, NoSecret, PrfForcesVerification, InputSafe,
          InputIsBound, ReusedIsNotLegacy, HoldsInput
  <2>3. CASE ChangingPin
    <3>1. pc \notin {"idle", "send"}
        BY <2>3
        DEF ChangingPin, TakeNewPin, RefuseNewPin, DeclineNewPin, CannotSetPin,
            EnterCurrentPin, ObtainSecretForPin, SetPin, PinPolicyViolation,
            CurrentPinRefused, EvictRecord
    <3> QED
        BY <2>1, <2>3, <3>1, ChangingPinStays, ElsewhereKeepsInput
  <2>4. CASE Environment
    <3>1. CASE Crash
        BY <2>1, <3>1, ElsewhereKeepsInput DEF Crash, Finish
    <3>2. CASE DeviceOnly
        BY <2>1, <3>2
        DEF DeviceOnly, platformVars, ProfileFixed, LegacyOnly, InputSafe,
            InputIsBound, ReusedIsNotLegacy, HoldsInput, NoSecret
    <3> QED
        BY <2>4, <3>1, <3>2
        DEF Environment, PowerCycle, TokenExpires, ForeignPinChange,
            ForeignForceChange
  <2>5. CASE UNCHANGED vars
      BY <2>5 DEF vars, LegacyOnly, InputSafe, InputIsBound, ReusedIsNotLegacy,
                  HoldsInput, NoSecret
  <2> QED
      BY <2>1, <2>2, <2>3, <2>4, <2>5, NextCases, ChoosingKeepsInput,
         VerifyingKeepsInput, SendingKeepsInput
<1>3. InputSafe => (req.kind # "mc" => ExtensionUnderChannelSecret)
    BY DEF InputSafe, InputIsBound, HoldsInput, ExtensionUnderChannelSecret,
           WebAuthnKinds
<1> QED
    BY <1>1, <1>2, <1>3, TypeCorrect, ReuseSafety, CacheSafety, VerifiedSafety,
       LegacySafety, PTL DEF Spec

=============================================================================
