--------------------------- MODULE Management_proofs ---------------------------
(***************************************************************************)
(* Proofs about Management, for any credentials, relying parties and       *)
(* fingerprints, authenticators of any kind, and any number of commands,   *)
(* failures and other clients.                                             *)
(***************************************************************************)
EXTENDS Management, FiniteSetTheorems, TLAPS

-------------------------------------------------------------------------------
(* Lemmas about sequences.                                                 *)

LEMMA Split ==
    ASSUME NEW S, NEW s \in Seq(S), s # <<>>
    PROVE  /\ Head(s) \in S /\ Tail(s) \in Seq(S) /\ Len(Tail(s)) = Len(s) - 1
           /\ ToSet(s) = {Head(s)} \cup ToSet(Tail(s))
<1>1. /\ Len(s) \in Nat \ {0} /\ DOMAIN s = 1..Len(s) /\ Head(s) = s[1]
      /\ Tail(s) \in Seq(S) /\ Len(Tail(s)) = Len(s) - 1
      /\ DOMAIN Tail(s) = 1..(Len(s) - 1)
      /\ \A i \in 1..(Len(s) - 1) : Tail(s)[i] = s[i + 1]
    OBVIOUS
<1>2. /\ 1 \in 1..Len(s)
      /\ \A i \in 1..(Len(s) - 1) : i + 1 \in 1..Len(s)
      /\ \A i \in 1..Len(s) : i # 1 => i - 1 \in 1..(Len(s) - 1) /\ (i - 1) + 1 = i
    BY <1>1
<1>3. \A i \in 1..Len(s) : i = 1 \/ s[i] = Tail(s)[i - 1]
    BY <1>1, <1>2
<1>4. ToSet(s) \subseteq {Head(s)} \cup ToSet(Tail(s))
  <2>1. ASSUME NEW i \in 1..Len(s) PROVE s[i] \in {Head(s)} \cup ToSet(Tail(s))
    <3>1. CASE i = 1
        BY <3>1, <1>1
    <3>2. CASE i # 1
      <4>1. i - 1 \in DOMAIN Tail(s) /\ s[i] = Tail(s)[i - 1]
          BY <3>2, <1>1, <1>2, <1>3
      <4> QED BY <4>1 DEF ToSet
    <3> QED BY <3>1, <3>2
  <2> QED BY <2>1, <1>1 DEF ToSet
<1>5. {Head(s)} \cup ToSet(Tail(s)) \subseteq ToSet(s)
    BY <1>1, <1>2 DEF ToSet
<1> QED
    BY <1>1, <1>4, <1>5

LEMMA Joined ==
    ASSUME NEW S, NEW s \in Seq(S), NEW x \in S
    PROVE  /\ Append(s, x) \in Seq(S) /\ Len(Append(s, x)) = Len(s) + 1
           /\ ToSet(Append(s, x)) = ToSet(s) \cup {x}
<1>1. /\ Len(s) \in Nat /\ DOMAIN s = 1..Len(s) /\ Append(s, x) \in Seq(S)
      /\ Len(Append(s, x)) = Len(s) + 1 /\ DOMAIN Append(s, x) = 1..(Len(s) + 1)
      /\ \A i \in 1..Len(s) : Append(s, x)[i] = s[i]
      /\ Append(s, x)[Len(s) + 1] = x
    OBVIOUS
<1>2. \A i \in 1..(Len(s) + 1) : i \in 1..Len(s) \/ i = Len(s) + 1
    BY <1>1
<1>3. Len(s) + 1 \in 1..(Len(s) + 1) /\ 1..Len(s) \subseteq 1..(Len(s) + 1)
    BY <1>1
<1>4. ToSet(Append(s, x)) \subseteq ToSet(s) \cup {x}
    BY <1>1, <1>2 DEF ToSet
<1>5. ToSet(s) \cup {x} \subseteq ToSet(Append(s, x))
    BY <1>1, <1>3 DEF ToSet
<1> QED
    BY <1>1, <1>4, <1>5

LEMMA OneFromTheOther ==
    \A a, b \in Nat : (a < a + b => b # 0) /\ a + b = (a + 1) + (b - 1)
OBVIOUS

(* What an authenticator has to list, in whatever order: all of it.        *)
LEMMA Listed ==
    ASSUME NEW S, IsFiniteSet(S)
    PROVE  SetToSeq(S) \in Seq(S) /\ ToSet(SetToSeq(S)) = S
<1> DEFINE N == Cardinality(S)
<1> DEFINE s == SetToSeq(S)
<1>1. N \in Nat /\ ExistsBijection(1..N, S)
    BY FS_CardinalityType
<1>2. \E f \in [1..N -> S] : IsInjective(f)
    BY <1>1 DEF ExistsBijection, Bijection, Injection, IsInjective
<1>3. s \in [1..N -> S] /\ IsInjective(s)
    BY <1>2 DEF SetToSeq
<1>4. s \in Injection(1..N, S)
    BY <1>3 DEF Injection, IsInjective
<1>5. IsFiniteSet(1..N) /\ Cardinality(1..N) = N
    BY <1>1, FS_Interval
<1>6. s \in Surjection(1..N, S)
  <2> HIDE DEF s
  <2> QED BY <1>4, <1>5, FS_Injection
<1>7. \A x \in S : \E i \in 1..N : s[i] = x
    BY <1>6 DEF Surjection
<1>8. s \in Seq(S) /\ DOMAIN s = 1..N
  <2> HIDE DEF s
  <2> QED BY <1>1, <1>3
<1>9. ToSet(s) = S
  <2> HIDE DEF s
  <2> QED BY <1>3, <1>7, <1>8 DEF ToSet
<1> QED
    BY <1>8, <1>9

-------------------------------------------------------------------------------
(* The inductive invariant.  The types of what TypeOK leaves open.         *)

Listable == Credentials \cup {RpOf[c] : c \in Credentials}
Kinds == {"none", "rps", "creds"}

Typed ==
    /\ TypeOK
    /\ remembered \in [kind : Kinds, left : Seq(Listable)]
    /\ list \in [kind : Kinds, rp : {"none"} \cup {RpOf[c] : c \in Credentials}, total : Nat,
                 items : Seq(Listable)]
    /\ enrolling \in [template : {"none"} \cup Templates, left : 0..Samples]
    /\ undisturbed \in BOOLEAN

(* What the list is a list of.                                             *)
WhatThereIs == IF list.kind = "rps" THEN Rps ELSE CredentialsOf(list.rp)

(* As long as nothing touched the enumeration: the authenticator goes on   *)
(* with the list that the application makes, under the code that the       *)
(* channel noted, and what either of them has makes up the whole.          *)
Tracked ==
    undisturbed =>
        /\ list.kind # "none" /\ remembered.kind = list.kind
        /\ Answers(cm, cred_mgmt_preview)
        /\ list.total = Len(list.items) + Len(remembered.left)
        /\ ToSet(list.items) \cup ToSet(remembered.left) = WhatThereIs

IInv == Typed /\ Tracked /\ ~missed

LEMMA InitInv == ASSUME ManagementAssumption, Init PROVE IInv
<1>1. cm \in Modes /\ bio \in Modes
    BY DEF ManagementAssumption, Init
<1>2. list = NoList /\ remembered = Nothing /\ enrolling = NoEnrolling /\ undisturbed = FALSE
    BY DEF Init
<1>3. Len(list.items) <= list.total /\ list.kind = "none" /\ remembered.kind = "none"
    BY <1>2 DEF NoList, Nothing
<1>4. Samples \in Nat /\ enrolling.left = 0 /\ enrolling.left \in 0..Samples
    BY <1>2 DEF ManagementAssumption, NoEnrolling
<1>5. n \in [commands : 0..MaxCommands, failures : 0..MaxFailures, others : 0..MaxOthers]
    BY DEF ManagementAssumption, Init
<1>6. TypeOK
    BY <1>1, <1>3, <1>4, <1>5 DEF Init, TypeOK
<1>7. remembered \in [kind : Kinds, left : Seq(Listable)]
    BY <1>2 DEF Nothing, Kinds
<1>8. list \in [kind : Kinds, rp : {"none"} \cup {RpOf[c] : c \in Credentials}, total : Nat,
                items : Seq(Listable)]
    BY <1>2 DEF NoList, Kinds
<1>9. enrolling \in [template : {"none"} \cup Templates, left : 0..Samples]
    BY <1>2, <1>4 DEF NoEnrolling
<1>10. Typed
    BY <1>2, <1>6, <1>7, <1>8, <1>9 DEF Typed
<1> QED
    BY <1>2, <1>10 DEF IInv, Init, Tracked

(* There are finitely many of them, and all can be listed.                 *)
LEMMA FinitelyMany ==
    ASSUME ManagementAssumption, Typed
    PROVE  /\ IsFiniteSet(Rps) /\ Rps \subseteq {RpOf[c] : c \in Credentials}
           /\ \A rp : IsFiniteSet(CredentialsOf(rp)) /\ CredentialsOf(rp) \subseteq Credentials
<1>1. credentials \subseteq Credentials /\ IsFiniteSet(Credentials)
    BY DEF ManagementAssumption, Typed, TypeOK
<1>2. IsFiniteSet(credentials)
    BY <1>1, FS_Subset
<1>3. \A rp : IsFiniteSet(CredentialsOf(rp)) /\ CredentialsOf(rp) \subseteq Credentials
  <2> TAKE rp
  <2>1. CredentialsOf(rp) \in SUBSET credentials
      BY DEF CredentialsOf
  <2> QED BY <2>1, <1>1, <1>2, FS_Subset
<1>4. [c \in credentials |-> RpOf[c]] \in Surjection(credentials, Rps)
    BY DEF Surjection, Rps
<1>5. IsFiniteSet(Rps)
    BY <1>2, <1>4, FS_Surjection
<1>6. Rps \subseteq {RpOf[c] : c \in Credentials}
    BY <1>1 DEF Rps
<1> QED
    BY <1>3, <1>5, <1>6
-------------------------------------------------------------------------------
(* The types, part by part.                                                *)

Outcomes == {"none", "ok", "InvalidCommand", "NotAllowed", "NoCredentials",
             "InvalidDeviceResponse", "NotSupported", "RequestTooLarge", "failed"}
RememberedType == [kind : Kinds, left : Seq(Listable)]
ListType ==
    {l \in [kind : Kinds, rp : {"none"} \cup {RpOf[c] : c \in Credentials}, total : Nat,
            items : Seq(Listable)] : Len(l.items) <= l.total}
EnrollingType == [template : {"none"} \cup Templates, left : 0..Samples]
CountType == [commands : 0..MaxCommands, failures : 0..MaxFailures, others : 0..MaxOthers]

LEMMA TypesAre ==
    Typed <=>
        /\ credentials \subseteq Credentials /\ enrolled \subseteq Templates
        /\ remembered \in RememberedType /\ list \in ListType /\ enrolling \in EnrollingType
        /\ cm \in Modes /\ bio \in Modes /\ cred_mgmt_preview \in BOOLEAN /\ record \in BOOLEAN
        /\ outcome \in Outcomes /\ undisturbed \in BOOLEAN /\ n \in CountType
BY DEF Typed, TypeOK, RememberedType, ListType, EnrollingType, Outcomes, CountType, Kinds

LEMMA TypesWillBe ==
    Typed' <=>
        /\ credentials' \subseteq Credentials /\ enrolled' \subseteq Templates
        /\ remembered' \in RememberedType /\ list' \in ListType /\ enrolling' \in EnrollingType
        /\ cm' \in Modes /\ bio' \in Modes /\ cred_mgmt_preview' \in BOOLEAN /\ record' \in BOOLEAN
        /\ outcome' \in Outcomes /\ undisturbed' \in BOOLEAN /\ n' \in CountType
BY DEF Typed, TypeOK, RememberedType, ListType, EnrollingType, Outcomes, CountType, Kinds

LEMMA CallCounts == ASSUME ManagementAssumption, Typed, Call PROVE n' \in CountType
<1>1. n \in CountType /\ n.commands < MaxCommands /\ n' = [n EXCEPT !.commands = @ + 1]
    BY TypesAre DEF Call
<1>2. MaxCommands \in Nat /\ n.commands \in 0..MaxCommands
    BY <1>1 DEF ManagementAssumption, CountType
<1>3. n.commands + 1 \in 0..MaxCommands
    BY <1>1, <1>2
<1> QED
    BY <1>1, <1>3 DEF CountType

LEMMA Empties ==
    NoList \in ListType /\ Nothing \in RememberedType
    /\ (ManagementAssumption => NoEnrolling \in EnrollingType)
<1>1. Len(<<>>) <= 0 /\ <<>> \in Seq(Listable)
    OBVIOUS
<1>2. NoList \in ListType
    BY <1>1 DEF NoList, ListType, Kinds
<1>3. Nothing \in RememberedType
    BY <1>1 DEF Nothing, RememberedType, Kinds
<1>4. ManagementAssumption => 0 \in 0..Samples
    BY DEF ManagementAssumption
<1> QED
    BY <1>2, <1>3, <1>4 DEF NoEnrolling, EnrollingType

(* Whatever else a command does, it makes the authenticator forget its     *)
(* enumeration or leaves it.                                               *)
LEMMA ForgetsTypes == ASSUME Typed, Forgets PROVE remembered' \in RememberedType
BY TypesAre, Empties DEF Forgets

(* A step that disturbs the enumeration, or ends it, has nothing to track. *)
LEMMA DisturbedKeeps ==
    ASSUME IInv, Typed', undisturbed' = FALSE, missed' = missed
    PROVE  IInv'
BY DEF IInv, Tracked

-------------------------------------------------------------------------------
(* Lists.                                                                  *)

LEMMA BeginKeeps ==
    ASSUME ManagementAssumption, IInv,
           NEW kind \in {"rps", "creds"}, NEW rp \in {"none"} \cup Rps,
           enumerate_begin(kind, rp, IF kind = "rps" THEN Rps ELSE CredentialsOf(rp))
    PROVE  IInv'
<1> DEFINE all == IF kind = "rps" THEN Rps ELSE CredentialsOf(rp)
<1> DEFINE legacy == handle_legacy_preview(cm)
<1> DEFINE items == SetToSeq(all)
<1>1. Typed /\ Call /\ ~missed /\ record' = record /\ missed' = missed
    BY DEF IInv, enumerate_begin
<1>2. n' \in CountType
    BY <1>1, CallCounts
<1>3. CASE ~Answers(cm, legacy) /\ Ends("InvalidCommand") /\ UNCHANGED <<cred_mgmt_preview, list, undisturbed>>
  <2>1. Typed'
      BY <1>1, <1>2, <1>3, TypesAre, TypesWillBe DEF Ends, device, Outcomes
  <2>2. Tracked'
      BY <1>3 DEF IInv, Tracked, Ends, device, WhatThereIs, Rps, CredentialsOf, Answers
  <2> QED BY <2>1, <2>2, <1>1 DEF IInv
<1>4. CASE /\ outcome' \in {"NoCredentials", "InvalidDeviceResponse"}
           /\ cred_mgmt_preview' \in {cred_mgmt_preview, legacy}
           /\ remembered' = Nothing /\ list' = NoList /\ undisturbed' = FALSE
           /\ UNCHANGED <<credentials, enrolled, enrolling, policy, cm, bio, options>>
  <2>1. legacy \in BOOLEAN
      BY DEF handle_legacy_preview
  <2>2. Typed'
      BY <1>1, <1>2, <1>4, <2>1, TypesAre, TypesWillBe, Empties DEF Outcomes
  <2> QED BY <2>2, <1>1, <1>4, DisturbedKeeps
<1>5. CASE /\ Answers(cm, legacy) /\ all # {}
           /\ remembered' = [kind |-> kind, left |-> Tail(items)]
           /\ list' = [kind |-> kind, rp |-> rp, total |-> Len(items), items |-> <<Head(items)>>]
           /\ outcome' = "ok" /\ cred_mgmt_preview' = legacy /\ undisturbed' = TRUE
           /\ UNCHANGED <<credentials, enrolled, enrolling, policy, cm, bio, options>>
  <2>1. IsFiniteSet(all) /\ all \subseteq Listable
      BY <1>1, FinitelyMany DEF Listable
  <2>2. items \in Seq(all) /\ ToSet(items) = all
      BY <2>1, Listed
  <2>3. items # <<>>
    <3> HIDE DEF all, items
    <3> QED BY <2>2, <1>5 DEF ToSet
  <2>4. /\ items \in Seq(Listable) /\ Head(items) \in Listable /\ Tail(items) \in Seq(Listable)
        /\ Len(Tail(items)) = Len(items) - 1 /\ Len(items) \in Nat \ {0}
        /\ all = {Head(items)} \cup ToSet(Tail(items))
    <3> HIDE DEF all, items
    <3>1. items \in Seq(Listable)
        BY <2>1, <2>2
    <3> QED BY <2>2, <2>3, <3>1, Split
  <2> DEFINE first == <<Head(items)>>
  <2>5. first \in Seq(Listable) /\ Len(first) = 1 /\ ToSet(first) = {Head(items)}
    <3> HIDE DEF items
    <3> QED BY <2>4 DEF ToSet
  <2>6. rp \in {"none"} \cup {RpOf[c] : c \in Credentials}
      BY <1>1, FinitelyMany
  <2>7. remembered' \in RememberedType
    <3> HIDE DEF items
    <3> QED BY <2>4, <1>5 DEF RememberedType, Kinds
  <2>8. list' \in ListType
    <3> HIDE DEF items
    <3>1. Len(first) <= Len(items)
        BY <2>4, <2>5
    <3> HIDE DEF first
    <3>2. list' = [kind |-> kind, rp |-> rp, total |-> Len(items), items |-> first]
        BY <1>5 DEF first
    <3> QED BY <2>4, <2>5, <2>6, <3>1, <3>2 DEF ListType, Kinds
  <2>9. legacy \in BOOLEAN
      BY DEF handle_legacy_preview
  <2>10. Typed'
      BY <1>1, <1>2, <1>5, <2>7, <2>8, <2>9, TypesAre, TypesWillBe DEF Outcomes
  <2>11. Answers(cm, cred_mgmt_preview)'
      BY <1>5 DEF Answers
  <2>12. WhatThereIs' = all
      BY <1>5 DEF WhatThereIs, Rps, CredentialsOf
  <2>13. list'.kind = kind /\ list'.total = Len(items) /\ list'.items = first
         /\ remembered'.kind = kind /\ remembered'.left = Tail(items)
      BY <1>5
  <2>14. Tracked'
    <3> HIDE DEF all, items, first
    <3>1. ToSet(list'.items) \cup ToSet(remembered'.left) = WhatThereIs'
        BY <2>4, <2>5, <2>12, <2>13
    <3>2. list'.total = Len(list'.items) + Len(remembered'.left)
      <4>1. Len(list'.items) = 1 /\ Len(remembered'.left) = Len(Tail(items))
          BY <2>5, <2>13
      <4>2. Len(items) = 1 + Len(Tail(items))
          BY <2>4
      <4> QED BY <2>13, <4>1, <4>2
    <3>3. list'.kind # "none" /\ remembered'.kind = list'.kind
        BY <2>13
    <3> QED BY <2>11, <3>1, <3>2, <3>3 DEF Tracked
  <2> QED BY <2>10, <2>14, <1>1 DEF IInv
<1> QED
    BY <1>3, <1>4, <1>5 DEF enumerate_begin, set_cred_mgmt_preview
(* What the application has and what is left stays the whole list.         *)
LEMMA NextKeeps ==
    ASSUME ManagementAssumption, IInv, NEW kind \in {"rps", "creds"}, enumerate_next(kind)
    PROVE  IInv'
<1>1. Typed /\ Call /\ ~missed /\ list.kind = kind /\ Len(list.items) < list.total
      /\ record' = record /\ cred_mgmt_preview' = cred_mgmt_preview
    BY DEF IInv, enumerate_next
<1>2. n' \in CountType
    BY <1>1, CallCounts
<1>3. list \in ListType /\ remembered \in RememberedType
    BY <1>1, TypesAre
<1> DEFINE answered == Answers(cm, cred_mgmt_preview) /\ remembered.kind = kind
                       /\ remembered.left # <<>>
<1>4. CASE answered
  <2> DEFINE x == Head(remembered.left)
  <2>1. /\ list' = [list EXCEPT !.items = Append(list.items, x)]
        /\ remembered' = [remembered EXCEPT !.left = Tail(remembered.left)]
        /\ outcome' = "ok" /\ missed' = missed
        /\ UNCHANGED <<credentials, enrolled, enrolling, policy, cm, bio, options, undisturbed>>
      BY <1>4 DEF enumerate_next
  <2>2. /\ x \in Listable /\ Tail(remembered.left) \in Seq(Listable)
        /\ Len(Tail(remembered.left)) = Len(remembered.left) - 1
        /\ ToSet(remembered.left) = {x} \cup ToSet(Tail(remembered.left))
        /\ Len(remembered.left) \in Nat
      BY <1>3, <1>4, Split DEF RememberedType
  <2> HIDE DEF x
  <2>3. /\ Append(list.items, x) \in Seq(Listable) /\ Len(Append(list.items, x)) = Len(list.items) + 1
        /\ ToSet(Append(list.items, x)) = ToSet(list.items) \cup {x}
        /\ Len(list.items) \in Nat
      BY <1>3, <2>2, Joined DEF ListType
  <2>4. list'.items = Append(list.items, x) /\ list'.kind = kind /\ list'.total = list.total
        /\ list'.rp = list.rp
      BY <1>1, <1>3, <2>1 DEF ListType
  <2>5. remembered'.left = Tail(remembered.left) /\ remembered'.kind = kind
      BY <1>3, <1>4, <2>1 DEF RememberedType
  <2>6. list.total \in Nat
      BY <1>3 DEF ListType
  <2>7. Len(list'.items) = Len(list.items) + 1 /\ Len(remembered'.left) = Len(remembered.left) - 1
      BY <2>2, <2>3, <2>4, <2>5
  <2>8. list' \in ListType
    <3>1. Len(list'.items) <= list'.total
        BY <1>1, <2>3, <2>4, <2>6, <2>7
    <3> QED BY <1>3, <2>1, <2>3, <3>1 DEF ListType
  <2>9. remembered' \in RememberedType
      BY <1>3, <2>1, <2>2 DEF RememberedType
  <2>10. Typed'
      BY <1>1, <1>2, <2>1, <2>8, <2>9, TypesAre, TypesWillBe DEF Outcomes
  <2>11. ASSUME undisturbed PROVE Tracked'
    <3>1. /\ list.total = Len(list.items) + Len(remembered.left)
          /\ ToSet(list.items) \cup ToSet(remembered.left) = WhatThereIs
        BY <2>11 DEF IInv, Tracked
    <3>2. WhatThereIs' = WhatThereIs
        BY <1>1, <2>1, <2>4 DEF WhatThereIs, Rps, CredentialsOf
    <3>3. ToSet(list'.items) \cup ToSet(remembered'.left) = WhatThereIs'
        BY <2>2, <2>3, <2>4, <2>5, <3>1, <3>2
    <3>4. list'.total = Len(list'.items) + Len(remembered'.left)
      <4>1. list.total = Len(list.items) + Len(remembered.left)
          BY <3>1
      <4>2. Len(list.items) \in Nat /\ Len(remembered.left) \in Nat
          BY <2>2, <2>3
      <4>3. list'.total = list.total
          BY <2>4
      <4> DEFINE a == Len(list.items)
      <4> DEFINE b == Len(remembered.left)
      <4>4. list'.total = (a + 1) + (b - 1)
        <5> HIDE DEF a, b
        <5>1. a \in Nat /\ b \in Nat /\ list'.total = a + b
            BY <4>1, <4>2, <4>3 DEF a, b
        <5> QED BY <5>1, OneFromTheOther
      <4> QED BY <2>7, <4>4
    <3>5. list'.kind # "none" /\ remembered'.kind = list'.kind
        BY <2>4, <2>5
    <3>6. Answers(cm, cred_mgmt_preview)'
        BY <1>1, <1>4, <2>1 DEF Answers
    <3> QED BY <3>3, <3>4, <3>5, <3>6 DEF Tracked
  <2>12. ASSUME ~undisturbed PROVE Tracked'
      BY <2>1, <2>12 DEF Tracked
  <2> QED BY <1>1, <2>1, <2>10, <2>11, <2>12 DEF IInv
<1>5. CASE ~answered
  <2>1. ~undisturbed
    <3>1. ASSUME undisturbed PROVE FALSE
      <4>1. /\ remembered.kind = kind /\ Answers(cm, cred_mgmt_preview)
            /\ list.total = Len(list.items) + Len(remembered.left)
          BY <1>1, <3>1 DEF IInv, Tracked
      <4>2. remembered.left = <<>> => Len(remembered.left) = 0
          OBVIOUS
      <4>3. Len(list.items) \in Nat /\ list.total \in Nat
          BY <1>3 DEF ListType
      <4>4. list.total = Len(list.items) + Len(remembered.left) /\ Len(list.items) < list.total
          BY <1>1, <4>1
      <4>5. Len(remembered.left) # 0
        <5> DEFINE a == Len(list.items)
        <5> DEFINE b == Len(remembered.left)
        <5>1. a \in Nat /\ b \in Nat /\ a < a + b
            BY <1>3, <4>3, <4>4 DEF RememberedType
        <5>2. b # 0
          <6> HIDE DEF a, b
          <6> QED BY <5>1, OneFromTheOther
        <5> QED BY <5>2
      <4>6. remembered.left # <<>>
          BY <4>2, <4>5
      <4> QED BY <1>5, <4>1, <4>6
    <3> QED BY <3>1
  <2>2. /\ outcome' \in {"NotAllowed", "InvalidCommand"} /\ UNCHANGED device
        /\ list' = NoList /\ missed' = (missed \/ undisturbed) /\ undisturbed' = FALSE
      BY <1>5 DEF enumerate_next, Ends
  <2>3. Typed'
      BY <1>1, <1>2, <2>2, TypesAre, TypesWillBe, Empties DEF device, Outcomes
  <2>4. ~missed'
      BY <1>1, <2>1, <2>2
  <2> QED BY <2>2, <2>3, <2>4 DEF IInv, Tracked
<1> QED
    BY <1>4, <1>5

-------------------------------------------------------------------------------
(* The other commands, and other clients.                                  *)

LEMMA CredentialCommandKeeps ==
    ASSUME ManagementAssumption, IInv, NEW c,
           get_credential_metadata \/ delete_credential(c) \/ update_user_info(c)
    PROVE  IInv'
<1>1. Typed /\ Call /\ Forgets /\ undisturbed' = FALSE /\ missed' = missed
      /\ credentials' \subseteq credentials /\ outcome' \in {"ok", "InvalidCommand", "NoCredentials"}
      /\ UNCHANGED <<enrolled, enrolling, policy, cm, bio, options, cred_mgmt_preview, list, record>>
    BY DEF IInv, get_credential_metadata, delete_credential, update_user_info
<1>2. n' \in CountType /\ remembered' \in RememberedType
    BY <1>1, CallCounts, ForgetsTypes
<1>3. Typed'
    BY <1>1, <1>2, TypesAre, TypesWillBe DEF Outcomes
<1> QED
    BY <1>1, <1>3, DisturbedKeeps

BioStep(t) ==
    \/ get_bio_modality \/ get_fingerprint_sensor_info \/ get_bio_enrollments
    \/ cancel_current_bio_enrollment
    \/ /\ t \in Templates
       /\ \/ remove_bio_enrollment(t) \/ rename_bio_enrollment(t)
          \/ start_new_bio_enrollment(t) \/ capture_next_bio_enrollment_sample(t)

LEMMA BioKeeps ==
    ASSUME ManagementAssumption, IInv, NEW t, BioStep(t)
    PROVE  IInv'
<1>1. Typed /\ BioCommand
    BY DEF IInv, BioStep, get_bio_modality, get_fingerprint_sensor_info, ask_sensor,
           get_bio_enrollments, remove_bio_enrollment, rename_bio_enrollment,
           start_new_bio_enrollment, capture_next_bio_enrollment_sample,
           cancel_current_bio_enrollment
<1>2. /\ Call /\ Forgets /\ undisturbed' = FALSE /\ missed' = missed
      /\ UNCHANGED <<credentials, policy, cm, bio, options, cred_mgmt_preview, list, record>>
    BY <1>1 DEF BioCommand, Unlisted
<1>3. n' \in CountType /\ remembered' \in RememberedType
    BY <1>1, <1>2, CallCounts, ForgetsTypes
<1>4. outcome' \in {"ok", "InvalidCommand", "NotAllowed"}
    BY DEF BioStep, get_bio_modality, get_fingerprint_sensor_info, ask_sensor,
           get_bio_enrollments, remove_bio_enrollment, rename_bio_enrollment,
           start_new_bio_enrollment, capture_next_bio_enrollment_sample,
           cancel_current_bio_enrollment, Refused
<1>5. enrolled' \subseteq enrolled \cup (Templates \cap {t})
    BY DEF BioStep, get_bio_modality, get_fingerprint_sensor_info, ask_sensor,
           get_bio_enrollments, remove_bio_enrollment, rename_bio_enrollment,
           start_new_bio_enrollment, capture_next_bio_enrollment_sample,
           cancel_current_bio_enrollment, Refused
<1>6. \/ enrolling' = enrolling \/ enrolling' = NoEnrolling
      \/ t \in Templates /\ enrolling' = [template |-> t, left |-> Samples - 1]
      \/ enrolling.left > 1 /\ enrolling' = [enrolling EXCEPT !.left = @ - 1]
    BY DEF BioStep, get_bio_modality, get_fingerprint_sensor_info, ask_sensor,
           get_bio_enrollments, remove_bio_enrollment, rename_bio_enrollment,
           start_new_bio_enrollment, capture_next_bio_enrollment_sample,
           cancel_current_bio_enrollment, Refused
<1>7. enrolling' \in EnrollingType
  <2>1. enrolling \in EnrollingType /\ Samples \in Nat /\ Samples > 0
      BY <1>1, TypesAre DEF ManagementAssumption
  <2>2. CASE t \in Templates /\ enrolling' = [template |-> t, left |-> Samples - 1]
    <3>1. Samples - 1 \in 0..Samples
        BY <2>1
    <3> QED BY <2>2, <3>1 DEF EnrollingType
  <2>3. CASE enrolling.left > 1 /\ enrolling' = [enrolling EXCEPT !.left = @ - 1]
    <3>1. enrolling.left \in 0..Samples
        BY <2>1 DEF EnrollingType
    <3>2. enrolling.left - 1 \in 0..Samples
        BY <2>1, <2>3, <3>1
    <3> QED BY <2>1, <2>3, <3>2 DEF EnrollingType
  <2> QED BY <1>6, <2>1, <2>2, <2>3, Empties
<1>8. Typed'
    BY <1>1, <1>2, <1>3, <1>4, <1>5, <1>7, TypesAre, TypesWillBe DEF Outcomes
<1> QED
    BY <1>2, <1>8, <1>1, DisturbedKeeps

LEMMA ConfigKeeps ==
    ASSUME ManagementAssumption, IInv, NEW command, NEW size, authenticator_config(command, size)
    PROVE  IInv'
<1>1. Typed /\ Call /\ Forgets /\ undisturbed' = FALSE /\ missed' = missed
      /\ outcome' \in {"ok", "NotSupported", "RequestTooLarge"}
      /\ UNCHANGED <<credentials, enrolled, enrolling, cm, bio, options, cred_mgmt_preview, list, record>>
    BY DEF IInv, authenticator_config
<1>2. n' \in CountType /\ remembered' \in RememberedType
    BY <1>1, CallCounts, ForgetsTypes
<1>3. Typed'
    BY <1>1, <1>2, TypesAre, TypesWillBe DEF Outcomes
<1> QED
    BY <1>1, <1>3, DisturbedKeeps

LEMMA ResetKeeps == ASSUME ManagementAssumption, IInv, reset PROVE IInv'
<1>1. Typed /\ Call /\ Emptied /\ undisturbed' = FALSE /\ missed' = missed /\ outcome' = "ok"
      /\ record' \in {FALSE, record} /\ UNCHANGED <<cm, bio, options, cred_mgmt_preview, list>>
    BY DEF IInv, reset
<1>2. n' \in CountType
    BY <1>1, CallCounts
<1>3. Typed'
    BY <1>1, <1>2, TypesAre, TypesWillBe, Empties DEF Outcomes, Emptied
<1> QED
    BY <1>1, <1>3, DisturbedKeeps

LEMMA FailsKeeps == ASSUME ManagementAssumption, IInv, Fails PROVE IInv'
<1>1. Typed /\ n.commands < MaxCommands /\ n.failures < MaxFailures
      /\ n' = [n EXCEPT !.commands = @ + 1, !.failures = @ + 1]
      /\ outcome' = "failed" /\ list' = NoList /\ undisturbed' = FALSE
      /\ UNCHANGED <<cm, bio, options, record, cred_mgmt_preview, missed>>
    BY DEF IInv, Fails
<1>2. n' \in CountType
  <2>1. n \in CountType
      BY <1>1, TypesAre
  <2>2. n.commands + 1 \in 0..MaxCommands /\ n.failures + 1 \in 0..MaxFailures
      BY <1>1, <2>1 DEF CountType, ManagementAssumption
  <2> QED BY <1>1, <2>1, <2>2 DEF CountType
<1>3. /\ remembered' \in RememberedType /\ credentials' \subseteq Credentials
      /\ enrolled' \subseteq Templates /\ enrolling' \in EnrollingType
  <2>0. /\ remembered \in RememberedType /\ credentials \subseteq Credentials
        /\ enrolled \subseteq Templates /\ enrolling \in EnrollingType
      BY <1>1, TypesAre
  <2>1. CASE /\ remembered' \in {remembered, Nothing,
                  [remembered EXCEPT !.left = IF @ = <<>> THEN @ ELSE Tail(@)]}
             /\ UNCHANGED <<credentials, enrolled, enrolling, policy>>
    <3>1. remembered.left # <<>> => Tail(remembered.left) \in Seq(Listable)
        BY <2>0, Split DEF RememberedType
    <3>2. [remembered EXCEPT !.left = IF @ = <<>> THEN @ ELSE Tail(@)] \in RememberedType
        BY <2>0, <3>1 DEF RememberedType
    <3> QED BY <2>0, <2>1, <3>2, Empties
  <2>2. CASE /\ \E c \in credentials : credentials' = credentials \ {c}
             /\ UNCHANGED <<remembered, enrolled, enrolling, policy>>
      BY <2>0, <2>2
  <2>3. CASE Emptied
      BY <2>3, Empties DEF Emptied
  <2> QED BY <2>1, <2>2, <2>3 DEF Fails
<1>4. Typed'
    BY <1>1, <1>2, <1>3, TypesAre, TypesWillBe, Empties DEF Outcomes
<1> QED
    BY <1>1, <1>4, DisturbedKeeps

LEMMA AnotherClientKeeps == ASSUME ManagementAssumption, IInv, another_client PROVE IInv'
<1>1. Typed /\ n.others < MaxOthers /\ n' = [n EXCEPT !.others = @ + 1] /\ undisturbed' = FALSE
      /\ UNCHANGED <<enrolled, enrolling, policy, cm, bio, options, cred_mgmt_preview, list, outcome,
                     record, missed>>
    BY DEF IInv, another_client
<1>2. n' \in CountType
  <2>1. n \in CountType
      BY <1>1, TypesAre
  <2>2. n.others + 1 \in 0..MaxOthers
      BY <1>1, <2>1 DEF CountType, ManagementAssumption
  <2> QED BY <1>1, <2>1, <2>2 DEF CountType
<1>3. ASSUME NEW S, IsFiniteSet(S), S # {}, S \subseteq Listable
      PROVE  Tail(SetToSeq(S)) \in Seq(Listable)
  <2>1. SetToSeq(S) \in Seq(S) /\ ToSet(SetToSeq(S)) = S
      BY <1>3, Listed
  <2>2. SetToSeq(S) # <<>>
      BY <1>3, <2>1 DEF ToSet
  <2>3. SetToSeq(S) \in Seq(Listable)
      BY <1>3, <2>1
  <2> QED BY <2>2, <2>3, Split
<1>4. remembered' \in RememberedType /\ credentials' \subseteq Credentials
  <2>1. CASE Rps # {} /\ remembered' = [kind |-> "rps", left |-> Tail(SetToSeq(Rps))]
             /\ UNCHANGED credentials
    <3>1. Tail(SetToSeq(Rps)) \in Seq(Listable)
        BY <1>1, <1>3, <2>1, FinitelyMany DEF Listable
    <3> QED BY <1>1, <2>1, <3>1, TypesAre DEF RememberedType, Kinds
  <2>2. ASSUME NEW rp \in Rps,
               remembered' = [kind |-> "creds", left |-> Tail(SetToSeq(CredentialsOf(rp)))],
               UNCHANGED credentials
        PROVE  remembered' \in RememberedType /\ credentials' \subseteq Credentials
    <3>1. CredentialsOf(rp) # {}
        BY DEF Rps, CredentialsOf
    <3>2. Tail(SetToSeq(CredentialsOf(rp))) \in Seq(Listable)
        BY <1>1, <1>3, <3>1, FinitelyMany DEF Listable
    <3> QED BY <1>1, <2>2, <3>2, TypesAre DEF RememberedType, Kinds
  <2>3. ASSUME NEW c \in credentials, credentials' = credentials \ {c}, Forgets
        PROVE  remembered' \in RememberedType /\ credentials' \subseteq Credentials
      BY <1>1, <2>3, ForgetsTypes, TypesAre
  <2> QED BY <2>1, <2>2, <2>3 DEF another_client
<1>5. Typed'
    BY <1>1, <1>2, <1>4, TypesAre, TypesWillBe
<1> QED
    BY <1>1, <1>5, DisturbedKeeps
-------------------------------------------------------------------------------
(* The theorems.                                                           *)

LEMMA StutterKeeps == ASSUME IInv, UNCHANGED vars PROVE IInv'
<1>1. Typed'
    BY TypesAre, TypesWillBe DEF IInv, vars, device
<1>2. Tracked'
    BY DEF IInv, Tracked, WhatThereIs, Rps, CredentialsOf, Answers, vars, device
<1> QED
    BY <1>1, <1>2 DEF IInv, vars

LEMMA NextInv == ASSUME ManagementAssumption, IInv, [Next]_vars PROVE IInv'
<1>1. CASE enumerate_rps_begin
  <2>1. enumerate_begin("rps", "none", IF "rps" = "rps" THEN Rps ELSE CredentialsOf("none"))
      BY <1>1 DEF enumerate_rps_begin
  <2> QED BY <2>1, BeginKeeps
<1>2. ASSUME NEW rp \in Rps, enumerate_credentials_begin(rp) PROVE IInv'
  <2>1. enumerate_begin("creds", rp, IF "creds" = "rps" THEN Rps ELSE CredentialsOf(rp))
      BY <1>2 DEF enumerate_credentials_begin
  <2> QED BY <2>1, BeginKeeps
<1>3. CASE enumerate_rps_next_rp \/ enumerate_credentials_next
    BY <1>3, NextKeeps DEF enumerate_rps_next_rp, enumerate_credentials_next
<1>4. ASSUME NEW c \in Credentials,
             get_credential_metadata \/ delete_credential(c) \/ update_user_info(c)
      PROVE  IInv'
    BY <1>4, CredentialCommandKeeps
<1>5. CASE get_credential_metadata
    BY <1>5, CredentialCommandKeeps
<1>6. ASSUME NEW t, BioStep(t) PROVE IInv'
    BY <1>6, BioKeeps
<1>7. CASE \/ get_bio_modality \/ get_fingerprint_sensor_info \/ get_bio_enrollments
           \/ cancel_current_bio_enrollment
    BY <1>7, <1>6 DEF BioStep
<1>8. ASSUME NEW t \in Templates,
             \/ remove_bio_enrollment(t) \/ rename_bio_enrollment(t)
             \/ start_new_bio_enrollment(t) \/ capture_next_bio_enrollment_sample(t)
      PROVE  IInv'
    BY <1>8, <1>6 DEF BioStep
<1>9. CASE \/ \E command \in DOMAIN Needs : authenticator_config(command, 0)
           \/ authenticator_config("set_min_pin_length_rpids", MaxListSize + 1)
    BY <1>9, ConfigKeeps
<1>10. CASE reset \/ Fails \/ another_client
    BY <1>10, ResetKeeps, FailsKeeps, AnotherClientKeeps
<1>11. CASE UNCHANGED vars
    BY <1>11, StutterKeeps
<1> QED
    BY <1>1, <1>2, <1>3, <1>4, <1>5, <1>7, <1>8, <1>9, <1>10, <1>11 DEF Next

LEMMA ListsOfInv == IInv => ListsAreWhole
<1> SUFFICES ASSUME IInv, undisturbed, Len(list.items) = list.total
             PROVE  ToSet(list.items) = WhatThereIs
    BY DEF IInv, ListsAreWhole, WhatThereIs
<1>1. /\ list.total = Len(list.items) + Len(remembered.left)
      /\ ToSet(list.items) \cup ToSet(remembered.left) = WhatThereIs
    BY DEF IInv, Tracked
<1>2. list \in ListType /\ remembered \in RememberedType
    BY TypesAre DEF IInv
<1>3. Len(list.items) \in Nat
    BY <1>2 DEF ListType
<1>4. remembered.left \in Seq(Listable) /\ Len(remembered.left) \in Nat
    BY <1>2 DEF RememberedType
<1>5. Len(remembered.left) = 0
  <2> DEFINE a == Len(list.items)
  <2> DEFINE b == Len(remembered.left)
  <2>1. a \in Nat /\ b \in Nat /\ a = a + b
      BY <1>1, <1>3, <1>4
  <2>2. b = 0
    <3> HIDE DEF a, b
    <3> QED BY <2>1
  <2> QED BY <2>2
<1>6. ToSet(remembered.left) = {}
    BY <1>4, <1>5 DEF ToSet
<1> QED
    BY <1>1, <1>6

(* The types of the management commands, and that a list never has more    *)
(* than was announced (management/credential_management.rs:96-190).        *)
THEOREM ManagementTypesAreCorrect == ASSUME ManagementAssumption PROVE Spec => []TypeOK
<1>1. IInv => TypeOK
    BY DEF IInv, Typed
<1> QED
    BY <1>1, InitInv, NextInv, PTL DEF Spec

(* A list that nobody disturbs is whole, and none of its Nexts is refused: *)
(* each is sent under the code the Begin was answered to                   *)
(* (management/credential_management.rs:96-190, cred_mgmt_preview).        *)
THEOREM ListsAreWholeAlways == ASSUME ManagementAssumption PROVE Spec => []ListsAreWhole
<1> QED
    BY ListsOfInv, InitInv, NextInv, PTL DEF Spec
================================================================================
