------------------------ MODULE WebAuthnOperation_proofs ------------------------
(***************************************************************************)
(* Proofs about WebAuthnOperation, for any credentials, requests and       *)
(* devices, and any number of failures.                                    *)
(***************************************************************************)
EXTENDS WebAuthnOperation, FiniteSetTheorems, WellFoundedInduction, TLAPS

-------------------------------------------------------------------------------
(* Lemmas about the operators on sequences.                                *)

(* A set of numbers that is not empty has a least one: what a recursive    *)
(* function does at every argument is shown by a least counterexample.     *)
LEMMA Least ==
    ASSUME NEW T, T \subseteq Nat, T # {}
    PROVE  \E k \in T : \A m \in T : k <= m
<1> DEFINE Before == {p \in Nat \X Nat : p[1] < p[2]}
<1>1. IsWellFoundedOn(Before, Nat)
    BY NatLessThanWellFounded DEF OpToRel
<1>2. PICK x \in T : \A y \in T : <<y, x>> \notin Before
  <2> HIDE DEF Before
  <2> QED BY <1>1, WFMin
<1>3. \A y \in T : ~(y < x)
    BY <1>2
<1> QED
    BY <1>3

LEMMA Appended ==
    ASSUME NEW S, NEW s \in Seq(S), NEW x \in S
    PROVE  /\ Append(s, x) \in Seq(S)
           /\ Len(Append(s, x)) = Len(s) + 1
           /\ DOMAIN Append(s, x) = 1..(Len(s) + 1)
           /\ \A i \in 1..Len(s) : Append(s, x)[i] = s[i]
           /\ Append(s, x)[Len(s) + 1] = x
    OBVIOUS

LEMMA Split ==
    ASSUME NEW S, NEW s \in Seq(S), s # <<>>
    PROVE  /\ Len(s) \in Nat /\ Len(s) > 0 /\ 1 \in DOMAIN s
           /\ Head(s) = s[1] /\ Head(s) \in S
           /\ Tail(s) \in Seq(S) /\ Len(Tail(s)) = Len(s) - 1
           /\ DOMAIN Tail(s) = 1..(Len(s) - 1)
           /\ \A i \in 1..(Len(s) - 1) : Tail(s)[i] = s[i + 1]
    OBVIOUS

LEMMA Members ==
    ASSUME NEW S, NEW s \in Seq(S)
    PROVE  /\ ToSet(s) \subseteq S
           /\ DOMAIN s = 1..Len(s) /\ Len(s) \in Nat
           /\ \A i \in DOMAIN s : s[i] \in ToSet(s)
           /\ \A x \in ToSet(s) : \E i \in DOMAIN s : s[i] = x
    BY DEF ToSet

LEMMA Single ==
    ASSUME NEW S, NEW x \in S
    PROVE  /\ <<x>> \in Seq(S) /\ Len(<<x>>) = 1 /\ DOMAIN <<x>> = 1..1 /\ <<x>>[1] = x
           /\ <<x>> # <<>>
    OBVIOUS

(* filter_oversized_credentials loses no id that is short enough, and adds *)
(* none.                                                                   *)
Shorten(ids, g) ==
    [k \in 0..Len(ids) |->
        IF k = 0 THEN <<>>
        ELSE IF ids[k] \in LongIds THEN g[k - 1] ELSE Append(g[k - 1], ids[k])]

LEMMA ShortOnesExist ==
    ASSUME NEW S, NEW ids \in Seq(S)
    PROVE  \E g : g = Shorten(ids, g)
<1> DEFINE Upto(m, g) ==
        g = [k \in 0..m |->
                IF k = 0 THEN <<>>
                ELSE IF ids[k] \in LongIds THEN g[k - 1] ELSE Append(g[k - 1], ids[k])]
<1> DEFINE Missing == {m \in Nat : ~\E g : Upto(m, g)}
<1>1. SUFFICES Missing = {}
  <2>1. Len(ids) \in Nat
      OBVIOUS
  <2>2. \E g : Upto(Len(ids), g)
      BY <1>1, <2>1
  <2> QED
      BY <2>2 DEF Shorten
<1>2. SUFFICES ASSUME Missing # {} PROVE FALSE
    OBVIOUS
<1>3. PICK m \in Missing : \A j \in Missing : m <= j
  <2> HIDE DEF Missing
  <2>1. Missing \subseteq Nat
      BY DEF Missing
  <2> QED BY <1>2, <2>1, Least
<1>4. m \in Nat /\ ~\E g : Upto(m, g)
    BY <1>3
<1>5. CASE m = 0
  <2> DEFINE g == [k \in 0..0 |-> <<>>]
  <2>1. Upto(0, g)
      OBVIOUS
  <2> QED
      BY <2>1, <1>4, <1>5
<1>6. CASE m # 0
  <2>1. m - 1 \in Nat /\ m - 1 \notin Missing
    <3>1. m - 1 \in Nat /\ ~(m <= m - 1)
        BY <1>4, <1>6
    <3> HIDE DEF Missing
    <3> QED
        BY <3>1, <1>3
  <2>2. PICK h : Upto(m - 1, h)
      BY <2>1
  <2> DEFINE last == IF ids[m] \in LongIds THEN h[m - 1] ELSE Append(h[m - 1], ids[m])
  <2> DEFINE g == [k \in 0..m |-> IF k = m THEN last ELSE h[k]]
  <2>3. \A k \in 0..(m - 1) : h[k] = IF k = 0 THEN <<>>
            ELSE IF ids[k] \in LongIds THEN h[k - 1] ELSE Append(h[k - 1], ids[k])
    <3> HIDE DEF g, last
    <3> QED
      BY <2>2
  <2>4. \A k \in 0..(m - 1) : g[k] = h[k]
      BY <1>4
  <2>5. g[m] = last
      BY <1>4
  <2>6. \A k \in 0..m : g[k] = IF k = 0 THEN <<>>
            ELSE IF ids[k] \in LongIds THEN g[k - 1] ELSE Append(g[k - 1], ids[k])
    <3> SUFFICES ASSUME NEW k \in 0..m
                 PROVE  g[k] = IF k = 0 THEN <<>>
                        ELSE IF ids[k] \in LongIds THEN g[k - 1] ELSE Append(g[k - 1], ids[k])
        OBVIOUS
    <3>1. CASE k = m
      <4>1. m - 1 \in 0..(m - 1)
          BY <1>4, <1>6
      <4>2. g[m - 1] = h[m - 1]
          BY <2>4, <4>1
      <4> HIDE DEF g
      <4> QED
          BY <3>1, <4>2, <2>5, <1>6
    <3>2. CASE k # m
      <4>1. k \in 0..(m - 1)
          BY <3>2, <1>4
      <4>2. k = 0 \/ (k # 0 /\ k - 1 \in 0..(m - 1))
          BY <4>1, <1>4
      <4>3. g[k] = h[k]
          BY <4>1, <2>4
      <4>4. k # 0 => g[k - 1] = h[k - 1]
          BY <4>2, <2>4
      <4> HIDE DEF g
      <4> QED
          BY <4>1, <4>2, <4>3, <4>4, <2>3
    <3> QED
        BY <3>1, <3>2
  <2>7. g = [k \in 0..m |-> g[k]]
      OBVIOUS
  <2>8. Upto(m, g)
    <3> HIDE DEF g
    <3> QED
        BY <2>6, <2>7
  <2> QED
      BY <2>8, <1>4
<1> QED
    BY <1>5, <1>6

LEMMA ShortOnesKept ==
    ASSUME NEW S, NEW ids \in Seq(S)
    PROVE  /\ ShortOnes(ids) \in Seq(S)
           /\ \A x \in ToSet(ids) : x \notin LongIds => x \in ToSet(ShortOnes(ids))
<1> DEFINE L == Len(ids)
<1> DEFINE short == CHOOSE g : g = Shorten(ids, g)
<1>1. L \in Nat /\ ShortOnes(ids) = short[L]
    BY DEF ShortOnes, Shorten
<1>2. short = Shorten(ids, short)
    BY ShortOnesExist
<1>3. \A k \in 0..L : short[k] = IF k = 0 THEN <<>>
            ELSE IF ids[k] \in LongIds THEN short[k - 1] ELSE Append(short[k - 1], ids[k])
  <2> HIDE DEF short
  <2> QED BY <1>2 DEF Shorten
<1> DEFINE Good(k) ==
        /\ short[k] \in Seq(S)
        /\ \A i \in 1..k : ids[i] \notin LongIds => ids[i] \in ToSet(short[k])
<1> DEFINE Bad == {k \in 0..L : ~Good(k)}
<1>4. Bad = {}
  <2>1. SUFFICES ASSUME Bad # {} PROVE FALSE
      OBVIOUS
  <2>2. PICK k \in Bad : \A j \in Bad : k <= j
    <3>1. Bad \subseteq Nat
        BY <1>1
    <3> HIDE DEF Bad
    <3> QED BY <2>1, <3>1, Least
  <2>3. k \in 0..L /\ ~Good(k)
      BY <2>2
  <2>4. k # 0
    <3>1. CASE k = 0
      <4>1. short[0] = <<>>
        <5>1. 0 \in 0..L
            BY <1>1
        <5> HIDE DEF short
        <5> QED BY <1>3, <5>1
      <4>2. Good(0)
        <5> HIDE DEF short
        <5> QED BY <4>1
      <4> QED BY <4>2, <3>1, <2>3
    <3> QED BY <3>1
  <2>5. Good(k - 1)
    <3>1. k - 1 \in 0..L /\ ~(k <= k - 1)
        BY <2>3, <2>4, <1>1
    <3>2. k - 1 \notin Bad
      <4> HIDE DEF Bad
      <4> QED BY <3>1, <2>2
    <3> HIDE DEF Good
    <3> QED BY <3>1, <3>2
  <2>6. short[k] = IF ids[k] \in LongIds THEN short[k - 1] ELSE Append(short[k - 1], ids[k])
    <3> HIDE DEF short
    <3> QED BY <1>3, <2>3, <2>4
  <2>7. k \in 1..L /\ ids[k] \in S
      BY <2>3, <2>4, <1>1
  <2> DEFINE before == short[k - 1]
  <2> DEFINE after == short[k]
  <2>8. /\ before \in Seq(S)
        /\ \A i \in 1..(k - 1) : ids[i] \notin LongIds => ids[i] \in ToSet(before)
      BY <2>5
  <2>9. after = IF ids[k] \in LongIds THEN before ELSE Append(before, ids[k])
      BY <2>6
  <2>10. Good(k)
    <3> HIDE DEF before, after, short
    <3>1. after \in Seq(S)
        BY <2>7, <2>8, <2>9, Appended
    <3>2. ToSet(before) \subseteq ToSet(after)
        BY <2>7, <2>8, <2>9, Appended DEF ToSet
    <3>3. ids[k] \notin LongIds => ids[k] \in ToSet(after)
        BY <2>7, <2>8, <2>9, Appended DEF ToSet
    <3>4. \A i \in 1..k : i \in 1..(k - 1) \/ i = k
        BY <2>7, <1>1
    <3>5. \A i \in 1..k : ids[i] \notin LongIds => ids[i] \in ToSet(after)
        BY <3>2, <3>3, <3>4, <2>8
    <3> QED BY <3>1, <3>5 DEF after
  <2> QED BY <2>3, <2>10
<1>5. Good(L)
  <2>1. L \in 0..L /\ L \notin Bad
      BY <1>1, <1>4
  <2> HIDE DEF Good
  <2> QED BY <2>1
<1>6. DOMAIN ids = 1..L
    OBVIOUS
<1>7. \A x \in ToSet(ids) : x \notin LongIds => x \in ToSet(short[L])
  <2> HIDE DEF short
  <2> QED BY <1>5, <1>6 DEF ToSet
<1> HIDE DEF short
<1> QED
    BY <1>1, <1>5, <1>7

(* What is left for the authenticator is part of the request's list, and   *)
(* has every id that the authenticator may hold.                           *)
LEMMA FilteredKept ==
    ASSUME NEW S, NEW ids \in Seq(S)
    PROVE  /\ filter_oversized_credentials(ids) \in Seq(S)
           /\ \A x \in ToSet(ids) :
                (device.max_id => x \notin LongIds) =>
                    x \in ToSet(filter_oversized_credentials(ids))
    BY ShortOnesKept DEF filter_oversized_credentials

(* A function on the first positions is a sequence.                        *)
LEMMA OnPositions ==
    ASSUME NEW S, NEW m \in Nat, NEW f \in [1..m -> S]
    PROVE  f \in Seq(S)
OBVIOUS

(* The assertions of an authenticator, in whatever order: each once.       *)
LEMMA Listed ==
    ASSUME NEW S, IsFiniteSet(S)
    PROVE  /\ SetToSeq(S) \in Seq(S) /\ Len(SetToSeq(S)) = Cardinality(S)
           /\ Cardinality(S) \in Nat
           /\ \A i, j \in DOMAIN SetToSeq(S) : SetToSeq(S)[i] = SetToSeq(S)[j] => i = j
           /\ S # {} => Cardinality(S) # 0
<1>1. Cardinality(S) \in Nat /\ ExistsBijection(1..Cardinality(S), S)
    BY FS_CardinalityType
<1>2. \E f \in [1..Cardinality(S) -> S] : IsInjective(f)
    BY <1>1 DEF ExistsBijection, Bijection, Injection
<1>3. SetToSeq(S) \in [1..Cardinality(S) -> S] /\ IsInjective(SetToSeq(S))
    BY <1>2 DEF SetToSeq
<1>4. S # {} => Cardinality(S) # 0
    BY FS_EmptySet
<1> QED
    BY <1>1, <1>3, <1>4 DEF IsInjective
-------------------------------------------------------------------------------
(* The inductive invariant.  The types of what TypeOK leaves open.         *)

Try == [id : ToSet(op.list), rp : {Rp, AppIdRp}, legacy : BOOLEAN]
Salts == {"eval", "none"} \cup op.prf.by
AnswerType ==
    [id : {NewId} \cup {c.id : c \in Credentials}, rp : {Rp, AppIdRp, OtherRp}, verified : BOOLEAN,
     prf : Salts, named : BOOLEAN,
     outputs : [rk : {"absent", "unknown", "true", "false"}, blob : {"absent", "true"},
                appid : {"absent", "true", "false"}]]
MadeType ==
    [id : {NewId}, rp : {Rp}, discoverable : BOOLEAN, level : {"open", "verified"}]

Typed ==
    /\ TypeOK
    /\ device \in Devices /\ op \in Requests
    /\ held \subseteq Credentials \cup MadeType
    /\ todo \in Seq(Try) /\ list \in Seq(ToSet(op.list))
    /\ answers \in Seq(AnswerType) /\ remembered \in Seq(AnswerType)
    /\ verified \in BOOLEAN /\ waited \in BOOLEAN /\ retried \in BOOLEAN
    /\ unsure \in BOOLEAN /\ disturbed \in BOOLEAN
    /\ salt \in Salts /\ count \in Nat

(* What is known of the request and of the authenticator at each place.    *)
Placed ==
    /\ pc \in {"info", "preflight", "dummy", "verify", "command", "next"} => device.fido2
    /\ pc \in {"version", "u2f_preflight", "register", "sign"} =>
           ~device.fido2 /\ is_downgradable(op)
    /\ pc \in {"u2f_preflight", "register"} => op.kind = "create"
    /\ pc \in {"dummy", "next", "sign"} => op.kind = "get"
    /\ pc \in {"preflight", "verify", "command"} => ~UnsupportedExtension(op)
    /\ pc \in {"command", "next"} =>
           (UvOf(op) = "required" => verified) /\ salt \in calculate_hmac(op)
    /\ op.kind = "get" /\ pc \in {"verify", "command"} => (list = <<>> => op.list = <<>>)
    /\ pc = "next" => list = <<>> /\ op.list = <<>>
    /\ pc \notin {"next", "done"} => answers = <<>>
    /\ op.kind = "get" \/ pc # "done" => held \subseteq Credentials

(* A credential that bars the request is in the list, or still to be tried *)
(* under its own name, until the one or the other ends the operation.      *)
ToTry(c) == \E k \in DOMAIN todo : todo[k].id = c.id /\ todo[k].rp = Rp

Barring(c) == c.id \in ToSet(op.list) /\ c.rp = Rp /\ Visible(c, FALSE)

StaysOut(c) ==
    /\ pc = "preflight" => c.id \in ToSet(list) \/ ToTry(c)
    /\ pc \in {"verify", "command"} => c.id \in ToSet(list)
    /\ pc = "u2f_preflight" => unsure \/ ToTry(c)
    /\ pc = "register" => unsure
    /\ pc = "done" => unsure \/ ~\E d \in held : d.id = NewId

Barred ==
    /\ \A c \in held : c.id # NewId => (device.max_id => c.id \notin LongIds)
    /\ op.kind = "create" => \A c \in held : Barring(c) => StaysOut(c)

(* A registration's answer describes the credential that was made.         *)
Fits(c) ==
    /\ CredProps(op) = "true" => c.discoverable
    /\ CredProps(op) = "false" => ~c.discoverable
    /\ op.rk = "required" => c.discoverable
    /\ op.protect = "enforced" => c.level = "verified"

Described ==
    op.kind = "create" =>
        /\ outcome = "ok" => answers # <<>>
        /\ answers # <<>> =>
            /\ \E uv \in BOOLEAN : answers = <<Registration(uv)>> /\ (UvOf(op) = "required" => uv)
            /\ \E c \in held : c.id = NewId
            /\ \A c \in held : c.id = NewId => Fits(c)
            /\ op.blob = "required" => device.fido2 /\ device.largeBlobs

(* An assertion is of what was asked, and what the authenticator has left  *)
(* for this client is too.                                                 *)
PrfDue(a) == IF a.id \in op.prf.by THEN a.id ELSE IF op.prf.eval THEN "eval" ELSE "none"

Right(a) ==
    /\ UvOf(op) = "required" => a.verified
    /\ op.appid => (a.outputs.appid = "true" <=> a.rp = AppIdRp)
    /\ (op.prf.asked /\ (NativePrf \/ Supports("hmac-secret"))
        /\ (op.prf.by = {} \/ Len(op.list) = 1)) => a.prf = PrfDue(a)

Genuine(a) ==
    /\ Known(a.id, a.rp) /\ a.outputs.blob = "absent"
    /\ ~disturbed => Right(a)

Fetched ==
    op.kind = "get" =>
        /\ \A i \in DOMAIN answers :
            /\ Genuine(answers[i]) /\ Asked(answers[i])
            /\ op.list # <<>> => answers[i].id \in ToSet(op.list)
        /\ pc = "next" => \A i \in DOMAIN remembered :
            /\ Genuine(remembered[i])
            /\ ~disturbed => remembered[i].rp = Rp
        /\ pc = "sign" => \A k \in DOMAIN todo : (todo[k].rp # Rp \/ todo[k].legacy) => op.appid

(* Until another client comes in between, those that were fetched and      *)
(* those that are left are all there are, each once.                       *)
Different(s) == \A i, j \in DOMAIN s : s[i].id = s[j].id => i = j

Counted ==
    op.kind = "get" /\ ~disturbed =>
        /\ Different(answers)
        /\ pc = "next" =>
            /\ Different(remembered)
            /\ \A i \in DOMAIN answers, j \in DOMAIN remembered : answers[i].id # remembered[j].id
            /\ Len(answers) + Len(remembered) = Cardinality(Assertable)
            /\ count = Capped(Cardinality(Assertable))
        /\ outcome = "ok" /\ op.list = <<>> => Len(answers) = Capped(Cardinality(Assertable))

IInv == Typed /\ Placed /\ Barred /\ Described /\ Fetched /\ Counted

-------------------------------------------------------------------------------
(* Types.                                                                  *)

LEMMA Given ==
    ASSUME op \in Requests, device \in Devices
    PROVE  /\ op.kind \in {"create", "get"} /\ op.appid \in BOOLEAN
           /\ op.list \in Seq(ToSet(op.list)) /\ NewId \notin ToSet(op.list)
           /\ device.max_list \in Nat
    BY OperationAssumption

LEMMA TypedInit == Init => Typed
<1> SUFFICES ASSUME Init PROVE Typed
    OBVIOUS
<1>1. TypeOK
    BY OperationAssumption DEF Init, TypeOK
<1>2. salt \in Salts
    BY DEF Init, Salts
<1>3. held \subseteq Credentials \cup MadeType
    BY DEF Init
<1>4. \A S : <<>> \in Seq(S)
    OBVIOUS
<1>5. /\ todo \in Seq(Try) /\ list \in Seq(ToSet(op.list))
      /\ answers \in Seq(AnswerType) /\ remembered \in Seq(AnswerType)
    BY <1>4 DEF Init
<1>6. /\ device \in Devices /\ op \in Requests /\ count \in Nat
      /\ verified \in BOOLEAN /\ waited \in BOOLEAN /\ retried \in BOOLEAN
      /\ unsure \in BOOLEAN /\ disturbed \in BOOLEAN
    BY DEF Init
<1> QED
    BY <1>1, <1>2, <1>3, <1>5, <1>6 DEF Typed

(* The request and the authenticator stay what they are, and with them the *)
(* types.                                                                  *)
Kept ==
    /\ op' = op /\ device' = device
    /\ Try' = Try /\ AnswerType' = AnswerType /\ Salts' = Salts
    /\ UnsupportedExtension(op)' <=> UnsupportedExtension(op)
    /\ calculate_hmac(op)' = calculate_hmac(op)

LEMMA StaysGiven == Next => Kept
<1> SUFFICES ASSUME Next PROVE Kept
    OBVIOUS
<1>1. op' = op /\ device' = device
    BY DEF Next, Program, negotiate_protocol, ctap2_get_info, preflight_one, dummy,
           user_verification, ctap2_make_credential, ctap2_get_assertion,
           ctap2_get_next_assertion, ctap1_version, ctap1_preflight, send_apdu_request_wait_uv,
           user_action_times_out, ctap1_register, ctap1_sign, CommandFails, TokenRefused,
           another_client_asserts, Same, platform
<1>2. /\ UnsupportedExtension(op)' <=> UnsupportedExtension(op)
      /\ calculate_hmac(op)' = calculate_hmac(op)
    BY <1>1 DEF UnsupportedExtension, calculate_hmac, Supports, NativePrf, prf_to_hmac_input
<1> QED
    BY <1>1, <1>2 DEF Kept, Try, AnswerType, Salts

LEMMA TriesAreTyped ==
    ASSUME NEW ids \in Seq(ToSet(op.list)), NEW legacy \in BOOLEAN
    PROVE  /\ Tries(ids, legacy) \in Seq(Try)
           /\ Len(Tries(ids, legacy)) = Len(ids) /\ DOMAIN Tries(ids, legacy) = DOMAIN ids
           /\ \A i \in DOMAIN ids :
                Tries(ids, legacy)[i] = [id |-> ids[i], rp |-> Rp, legacy |-> legacy]
           /\ ids # <<>> => Tries(ids, legacy) # <<>>
<1>1. Tries(ids, legacy) \in [1..Len(ids) -> Try] /\ Len(ids) \in Nat
    BY DEF Tries, Try
<1> QED
    BY <1>1 DEF Tries

LEMMA NextTryIsTyped ==
    ASSUME todo \in Seq(Try), todo # <<>>
    PROVE  NextTry \in Seq(Try)
<1> DEFINE e == Head(todo)
<1>1. e \in Try /\ Tail(todo) \in Seq(Try)
    BY Split
<1>2. [id |-> e.id, rp |-> AppIdRp, legacy |-> FALSE] \in Try
    BY <1>1 DEF Try
<1>3. todo[1] = e
    BY Split
<1>4. [todo EXCEPT ![1] = [id |-> @.id, rp |-> AppIdRp, legacy |-> FALSE]] \in Seq(Try)
    BY <1>2, <1>3
<1> QED
    BY <1>1, <1>4 DEF NextTry

LEMMA AnswersAreTyped ==
    ASSUME Typed
    PROVE  /\ \A uv \in BOOLEAN : Registration(uv) \in AnswerType
           /\ \A c \in held : c.rp = Rp /\ salt \in Salts => Assertion(c) \in AnswerType
<1> USE DEF Typed
<1>1. \A uv \in BOOLEAN : Registration(uv) \in AnswerType
  <2>1. CredProps(op) \in {"absent", "unknown", "true", "false"}
      BY DEF CredProps
  <2>2. LargeBlobOutput(op) \in {"absent", "true"}
      BY DEF LargeBlobOutput
  <2>3. "none" \in Salts
      BY DEF Salts
  <2> QED
      BY <2>1, <2>2, <2>3 DEF Registration, Answer, NoOutputs, AnswerType
<1>2. ASSUME NEW c \in held, c.rp = Rp
      PROVE  Assertion(c) \in AnswerType
  <2>1. c.id \in {NewId} \cup {d.id : d \in Credentials}
      BY DEF MadeType
  <2>2. PrfOf(c) \in Salts
      BY DEF PrfOf, Salts
  <2>3. Named \in BOOLEAN
      BY DEF Named
  <2>4. FidoAppIdOutput \in {"absent", "true", "false"}
      BY DEF FidoAppIdOutput, AppIdOutput
  <2> QED
      BY <2>1, <2>2, <2>3, <2>4, <1>2 DEF Assertion, Answer, NoOutputs, AnswerType
<1> QED
    BY <1>1, <1>2

(* Where the settling of a list leads.                                     *)
LEMMA SettlingEnds ==
    ASSUME NEW ids, AfterPreflight(ids), outcome = "none"
    PROVE  /\ list' = ids
           /\ \/ pc' = "verify" /\ outcome' = "none"
              \/ pc' = "dummy" /\ outcome' = "none" /\ op.kind = "get"
              \/ pc' = "done" /\ outcome' \in {"NoCredentials", "RequestTooLarge"}
           /\ pc' = "verify" => ~(op.kind = "get" /\ ids = <<>> /\ op.list # <<>>)
    BY DEF AfterPreflight, Settled, Goto, Return

LEMMA MadeAreTyped == MadeOverFido2 \subseteq MadeType /\ MadeOverU2f \in MadeType
<1>1. \A d \in BOOLEAN, level \in {"open", "verified"} : Credential(d, level) \in MadeType
    BY DEF MadeType, Credential
<1>2. MadeOverU2f \in MadeType
    BY <1>1 DEF MadeOverU2f
<1>3. \A c \in MadeOverFido2 : \E d \in BOOLEAN, level \in {"open", "verified"} :
            c = Credential(d, level)
    BY DEF MadeOverFido2
<1> QED
    BY <1>1, <1>2, <1>3

(* The assertions the authenticator can make, in the order it makes them.  *)
LEMMA AssertableAreListed ==
    ASSUME Typed, held \subseteq Credentials
    PROVE  /\ IsFiniteSet(Assertable) /\ Cardinality(Assertable) \in Nat
           /\ SetToSeq(Assertable) \in Seq(Assertable)
           /\ Len(SetToSeq(Assertable)) = Cardinality(Assertable)
           /\ \A i, j \in DOMAIN SetToSeq(Assertable) :
                SetToSeq(Assertable)[i] = SetToSeq(Assertable)[j] => i = j
           /\ Assertable # {} => SetToSeq(Assertable) # <<>>
           /\ \A c \in Assertable : c \in held /\ c.rp = Rp /\ Assertion(c) \in AnswerType
<1>1. Assertable \subseteq held /\ \A c \in Assertable : c.rp = Rp
    BY DEF Assertable
<1>2. IsFiniteSet(Credentials)
    BY OperationAssumption
<1>3. IsFiniteSet(Assertable)
    BY <1>1, <1>2, FS_Subset
<1>4. salt \in Salts
    BY DEF Typed
<1> DEFINE s == SetToSeq(Assertable)
<1>5. /\ s \in Seq(Assertable) /\ Len(s) = Cardinality(Assertable) /\ Cardinality(Assertable) \in Nat
      /\ \A i, j \in DOMAIN s : s[i] = s[j] => i = j
      /\ Assertable # {} => Cardinality(Assertable) # 0
    BY <1>3, Listed
<1>6. Assertable # {} => s # <<>>
  <2> HIDE DEF s
  <2> QED BY <1>5
<1> QED
    BY <1>1, <1>3, <1>4, <1>5, <1>6, AnswersAreTyped

LEMMA ReceivedIsTyped ==
    ASSUME NEW S, NEW a \in S, NEW so_far \in Seq(S), NEW total \in Nat, Received(a, so_far, total),
           answers \in Seq(S), outcome = "none"
    PROVE  /\ answers' \in Seq(S)
           /\ \/ /\ pc' = "done" /\ outcome' = "InvalidDeviceResponse"
                 /\ a.rp # Rp /\ answers' = answers
              \/ /\ pc' = "done" /\ outcome' = "ok" /\ Len(so_far) + 1 >= total
                 /\ a.rp = Rp /\ answers' = Append(so_far, a)
              \/ /\ pc' = "next" /\ outcome' = "none" /\ Len(answers') \in 1..(total - 1)
                 /\ Len(so_far) + 1 < total /\ a.rp = Rp /\ answers' = Append(so_far, a)
<1>1. Len(so_far) \in Nat /\ Append(so_far, a) \in Seq(S)
      /\ Len(Append(so_far, a)) = Len(so_far) + 1
    BY Appended
<1> QED
    BY <1>1 DEF Received, validate_rp_id_hash, Goto, Return

(* Each operation in turn.                                                 *)
LEMMA TypedNext == Typed /\ Placed /\ Next => Typed'
<1> SUFFICES ASSUME Typed, Placed, Next PROVE Typed'
    OBVIOUS
<1>1. Kept
    BY StaysGiven
<1> USE DEF Typed, Kept
<1>2. /\ op.kind \in {"create", "get"} /\ op.appid \in BOOLEAN
      /\ op.list \in Seq(ToSet(op.list)) /\ device.max_list \in Nat
    BY Given
<1>3. op \in Requests /\ device \in Devices /\ \A S : <<>> \in Seq(S)
    OBVIOUS
<1>a. CASE negotiate_protocol
    BY <1>a, <1>1, <1>2 DEF negotiate_protocol, Same, Goto, Return, TypeOK
<1>b. CASE dummy
    BY <1>b, <1>1, <1>2 DEF dummy, Same, Goto, Return, TypeOK
<1>c. CASE send_apdu_request_wait_uv
    BY <1>c, <1>1, <1>2 DEF send_apdu_request_wait_uv, NeedsTouch, Same, Goto, Return, TypeOK
<1>d. CASE user_action_times_out
    BY <1>d, <1>1, <1>2 DEF user_action_times_out, NeedsTouch, Same, Goto, Return, TypeOK
<1>e. CASE TokenRefused
    BY <1>e, <1>1, <1>2, OperationAssumption DEF TokenRefused, Goto, Return, TypeOK
<1>f. CASE ctap1_version
  <2>1. (op.kind = "get" /\ op.appid) \in BOOLEAN
      BY <1>2
  <2>2. Tries(op.list, op.kind = "get" /\ op.appid) \in Seq(Try)
        /\ (op.list # <<>> => Tries(op.list, op.kind = "get" /\ op.appid) # <<>>)
      BY <1>2, <2>1, TriesAreTyped
  <2>3. todo' \in Seq(Try) /\ (op.list # <<>> => todo' # <<>>)
      BY <1>f, <2>2 DEF ctap1_version
  <2>4. op.kind = "get" => op.list # <<>>
      BY <1>f, <1>2 DEF Placed, is_downgradable, is_downgradable_assertion, ctap1_version
  <2>5. pc' \in {"sign", "u2f_preflight", "register"} /\ outcome' = "none"
        /\ (pc' # "register" => op.list # <<>>)
      BY <1>f, <2>4 DEF ctap1_version, Goto, TypeOK
  <2> QED
      BY <1>f, <1>1, <1>2, <2>3, <2>5 DEF ctap1_version, Same, TypeOK
<1>g. CASE ctap2_get_info
  <2> DEFINE ids == filter_oversized_credentials(op.list)
  <2>1. ids \in Seq(ToSet(op.list))
      BY <1>2, FilteredKept
  <2>2. outcome = "none" /\ pc = "info"
      BY <1>g DEF ctap2_get_info, TypeOK
  <2>3. (op.kind = "create" /\ op.appid) \in BOOLEAN
      BY <1>2
  <2>4. Tries(ids, op.kind = "create" /\ op.appid) \in Seq(Try)
        /\ (ids # <<>> => Tries(ids, op.kind = "create" /\ op.appid) # <<>>)
    <3> HIDE DEF ids
    <3> QED BY <2>1, <2>3, TriesAreTyped
  <2>5. \/ pc' = "done" /\ outcome' \in {"UnsupportedExtension", "NotSupported"}
           /\ todo' = todo /\ list' = list
        \/ pc' = "preflight" /\ outcome' = "none" /\ todo' \in Seq(Try) /\ todo' # <<>>
           /\ list' = <<>>
        \/ AfterPreflight(ids) /\ todo' = todo
    <3> HIDE DEF ids
    <3> QED BY <1>g, <2>2, <2>4 DEF ctap2_get_info, Goto, Return, ids
  <2>6. todo' \in Seq(Try) /\ list' \in Seq(ToSet(op.list))
        /\ \/ pc' \in {"verify", "dummy"} /\ outcome' = "none"
           \/ pc' = "preflight" /\ outcome' = "none" /\ todo' # <<>>
           \/ pc' = "done" /\ outcome' \in {"UnsupportedExtension", "NotSupported",
                                            "NoCredentials", "RequestTooLarge"}
    <3> HIDE DEF ids
    <3>1. AfterPreflight(ids) => list' = ids /\
            \/ pc' \in {"verify", "dummy"} /\ outcome' = "none"
            \/ pc' = "done" /\ outcome' \in {"NoCredentials", "RequestTooLarge"}
        BY <2>2, SettlingEnds
    <3>2. list' = <<>> => list' \in Seq(ToSet(op.list))
        BY <1>3
    <3> QED BY <2>1, <2>5, <3>1, <3>2
  <2> QED
      BY <1>g, <1>1, <1>2, <2>6 DEF ctap2_get_info, Same, TypeOK
<1>h. CASE preflight_one
  <2> DEFINE found == SilentlyKnown(Head(todo).id, Head(todo).rp)
  <2> DEFINE kept == IF found THEN Append(list, Head(todo).id) ELSE list
  <2> DEFINE rest == IF found THEN Tail(todo) ELSE NextTry
  <2>1. pc = "preflight" /\ outcome = "none" /\ todo # <<>> /\ todo \in Seq(Try)
      BY <1>h DEF preflight_one, TypeOK
  <2>2. Head(todo).id \in ToSet(op.list)
    <3>1. Head(todo) \in Try
        BY <2>1, Split
    <3> QED BY <3>1 DEF Try
  <2>3. kept \in Seq(ToSet(op.list))
      BY <2>2, Appended
  <2>4. rest \in Seq(Try)
      BY <2>1, Split, NextTryIsTyped
  <2>5. todo' = rest /\ (rest = <<>> => AfterPreflight(kept))
        /\ (rest # <<>> => pc' = "preflight" /\ outcome' = outcome /\ list' = kept)
      BY <1>h DEF preflight_one, Goto
  <2>6. todo' \in Seq(Try) /\ list' \in Seq(ToSet(op.list))
        /\ \/ pc' \in {"verify", "dummy"} /\ outcome' = "none"
           \/ pc' = "preflight" /\ outcome' = "none" /\ todo' # <<>>
           \/ pc' = "done" /\ outcome' \in {"NoCredentials", "RequestTooLarge"}
    <3> HIDE DEF kept, rest
    <3> QED BY <2>1, <2>3, <2>4, <2>5, SettlingEnds
  <2> QED
      BY <1>h, <1>1, <1>2, <2>6 DEF preflight_one, Same, TypeOK
<1>i. CASE user_verification
  <2>1. calculate_hmac(op) \subseteq Salts
      BY DEF calculate_hmac, prf_to_hmac_input, Salts
  <2>2. verified' \in BOOLEAN /\ salt' \in Salts
      BY <1>i, <2>1 DEF user_verification
  <2>3. \/ pc' = "command" /\ outcome' = "none"
        \/ pc' = "done" /\ outcome' = "NotSupported"
      BY <1>i DEF user_verification, Goto, Return, TypeOK
  <2> QED
      BY <1>i, <1>1, <1>2, <2>2, <2>3 DEF user_verification, Same, TypeOK
<1>j. CASE ctap2_make_credential
  <2>1. held' \subseteq Credentials \cup MadeType
      BY <1>j, MadeAreTyped DEF ctap2_make_credential
  <2>2. answers' \in Seq(AnswerType)
    <3>1. Registration(verified) \in AnswerType
        BY AnswersAreTyped
    <3>2. <<Registration(verified)>> \in Seq(AnswerType)
        BY <3>1, Single
    <3> QED BY <1>j, <3>2 DEF ctap2_make_credential
  <2>3. pc' = "done" /\ outcome' \in {"CredentialExcluded", "UnsupportedOption", "ok"}
      BY <1>j DEF ctap2_make_credential, Return
  <2> QED
      BY <1>j, <1>1, <1>2, <2>1, <2>2, <2>3 DEF ctap2_make_credential, TypeOK
<1>k. CASE ctap2_get_assertion
  <2>1. /\ pc = "command" /\ outcome = "none" /\ held \subseteq Credentials /\ answers = <<>>
        /\ answers \in Seq(AnswerType)
      BY <1>k DEF ctap2_get_assertion, Placed, TypeOK
  <2>2. \A k \in Nat : Capped(k) \in Nat
      BY <1>2 DEF Capped
  <2>3. /\ answers' \in Seq(AnswerType) /\ remembered' \in Seq(AnswerType) /\ count' \in Nat
        /\ \/ pc' = "done" /\ outcome' \in {"NoCredentials", "InvalidDeviceResponse", "ok"}
           \/ pc' = "next" /\ outcome' = "none" /\ Len(answers') \in 1..(count' - 1)
    <3>1. CASE Assertable = {}
        BY <1>k, <3>1 DEF ctap2_get_assertion, Return
    <3>2. CASE Assertable # {} /\ list # <<>>
      <4>1. PICK c \in Assertable : count' = 1 /\ remembered' = <<>> /\ Received(Assertion(c), <<>>, 1)
          BY <1>k, <3>2 DEF ctap2_get_assertion
      <4>2. Assertion(c) \in AnswerType
          BY <2>1, AssertableAreListed
      <4> DEFINE first == Assertion(c)
      <4>3. first \in AnswerType /\ Received(first, <<>>, 1)
          BY <4>1, <4>2
      <4> HIDE DEF first
      <4> QED BY <2>1, <4>1, <4>3, <1>3, ReceivedIsTyped
    <3>3. CASE Assertable # {} /\ list = <<>>
      <4> DEFINE all == SetToSeq(Assertable)
      <4> DEFINE first == Assertion(Head(all))
      <4> DEFINE rest == [i \in DOMAIN Tail(all) |-> Assertion(Tail(all)[i])]
      <4>1. remembered' = rest /\ count' = Capped(Len(all)) /\ Received(first, <<>>, Capped(Len(all)))
          BY <1>k, <3>3 DEF ctap2_get_assertion
      <4>2. /\ all \in Seq(Assertable) /\ all # <<>>
            /\ \A c \in Assertable : Assertion(c) \in AnswerType
          BY <3>3, <2>1, AssertableAreListed
      <4>3. Head(all) \in Assertable /\ Tail(all) \in Seq(Assertable) /\ Len(all) \in Nat
        <5> HIDE DEF all
        <5> QED BY <4>2, Split
      <4>4. first \in AnswerType /\ rest \in Seq(AnswerType)
        <5> HIDE DEF all
        <5>1. rest \in [1..Len(Tail(all)) -> AnswerType] /\ Len(Tail(all)) \in Nat
            BY <4>2, <4>3
        <5> QED BY <4>2, <4>3, <5>1
      <4>5. Capped(Len(all)) \in Nat
        <5> HIDE DEF all
        <5> QED BY <4>3, <2>2
      <4> HIDE DEF first, rest, all
      <4> QED BY <2>1, <4>1, <4>4, <4>5, <1>3, ReceivedIsTyped
    <3> QED BY <3>1, <3>2, <3>3
  <2> QED
      BY <1>k, <1>1, <1>2, <2>3 DEF ctap2_get_assertion, TypeOK
<1>l. CASE ctap2_get_next_assertion
  <2>1. pc = "next" /\ outcome = "none"
      BY <1>l DEF ctap2_get_next_assertion, TypeOK
  <2>2. /\ answers' \in Seq(AnswerType) /\ remembered' \in Seq(AnswerType) /\ count' = count
        /\ \/ pc' = "done" /\ outcome' \in {"NotAllowed", "InvalidDeviceResponse", "ok"}
           \/ pc' = "next" /\ outcome' = "none" /\ Len(answers') \in 1..(count' - 1)
    <3>1. CASE remembered = <<>>
        BY <1>l, <3>1 DEF ctap2_get_next_assertion, Return
    <3>2. CASE remembered # <<>>
      <4>1. remembered' = Tail(remembered) /\ Received(Head(remembered), answers, count)
            /\ count' = count
          BY <1>l, <3>2 DEF ctap2_get_next_assertion
      <4>2. Head(remembered) \in AnswerType /\ Tail(remembered) \in Seq(AnswerType)
          BY <3>2, Split
      <4> QED BY <2>1, <4>1, <4>2, ReceivedIsTyped
    <3> QED BY <3>1, <3>2
  <2> QED
      BY <1>l, <1>1, <1>2, <2>2 DEF ctap2_get_next_assertion, TypeOK
<1>m. CASE ctap1_preflight
  <2>1. /\ todo # <<>> /\ outcome = "none" /\ Tail(todo) \in Seq(Try)
      BY <1>m, Split DEF ctap1_preflight, TypeOK
  <2>2. /\ todo' \in Seq(Try)
        /\ \/ pc' = "done" /\ outcome' = "CredentialExcluded"
           \/ pc' = "register" /\ outcome' = "none"
           \/ pc' = "u2f_preflight" /\ outcome' = "none" /\ todo' # <<>>
      BY <1>m, <2>1 DEF ctap1_preflight, NextPreflight, Goto, Return
  <2> QED
      BY <1>m, <1>1, <1>2, <2>2 DEF ctap1_preflight, Same, TypeOK
<1>n. CASE ctap1_register
  <2>1. held' \subseteq Credentials \cup MadeType
      BY <1>n, MadeAreTyped DEF ctap1_register
  <2>2. <<Registration(FALSE)>> \in Seq(AnswerType)
    <3>1. Registration(FALSE) \in AnswerType
        BY AnswersAreTyped
    <3> QED BY <3>1, Single
  <2> QED
      BY <1>n, <1>1, <1>2, <2>1, <2>2 DEF ctap1_register, Return, TypeOK
<1>o. CASE ctap1_sign
  <2>1. /\ todo # <<>> /\ outcome = "none" /\ Head(todo) \in Try /\ NextTry \in Seq(Try)
      BY <1>o, Split, NextTryIsTyped DEF ctap1_sign, TypeOK
  <2>2. Known(Head(todo).id, Head(todo).rp) =>
            [Answer(Head(todo).id, Head(todo).rp, FALSE, "none")
                EXCEPT !.outputs.appid = AppIdOutput(op, Head(todo).rp = AppIdRp)] \in AnswerType
    <3> SUFFICES ASSUME Known(Head(todo).id, Head(todo).rp)
                 PROVE  [Answer(Head(todo).id, Head(todo).rp, FALSE, "none")
                            EXCEPT !.outputs.appid = AppIdOutput(op, Head(todo).rp = AppIdRp)]
                        \in AnswerType
        OBVIOUS
    <3>1. Head(todo).id \in {NewId} \cup {d.id : d \in Credentials}
        BY DEF Known, MadeType
    <3>2. Head(todo).rp \in {Rp, AppIdRp, OtherRp}
        BY <2>1 DEF Try
    <3>3. AppIdOutput(op, Head(todo).rp = AppIdRp) \in {"absent", "true", "false"}
        BY DEF AppIdOutput
    <3> QED BY <3>1, <3>2, <3>3 DEF Answer, NoOutputs, AnswerType, Salts
  <2>3. /\ todo' \in Seq(Try) /\ answers' \in Seq(AnswerType) /\ waited' \in BOOLEAN
        /\ \/ pc' = "done" /\ outcome' \in {"ok", "NoCredentials"}
           \/ pc' = "sign" /\ outcome' = "none" /\ todo' # <<>>
    <3>1. CASE Known(Head(todo).id, Head(todo).rp)
      <4>1. answers' = <<[Answer(Head(todo).id, Head(todo).rp, FALSE, "none")
                EXCEPT !.outputs.appid = AppIdOutput(op, Head(todo).rp = AppIdRp)]>>
          BY <1>o, <3>1 DEF ctap1_sign
      <4>2. answers' \in Seq(AnswerType)
          BY <2>2, <3>1, <4>1, Single
      <4> QED BY <1>o, <3>1, <4>2 DEF ctap1_sign, Return
    <3>2. CASE ~Known(Head(todo).id, Head(todo).rp)
        BY <1>o, <2>1, <3>2 DEF ctap1_sign, Goto, Return
    <3> QED BY <3>1, <3>2
  <2> QED
      BY <1>o, <1>1, <1>2, <2>3 DEF ctap1_sign, Same, TypeOK
<1>p. CASE CommandFails
  <2>1. outcome = "none" /\ n' \in 0..MaxFailures
      BY <1>p, OperationAssumption DEF CommandFails, TypeOK
  <2>2. held' \subseteq Credentials \cup MadeType
      BY <1>p, MadeAreTyped DEF CommandFails
  <2>3. /\ todo' \in Seq(Try) /\ unsure' \in BOOLEAN
        /\ \/ pc' = "done" /\ outcome' = "failed"
           \/ pc' = "register" /\ outcome' = "none"
           \/ pc' = "u2f_preflight" /\ outcome' = "none" /\ todo' # <<>>
    <3>1. CASE pc = "u2f_preflight"
      <4>1. todo # <<>> /\ Tail(todo) \in Seq(Try)
          BY <3>1, Split DEF TypeOK
      <4> QED BY <1>p, <2>1, <3>1, <4>1 DEF CommandFails, NextPreflight, Goto
    <3>2. CASE pc # "u2f_preflight"
        BY <1>p, <3>2 DEF CommandFails, Return
    <3> QED BY <3>1, <3>2
  <2> QED
      BY <1>p, <1>1, <1>2, <2>1, <2>2, <2>3 DEF CommandFails, TypeOK
<1>q. CASE another_client_asserts
  <2>1. remembered' \in Seq(AnswerType)
    <3>1. PICK rp \in {Rp, OtherRp} :
            LET theirs == SetToSeq({c \in held : c.rp = rp /\ c.discoverable})
            IN  remembered' = [i \in DOMAIN theirs |-> Answer(theirs[i].id, rp, FALSE, "none")]
        BY <1>q DEF another_client_asserts
    <3> DEFINE theirs == SetToSeq({c \in held : c.rp = rp /\ c.discoverable})
    <3>2. held \subseteq Credentials
        BY <1>q DEF another_client_asserts, Placed
    <3>3. IsFiniteSet({c \in held : c.rp = rp /\ c.discoverable})
        BY <3>2, OperationAssumption, FS_Subset
    <3>4. theirs \in Seq({c \in held : c.rp = rp /\ c.discoverable})
        BY <3>3, Listed
    <3>5. theirs \in Seq(Credentials)
        BY <3>2, <3>4
    <3>6. \A c \in Credentials : Answer(c.id, rp, FALSE, "none") \in AnswerType
        BY DEF Answer, NoOutputs, AnswerType, Salts
    <3>7. remembered' = [i \in DOMAIN theirs |-> Answer(theirs[i].id, rp, FALSE, "none")]
        BY <3>1
    <3> HIDE DEF theirs
    <3>8. remembered' \in [1..Len(theirs) -> AnswerType] /\ Len(theirs) \in Nat
      <4>1. /\ DOMAIN theirs = 1..Len(theirs) /\ Len(theirs) \in Nat
            /\ \A i \in DOMAIN theirs : theirs[i] \in Credentials
          BY <3>5
      <4>2. \A i \in DOMAIN theirs : Answer(theirs[i].id, rp, FALSE, "none") \in AnswerType
          BY <3>6, <4>1
      <4> QED BY <3>7, <4>1, <4>2
    <3> QED BY <3>8, OnPositions
  <2> QED
      BY <1>q, <1>1, <1>2, <2>1 DEF another_client_asserts, platform, TypeOK
<1> QED
    BY <1>a, <1>b, <1>c, <1>d, <1>e, <1>f, <1>g, <1>h, <1>i, <1>j, <1>k, <1>l, <1>m, <1>n, <1>o,
       <1>p, <1>q DEF Next, Program

-------------------------------------------------------------------------------
(* Places.                                                                 *)

LEMMA PlacedInit == Init => Placed
    BY DEF Init, Placed

LEMMA PlacedNext == Typed /\ Placed /\ Next => Placed'
<1> SUFFICES ASSUME Typed, Placed, Next PROVE Placed'
    OBVIOUS
<1>1. Kept
    BY StaysGiven
<1>2. op' = op /\ device' = device /\ op.kind \in {"create", "get"}
    BY <1>1, Given DEF Kept, Typed
<1>3. /\ UnsupportedExtension(op)' <=> UnsupportedExtension(op)
      /\ calculate_hmac(op)' = calculate_hmac(op)
    BY <1>1 DEF Kept
<1>a. CASE negotiate_protocol
    BY <1>a, <1>2 DEF negotiate_protocol, Same, Goto, Return, Placed
<1>b. CASE ctap2_get_info
  <2> DEFINE ids == filter_oversized_credentials(op.list)
  <2>1. outcome = "none" /\ pc = "info" /\ Same /\ answers' = answers
      BY <1>b DEF ctap2_get_info, Typed, TypeOK
  <2>2. \/ pc' = "done"
        \/ pc' = "preflight" /\ ~UnsupportedExtension(op)
        \/ AfterPreflight(ids) /\ ~UnsupportedExtension(op)
    <3> HIDE DEF ids
    <3> QED BY <1>b DEF ctap2_get_info, Goto, Return, ids
  <2>3. \/ pc' = "done"
        \/ pc' \in {"preflight", "verify"} /\ ~UnsupportedExtension(op)
            /\ (pc' = "verify" => list' = ids /\ ~(op.kind = "get" /\ ids = <<>> /\ op.list # <<>>))
        \/ pc' = "dummy" /\ op.kind = "get"
    <3> HIDE DEF ids
    <3> QED BY <2>1, <2>2, SettlingEnds
  <2> HIDE DEF ids
  <2> QED BY <2>1, <2>3, <1>2, <1>3 DEF Same, Placed
<1>c. CASE preflight_one
  <2> DEFINE kept == IF SilentlyKnown(Head(todo).id, Head(todo).rp)
                     THEN Append(list, Head(todo).id) ELSE list
  <2>1. outcome = "none" /\ pc = "preflight" /\ Same /\ answers' = answers
      BY <1>c DEF preflight_one, Typed, TypeOK
  <2>2. pc' = "preflight" \/ AfterPreflight(kept)
      BY <1>c DEF preflight_one, Goto
  <2>3. \/ pc' \in {"done", "preflight"}
        \/ pc' = "verify" /\ list' = kept /\ ~(op.kind = "get" /\ kept = <<>> /\ op.list # <<>>)
        \/ pc' = "dummy" /\ op.kind = "get"
    <3> HIDE DEF kept
    <3> QED BY <2>1, <2>2, SettlingEnds
  <2> HIDE DEF kept
  <2> QED BY <2>1, <2>3, <1>2, <1>3 DEF Same, Placed
<1>d. CASE dummy
    BY <1>d, <1>2 DEF dummy, Same, Return, Placed
<1>e. CASE user_verification
  <2>1. /\ pc = "verify" /\ Same /\ UNCHANGED <<list, answers>>
        /\ \/ pc' = "done"
           \/ /\ pc' = "command" /\ salt' \in calculate_hmac(op)
              /\ UvOf(op) = "required" => verified'
      BY <1>e DEF user_verification, Goto, Return
  <2> QED BY <2>1, <1>2, <1>3 DEF Same, Placed
<1>f. CASE ctap2_make_credential
    BY <1>f, <1>2 DEF ctap2_make_credential, Return, Placed
<1>g. CASE ctap2_get_assertion
  <2>1. pc = "command" /\ op.kind = "get" /\ UNCHANGED <<held, list, verified, salt>>
        /\ answers = <<>> /\ outcome = "none" /\ answers \in Seq(AnswerType)
      BY <1>g DEF ctap2_get_assertion, Placed, Typed, TypeOK
  <2>2. pc' = "done" \/ (pc' = "next" /\ list = <<>>)
    <3>1. CASE Assertable = {}
        BY <1>g, <3>1 DEF ctap2_get_assertion, Return
    <3>2. CASE Assertable # {} /\ list # <<>>
      <4>1. \E a : Received(a, <<>>, 1)
          BY <1>g, <3>2 DEF ctap2_get_assertion
      <4>2. Len(<<>>) + 1 >= 1
          OBVIOUS
      <4> QED BY <4>1, <4>2 DEF Received, Return
    <3>3. CASE Assertable # {} /\ list = <<>>
      <4>1. \E a, total : Received(a, <<>>, total)
          BY <1>g, <3>3 DEF ctap2_get_assertion
      <4> QED BY <4>1, <3>3 DEF Received, Goto, Return
    <3> QED BY <3>1, <3>2, <3>3
  <2> QED BY <2>1, <2>2, <1>2, <1>3 DEF Placed
<1>h. CASE ctap2_get_next_assertion
  <2>1. pc = "next" /\ UNCHANGED <<held, list, verified, salt>> /\ pc' \in {"next", "done"}
      BY <1>h DEF ctap2_get_next_assertion, Received, Goto, Return
  <2> QED BY <2>1, <1>2, <1>3 DEF Placed
<1>i. CASE ctap1_version
    BY <1>i, <1>2 DEF ctap1_version, Same, Goto, Placed
<1>j. CASE ctap1_preflight
    BY <1>j, <1>2 DEF ctap1_preflight, NextPreflight, Same, Goto, Return, Placed
<1>k. CASE send_apdu_request_wait_uv
    BY <1>k, <1>2, <1>3 DEF send_apdu_request_wait_uv, Same, Placed
<1>l. CASE user_action_times_out
    BY <1>l, <1>2 DEF user_action_times_out, Same, Return, Placed
<1>m. CASE ctap1_register
    BY <1>m, <1>2 DEF ctap1_register, Return, Placed
<1>n. CASE ctap1_sign
    BY <1>n, <1>2 DEF ctap1_sign, Same, Goto, Return, Placed
<1>o. CASE CommandFails
  <2>1. UNCHANGED <<list, verified, salt, answers>>
        /\ \/ pc' = "done"
           \/ pc = "u2f_preflight" /\ pc' \in {"u2f_preflight", "register"}
      BY <1>o DEF CommandFails, NextPreflight, Goto, Return
  <2>2. op.kind = "get" \/ pc = "u2f_preflight" => held' = held
      BY <1>o, <1>2 DEF CommandFails, Placed
  <2> QED BY <2>1, <2>2, <1>2, <1>3 DEF Placed
<1>p. CASE TokenRefused
    BY <1>p, <1>2, <1>3 DEF TokenRefused, Goto, Placed
<1>q. CASE another_client_asserts
    BY <1>q, <1>2, <1>3 DEF another_client_asserts, platform, Placed
<1> QED
    BY <1>a, <1>b, <1>c, <1>d, <1>e, <1>f, <1>g, <1>h, <1>i, <1>j, <1>k, <1>l, <1>m, <1>n, <1>o,
       <1>p, <1>q DEF Next, Program

-------------------------------------------------------------------------------
(* Excluded credentials.                                                   *)

(* Credentials are only added, and that ends the operation.                *)
LEMMA HeldGrows ==
    Typed /\ Placed /\ Next =>
        /\ pc # "done" /\ held \subseteq held'
        /\ \A c \in held' : c \in held \/ (c.id = NewId /\ op.kind = "create")
        /\ pc' # "done" => held' = held
        /\ \A c \in held : c.id # NewId
<1> SUFFICES ASSUME Typed, Placed, Next
             PROVE  /\ pc # "done" /\ held \subseteq held'
                    /\ \A c \in held' : c \in held \/ (c.id = NewId /\ op.kind = "create")
                    /\ pc' # "done" => held' = held
                    /\ \A c \in held : c.id # NewId
    OBVIOUS
<1>1. \A c \in MadeOverFido2 \cup {MadeOverU2f} : c.id = NewId
    BY MadeAreTyped DEF MadeType
<1>2. pc # "done"
    BY DEF Next, Program, negotiate_protocol, ctap2_get_info, preflight_one, dummy,
           user_verification, ctap2_make_credential, ctap2_get_assertion,
           ctap2_get_next_assertion, ctap1_version, ctap1_preflight, send_apdu_request_wait_uv,
           user_action_times_out, NeedsTouch, ctap1_register, ctap1_sign, CommandFails,
           TokenRefused, another_client_asserts
<1>3. \A c \in held : c.id # NewId
    BY <1>2, OperationAssumption DEF Placed
<1>4. \/ held' = held
      \/ /\ pc' = "done" /\ op.kind = "create"
         /\ \E c \in MadeOverFido2 \cup {MadeOverU2f} : held' = held \cup {c}
  <2>1. CASE ctap2_make_credential
      BY <2>1 DEF ctap2_make_credential, Return
  <2>2. CASE ctap1_register
      BY <2>2 DEF ctap1_register, Return, Placed
  <2>3. CASE CommandFails
      BY <2>3 DEF CommandFails, Return, Placed
  <2>4. CASE ~ctap2_make_credential /\ ~ctap1_register /\ ~CommandFails
      BY <2>4 DEF Next, Program, negotiate_protocol, ctap2_get_info, preflight_one, dummy,
           user_verification, ctap2_get_assertion,
           ctap2_get_next_assertion, ctap1_version, ctap1_preflight, send_apdu_request_wait_uv,
           user_action_times_out, ctap1_sign, TokenRefused, another_client_asserts, Same
  <2> QED BY <2>1, <2>2, <2>3, <2>4
<1> QED
    BY <1>1, <1>2, <1>3, <1>4

(* What is to be tried after the first stays to be tried.                  *)
LEMMA LaterTries ==
    ASSUME todo \in Seq(Try), todo # <<>>, NEW k \in DOMAIN todo, k # 1
    PROVE  /\ \E j \in DOMAIN Tail(todo) : Tail(todo)[j] = todo[k]
           /\ \E j \in DOMAIN NextTry : NextTry[j] = todo[k]
<1>1. k - 1 \in DOMAIN Tail(todo) /\ Tail(todo)[k - 1] = todo[k]
    BY Split
<1>2. CASE Head(todo).legacy
  <2>1. k \in DOMAIN NextTry /\ NextTry[k] = todo[k]
      BY <1>2 DEF NextTry
  <2> QED BY <1>1, <2>1
<1>3. CASE ~Head(todo).legacy
    BY <1>1, <1>3 DEF NextTry
<1> QED
    BY <1>2, <1>3

LEMMA BarredInit == Init => Barred
    BY DEF Init, Barred, StaysOut

LEMMA BarredNext == Typed /\ Placed /\ Barred /\ Next => Barred'
<1> SUFFICES ASSUME Typed, Placed, Barred, Next PROVE Barred'
    OBVIOUS
<1>1. Kept
    BY StaysGiven
<1>2. /\ op' = op /\ device' = device /\ op.kind \in {"create", "get"}
      /\ op.list \in Seq(ToSet(op.list)) /\ NewId \notin ToSet(op.list)
    BY <1>1, Given DEF Kept, Typed
<1>3. /\ pc # "done"
      /\ \A c \in held' : c \in held \/ (c.id = NewId /\ op.kind = "create")
      /\ pc' # "done" => held' = held
      /\ \A c \in held : c.id # NewId
    BY HeldGrows
<1>4. \A c \in held' : c.id # NewId => (device'.max_id => c.id \notin LongIds)
    BY <1>2, <1>3 DEF Barred
<1>5. ASSUME op.kind = "create", NEW c \in held', Barring(c)
      PROVE  StaysOut(c)'
  <2>1. c \in held /\ c.id \in ToSet(op.list) /\ c.rp = Rp /\ Visible(c, FALSE)
      BY <1>2, <1>3, <1>5 DEF Barring
  <2>2. StaysOut(c) /\ (device.max_id => c.id \notin LongIds)
      BY <1>3, <1>5, <2>1 DEF Barred
  <2>3. SilentlyKnown(c.id, Rp) /\ Known(c.id, Rp)
      BY <2>1 DEF SilentlyKnown, Known
  <2>4. pc' = "done" /\ held' = held => StaysOut(c)'
      BY <1>3 DEF StaysOut
  <2>5. todo \in Seq(Try) /\ list \in Seq(ToSet(op.list)) /\ (pc = "preflight" => todo # <<>>)
        /\ (pc = "u2f_preflight" => todo # <<>>)
      BY DEF Typed, TypeOK
  <2>a. CASE negotiate_protocol
      BY <2>a, <2>4 DEF negotiate_protocol, Goto, Return, Same, StaysOut
  <2>b. CASE ctap2_get_info
    <3> DEFINE ids == filter_oversized_credentials(op.list)
    <3>1. c.id \in ToSet(ids) /\ ids \in Seq(ToSet(op.list))
        BY <1>2, <2>1, <2>2, FilteredKept
    <3>2. held' = held /\ outcome = "none"
        BY <2>b DEF ctap2_get_info, Same, Typed, TypeOK
    <3>3. \/ pc' = "done"
          \/ pc' = "preflight" /\ todo' = Tries(ids, op.kind = "create" /\ op.appid)
          \/ AfterPreflight(ids)
      <4> HIDE DEF ids
      <4> QED BY <2>b DEF ctap2_get_info, Goto, Return, ids
    <3>4. CASE pc' = "preflight" /\ todo' = Tries(ids, op.kind = "create" /\ op.appid)
      <4> DEFINE tries == Tries(ids, op.kind = "create" /\ op.appid)
      <4>1. PICK k \in DOMAIN ids : ids[k] = c.id
        <5> HIDE DEF ids
        <5> QED BY <3>1 DEF ToSet
      <4>2. k \in DOMAIN tries /\ tries[k].id = c.id /\ tries[k].rp = Rp
        <5> HIDE DEF ids
        <5> QED BY <4>1 DEF Tries
      <4>3. k \in DOMAIN todo' /\ todo'[k].id = c.id /\ todo'[k].rp = Rp
          BY <3>4, <4>2
      <4> QED BY <3>4, <4>3 DEF StaysOut, ToTry
    <3>5. CASE AfterPreflight(ids)
      <4>1. list' = ids /\ pc' \in {"verify", "done"}
        <5> HIDE DEF ids
        <5> QED BY <1>5, <3>2, <3>5, SettlingEnds
      <4>2. c.id \in ToSet(list')
        <5> HIDE DEF ids
        <5> QED BY <3>1, <4>1
      <4> QED BY <4>1, <4>2, <3>2, <2>4 DEF StaysOut
    <3> QED BY <3>2, <3>3, <3>4, <3>5, <2>4
  <2>c. CASE preflight_one
    <3> DEFINE found == SilentlyKnown(Head(todo).id, Head(todo).rp)
    <3> DEFINE kept == IF found THEN Append(list, Head(todo).id) ELSE list
    <3> DEFINE rest == IF found THEN Tail(todo) ELSE NextTry
    <3>1. /\ todo' = rest /\ held' = held /\ todo # <<>> /\ outcome = "none" /\ pc = "preflight"
          /\ \/ rest = <<>> /\ AfterPreflight(kept)
             \/ rest # <<>> /\ pc' = "preflight" /\ list' = kept
        BY <2>c DEF preflight_one, Goto, Same, Typed, TypeOK
    <3>2. Head(todo).id \in ToSet(op.list) /\ Head(todo) = todo[1]
      <4>1. Head(todo) \in Try /\ Head(todo) = todo[1]
          BY <2>5, <3>1, Split
      <4> QED BY <4>1 DEF Try
    <3>3. \A x \in ToSet(list) : x \in ToSet(kept)
        BY <2>5, <3>2, Appended DEF ToSet
    <3>4. found => Head(todo).id \in ToSet(kept)
        BY <2>5, <3>2, Appended DEF ToSet
    <3>5. c.id \in ToSet(kept) \/ \E j \in DOMAIN rest : rest[j].id = c.id /\ rest[j].rp = Rp
      <4>1. c.id \in ToSet(list) \/ ToTry(c)
          BY <2>2, <3>1 DEF StaysOut
      <4>2. CASE c.id \in ToSet(list)
          BY <4>2, <3>3
      <4>3. CASE ToTry(c)
        <5>1. PICK k \in DOMAIN todo : todo[k].id = c.id /\ todo[k].rp = Rp
            BY <4>3 DEF ToTry
        <5>2. CASE k = 1
            BY <5>1, <5>2, <3>2, <3>4, <2>3
        <5>3. CASE k # 1
          <6>1. \E j \in DOMAIN rest : rest[j] = todo[k]
              BY <5>3, <2>5, <3>1, LaterTries
          <6> HIDE DEF rest
          <6> QED BY <5>1, <6>1
        <5> QED BY <5>2, <5>3
      <4> QED BY <4>1, <4>2, <4>3
    <3> HIDE DEF kept, rest, found
    <3>6. CASE rest # <<>>
        BY <3>1, <3>5, <3>6 DEF StaysOut, ToTry
    <3>7. CASE rest = <<>>
      <4>1. list' = kept /\ pc' \in {"verify", "done"}
          BY <1>5, <3>1, <3>7, SettlingEnds
      <4>2. c.id \in ToSet(kept)
          BY <3>5, <3>7
      <4> QED BY <4>1, <4>2, <3>1, <2>4 DEF StaysOut
    <3> QED BY <3>6, <3>7
  <2>d. CASE dummy
      BY <2>d, <1>5 DEF dummy, Placed
  <2>e. CASE user_verification
      BY <2>e, <2>2, <2>4 DEF user_verification, Goto, Return, Same, StaysOut
  <2>f. CASE ctap2_make_credential
    <3>1. c.id \in ToSet(list) /\ Visible(c, verified)
        BY <2>f, <2>1, <2>2 DEF ctap2_make_credential, StaysOut, Visible
    <3>2. Excluded
        BY <2>1, <3>1 DEF Excluded
    <3> QED BY <2>f, <3>2, <2>4 DEF ctap2_make_credential, Return
  <2>g. CASE ctap2_get_assertion \/ ctap2_get_next_assertion \/ ctap1_sign \/ another_client_asserts
      BY <2>g, <1>5 DEF ctap2_get_assertion, ctap2_get_next_assertion, ctap1_sign,
                        another_client_asserts, Placed
  <2>h. CASE ctap1_version
    <3> DEFINE tries == Tries(op.list, op.kind = "get" /\ op.appid)
    <3>1. todo' = tries /\ op.list # <<>> /\ pc' = "u2f_preflight"
      <4>1. op.list # <<>>
          BY <2>1 DEF ToSet
      <4> QED BY <2>h, <1>5, <4>1 DEF ctap1_version, Goto
    <3>2. PICK k \in DOMAIN op.list : op.list[k] = c.id
        BY <2>1 DEF ToSet
    <3>3. k \in DOMAIN tries /\ tries[k].id = c.id /\ tries[k].rp = Rp
        BY <3>2 DEF Tries
    <3>4. k \in DOMAIN todo' /\ todo'[k].id = c.id /\ todo'[k].rp = Rp
        BY <3>1, <3>3
    <3> QED BY <3>1, <3>4 DEF StaysOut, ToTry
  <2>i. CASE ctap1_preflight
    <3>1. pc = "u2f_preflight" /\ held' = held /\ unsure' = unsure /\ todo # <<>>
          /\ Head(todo) = todo[1]
        BY <2>i, <2>5, Split DEF ctap1_preflight, Same
    <3>2. CASE Known(Head(todo).id, Head(todo).rp)
        BY <2>i, <3>1, <3>2, <2>4 DEF ctap1_preflight, Return
    <3>3. CASE ~Known(Head(todo).id, Head(todo).rp)
      <4>1. todo' = Tail(todo) /\ pc' \in {"register", "u2f_preflight"}
            /\ (pc' = "register" => Tail(todo) = <<>>)
          BY <2>i, <3>3 DEF ctap1_preflight, NextPreflight, Goto
      <4>2. unsure \/ ToTry(c)
          BY <2>2, <3>1 DEF StaysOut
      <4>3. CASE ToTry(c)
        <5>1. PICK k \in DOMAIN todo : todo[k].id = c.id /\ todo[k].rp = Rp
            BY <4>3 DEF ToTry
        <5>2. k # 1
            BY <5>1, <3>1, <3>3, <2>3
        <5>3. PICK j \in DOMAIN Tail(todo) : Tail(todo)[j] = todo[k]
            BY <5>2, <2>5, <3>1, LaterTries
        <5>4. Tail(todo) # <<>>
            BY <5>3
        <5>5. j \in DOMAIN todo' /\ todo'[j].id = c.id /\ todo'[j].rp = Rp
            BY <4>1, <5>1, <5>3
        <5> QED BY <4>1, <5>4, <5>5 DEF StaysOut, ToTry
      <4> QED BY <4>1, <4>2, <4>3, <3>1 DEF StaysOut
    <3> QED BY <3>2, <3>3
  <2>j. CASE ctap1_register
      BY <2>j, <2>2 DEF ctap1_register, Return, StaysOut
  <2>k. CASE send_apdu_request_wait_uv
      BY <2>k, <2>2, <1>3 DEF send_apdu_request_wait_uv, Same, StaysOut, ToTry
  <2>l. CASE user_action_times_out
      BY <2>l, <2>4 DEF user_action_times_out, Return, Same
  <2>m. CASE CommandFails
    <3>1. CASE pc = "u2f_preflight"
        BY <2>m, <3>1 DEF CommandFails, NextPreflight, Goto, StaysOut
    <3>2. CASE pc = "register"
        BY <2>m, <3>2, <2>2 DEF CommandFails, Return, StaysOut
    <3>3. CASE pc = "command"
      <4>1. c.id \in ToSet(list) /\ Visible(c, verified)
          BY <3>3, <2>1, <2>2 DEF StaysOut, Visible
      <4>2. Excluded
          BY <2>1, <4>1 DEF Excluded
      <4> QED BY <2>m, <3>3, <4>2, <2>4 DEF CommandFails, Return
    <3>4. CASE pc \notin {"u2f_preflight", "register", "command"}
        BY <2>m, <3>4, <2>4 DEF CommandFails, Return
    <3> QED BY <3>1, <3>2, <3>3, <3>4
  <2>n. CASE TokenRefused
      BY <2>n, <2>2 DEF TokenRefused, Goto, StaysOut
  <2> QED
      BY <2>a, <2>b, <2>c, <2>d, <2>e, <2>f, <2>g, <2>h, <2>i, <2>j, <2>k, <2>l, <2>m, <2>n
         DEF Next, Program
<1>6. \A c : Barring(c)' <=> Barring(c)
    BY <1>2 DEF Barring
<1> QED
    BY <1>2, <1>4, <1>5, <1>6 DEF Barred

-------------------------------------------------------------------------------
(* Registrations.                                                          *)

LEMMA DescribedInit == Init => Described
    BY DEF Init, Described

(* What was made over either protocol is what the request and the answer   *)
(* say.                                                                    *)
LEMMA MadeFits ==
    ASSUME NEW made,
           \/ /\ made \in MadeOverFido2 /\ ~UnsupportedExtension(op) /\ op.kind = "create"
              /\ op.rk = "required" => device.rk
           \/ made = MadeOverU2f /\ ~device.fido2 /\ is_downgradable_registration(op)
    PROVE  Fits(made)
<1>1. CASE made = MadeOverU2f /\ ~device.fido2 /\ is_downgradable_registration(op)
    BY <1>1 DEF MadeOverU2f, Credential, Fits, CredProps, Known21, is_downgradable_registration
<1>2. CASE /\ made \in MadeOverFido2 /\ ~UnsupportedExtension(op) /\ op.kind = "create"
           /\ op.rk = "required" => device.rk
  <2> DEFINE level == IF op.protect # "none" /\ Supports("credProtect") THEN "verified" ELSE "open"
  <2>1. PICK d \in IF ~device.rk THEN {FALSE} ELSE IF require_resident_key(op) THEN {TRUE}
                   ELSE IF device.ctap21 THEN {FALSE} ELSE BOOLEAN :
            made = Credential(d, level)
      BY <1>2 DEF MadeOverFido2
  <2>2. made.discoverable = d /\ made.level = level
      BY <2>1 DEF Credential
  <2>3. op.protect = "enforced" => level = "verified"
      BY <1>2 DEF UnsupportedExtension
  <2>4. require_resident_key(op) /\ (op.rk = "required" => device.rk) => d = TRUE
      BY <2>1 DEF require_resident_key
  <2>5. ~require_resident_key(op) /\ device.ctap21 => d = FALSE
      BY <2>1
  <2>6. op.rk = "required" => require_resident_key(op)
      BY DEF require_resident_key
  <2>7. CredProps(op) = "true" => require_resident_key(op)
      BY DEF CredProps
  <2>8. CredProps(op) = "false" => ~require_resident_key(op) /\ device.ctap21
      BY DEF CredProps, Known21
  <2> HIDE DEF level
  <2> QED BY <1>2, <2>2, <2>3, <2>4, <2>5, <2>6, <2>7, <2>8 DEF Fits
<1> QED
    BY <1>1, <1>2

LEMMA DescribedNext == Typed /\ Placed /\ Described /\ Next => Described'
<1> SUFFICES ASSUME Typed, Placed, Described, Next PROVE Described'
    OBVIOUS
<1>1. op' = op /\ device' = device
    BY StaysGiven DEF Kept
<1> SUFFICES ASSUME op.kind = "create" PROVE Described'
    BY <1>1 DEF Described
<1>2. /\ \A uv : Registration(uv)' = Registration(uv)
      /\ \A c : Fits(c)' <=> Fits(c)
    BY <1>1 DEF Registration, Answer, CredProps, Known21, require_resident_key, LargeBlobOutput, Fits
<1>3. answers = <<>> /\ pc # "done" /\ \A c \in held : c.id # NewId
    BY HeldGrows DEF Placed
<1>4. outcome = "none"
    BY <1>3 DEF Typed, TypeOK
<1>5. /\ Described' <=>
            /\ outcome' = "ok" => answers' # <<>>
            /\ answers' # <<>> =>
                /\ \E uv \in BOOLEAN :
                     answers' = <<Registration(uv)>> /\ (UvOf(op) = "required" => uv)
                /\ \E c \in held' : c.id = NewId
                /\ \A c \in held' : c.id = NewId => Fits(c)
                /\ op.blob = "required" => device.fido2 /\ device.largeBlobs
    BY <1>1, <1>2 DEF Described
<1>6. verified \in BOOLEAN
    BY DEF Typed
<1>7. CASE ctap2_make_credential
  <2>1. CASE answers' = answers
      BY <1>3, <1>5, <1>7, <2>1 DEF ctap2_make_credential, Return
  <2>2. CASE answers' # answers
    <3>1. PICK made \in MadeOverFido2 : held' = held \cup {made}
        BY <1>7, <2>2 DEF ctap2_make_credential
    <3>2. /\ answers' = <<Registration(verified)>> /\ pc = "command" /\ outcome' = "ok"
          /\ op.rk = "required" => device.rk
        BY <1>7, <2>2 DEF ctap2_make_credential, Return
    <3>3. made.id = NewId
        BY MadeAreTyped DEF MadeType
    <3>4. Fits(made)
        BY <3>2, MadeFits DEF Placed
    <3>5. \A c \in held' : c.id = NewId => Fits(c)
        BY <1>3, <3>1, <3>4
    <3>6. UvOf(op) = "required" => verified
        BY <3>2 DEF Placed
    <3>7. op.blob = "required" => device.fido2 /\ device.largeBlobs
        BY <3>2 DEF Placed, UnsupportedExtension
    <3> QED BY <1>5, <1>6, <3>1, <3>2, <3>3, <3>5, <3>6, <3>7
  <2> QED BY <2>1, <2>2
<1>8. CASE ctap1_register
  <2>1. /\ answers' = <<Registration(FALSE)>> /\ held' = held \cup {MadeOverU2f} /\ outcome' = "ok"
        /\ ~device.fido2 /\ is_downgradable_registration(op)
      BY <1>8 DEF ctap1_register, Return, Placed, is_downgradable
  <2>2. MadeOverU2f.id = NewId
      BY MadeAreTyped DEF MadeType
  <2>3. Fits(MadeOverU2f)
      BY <2>1, MadeFits
  <2>4. \A c \in held' : c.id = NewId => Fits(c)
      BY <1>3, <2>1, <2>3
  <2>5. UvOf(op) # "required" /\ op.blob # "required"
      BY <2>1 DEF is_downgradable_registration
  <2> QED BY <1>5, <2>1, <2>2, <2>4, <2>5
<1>9. CASE ~ctap2_make_credential /\ ~ctap1_register
  <2>1. answers' = answers /\ outcome' # "ok"
    <3>1. CASE Program
        BY <1>9, <1>4, <3>1 DEF Program, negotiate_protocol, ctap2_get_info, preflight_one, dummy,
               user_verification, ctap2_get_assertion, ctap2_get_next_assertion, ctap1_version,
               ctap1_preflight, NextPreflight, send_apdu_request_wait_uv, user_action_times_out,
               AfterPreflight, Settled, Goto, Return, Placed
    <3>2. CASE ~Program
        BY <1>9, <1>4, <3>2 DEF Next, ctap1_sign, CommandFails, NextPreflight, TokenRefused,
               another_client_asserts, platform, Goto, Return, Placed
    <3> QED BY <3>1, <3>2
  <2> QED BY <1>3, <1>5, <2>1
<1> QED
    BY <1>7, <1>8, <1>9

-------------------------------------------------------------------------------
(* Assertions.                                                             *)

(* The PRF input that a command carries is the one that is due to the only *)
(* credential of its list, or that of all.                                 *)
LEMMA PrfIsDue ==
    ASSUME NEW c, op.kind = "get", op.prf.asked, NativePrf \/ Supports("hmac-secret"),
           op.prf.by = {} \/ Len(op.list) = 1, op.list \in Seq(ToSet(op.list)),
           salt \in calculate_hmac(op), op.list # <<>> => c.id \in ToSet(op.list)
    PROVE  PrfOf(c) = IF c.id \in op.prf.by THEN c.id ELSE IF op.prf.eval THEN "eval" ELSE "none"
<1>1. op.prf.by # {} => ToSet(op.list) = {c.id}
  <2> SUFFICES ASSUME op.prf.by # {} PROVE ToSet(op.list) = {c.id}
      OBVIOUS
  <2>1. Len(op.list) = 1 /\ DOMAIN op.list = {1} /\ op.list # <<>>
      OBVIOUS
  <2> QED BY <2>1 DEF ToSet
<1>2. CASE NativePrf
    BY <1>1, <1>2 DEF PrfOf
<1>3. CASE ~NativePrf
  <2>1. PrfOf(c) = salt /\ salt \in prf_to_hmac_input(op)
      BY <1>3 DEF PrfOf, calculate_hmac
  <2>2. CASE op.prf.by = {}
      BY <2>1, <2>2 DEF prf_to_hmac_input
  <2>3. CASE op.prf.by # {} /\ c.id \in op.prf.by
      BY <1>1, <2>1, <2>3 DEF prf_to_hmac_input
  <2>4. CASE op.prf.by # {} /\ c.id \notin op.prf.by
      BY <1>1, <2>1, <2>4 DEF prf_to_hmac_input
  <2> QED BY <2>2, <2>3, <2>4
<1> QED
    BY <1>2, <1>3

LEMMA AssertionIsRight ==
    ASSUME Typed, Placed, pc = "command", op.kind = "get", NEW c \in Assertable
    PROVE  /\ Genuine(Assertion(c)) /\ Asked(Assertion(c)) /\ Assertion(c).rp = Rp
           /\ Assertion(c).id = c.id
           /\ op.list # <<>> => Assertion(c).id \in ToSet(op.list)
<1> DEFINE a == Assertion(c)
<1>1. c \in held /\ c.rp = Rp /\ (list # <<>> => c.id \in ToSet(list))
    BY DEF Assertable
<1>2. /\ a.id = c.id /\ a.rp = Rp /\ a.verified = verified /\ a.prf = PrfOf(c)
      /\ a.outputs.blob = "absent" /\ a.outputs.appid = FidoAppIdOutput
    BY <1>1 DEF Assertion, Answer, NoOutputs
<1>3. Rp # AppIdRp /\ op.list \in Seq(ToSet(op.list)) /\ list \in Seq(ToSet(op.list))
    BY OperationAssumption, Given DEF Typed
<1>4. op.list # <<>> => c.id \in ToSet(op.list)
  <2>1. op.list # <<>> => list # <<>>
      BY DEF Placed
  <2> QED BY <1>1, <1>3, <2>1, Members
<1>5. FidoAppIdOutput # "true"
    BY DEF FidoAppIdOutput, AppIdOutput
<1>6. salt \in calculate_hmac(op) /\ (UvOf(op) = "required" => verified)
    BY DEF Placed
<1>7. op.prf.asked /\ (NativePrf \/ Supports("hmac-secret")) /\ (op.prf.by = {} \/ Len(op.list) = 1)
        => a.prf = PrfDue(a)
  <2> HIDE DEF a
  <2> QED BY <1>2, <1>3, <1>4, <1>6, PrfIsDue DEF PrfDue
<1> HIDE DEF a
<1>8. Right(a)
    BY <1>2, <1>3, <1>5, <1>6, <1>7 DEF Right
<1>9. Known(a.id, a.rp)
    BY <1>1, <1>2 DEF Known
<1> QED
    BY <1>2, <1>4, <1>8, <1>9 DEF Genuine, Asked, a

LEMMA FetchedInit == Init => Fetched
    BY DEF Init, Fetched

(* In an assertion the authenticator's credentials do not change.          *)
LEMMA StaysRight ==
    ASSUME Typed, Placed, Next, op.kind = "get"
    PROVE  /\ op' = op /\ device' = device /\ held' = held /\ held \subseteq Credentials
           /\ pc # "done" /\ outcome = "none"
           /\ \A a : Right(a)' <=> Right(a)
           /\ \A a : Asked(a)' <=> Asked(a)
           /\ \A id, rp : Known(id, rp)' <=> Known(id, rp)
           /\ disturbed => disturbed'
<1>1. op' = op /\ device' = device
    BY StaysGiven DEF Kept
<1>2. held' = held /\ held \subseteq Credentials /\ pc # "done"
    BY HeldGrows DEF Placed
<1>3. outcome = "none"
    BY <1>2 DEF Typed, TypeOK
<1>4. disturbed => disturbed'
    BY DEF Next, Program, negotiate_protocol, ctap2_get_info, preflight_one, dummy,
           user_verification, ctap2_make_credential, ctap2_get_assertion,
           ctap2_get_next_assertion, ctap1_version, ctap1_preflight, send_apdu_request_wait_uv,
           user_action_times_out, ctap1_register, ctap1_sign, CommandFails, TokenRefused,
           another_client_asserts, Same
<1>5. \A a : Right(a)' <=> Right(a)
    BY <1>1 DEF Right, PrfDue, NativePrf, Supports
<1>6. \A a : Asked(a)' <=> Asked(a)
    BY <1>1 DEF Asked
<1>7. \A id, rp : Known(id, rp)' <=> Known(id, rp)
    BY <1>2 DEF Known
<1> QED
    BY <1>1, <1>2, <1>3, <1>4, <1>5, <1>6, <1>7

(* A signature over U2F: the request asked for neither the user to be      *)
(* verified nor a PRF.                                                     *)
LEMMA SignedIsRight ==
    ASSUME Typed, Placed, Fetched, pc = "sign", NEW a,
           Known(Head(todo).id, Head(todo).rp),
           a = [Answer(Head(todo).id, Head(todo).rp, FALSE, "none")
                   EXCEPT !.outputs.appid = AppIdOutput(op, Head(todo).rp = AppIdRp)]
    PROVE  Genuine(a) /\ Asked(a) /\ a.id \in ToSet(op.list)
<1>1. todo # <<>> /\ todo \in Seq(Try)
    BY DEF Typed, TypeOK
<1>2. Head(todo) \in Try /\ Head(todo) = todo[1] /\ 1 \in DOMAIN todo
    BY <1>1, Split
<1>3. op.kind = "get" /\ ~device.fido2 /\ UvOf(op) # "required"
    BY DEF Placed, is_downgradable, is_downgradable_assertion
<1>4. ~op.prf.asked
    BY <1>3 DEF UvOf, prf_forces_uv_upgrade
<1>5. /\ a.id = Head(todo).id /\ a.rp = Head(todo).rp /\ a.outputs.blob = "absent"
      /\ a.outputs.appid = AppIdOutput(op, Head(todo).rp = AppIdRp)
    BY DEF Answer, NoOutputs
<1>6. a.rp \in {Rp, AppIdRp} /\ a.id \in ToSet(op.list)
    BY <1>2, <1>5 DEF Try
<1>7. a.rp = AppIdRp => op.appid
  <2>1. (todo[1].rp # Rp \/ todo[1].legacy) => op.appid
      BY <1>2, <1>3 DEF Fetched
  <2>2. Rp # AppIdRp
      BY OperationAssumption
  <2> QED BY <1>2, <1>5, <2>1, <2>2
<1>8. op.appid => (a.outputs.appid = "true" <=> a.rp = AppIdRp)
  <2>1. op.appid /\ Head(todo).rp = AppIdRp => AppIdOutput(op, Head(todo).rp = AppIdRp) = "true"
      BY DEF AppIdOutput
  <2>2. op.appid /\ Head(todo).rp # AppIdRp => AppIdOutput(op, Head(todo).rp = AppIdRp) # "true"
      BY DEF AppIdOutput
  <2> QED BY <1>5, <2>1, <2>2
<1> QED
    BY <1>3, <1>4, <1>5, <1>6, <1>7, <1>8 DEF Genuine, Asked, Right

(* The next that is tried is the same credential under the U2F name, where *)
(* the request has one, or another.                                        *)
LEMMA NextTryIsAsked ==
    ASSUME todo \in Seq(Try), todo # <<>>,
           \A k \in DOMAIN todo : (todo[k].rp # Rp \/ todo[k].legacy) => op.appid
    PROVE  \A k \in DOMAIN NextTry : (NextTry[k].rp # Rp \/ NextTry[k].legacy) => op.appid
<1>1. /\ Head(todo) = todo[1] /\ 1 \in DOMAIN todo /\ DOMAIN todo = 1..Len(todo) /\ Len(todo) \in Nat
      /\ DOMAIN Tail(todo) = 1..(Len(todo) - 1)
      /\ \A k \in 1..(Len(todo) - 1) : Tail(todo)[k] = todo[k + 1]
  <2> HIDE DEF Try
  <2>1. DOMAIN todo = 1..Len(todo)
      OBVIOUS
  <2> QED BY <2>1, Split
<1>2. CASE Head(todo).legacy
  <2>1. op.appid
      BY <1>1, <1>2
  <2> QED BY <2>1
<1>3. CASE ~Head(todo).legacy
  <2>1. NextTry = Tail(todo)
      BY <1>3 DEF NextTry
  <2>2. \A k \in 1..(Len(todo) - 1) : k + 1 \in DOMAIN todo
      BY <1>1
  <2> QED BY <1>1, <2>1, <2>2
<1> QED
    BY <1>2, <1>3

(* What is left for another client is of credentials that there are.       *)
LEMMA TheirsAreGenuine ==
    ASSUME Typed, Placed, another_client_asserts
    PROVE  \A i \in DOMAIN remembered' :
                Known(remembered'[i].id, remembered'[i].rp) /\ remembered'[i].outputs.blob = "absent"
<1>1. PICK rp \in {Rp, OtherRp} :
        LET theirs == SetToSeq({c \in held : c.rp = rp /\ c.discoverable})
        IN  remembered' = [i \in DOMAIN theirs |-> Answer(theirs[i].id, rp, FALSE, "none")]
    BY DEF another_client_asserts
<1> DEFINE all == {c \in held : c.rp = rp /\ c.discoverable}
<1> DEFINE theirs == SetToSeq(all)
<1>2. held \subseteq Credentials
    BY DEF another_client_asserts, Placed
<1>3. IsFiniteSet(all)
    BY <1>2, OperationAssumption, FS_Subset
<1>4. theirs \in Seq(all)
    BY <1>3, Listed
<1>5. remembered' = [i \in DOMAIN theirs |-> Answer(theirs[i].id, rp, FALSE, "none")]
    BY <1>1
<1>6. \A c \in all : Known(c.id, rp)
    BY DEF Known
<1>7. \A id : /\ Answer(id, rp, FALSE, "none").id = id /\ Answer(id, rp, FALSE, "none").rp = rp
               /\ Answer(id, rp, FALSE, "none").outputs.blob = "absent"
    BY DEF Answer, NoOutputs
<1> HIDE DEF theirs, all
<1>8. \A i \in DOMAIN theirs : theirs[i] \in all
    BY <1>4
<1> QED
    BY <1>5, <1>6, <1>7, <1>8

LEMMA FetchedNext == Typed /\ Placed /\ Fetched /\ Next => Fetched'
<1> SUFFICES ASSUME Typed, Placed, Fetched, Next PROVE Fetched'
    OBVIOUS
<1> SUFFICES ASSUME op.kind = "get" PROVE Fetched'
  <2>1. op' = op
      BY StaysGiven DEF Kept
  <2> QED BY <2>1 DEF Fetched
<1>1. /\ op' = op /\ device' = device /\ held' = held /\ held \subseteq Credentials
      /\ pc # "done" /\ outcome = "none"
      /\ \A a : Right(a)' <=> Right(a)
      /\ \A a : Asked(a)' <=> Asked(a)
      /\ \A id, rp : Known(id, rp)' <=> Known(id, rp)
      /\ disturbed => disturbed'
    BY StaysRight
<1> DEFINE Good(a) ==
        Known(a.id, a.rp) /\ a.outputs.blob = "absent" /\ (~disturbed' => Right(a))
<1> DEFINE Own(a) == Good(a) /\ Asked(a) /\ (op.list # <<>> => a.id \in ToSet(op.list))
<1> DEFINE Left(a) == Good(a) /\ (~disturbed' => a.rp = Rp)
<1>2. SUFFICES /\ \A i \in DOMAIN answers' : Own(answers'[i])
               /\ pc' = "next" => \A i \in DOMAIN remembered' : Left(remembered'[i])
               /\ pc' = "sign" =>
                    \A k \in DOMAIN todo' : (todo'[k].rp # Rp \/ todo'[k].legacy) => op.appid
    BY <1>1 DEF Fetched, Genuine
<1>3. \A a : Genuine(a) => Good(a)
    BY <1>1 DEF Genuine
<1>4. /\ \A i \in DOMAIN answers : Own(answers[i])
      /\ pc = "next" => \A i \in DOMAIN remembered : Left(remembered[i])
      /\ pc = "sign" => \A k \in DOMAIN todo : (todo[k].rp # Rp \/ todo[k].legacy) => op.appid
  <2> HIDE DEF Good
  <2> QED BY <1>1, <1>3 DEF Fetched
<1>5. answers \in Seq(AnswerType) /\ remembered \in Seq(AnswerType) /\ todo \in Seq(Try)
    BY DEF Typed
<1> HIDE DEF Own, Left, Good
<1>6. DOMAIN <<>> = {}
    OBVIOUS
<1>a. CASE ctap2_get_assertion
  <2>1. pc = "command" /\ answers = <<>>
      BY <1>a DEF ctap2_get_assertion, Placed
  <2>2. \A c \in Assertable : Own(Assertion(c)) /\ Left(Assertion(c))
    <3>1. \A c \in Assertable :
            /\ Genuine(Assertion(c)) /\ Asked(Assertion(c)) /\ Assertion(c).rp = Rp
            /\ op.list # <<>> => Assertion(c).id \in ToSet(op.list)
        BY <2>1, AssertionIsRight
    <3> QED BY <3>1, <1>3 DEF Own, Left
  <2>3. pc' # "sign"
      BY <1>a DEF ctap2_get_assertion, Received, Goto, Return
  <2>4. CASE Assertable = {}
      BY <1>a, <2>1, <2>3, <2>4, <1>2, <1>6 DEF ctap2_get_assertion, Return
  <2>5. CASE Assertable # {} /\ list # <<>>
    <3>1. PICK c \in Assertable : remembered' = <<>> /\ Received(Assertion(c), <<>>, 1)
        BY <1>a, <2>5 DEF ctap2_get_assertion
    <3> DEFINE first == Assertion(c)
    <3>2. Own(first) /\ Received(first, <<>>, 1)
        BY <3>1, <2>2
    <3> HIDE DEF first
    <3>3. answers' = <<>> \/ answers' = <<first>>
        BY <3>2, <2>1 DEF Received
    <3>4. \A i \in DOMAIN answers' : Own(answers'[i])
      <4>1. CASE answers' = <<>>
          BY <4>1, <1>6
      <4>2. CASE answers' = <<first>>
          BY <4>2, <3>2, Single
      <4> QED BY <3>3, <4>1, <4>2
    <3> QED BY <3>1, <3>4, <2>3, <1>2, <1>6
  <2>6. CASE Assertable # {} /\ list = <<>>
    <3> DEFINE all == SetToSeq(Assertable)
    <3> DEFINE first == Assertion(Head(all))
    <3>1. /\ remembered' = [i \in DOMAIN Tail(all) |-> Assertion(Tail(all)[i])]
          /\ Received(first, <<>>, Capped(Len(all)))
        BY <1>a, <2>6 DEF ctap2_get_assertion
    <3>2. all \in Seq(Assertable) /\ all # <<>>
      <4>1. held \subseteq Credentials
          BY <1>1
      <4> QED BY <4>1, <2>6, AssertableAreListed
    <3>3. Head(all) \in Assertable /\ \A i \in DOMAIN Tail(all) : Tail(all)[i] \in Assertable
      <4> HIDE DEF all
      <4>1. Head(all) \in Assertable /\ Tail(all) \in Seq(Assertable)
          BY <3>2, Split
      <4> QED BY <4>1
    <3>4. Own(first)
      <4> HIDE DEF all
      <4> QED BY <3>3, <2>2
    <3>5. \A i \in DOMAIN remembered' : Left(remembered'[i])
      <4> HIDE DEF all
      <4> QED BY <3>1, <3>3, <2>2
    <3> HIDE DEF first, all
    <3>6. answers' = <<>> \/ answers' = <<first>>
        BY <3>1, <2>1 DEF Received
    <3>7. \A i \in DOMAIN answers' : Own(answers'[i])
      <4>1. CASE answers' = <<>>
          BY <4>1, <1>6
      <4>2. CASE answers' = <<first>>
          BY <4>2, <3>4, Single
      <4> QED BY <3>6, <4>1, <4>2
    <3> QED BY <3>5, <3>7, <2>3, <1>2
  <2> QED BY <2>4, <2>5, <2>6
<1>b. CASE ctap2_get_next_assertion
  <2>1. pc = "next" /\ disturbed' = disturbed /\ op.list = <<>>
      BY <1>b DEF ctap2_get_next_assertion, Placed
  <2>2. pc' # "sign"
      BY <1>b DEF ctap2_get_next_assertion, Received, Goto, Return
  <2>3. CASE remembered = <<>>
      BY <1>b, <1>2, <1>4, <2>2, <2>3 DEF ctap2_get_next_assertion, Return
  <2>4. CASE remembered # <<>>
    <3> DEFINE a == Head(remembered)
    <3>1. remembered' = Tail(remembered) /\ Received(a, answers, count)
        BY <1>b, <2>4 DEF ctap2_get_next_assertion
    <3>2. /\ a = remembered[1] /\ 1 \in DOMAIN remembered /\ a \in AnswerType
          /\ DOMAIN Tail(remembered) = 1..(Len(remembered) - 1)
          /\ Len(remembered) \in Nat /\ DOMAIN remembered = 1..Len(remembered)
          /\ \A i \in 1..(Len(remembered) - 1) : Tail(remembered)[i] = remembered[i + 1]
      <4>1. DOMAIN remembered = 1..Len(remembered)
          BY <1>5
      <4> QED BY <4>1, <1>5, <2>4, Split
    <3>3. \A i \in DOMAIN remembered' : Left(remembered'[i])
      <4>1. \A i \in 1..(Len(remembered) - 1) : i + 1 \in DOMAIN remembered
          BY <3>2
      <4> QED BY <3>1, <3>2, <4>1, <1>4, <2>1
    <3>4. Left(a)
        BY <3>2, <1>4, <2>1
    <3> HIDE DEF a
    <3>5. a.rp = Rp => Own(a)
        BY <3>4, <2>1 DEF Own, Left, Asked
    <3>6. answers' = answers \/ (a.rp = Rp /\ answers' = Append(answers, a))
        BY <3>1 DEF Received, validate_rp_id_hash
    <3>7. \A i \in DOMAIN answers' : Own(answers'[i])
      <4>1. CASE answers' = answers
          BY <4>1, <1>4
      <4>2. CASE a.rp = Rp /\ answers' = Append(answers, a)
        <5>1. /\ DOMAIN Append(answers, a) = 1..(Len(answers) + 1)
              /\ \A i \in 1..Len(answers) : Append(answers, a)[i] = answers[i]
              /\ Append(answers, a)[Len(answers) + 1] = a
            BY <1>5, <3>2, Appended
        <5>2. DOMAIN answers = 1..Len(answers) /\ Len(answers) \in Nat
            BY <1>5
        <5>3. \A i \in 1..(Len(answers) + 1) : i \in 1..Len(answers) \/ i = Len(answers) + 1
            BY <5>2
        <5> QED BY <4>2, <5>1, <5>2, <5>3, <3>5, <1>4
      <4> QED BY <3>6, <4>1, <4>2
    <3> QED BY <3>3, <3>7, <2>2, <1>2
  <2> QED BY <2>3, <2>4
<1>c. CASE another_client_asserts
  <2>1. answers' = answers /\ pc' = "next" /\ disturbed'
      BY <1>c DEF another_client_asserts, platform
  <2>2. \A i \in DOMAIN remembered' : Left(remembered'[i])
      BY <1>c, <2>1, TheirsAreGenuine DEF Left, Good
  <2> QED BY <2>1, <2>2, <1>2, <1>4
<1>d. CASE ctap1_sign
  <2>1. pc = "sign" /\ answers = <<>> /\ todo # <<>> /\ pc' # "next"
      BY <1>d DEF ctap1_sign, Placed, Typed, TypeOK, Goto, Return
  <2>2. CASE Known(Head(todo).id, Head(todo).rp)
    <3> DEFINE a == [Answer(Head(todo).id, Head(todo).rp, FALSE, "none")
                        EXCEPT !.outputs.appid = AppIdOutput(op, Head(todo).rp = AppIdRp)]
    <3>1. answers' = <<a>> /\ pc' = "done"
        BY <1>d, <2>2 DEF ctap1_sign, Return
    <3>2. Genuine(a) /\ Asked(a) /\ a.id \in ToSet(op.list)
        BY <2>1, <2>2, SignedIsRight
    <3> HIDE DEF a
    <3>3. Own(a)
        BY <3>2, <1>3 DEF Own
    <3>4. \A i \in DOMAIN answers' : Own(answers'[i])
        BY <3>1, <3>3, Single
    <3> QED BY <3>1, <3>4, <1>2
  <2>3. CASE ~Known(Head(todo).id, Head(todo).rp)
    <3>1. answers' = answers /\ todo' = NextTry
        BY <1>d, <2>3 DEF ctap1_sign
    <3>2. \A k \in DOMAIN NextTry : (NextTry[k].rp # Rp \/ NextTry[k].legacy) => op.appid
        BY <1>4, <1>5, <2>1, NextTryIsAsked
    <3> QED BY <3>1, <3>2, <2>1, <1>2, <1>4
  <2> QED BY <2>2, <2>3
<1>e. CASE ctap1_version
  <2> DEFINE legacy == op.kind = "get" /\ op.appid
  <2>1. answers' = answers /\ pc' # "next" /\ todo' = Tries(op.list, legacy)
      BY <1>e DEF ctap1_version, Goto
  <2>2. op.list \in Seq(ToSet(op.list)) /\ legacy \in BOOLEAN /\ (legacy => op.appid)
      BY Given DEF Typed
  <2>3. \A k \in DOMAIN todo' : (todo'[k].rp # Rp \/ todo'[k].legacy) => op.appid
    <3> HIDE DEF legacy
    <3>1. CASE legacy
        BY <2>2, <3>1
    <3>2. CASE ~legacy
      <4>1. legacy = FALSE
          BY <2>2, <3>2
      <4>2. todo' = Tries(op.list, FALSE)
          BY <2>1, <4>1
      <4>3. /\ DOMAIN Tries(op.list, FALSE) = DOMAIN op.list
            /\ \A i \in DOMAIN op.list :
                  Tries(op.list, FALSE)[i] = [id |-> op.list[i], rp |-> Rp, legacy |-> FALSE]
          BY <2>2, TriesAreTyped
      <4>4. ASSUME NEW k \in DOMAIN todo' PROVE todo'[k].rp = Rp /\ ~todo'[k].legacy
        <5>1. k \in DOMAIN op.list
            BY <4>2, <4>3
        <5>2. todo'[k] = [id |-> op.list[k], rp |-> Rp, legacy |-> FALSE]
            BY <4>2, <4>3, <5>1
        <5> QED BY <5>2
      <4> QED BY <4>4
    <3> QED BY <3>1, <3>2
  <2> QED BY <2>1, <2>3, <1>2, <1>4
<1>f. CASE /\ ~ctap2_get_assertion /\ ~ctap2_get_next_assertion /\ ~another_client_asserts
           /\ ~ctap1_sign /\ ~ctap1_version
  <2>1. /\ answers' = answers /\ remembered' = remembered
        /\ pc' = "next" => pc = "next"
        /\ pc' = "sign" => pc = "sign" /\ todo' = todo
    <3>1. CASE Program
        BY <1>f, <3>1 DEF Program, negotiate_protocol, ctap2_get_info, preflight_one, dummy,
               user_verification, ctap2_make_credential, ctap1_preflight, NextPreflight,
               send_apdu_request_wait_uv, user_action_times_out, AfterPreflight, Settled, Goto,
               Return, Same
    <3>2. CASE ~Program
        BY <1>f, <3>2 DEF Next, ctap1_register, CommandFails, NextPreflight, TokenRefused, Goto,
               Return, Placed
    <3> QED BY <3>1, <3>2
  <2> QED BY <2>1, <1>2, <1>4
<1> QED
    BY <1>a, <1>b, <1>c, <1>d, <1>e, <1>f

-------------------------------------------------------------------------------
(* How many assertions, and that no two are of one credential.             *)

LEMMA CountedInit == Init => Counted
    BY DEF Init, Counted, Different

LEMMA CappedIsPositive ==
    ASSUME device.max_list \in Nat, NEW k \in Nat, k > 0
    PROVE  Capped(k) \in Nat /\ Capped(k) > 0
    BY DEF Capped

(* The first assertion and those that are left, where the request names no *)
(* credential.                                                             *)
LEMMA AllAreDifferent ==
    ASSUME Typed, Placed, pc = "command", op.kind = "get", Assertable # {}, list = <<>>,
           NEW all, all = SetToSeq(Assertable),
           NEW rest, rest = [i \in DOMAIN Tail(all) |-> Assertion(Tail(all)[i])]
    PROVE  /\ Len(all) = Cardinality(Assertable) /\ Len(all) \in Nat /\ Len(all) > 0
           /\ rest \in Seq(AnswerType) /\ Len(rest) = Len(all) - 1
           /\ Assertion(Head(all)) \in AnswerType /\ Assertion(Head(all)).rp = Rp
           /\ Different(rest)
           /\ \A j \in DOMAIN rest : Assertion(Head(all)).id # rest[j].id
<1>1. held \subseteq Credentials
    BY DEF Placed
<1>2. /\ all \in Seq(Assertable) /\ Len(all) = Cardinality(Assertable) /\ all # <<>>
      /\ \A i, j \in DOMAIN all : all[i] = all[j] => i = j
      /\ \A c \in Assertable : c \in held /\ c.rp = Rp /\ Assertion(c) \in AnswerType
    BY <1>1, AssertableAreListed
<1>3. \A c, d \in Assertable : c.id = d.id => c = d
    BY <1>1, <1>2, OperationAssumption
<1>4. \A c \in Assertable : Assertion(c).id = c.id /\ Assertion(c).rp = Rp
    BY AssertionIsRight
<1>5. /\ Len(all) \in Nat /\ Len(all) > 0 /\ DOMAIN all = 1..Len(all)
      /\ Head(all) = all[1] /\ Head(all) \in Assertable
      /\ DOMAIN Tail(all) = 1..(Len(all) - 1)
      /\ \A i \in 1..(Len(all) - 1) : Tail(all)[i] = all[i + 1]
  <2>1. DOMAIN all = 1..Len(all)
      BY <1>2
  <2> QED BY <1>2, <2>1, Split
<1>6. \A i \in DOMAIN all : all[i] \in Assertable
    BY <1>2
<1>7. /\ DOMAIN rest = 1..(Len(all) - 1)
      /\ \A i \in 1..(Len(all) - 1) :
            /\ i + 1 \in DOMAIN all /\ all[i + 1] \in Assertable
            /\ rest[i] = Assertion(all[i + 1])
    BY <1>5, <1>6
<1>8. rest \in Seq(AnswerType) /\ Len(rest) = Len(all) - 1
  <2>1. rest \in [1..(Len(all) - 1) -> AnswerType]
    <3>1. \A i \in 1..(Len(all) - 1) : rest[i] \in AnswerType
        BY <1>2, <1>7
    <3>2. rest = [i \in DOMAIN rest |-> rest[i]]
        OBVIOUS
    <3> QED BY <1>7, <3>1, <3>2
  <2>2. Len(all) - 1 \in Nat
      BY <1>5
  <2> QED BY <2>1, <2>2
<1>9. Different(rest)
  <2>1. ASSUME NEW i \in DOMAIN rest, NEW j \in DOMAIN rest, rest[i].id = rest[j].id
        PROVE  i = j
    <3>1. all[i + 1].id = all[j + 1].id
        BY <1>4, <1>7, <2>1
    <3>2. all[i + 1] = all[j + 1]
        BY <1>3, <1>7, <3>1
    <3>3. i + 1 = j + 1
        BY <1>2, <1>7, <3>2
    <3> QED BY <1>5, <1>7, <3>3
  <2> QED BY <2>1 DEF Different
<1>10. ASSUME NEW j \in DOMAIN rest, Assertion(Head(all)).id = rest[j].id
       PROVE  FALSE
  <2>1. all[1].id = all[j + 1].id
      BY <1>4, <1>5, <1>7, <1>10
  <2>2. all[1] = all[j + 1]
      BY <1>3, <1>5, <1>7, <2>1
  <2>3. 1 = j + 1
    <3>1. 1 \in DOMAIN all
        BY <1>5
    <3> QED BY <1>2, <1>7, <2>2, <3>1
  <2> QED BY <1>5, <1>7, <2>3
<1> QED
    BY <1>2, <1>4, <1>5, <1>8, <1>9, <1>10

LEMMA CountedNext == Typed /\ Placed /\ Fetched /\ Counted /\ Next => Counted'
<1> SUFFICES ASSUME Typed, Placed, Fetched, Counted, Next PROVE Counted'
    OBVIOUS
<1> SUFFICES ASSUME op.kind = "get", ~disturbed' PROVE Counted'
  <2>1. op' = op
      BY StaysGiven DEF Kept
  <2> QED BY <2>1 DEF Counted
<1>1. /\ op' = op /\ device' = device /\ held' = held /\ held \subseteq Credentials
      /\ pc # "done" /\ outcome = "none" /\ ~disturbed
    BY StaysRight
<1>2. \A k : Capped(k)' = Capped(k)
    BY <1>1 DEF Capped
<1> DEFINE N == Cardinality(Assertable)
<1> DEFINE Total == Cardinality(Assertable)'
<1>3. SUFFICES /\ Different(answers')
               /\ pc' = "next" =>
                    /\ Different(remembered')
                    /\ \A i \in DOMAIN answers', j \in DOMAIN remembered' :
                            answers'[i].id # remembered'[j].id
                    /\ Len(answers') + Len(remembered') = Total
                    /\ count' = Capped(Total)
               /\ outcome' = "ok" /\ op.list = <<>> => Len(answers') = Capped(Total)
  <2> HIDE DEF Total
  <2>1. \A s : Different(s)' <=> Different(s)
      BY DEF Different
  <2> QED BY <1>1, <1>2, <2>1 DEF Counted, Different, Total
<1>4. /\ Different(answers)
      /\ pc = "next" =>
            /\ Different(remembered)
            /\ \A i \in DOMAIN answers, j \in DOMAIN remembered : answers[i].id # remembered[j].id
            /\ Len(answers) + Len(remembered) = N
            /\ count = Capped(N)
    BY <1>1 DEF Counted
<1>5. answers \in Seq(AnswerType) /\ remembered \in Seq(AnswerType) /\ count \in Nat
    BY DEF Typed
<1>6. /\ device.max_list \in Nat /\ op.list \in Seq(ToSet(op.list))
      /\ list \in Seq(ToSet(op.list))
    BY Given DEF Typed
<1>7. list' = list /\ verified' = verified => Total = N
    BY <1>1 DEF Assertable, Visible
<1> HIDE DEF N, Total
<1>8. DOMAIN <<>> = {} /\ Len(<<>>) = 0
    OBVIOUS
<1>9. \A x : Different(<<x>>)
  <2> SUFFICES ASSUME NEW x PROVE Different(<<x>>)
      OBVIOUS
  <2>1. DOMAIN <<x>> = 1..1
      BY Single
  <2> QED BY <2>1 DEF Different
<1>a. CASE ctap2_get_assertion
  <2>1. pc = "command" /\ answers = <<>> /\ Total = N
      BY <1>a, <1>7 DEF ctap2_get_assertion, Placed
  <2>2. CASE Assertable = {}
      BY <1>a, <2>2, <1>3, <1>4 DEF ctap2_get_assertion, Return
  <2>3. CASE Assertable # {} /\ list # <<>>
    <3>1. PICK c \in Assertable : Received(Assertion(c), <<>>, 1)
        BY <1>a, <2>3 DEF ctap2_get_assertion
    <3> DEFINE first == Assertion(c)
    <3>2. first \in AnswerType
      <4>1. c \in held /\ c.rp = Rp /\ salt \in Salts
          BY DEF Assertable, Typed
      <4> QED BY <4>1, AnswersAreTyped
    <3>3. Received(first, <<>>, 1)
        BY <3>1
    <3> HIDE DEF first
    <3>4. answers' = <<>> \/ answers' = <<first>>
        BY <3>3, <2>1 DEF Received
    <3>5. pc' = "done"
        BY <3>3, <1>8 DEF Received, Return
    <3>6. Different(answers')
        BY <3>4, <1>8, <1>9 DEF Different
    <3>7. op.list # <<>>
      <4>1. Head(list) \in ToSet(op.list)
          BY <1>6, <2>3, Split
      <4> QED BY <4>1, <1>8 DEF ToSet
    <3> QED BY <3>5, <3>6, <3>7, <1>3
  <2>4. CASE Assertable # {} /\ list = <<>>
    <3> DEFINE all == SetToSeq(Assertable)
    <3> DEFINE first == Assertion(Head(all))
    <3> DEFINE rest == [i \in DOMAIN Tail(all) |-> Assertion(Tail(all)[i])]
    <3>1. remembered' = rest /\ count' = Capped(Len(all)) /\ Received(first, <<>>, Capped(Len(all)))
        BY <1>a, <2>4 DEF ctap2_get_assertion
    <3>2. /\ Len(all) = N /\ N \in Nat /\ N > 0
          /\ Len(rest) = N - 1 /\ first.rp = Rp /\ first \in AnswerType
          /\ Different(rest) /\ \A j \in DOMAIN rest : first.id # rest[j].id
        BY <2>1, <2>4, AllAreDifferent DEF N
    <3> HIDE DEF all, first, rest
    <3>3. Capped(N) \in Nat /\ Capped(N) > 0
        BY <1>6, <3>2, CappedIsPositive
    <3>4. /\ answers' = <<first>>
          /\ pc' = "next" => outcome' = "none"
          /\ outcome' = "ok" => Capped(N) = 1
      <4>1. Len(<<>>) + 1 = 1 /\ Append(<<>>, first) = <<first>>
          BY <1>8
      <4>2. outcome' = "ok" => 1 >= Capped(N)
          BY <3>1, <3>2, <4>1, <1>1 DEF Received, validate_rp_id_hash, Goto, Return
      <4>3. answers' = <<first>> /\ (pc' = "next" => outcome' = "none")
          BY <3>1, <3>2, <4>1, <1>1 DEF Received, validate_rp_id_hash, Goto, Return
      <4> QED BY <3>3, <4>2, <4>3
    <3>5. Len(answers') = 1 /\ DOMAIN answers' = 1..1 /\ answers'[1] = first
        BY <3>2, <3>4, Single
    <3>6. \A i \in DOMAIN answers', j \in DOMAIN remembered' : answers'[i].id # remembered'[j].id
        BY <3>1, <3>2, <3>5
    <3>7. Len(answers') + Len(remembered') = N
        BY <3>1, <3>2, <3>5
    <3> QED BY <2>1, <3>1, <3>2, <3>4, <3>5, <3>6, <3>7, <1>3, <1>9
  <2> QED BY <2>2, <2>3, <2>4
<1>b. CASE ctap2_get_next_assertion
  <2>1. pc = "next" /\ Total = N /\ count' = count
      BY <1>b, <1>7 DEF ctap2_get_next_assertion
  <2>2. CASE remembered = <<>>
      BY <1>b, <2>2, <1>3, <1>4 DEF ctap2_get_next_assertion, Return
  <2>3. CASE remembered # <<>>
    <3> DEFINE a == Head(remembered)
    <3> DEFINE L == Len(answers)
    <3> DEFINE R == Len(remembered)
    <3>1. remembered' = Tail(remembered) /\ Received(a, answers, count)
        BY <1>b, <2>3 DEF ctap2_get_next_assertion
    <3>2. /\ a = remembered[1] /\ 1 \in DOMAIN remembered /\ a \in AnswerType
          /\ Tail(remembered) \in Seq(AnswerType) /\ Len(Tail(remembered)) = R - 1
          /\ DOMAIN Tail(remembered) = 1..(R - 1)
          /\ R \in Nat /\ DOMAIN remembered = 1..R
          /\ \A i \in 1..(R - 1) : Tail(remembered)[i] = remembered[i + 1]
      <4>1. DOMAIN remembered = 1..Len(remembered)
          BY <1>5
      <4> QED BY <4>1, <1>5, <2>3, Split
    <3>3. a.rp = Rp
        BY <1>1, <2>1, <3>2 DEF Fetched
    <3> HIDE DEF a
    <3>4. /\ answers' = Append(answers, a)
          /\ pc' = "next" => outcome' = "none"
          /\ outcome' = "ok" => L + 1 >= count
        BY <3>1, <3>3, <1>1 DEF Received, validate_rp_id_hash, Goto, Return
    <3>5. L \in 1..(count - 1) /\ L \in Nat /\ DOMAIN answers = 1..L
        BY <2>1, <1>5 DEF Typed, TypeOK
    <3>6. /\ Len(answers') = L + 1 /\ DOMAIN answers' = 1..(L + 1)
          /\ \A i \in 1..L : answers'[i] = answers[i]
          /\ answers'[L + 1] = a
      <4> HIDE DEF L
      <4>1. /\ Len(Append(answers, a)) = L + 1 /\ DOMAIN Append(answers, a) = 1..(L + 1)
            /\ \A i \in 1..L : Append(answers, a)[i] = answers[i]
            /\ Append(answers, a)[L + 1] = a
          BY <1>5, <3>2, Appended DEF L
      <4> QED BY <3>4, <4>1
    <3> HIDE DEF L, R
    <3>7. \A i \in 1..(L + 1) : i \in 1..L \/ i = L + 1
        BY <3>5
    <3>8. \A i \in 1..L : answers[i].id # a.id
        BY <1>4, <2>1, <3>2, <3>5
    <3>9. Different(answers')
      <4>1. ASSUME NEW i \in 1..(L + 1), NEW j \in 1..(L + 1), answers'[i].id = answers'[j].id
            PROVE  i = j
        <5>1. CASE i \in 1..L /\ j \in 1..L
            BY <1>4, <3>5, <3>6, <4>1, <5>1 DEF Different
        <5>2. CASE ~(i \in 1..L /\ j \in 1..L)
            BY <3>6, <3>7, <3>8, <4>1, <5>2
        <5> QED BY <5>1, <5>2
      <4> QED BY <3>6, <4>1 DEF Different
    <3>10. \A j \in 1..(R - 1) : j + 1 \in DOMAIN remembered /\ j + 1 # 1
        BY <3>2
    <3>11. Different(remembered')
      <4>1. ASSUME NEW i \in 1..(R - 1), NEW j \in 1..(R - 1),
                   remembered[i + 1].id = remembered[j + 1].id
            PROVE  i = j
        <5>1. i + 1 = j + 1
            BY <1>4, <2>1, <3>10, <4>1 DEF Different
        <5> QED BY <5>1, <3>2
      <4> QED BY <3>1, <3>2, <4>1 DEF Different
    <3>12. \A i \in DOMAIN answers', j \in DOMAIN remembered' : answers'[i].id # remembered'[j].id
      <4>1. ASSUME NEW i \in 1..(L + 1), NEW j \in 1..(R - 1)
            PROVE  answers'[i].id # remembered'[j].id
        <5>1. remembered'[j] = remembered[j + 1]
            BY <3>1, <3>2
        <5>2. CASE i \in 1..L
            BY <5>1, <5>2, <1>4, <2>1, <3>5, <3>6, <3>10
        <5>3. CASE i = L + 1
            BY <5>1, <5>3, <1>4, <2>1, <3>2, <3>6, <3>10 DEF Different
        <5> QED BY <5>2, <5>3, <3>7
      <4> QED BY <4>1, <3>1, <3>2, <3>6
    <3>13. Len(answers') + Len(remembered') = Len(answers) + Len(remembered)
        BY <3>1, <3>2, <3>5, <3>6 DEF L, R
    <3>14. outcome' = "ok" => Len(answers') = count
        BY <3>4, <3>5, <3>6, <1>5
    <3> QED BY <1>3, <1>4, <2>1, <3>4, <3>9, <3>11, <3>12, <3>13, <3>14
  <2> QED BY <2>2, <2>3
<1>c. CASE ctap1_sign
  <2>1. pc' # "next" /\ answers = <<>> /\ op.list # <<>>
      BY <1>c DEF ctap1_sign, Goto, Return, Placed, is_downgradable, is_downgradable_assertion
  <2>2. answers' = answers \/ \E x : answers' = <<x>>
      BY <1>c DEF ctap1_sign
  <2> QED BY <2>1, <2>2, <1>3, <1>4, <1>9
<1>d. CASE ~ctap2_get_assertion /\ ~ctap2_get_next_assertion /\ ~ctap1_sign
  <2>1. answers' = answers /\ outcome' # "ok" /\ (pc' = "next" => FALSE)
    <3>1. CASE Program
        BY <1>d, <1>1, <3>1 DEF Program, negotiate_protocol, ctap2_get_info, preflight_one, dummy,
               user_verification, ctap2_make_credential, ctap1_version, ctap1_preflight,
               NextPreflight, send_apdu_request_wait_uv, NeedsTouch, user_action_times_out,
               AfterPreflight, Settled, Goto, Return, Same
    <3>2. CASE ~Program
        BY <1>d, <1>1, <3>2 DEF Next, ctap1_register, CommandFails, NextPreflight, TokenRefused,
               another_client_asserts, Goto, Return, Placed
    <3> QED BY <3>1, <3>2
  <2> QED BY <2>1, <1>3, <1>4
<1> QED
    BY <1>a, <1>b, <1>c, <1>d

-------------------------------------------------------------------------------
(* The invariant, and what follows from it.                                *)

LEMMA InvInit == Init => IInv
    BY TypedInit, PlacedInit, BarredInit, DescribedInit, FetchedInit, CountedInit DEF IInv

LEMMA InvNext == IInv /\ [Next]_vars => IInv'
<1> SUFFICES ASSUME IInv, [Next]_vars PROVE IInv'
    OBVIOUS
<1>1. CASE Next
    BY <1>1, TypedNext, PlacedNext, BarredNext, DescribedNext, FetchedNext, CountedNext DEF IInv
<1>2. CASE UNCHANGED vars
  <2>1. /\ device' = device /\ held' = held /\ remembered' = remembered /\ op' = op /\ pc' = pc
        /\ todo' = todo /\ list' = list /\ verified' = verified /\ salt' = salt /\ count' = count
        /\ answers' = answers /\ outcome' = outcome /\ n' = n /\ waited' = waited
        /\ retried' = retried /\ unsure' = unsure /\ disturbed' = disturbed
      BY <1>2 DEF vars, platform
  <2>2. Typed'
    <3>1. Try' = Try /\ AnswerType' = AnswerType /\ Salts' = Salts
        BY <2>1 DEF Try, AnswerType, Salts
    <3> HIDE DEF Try, AnswerType, Salts
    <3> QED BY <2>1, <3>1 DEF IInv, Typed, TypeOK
  <2>3. Placed'
      BY <2>1 DEF IInv, Placed, UnsupportedExtension, calculate_hmac, Supports, NativePrf,
                  prf_to_hmac_input
  <2>4. Barred'
      BY <2>1 DEF IInv, Barred, Barring, StaysOut, ToTry
  <2>5. Described'
    <3>1. /\ \A uv : Registration(uv)' = Registration(uv)
          /\ \A c : Fits(c)' <=> Fits(c)
        BY <2>1 DEF Registration, Answer, CredProps, Known21, require_resident_key,
                    LargeBlobOutput, Fits
    <3> QED BY <2>1, <3>1 DEF IInv, Described
  <2>6. Fetched'
    <3>1. \A a : (Genuine(a)' <=> Genuine(a)) /\ (Asked(a)' <=> Asked(a))
        BY <2>1 DEF Genuine, Right, PrfDue, NativePrf, Supports, Asked, Known
    <3> QED BY <2>1, <3>1 DEF IInv, Fetched
  <2>7. Counted'
    <3>1. Assertable' = Assertable
        BY <2>1 DEF Assertable, Visible
    <3>2. \A k : Capped(k)' = Capped(k)
        BY <2>1 DEF Capped
    <3>3. \A s : Different(s)' <=> Different(s)
        BY DEF Different
    <3>4. Cardinality(Assertable)' = Cardinality(Assertable)
        BY <3>1
    <3> HIDE DEF Assertable
    <3> QED BY <2>1, <3>2, <3>4 DEF IInv, Counted, Different
  <2> QED BY <2>2, <2>3, <2>4, <2>5, <2>6, <2>7 DEF IInv
<1> QED
    BY <1>1, <1>2

LEMMA InvAlways == Spec => []IInv
    BY InvInit, InvNext, PTL DEF Spec

(* The types of an operation's state: it has an outcome once it is done    *)
(* and not before, tries something wherever it tries credentials, and has  *)
(* fewer assertions than it counts as long as it fetches more.             *)
THEOREM OperationTypesAreCorrect == Spec => []TypeOK
<1>1. IInv => TypeOK
    BY DEF IInv, Typed
<1> QED
    BY <1>1, InvAlways, PTL

(* ctap2_preflight_with_appid and the pre-flight of a U2F registration     *)
(* over every list, whatever the filter leaves of it and whatever fails:   *)
(* no credential is made beside an excluded one of the relying party that  *)
(* a silent command finds.                                                 *)
THEOREM ExcludedStayOutAlways == Spec => []ExcludedStayOut
<1>1. IInv => ExcludedStayOut
  <2> SUFFICES ASSUME IInv, op.kind = "create", ~unsure, \E c \in held : c.id = NewId,
                      NEW c \in held, c.id \in ToSet(op.list), c.rp = Rp, Visible(c, FALSE)
               PROVE  FALSE
      BY DEF ExcludedStayOut
  <2>1. pc = "done"
    <3>1. \A d \in Credentials : d.id # NewId
        BY OperationAssumption
    <3> QED BY <3>1 DEF IInv, Placed
  <2>2. StaysOut(c)
      BY DEF IInv, Barred, Barring
  <2> QED BY <2>1, <2>2 DEF StaysOut
<1> QED
    BY <1>1, InvAlways, PTL

(* An operation that ends well has verified the user where the request     *)
(* requires it, and has made the credential discoverable, protected and    *)
(* with large blobs where it requires that, over FIDO2 and over U2F.       *)
THEOREM RequirementsAreMetAlways == Spec => []RequirementsAreMet
<1>1. IInv => RequirementsAreMet
  <2> SUFFICES ASSUME IInv, outcome = "ok", ~disturbed PROVE RequirementsAreMet
      BY DEF RequirementsAreMet
  <2>1. CASE op.kind = "get"
      BY <2>1 DEF IInv, Fetched, Genuine, Right, RequirementsAreMet
  <2>2. CASE op.kind = "create"
    <3>1. PICK uv \in BOOLEAN : answers = <<Registration(uv)>> /\ (UvOf(op) = "required" => uv)
        BY <2>2 DEF IInv, Described
    <3>2. /\ \E c \in held : c.id = NewId
          /\ \A c \in held : c.id = NewId => Fits(c)
          /\ op.blob = "required" => device.fido2 /\ device.largeBlobs
        BY <2>2, <3>1 DEF IInv, Described
    <3>3. Registration(uv).verified = uv
        BY DEF Registration, Answer
    <3>4. \A i \in DOMAIN answers : answers[i] = Registration(uv)
        BY <3>1, Single
    <3>5. UvOf(op) = "required" => \A i \in DOMAIN answers : answers[i].verified
        BY <3>1, <3>3, <3>4
    <3> QED BY <2>2, <3>2, <3>5 DEF Fits, RequirementsAreMet
  <2>3. op.kind \in {"create", "get"}
      BY Given DEF IInv, Typed
  <2> QED BY <2>1, <2>2, <2>3
<1> QED
    BY <1>1, InvAlways, PTL

(* The assertions fetched, with getNextAssertion and over U2F, are of      *)
(* credentials the request asks for that the authenticator holds, no two   *)
(* of one credential, and as many as there are up to the cap, unless       *)
(* another client came in between.                                         *)
THEOREM AssertionsAreAskedAlways == Spec => []AssertionsAreAsked
<1>1. IInv => AssertionsAreAsked
  <2> SUFFICES ASSUME IInv, op.kind = "get" PROVE AssertionsAreAsked
      BY DEF AssertionsAreAsked
  <2>1. \A i \in DOMAIN answers :
            /\ Asked(answers[i]) /\ Known(answers[i].id, answers[i].rp)
            /\ op.list # <<>> => answers[i].id \in ToSet(op.list)
      BY DEF IInv, Fetched, Genuine
  <2>2. ~disturbed => IsInjective(answers)
      BY DEF IInv, Counted, Different, IsInjective
  <2>3. outcome = "ok" /\ ~disturbed /\ op.list = <<>> =>
            Len(answers) = Capped(Cardinality(Assertable))
      BY DEF IInv, Counted
  <2> QED BY <2>1, <2>2, <2>3 DEF AssertionsAreAsked
<1> QED
    BY <1>1, InvAlways, PTL

(* What is said beside the signature, whether the credential is            *)
(* discoverable, whether the U2F name was used, whether blobs are there    *)
(* and what the PRF comes from, is so.                                     *)
THEOREM OutputsAreTrueAlways == Spec => []OutputsAreTrue
<1>1. IInv => OutputsAreTrue
  <2> SUFFICES ASSUME IInv PROVE OutputsAreTrue
      OBVIOUS
  <2>1. CASE op.kind = "get"
      BY <2>1 DEF IInv, Fetched, Genuine, Right, PrfDue, OutputsAreTrue
  <2>2. CASE op.kind = "create" /\ answers # <<>>
    <3>1. PICK uv \in BOOLEAN : answers = <<Registration(uv)>>
        BY <2>2 DEF IInv, Described
    <3>2. \A c \in held : c.id = NewId => Fits(c)
        BY <2>2 DEF IInv, Described
    <3>3. /\ Registration(uv).outputs.rk = CredProps(op)
          /\ Registration(uv).outputs.blob = LargeBlobOutput(op)
        BY DEF Registration, Answer, NoOutputs
    <3>4. LargeBlobOutput(op) = "true" => device.fido2 /\ device.largeBlobs
        BY DEF LargeBlobOutput
    <3>5. \A i \in DOMAIN answers : answers[i] = Registration(uv)
        BY <3>1, Single
    <3> QED BY <2>2, <3>2, <3>3, <3>4, <3>5 DEF Fits, OutputsAreTrue
  <2>3. CASE answers = <<>>
      BY <2>3 DEF OutputsAreTrue
  <2>4. op.kind \in {"create", "get"}
      BY Given DEF IInv, Typed
  <2> QED BY <2>1, <2>2, <2>3, <2>4
<1> QED
    BY <1>1, InvAlways, PTL
===============================================================================
