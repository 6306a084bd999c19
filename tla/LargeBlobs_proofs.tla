--------------------------- MODULE LargeBlobs_proofs ---------------------------
(***************************************************************************)
(* Proofs about LargeBlobs, for any keys, blobs and contents, any length   *)
(* of a fragment, and any number of calls, failures and other platforms'   *)
(* writes: every step of the library, of the authenticator and of the      *)
(* others is a step of BlobStore or leaves the store as it is.             *)
(***************************************************************************)
EXTENDS LargeBlobs, SequenceTheorems, WellFoundedInduction, TLAPS

-------------------------------------------------------------------------------
(* Sequences, and what Kept makes of them.                                 *)

(* A set of numbers that is not empty has a least one.                     *)
LEMMA Least ==
    ASSUME NEW T, T \subseteq Nat, T # {}
    PROVE  \E k \in T : \A m \in T : k <= m
<1> DEFINE Before == {p \in Nat \X Nat : p[1] < p[2]}
<1>1. IsWellFoundedOn(Before, Nat)
    BY NatLessThanWellFounded DEF OpToRel
<1>2. PICK x \in T : \A y \in T : <<y, x>> \notin Before
  <2> HIDE DEF Before
  <2> QED BY <1>1, WFMin
<1>3. \A y \in T : ~(y < x)
    BY <1>2
<1> QED
    BY <1>3

LEMMA Appended ==
    ASSUME NEW S, NEW s \in Seq(S), NEW x \in S
    PROVE  /\ Append(s, x) \in Seq(S)
           /\ Len(Append(s, x)) = Len(s) + 1
           /\ DOMAIN Append(s, x) = 1..(Len(s) + 1)
           /\ \A i \in 1..Len(s) : Append(s, x)[i] = s[i]
           /\ Append(s, x)[Len(s) + 1] = x
           /\ Front(Append(s, x)) = s /\ Last(Append(s, x)) = x
<1>1. /\ Append(s, x) \in Seq(S)
      /\ Len(Append(s, x)) = Len(s) + 1
      /\ DOMAIN Append(s, x) = 1..(Len(s) + 1)
      /\ \A i \in 1..Len(s) : Append(s, x)[i] = s[i]
      /\ Append(s, x)[Len(s) + 1] = x
    OBVIOUS
<1>2. Len(s) \in Nat
    OBVIOUS
<1>3. SubSeq(Append(s, x), 1, Len(s)) = s
    BY <1>1, <1>2
<1> QED
    BY <1>1, <1>2, <1>3 DEF Front, Last

LEMMA Parted ==
    ASSUME NEW S, NEW s \in Seq(S), s # <<>>
    PROVE  /\ Front(s) \in Seq(S) /\ Last(s) \in S
           /\ Len(s) \in Nat \ {0} /\ Len(Front(s)) = Len(s) - 1
           /\ \A i \in 1..(Len(s) - 1) : Front(s)[i] = s[i]
           /\ s = Append(Front(s), Last(s))
<1>1. Len(s) \in Nat \ {0} /\ Last(s) \in S
    BY DEF Last
<1>2. Front(s) \in Seq(S) /\ Len(Front(s)) = Len(s) - 1
    BY <1>1, SMTT(30) DEF Front
<1>3. \A i \in 1..(Len(s) - 1) : Front(s)[i] = s[i]
    BY <1>1 DEF Front
<1>4. /\ Append(Front(s), Last(s)) \in Seq(S) /\ Len(Append(Front(s), Last(s))) = Len(s)
      /\ \A i \in 1..(Len(s) - 1) : Append(Front(s), Last(s))[i] = Front(s)[i]
      /\ Append(Front(s), Last(s))[Len(s)] = Last(s)
    BY <1>1, <1>2, Appended
<1>5. \A i \in 1..Len(s) : Append(Front(s), Last(s))[i] = s[i]
    BY <1>1, <1>3, <1>4 DEF Last
<1> QED
    BY <1>1, <1>2, <1>3, <1>4, <1>5, SeqEqual

(* A set that has the empty sequence, and with a sequence all that are one *)
(* element longer, has every sequence.                                     *)
LEMMA EverySequence ==
    ASSUME NEW S, NEW G, <<>> \in G,
           \A s \in Seq(S), x \in S : s \in G => Append(s, x) \in G
    PROVE  Seq(S) \subseteq G
<1> DEFINE Bad == {m \in Nat : \E s \in Seq(S) : Len(s) = m /\ s \notin G}
<1>1. Bad = {}
  <2>1. SUFFICES ASSUME Bad # {} PROVE FALSE
      OBVIOUS
  <2>2. PICK m \in Bad : \A k \in Bad : m <= k
    <3>1. Bad \subseteq Nat
        OBVIOUS
    <3> HIDE DEF Bad
    <3> QED BY <2>1, <3>1, Least
  <2>3. PICK s \in Seq(S) : Len(s) = m /\ s \notin G
      BY <2>2
  <2>4. s # <<>>
      BY <2>3
  <2>5. Front(s) \in Seq(S) /\ Last(s) \in S /\ s = Append(Front(s), Last(s))
      BY <2>4, Parted
  <2>6. Len(Front(s)) = m - 1 /\ m - 1 \in Nat
      BY <2>3, <2>4, Parted
  <2>7. Front(s) \notin G
      BY <2>3, <2>5
  <2>8. m - 1 \in Bad
      BY <2>5, <2>6, <2>7
  <2>9. ~(m <= m - 1)
      BY <2>2
  <2> QED
    <3> HIDE DEF Bad
    <3> QED BY <2>2, <2>8, <2>9
<1>2. \A s \in Seq(S) : Len(s) \in Nat
    OBVIOUS
<1> QED
    BY <1>1, <1>2

(* Kept's function, of which there is one: it is built step by step.       *)
KeptBy(s, T, m, g) ==
    [i \in 0..m |->
        IF i = 0 THEN <<>> ELSE IF s[i] \in T THEN Append(g[i - 1], s[i]) ELSE g[i - 1]]

LEMMA KeptExists ==
    ASSUME NEW s, NEW T, NEW m \in Nat
    PROVE  \E g : g = KeptBy(s, T, m, g)
<1> DEFINE Missing == {k \in Nat : ~\E g : g = KeptBy(s, T, k, g)}
<1>1. SUFFICES ASSUME Missing # {} PROVE FALSE
    OBVIOUS
<1>2. PICK k \in Missing : \A j \in Missing : k <= j
  <2>1. Missing \subseteq Nat
      OBVIOUS
  <2> HIDE DEF Missing
  <2> QED BY <1>1, <2>1, Least
<1>3. k \in Nat /\ ~\E g : g = KeptBy(s, T, k, g)
    BY <1>2
<1>4. k # 0
  <2>1. [i \in 0..0 |-> <<>>] = KeptBy(s, T, 0, [i \in 0..0 |-> <<>>])
      BY DEF KeptBy
  <2> QED BY <2>1, <1>3
<1>5. k - 1 \in Nat /\ ~(k <= k - 1)
    BY <1>3, <1>4
<1>6. k - 1 \notin Missing
  <2> HIDE DEF Missing
  <2> QED BY <1>2, <1>5
<1>7. PICK h : h = KeptBy(s, T, k - 1, h)
    BY <1>5, <1>6
<1> DEFINE last == IF s[k] \in T THEN Append(h[k - 1], s[k]) ELSE h[k - 1]
<1> DEFINE g == [i \in 0..k |-> IF i = k THEN last ELSE h[i]]
<1>8. \A i \in 0..(k - 1) :
        h[i] = IF i = 0 THEN <<>> ELSE IF s[i] \in T THEN Append(h[i - 1], s[i]) ELSE h[i - 1]
  <2> HIDE DEF last, g
  <2> QED BY <1>7 DEF KeptBy
<1>9. /\ \A i \in 0..(k - 1) : g[i] = h[i]
      /\ g[k] = last /\ k \in 0..k
    BY <1>3
<1>10. \A i \in 0..k :
        g[i] = IF i = 0 THEN <<>> ELSE IF s[i] \in T THEN Append(g[i - 1], s[i]) ELSE g[i - 1]
  <2> SUFFICES ASSUME NEW i \in 0..k
               PROVE  g[i] = IF i = 0 THEN <<>>
                             ELSE IF s[i] \in T THEN Append(g[i - 1], s[i]) ELSE g[i - 1]
      OBVIOUS
  <2>1. CASE i = k
    <3>1. g[k - 1] = h[k - 1]
      <4>1. k - 1 \in 0..(k - 1)
          BY <1>5
      <4> QED BY <4>1, <1>9
    <3> HIDE DEF g
    <3> QED BY <2>1, <3>1, <1>9, <1>4
  <2>2. CASE i # k
    <3>1. i \in 0..(k - 1) /\ (i # 0 => i - 1 \in 0..(k - 1))
        BY <2>2, <1>3
    <3> HIDE DEF g
    <3> QED BY <3>1, <1>8, <1>9
  <2> QED BY <2>1, <2>2
<1>11. g = [i \in 0..k |-> g[i]]
    OBVIOUS
<1>12. g = KeptBy(s, T, k, g)
  <2> HIDE DEF g
  <2> QED BY <1>10, <1>11 DEF KeptBy
<1> QED
    BY <1>3, <1>12

KeptFunction(s, T) == CHOOSE g : g = KeptBy(s, T, Len(s), g)

LEMMA KeptUnfolds ==
    ASSUME NEW s, NEW T, Len(s) \in Nat
    PROVE  /\ Kept(s, T) = KeptFunction(s, T)[Len(s)]
           /\ \A i \in 0..Len(s) :
                KeptFunction(s, T)[i] =
                    IF i = 0 THEN <<>>
                    ELSE IF s[i] \in T THEN Append(KeptFunction(s, T)[i - 1], s[i])
                    ELSE KeptFunction(s, T)[i - 1]
<1>1. Kept(s, T) = KeptFunction(s, T)[Len(s)]
    BY DEF Kept, KeptFunction, KeptBy
<1>2. KeptFunction(s, T) = KeptBy(s, T, Len(s), KeptFunction(s, T))
    BY KeptExists DEF KeptFunction
<1> QED
    BY <1>1, <1>2 DEF KeptBy

LEMMA KeptEmpty ==
    ASSUME NEW T
    PROVE  Kept(<<>>, T) = <<>>
<1>1. Len(<<>>) = 0
    OBVIOUS
<1> QED
    BY <1>1, KeptUnfolds

LEMMA KeptAppend ==
    ASSUME NEW S, NEW s \in Seq(S), NEW x \in S, NEW T
    PROVE  Kept(Append(s, x), T) = IF x \in T THEN Append(Kept(s, T), x) ELSE Kept(s, T)
<1> DEFINE t == Append(s, x)
<1> DEFINE f == KeptFunction(s, T)
<1> DEFINE g == KeptFunction(t, T)
<1> DEFINE m == Len(s)
<1>1. /\ m \in Nat /\ Len(t) = m + 1 /\ t[m + 1] = x
      /\ \A i \in 1..m : t[i] = s[i]
    BY Appended
<1>2. /\ Kept(s, T) = f[m] /\ Kept(t, T) = g[m + 1]
      /\ \A i \in 0..m : f[i] = IF i = 0 THEN <<>>
                                ELSE IF s[i] \in T THEN Append(f[i - 1], s[i]) ELSE f[i - 1]
      /\ \A i \in 0..(m + 1) : g[i] = IF i = 0 THEN <<>>
                                ELSE IF t[i] \in T THEN Append(g[i - 1], t[i]) ELSE g[i - 1]
  <2>1. Len(t) \in Nat /\ Len(s) \in Nat
      BY <1>1
  <2> HIDE DEF t
  <2> QED BY <1>1, <2>1, KeptUnfolds
<1> HIDE DEF t, f, g, m
<1> DEFINE Bad == {i \in 0..m : f[i] # g[i]}
<1>3. Bad = {}
  <2>1. SUFFICES ASSUME Bad # {} PROVE FALSE
      OBVIOUS
  <2>2. PICK i \in Bad : \A j \in Bad : i <= j
    <3>1. Bad \subseteq Nat
        BY <1>1
    <3> HIDE DEF Bad
    <3> QED BY <2>1, <3>1, Least
  <2>3. i \in 0..m /\ f[i] # g[i]
      BY <2>2
  <2>4. i \in 0..(m + 1) /\ 0 \in 0..m /\ 0 \in 0..(m + 1)
      BY <2>3, <1>1
  <2>5. i # 0
      BY <2>3, <2>4, <1>2
  <2>6. i - 1 \in 0..m /\ ~(i <= i - 1) /\ i \in 1..m
      BY <2>3, <2>5, <1>1
  <2>7. i - 1 \notin Bad
    <3> HIDE DEF Bad
    <3> QED BY <2>2, <2>6
  <2>8. f[i - 1] = g[i - 1]
      BY <2>6, <2>7
  <2> QED
      BY <2>3, <2>4, <2>5, <2>6, <2>8, <1>1, <1>2
<1>4. f[m] = g[m] /\ m + 1 \in 0..(m + 1) /\ m + 1 # 0 /\ (m + 1) - 1 = m
    BY <1>1, <1>3
<1>5. Kept(t, T) = IF x \in T THEN Append(Kept(s, T), x) ELSE Kept(s, T)
    BY <1>1, <1>2, <1>4
<1> QED
    BY <1>5 DEF t

LEMMA KeptType ==
    ASSUME NEW S, NEW s \in Seq(S), NEW T
    PROVE  Kept(s, T) \in Seq(S \cap T)
<1> DEFINE G == {r \in Seq(S) : Kept(r, T) \in Seq(S \cap T)}
<1>1. <<>> \in G
  <2>1. <<>> \in Seq(S \cap T) /\ <<>> \in Seq(S)
      BY EmptySeq
  <2> QED BY <2>1, KeptEmpty
<1>2. ASSUME NEW r \in Seq(S), NEW x \in S, r \in G
      PROVE  Append(r, x) \in G
  <2>1. Append(r, x) \in Seq(S)
      OBVIOUS
  <2>2. Kept(r, T) \in Seq(S \cap T)
      BY <1>2
  <2>3. x \in T => Append(Kept(r, T), x) \in Seq(S \cap T)
      BY <2>2
  <2> QED
      BY <2>1, <2>2, <2>3, KeptAppend
<1>3. Seq(S) \subseteq G
  <2> HIDE DEF G
  <2> QED BY <1>1, <1>2, EverySequence
<1> QED
    BY <1>3

LEMMA KeptMembers ==
    ASSUME NEW S, NEW s \in Seq(S), NEW T
    PROVE  ToSet(Kept(s, T)) = ToSet(s) \cap T
<1> DEFINE G == {r \in Seq(S) : ToSet(Kept(r, T)) = ToSet(r) \cap T}
<1>1. <<>> \in G
  <2>1. ToSet(<<>>) = {}
      BY DEF ToSet
  <2> QED BY <2>1, KeptEmpty
<1>2. ASSUME NEW r \in Seq(S), NEW x \in S, r \in G
      PROVE  Append(r, x) \in G
  <2>1. Append(r, x) \in Seq(S) /\ ToSet(Append(r, x)) = ToSet(r) \cup {x}
      BY Appended DEF ToSet
  <2>2. Kept(r, T) \in Seq(S)
    <3>1. S \cap T \subseteq S
        OBVIOUS
    <3> QED BY <3>1, KeptType, SeqMonotonic
  <2>3. ToSet(Append(Kept(r, T), x)) = ToSet(Kept(r, T)) \cup {x}
      BY <2>2, Appended, SMTT(30) DEF ToSet
  <2>4. ToSet(Kept(r, T)) = ToSet(r) \cap T
      BY <1>2
  <2>5. ToSet(Kept(Append(r, x), T)) = ToSet(Append(r, x)) \cap T
    <3>1. Kept(Append(r, x), T) = IF x \in T THEN Append(Kept(r, T), x) ELSE Kept(r, T)
        BY KeptAppend
    <3>2. CASE x \in T
        BY <3>1, <3>2, <2>1, <2>3, <2>4
    <3>3. CASE x \notin T
        BY <3>1, <3>3, <2>1, <2>4
    <3> QED BY <3>2, <3>3
  <2> QED
      BY <2>1, <2>5
<1>3. Seq(S) \subseteq G
  <2> HIDE DEF G
  <2> QED BY <1>1, <1>2, EverySequence
<1> QED
    BY <1>3

(* To keep twice is to keep what is kept both times.                       *)
LEMMA KeptTwice ==
    ASSUME NEW S, NEW s \in Seq(S), NEW A, NEW B
    PROVE  Kept(Kept(s, A), B) = Kept(s, A \cap B)
<1> DEFINE G == {r \in Seq(S) : Kept(Kept(r, A), B) = Kept(r, A \cap B)}
<1>1. <<>> \in G
    BY KeptEmpty
<1>2. ASSUME NEW r \in Seq(S), NEW x \in S, r \in G
      PROVE  Append(r, x) \in G
  <2>1. Append(r, x) \in Seq(S)
      OBVIOUS
  <2>2. Kept(r, A) \in Seq(S)
    <3>1. S \cap A \subseteq S
        OBVIOUS
    <3> QED BY <3>1, KeptType, SeqMonotonic
  <2>3. Kept(Kept(r, A), B) = Kept(r, A \cap B)
      BY <1>2
  <2>4. Kept(Append(Kept(r, A), x), B)
            = IF x \in B THEN Append(Kept(Kept(r, A), B), x) ELSE Kept(Kept(r, A), B)
      BY <2>2, KeptAppend
  <2>5. Kept(Append(r, x), A) = IF x \in A THEN Append(Kept(r, A), x) ELSE Kept(r, A)
      BY KeptAppend
  <2>6. Kept(Append(r, x), A \cap B)
            = IF x \in A \cap B THEN Append(Kept(r, A \cap B), x) ELSE Kept(r, A \cap B)
      BY KeptAppend
  <2>7. Kept(Kept(Append(r, x), A), B) = Kept(Append(r, x), A \cap B)
    <3>1. CASE x \in A
      <4>1. Kept(Kept(Append(r, x), A), B) = Kept(Append(Kept(r, A), x), B)
          BY <3>1, <2>5
      <4>2. (x \in A \cap B) = (x \in B)
          BY <3>1
      <4>3. Kept(Append(r, x), A \cap B)
                = IF x \in B THEN Append(Kept(r, A \cap B), x) ELSE Kept(r, A \cap B)
          BY <4>2, <2>6
      <4> QED BY <4>1, <4>3, <2>3, <2>4
    <3>2. CASE x \notin A
        BY <3>2, <2>3, <2>5, <2>6
    <3> QED BY <3>1, <3>2
  <2> QED
      BY <2>1, <2>7
<1>3. Seq(S) \subseteq G
  <2> HIDE DEF G
  <2> QED BY <1>1, <1>2, EverySequence
<1> QED
    BY <1>3

(* Only the members of S matter.                                           *)
LEMMA KeptSame ==
    ASSUME NEW S, NEW s \in Seq(S), NEW A, NEW B, S \cap A = S \cap B
    PROVE  Kept(s, A) = Kept(s, B)
<1> DEFINE G == {r \in Seq(S) : Kept(r, A) = Kept(r, B)}
<1>1. <<>> \in G
    BY KeptEmpty
<1>2. ASSUME NEW r \in Seq(S), NEW x \in S, r \in G
      PROVE  Append(r, x) \in G
  <2>1. Append(r, x) \in Seq(S) /\ (x \in A <=> x \in B)
      OBVIOUS
  <2>2. Kept(Append(r, x), A) = IF x \in A THEN Append(Kept(r, A), x) ELSE Kept(r, A)
      BY KeptAppend
  <2>3. Kept(Append(r, x), B) = IF x \in B THEN Append(Kept(r, B), x) ELSE Kept(r, B)
      BY KeptAppend
  <2>4. Kept(r, A) = Kept(r, B)
      BY <1>2
  <2>5. Kept(Append(r, x), A) = Kept(Append(r, x), B)
      BY <2>1, <2>2, <2>3, <2>4
  <2> QED
      BY <2>1, <2>5
<1>3. Seq(S) \subseteq G
  <2> HIDE DEF G
  <2> QED BY <1>1, <1>2, EverySequence
<1> QED
    BY <1>3

LEMMA KeptNone ==
    ASSUME NEW S, NEW s \in Seq(S), NEW T, S \cap T = {}
    PROVE  Kept(s, T) = <<>>
<1>1. Kept(s, T) \in Seq({})
    BY KeptType
<1> QED
    BY <1>1

(* What is kept is nothing, or begins with the first that is in T.         *)
LEMMA KeptFirst ==
    ASSUME NEW S, NEW s \in Seq(S), NEW T
    PROVE  \/ /\ Kept(s, T) = <<>>
              /\ \A i \in DOMAIN s : s[i] \notin T
           \/ /\ Kept(s, T) # <<>>
              /\ \E i \in DOMAIN s : /\ s[i] \in T /\ Kept(s, T)[1] = s[i]
                                     /\ \A j \in DOMAIN s : s[j] \in T => i <= j
<1> DEFINE First(r, i) ==
        /\ r[i] \in T /\ Kept(r, T)[1] = r[i]
        /\ \A j \in DOMAIN r : r[j] \in T => i <= j
<1> DEFINE None(r) == Kept(r, T) = <<>> /\ \A i \in DOMAIN r : r[i] \notin T
<1> DEFINE Some(r) == Kept(r, T) # <<>> /\ \E i \in DOMAIN r : First(r, i)
<1> DEFINE G == {r \in Seq(S) : None(r) \/ Some(r)}
<1>1. <<>> \in G
    BY KeptEmpty
<1>2. ASSUME NEW r \in Seq(S), NEW x \in S, r \in G
      PROVE  Append(r, x) \in G
  <2> DEFINE t == Append(r, x)
  <2> DEFINE m == Len(r)
  <2>1. /\ t \in Seq(S) /\ m \in Nat /\ t[m + 1] = x
        /\ \A i \in 1..m : t[i] = r[i]
        /\ DOMAIN t = 1..(m + 1) /\ DOMAIN r = 1..m
      BY Appended
  <2>2. Kept(t, T) = IF x \in T THEN Append(Kept(r, T), x) ELSE Kept(r, T)
      BY KeptAppend
  <2>3. Kept(r, T) \in Seq(S)
    <3>1. S \cap T \subseteq S
        OBVIOUS
    <3> QED BY <3>1, KeptType, SeqMonotonic
  <2>4. \A i \in 1..(m + 1) : i \in 1..m \/ i = m + 1
      BY <2>1
  <2>5. None(r) \/ Some(r)
      BY <1>2
  <2>6. m + 1 \in 1..(m + 1) /\ 1..m \subseteq 1..(m + 1) /\ \A i \in 1..m : i <= m + 1
      BY <2>1
  <2> HIDE DEF t, m, G
  <2>7. CASE None(r) /\ x \notin T
    <3>1. None(t)
        BY <2>1, <2>2, <2>4, <2>7
    <3> QED BY <3>1, <2>1 DEF t, G
  <2>8. CASE None(r) /\ x \in T
    <3>1. Kept(t, T) = <<x>>
        BY <2>2, <2>8
    <3>2. First(t, m + 1)
        BY <2>1, <2>4, <2>6, <2>8, <3>1
    <3>3. Some(t)
        BY <2>1, <2>6, <3>1, <3>2
    <3> QED BY <3>3, <2>1 DEF t, G
  <2>9. CASE Some(r)
    <3>1. PICK i \in 1..m : First(r, i)
        BY <2>1, <2>9
    <3>2. Kept(t, T) # <<>> /\ Kept(t, T)[1] = Kept(r, T)[1]
        BY <2>2, <2>3, <2>9
    <3>3. First(t, i) /\ i \in DOMAIN t
        BY <2>1, <2>4, <2>6, <3>1, <3>2
    <3>4. Some(t)
        BY <3>2, <3>3
    <3> QED BY <3>4, <2>1 DEF t, G
  <2> QED
      BY <2>5, <2>7, <2>8, <2>9
<1>3. Seq(S) \subseteq G
  <2> HIDE DEF G
  <2> QED BY <1>1, <1>2, EverySequence
<1> QED
    BY <1>3

-------------------------------------------------------------------------------
(* The arrays: what they are made of, and that a trailer is found only at  *)
(* the end of the array it is the hash of.                                 *)

Heads == {[count |-> c] : c \in Nat}
Plain == Heads \cup Elems
Units == Plain \cup {[hash |-> d] : d \in Seq(Plain)}
Arrays == {Serialize(c) : c \in Seq(Elems)} \cup {Malformed, <<Junk>>}

LEMMA PlainIsNoTrailer ==
    \A u \in Plain : \A d : u # [hash |-> d]
<1> SUFFICES ASSUME NEW u \in Plain, NEW d, u = [hash |-> d] PROVE FALSE
    OBVIOUS
<1>1. DOMAIN u = {"hash"}
    OBVIOUS
<1>2. CASE u \in Heads
  <2>1. DOMAIN u = {"count"}
      BY <1>2 DEF Heads
  <2> QED BY <1>1, <2>1
<1>3. CASE u \in Elems
  <2>1. DOMAIN u = {"key", "blob", "form"}
      BY <1>3 DEF Elems
  <2> QED BY <1>1, <2>1
<1> QED
    BY <1>2, <1>3 DEF Plain

LEMMA JunkIsElement ==
    Junk \in Elems /\ <<Junk>> \in Seq(Elems) /\ Junk \in Plain /\ Junk \in Units
    BY DEF Junk, Entry, Elems, Plain, Units

LEMMA Enclosed ==
    ASSUME NEW S, NEW b \in Seq(S), NEW t
    PROVE  /\ Append(b, t) \in Seq(S \cup {t}) /\ Append(b, t) # <<>>
           /\ Front(Append(b, t)) = b /\ Last(Append(b, t)) = t
           /\ Len(Append(b, t)) = Len(b) + 1
<1> DEFINE U == S \cup {t}
<1>1. b \in Seq(U) /\ t \in U
  <2>1. S \subseteq U /\ t \in U
      OBVIOUS
  <2> HIDE DEF U
  <2> QED BY <2>1, SeqMonotonic
<1>2. /\ Append(b, t) \in Seq(U)
      /\ Front(Append(b, t)) = b /\ Last(Append(b, t)) = t
      /\ Len(Append(b, t)) = Len(b) + 1
  <2> HIDE DEF U
  <2> QED BY <1>1, Appended
<1>3. Append(b, t) # <<>>
    BY <1>2
<1> QED
    BY <1>2, <1>3

LEMMA Headed ==
    ASSUME NEW S, NEW c \in Seq(S), NEW h \in S
    PROVE  /\ <<h>> \o c \in Seq(S) /\ <<h>> \o c # <<>>
           /\ Len(<<h>> \o c) = Len(c) + 1 /\ (<<h>> \o c)[1] = h
           /\ Tail(<<h>> \o c) = c
    OBVIOUS

LEMMA Serialized ==
    ASSUME NEW c \in Seq(Elems)
    PROVE  /\ Serialize(c) \in Seq(Units) /\ Serialize(c) # <<>>
           /\ Front(Serialize(c)) \in Seq(Plain)
           /\ Len(Serialize(c)) = Len(c) + 2
           /\ trailer_matches(Serialize(c)) /\ parses(Front(Serialize(c)))
           /\ parse_array_raw_entries(Front(Serialize(c))) = c
           /\ Elements(Serialize(c)) = c
<1> DEFINE h == [count |-> Len(c)]
<1> DEFINE body == <<h>> \o c
<1>1. Len(c) \in Nat /\ h \in Plain /\ c \in Seq(Plain)
  <2>1. Elems \subseteq Plain
      BY DEF Plain
  <2>2. Len(c) \in Nat
      OBVIOUS
  <2> QED BY <2>1, <2>2, SeqMonotonic DEF Plain, Heads
<1>2. /\ body \in Seq(Plain) /\ body # <<>> /\ Len(body) = Len(c) + 1
      /\ body[1] = h /\ Tail(body) = c
  <2> HIDE DEF h
  <2> QED BY <1>1, Headed
<1>3. Serialize(c) = Append(body, array_trailer(body))
    BY DEF Serialize
<1> HIDE DEF body
<1>4. array_trailer(body) \in Units
    BY <1>2 DEF array_trailer, Units
<1>5. /\ Serialize(c) \in Seq(Units) /\ Serialize(c) # <<>>
      /\ Front(Serialize(c)) = body /\ Last(Serialize(c)) = array_trailer(body)
      /\ Len(Serialize(c)) = Len(body) + 1
  <2>1. body \in Seq(Units)
    <3>1. Plain \subseteq Units
        BY DEF Units
    <3> QED BY <3>1, <1>2, SeqMonotonic
  <2> QED BY <2>1, <1>3, <1>4, Enclosed, Appended
<1>6. trailer_matches(Serialize(c))
    BY <1>5 DEF trailer_matches
<1>7. parses(body) /\ parse_array_raw_entries(body) = c
    BY <1>1, <1>2 DEF parses, parse_array_raw_entries, h
<1> QED
    BY <1>1, <1>2, <1>5, <1>6, <1>7 DEF Elements

LEMMA MalformedFacts ==
    /\ Malformed \in Seq(Units) /\ Malformed # <<>>
    /\ Front(Malformed) \in Seq(Plain)
    /\ trailer_matches(Malformed) /\ ~parses(Front(Malformed))
<1> DEFINE h == [count |-> 2]
<1> DEFINE body == <<h, Junk>>
<1>1. body \in Seq(Plain) /\ Len(body) = 2 /\ body # <<>> /\ body[1] = h
  <2>1. h \in Plain
      BY DEF Plain, Heads
  <2> QED BY <2>1, JunkIsElement
<1>2. Malformed = Append(body, array_trailer(body))
    BY DEF Malformed
<1> HIDE DEF body
<1>3. array_trailer(body) \in Units /\ body \in Seq(Units)
  <2>1. Plain \subseteq Units
      BY DEF Units
  <2> QED BY <2>1, <1>1, SeqMonotonic DEF array_trailer, Units
<1>4. /\ Malformed \in Seq(Units) /\ Malformed # <<>>
      /\ Front(Malformed) = body /\ Last(Malformed) = array_trailer(body)
    BY <1>2, <1>3, Enclosed, Appended
<1>5. [count |-> 1] # h
    OBVIOUS
<1>6. ~parses(body)
    BY <1>1, <1>5 DEF parses, h
<1> QED
    BY <1>1, <1>4, <1>6 DEF trailer_matches

LEMMA InitialFacts ==
    /\ <<Junk>> \in Seq(Units) /\ <<Junk>> # <<>>
    /\ ~trailer_matches(<<Junk>>)
<1>1. Last(<<Junk>>) = Junk
    BY DEF Last
<1>2. Last(<<Junk>>) # array_trailer(Front(<<Junk>>))
    BY <1>1, PlainIsNoTrailer, JunkIsElement DEF array_trailer
<1> QED
    BY <1>2, JunkIsElement DEF trailer_matches

(* A trailer in an array is its last unit, and fits it.                    *)
LEMMA TrailersAreLast ==
    ASSUME NEW a \in Arrays, NEW i \in DOMAIN a, NEW d, a[i] = [hash |-> d]
    PROVE  Last(a) = a[i] /\ d = Front(a)
<1>1. CASE \E b \in Seq(Plain) : a = Append(b, array_trailer(b))
  <2>1. PICK b \in Seq(Plain) : a = Append(b, array_trailer(b))
      BY <1>1
  <2>2. /\ Front(a) = b /\ Last(a) = array_trailer(b) /\ Len(a) = Len(b) + 1
        /\ a \in Seq(Plain \cup {array_trailer(b)})
      BY <2>1, Enclosed
  <2>3. \A j \in 1..Len(b) : a[j] = b[j] /\ b[j] \in Plain
    <3>1. b \in Seq(Plain \cup {array_trailer(b)}) /\ array_trailer(b) \in Plain \cup {array_trailer(b)}
        BY SeqMonotonic
    <3> QED BY <2>1, <3>1, Appended
  <2>4. DOMAIN a = 1..(Len(b) + 1) /\ Len(b) \in Nat
      BY <2>2
  <2>5. i = Len(b) + 1
    <3>1. i \notin 1..Len(b)
        BY <2>3, PlainIsNoTrailer
    <3> QED BY <3>1, <2>4
  <2>6. a[i] = Last(a)
      BY <2>2, <2>5 DEF Last
  <2>7. [hash |-> d] = [hash |-> b]
      BY <2>2, <2>6 DEF array_trailer
  <2>8. [hash |-> d].hash = [hash |-> b].hash
      BY <2>7
  <2> QED
      BY <2>2, <2>6, <2>8
<1>2. CASE a = <<Junk>>
    BY <1>2, PlainIsNoTrailer, JunkIsElement
<1>3. CASE a = Malformed
  <2>1. [count |-> 2] \in Plain
      BY DEF Plain, Heads
  <2>2. <<[count |-> 2], Junk>> \in Seq(Plain)
      BY <2>1, JunkIsElement
  <2> QED BY <2>2, <1>1, <1>3 DEF Malformed
<1>4. CASE \E c \in Seq(Elems) : a = Serialize(c)
  <2>1. PICK c \in Seq(Elems) : a = Serialize(c)
      BY <1>4
  <2>2. Len(c) \in Nat /\ c \in Seq(Plain) /\ [count |-> Len(c)] \in Plain
    <3>1. Elems \subseteq Plain
        BY DEF Plain
    <3> QED BY <3>1, SeqMonotonic DEF Plain, Heads
  <2>3. <<[count |-> Len(c)]>> \o c \in Seq(Plain)
      BY <2>2, Headed
  <2> QED BY <2>1, <2>3, <1>1 DEF Serialize
<1> QED
    BY <1>2, <1>3, <1>4 DEF Arrays

LEMMA ArrayFacts ==
    ASSUME NEW a \in Arrays
    PROVE  /\ a \in Seq(Units) /\ a # <<>>
           /\ Len(a) \in Nat \ {0}
           /\ Elements(a) \in Seq(Elems)
<1>1. a \in Seq(Units) /\ a # <<>>
    BY Serialized, MalformedFacts, InitialFacts DEF Arrays
<1>2. <<>> \in Seq(Elems)
    OBVIOUS
<1>3. Elements(a) \in Seq(Elems)
    BY <1>2, Serialized, MalformedFacts, InitialFacts DEF Arrays, Elements
<1> QED
    BY <1>1, <1>3

(* What is read unit by unit from arrays, and ends with a fitting trailer, *)
(* is one of the arrays.                                                   *)
LEMMA WholeOnesAreArrays ==
    ASSUME NEW H \in SUBSET Arrays, NEW s \in Seq(Units), trailer_matches(s),
           \A u \in ToSet(s) : u = Junk \/ \E a \in H : u \in ToSet(a)
    PROVE  s \in H
<1>1. /\ s # <<>> /\ Last(s) = [hash |-> Front(s)] /\ Last(s) \in ToSet(s)
      /\ s = Append(Front(s), Last(s))
  <2>1. s # <<>> /\ Last(s) = [hash |-> Front(s)]
      BY DEF trailer_matches, array_trailer
  <2>2. Len(s) \in DOMAIN s
      BY <2>1
  <2> QED BY <2>1, <2>2, Parted DEF Last, ToSet
<1>2. Last(s) # Junk
    BY <1>1, PlainIsNoTrailer, JunkIsElement
<1>3. PICK a \in H : Last(s) \in ToSet(a)
    BY <1>1, <1>2
<1>4. PICK i \in DOMAIN a : a[i] = Last(s)
    BY <1>3 DEF ToSet
<1>5. Last(a) = Last(s) /\ Front(s) = Front(a)
  <2>1. a \in Arrays /\ a[i] = [hash |-> Front(s)]
      BY <1>1, <1>4
  <2> QED BY <2>1, <1>4, TrailersAreLast
<1>6. a = Append(Front(a), Last(a))
  <2>1. a \in Arrays
      OBVIOUS
  <2> QED BY <2>1, ArrayFacts, Parted
<1> QED
    BY <1>1, <1>5, <1>6

-------------------------------------------------------------------------------
(* The store an array stands for.                                          *)

Owned(o) == {e \in Elems : e.key = o}
StoreHas(c) == [o \in Keys \cup {NoKey} |-> Kept(c, Owned(o))]

LEMMA StoreOfSerialized ==
    ASSUME NEW c \in Seq(Elems)
    PROVE  StoreOf(Serialize(c)) = StoreHas(c)
    BY Serialized DEF StoreOf, StoreHas, Owned

LEMMA StoreOfNothing ==
    /\ StoreOf(Serialize(<<>>)) = ToStore!Empty
    /\ StoreOf(<<Junk>>) = ToStore!Empty
<1>1. StoreHas(<<>>) = ToStore!Empty
    BY KeptEmpty DEF StoreHas, ToStore!Empty
<1>2. StoreOf(<<Junk>>) = StoreHas(<<>>)
    BY InitialFacts DEF StoreOf, StoreHas, Owned, Elements
<1>3. <<>> \in Seq(Elems)
    OBVIOUS
<1> QED
    BY <1>1, <1>2, <1>3, StoreOfSerialized

LEMMA ReadableStores ==
    ASSUME LargeBlobsAssumption, NEW c \in Seq(Elems), NEW k \in Keys
    PROVE  StoreOf(Serialize(c)) # Opaque
<1>1. DOMAIN StoreHas(c) = Keys \cup {NoKey} /\ DOMAIN Opaque = {NoKey}
    BY DEF StoreHas, Opaque
<1>2. k \in Keys \cup {NoKey} /\ k \notin {NoKey}
    BY DEF LargeBlobsAssumption
<1> QED
    BY <1>1, <1>2, StoreOfSerialized

(* Arrays that hold other elements stand for other stores.                 *)
LEMMA StoresDiffer ==
    ASSUME NEW a \in Arrays, a # Malformed, NEW c \in Seq(Elems),
           ToSet(c) # ToSet(Elements(a))
    PROVE  StoreOf(Serialize(c)) # StoreOf(a)
<1>1. StoreOf(a) = StoreHas(Elements(a)) /\ Elements(a) \in Seq(Elems)
  <2>1. CASE a = <<Junk>>
      BY <2>1, InitialFacts, ArrayFacts DEF StoreOf, StoreHas, Owned, Elements
  <2>2. CASE \E d \in Seq(Elems) : a = Serialize(d)
      BY <2>2, Serialized, StoreOfSerialized
  <2> QED BY <2>1, <2>2 DEF Arrays
<1>2. SUFFICES ASSUME StoreHas(c) = StoreHas(Elements(a)) PROVE FALSE
    BY <1>1, StoreOfSerialized
<1>3. \A d \in Seq(Elems) : \A e \in Elems :
        e \in ToSet(d) <=> e \in ToSet(StoreHas(d)[e.key])
  <2> SUFFICES ASSUME NEW d \in Seq(Elems), NEW e \in Elems
               PROVE  e \in ToSet(d) <=> e \in ToSet(StoreHas(d)[e.key])
      OBVIOUS
  <2>1. e.key \in Keys \cup {NoKey} /\ e \in Owned(e.key)
      BY DEF Elems, Owned
  <2>2. StoreHas(d)[e.key] = Kept(d, Owned(e.key))
      BY <2>1 DEF StoreHas
  <2> QED BY <2>1, <2>2, KeptMembers
<1>4. \A d \in Seq(Elems) : ToSet(d) \subseteq Elems
    BY DEF ToSet
<1>5. ToSet(c) = ToSet(Elements(a))
    BY <1>1, <1>2, <1>3, <1>4
<1> QED
    BY <1>5

(* What a call puts under its key: nothing, or one entry.                  *)
NewOf(key) == {<<>>} \cup {<<e>> : e \in {x \in Elems : x.key = key}}

(* To rebuild an array for a key is to change the entries of that key.     *)
LEMMA Rebuilt ==
    ASSUME LargeBlobsAssumption, NEW c \in Seq(Elems), NEW k \in Keys, NEW new \in NewOf(k)
    PROVE  /\ rebuild_serialized_array(c, k, new) \in Arrays
           /\ \E d \in Seq(Elems) : rebuild_serialized_array(c, k, new) = Serialize(d)
           /\ StoreOf(rebuild_serialized_array(c, k, new))
                = [StoreOf(Serialize(c)) EXCEPT ![k] = new]
<1> DEFINE Others == {e \in Elems : ~entry_decrypts_under_key(e, k)}
<1> DEFINE rest == Kept(c, Others)
<1>1. rest \in Seq(Elems)
  <2>1. Elems \cap Others \subseteq Elems
      OBVIOUS
  <2> QED BY <2>1, KeptType, SeqMonotonic
<1>2. rest \o new \in Seq(Elems)
  <2>1. new \in Seq(Elems)
    <3>1. CASE new = <<>>
        BY <3>1, EmptySeq
    <3>2. CASE \E e \in Elems : new = <<e>>
        BY <3>2
    <3> QED BY <3>1, <3>2 DEF NewOf
  <2> QED BY <1>1, <2>1
<1>3. rebuild_serialized_array(c, k, new) = Serialize(rest \o new)
    BY DEF rebuild_serialized_array
<1>4. k # NoKey /\ \A e \in Elems : e.key = k => e.form # "junk"
    BY DEF LargeBlobsAssumption, Elems
<1>5. \A e \in Elems : e \in Others <=> e.key # k
    BY <1>4 DEF entry_decrypts_under_key
<1>6. \A o \in Keys \cup {NoKey} :
        Kept(rest \o new, Owned(o)) = IF o = k THEN new ELSE Kept(c, Owned(o))
  <2> SUFFICES ASSUME NEW o \in Keys \cup {NoKey}
               PROVE  Kept(rest \o new, Owned(o)) = IF o = k THEN new ELSE Kept(c, Owned(o))
      OBVIOUS
  <2>1. Kept(rest, Owned(o)) = Kept(c, Others \cap Owned(o))
      BY KeptTwice
  <2>2. Kept(rest, Owned(o)) = IF o = k THEN <<>> ELSE Kept(c, Owned(o))
    <3>1. CASE o = k
      <4>1. Elems \cap (Others \cap Owned(o)) = {}
          BY <3>1, <1>5 DEF Owned
      <4> HIDE DEF Others, rest
      <4> QED BY <3>1, <4>1, <2>1, KeptNone
    <3>2. CASE o # k
      <4>1. Others \cap Owned(o) = Owned(o)
          BY <3>2, <1>5 DEF Owned
      <4> QED BY <3>2, <4>1, <2>1
    <3> QED BY <3>1, <3>2
  <2> HIDE DEF rest, Others
  <2>3. CASE new = <<>>
    <3>1. rest \o new = rest
        BY <1>1, <2>3
    <3> QED BY <3>1, <2>2, <2>3
  <2>4. CASE \E e \in Elems : e.key = k /\ new = <<e>>
    <3>1. PICK e \in Elems : e.key = k /\ new = <<e>>
        BY <2>4
    <3>2. rest \o new = Append(rest, e)
        BY <1>1, <3>1
    <3>3. Kept(rest \o new, Owned(o))
            = IF e \in Owned(o) THEN Append(Kept(rest, Owned(o)), e) ELSE Kept(rest, Owned(o))
        BY <1>1, <3>2, KeptAppend
    <3>4. e \in Owned(o) <=> o = k
        BY <3>1 DEF Owned
    <3>5. CASE o = k
      <4>1. Kept(rest \o new, Owned(o)) = Append(<<>>, e)
          BY <3>3, <3>4, <3>5, <2>2
      <4> QED BY <4>1, <3>1, <3>5
    <3>6. CASE o # k
        BY <3>3, <3>4, <3>6, <2>2
    <3> QED BY <3>5, <3>6
  <2> QED BY <2>3, <2>4 DEF NewOf
<1> HIDE DEF rest, Others
<1>7. StoreOf(Serialize(rest \o new)) = StoreHas(rest \o new)
    BY <1>2, StoreOfSerialized
<1>8. StoreHas(rest \o new) = [StoreHas(c) EXCEPT ![k] = new]
    BY <1>6 DEF StoreHas
<1> QED
    BY <1>2, <1>3, <1>7, <1>8, StoreOfSerialized DEF Arrays

(* What a reader finds under a key is what the store has under it.         *)
LEMMA ReadAgrees ==
    ASSUME LargeBlobsAssumption, NEW a \in Arrays, trailer_matches(a), parses(Front(a)),
           NEW k \in Keys
    PROVE  decrypt_first_matching(parse_large_blob_array(Front(a)), k)
                = ToStore!ReadFrom(StoreOf(a), k)
<1>1. PICK c \in Seq(Elems) : a = Serialize(c)
    BY MalformedFacts, InitialFacts DEF Arrays
<1>2. /\ parse_array_raw_entries(Front(a)) = c
      /\ StoreOf(a) = StoreHas(c) /\ StoreOf(a) # Opaque /\ k # NoKey
    BY <1>1, Serialized, StoreOfSerialized, ReadableStores DEF LargeBlobsAssumption
<1> DEFINE Entries == {e \in Elems : e.form # "junk"}
<1> DEFINE Mine == {e \in Elems : entry_decrypts_under_key(e, k) /\ e.form # "oversize"}
<1> DEFINE Readable == {e \in Elems : e.form # "oversize"}
<1> DEFINE mine == Kept(c, Mine)
<1> DEFINE owned == Kept(c, Owned(k))
<1>3. /\ Entries \cap Mine = Mine /\ Owned(k) \cap Readable = Mine
  <2>1. \A e \in Elems : e.key = k => e.form # "junk"
      BY <1>2 DEF Elems
  <2> QED BY <2>1 DEF Owned, entry_decrypts_under_key
<1>4. Kept(parse_large_blob_array(Front(a)), Mine) = mine /\ Kept(owned, Readable) = mine
  <2>1. parse_large_blob_array(Front(a)) = Kept(c, Entries)
      BY <1>2 DEF parse_large_blob_array
  <2>2. Kept(Kept(c, Entries), Mine) = Kept(c, Entries \cap Mine)
      BY KeptTwice
  <2>3. Kept(owned, Readable) = Kept(c, Owned(k) \cap Readable)
      BY KeptTwice
  <2> QED BY <2>1, <2>2, <2>3, <1>3
<1>5. decrypt_first_matching(parse_large_blob_array(Front(a)), k)
        = IF mine = <<>> \/ mine[1].form = "broken" THEN NoBlob ELSE mine[1].blob
    BY <1>4 DEF decrypt_first_matching
<1>6. owned \in Seq(Elems) /\ StoreOf(a)[k] = owned
  <2>1. Elems \cap Owned(k) \subseteq Elems
      OBVIOUS
  <2> QED BY <2>1, <1>2, KeptType, SeqMonotonic DEF StoreHas
<1> DEFINE readable == {i \in DOMAIN owned : owned[i].form # "oversize"}
<1> DEFINE first == CHOOSE i \in readable : \A j \in readable : i <= j
<1>7. ToStore!ReadFrom(StoreOf(a), k)
        = IF readable = {} \/ owned[first].form = "broken" THEN NoBlob ELSE owned[first].blob
    BY <1>2, <1>6 DEF ToStore!ReadFrom
<1> HIDE DEF mine, owned, Mine, Entries
<1>8. \A i \in DOMAIN owned : owned[i] \in Readable <=> i \in readable
    BY <1>6
<1>9. DOMAIN owned \subseteq Int
    BY <1>6
<1>10. CASE mine = <<>>
  <2>1. \A i \in DOMAIN owned : owned[i] \notin Readable
      BY <1>4, <1>6, <1>10, KeptFirst
  <2>2. readable = {}
      BY <2>1, <1>8
  <2> QED BY <1>5, <1>7, <1>10, <2>2
<1>11. CASE mine # <<>>
  <2>1. PICK i \in DOMAIN owned : /\ owned[i] \in Readable /\ mine[1] = owned[i]
                                  /\ \A j \in DOMAIN owned : owned[j] \in Readable => i <= j
    <3> HIDE DEF Readable
    <3> QED BY <1>4, <1>6, <1>11, KeptFirst
  <2>2. i \in readable /\ \A j \in readable : i <= j
      BY <2>1, <1>8
  <2>3. readable \subseteq Int
      BY <1>9
  <2> HIDE DEF readable
  <2>4. first \in readable /\ \A j \in readable : first <= j
      BY <2>2
  <2> HIDE DEF first
  <2>5. first = i
      BY <2>2, <2>3, <2>4
  <2> QED BY <1>5, <1>7, <1>11, <2>1, <2>2, <2>5
<1> QED
    BY <1>10, <1>11

-------------------------------------------------------------------------------
(* The inductive invariant.                                                *)

(* A call that needs the device, and the key it is about.                  *)
Working ==
    /\ call \in Calls
    /\ ToSet(call.creds) \cap Keys # {} /\ call.blob # Huge

NewOfCall ==
    IF call.op = "write" THEN <<Entry(call.creds[1], call.blob, "sound")>> ELSE <<>>

Idle == out = <<>> /\ existing = <<>> /\ serialized = <<>> /\ held = {} /\ offset = 0

(* What is fetched so far is made of the arrays there were; it is the      *)
(* beginning of the array if there was no other.                           *)
Changed == \E a, b \in held : StoreOf(a) # StoreOf(b)
Fetching ==
    /\ Working
    /\ existing = <<>> /\ serialized = <<>>
    /\ array \in held
    /\ out \in Seq(Units) /\ Len(out) = offset /\ offset <= MaxArray
    /\ \A u \in ToSet(out) : u = Junk \/ \E a \in held : u \in ToSet(a)
    /\ kind = "sane" /\ ~Changed =>
           held = {array} /\ offset <= Len(array) /\ out = SubSeq(array, 1, offset)

(* The upload is the beginning of what is to be uploaded, as long as       *)
(* nobody else's fragment fell into it: then it is longer.                 *)
Uploaded ==
    \/ offset = 0
    \/ upload = NoUpload
    \/ /\ Len(upload.data) >= offset
       /\ Len(upload.data) = offset =>
              upload.data = SubSeq(serialized, 1, offset) /\ upload.length = Len(serialized)
Setting ==
    /\ Working /\ call.op \in {"write", "delete"}
    /\ out = <<>>
    /\ existing \in Seq(Elems)
    /\ serialized = rebuild_serialized_array(existing, call.creds[1], NewOfCall)
    /\ ~too_long(serialized)
    /\ offset \in Nat /\ offset < Len(serialized)
    /\ Uploaded

Device ==
    /\ array \in Arrays /\ held \subseteq Arrays
    /\ lock \in {"open", "valid", "spent", "none"} /\ kind \in {"sane", "endless"}
    /\ room \in Nat /\ Len(array) <= room
    /\ upload = NoUpload \/ (/\ upload \in [data : Seq(Units), length : Nat]
                             /\ Len(upload.data) < upload.length /\ upload.length <= room)

Counted ==
    n \in [calls : 0..MaxCalls, failures : 0..MaxFailures, writes : 0..MaxOthers,
           strays : 0..MaxOthers]

Inv ==
    /\ Device /\ Counted
    /\ pc \in {"idle", "fetch", "set"}
    /\ pc = "idle" => Idle
    /\ pc = "fetch" => Fetching
    /\ pc = "set" => Setting

LEMMA WorkingFacts ==
    ASSUME LargeBlobsAssumption, Working
    PROVE  /\ call.op \in {"read", "write", "delete"}
           /\ call.op = "read" => call.creds \in Seq(Keys \cup {NoKey})
           /\ call.op # "read" => call.creds[1] \in Keys /\ NewOfCall \in NewOf(call.creds[1])
           /\ \E k \in Keys : TRUE
<1>1. \E k \in Keys : TRUE
    BY DEF Working
<1>2. CASE call.op = "read"
  <2>1. call.creds \in Assertions
      BY <1>2 DEF Working, Calls
  <2> QED BY <1>1, <1>2, <2>1 DEF LargeBlobsAssumption
<1>3. CASE call.op = "write"
  <2>1. PICK k \in Keys \cup {NoKey}, b \in Blobs \cup {Huge} :
            call = [op |-> "write", creds |-> <<k>>, blob |-> b]
      BY <1>3 DEF Working, Calls
  <2>2. b \in Blobs /\ ToSet(<<k>>) = {k}
      BY <2>1 DEF Working, ToSet
  <2>3. k \in Keys /\ call.creds[1] = k
      BY <2>1, <2>2 DEF Working
  <2>4. Entry(k, b, "sound") \in Elems /\ Entry(k, b, "sound").key = k
      BY <2>2, <2>3 DEF Entry, Elems
  <2>5. NewOfCall = <<Entry(k, b, "sound")>>
      BY <1>3, <2>1, <2>3 DEF NewOfCall
  <2> QED BY <1>1, <1>3, <2>3, <2>4, <2>5 DEF NewOf
<1>4. CASE call.op = "delete"
  <2>1. PICK k \in Keys \cup {NoKey} :
            call = [op |-> "delete", creds |-> <<k>>, blob |-> NoBlob]
      BY <1>4 DEF Working, Calls
  <2>2. ToSet(<<k>>) = {k}
      BY DEF ToSet
  <2>3. k \in Keys /\ call.creds[1] = k
      BY <2>1, <2>2 DEF Working
  <2> QED BY <1>1, <1>4, <2>3 DEF NewOf, NewOfCall
<1>5. call.op \in {"read", "write", "delete"}
    BY DEF Working, Calls
<1> QED
    BY <1>2, <1>3, <1>4, <1>5

LEMMA InitInv ==
    ASSUME LargeBlobsAssumption, Init
    PROVE  Inv
<1>1. array \in Arrays
    BY DEF Init, LargeBlobsAssumption, Arrays
<1>2. Device
    BY <1>1 DEF Init, Device, LargeBlobsAssumption
<1>3. Counted
    BY DEF Init, Counted, LargeBlobsAssumption
<1> QED
    BY <1>2, <1>3 DEF Init, Inv, Idle

-------------------------------------------------------------------------------
(* Every step keeps the invariant, and is a step of the store or none.     *)

LEMMA Finishes ==
    ASSUME NEW r, Finish(r)
    PROVE  ToStore!Return(r) /\ pc' = "idle" /\ Idle'
<1>1. /\ outputs' = r /\ pc' = "idle"
      /\ offset' = 0 /\ out' = <<>> /\ existing' = <<>> /\ serialized' = <<>> /\ held' = {}
    BY DEF Finish
<1>2. {StoreOf(a) : a \in held'} = {} /\ StoreOf(Serialize(existing')) = ToStore!Empty
    BY <1>1, StoreOfNothing
<1> QED
    BY <1>1, <1>2 DEF ToStore!Return, Idle

LEMMA FailedIsSame ==
    \A c : ToStore!Failed(c) = Failed(c)
    BY DEF ToStore!Failed, Failed, ToStore!Written, Written

LEMMA AssertionStep ==
    ASSUME LargeBlobsAssumption, Inv, NEW c \in Calls, get_assertion_large_blob(c)
    PROVE  Inv' /\ ToStore!Next
<1>1. /\ pc = "idle" /\ call' = c
      /\ n' = [n EXCEPT !.calls = @ + 1] /\ n.calls < MaxCalls
      /\ UNCHANGED <<array, upload, lock, kind, room>>
    BY DEF get_assertion_large_blob, device
<1>2. Idle
    BY <1>1 DEF Inv
<1>3. Counted' /\ n'.writes = n.writes
    BY <1>1 DEF Inv, Counted, LargeBlobsAssumption
<1>4. CASE Finish(Failed(c))
  <2>1. ToStore!Return(Failed(c)) /\ pc' = "idle" /\ Idle'
      BY <1>4, Finishes
  <2>2. Device'
      BY <1>1, <2>1 DEF Inv, Device, Idle
  <2>3. ToStore!Refuse
      BY <1>1, <1>3, <2>1, FailedIsSame DEF ToStore!Refuse
  <2> QED
      BY <1>3, <2>1, <2>2, <2>3 DEF Inv, ToStore!Next
<1>5. CASE ToSet(c.creds) \cap Keys # {} /\ c.blob # Huge /\ pc' = "fetch"
  <2>1. /\ offset' = 0 /\ out' = <<>> /\ outputs' = <<>> /\ held' = {array}
        /\ UNCHANGED <<existing, serialized>>
      BY <1>5 DEF get_assertion_large_blob, Finish
  <2>2. Device'
      BY <1>1, <2>1 DEF Inv, Device
  <2>3. Working'
      BY <1>1, <1>5 DEF Working
  <2>4. <<>> = SubSeq(array, 1, 0) /\ 0 <= Len(array) /\ 0 <= MaxArray /\ ToSet(<<>>) = {}
      BY ArrayFacts DEF Inv, Device, LargeBlobsAssumption, ToSet
  <2>5. {StoreOf(a) : a \in held'} = {StoreOf(array)}
      BY <2>1
  <2>6. Fetching'
    <3>1. /\ out' \in Seq(Units) /\ Len(out') = offset' /\ offset' <= MaxArray
          /\ ToSet(out') = {}
        BY <2>1, <2>4
    <3>2. array' \in held' /\ held' = {array'} /\ offset' <= Len(array')
        BY <1>1, <2>1, <2>4
    <3>3. out' = SubSeq(array', 1, offset')
        BY <1>1, <2>1, <2>4
    <3>4. existing' = <<>> /\ serialized' = <<>>
        BY <1>2, <2>1 DEF Idle
    <3> QED BY <2>3, <2>5, <3>1, <3>2, <3>3, <3>4 DEF Fetching
  <2>7. ToStore!Begin
      BY <1>1, <1>3, <1>5, <2>1, <2>5 DEF ToStore!Begin
  <2> QED
      BY <1>3, <1>5, <2>2, <2>6, <2>7 DEF Inv, ToStore!Next
<1> QED
    BY <1>4, <1>5 DEF get_assertion_large_blob

(* A fragment follows on what is before it, and is cut at the end.         *)
End(s, at) == IF at + MaxFragment < Len(s) THEN at + MaxFragment ELSE Len(s)

LEMMA FragmentFacts ==
    ASSUME LargeBlobsAssumption, NEW S, NEW s \in Seq(S), NEW at \in 0..Len(s)
    PROVE  /\ Fragment(s, at) \in Seq(S)
           /\ End(s, at) \in at..Len(s)
           /\ Len(Fragment(s, at)) = End(s, at) - at
           /\ SubSeq(s, 1, at) \o Fragment(s, at) = SubSeq(s, 1, End(s, at))
           /\ ToSet(Fragment(s, at)) \subseteq ToSet(s)
           /\ Len(Fragment(s, at)) < MaxFragment => End(s, at) = Len(s)
           /\ at < Len(s) => Len(Fragment(s, at)) > 0
<1>1. Len(s) \in Nat /\ MaxFragment \in Nat \ {0} /\ at \in Nat /\ at <= Len(s)
    BY DEF LargeBlobsAssumption
<1>2. End(s, at) \in at..Len(s) /\ Fragment(s, at) = SubSeq(s, at + 1, End(s, at))
    BY <1>1 DEF End, Fragment
<1>3. /\ Fragment(s, at) \in Seq(S)
      /\ Len(Fragment(s, at)) = End(s, at) - at
      /\ \A i \in 1..(End(s, at) - at) : Fragment(s, at)[i] = s[at + i]
    BY <1>1, <1>2
<1>4. SubSeq(s, 1, at) \o SubSeq(s, at + 1, End(s, at)) = SubSeq(s, 1, End(s, at))
  <2>1. 1 \in 1..(Len(s) + 1) /\ at \in (1 - 1)..Len(s) /\ End(s, at) \in at..Len(s)
      BY <1>1, <1>2
  <2> QED BY <2>1, ConcatAdjacentSubSeq
<1>5. ToSet(Fragment(s, at)) \subseteq ToSet(s)
  <2>1. DOMAIN Fragment(s, at) = 1..(End(s, at) - at) /\ DOMAIN s = 1..Len(s)
      BY <1>3
  <2>2. \A i \in 1..(End(s, at) - at) : at + i \in 1..Len(s)
      BY <1>1, <1>2
  <2> QED BY <1>3, <2>1, <2>2 DEF ToSet
<1>6. /\ Len(Fragment(s, at)) < MaxFragment => End(s, at) = Len(s)
      /\ at < Len(s) => Len(Fragment(s, at)) > 0
    BY <1>1, <1>3 DEF End
<1> QED
    BY <1>2, <1>3, <1>4, <1>5, <1>6

(* A call that ends, whatever it says, leaves the device alone.            *)
LEMMA EndingKeepsInv ==
    ASSUME Inv, NEW r, Finish(r), Device', Counted'
    PROVE  Inv'
    BY Finishes DEF Inv

LEMMA FailingIsFail ==
    ASSUME Inv, pc # "idle", Finish(Failed(call)), UNCHANGED <<array, call>>,
           n'.writes = n.writes
    PROVE  ToStore!Fail
<1>1. ToStore!Return(Failed(call))
    BY Finishes
<1> QED
    BY <1>1, FailedIsSame DEF ToStore!Fail

LEMMA DeviceKept ==
    ASSUME Inv, UNCHANGED <<array, upload, lock, kind, room, n>>, held' \subseteq held
    PROVE  Device' /\ Counted'
    BY DEF Inv, Device, Counted

(* What is done with an array that is complete.                            *)
LEMMA ReadStep ==
    ASSUME LargeBlobsAssumption, Inv, pc = "fetch", UNCHANGED <<array, upload, lock, kind, room, call, n>>,
           NEW s \in Seq(Units), \A u \in ToSet(s) : u = Junk \/ \E a \in held : u \in ToSet(a),
           fetch_large_blob_entries(s)
    PROVE  Inv' /\ ToStore!Next
<1> USE DEF Inv
<1>1. Working /\ call.op = "read" /\ held \subseteq Arrays
    BY DEF Fetching, fetch_large_blob_entries, Device
<1>2. call.creds \in Seq(Keys \cup {NoKey})
    BY <1>1, WorkingFacts
<1>3. ASSUME NEW r, Finish(r)
      PROVE  Inv'
  <2>1. held' = {}
      BY <1>3 DEF Finish
  <2>2. Device' /\ Counted'
      BY <2>1, DeviceKept
  <2> QED BY <1>3, <2>2, EndingKeepsInv
<1>4. CASE s # <<>> /\ trailer_matches(s) /\ parses(Front(s))
  <2> DEFINE entries == parse_large_blob_array(Front(s))
  <2> DEFINE results ==
        Read([i \in DOMAIN call.creds |->
                IF call.creds[i] \in Keys THEN decrypt_first_matching(entries, call.creds[i])
                ELSE NoBlob])
  <2>1. Finish(results)
      BY <1>4 DEF fetch_large_blob_entries
  <2>2. s \in held
      BY <1>1, <1>4, WholeOnesAreArrays
  <2>3. \A i \in DOMAIN call.creds :
            (IF call.creds[i] \in Keys THEN decrypt_first_matching(entries, call.creds[i])
             ELSE NoBlob) = ToStore!ReadFrom(StoreOf(s), call.creds[i])
    <3> SUFFICES ASSUME NEW i \in DOMAIN call.creds
                 PROVE  (IF call.creds[i] \in Keys
                         THEN decrypt_first_matching(entries, call.creds[i]) ELSE NoBlob)
                            = ToStore!ReadFrom(StoreOf(s), call.creds[i])
        OBVIOUS
    <3>1. CASE call.creds[i] \in Keys
        BY <1>1, <1>4, <2>2, <3>1, ReadAgrees
    <3>2. CASE call.creds[i] \notin Keys
      <4>1. call.creds[i] = NoKey
          BY <1>2, <3>2
      <4> QED BY <3>2, <4>1 DEF ToStore!ReadFrom
    <3> QED BY <3>1, <3>2
  <2>4. results = [i \in DOMAIN call.creds |->
                    [blob |-> ToStore!ReadFrom(StoreOf(s), call.creds[i]), written |-> "none"]]
    <3> HIDE DEF entries
    <3> QED BY <2>3 DEF Read
  <2>5. ToStore!Return(results)
    <3> HIDE DEF results
    <3> QED BY <2>1, Finishes
  <2>6. ToStore!Answer
    <3> HIDE DEF results
    <3> QED BY <1>1, <2>2, <2>4, <2>5 DEF ToStore!Answer
  <2> QED
    <3> HIDE DEF results
    <3> QED BY <1>3, <2>1, <2>6 DEF ToStore!Next
<1>5. CASE ~(s # <<>> /\ trailer_matches(s) /\ parses(Front(s)))
  <2>1. Finish(Failed(call))
      BY <1>5 DEF fetch_large_blob_entries
  <2> QED
      BY <1>3, <2>1, FailingIsFail DEF ToStore!Next
<1> QED
    BY <1>4, <1>5

(* What a write or a deletion looks at is an array there was, or nothing.  *)
LEMMA LooksAtStore ==
    ASSUME LargeBlobsAssumption, Inv, pc = "fetch",
           NEW s \in Seq(Units), \A u \in ToSet(s) : u = Junk \/ \E a \in held : u \in ToSet(a),
           ~Changed => s = array,
           ~(trailer_matches(s) /\ ~parses(Front(s)))
    PROVE  /\ fetch_or_initial(s) \in Seq(Elems)
           /\ StoreOf(Serialize(fetch_or_initial(s))) \in
                {StoreOf(a) : a \in held} \cup
                IF Changed THEN {ToStore!Empty} ELSE {}
           /\ StoreOf(Serialize(fetch_or_initial(s))) # Opaque
<1>1. Fetching /\ held \subseteq Arrays /\ array \in held
    BY DEF Inv, Device, Fetching
<1>2. PICK k \in Keys : TRUE
    BY <1>1, WorkingFacts DEF Fetching
<1>3. CASE trailer_matches(s)
  <2>1. s \in held
      BY <1>1, <1>3, WholeOnesAreArrays
  <2>2. PICK c \in Seq(Elems) : s = Serialize(c)
      BY <1>1, <1>3, <2>1, MalformedFacts, InitialFacts DEF Arrays
  <2>3. fetch_or_initial(s) = c
      BY <1>3, <2>2, Serialized DEF fetch_or_initial
  <2> QED
      BY <1>2, <2>1, <2>2, <2>3, ReadableStores
<1>4. CASE ~trailer_matches(s)
  <2>1. fetch_or_initial(s) = <<>> /\ <<>> \in Seq(Elems)
      BY <1>4 DEF fetch_or_initial
  <2>2. StoreOf(Serialize(<<>>)) = ToStore!Empty /\ StoreOf(Serialize(<<>>)) # Opaque
      BY <1>2, <2>1, StoreOfNothing, ReadableStores
  <2>3. CASE Changed
      BY <2>1, <2>2, <2>3
  <2>4. CASE ~Changed
    <3>1. array = <<Junk>>
        BY <1>1, <1>4, <2>4, Serialized, MalformedFacts DEF Arrays
    <3>2. StoreOf(array) = ToStore!Empty
        BY <3>1, StoreOfNothing
    <3> QED BY <1>1, <2>1, <2>2, <3>2
  <2> QED
      BY <2>3, <2>4
<1> QED
    BY <1>3, <1>4

LEMMA UploadBegins ==
    ASSUME LargeBlobsAssumption, Inv, pc = "fetch",
           UNCHANGED <<array, upload, lock, kind, room, call, n>>,
           call.op # "read",
           NEW elements \in Seq(Elems),
           StoreOf(Serialize(elements)) \in
                {StoreOf(a) : a \in held} \cup
                IF Changed THEN {ToStore!Empty} ELSE {},
           StoreOf(Serialize(elements)) # Opaque,
           upload_begins(elements, NewOfCall)
    PROVE  Inv' /\ ToStore!Next
<1>1. /\ Working /\ call.op \in {"write", "delete"}
      /\ call.creds[1] \in Keys /\ NewOfCall \in NewOf(call.creds[1])
  <2>1. Working
      BY DEF Inv, Fetching
  <2> QED BY <2>1, WorkingFacts
<1> DEFINE new == rebuild_serialized_array(elements, call.creds[1], NewOfCall)
<1>2. CASE too_long(new)
  <2>1. Finish(Failed(call))
      BY <1>2 DEF upload_begins
  <2>2. held' = {}
      BY <2>1 DEF Finish
  <2>3. Device' /\ Counted'
      BY <2>2, DeviceKept
  <2> QED
      BY <2>1, <2>3, EndingKeepsInv, FailingIsFail DEF ToStore!Next
<1>3. CASE ~too_long(new)
  <2>1. /\ pc' = "set" /\ existing' = elements /\ serialized' = new
        /\ offset' = 0 /\ out' = <<>>
        /\ UNCHANGED <<outputs, held>>
      BY <1>3 DEF upload_begins
  <2>2. Device' /\ Counted'
      BY <2>1, DeviceKept
  <2>3. Working' /\ NewOfCall' = NewOfCall
      BY <1>1 DEF Working, NewOfCall
  <2>4. Len(new) \in Nat \ {0}
      BY <1>1, Rebuilt, ArrayFacts
  <2> HIDE DEF new
  <2>5. Setting'
    <3>1. /\ call'.op \in {"write", "delete"} /\ out' = <<>>
          /\ existing' \in Seq(Elems) /\ ~too_long(serialized')
          /\ offset' \in Nat /\ offset' < Len(serialized')
        BY <1>1, <1>3, <2>1, <2>4
    <3>2. serialized' = rebuild_serialized_array(existing', call'.creds[1], NewOfCall')
        BY <2>1, <2>3 DEF new
    <3>3. Uploaded'
        BY <2>1 DEF Uploaded
    <3> QED BY <2>3, <3>1, <3>2, <3>3 DEF Setting
  <2>6. ToStore!Look
    <3>1. {StoreOf(a) : a \in held'} = {StoreOf(a) : a \in held}
        BY <2>1
    <3>2. StoreOf(Serialize(existing')) \in
                {StoreOf(a) : a \in held} \cup
                IF Changed THEN {ToStore!Empty} ELSE {}
        BY <2>1
    <3>3. StoreOf(Serialize(existing')) # Opaque
        BY <2>1
    <3>4. StoreOf(array') = StoreOf(array) /\ n'.writes = n.writes /\ call' = call
        OBVIOUS
    <3>5. (\E s, t \in {StoreOf(a) : a \in held} : s # t) <=> Changed
        BY DEF Changed
    <3> QED BY <2>1, <3>1, <3>2, <3>3, <3>4, <3>5 DEF ToStore!Look
  <2> QED
      BY <2>1, <2>2, <2>5, <2>6 DEF Inv, ToStore!Next
<1> QED
    BY <1>2, <1>3

LEMMA FetchedStep ==
    ASSUME LargeBlobsAssumption, Inv, pc = "fetch",
           UNCHANGED <<array, upload, lock, kind, room, call, n>>,
           NEW s \in Seq(Units), \A u \in ToSet(s) : u = Junk \/ \E a \in held : u \in ToSet(a),
           ~Changed => s = array,
           Fetched(s)
    PROVE  Inv' /\ ToStore!Next
<1>1. ASSUME Finish(Failed(call))
      PROVE  Inv' /\ ToStore!Next
  <2>1. held' = {}
      BY <1>1 DEF Finish
  <2>2. Device' /\ Counted'
      BY <2>1, DeviceKept
  <2> QED
      BY <1>1, <2>2, EndingKeepsInv, FailingIsFail DEF ToStore!Next
<1>2. ASSUME call.op # "read", upload_begins(fetch_or_initial(s), NewOfCall),
             ~(trailer_matches(s) /\ ~parses(Front(s)))
      PROVE  Inv' /\ ToStore!Next
  <2>1. /\ fetch_or_initial(s) \in Seq(Elems)
        /\ StoreOf(Serialize(fetch_or_initial(s))) \in
                {StoreOf(a) : a \in held} \cup
                IF Changed THEN {ToStore!Empty} ELSE {}
        /\ StoreOf(Serialize(fetch_or_initial(s))) # Opaque
      BY <1>2, LooksAtStore
  <2> QED BY <1>2, <2>1, UploadBegins
<1>3. CASE fetch_large_blob_entries(s)
    BY <1>3, ReadStep
<1>4. CASE write_authenticator_large_blob(s)
  <2>1. call.op = "write" /\ NewOfCall = <<Entry(call.creds[1], call.blob, "sound")>>
      BY <1>4 DEF write_authenticator_large_blob, NewOfCall
  <2> QED BY <1>1, <1>2, <1>4, <2>1 DEF write_authenticator_large_blob
<1>5. CASE delete_authenticator_large_blob(s)
  <2>1. call.op = "delete" /\ NewOfCall = <<>>
      BY <1>5 DEF delete_authenticator_large_blob, NewOfCall
  <2> QED BY <1>1, <1>2, <1>5, <2>1 DEF delete_authenticator_large_blob
<1> QED
    BY <1>3, <1>4, <1>5 DEF Fetched

LEMMA FetchStep ==
    ASSUME LargeBlobsAssumption, Inv, fetch_serialized_array
    PROVE  Inv' /\ [ToStore!Next]_(ToStore!svars)
<1> DEFINE chunk == IF kind = "endless" THEN [i \in 1..MaxFragment |-> Junk]
                    ELSE Fragment(array, offset)
<1> DEFINE got == out \o chunk
<1>1. /\ pc = "fetch" /\ UNCHANGED <<array, upload, lock, kind, room, call, n>>
      /\ Fetching /\ kind \in {"sane", "endless"}
    BY DEF fetch_serialized_array, device, Inv, Device
<1>2. /\ array \in Seq(Units) /\ Len(array) \in Nat /\ array \in held /\ held \subseteq Arrays
      /\ offset \in Nat /\ out \in Seq(Units) /\ Len(out) = offset
      /\ MaxFragment \in Nat \ {0}
  <2>1. array \in held /\ held \subseteq Arrays /\ out \in Seq(Units) /\ Len(out) = offset
      BY <1>1 DEF Fetching, Inv, Device
  <2>2. Len(out) \in Nat
      BY <2>1
  <2> QED BY <2>1, <2>2, ArrayFacts DEF LargeBlobsAssumption
<1>3. ASSUME Finish(Failed(call))
      PROVE  Inv' /\ ToStore!Next
  <2>1. held' = {}
      BY <1>3 DEF Finish
  <2>2. Device' /\ Counted'
      BY <1>1, <2>1, DeviceKept
  <2> QED
      BY <1>1, <1>3, <2>2, EndingKeepsInv, FailingIsFail DEF ToStore!Next
<1>4. CASE Finish(Failed(call))
    BY <1>3, <1>4
<1>5. ASSUME kind = "endless" \/ offset <= Len(array)
      PROVE  /\ chunk \in Seq(Units) /\ Len(chunk) \in Nat /\ got \in Seq(Units)
             /\ Len(got) = offset + Len(chunk)
             /\ \A u \in ToSet(got) : u = Junk \/ \E a \in held : u \in ToSet(a)
             /\ kind = "endless" => Len(chunk) = MaxFragment
             /\ kind = "sane" /\ ~Changed =>
                    /\ offset + Len(chunk) <= Len(array)
                    /\ got = SubSeq(array, 1, offset + Len(chunk))
                    /\ Len(chunk) < MaxFragment => offset + Len(chunk) = Len(array)
  <2>1. /\ chunk \in Seq(Units)
        /\ \A u \in ToSet(chunk) : u = Junk \/ u \in ToSet(array)
        /\ kind = "endless" => Len(chunk) = MaxFragment
    <3>1. CASE kind = "endless"
      <4>1. chunk = [i \in 1..MaxFragment |-> Junk]
          BY <3>1
      <4> HIDE DEF chunk
      <4>2. chunk \in [1..MaxFragment -> Units]
          BY <4>1, JunkIsElement
      <4>3. chunk \in Seq(Units) /\ Len(chunk) = MaxFragment
          BY <1>2, <4>1, <4>2
      <4>4. \A i \in DOMAIN chunk : chunk[i] = Junk
          BY <4>1
      <4> QED BY <4>3, <4>4 DEF ToSet
    <3>2. CASE kind = "sane"
      <4>1. offset \in 0..Len(array)
          BY <1>2, <1>5, <3>2
      <4> QED BY <1>2, <3>2, <4>1, FragmentFacts
    <3> QED BY <1>1, <3>1, <3>2
  <2> HIDE DEF chunk
  <2>2. /\ got \in Seq(Units) /\ Len(chunk) \in Nat /\ Len(got) = offset + Len(chunk)
        /\ ToSet(got) = ToSet(out) \cup ToSet(chunk)
    <3>1. Len(chunk) \in Nat /\ got \in Seq(Units) /\ Len(got) = offset + Len(chunk)
        BY <1>2, <2>1
    <3>2. /\ DOMAIN got = 1..(offset + Len(chunk)) /\ DOMAIN out = 1..offset
          /\ DOMAIN chunk = 1..Len(chunk)
          /\ \A i \in 1..offset : got[i] = out[i]
          /\ \A i \in 1..Len(chunk) : got[offset + i] = chunk[i]
        BY <1>2, <2>1, <3>1
    <3>3. \A i \in 1..(offset + Len(chunk)) :
                i \in 1..offset \/ (i - offset \in 1..Len(chunk) /\ i = offset + (i - offset))
        BY <1>2, <3>1
    <3>4. /\ \A i \in 1..offset : i \in 1..(offset + Len(chunk))
          /\ \A i \in 1..Len(chunk) : offset + i \in 1..(offset + Len(chunk))
        BY <1>2, <3>1
    <3> HIDE DEF got
    <3>5. ToSet(got) \subseteq ToSet(out) \cup ToSet(chunk)
        BY <3>2, <3>3 DEF ToSet
    <3>6. ToSet(out) \subseteq ToSet(got) /\ ToSet(chunk) \subseteq ToSet(got)
        BY <3>2, <3>4 DEF ToSet
    <3> QED BY <3>1, <3>5, <3>6
  <2>3. \A u \in ToSet(got) : u = Junk \/ \E a \in held : u \in ToSet(a)
      BY <1>1, <1>2, <2>1, <2>2 DEF Fetching
  <2>4. ASSUME kind = "sane", ~Changed
        PROVE  /\ offset + Len(chunk) <= Len(array)
               /\ got = SubSeq(array, 1, offset + Len(chunk))
               /\ Len(chunk) < MaxFragment => offset + Len(chunk) = Len(array)
    <3>1. chunk = Fragment(array, offset) /\ offset \in 0..Len(array)
        BY <1>2, <1>5, <2>4 DEF chunk
    <3>2. out = SubSeq(array, 1, offset)
        BY <1>1, <2>4 DEF Fetching
    <3>3. /\ End(array, offset) \in offset..Len(array)
          /\ Len(chunk) = End(array, offset) - offset
          /\ SubSeq(array, 1, offset) \o chunk = SubSeq(array, 1, End(array, offset))
          /\ Len(chunk) < MaxFragment => End(array, offset) = Len(array)
      <4>1. array \in Seq(Units)
          BY <1>2
      <4>2. /\ End(array, offset) \in offset..Len(array)
            /\ Len(Fragment(array, offset)) = End(array, offset) - offset
            /\ SubSeq(array, 1, offset) \o Fragment(array, offset)
                 = SubSeq(array, 1, End(array, offset))
            /\ Len(Fragment(array, offset)) < MaxFragment => End(array, offset) = Len(array)
          BY <3>1, <4>1, FragmentFacts
      <4> QED BY <3>1, <4>2
    <3>4. offset + Len(chunk) = End(array, offset)
        BY <1>2, <3>3
    <3> QED BY <1>2, <3>2, <3>3, <3>4
  <2> QED
      BY <2>1, <2>2, <2>3, <2>4
<1> HIDE DEF chunk, got
<1>6. CASE (kind = "endless" \/ offset <= Len(array)) /\ Len(chunk) < MaxFragment /\ Fetched(got)
  <2>1. kind = "sane"
      BY <1>1, <1>2, <1>5, <1>6
  <2>2. ~Changed => got = array
    <3>1. SubSeq(array, 1, Len(array)) = array
        BY <1>2, SubSeqFull
    <3> QED BY <1>5, <1>6, <2>1, <3>1
  <2> QED
      BY <1>1, <1>5, <1>6, <2>2, FetchedStep
<1>7. CASE /\ Len(chunk) >= MaxFragment /\ ~too_long(got)
           /\ offset' = offset + Len(chunk) /\ out' = got
           /\ UNCHANGED <<pc, existing, serialized, outputs, held>>
  <2>1. kind = "endless" \/ offset <= Len(array)
    <3> SUFFICES ASSUME kind = "sane", offset > Len(array) PROVE FALSE
        BY <1>1, <1>2
    <3>1. chunk = SubSeq(array, offset + 1, Len(array))
        BY <1>2 DEF chunk, Fragment
    <3>2. Len(chunk) = 0
        BY <1>2, <3>1
    <3> QED BY <1>2, <1>7, <3>2
  <2>2. Device' /\ Counted'
      BY <1>1, <1>7, DeviceKept
  <2>3. Working' /\ Changed' = Changed
      BY <1>1, <1>7 DEF Fetching, Working, Changed
  <2>4. Len(got) <= MaxArray
      BY <1>2, <1>5, <1>7, <2>1 DEF too_long, LargeBlobsAssumption
  <2>5. Fetching'
    <3>1. /\ existing' = <<>> /\ serialized' = <<>> /\ array' \in held'
        BY <1>1, <1>7 DEF Fetching
    <3>2. /\ out' \in Seq(Units) /\ Len(out') = offset' /\ offset' <= MaxArray
          /\ \A u \in ToSet(out') : u = Junk \/ \E a \in held' : u \in ToSet(a)
        BY <1>5, <1>7, <2>1, <2>4
    <3>3. kind' = "sane" /\ ~Changed' =>
              /\ held' = {array'} /\ offset' <= Len(array') /\ out' = SubSeq(array', 1, offset')
        BY <1>1, <1>5, <1>7, <2>1, <2>3 DEF Fetching
    <3> QED BY <2>3, <3>1, <3>2, <3>3 DEF Fetching
  <2>6. UNCHANGED ToStore!svars
    <3>1. {StoreOf(a) : a \in held'} = {StoreOf(a) : a \in held}
        BY <1>7
    <3> QED BY <1>1, <1>7, <3>1 DEF ToStore!svars
  <2> QED
      BY <1>1, <1>7, <2>2, <2>5, <2>6 DEF Inv
<1> QED
    BY <1>4, <1>6, <1>7 DEF fetch_serialized_array, got, chunk

(* What the authenticator has taken is the beginning of what is uploaded.  *)
LEMMA TakenFacts ==
    ASSUME LargeBlobsAssumption, Inv, pc = "set", Takes
    PROVE  /\ serialized \in Arrays /\ serialized \in Seq(Units) /\ Len(serialized) <= room
           /\ offset + Len(Fragment(serialized, offset)) = End(serialized, offset)
           /\ End(serialized, offset) \in 0..Len(serialized)
           /\ Data = SubSeq(serialized, 1, End(serialized, offset)) /\ Data \in Seq(Units)
           /\ Len(Data) = End(serialized, offset) /\ Length = Len(serialized)
<1>1. Setting /\ Device
    BY DEF Inv
<1>2. Working /\ call.op \in {"write", "delete"} /\ existing \in Seq(Elems)
    BY <1>1 DEF Setting
<1>3. call.creds[1] \in Keys /\ NewOfCall \in NewOf(call.creds[1])
    BY <1>2, WorkingFacts
<1>4. serialized \in Arrays /\ serialized \in Seq(Units) /\ Len(serialized) \in Nat
  <2>1. serialized \in Arrays
      BY <1>1, <1>2, <1>3, Rebuilt DEF Setting
  <2> QED BY <2>1, ArrayFacts
<1>5. offset \in Nat /\ offset < Len(serialized) /\ offset \in 0..Len(serialized)
    BY <1>1, <1>4 DEF Setting
<1>6. /\ (IF offset = 0 THEN <<>> ELSE upload.data) = SubSeq(serialized, 1, offset)
      /\ Length = Len(serialized) /\ Len(serialized) <= room
  <2>1. CASE offset = 0
    <3>1. SubSeq(serialized, 1, 0) = <<>>
        BY SubSeqEmpty
    <3> QED BY <2>1, <3>1 DEF Length, Takes
  <2>2. CASE offset # 0
    <3>1. upload # NoUpload /\ Len(upload.data) = offset
        BY <2>2 DEF Takes
    <3>2. upload.data = SubSeq(serialized, 1, offset) /\ upload.length = Len(serialized)
        BY <1>1, <2>2, <3>1 DEF Setting, Uploaded
    <3>3. upload.length <= room
        BY <1>1, <3>1 DEF Device
    <3> QED BY <2>2, <3>2, <3>3 DEF Length
  <2> QED BY <2>1, <2>2
<1>7. /\ End(serialized, offset) \in offset..Len(serialized)
      /\ Len(Fragment(serialized, offset)) = End(serialized, offset) - offset
      /\ SubSeq(serialized, 1, offset) \o Fragment(serialized, offset)
            = SubSeq(serialized, 1, End(serialized, offset))
    BY <1>4, <1>5, FragmentFacts
<1>8. Data = SubSeq(serialized, 1, End(serialized, offset))
    BY <1>6, <1>7 DEF Data
<1>9. /\ End(serialized, offset) \in 0..Len(serialized)
      /\ offset + Len(Fragment(serialized, offset)) = End(serialized, offset)
    BY <1>4, <1>5, <1>7
<1> HIDE DEF Setting
<1>10. Data \in Seq(Units) /\ Len(Data) = End(serialized, offset)
    BY <1>4, <1>8, <1>9
<1> QED
    BY <1>4, <1>6, <1>8, <1>9, <1>10

(* The last fragment changes the store as the call wants it.               *)
LEMMA ChangeStep ==
    ASSUME LargeBlobsAssumption, Inv, pc = "set", array' = serialized,
           NEW w \in {"true", "false"}, Finish(Written(w)), UNCHANGED call, n'.writes = n.writes
    PROVE  ToStore!Change
<1>1. Setting /\ Working /\ call.op \in {"write", "delete"} /\ existing \in Seq(Elems)
    BY DEF Inv, Setting
<1>2. call.creds[1] \in Keys /\ NewOfCall \in NewOf(call.creds[1])
    BY <1>1, WorkingFacts
<1>3. StoreOf(serialized) = [StoreOf(Serialize(existing)) EXCEPT ![call.creds[1]] = NewOfCall]
    BY <1>1, <1>2, Rebuilt DEF Setting
<1>4. NewOfCall = IF call.op = "delete" THEN <<>>
                  ELSE <<[key |-> call.creds[1], blob |-> call.blob, form |-> "sound"]>>
    BY <1>1 DEF NewOfCall, Entry
<1>5. ToStore!Return(Written(w)) /\ ToStore!Written(w) = Written(w)
    BY Finishes DEF ToStore!Written, Written
<1>6. StoreOf(array') = [StoreOf(Serialize(existing)) EXCEPT ![call.creds[1]] =
                            IF call.op = "delete" THEN <<>>
                            ELSE <<[key |-> call.creds[1], blob |-> call.blob, form |-> "sound"]>>]
    BY <1>3, <1>4
<1> QED
    BY <1>5, <1>6 DEF ToStore!Change

LEMMA DeviceAfter ==
    ASSUME LargeBlobsAssumption, Inv, pc = "set", DeviceSets, UNCHANGED <<lock, kind, room>>,
           held' \subseteq held
    PROVE  /\ Device'
           /\ \/ array' = serialized /\ End(serialized, offset) = Len(serialized)
              \/ /\ array' = array /\ End(serialized, offset) < Len(serialized)
                 /\ upload'.data = SubSeq(serialized, 1, End(serialized, offset))
                 /\ upload'.length = Len(serialized)
                 /\ Len(upload'.data) = End(serialized, offset)
<1>1. /\ serialized \in Arrays /\ serialized \in Seq(Units) /\ Len(serialized) <= room
      /\ End(serialized, offset) \in 0..Len(serialized)
      /\ Data = SubSeq(serialized, 1, End(serialized, offset)) /\ Data \in Seq(Units)
      /\ Len(Data) = End(serialized, offset) /\ Length = Len(serialized)
    BY TakenFacts DEF DeviceSets
<1>2. Len(serialized) \in Nat
    BY <1>1
<1>3. CASE Len(Data) = Length
  <2>1. array' = Data /\ upload' = NoUpload
      BY <1>3 DEF DeviceSets
  <2>2. Data = serialized
      BY <1>1, <1>3, SubSeqFull
  <2> QED BY <1>1, <1>3, <2>1, <2>2 DEF Inv, Device
<1>4. CASE Len(Data) # Length
  <2>1. array' = array /\ upload' = [data |-> Data, length |-> Length]
      BY <1>4 DEF DeviceSets
  <2>2. Len(Data) < Length
      BY <1>1, <1>2, <1>4
  <2>3. Device'
      BY <1>1, <1>2, <2>1, <2>2 DEF Inv, Device
  <2> QED BY <1>1, <2>1, <2>2, <2>3
<1> QED
    BY <1>3, <1>4

LEMMA UploadStep ==
    ASSUME LargeBlobsAssumption, Inv, upload_serialized_array
    PROVE  Inv' /\ [ToStore!Next]_(ToStore!svars)
<1>1. pc = "set" /\ UNCHANGED <<lock, kind, room, call, n>> /\ Setting /\ Device /\ Counted'
  <2>1. pc = "set" /\ UNCHANGED <<lock, kind, room, call, n>>
      BY DEF upload_serialized_array
  <2> QED BY <2>1 DEF Inv, Counted
<1> DEFINE sent == offset + Len(Fragment(serialized, offset))
<1>2. CASE DeviceSets
  <2>1. sent = End(serialized, offset) /\ End(serialized, offset) \in 0..Len(serialized)
      BY <1>1, <1>2, TakenFacts DEF DeviceSets
  <2>2. CASE sent < Len(serialized)
    <3>1. /\ offset' = sent
          /\ UNCHANGED <<pc, out, existing, serialized, outputs, held>>
        BY <1>1, <1>2, <2>2 DEF upload_serialized_array, DeviceSets
    <3>2. /\ Device' /\ array' = array
          /\ upload'.data = SubSeq(serialized, 1, sent)
          /\ upload'.length = Len(serialized) /\ Len(upload'.data) = sent
        BY <1>1, <1>2, <2>1, <2>2, <3>1, DeviceAfter
    <3>3. Working' /\ NewOfCall' = NewOfCall
        BY <1>1 DEF Setting, Working, NewOfCall
    <3>4. sent \in Nat
        BY <2>1
    <3> HIDE DEF sent
    <3>5. Uploaded'
        BY <3>1, <3>2, <3>4 DEF Uploaded
    <3>6. Setting'
        BY <1>1, <2>2, <3>1, <3>3, <3>4, <3>5 DEF Setting
    <3>7. UNCHANGED ToStore!svars
      <4>1. {StoreOf(a) : a \in held'} = {StoreOf(a) : a \in held}
          BY <3>1
      <4> QED BY <1>1, <3>1, <3>2, <4>1 DEF ToStore!svars
    <3> QED BY <1>1, <3>1, <3>2, <3>6, <3>7 DEF Inv
  <2>3. CASE ~(sent < Len(serialized))
    <3>1. Finish(Written("true"))
        BY <1>1, <1>2, <2>3 DEF upload_serialized_array, DeviceSets
    <3>2. held' = {}
        BY <3>1 DEF Finish
    <3>3. Device' /\ array' = serialized
        BY <1>1, <1>2, <2>1, <2>3, <3>2, DeviceAfter
    <3>4. ToStore!Change
        BY <1>1, <3>1, <3>3, ChangeStep
    <3> QED BY <1>1, <3>1, <3>3, <3>4, EndingKeepsInv DEF ToStore!Next
  <2> QED BY <2>2, <2>3
<1>3. CASE ~DeviceSets
  <2>1. /\ Finish(Failed(call)) /\ array' = array
        /\ upload' = NoUpload \/ upload' = upload
      BY <1>3 DEF upload_serialized_array
  <2>2. held' = {}
      BY <2>1 DEF Finish
  <2>3. Device'
      BY <1>1, <2>1, <2>2 DEF Device
  <2> QED
      BY <1>1, <2>1, <2>3, EndingKeepsInv, FailingIsFail DEF ToStore!Next
<1> QED
    BY <1>2, <1>3

LEMMA FailureStep ==
    ASSUME LargeBlobsAssumption, Inv, command_fails
    PROVE  Inv' /\ ToStore!Next
<1>1. /\ pc # "idle" /\ n' = [n EXCEPT !.failures = @ + 1] /\ n.failures < MaxFailures
      /\ Finish(Failed(call)) /\ UNCHANGED <<lock, kind, room, call>>
    BY DEF command_fails
<1>2. Counted' /\ n'.writes = n.writes
    BY <1>1 DEF Inv, Counted, LargeBlobsAssumption
<1>3. held' = {}
    BY <1>1 DEF Finish
<1>4. ASSUME Device', array' = array
      PROVE  Inv' /\ ToStore!Next
    BY <1>1, <1>2, <1>4, EndingKeepsInv, FailingIsFail DEF ToStore!Next
<1>5. CASE UNCHANGED <<array, upload>>
  <2>1. Device'
      BY <1>1, <1>3, <1>5 DEF Inv, Device
  <2> QED BY <1>4, <1>5, <2>1
<1>6. CASE pc = "set" /\ DeviceSets
  <2>1. Device' /\ (array' = serialized \/ array' = array)
      BY <1>1, <1>3, <1>6, DeviceAfter
  <2>2. CASE array' = serialized
    <3>1. Failed(call) = Written("false")
        BY <1>6 DEF Inv, Setting, Failed
    <3>2. ToStore!Change
        BY <1>1, <1>2, <1>6, <2>2, <3>1, ChangeStep
    <3> QED BY <1>1, <1>2, <2>1, <3>2, EndingKeepsInv DEF ToStore!Next
  <2> QED BY <1>4, <2>1, <2>2
<1> QED
    BY <1>5, <1>6 DEF command_fails

(* What disturbs the upload leaves the store alone.                        *)
LEMMA UploadDisturbed ==
    ASSUME LargeBlobsAssumption, Inv, Device', Counted', UNCHANGED <<array, kind, platform, held>>,
           n'.writes = n.writes,
           \/ upload' = upload
           \/ upload' = NoUpload
           \/ upload # NoUpload /\ Len(upload'.data) = Len(upload.data) + 1
    PROVE  Inv' /\ UNCHANGED ToStore!svars
<1>1. UNCHANGED <<call, pc, offset, out, existing, serialized, outputs>>
    BY DEF platform
<1>2. Working' = Working /\ NewOfCall' = NewOfCall /\ Changed' = Changed
    BY <1>1 DEF Working, NewOfCall, Changed
<1>3. pc = "fetch" => Fetching'
    BY <1>1, <1>2 DEF Inv, Fetching
<1>4. pc = "set" => Setting'
  <2> SUFFICES ASSUME Setting PROVE Setting'
      BY DEF Inv
  <2>1. offset \in Nat
      BY DEF Setting
  <2>2. Uploaded'
    <3>1. CASE upload' = upload \/ upload' = NoUpload
        BY <1>1, <3>1 DEF Setting, Uploaded
    <3>2. CASE upload # NoUpload /\ Len(upload'.data) = Len(upload.data) + 1
      <4>1. Len(upload.data) \in Nat
          BY <3>2 DEF Inv, Device
      <4>2. offset # 0 => Len(upload.data) >= offset
          BY <3>2 DEF Setting, Uploaded
      <4>3. offset # 0 => Len(upload'.data) > offset
          BY <2>1, <3>2, <4>1, <4>2
      <4>4. offset' = 0 \/ (Len(upload'.data) >= offset' /\ Len(upload'.data) # offset')
          BY <1>1, <2>1, <3>2, <4>1, <4>3
      <4> QED BY <4>4 DEF Uploaded
    <3> QED BY <3>1, <3>2
  <2> QED BY <1>1, <1>2, <2>2 DEF Setting
<1>5. pc = "idle" => Idle'
    BY <1>1 DEF Inv, Idle
<1>6. UNCHANGED ToStore!svars
  <2>1. {StoreOf(a) : a \in held'} = {StoreOf(a) : a \in held}
      OBVIOUS
  <2> QED BY <1>1, <2>1 DEF ToStore!svars
<1> QED
    BY <1>1, <1>3, <1>4, <1>5, <1>6 DEF Inv

LEMMA DisturbanceStep ==
    ASSUME LargeBlobsAssumption, Inv, token_expires \/ power_cycle \/ another_platform_uploads
    PROVE  Inv' /\ UNCHANGED ToStore!svars
<1>1. CASE token_expires
  <2>1. Device' /\ Counted'
      BY <1>1 DEF token_expires, Inv, Device, Counted
  <2> QED BY <1>1, <2>1, UploadDisturbed DEF token_expires
<1>2. CASE power_cycle
  <2>1. Device' /\ Counted'
      BY <1>2 DEF power_cycle, Inv, Device, Counted
  <2> QED BY <1>2, <2>1, UploadDisturbed DEF power_cycle
<1>3. CASE another_platform_uploads
  <2>1. /\ upload # NoUpload /\ n' = [n EXCEPT !.strays = @ + 1] /\ n.strays < MaxOthers
        /\ UNCHANGED <<array, lock, kind, room, platform, held>>
      BY <1>3 DEF another_platform_uploads
  <2>2. Counted' /\ n'.writes = n.writes
      BY <2>1 DEF Inv, Counted, LargeBlobsAssumption
  <2>3. /\ upload \in [data : Seq(Units), length : Nat] /\ Len(upload.data) \in Nat
        /\ upload.length <= room /\ room \in Nat
      BY <2>1 DEF Inv, Device
  <2>4. CASE Len(upload.data) + 1 >= upload.length
    <3>1. upload' = NoUpload
        BY <1>3, <2>4 DEF another_platform_uploads
    <3>2. Device'
        BY <2>1, <3>1 DEF Inv, Device
    <3> QED BY <2>1, <2>2, <3>1, <3>2, UploadDisturbed
  <2>5. CASE ~(Len(upload.data) + 1 >= upload.length)
    <3>1. upload' = [upload EXCEPT !.data = Append(@, Junk)]
        BY <1>3, <2>5 DEF another_platform_uploads
    <3>2. /\ Append(upload.data, Junk) \in Seq(Units)
          /\ Len(Append(upload.data, Junk)) = Len(upload.data) + 1
        BY <2>3, JunkIsElement
    <3>3. /\ upload' \in [data : Seq(Units), length : Nat]
          /\ upload'.data = Append(upload.data, Junk) /\ upload'.length = upload.length
        BY <2>3, <3>1, <3>2
    <3>4. Len(upload'.data) < upload'.length
        BY <2>3, <2>5, <3>2, <3>3
    <3>5. Device'
        BY <2>1, <2>3, <3>3, <3>4 DEF Inv, Device
    <3> QED BY <2>1, <2>2, <3>2, <3>3, <3>5, UploadDisturbed
  <2> QED BY <2>4, <2>5
<1> QED
    BY <1>1, <1>2, <1>3

LEMMA OtherWritesStep ==
    ASSUME LargeBlobsAssumption, Inv, another_platform_writes
    PROVE  Inv' /\ ToStore!Next
<1>1. /\ n' = [n EXCEPT !.writes = @ + 1] /\ n.writes < MaxOthers
      /\ array # Malformed /\ upload' = NoUpload
      /\ UNCHANGED <<lock, kind, room, call, pc, offset, out, existing, serialized, outputs>>
    BY DEF another_platform_writes, platform
<1>2. PICK key \in Keys : \E new \in {<<>>} \cup {<<Entry(key, b, "sound")>> : b \in Blobs} :
        LET a == rebuild_serialized_array(Elements(array), key, new)
        IN  /\ Len(a) <= room
            /\ ToSet(Elements(a)) # ToSet(Elements(array))
            /\ array' = a
            /\ held' = IF pc = "fetch" THEN held \cup {a} ELSE held
    BY DEF another_platform_writes
<1>3. PICK new \in {<<>>} \cup {<<Entry(key, b, "sound")>> : b \in Blobs} :
        LET a == rebuild_serialized_array(Elements(array), key, new)
        IN  /\ Len(a) <= room
            /\ ToSet(Elements(a)) # ToSet(Elements(array))
            /\ array' = a
            /\ held' = IF pc = "fetch" THEN held \cup {a} ELSE held
    BY <1>2
<1>4. Counted' /\ n'.writes = n.writes + 1
    BY <1>1 DEF Inv, Counted, LargeBlobsAssumption
<1>5. array \in Arrays /\ Elements(array) \in Seq(Elems)
    BY ArrayFacts DEF Inv, Device
<1>6. new \in NewOf(key)
  <2>1. \A b \in Blobs : Entry(key, b, "sound") \in Elems /\ Entry(key, b, "sound").key = key
      BY DEF Entry, Elems
  <2> QED BY <2>1 DEF NewOf
<1>7. /\ array' \in Arrays
      /\ \E d \in Seq(Elems) : array' = Serialize(d)
    BY <1>3, <1>5, <1>6, Rebuilt
<1>8. StoreOf(array') # StoreOf(array)
  <2>1. PICK d \in Seq(Elems) : array' = Serialize(d)
      BY <1>7
  <2>2. Elements(array') = d
      BY <2>1, Serialized
  <2> QED BY <1>1, <1>3, <1>5, <2>1, <2>2, StoresDiffer
<1>9. /\ Len(array') <= room /\ held' = IF pc = "fetch" THEN held \cup {array'} ELSE held
    BY <1>3
<1> HIDE DEF Inv
<1>10. Device'
    BY <1>1, <1>7, <1>9 DEF Inv, Device
<1>11. Working' = Working /\ NewOfCall' = NewOfCall
    BY <1>1 DEF Working, NewOfCall
<1>12. CASE pc = "fetch"
  <2>1. Fetching
      BY <1>12 DEF Inv
  <2>2. held' = held \cup {array'}
      BY <1>9, <1>12
  <2>3. Changed'
      BY <1>8, <2>1, <2>2 DEF Fetching, Changed
  <2>4. Fetching'
      BY <1>1, <1>11, <2>1, <2>2, <2>3 DEF Fetching
  <2>5. {StoreOf(a) : a \in held'} = {StoreOf(a) : a \in held} \cup {StoreOf(array')}
      BY <2>2
  <2>6. ToStore!Disturb
      BY <1>1, <1>4, <1>12, <2>5 DEF ToStore!Disturb
  <2> QED
      BY <1>1, <1>4, <1>10, <1>12, <2>4, <2>6 DEF Inv, ToStore!Next
<1>13. CASE pc # "fetch"
  <2>1. held' = held
      BY <1>9, <1>13
  <2>2. pc = "idle" => Idle'
      BY <1>1, <2>1 DEF Inv, Idle
  <2>3. pc = "set" => Setting'
    <3> SUFFICES ASSUME pc = "set" PROVE Setting'
        OBVIOUS
    <3>1. Uploaded'
        BY <1>1 DEF Uploaded
    <3>2. Setting
        BY DEF Inv
    <3> QED BY <1>1, <1>11, <3>1, <3>2 DEF Setting
  <2>4. {StoreOf(a) : a \in held'} = {StoreOf(a) : a \in held}
      BY <2>1
  <2>5. ToStore!Disturb
      BY <1>1, <1>4, <1>13, <2>4 DEF ToStore!Disturb
  <2> QED
      BY <1>1, <1>4, <1>10, <1>13, <2>2, <2>3, <2>5 DEF Inv, ToStore!Next
<1> QED
    BY <1>12, <1>13

LEMMA StepSimulates ==
    ASSUME LargeBlobsAssumption, Inv, Next
    PROVE  Inv' /\ [ToStore!Next]_(ToStore!svars)
<1>1. ASSUME NEW c \in Calls, get_assertion_large_blob(c)
      PROVE  Inv' /\ ToStore!Next
    BY <1>1, AssertionStep
<1>2. CASE fetch_serialized_array
    BY <1>2, FetchStep
<1>3. CASE upload_serialized_array
    BY <1>3, UploadStep
<1>4. CASE command_fails
    BY <1>4, FailureStep
<1>5. CASE token_expires \/ power_cycle \/ another_platform_uploads
    BY <1>5, DisturbanceStep
<1>6. CASE another_platform_writes
    BY <1>6, OtherWritesStep
<1> QED
    BY <1>1, <1>2, <1>3, <1>4, <1>5, <1>6 DEF Next

LEMMA StutterSimulates ==
    ASSUME Inv, UNCHANGED vars
    PROVE  Inv' /\ UNCHANGED ToStore!svars
<1>1. UNCHANGED <<array, upload, lock, kind, room, call, pc, offset, out, existing, serialized,
                  outputs, held, n>>
    BY DEF vars, device, platform
<1>2. {StoreOf(a) : a \in held'} = {StoreOf(a) : a \in held}
    BY <1>1
<1>3. UNCHANGED ToStore!svars
    BY <1>1, <1>2 DEF ToStore!svars
<1>4. Inv'
    BY <1>1 DEF Inv, Device, Counted, Idle, Fetching, Setting, Working, NewOfCall, Changed, Uploaded
<1> QED
    BY <1>3, <1>4

LEMMA InitSimulates ==
    ASSUME Init
    PROVE  ToStore!Init
<1>1. {StoreOf(a) : a \in held} = {}
    BY DEF Init
<1>2. StoreOf(Serialize(existing)) = ToStore!Empty
    BY StoreOfNothing DEF Init
<1> QED
    BY <1>1, <1>2 DEF Init, ToStore!Init

LEMMA InvTypes ==
    ASSUME LargeBlobsAssumption, Inv
    PROVE  TypeOK
<1>1. /\ Len(array) <= room
      /\ upload = NoUpload \/ Len(upload.data) < upload.length
      /\ lock \in {"open", "valid", "spent", "none"} /\ kind \in {"sane", "endless"}
      /\ pc \in {"idle", "fetch", "set"}
      /\ n \in [calls : 0..MaxCalls, failures : 0..MaxFailures, writes : 0..MaxOthers,
                 strays : 0..MaxOthers]
    BY DEF Inv, Device, Counted
<1>2. /\ Len(out) <= MaxArray + MaxFragment
      /\ offset \in 0..(MaxArray + MaxFragment) /\ Len(serialized) <= MaxArray
  <2>1. MaxArray \in Nat /\ MaxFragment \in Nat /\ Len(<<>>) = 0
      BY DEF LargeBlobsAssumption
  <2>2. CASE pc = "idle"
      BY <2>1, <2>2 DEF Inv, Idle
  <2>3. CASE pc = "fetch"
    <3>1. /\ serialized = <<>> /\ out \in Seq(Units) /\ Len(out) = offset /\ offset <= MaxArray
        BY <2>3 DEF Inv, Fetching
    <3>2. Len(out) \in Nat
        BY <3>1
    <3> QED BY <2>1, <3>1, <3>2
  <2>4. CASE pc = "set"
    <3>1. /\ out = <<>> /\ ~too_long(serialized) /\ offset \in Nat /\ offset < Len(serialized)
          /\ Setting
        BY <2>4 DEF Inv, Setting
    <3>2. call.creds[1] \in Keys /\ NewOfCall \in NewOf(call.creds[1])
        BY <3>1, WorkingFacts DEF Setting
    <3>3. serialized \in Arrays
        BY <3>1, <3>2, Rebuilt DEF Setting
    <3>4. Len(serialized) \in Nat
        BY <3>3, ArrayFacts
    <3>5. Len(serialized) <= MaxArray
        BY <2>1, <3>1, <3>4 DEF too_long
    <3> QED BY <2>1, <3>1, <3>4, <3>5
  <2> QED BY <1>1, <2>2, <2>3, <2>4
<1> QED
    BY <1>1, <1>2 DEF TypeOK

-------------------------------------------------------------------------------
(* Results.                                                                *)

LEMMA AlwaysInv ==
    ASSUME LargeBlobsAssumption
    PROVE  Spec => []Inv
<1>1. Init => Inv
    BY InitInv
<1>2. Inv /\ [Next]_vars => Inv'
    BY StepSimulates, StutterSimulates
<1> QED
    BY <1>1, <1>2, PTL DEF Spec

(* The buffers of a call about blobs stay within the array's limits, and   *)
(* an upload is never longer than what was announced and there is room     *)
(* for (fetch_serialized_array and upload_serialized_array in              *)
(* ops/webauthn/large_blob.rs).                                            *)
THEOREM BlobTypesAreCorrect ==
    ASSUME LargeBlobsAssumption
    PROVE  Spec => []TypeOK
<1>1. Inv => TypeOK
    BY InvTypes
<1> QED
    BY <1>1, AlwaysInv, PTL

(* The extension implements the promise of a store, BlobStore: fetching,   *)
(* decrypting and rebuilding an array in fragments gives a reader what the *)
(* store held at one moment, and changes for a writer the entries of one   *)
(* credential in one step, whatever fails and whoever else writes          *)
(* (fetch_large_blob_entries, write_authenticator_large_blob and           *)
(* delete_authenticator_large_blob in ops/webauthn/large_blob.rs).         *)
THEOREM BlobsKeepStore ==
    ASSUME LargeBlobsAssumption
    PROVE  Spec => KeepsStore
<1>1. Init => ToStore!Init
    BY InitSimulates
<1>2. Inv /\ [Next]_vars => [ToStore!Next]_(ToStore!svars)
    BY StepSimulates, StutterSimulates
<1> QED
    BY <1>1, <1>2, AlwaysInv, PTL DEF Spec, KeepsStore, ToStore!Spec
===============================================================================
