----------------------------- MODULE SignedAnswers -----------------------------
(***************************************************************************)
(* Commands and faulty answers for SignedData: registrations and           *)
(* assertions over both protocols, credential ids that do and do not fit   *)
(* the length byte of U2F, and every short string of bytes that tells      *)
(* parts of authenticator data apart.  Hashes of two bytes, an AAGUID of   *)
(* one, counters of two and coordinates of one.                            *)
(***************************************************************************)
EXTENDS Naturals, Sequences

(* None, short, the longest U2F can name, and one whose length would be    *)
(* taken for that of the short one.                                        *)
ShortId == <<1, 2>>
LongerId(n) == ShortId \o [i \in 1..(n - 2) |-> 0]
SignedIds == {<<>>, ShortId, LongerId(255), LongerId(258)}
SignedCounters == {<<0, 1>>, <<255, 2>>}

SignedCall(op, rp, handle, present, attestation) ==
    [op |-> op, rp |-> rp, challenge |-> <<2, 3>>, handle |-> handle,
     present |-> present, attestation |-> attestation]
SignedCalls ==
    {SignedCall(op, <<1, 0>>, <<>>, TRUE, a) :
        op \in {"u2f register", "register"}, a \in {"none", "direct"}}
    \cup {SignedCall("u2f sign", rp, h, p, "direct") :
        rp \in {<<1, 0>>, <<0, 1>>}, h \in SignedIds, p \in BOOLEAN}
    \cup {SignedCall("assert", <<1, 0>>, h, TRUE, "direct") : h \in {ShortId, LongerId(258)}}

(* Parts of an answer after the counter, and answers that end before.      *)
StrayRests == UNION {[1..n -> {0, 1, 65, 161}] : n \in 0..5}
StrayAnswers ==
    {<<1, 0, flags, 0, 1>> \o rest : flags \in {0, 1, 64, 65, 128, 192}, rest \in StrayRests}
    \cup {<<>>, <<1>>, <<1, 0, 1, 0>>}

(* Cut off before, in and after each part, and a point in another form.    *)
StrayU2fAnswers ==
    {SubSeq(<<5, 4, 1, 2, 2, 3, 3, 48, 7>>, 1, n) : n \in 0..9} \cup {<<5, 2, 1, 2, 0, 48, 7>>}
===============================================================================
