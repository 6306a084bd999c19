------------------------------- MODULE WebOrigins -------------------------------
(***************************************************************************)
(* A small web for RelyingParty: names, a public suffix list in two        *)
(* encodings, requests of origins, and what well-known documents say.      *)
(***************************************************************************)
EXTENDS Naturals, Sequences, FiniteSets, SequencesExt

(* Labels, byte by byte. *)
Name ==
    [com |-> <<99, 111, 109>>, om |-> <<111, 109>>, uk |-> <<117, 107>>, co |-> <<99, 111>>,
     kw |-> <<107, 119>>, foo |-> <<102, 111, 111>>, io |-> <<105, 111>>, COM |-> <<67, 111, 109>>,
     github |-> <<103, 105, 116, 104, 117, 98>>, x |-> <<120>>, y |-> <<121>>, z |-> <<122>>,
     none |-> <<>>, hyphen |-> <<45, 120>>, under |-> <<95>>, one |-> <<49>>,
     long |-> [i \in 1..10 |-> 120], local |-> <<108, 111, 99>>]

Dotted(labels) ==
    FoldLeft(LAMBDA name, l : name \o <<46>> \o Name[l], Name[Head(labels)], Tail(labels))

(* Plain rules, a wildcard, its exception, and a rule of two labels.       *)
ListRules ==
    {[labels |-> [i \in DOMAIN r[1] |-> Name[r[1][i]]], kind |-> r[2]] :
        r \in {<<<<"com">>, "plain">>, <<<<"uk">>, "plain">>, <<<<"co", "uk">>, "plain">>,
               <<<<"kw">>, "wildcard">>, <<<<"foo", "kw">>, "exception">>,
               <<<<"github", "io">>, "plain">>}}

(* The same list twice: with offsets of one byte, and with longer ones.    *)
Keys == <<107, 119, 134, 103, 105, 116, 104, 117, 98, 46, 105, 111, 136,
          102, 111, 111, 46, 107, 119, 133, 99, 239>>
Ends == <<237, 132, 46, 117, 107, 132>>
ShortGraph == <<5, 3, 10, 7, 135>> \o Keys \o <<2, 130>> \o Ends
LongGraph == <<64, 10, 64, 3, 64, 10, 64, 7, 192, 11>> \o Keys \o <<96, 0, 6, 224, 0, 2>> \o Ends

(* Hosts made of the list's own labels and of what nearly are.             *)
Swept == {"com", "om", "uk", "co", "kw", "foo", "io"}
SweptHosts ==
    {Dotted(l) : l \in UNION {[1..k -> Swept] : k \in 1..3}}
    \cup {Dotted(l) : l \in {<<"github", "io">>, <<"x", "github", "io">>, <<"x", "COM">>,
                             <<"foo", "com", "none">>, <<"none", "com">>}}

Https(host) == [scheme |-> "https", host |-> host, port |-> 0, rest |-> "none"]
PlainRequest == [kind |-> "get", url |-> Https(Dotted(<<"x", "foo", "com">>)), rp |-> {}, appid |-> {},
          blob |-> "none"]

Hosts ==
    {Dotted(l) : l \in {<<"foo", "com">>, <<"x", "foo", "com">>, <<"x", "co", "uk">>,
                        <<"x", "foo", "kw">>, <<"github", "io">>, <<"local">>, <<"one", "one">>}}
Names ==
    {Dotted(l) : l \in {<<"none">>, <<"com">>, <<"foo", "com">>, <<"foo", "COM">>, <<"om">>,
                        <<"y", "com">>, <<"x", "foo", "com">>, <<"co", "uk">>, <<"foo", "kw">>,
                        <<"kw">>, <<"io">>, <<"hyphen", "com">>, <<"under", "com">>,
                        <<"com", "none">>, <<"long", "com">>, <<"one", "one">>}}

OriginRequests ==
    {[PlainRequest EXCEPT !.url = Https(h)] : h \in SweptHosts}
    \cup {[PlainRequest EXCEPT !.kind = k, !.url = Https(h), !.rp = rp] :
             k \in {"get", "create"}, h \in Hosts, rp \in {{}} \cup {{n} : n \in Names}}
    \cup {[PlainRequest EXCEPT !.kind = "create",
                        !.url = [scheme |-> s, host |-> h, port |-> p, rest |-> r]] :
             s \in {"https", "http", "ftp"}, h \in {Dotted(<<"x", "COM">>), Name.local},
             p \in {0, 443, 80, 444}, r \in {"none", "userinfo", "more"}}
    \cup {[PlainRequest EXCEPT !.url = [Https(h) EXCEPT !.port = p, !.scheme = s],
                        !.rp = {Dotted(<<"y", "com">>)}] :
             h \in {Dotted(<<"foo", "com">>), Name.local}, p \in {443, 444, 80},
             s \in {"http", "https"}}
    \cup {[PlainRequest EXCEPT !.kind = k, !.rp = {rp}, !.appid = {[scheme |-> s, host |-> n]}] :
             k \in {"get", "create"}, rp \in {Dotted(<<"foo", "com">>), Dotted(<<"y", "com">>)},
             s \in {"https", "http"},
             n \in {Dotted(l) : l \in {<<"com">>, <<"x", "foo", "COM">>, <<"y", "com">>,
                                       <<"one", "one">>}}}
    \cup {[PlainRequest EXCEPT !.kind = k, !.blob = b] :
             k \in {"get", "create"},
             b \in {"read", "write", "nothing", "support", "read and write"}}

(* A cap at its floor and one above it. *)
OriginSettings ==
    {[mode |-> m, cap |-> 2] : m \in {"trust", "disabled", "static", "well-known"}}
    \cup {[mode |-> "well-known", cap |-> 3]}

(* What a relying party lists: its own origins among others, in several    *)
(* orders, with other ports and schemes, and too far down.                 *)
Listing(labels) == [scheme |-> "https", host |-> Dotted(labels), port |-> 0]
Foo == Listing(<<"foo", "com">>)
XFoo == Listing(<<"x", "foo", "com">>)
Others == <<Listing(<<"x", "com">>), Listing(<<"io">>), Listing(<<"y", "co", "uk">>)>>
Documents ==
    {<<>>, <<XFoo, Foo>>, <<[Foo EXCEPT !.port = 444], [XFoo EXCEPT !.scheme = "http"]>>,
     Others \o <<Foo, XFoo>>, Others \o <<Listing(<<"x", "co", "uk">>)>>,
     Append(Others, Listing(<<"z", "com">>)) \o <<Foo, XFoo>>,
     <<Foo>> \o Append(Others, Listing(<<"z", "com">>)) \o <<XFoo>>,
     <<[scheme |-> "junk", host |-> <<>>, port |-> 0], [Foo EXCEPT !.port = 443],
       [scheme |-> "http", host |-> Name.local, port |-> 80]>>}

Good == [redirects |-> <<"https">>, size |-> 1, status |-> 200, type |-> "json",
         body |-> "object with origins", origins |-> <<XFoo>>]
WellKnownResponses ==
    {[Good EXCEPT !.origins = d] : d \in Documents}
    \cup {[Good EXCEPT !.redirects = r] : r \in {<<>>, <<"http">>, <<"https", "https">>}}
    \cup {[Good EXCEPT !.size = s] : s \in {2, 3}}
    \cup {[Good EXCEPT !.status = 404], [Good EXCEPT !.type = "json with charset"],
          [Good EXCEPT !.type = "other"], [Good EXCEPT !.type = "none"],
          [Good EXCEPT !.body = "object"], [Good EXCEPT !.body = "array"],
          [Good EXCEPT !.body = "not json"]}
===============================================================================
