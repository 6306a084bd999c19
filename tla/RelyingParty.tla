----------------------------- MODULE RelyingParty -----------------------------
(***************************************************************************)
(* How a request from a web origin is admitted: the origin is parsed, the  *)
(* relying party is named, and the origin must own it, by the registrable  *)
(* domain or by the relying party's own list of related origins, which may *)
(* have to be fetched; the same holds for a U2F AppID.  Names are          *)
(* sequences of bytes, as what counts is where labels end.                 *)
(***************************************************************************)
EXTENDS PublicSuffix

CONSTANTS
    Graphs,         \* encodings of the public suffix list
    Rules,          \* the list itself: [labels, kind]
    Localhost,      \* the name "localhost"
    IpAddresses,    \* names that are IP addresses
    MaxDomain, MaxLabel,        \* 253 and 63
    FloorOfLabels,              \* five
    MaxRedirects, MaxBody,      \* HttpPolicy
    Requests, Settings,         \* what is asked, how it is judged: [mode, cap]
    StaticOrigins,              \* a StaticRelatedOriginsSource: name -> origins
    Responses                   \* of a well-known document's server

(* The assumption on these; asserted where they get their values. *)
AdmissionAssumption ==
    /\ {MaxDomain, MaxLabel, FloorOfLabels, MaxRedirects, MaxBody} \subseteq Nat
    /\ \A s \in Settings : /\ s.mode \in {"trust", "disabled", "static", "well-known"}
                            /\ s.cap \in Nat /\ s.cap >= FloorOfLabels

VARIABLES
    graph, settings, request,
    pc,
    rp_id, appid,   \* what has been admitted so far; None at first
    subject,        \* the name whose owner is sought
    listed,         \* history: the origins each name's list had
    outcome

avars == <<graph, settings, request, pc, rp_id, appid, subject, listed, outcome>>

-------------------------------------------------------------------------------
(* Names. *)

(* to_ascii of a name without special letters: the case is folded.         *)
domain_to_ascii(name) ==
    [i \in DOMAIN name |-> IF name[i] \in 65..90 THEN name[i] + 32 ELSE name[i]]

Labels(name) ==
    FoldLeft(LAMBDA labels, b :
                 IF b = Dot THEN Append(labels, <<>>)
                 ELSE [labels EXCEPT ![Len(labels)] = Append(@, b)],
             << <<>> >>, name)

Hyphen == 45
IsLetterDigitHyphen(b) == b \in (48..57) \cup (97..122) \cup {Hyphen}

(* RelyingPartyId::try_from; None is any of its errors. *)
RelyingPartyId(value) ==
    LET ascii == domain_to_ascii(value)
        Fine(label) ==
            /\ label # <<>> /\ Len(label) <= MaxLabel
            /\ Head(label) # Hyphen /\ Last(label) # Hyphen
            /\ \A i \in DOMAIN label : IsLetterDigitHyphen(label[i])
    IN  IF /\ value # <<>> /\ value \notin IpAddresses
           /\ Len(ascii) <= MaxDomain
           /\ \A i \in DOMAIN Labels(ascii) : Fine(Labels(ascii)[i])
        THEN {ascii} ELSE None

-------------------------------------------------------------------------------
(* Origins. A url is [scheme, host, port, rest]: port 0 is none written,   *)
(* or the scheme's own, and rest is what an origin must not have.          *)

default_port(scheme) == CASE scheme = "https" -> 443 [] scheme = "http" -> 80 [] OTHER -> 0

host_allows_http(host) == host = Localhost

IsOrigin(url) ==
    /\ url.scheme \in {"https", "http"}
    /\ url.rest = "none"
    /\ url.host # <<>>
    /\ url.scheme = "http" => host_allows_http(domain_to_ascii(url.host))

Origin(url) ==
    [scheme |-> url.scheme, host |-> domain_to_ascii(url.host),
     port |-> IF url.port = default_port(url.scheme) THEN 0 ELSE url.port]

PortOf(o) == IF o.port = 0 THEN default_port(o.scheme) ELSE o.port

same_origin(caller, o) ==
    caller.scheme = o.scheme /\ caller.host = o.host /\ PortOf(caller) = PortOf(o)

-------------------------------------------------------------------------------
(* Whose name it is. *)

(* long = x . short, where x ends with a dot. *)
EndsAtLabel(short, long) ==
    /\ Len(long) > Len(short)
    /\ long[Len(long) - Len(short)] = Dot
    /\ IsSuffix(short, long)

(* Changed form, with which the property is tested. *)
is_registrable_domain_suffix_or_equal_Above(rp, host) ==
    rp # <<>> /\ \/ rp = host
                 \/ EndsAtLabel(rp, host) /\ registrable_domain(graph, host) # None

is_registrable_domain_suffix_or_equal(rp, host) ==
    rp # <<>> /\ \/ rp = host
                 \/ /\ EndsAtLabel(rp, host)
                    /\ \E rd \in registrable_domain(graph, host) : rp = rd \/ EndsAtLabel(rd, rp)

registrable_origin_label(host) ==
    {Head(Labels(rd)) : rd \in registrable_domain(graph, host)} \ {<<>>}

(* The list is read in order; once as many labels as the cap allows have   *)
(* been seen, only origins under these are looked at.                      *)
validate_related_origins(caller, origins, cap) ==
    LET Look(state, o, label) ==
            LET full == Cardinality(state.seen) >= cap
            IN  IF \/ state.found \/ label = None
                   \/ full /\ label \cap state.seen = {} THEN state
                ELSE IF same_origin(caller, o) THEN [state EXCEPT !.found = TRUE]
                ELSE IF full THEN state
                ELSE [state EXCEPT !.seen = @ \cup label]
    IN  FoldLeft(LAMBDA state, o : Look(state, o, registrable_origin_label(o.host)),
                 [seen |-> {}, found |-> FALSE], origins).found

(* The fetch of https://rp/.well-known/webauthn.  The redirect policy      *)
(* counts the first address as one of those already visited.               *)
HttpGet(r) ==
    /\ \A i \in DOMAIN r.redirects : i < MaxRedirects /\ r.redirects[i] = "https"
    /\ r.size <= MaxBody

allowed_origins(r) ==
    IF HttpGet(r) /\ r.status = 200 /\ r.type \in {"json", "json with charset"}
       /\ r.body = "object with origins"
    THEN {r.origins} ELSE None

-------------------------------------------------------------------------------
Stay == UNCHANGED <<graph, settings, request>>

Finish(with) ==
    /\ pc' = "done"
    /\ outcome' = with
    /\ UNCHANGED <<rp_id, appid, subject, listed>>

Caller == Origin(request.url)

Target == IF rp_id = None THEN "rp" ELSE "appid"

(* The subject is admitted: the relying party first, then the AppID. *)
Admit ==
    /\ IF Target = "rp" THEN rp_id' = {subject} /\ UNCHANGED appid
       ELSE appid' = {subject} /\ UNCHANGED rp_id
    /\ pc' = IF Target = "rp" THEN "appid" ELSE "blob"
    /\ UNCHANGED <<subject, outcome>>

NotTheirs ==
    /\ pc' = "done"
    /\ outcome' = IF Target = "rp" THEN "MismatchingRelyingPartyId" ELSE "InvalidAppId"
    /\ UNCHANGED <<rp_id, appid, subject>>

(* Origin::from_str, on the application's side of prepare. *)
FromStr ==
    /\ pc = "origin" /\ Stay
    /\ IF IsOrigin(request.url)
       THEN pc' = "rp" /\ UNCHANGED <<rp_id, appid, subject, listed, outcome>>
       ELSE Finish("OriginParseError")

(* An assertion without a relying party is for the origin's host; it is a  *)
(* registration's too, but there it is still checked.                      *)
NameRelyingParty ==
    LET given == request.rp # None
        parsed == RelyingPartyId(IF given THEN The(request.rp) ELSE Caller.host)
    IN  /\ pc = "rp" /\ Stay
        /\ IF parsed = None THEN Finish("InvalidRelyingPartyId")
           ELSE /\ subject' = The(parsed)
                /\ IF given \/ request.kind = "create"
                   THEN pc' = "authorise" /\ UNCHANGED rp_id
                   ELSE pc' = "appid" /\ rp_id' = parsed
                /\ UNCHANGED <<appid, listed, outcome>>

(* rp_id_authorised, up to the question of related origins. *)
rp_id_authorised ==
    /\ pc = "authorise" /\ Stay
    /\ IF \/ settings.mode = "trust"
          \/ is_registrable_domain_suffix_or_equal(subject, Caller.host)
       THEN Admit /\ UNCHANGED listed
       ELSE IF settings.mode = "disabled"
       THEN NotTheirs /\ UNCHANGED listed
       ELSE pc' = "related" /\ UNCHANGED <<rp_id, appid, subject, listed, outcome>>

Match(origins) ==
    /\ listed' = [listed EXCEPT ![Target] = origins]
    /\ IF validate_related_origins(Caller, origins, settings.cap) THEN Admit ELSE NotTheirs

LookUp ==
    /\ pc = "related" /\ settings.mode = "static" /\ Stay
    /\ Match(IF subject \in DOMAIN StaticOrigins THEN StaticOrigins[subject] ELSE <<>>)

Fetch(r) ==
    /\ pc = "related" /\ settings.mode = "well-known" /\ Stay
    /\ IF allowed_origins(r) = None
       THEN NotTheirs /\ UNCHANGED listed
       ELSE Match(The(allowed_origins(r)))

(* appid_authorised, up to its own use of rp_id_authorised. *)
AppId ==
    /\ pc = "appid" /\ Stay
    /\ IF request.appid = None
       THEN pc' = "blob" /\ UNCHANGED <<rp_id, appid, subject, listed, outcome>>
       ELSE LET url == The(request.appid)
                host == RelyingPartyId(domain_to_ascii(url.host))
            IN  IF url.scheme # "https" \/ host = None THEN Finish("InvalidAppId")
                ELSE /\ subject' = The(host)
                     /\ pc' = "authorise"
                     /\ UNCHANGED <<rp_id, appid, listed, outcome>>

(* What an assertion may ask of its blob; the rest is built as it stands.  *)
Build ==
    /\ pc = "blob" /\ Stay
    /\ IF request.kind = "get" /\ request.blob \in {"support", "read and write"}
       THEN Finish("NotSupported") ELSE Finish("Prepared")

Init ==
    /\ graph \in Graphs /\ request \in Requests /\ settings \in Settings
    /\ pc = "origin" /\ rp_id = None /\ appid = None /\ subject = <<>>
    /\ listed = [rp |-> <<>>, appid |-> <<>>]
    /\ outcome = "none"

Next ==
    \/ FromStr \/ NameRelyingParty \/ rp_id_authorised \/ LookUp
    \/ \E r \in Responses : Fetch(r)
    \/ AppId \/ Build

Spec == Init /\ [][Next]_avars

-------------------------------------------------------------------------------
TypeOK ==
    /\ graph \in Graphs /\ settings \in Settings /\ request.kind \in {"get", "create"}
    /\ pc \in {"origin", "rp", "authorise", "related", "appid", "blob", "done"}
    /\ rp_id \in SUBSET Seq(Nat) /\ appid \in SUBSET Seq(Nat) /\ subject \in Seq(Nat)
    /\ DOMAIN listed = {"rp", "appid"}
    /\ outcome \in {"none", "Prepared", "OriginParseError", "InvalidRelyingPartyId",
                    "MismatchingRelyingPartyId", "InvalidAppId", "NotSupported"}
    /\ pc = "done" <=> outcome # "none"

(* The rules, label by label. *)

Matches(kind, labels) == {r \in Rules : r.kind = kind /\ IsSuffix(r.labels, labels)}

(* The number of labels in the public suffix: an exception wins over the   *)
(* longest rule; a wildcard takes one label more than it names, and stands *)
(* for itself too; a name under no rule has no public suffix.              *)
SuffixLengths(labels) ==
    IF Matches("exception", labels) # {}
    THEN {Len(r.labels) - 1 : r \in Matches("exception", labels)}
    ELSE {0} \cup {Len(r.labels) : r \in Matches("plain", labels) \cup Matches("wildcard", labels)}
         \cup {Len(r.labels) + 1 : r \in {w \in Matches("wildcard", labels) :
                                             Len(labels) > Len(w.labels)}}

Registrable(name) ==
    LET labels == Labels(name)
        longest == Max(SuffixLengths(labels))
    IN  IF longest = 0 \/ longest >= Len(labels) THEN None
        ELSE {SubSeq(labels, Len(labels) - longest, Len(labels))}

(* The automaton answers as the rules do, for any name, whatever the       *)
(* encoding of its offsets.                                                *)
SuffixesFollowTheRules ==
    {Labels(rd) : rd \in registrable_domain(graph, Caller.host)} = Registrable(Caller.host)

(* The name belongs to the origin: it is the origin's host, or lies        *)
(* between the host and its registrable domain.                            *)
Owns(name) ==
    \/ name = Caller.host
    \/ \E rd \in Registrable(Caller.host) :
           IsSuffix(rd, Labels(name)) /\ IsSuffix(Labels(name), Labels(Caller.host))

(* The name's list has the origin, and not too far down.                   *)
Listed(origins) ==
    LET LabelOf(i) == {Head(rd) : rd \in Registrable(origins[i].host)}
        LabelsBefore(i) == UNION {LabelOf(j) : j \in 1..(i - 1)}
    IN  \E i \in DOMAIN origins : \E k \in 1..i :
            /\ same_origin(Caller, origins[i])
            /\ LabelOf(i) # {} /\ LabelOf(k) = LabelOf(i)
            /\ Cardinality(LabelsBefore(k)) < settings.cap

MayActFor(name, origins) == settings.mode = "trust" \/ Owns(name) \/ Listed(origins)

(* A request is prepared only for an origin that may act for its relying   *)
(* party and for its AppID, and such an origin is never told otherwise.    *)
OnlyOwnersAreServed ==
    /\ outcome = "Prepared" =>
           /\ Caller.scheme = "https" \/ Caller.host = Localhost
           /\ \A name \in rp_id : MayActFor(name, listed.rp)
           /\ \A name \in appid : MayActFor(name, listed.appid)
           /\ rp_id # None /\ (request.appid = None <=> appid = None)
    /\ outcome = "MismatchingRelyingPartyId" => ~MayActFor(subject, listed.rp)
    /\ outcome = "InvalidAppId" /\ subject # The(rp_id) => ~MayActFor(subject, listed.appid)
===============================================================================
