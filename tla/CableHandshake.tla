---------------------------- MODULE CableHandshake ----------------------------
(***************************************************************************)
(* What the stages of a hybrid channel put into their messages             *)
(* (transport/cable/): from which secret a key is derived, where the phone *)
(* is sought, the Noise handshake, the padded frames after it, and the     *)
(* record that lets a linked phone be found again.  CableTunnel has the    *)
(* control of the same stages, their failures and the queues.              *)
(*                                                                         *)
(* Cryptography is symbolic: a key is the tuple of what it is derived      *)
(* from, and what one key sealed opens under the same key only.  A phone   *)
(* taking part in a session is an "end": its number is the nonce it        *)
(* advertises, its routing id and its Bluetooth address.                   *)
(***************************************************************************)
EXTENDS Naturals, Sequences, SequencesExt

CONSTANTS
    Phones,
    ServiceOf,            \* per phone, the encoded domain of its tunnel service
    KNOWN_TUNNEL_DOMAINS, \* how many have a number: 2
    PADDING_GRANULARITY,  \* 32
    MAX_CBOR_SIZE,        \* 1024 * 1024
    Bodies,               \* CBOR requests and responses
    QrCodes,              \* the kinds of QR code shown
    MaxSessions,          \* bound: channels opened
    MaxEnds,              \* bound: QR codes scanned and contacts answered
    MaxLinks,             \* bound: links a phone hands out
    MaxAsked,             \* bound: requests sent on a channel
    MaxOdd                \* bound: misfortunes

CableTransports == {"CloudAssistedOnly", "CloudAssistedOrLocal"}

HandshakeAssumption ==
    /\ KNOWN_TUNNEL_DOMAINS \in Nat \ {0}
    /\ ServiceOf \in [Phones -> Nat]
    /\ PADDING_GRANULARITY \in 1..256 /\ MAX_CBOR_SIZE \in Nat
    /\ QrCodes \subseteq [persistent : BOOLEAN, transports : CableTransports]
    /\ \A body \in Bodies : Len(body) > 0
    /\ {MaxSessions, MaxEnds, MaxLinks, MaxAsked, MaxOdd} \subseteq Nat

VARIABLES
    session, \* per channel, what its task knows
    ends,    \* the phones' ends, in the order they came
    links,   \* per phone, the links it handed out
    up, down,\* per channel, what is under way to and from the phone
    store,   \* per phone, the record kept of it
    odd      \* misfortunes so far

vars == <<session, ends, links, up, down, store, odd>>

Session == 1..MaxSessions

(* derive: the HKDF of a secret, with a salt, for a purpose. *)
derive(secret, salt, purpose) == <<purpose, secret, salt>>

qr_secret(s) == <<"qr", s>>
client_nonce(s) == <<"nonce", s>>
PublicKey(p) == <<"phone", p>>
CodeKey(s) == <<"code", s>>

(* ecdh of a QR code's ephemeral key and a phone's. *)
diffie_hellman(s, public_key) == <<"dh", s, public_key>>

(* What a phone says of its i-th link, and what is kept of it. *)
LinkingInfo(p, i) ==
    [contact_id |-> <<"contact", p, i>>, link_id |-> <<"id", p, i>>,
     link_secret |-> <<"link", p, i>>, public_key |-> PublicKey(p)]

NoDomain == <<"none">>
NoRecord ==
    [contact_id |-> <<>>, link_id |-> <<>>, link_secret |-> <<>>, public_key |-> <<>>,
     tunnel_domain |-> NoDomain]
NoAdvert == [plaintext |-> <<>>, routing_id |-> 0, domain |-> 0, suffix |-> "none", device |-> 0]

Unopened ==
    [id |-> 0, stage |-> "none", kind |-> "qr", persistent |-> FALSE, offers |-> {},
     device_info |-> NoRecord, advert |-> NoAdvert, end |-> 0, handshake_hash |-> <<>>,
     sealed |-> 0, opened |-> 0, asked |-> <<>>, answered |-> <<>>]

Init ==
    /\ session = [s \in Session |-> Unopened]
    /\ ends = <<>> /\ links = [p \in Phones |-> <<>>]
    /\ up = [s \in Session |-> <<>>] /\ down = [s \in Session |-> <<>>]
    /\ store = [p \in Phones |-> NoRecord]
    /\ odd = 0

-------------------------------------------------------------------------------
(* Domains and adverts. *)

(* The first 256 numbers name a service of a list, the others are hashed.  *)
decode_tunnel_server_domain(encoded) ==
    IF encoded >= 256 THEN <<"hashed", encoded>>
    ELSE IF encoded < KNOWN_TUNNEL_DOMAINS THEN <<"known", encoded>>
    ELSE NoDomain

(* What an end broadcasts: a block and its tag under its key, and whatever *)
(* follows them.                                                           *)
Advert(e) ==
    [key |-> derive(ends[e].secret, ends[e].salt, "EIDKey"),
     plaintext |-> <<ends[e].reserved, e, e, ends[e].domain>>,
     suffix |-> ends[e].suffix, device |-> e]

(* The tag must fit, and the reserved bits be zero. *)
trial_decrypt_advert(eid_key, advert) ==
    advert.key = eid_key /\ advert.plaintext[1] = 0

DecryptedAdvert(advert) ==
    [plaintext |-> advert.plaintext, routing_id |-> advert.plaintext[3],
     domain |-> advert.plaintext[4], suffix |-> advert.suffix, device |-> advert.device]

(* A suffix that does not parse, names other channels only or has no PSM   *)
(* of 16 bits offers no L2CAP channel.                                     *)
Offers == {"none", "psm"}
ble_psm(advert) == advert.suffix = "psm"

-------------------------------------------------------------------------------
(* The inputs of the stages. *)

Secret(c) == IF c.kind = "qr" THEN qr_secret(c.id) ELSE c.device_info.link_secret

(* Changed form: the key of a linked phone is the same in every session. *)
EidKey_WithoutNonce(c) == derive(Secret(c), <<>>, "EIDKey")

EidKey(c) ==
    derive(Secret(c), IF c.kind = "qr" THEN <<>> ELSE client_nonce(c.id), "EIDKey")

tunnel_domain(c) ==
    IF c.kind = "qr" THEN decode_tunnel_server_domain(c.advert.domain)
    ELSE c.device_info.tunnel_domain

(* Where the tunnel server is asked to connect. *)
ConnectPath(c) ==
    [domain |-> tunnel_domain(c), routing_id |-> c.advert.routing_id,
     tunnel_id |-> derive(Secret(c), <<>>, "TunnelID")]

(* A known device is contacted through its service, with this header. *)
ClientPayload(c) == [link_id |-> c.device_info.link_id, client_nonce |-> client_nonce(c.id)]

Contact(c) ==
    [domain |-> tunnel_domain(c), contact_id |-> c.device_info.contact_id,
     client_payload |-> ClientPayload(c)]

(* Changed form: the key is that of the secret alone. *)
derive_psk_WithoutAdvert(secret, plaintext) == derive(secret, <<>>, "Psk")

derive_psk(secret, plaintext) == derive(secret, plaintext, "Psk")

-------------------------------------------------------------------------------
(* The Noise messages.  KNpsk0 with the QR code's key as the initiator's,  *)
(* NKpsk0 with the linked phone's key as the responder's.                  *)

NoiseInitiation(kind, psk, key, s) ==
    IF kind = "qr"
    THEN <<"KNpsk0", "QR_INITIATED", psk, key, <<"ephemeral", s>>>>
    ELSE <<"NKpsk0", "STATE_ASSISTED", psk, key, <<"ephemeral", s>>>>

InitialMessage(c) ==
    NoiseInitiation(c.kind, derive_psk(Secret(c), c.advert.plaintext),
                    IF c.kind = "qr" THEN CodeKey(c.id) ELSE c.device_info.public_key, c.id)

HandshakeHash(initiation, e) == <<initiation, e>>

(* A message of either direction, sealed with its key and its counter. *)
Sealed(hash, to, counter, plaintext) ==
    [hash |-> hash, to |-> to, counter |-> counter, plaintext |-> plaintext]
Garbled == Sealed(<<>>, "client", 0, <<>>)

ExtraBytes(cbor_request) == PADDING_GRANULARITY - (Len(cbor_request) % PADDING_GRANULARITY)

(* Changed form: the last byte counts itself. *)
Padded_CountingItself(cbor_request) ==
    LET extra_bytes == ExtraBytes(cbor_request)
    IN  cbor_request \o [i \in 1..extra_bytes |-> IF i = extra_bytes THEN extra_bytes ELSE 0]

(* connection_send pads a request to a multiple, the last byte saying how  *)
(* many come before it.                                                    *)
Padded(cbor_request) ==
    LET extra_bytes == ExtraBytes(cbor_request)
    IN  cbor_request \o [i \in 1..extra_bytes |-> IF i = extra_bytes THEN extra_bytes - 1 ELSE 0]

Strippable(frame) == frame # <<>> /\ Len(frame) >= Last(frame) + 1
strip_frame_padding(frame) == SubSeq(frame, 1, Len(frame) - (Last(frame) + 1))

Shutdown == 0
Ctap == 1
Update == 2
Map == 9  \* how the initial message begins, which has no type

CableTunnelMessage(type, payload) == <<type>> \o payload

-------------------------------------------------------------------------------
(* The channel's task. *)

(* Bound: something odd happens only when one code is shown.                *)
OneCode == \A s \in Session \ {1} : session[s].stage = "none" \/ session[s].kind = "known"

Disturbed == OneCode /\ odd < MaxOdd /\ odd' = odd + 1

Step(s, c) == session' = [session EXCEPT ![s] = c]

(* What key 6 of the QR code lists. *)
to_qr_field(transports) ==
    IF transports = "CloudAssistedOnly" THEN {} ELSE {"WebSocket", "Ble"}

(* The application shows a QR code, with or without a store.                *)
ShowQrCode(s, code) ==
    /\ session[s].stage = "none"
    /\ s > 1 => session[s - 1].stage # "none" /\ odd = 0
    /\ Step(s, [Unopened EXCEPT !.id = s, !.stage = "proximity", !.persistent = code.persistent,
                                !.offers = to_qr_field(code.transports)])
    /\ UNCHANGED <<ends, links, up, down, store, odd>>

OpenKnownDevice(s, p) ==
    /\ session[s].stage = "none"
    /\ s > 1 => session[s - 1].stage # "none"
    /\ store[p] # NoRecord
    /\ Step(s, [Unopened EXCEPT !.id = s, !.stage = "connect", !.kind = "known",
                                !.persistent = TRUE, !.device_info = store[p]])
    /\ UNCHANGED <<ends, links, up, down, store, odd>>

(* The first advertisement that decrypts; the others are ignored. *)
proximity_check_stage(s) ==
    LET c == session[s]
    IN  /\ c.stage = "proximity"
        /\ \E e \in DOMAIN ends :
             /\ trial_decrypt_advert(EidKey(c), Advert(e))
             /\ Step(s, [c EXCEPT !.advert = DecryptedAdvert(Advert(e)),
                                  !.stage = IF c.kind = "qr" THEN "connect" ELSE "handshake"])
        /\ UNCHANGED <<ends, links, up, down, store, odd>>

Fails(s) == Step(s, [session[s] EXCEPT !.stage = "failed"])

(* The two ends are joined, once. *)
Join(s, e) ==
    /\ ends[e].session = 0
    /\ Step(s, [session[s] EXCEPT !.stage = "handshake", !.end = e])
    /\ ends' = [ends EXCEPT ![e].session = s]

Local(c) == ble_psm(c.advert)

(* L2cap to the address and the PSM of the advertisement. *)
connect_l2cap(s) ==
    /\ session[s].stage = "connect" /\ session[s].kind = "qr"
    /\ tunnel_domain(session[s]) # NoDomain
    /\ Local(session[s])
    /\ Join(s, session[s].advert.device)
    /\ UNCHANGED <<links, up, down, store, odd>>

(* The tunnel server joins whom it was given the same ids by, and refuses  *)
(* when there is nobody; an L2CAP channel that fails leads here too.       *)
connect_tunnel(s) ==
    LET c == session[s]
    IN  /\ c.stage = "connect" /\ c.kind = "qr"
        /\ tunnel_domain(c) # NoDomain
        /\ IF Local(c) THEN Disturbed ELSE UNCHANGED odd
        /\ \/ \E e \in DOMAIN ends : ends[e].path = ConnectPath(c) /\ Join(s, e)
           \/ /\ \A e \in DOMAIN ends : ends[e].path # ConnectPath(c)
              /\ Fails(s) /\ UNCHANGED ends
        /\ UNCHANGED <<links, up, down, store>>

(* The advertised number names no service. *)
InvalidDomain(s) ==
    /\ session[s].stage = "connect" /\ session[s].kind = "qr"
    /\ tunnel_domain(session[s]) = NoDomain
    /\ Fails(s)
    /\ UNCHANGED <<ends, links, up, down, store, odd>>

(* The phones that a tunnel service reaches through a contact. *)
Routed(contact) ==
    {p \in Phones : \E i \in DOMAIN links[p] :
        /\ LinkingInfo(p, i).contact_id = contact.contact_id
        /\ decode_tunnel_server_domain(links[p][i].domain) = contact.domain
        /\ links[p][i].routed}

put_known_device(info) ==
    [p \in Phones |-> IF PublicKey(p) = info.public_key THEN info ELSE store[p]]

delete_known_device(public_key) ==
    [p \in Phones |-> IF PublicKey(p) = public_key THEN NoRecord ELSE store[p]]

known_device_id_to_forget(c) == c.device_info.public_key

(* A known device is told of the contact; or the service no longer knows   *)
(* it, and its record is deleted.                                          *)
connect_contact(s) ==
    LET c == session[s]
    IN  /\ c.stage = "connect" /\ c.kind = "known"
        /\ IF Routed(Contact(c)) # {}
           THEN Step(s, [c EXCEPT !.stage = "proximity"]) /\ UNCHANGED store
           ELSE Fails(s) /\ store' = delete_known_device(known_device_id_to_forget(c))
        /\ UNCHANGED <<ends, links, up, down, odd>>

do_handshake_write(s) ==
    LET c == session[s]
    IN  /\ c.stage = "handshake" /\ c.end # 0
        /\ up' = [up EXCEPT ![s] = Append(@, InitialMessage(c))]
        /\ Step(s, [c EXCEPT !.stage = "response"])
        /\ UNCHANGED <<ends, links, down, store, odd>>

(* The response must be to what was sent, under the same keys. *)
do_handshake_read(s) ==
    LET c == session[s]
        response == Head(down[s])
    IN  /\ c.stage = "response" /\ down[s] # <<>>
        /\ down' = [down EXCEPT ![s] = Tail(@)]
        /\ IF response.hash # <<>> /\ response.hash[1] = InitialMessage(c)
           THEN Step(s, [c EXCEPT !.stage = "initial", !.handshake_hash = response.hash])
           ELSE Fails(s)
        /\ UNCHANGED <<ends, links, up, store, odd>>

-------------------------------------------------------------------------------
(* Frames. *)

Opens(c, frame) ==
    /\ frame.hash = c.handshake_hash /\ frame.to = "client" /\ frame.counter = c.opened
    /\ Strippable(frame.plaintext)

(* Of an update: a map that lacks nothing, its fields of the right length, *)
(* is signed for this very handshake with the key of the QR code.          *)
connection_recv_update(info) == info.complete

ValidUpdate(c, info) ==
    /\ connection_recv_update(info)
    /\ info.handshake_signature =
         <<"hmac", diffie_hellman(c.id, info.public_key), c.handshake_hash>>

(* Changed form: every link is taken to be of the first tunnel service. *)
KnownDeviceInfo_OfTheFirst(c, info) ==
    [contact_id |-> info.contact_id, link_id |-> info.link_id, link_secret |-> info.link_secret,
     public_key |-> info.public_key, tunnel_domain |-> decode_tunnel_server_domain(0)]

KnownDeviceInfo(c, info) ==
    [contact_id |-> info.contact_id, link_id |-> info.link_id, link_secret |-> info.link_secret,
     public_key |-> info.public_key, tunnel_domain |-> tunnel_domain(c)]

apply_linking_update(c, info) ==
    IF c.kind = "qr" /\ c.persistent /\ ValidUpdate(c, info)
    THEN put_known_device(KnownDeviceInfo(c, info))
    ELSE store

connection_recv_initial(s) ==
    LET c == session[s]
        frame == Head(down[s])
    IN  /\ c.stage = "initial" /\ down[s] # <<>>
        /\ down' = [down EXCEPT ![s] = Tail(@)]
        /\ IF Opens(c, frame) /\ strip_frame_padding(frame.plaintext) = <<Map>>
           THEN Step(s, [c EXCEPT !.stage = "loop", !.opened = @ + 1])
           ELSE Fails(s)
        /\ UNCHANGED <<ends, links, up, store, odd>>

connection_recv(s) ==
    LET c == session[s]
        frame == Head(down[s])
        message == strip_frame_padding(frame.plaintext)
        read == [c EXCEPT !.opened = @ + 1]
    IN  /\ c.stage = "loop" /\ down[s] # <<>>
        /\ down' = [down EXCEPT ![s] = Tail(@)]
        /\ IF ~Opens(c, frame) \/ Len(message) < 2 \/ message[1] \notin {Shutdown, Ctap, Update}
           THEN Fails(s) /\ UNCHANGED store
           ELSE \/ /\ message[1] = Shutdown
                   /\ Step(s, [read EXCEPT !.stage = "closed"]) /\ UNCHANGED store
                \/ /\ message[1] = Ctap
                   /\ Step(s, [read EXCEPT !.answered = Append(@, Tail(message))])
                   /\ UNCHANGED store
                \/ /\ message[1] = Update
                   /\ Step(s, read)
                   /\ store' = apply_linking_update(c, message[2])
        /\ UNCHANGED <<ends, links, up, odd>>

(* A request that is too long ends the connection. *)
connection_send(s, body) ==
    LET c == session[s]
    IN  /\ c.stage = "loop" /\ Len(c.asked) < MaxAsked
        /\ IF Len(body) > MAX_CBOR_SIZE
           THEN Disturbed /\ Fails(s) /\ UNCHANGED up
           ELSE /\ up' = [up EXCEPT ![s] = Append(@,
                     Sealed(c.handshake_hash, "phone", c.sealed,
                            CableTunnelMessage(Ctap, Padded(body))))]
                /\ Step(s, [c EXCEPT !.sealed = @ + 1, !.asked = Append(@, body)])
                /\ UNCHANGED odd
        /\ UNCHANGED <<ends, links, down, store>>

Task(s) ==
    \/ proximity_check_stage(s) \/ connect_l2cap(s) \/ connect_tunnel(s) \/ InvalidDomain(s)
    \/ connect_contact(s) \/ do_handshake_write(s) \/ do_handshake_read(s)
    \/ connection_recv_initial(s) \/ connection_recv(s)
    \/ \E body \in Bodies : connection_send(s, body)

Application(s) ==
    \/ \E code \in QrCodes : ShowQrCode(s, code)
    \/ \E p \in Phones : OpenKnownDevice(s, p)

-------------------------------------------------------------------------------
(* The phones, by the standard of the hybrid transports. *)

NewEnd(p, kind, secret, salt, key, domain, path, suffix, s) ==
    [phone |-> p, kind |-> kind, secret |-> secret, salt |-> salt, key |-> key,
     domain |-> domain, path |-> path, suffix |-> suffix, reserved |-> 0, session |-> s,
     handshake_hash |-> <<>>, sealed |-> 0, opened |-> 0, heard |-> <<>>, said |-> <<>>]

NoPath == [domain |-> NoDomain, routing_id |-> 0, tunnel_id |-> <<>>]

(* A phone scans a QR code, registers at its tunnel service under the      *)
(* tunnel id, and advertises; it offers the local channel when the code    *)
(* does.                                                                   *)
Scan(p, s, suffix) ==
    LET c == session[s]
        e == Len(ends) + 1
        domain == ServiceOf[p]
        path == [domain |-> decode_tunnel_server_domain(domain), routing_id |-> e,
                 tunnel_id |-> derive(qr_secret(s), <<>>, "TunnelID")]
    IN  /\ c.stage = "proximity" /\ c.kind = "qr"
        /\ e <= MaxEnds
        /\ suffix = "psm" => "Ble" \in c.offers
        /\ ends' = Append(ends, NewEnd(p, "qr", qr_secret(s), <<>>, CodeKey(s), domain, path,
                                       suffix, 0))
        /\ UNCHANGED <<session, links, up, down, store, odd>>

(* A phone of a later version, whose advertisement has reserved bits set   *)
(* or names a service by a number that this program does not know.         *)
LaterVersion ==
    /\ ends # <<>> /\ Last(ends).session = 0
    /\ Disturbed
    /\ \/ ends' = [ends EXCEPT ![Len(ends)].reserved = 1]
       \/ ends' = [ends EXCEPT ![Len(ends)].domain = KNOWN_TUNNEL_DOMAINS]
    /\ UNCHANGED <<session, links, up, down, store>>

(* A phone is told of a contact by its service, looks the link up by its   *)
(* id, joins the tunnel and advertises.                                    *)
Contacted(p, i, s) ==
    LET c == session[s]
    IN  /\ c.stage = "proximity" /\ c.kind = "known" /\ c.end = 0
        /\ p \in Routed(Contact(c))
        /\ Contact(c).client_payload.link_id = LinkingInfo(p, i).link_id
        /\ Len(ends) < MaxEnds
        /\ ends' = Append(ends,
             NewEnd(p, "known", LinkingInfo(p, i).link_secret,
                    Contact(c).client_payload.client_nonce, PublicKey(p),
                    links[p][i].domain, NoPath, "none", s))
        /\ Step(s, [c EXCEPT !.end = Len(ends) + 1])
        /\ UNCHANGED <<links, up, down, store, odd>>

Expected(e) ==
    NoiseInitiation(ends[e].kind, derive(ends[e].secret, Advert(e).plaintext, "Psk"),
                    ends[e].key, ends[e].session)

SendDown(s, frame) == down' = [down EXCEPT ![s] = Append(@, frame)]

PhoneFrame(e, message) ==
    Sealed(ends[e].handshake_hash, "client", ends[e].sealed, Padded(message))

(* The phone answers the handshake it expects, and hangs up on another. *)
Respond(e) ==
    LET s == ends[e].session
        hash == HandshakeHash(Head(up[s]), e)
    IN  /\ s # 0 /\ ends[e].handshake_hash = <<>>
        /\ up[s] # <<>>
        /\ up' = [up EXCEPT ![s] = Tail(@)]
        /\ IF Head(up[s]) = Expected(e)
           THEN /\ down' = [down EXCEPT ![s] = @ \o
                     <<Sealed(hash, "client", 0, <<>>),
                       Sealed(hash, "client", 0, <<Map, 0>>)>>]
                /\ ends' = [ends EXCEPT ![e].handshake_hash = hash, ![e].sealed = 1]
           ELSE SendDown(s, Garbled) /\ UNCHANGED ends
        /\ UNCHANGED <<session, links, store, odd>>

Answer(e, body) ==
    LET s == ends[e].session
        request == Head(up[s])
        length == Len(request.plaintext)
        heard == SubSeq(request.plaintext, 2, length - 1 - Last(request.plaintext))
    IN  /\ s # 0 /\ ends[e].handshake_hash # <<>> /\ up[s] # <<>>
        /\ up' = [up EXCEPT ![s] = Tail(@)]
        /\ IF request.hash = ends[e].handshake_hash /\ request.counter = ends[e].opened
           THEN /\ ends' = [ends EXCEPT ![e].opened = @ + 1, ![e].sealed = @ + 1,
                                        ![e].heard = Append(@, heard),
                                        ![e].said = Append(@, body)]
                /\ SendDown(s, PhoneFrame(e, CableTunnelMessage(Ctap, body)))
           ELSE SendDown(s, Garbled) /\ UNCHANGED ends
        /\ UNCHANGED <<session, links, store, odd>>

Sends(e, message) ==
    /\ SendDown(ends[e].session, PhoneFrame(e, message))
    /\ ends' = [ends EXCEPT ![e].sealed = @ + 1]
    /\ UNCHANGED <<session, up, store>>

Signature(e, hash) ==
    <<"hmac", diffie_hellman(ends[e].session, PublicKey(ends[e].phone)), hash>>

InfoOf(e, i, complete, hash) ==
    [contact_id |-> LinkingInfo(ends[e].phone, i).contact_id,
     link_id |-> LinkingInfo(ends[e].phone, i).link_id,
     link_secret |-> LinkingInfo(ends[e].phone, i).link_secret,
     public_key |-> PublicKey(ends[e].phone), complete |-> complete,
     handshake_signature |-> Signature(e, hash)]

Shaken(e) == ends[e].handshake_hash # <<>>

(* The phone hands out a link, which its tunnel service routes from now on. *)
SendLink(e) ==
    LET p == ends[e].phone
    IN  /\ Shaken(e) /\ ends[e].kind = "qr" /\ Len(links[p]) < MaxLinks
        /\ links' = [links EXCEPT ![p] = Append(@, [domain |-> ends[e].domain, routed |-> TRUE])]
        /\ Sends(e, <<Update, InfoOf(e, Len(links[p]) + 1, TRUE, ends[e].handshake_hash)>>)
        /\ UNCHANGED odd

(* An update that lacks something, or is of another handshake. *)
SendBadLink(e) ==
    /\ Shaken(e)
    /\ Disturbed
    /\ \/ Sends(e, <<Update, InfoOf(e, MaxLinks + 1, FALSE, ends[e].handshake_hash)>>)
       \/ Sends(e, <<Update, InfoOf(e, MaxLinks + 1, TRUE, <<>>)>>)
    /\ UNCHANGED links

(* A type alone, a type that is none, a padding longer than the frame. *)
SendBadFrame(e) ==
    /\ Shaken(e)
    /\ Disturbed
    /\ \E message \in {<<Ctap>>, <<3, 1>>, <<Ctap, 5>>} :
         /\ SendDown(ends[e].session,
                     Sealed(ends[e].handshake_hash, "client", ends[e].sealed,
                            IF message = <<Ctap, 5>> THEN message ELSE Append(message, 0)))
         /\ ends' = [ends EXCEPT ![e].sealed = @ + 1]
    /\ UNCHANGED <<session, links, up, store>>

SendShutdown(e) ==
    /\ Shaken(e)
    /\ Disturbed
    /\ Sends(e, <<Shutdown, 1>>)
    /\ UNCHANGED links

(* The user unlinks this computer on the phone. *)
Unlink(p, i) ==
    /\ i \in DOMAIN links[p] /\ links[p][i].routed
    /\ Disturbed
    /\ links' = [links EXCEPT ![p][i].routed = FALSE]
    /\ UNCHANGED <<session, ends, up, down, store>>

PhoneDoes(e) ==
    \/ Respond(e) \/ SendLink(e) \/ SendBadLink(e) \/ SendBadFrame(e) \/ SendShutdown(e)
    \/ \E body \in Bodies : Len(body) <= MAX_CBOR_SIZE /\ Answer(e, body)

Outside ==
    \/ \E p \in Phones, s \in Session, suffix \in Offers : Scan(p, s, suffix)
    \/ \E p \in Phones, i \in 1..MaxLinks, s \in Session :
         i \in DOMAIN links[p] /\ Contacted(p, i, s)
    \/ \E p \in Phones, i \in 1..MaxLinks : Unlink(p, i)
    \/ LaterVersion
    \/ \E e \in DOMAIN ends : PhoneDoes(e)

Next == (\E s \in Session : Task(s) \/ Application(s)) \/ Outside

Spec == Init /\ [][Next]_vars

-------------------------------------------------------------------------------
(* Once the handshake is over the channel and one phone's end have the     *)
(* same keys, to themselves: the end whose advertisement the channel saw,  *)
(* of a phone that scanned this very code, or of the phone on record       *)
(* (connection_stages.rs:27-184, protocol.rs:172-274).                     *)
KeysAreShared ==
    \A s \in Session :
        LET c == session[s]
        IN  c.handshake_hash # <<>> =>
              /\ {e \in DOMAIN ends : ends[e].handshake_hash = c.handshake_hash} = {c.end}
              /\ {r \in Session : session[r].handshake_hash = c.handshake_hash} = {s}
              /\ c.advert.device = c.end
              /\ IF c.kind = "qr" THEN ends[c.end].secret = qr_secret(s)
                 ELSE /\ PublicKey(ends[c.end].phone) = c.device_info.public_key
                      /\ ends[c.end].salt = client_nonce(s)

(* A phone hears what it was asked and the channel is given what the phone *)
(* said, in order and without the padding (protocol.rs:363-467, 558-632).  *)
DeliversWhatWasSent ==
    \A s \in Session :
        LET c == session[s]
        IN  c.end # 0 => /\ IsPrefix(ends[c.end].heard, c.asked)
                         /\ IsPrefix(c.answered, ends[c.end].said)

(* A record says of a link what the phone says of it, and names the tunnel *)
(* service where the phone is to be found (known_devices.rs:94-122,        *)
(* protocol.rs:633-690).                                                   *)
RecordsAreGenuine ==
    \A p \in Phones :
        store[p] # NoRecord =>
            \E i \in DOMAIN links[p] :
                /\ store[p].contact_id = LinkingInfo(p, i).contact_id
                /\ store[p].link_id = LinkingInfo(p, i).link_id
                /\ store[p].link_secret = LinkingInfo(p, i).link_secret
                /\ store[p].public_key = PublicKey(p)
                /\ store[p].tunnel_domain = decode_tunnel_server_domain(links[p][i].domain)

(* A channel fails only for a cause: with nothing amiss, the phone that    *)
(* scanned the code or was linked is recognised, found and understood,     *)
(* whichever other codes, phones and sessions there are                    *)
(* (connection_stages.rs:27-184, 302-348).                                 *)
FailsForACause ==
    odd = 0 =>
        /\ \A s \in Session : session[s].stage # "failed"
        /\ \A e \in DOMAIN ends, s \in Session :
             ends[e].secret = Secret(session[s]) /\ (ends[e].kind = "known" => ends[e].session = s)
                => trial_decrypt_advert(EidKey(session[s]), Advert(e))
===============================================================================
