----------------------------- MODULE OmemoSessions -----------------------------
(***************************************************************************)
(* OMEMO between this client and the devices of one contact whose          *)
(* conversation is open with OMEMO enabled (omemo/, and the OMEMO parts of *)
(* channel.cpp, message_handler.inl, iq_handler.inl,                       *)
(* connect_lifecycle.inl and command/encryption.inl).                      *)
(*                                                                         *)
(* Cryptography is perfect: a key is a token, a session is the token that  *)
(* both ends of it hold.  libsignal, the server and the contact's devices  *)
(* are external.  libsignal keeps the earlier sessions of a record and     *)
(* makes the one that decrypts a message the current one.  The contact's   *)
(* prekeys never run out.  What is sent to a device arrives, in order, be  *)
(* it after a reconnect (StreamManagement); queries and their answers are  *)
(* lost with the stream.                                                   *)
(***************************************************************************)
EXTENDS Integers, Sequences, FiniteSets, SequencesExt

CONSTANTS
    Devices,      \* the contact's devices
    Places,       \* the places of a batch of prekeys (the code: kPreKeyCount of them)
    OwnKeys,      \* the account has another device with a session
    MaxSends, MaxPeer, MaxTrouble   \* bounds: messages of the user, of the contact, and
                                    \* commands, lost links and failures together

NoList == <<>>                \* in the place of a device: the query for their list

ASSUME DevicesAssumption == NoList \notin Devices
ASSUME OwnAssumption == OwnKeys \in BOOLEAN
ASSUME PlacesAssumption == Places # {}
ASSUME BoundsAssumption == {MaxSends, MaxPeer, MaxTrouble} \subseteq Nat

VARIABLES
    up,           \* connected
    catchup,      \* global_mam_catchup
    due,          \* the signed prekey is older than kSignedPreKeyRotationSecs
    om,           \* the client's OMEMO state, see Init
    inbox,        \* messages on their way to the client
    archive,      \* those a lost link or an absence left to the catch-up
    offer,        \* offer[d]: what the server has as d's bundle
    published,    \* the prekeys of our bundle on the server
    configuring,  \* our bundle's node is being configured
    theirs,       \* theirs[d]: d's record of sessions with us
    confirmed,    \* sessions whose initiator has an answer in them
    aware,        \* devices that know of this one
    needs,        \* history: devices whose failure started a repair
    lost,         \* history: a publish was lost with the stream
    hitch,        \* history: why the queue may wait
    sends, heard, trouble   \* for the bounds

external == <<offer, published, configuring, theirs, confirmed, aware>>
used     == <<sends, heard, trouble>>
vars     == <<up, catchup, due, om, inbox, archive, external, needs, lost, hitch, used>>

NoKey == [batch |-> 0, place |-> 0, n |-> 0]
Key(batch, place, n) == [batch |-> batch, place |-> place, n |-> n]
Batch(b, n) == {Key(b, p, n) : p \in Places}

\* A session: with whom, and the prekey of ours it was built from, if they did.
Session(d, key, n) == [dev |-> d, key |-> key, n |-> n]
NoSession == Session(NoList, NoKey, 0)

\* A record of libsignal: the current session, and all of them.
NoSessions == [current |-> NoSession, all |-> {}]

\* The state of omemo.hh as it concerns the contact, then what LMDB keeps, then
\* what was sent: the queries in flight, the stanzas for each device, the bundle.
Fresh ==
    [missing |-> FALSE, fetching |-> {}, transports |-> {}, attempted |-> {}, failed |-> {},
     postponed |-> {}, replied |-> {}, heartbeat |-> {}, traffic |-> FALSE, republish |-> FALSE,
     queue |-> 0,
     listed |-> {}, bundle |-> [d \in Devices |-> "none"],
     ours |-> [d \in Devices |-> NoSessions], trust |-> [d \in Devices |-> "none"],
     records |-> Batch(1, 0), index |-> Batch(1, 0), batch |-> 1, made |-> 0,
     asked |-> {}, out |-> [d \in Devices |-> <<>>], publishing |-> {}]

Trouble == trouble < MaxTrouble /\ trouble' = trouble + 1

Offers == {"usable", "unusable", "unparsable"}

Init ==
    /\ up = FALSE /\ catchup = FALSE /\ due = FALSE
    /\ om = Fresh
    /\ inbox = <<>> /\ archive = <<>>
    /\ offer \in {f \in [Devices -> Offers] :
                     Cardinality({d \in Devices : f[d] # "usable"}) <= MaxTrouble}
    /\ published = Batch(1, 0) /\ configuring = FALSE
    /\ theirs = [d \in Devices |-> NoSessions] /\ confirmed = {} /\ aware \in SUBSET Devices
    /\ needs = {} /\ lost = FALSE /\ hitch = FALSE
    /\ sends = 0 /\ heard = 0
    /\ trouble = Cardinality({d \in Devices : offer[d] # "usable"})

-------------------------------------------------------------------------------
\* Trust: blind until one device of the contact was distrusted.

DefaultTrust(o) == IF \E d \in Devices : o.trust[d] = "untrusted" THEN "undecided" ELSE "blind"

\* identity_is_trusted: an identity that was never seen counts as the default.
IsTrusted(o, d) == "blind" = IF o.trust[d] = "none" THEN DefaultTrust(o) ELSE o.trust[d]

\* identity_save gives trust to a new identity only.
SaveIdentities(o, ds) ==
    [o EXCEPT !.trust = [d \in Devices |-> IF d \in ds /\ @[d] = "none" THEN DefaultTrust(o)
                                                                     ELSE @[d]]]

-------------------------------------------------------------------------------
\* The signal store.

HasSession(o, d) == o.ours[d].all # {}

\* The session that is used becomes the current one.
Promoted(q, s) == [current |-> s, all |-> q.all \cup {s}]

\* establish_session_from_bundle: it needs a cached bundle whose signature is
\* valid, of an identity that is trusted.
CanEstablish(o, d) == o.bundle[d] = "usable" /\ IsTrusted(o, d)
Establish(o, ds) ==
    LET one == o.made + 1
    IN  [SaveIdentities(o, ds) EXCEPT
            !.ours = [d \in Devices |-> IF d \in ds THEN Promoted(@[d], Session(d, NoKey, one))
                                                    ELSE @[d]],
            !.made = IF ds = {} THEN @ ELSE one]

\* rotate_signed_prekey_if_due and ensure_prekeys: a fresh batch of prekeys from
\* kMaxPreKeyId + 1 on; the records of earlier batches stay.
Rotate(o) ==
    LET new == Batch(o.batch + 1, o.made)
    IN  [o EXCEPT !.records = @ \cup new, !.index = new, !.batch = @ + 1]
EnsurePrekeys(o) == IF due THEN Rotate(o) ELSE o

\* get_axolotl_bundle and sending it.
PublishBundle(o) == LET e == EnsurePrekeys(o) IN [e EXCEPT !.publishing = e.index]

\* replace_used_prekey: another key in the same place, on disk and in the index.
Renewed(keys, old, new) == {k \in keys : k.batch # old.batch \/ k.place # old.place} \cup {new}
ReplaceUsedPrekey(o, key) ==
    LET new == Key(key.batch, key.place, o.made + 1)
    IN  [o EXCEPT !.records = Renewed(@, key, new), !.index = Renewed(@, key, new),
                  !.made = @ + 1]

-------------------------------------------------------------------------------
\* Queries.

\* missing_axolotl_devicelist guards against a second query.
RequestDevicelist(o) ==
    IF o.missing THEN o ELSE [o EXCEPT !.missing = TRUE, !.asked = @ \cup {NoList}]

\* Only after the contact was seen to write, and once at a time.
RequestBundles(o, ds) ==
    IF o.traffic THEN [o EXCEPT !.fetching = @ \cup ds, !.asked = @ \cup (ds \ o.fetching)]
                 ELSE o

-------------------------------------------------------------------------------
\* Stanzas to the contact's devices.

\* session_cipher_encrypt: a prekey message until the other end has answered.
Sealed(o, d, payload) ==
    LET s == o.ours[d].current
    IN  [ses |-> s, prekey |-> s.key = NoKey /\ s \notin confirmed, payload |-> payload]

SendTo(o, ds, n, payload) ==
    [o EXCEPT !.out = [d \in Devices |-> IF d \in ds
                                         THEN @[d] \o [i \in 1..n |-> Sealed(o, d, payload)]
                                         ELSE @[d]]]

\* send_key_transport; without a session it is an error message.
SendKeyTransports(o, ds) == SendTo(o, {d \in ds : HasSession(o, d)}, 1, FALSE)

\* encode.  The devices it encrypts for: "skip devices that are UNTRUSTED or
\* UNDECIDED", and those whose bundle failed.
Recipients(o) ==
    {d \in o.listed : o.trust[d] \notin {"untrusted", "undecided"} /\ d \notin o.failed}

\* Sessions are built from cached bundles where they can be, bundles are requested
\* where they cannot.
Prepared(o) ==
    LET lacking == {d \in Recipients(o) : ~HasSession(o, d)}
        ready == {d \in lacking : CanEstablish(o, d)}
        built == Establish([o EXCEPT !.traffic = TRUE], ready)
    IN  IF o.listed = {} THEN RequestDevicelist(built)
                         ELSE RequestBundles(built, lacking \ ready)

\* "if (incomplete_recipient_count > 0) return nullptr"; then the own devices.
Encodable(o) ==
    /\ o.listed # {}
    /\ \A d \in Recipients(o) : HasSession(o, d)
    /\ Recipients(o) # {} \/ OwnKeys

\* New prekeys are published before anything is encrypted.
WithPrekeys(o) == IF due THEN PublishBundle(o) ELSE o

\* send_message: what cannot be encrypted is queued and the list requested.
SendMessage(o) ==
    LET p == Prepared(WithPrekeys(o))
    IN  IF Encodable(p) THEN SendTo(p, Recipients(p), 1, TRUE)
                        ELSE RequestDevicelist([p EXCEPT !.queue = @ + 1])

\* flush_pending_omemo_messages: the first failure ends it.
Flush(o) ==
    IF o.queue = 0 THEN o
    ELSE LET p == Prepared(WithPrekeys(o))
         IN  IF Encodable(p) THEN SendTo([p EXCEPT !.queue = 0], Recipients(p), o.queue, TRUE)
                           ELSE p

-------------------------------------------------------------------------------
\* Connecting and losing the link.

\* omemo.init: what is in flight is forgotten, what LMDB has is not.  Then the
\* bundle is published if the prekeys changed, and the catch-up starts.
Forgotten(o) ==
    [o EXCEPT !.missing = FALSE, !.fetching = {}, !.transports = {}, !.attempted = {},
              !.failed = {}, !.postponed = {}, !.replied = {}, !.traffic = FALSE,
              !.republish = FALSE]

Connect ==
    /\ ~up /\ up' = TRUE
    /\ catchup' = TRUE
    /\ om' = WithPrekeys(Forgotten(om)) /\ due' = FALSE
    /\ UNCHANGED <<inbox, archive, external, needs, lost, hitch, used>>

Drop ==
    /\ up /\ up' = FALSE
    /\ Trouble
    /\ archive' = archive \o inbox /\ inbox' = <<>>
    /\ lost' = (lost \/ om.publishing # {} \/ configuring \/ om.republish)
    /\ om' = [om EXCEPT !.asked = {}, !.publishing = {}]
    /\ configuring' = FALSE
    /\ needs' = {} /\ hitch' = TRUE
    /\ UNCHANGED <<catchup, due, offer, published, theirs, confirmed, aware, sends, heard>>

\* A week has passed.
RotationDue ==
    /\ ~due /\ om.batch = 1 /\ Trouble
    /\ due' = TRUE
    /\ UNCHANGED <<up, catchup, om, inbox, archive, external, needs, lost, hitch, sends, heard>>

\* The global catch-up ends: what was postponed is done.
ProcessPostponed(o) ==
    LET s == [SendKeyTransports(o, o.postponed) EXCEPT !.postponed = {}]
    IN  IF o.republish THEN PublishBundle([s EXCEPT !.republish = FALSE]) ELSE s

\* A transport that was sent meets the need for one.
Met(o, p) == {d \in needs : Len(p.out[d]) = Len(o.out[d])}

OnFin ==
    /\ up /\ catchup /\ archive = <<>>
    /\ catchup' = FALSE
    /\ om' = ProcessPostponed(om) /\ due' = (due /\ ~om.republish)
    /\ needs' = Met(om, om')
    /\ UNCHANGED <<up, inbox, archive, external, lost, hitch, used>>

-------------------------------------------------------------------------------
\* What the user does.

UserSends ==
    /\ up /\ sends < MaxSends /\ sends' = sends + 1
    /\ om' = SendMessage(om) /\ due' = FALSE
    /\ UNCHANGED <<up, catchup, inbox, archive, external, needs, lost, hitch, heard, trouble>>

Command == up /\ Trouble

\* /omemo fetch: the list, and the bundles of one device or of all that are listed.
ForceFetch ==
    /\ Command
    /\ \E ds \in {om.listed} \cup {{d} : d \in Devices} :
          om' = RequestBundles(RequestDevicelist(om), ds)
    /\ UNCHANGED <<up, catchup, due, inbox, archive, external, needs, lost, hitch, sends, heard>>

\* /omemo kex: a key transport at once, or after the bundle has come.
Kex(o, ds) ==
    LET a == [o EXCEPT !.failed = @ \ ds]
        b == Establish(a, {d \in ds : ~HasSession(a, d) /\ CanEstablish(a, d)})
        without == {d \in ds : ~HasSession(b, d)}
    IN  RequestBundles([SendKeyTransports(b, ds) EXCEPT !.transports = @ \cup without], without)
ForceKex ==
    /\ Command
    /\ om' = IF om.listed = {} THEN RequestDevicelist(om)
             ELSE Kex(om, om.listed)
    /\ needs' = Met(om, om')
    /\ UNCHANGED <<up, catchup, due, inbox, archive, external, lost, hitch, sends, heard>>

\* /omemo distrust.
Distrust(d) ==
    /\ Command /\ d \in om.listed
    /\ om' = [om EXCEPT !.trust[d] = "untrusted"]
    /\ hitch' = TRUE
    /\ UNCHANGED <<up, catchup, due, inbox, archive, external, needs, lost, sends, heard>>

\* /omemo trust removes sessions and bundles; what it would remove of identities is
\* kept under other keys than those it looks for.
DistrustJid ==
    /\ Command
    /\ om' = [om EXCEPT !.bundle = [d \in Devices |-> "none"],
                        !.ours = [d \in Devices |-> NoSessions]]
    /\ needs' = {} /\ hitch' = TRUE
    /\ UNCHANGED <<up, catchup, due, inbox, archive, external, lost, sends, heard>>

\* /omemo republish.
Republish ==
    /\ Command
    /\ om' = PublishBundle(om) /\ due' = FALSE
    /\ UNCHANGED <<up, catchup, inbox, archive, external, needs, lost, hitch, sends, heard>>

-------------------------------------------------------------------------------
\* Answers, in any order.

\* handle_axolotl_devicelist stores the list and flushes the queue if one of its
\* devices has a session; the iq handler then asks for every device's bundle.
OnDevicelist ==
    /\ up /\ NoList \in om.asked
    /\ \E ds \in (SUBSET Devices) \ {{}} :
          /\ \A d \in Devices \ ds : offer[d] # "usable"
          /\ LET kept == [om EXCEPT !.missing = FALSE, !.listed = ds, !.asked = @ \ {NoList}]
                 flushed == IF \E d \in ds : HasSession(kept, d) THEN Flush(kept) ELSE kept
                 new == ds \ flushed.fetching
             IN  /\ om' = [flushed EXCEPT !.fetching = @ \cup new, !.asked = @ \cup new]
                 /\ due' = (due /\ (kept.queue = 0 \/ flushed = kept))
    /\ UNCHANGED <<up, catchup, inbox, archive, external, needs, lost, hitch, used>>

\* An error that does not repeat <items/> is not recognised and the guard stays.  One
\* that does is taken for a result as well, whatever it says: an empty list is stored.
OnDevicelistError ==
    /\ up /\ NoList \in om.asked /\ Trouble
    /\ \E repeated \in BOOLEAN :
          om' = [om EXCEPT !.asked = @ \ {NoList}, !.missing = @ /\ ~repeated,
                           !.listed = IF repeated THEN {} ELSE @]
    /\ hitch' = TRUE
    /\ UNCHANGED <<up, catchup, due, inbox, archive, external, needs, lost, sends, heard>>

\* handle_axolotl_bundle up to the key transport: "Only bootstrap a new session
\* when no session exists yet".
Bootstrapped(o, d, b) ==
    LET kept == [o EXCEPT !.bundle[d] = b, !.failed = @ \ {d}]
        built == IF ~HasSession(o, d) /\ CanEstablish(kept, d) THEN Establish(kept, {d}) ELSE kept
    IN  IF HasSession(built, d) THEN built ELSE [built EXCEPT !.failed = @ \cup {d}]

Taken(o, d) == IF offer[d] = "unparsable" THEN o ELSE Bootstrapped(o, d, offer[d])

\* A key transport is due if it was asked for or the session is new.  Mutant: only
\* for a new session.
FreshOnly(o, p, d) == ~HasSession(o, d) /\ HasSession(p, d)
NeedsTransport(o, p, d) == d \in o.transports \/ (~HasSession(o, d) /\ HasSession(p, d))

Transported(o, d) ==
    IF catchup THEN [o EXCEPT !.postponed = @ \cup {d}] ELSE SendKeyTransports(o, {d})

\* With a session the queue is tried.  Mutant: not during the catch-up.
CalmFlush(o, d) == IF HasSession(o, d) /\ ~catchup THEN Flush(o) ELSE o
AfterBundle(o, d) == IF HasSession(o, d) THEN Flush(o) ELSE o

OnBundle(d) ==
    /\ up /\ d \in om.asked
    /\ LET taken == [om EXCEPT !.attempted = @ \cup {d}, !.fetching = @ \ {d},
                               !.transports = @ \ {d}, !.asked = @ \ {d}]
           built == Taken(taken, d)
           told == IF offer[d] # "unparsable" /\ NeedsTransport(om, built, d)
                   THEN Transported(built, d) ELSE built
       IN  /\ om' = AfterBundle(told, d)
           /\ due' = (due /\ (om.queue = 0 \/ ~HasSession(told, d)))
           /\ needs' = Met(om, om') \ (IF HasSession(built, d) /\ offer[d] # "unparsable"
                                       THEN {} ELSE {d})
    /\ UNCHANGED <<up, catchup, inbox, archive, external, lost, hitch, used>>

\* An error only ends the fetch, if it repeats <items/>.
OnBundleError(d) ==
    /\ up /\ d \in om.asked /\ Trouble
    /\ \E repeated \in BOOLEAN :
          om' = [om EXCEPT !.fetching = IF repeated THEN @ \ {d} ELSE @, !.asked = @ \ {d}]
    /\ needs' = needs \ {d} /\ hitch' = TRUE
    /\ UNCHANGED <<up, catchup, due, inbox, archive, external, lost, sends, heard>>

\* The server takes our bundle, or wants its node configured first; then the
\* bundle is published again.
OnPublished ==
    /\ up /\ om.publishing # {}
    /\ published' = om.publishing
    /\ om' = [om EXCEPT !.publishing = {}]
    /\ UNCHANGED <<up, catchup, due, inbox, archive, offer, configuring, theirs, confirmed, aware,
                   needs, lost, hitch, used>>

\* <precondition-not-met/>.
OnRejected ==
    /\ up /\ om.publishing # {} /\ ~configuring /\ Trouble
    /\ configuring' = TRUE
    /\ om' = [om EXCEPT !.publishing = {}]
    /\ UNCHANGED <<up, catchup, due, inbox, archive, offer, published, theirs, confirmed, aware,
                   needs, lost, hitch, sends, heard>>

OnConfigured ==
    /\ up /\ configuring /\ configuring' = FALSE
    /\ om' = PublishBundle(om) /\ due' = FALSE
    /\ UNCHANGED <<up, catchup, inbox, archive, offer, published, theirs, confirmed, aware,
                   needs, lost, hitch, used>>

-------------------------------------------------------------------------------
\* Messages of the contact.

\* decrypt_axolotl_transport_key: a prekey message builds the session if its prekey
\* is there, or else its inner message is tried with the sessions at hand.
Decrypts(o, m) ==
    \/ m.ses \in o.ours[m.dev].all
    \/ m.prekey /\ IsTrusted(o, m.dev) /\ m.ses.key \in o.records

\* libsignal stores the session and removes the prekey.  Mutant: the prekey stays.
KeptPrekey(o, m) ==
    [(IF m.prekey THEN SaveIdentities(o, {m.dev}) ELSE o) EXCEPT !.ours[m.dev] = Promoted(@, m.ses)]
Opened(o, m) ==
    LET a == IF m.prekey THEN SaveIdentities(o, {m.dev}) ELSE o
    IN  [a EXCEPT !.ours[m.dev] = Promoted(@, m.ses),
                  !.records = IF m.prekey THEN @ \ {m.ses.key} ELSE @]

\* A message with a payload: its prekey is replaced and the bundle published, now or
\* after the catch-up.  Mutant: during the catch-up nothing is remembered.
RepublishedNow(o) == IF catchup THEN o ELSE PublishBundle(o)
Republished(o) == IF catchup THEN [o EXCEPT !.republish = TRUE] ELSE PublishBundle(o)
PrekeyReplaced(o, m) ==
    IF m.prekey THEN Republished(ReplaceUsedPrekey(o, m.ses.key)) ELSE o

\* A heartbeat for a ratchet that has come to 53 messages, an empty answer to the
\* first prekey message; neither during the catch-up.
Answered(o, m, long) ==
    LET d == m.dev
        calm == IF m.prekey THEN [o EXCEPT !.heartbeat = @ \ {d}] ELSE o
        beats == long /\ ~catchup /\ d \notin calm.heartbeat
        a == IF beats THEN SendKeyTransports([calm EXCEPT !.heartbeat = @ \cup {d}], {d}) ELSE calm
    IN  IF m.prekey /\ ~catchup /\ d \notin o.replied
        THEN SendKeyTransports([a EXCEPT !.replied = @ \cup {d}], {d})
        ELSE a

Read(o, m, long) ==
    LET a == Opened(o, m)
    IN  IF m.payload THEN Answered(PrekeyReplaced(a, m), m, long) ELSE a

\* No key for this device, live: one attempt to tell the sender of it.
Unaddressed(o, d) ==
    IF d \in o.attempted \cup o.transports THEN o
    ELSE RequestBundles([o EXCEPT !.transports = @ \cup {d}], {d})

\* A key that does not decrypt, live: the session is dropped and built anew.
Repair(o, d) ==
    IF d \in o.attempted THEN o
    ELSE RequestBundles([o EXCEPT !.attempted = @ \cup {d}, !.ours[d] = NoSessions,
                                  !.transports = @ \cup {d}], {d})

\* The same in a replay: "queuing deferred session recovery".
RepairLater(o, d) ==
    IF d \in o.attempted \cup o.transports THEN o ELSE [o EXCEPT !.transports = @ \cup {d}]

Takes(o, m, live, long) ==
    CASE m.known /\ Decrypts(o, m) -> Read(o, m, long)
      [] m.known /\ ~Decrypts(o, m) -> IF live THEN Repair(o, m.dev) ELSE RepairLater(o, m.dev)
      [] OTHER -> IF live THEN Unaddressed(o, m.dev) ELSE o

\* A failure that starts a repair.
Starts(o, m) ==
    ~(m.known /\ Decrypts(o, m)) /\ m.dev \notin o.attempted \cup o.transports \cup o.fetching

Handle(m, live) ==
    /\ \E long \in BOOLEAN :
          /\ long => m.payload
          /\ om' = Takes([om EXCEPT !.traffic = TRUE], m, live, long)
    /\ needs' = Met(om, om') \cup (IF live /\ Starts(om, m) THEN {m.dev} ELSE {})
    /\ confirmed' = IF m.known /\ Decrypts(om, m) /\ m.ses.key = NoKey
                    THEN confirmed \cup {m.ses} ELSE confirmed
    /\ due' = (due /\ ~(m.known /\ Decrypts(om, m) /\ m.payload /\ m.prekey /\ ~catchup))
    /\ UNCHANGED <<up, catchup, offer, published, configuring, theirs, aware, lost, hitch, used>>

OnLive ==
    /\ up /\ inbox # <<>>
    /\ Handle(Head(inbox), TRUE)
    /\ inbox' = Tail(inbox) /\ UNCHANGED archive

OnReplay ==
    /\ up /\ catchup /\ archive # <<>>
    /\ Handle(Head(archive), FALSE)
    /\ archive' = Tail(archive) /\ UNCHANGED inbox

-------------------------------------------------------------------------------
\* The contact's devices (external: XEP-0384 and libsignal).

\* A device without a session builds one from our bundle; one that does not know of
\* ours has no key for it.
PeerSends(d) ==
    /\ heard < MaxPeer /\ heard' = heard + 1
    /\ \E payload \in BOOLEAN, k \in published :
          LET s == IF theirs[d].all = {} THEN Session(d, k, heard + 1)
                                     ELSE theirs[d].current
              m == [dev |-> d, ses |-> s, payload |-> payload, known |-> d \in aware,
                    prekey |-> s.key # NoKey /\ s \notin confirmed]
          IN  /\ m.known \/ payload
              /\ theirs' = IF m.known THEN [theirs EXCEPT ![d] = Promoted(@, s)] ELSE theirs
              /\ IF up THEN inbox' = Append(inbox, m) /\ UNCHANGED archive
                       ELSE archive' = Append(archive, m) /\ UNCHANGED inbox
    /\ UNCHANGED <<up, catchup, due, om, offer, published, configuring, confirmed, aware, needs,
                   lost, hitch, sends, trouble>>

\* A message it cannot read makes a device start over.
PeerReads(d) ==
    /\ om.out[d] # <<>>
    /\ LET m == Head(om.out[d])
           has == m.ses \in theirs[d].all
       IN  /\ theirs' = [theirs EXCEPT ![d] = IF has \/ m.prekey THEN Promoted(@, m.ses)
                                                                ELSE NoSessions]
           /\ confirmed' = IF has /\ m.ses.key # NoKey THEN confirmed \cup {m.ses} ELSE confirmed
    /\ om' = [om EXCEPT !.out[d] = Tail(@)]
    /\ aware' = aware \cup {d}
    /\ UNCHANGED <<up, catchup, due, inbox, archive, offer, published, configuring, needs, lost,
                   hitch, used>>

\* A device is restored without its sessions.
PeerForgets(d) ==
    /\ theirs[d].all # {} /\ Trouble
    /\ theirs' = [theirs EXCEPT ![d] = NoSessions]
    /\ UNCHANGED <<up, catchup, due, om, inbox, archive, offer, published, configuring, confirmed,
                   aware, needs, lost, hitch, sends, heard>>

-------------------------------------------------------------------------------
User == UserSends \/ ForceFetch \/ ForceKex \/ DistrustJid \/ Republish
Answer == \/ OnDevicelist \/ OnDevicelistError
          \/ \E d \in Devices : OnBundle(d) \/ OnBundleError(d)
          \/ OnPublished \/ OnRejected \/ OnConfigured
Stream == Answer \/ OnFin \/ OnLive \/ OnReplay

Next == \/ Connect \/ Drop \/ RotationDue
        \/ User \/ \E d \in Devices : Distrust(d)
        \/ Stream
        \/ \E d \in Devices : PeerSends(d) \/ PeerReads(d) \/ PeerForgets(d)

Spec == Init /\ [][Next]_vars

-------------------------------------------------------------------------------
\* What is expected of it.

Settled == /\ up /\ ~catchup /\ inbox = <<>> /\ archive = <<>> /\ om.asked = {}
           /\ om.publishing = {} /\ ~configuring

\* "aggressively recover": a device whose message could not be read, or held no key
\* for this one, is sent a key transport in the end, if its bundle yields a session.
FailureIsRepaired == Settled => needs = {}

\* "Put it back and stop; we'll retry on next session/bundle update": when all has
\* been answered nothing waits, unless an answer failed, the link was lost, a device
\* was distrusted or a device's bundle is of no use.
QueueIsSent ==
    Settled /\ ~hitch /\ (\A d \in Devices : offer[d] = "usable") => om.queue = 0

\* The bundle contacts see is the one that is kept, however replacements, the
\* catch-up, rotations and refusals interleave, unless a publish was lost.
PublishedIsIndex == Settled /\ ~lost => published = om.index

\* A prekey serves one session.
OneTime ==
    \A d, e \in Devices : \A s \in om.ours[d].all, t \in om.ours[e].all :
        s # t /\ s.key # NoKey => s.key # t.key

===============================================================================
