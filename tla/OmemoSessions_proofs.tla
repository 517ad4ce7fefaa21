------------------------- MODULE OmemoSessions_proofs -------------------------
(***************************************************************************)
(* The four invariants of OmemoSessions, for any devices, prekeys, bounds  *)
(* and sequence of answers, failures and lost links.                       *)
(*                                                                         *)
(* The invariant has four parts, one per property.  The client's state is  *)
(* one record that every operation maps to another, and a handler is a     *)
(* chain of operations.  So the proof has a relation between states, Step, *)
(* that every operation keeps and that is transitive; a lemma for every    *)
(* operation; and a lemma for every action, most of which need nothing     *)
(* but that the client took a Step.                                        *)
(***************************************************************************)
EXTENDS OmemoSessions, TLAPS

\* Keys, sessions, records of sessions, stanzas of both directions; the client's state.
Keys == [batch : Nat, place : Places \cup {0}, n : Nat]
Sessions == [dev : Devices \cup {NoList}, key : Keys, n : Nat]
Stores == [current : Sessions, all : SUBSET Sessions]
Stanza == [ses : Sessions, prekey : BOOLEAN, payload : BOOLEAN]
Message == [dev : Devices, ses : Sessions, payload : BOOLEAN, known : BOOLEAN, prekey : BOOLEAN]
Om == [missing : BOOLEAN, fetching : SUBSET Devices, transports : SUBSET Devices,
       attempted : SUBSET Devices, failed : SUBSET Devices, postponed : SUBSET Devices,
       replied : SUBSET Devices, heartbeat : SUBSET Devices, traffic : BOOLEAN,
       republish : BOOLEAN, queue : Nat, listed : SUBSET Devices,
       bundle : [Devices -> Offers \cup {"none"}], ours : [Devices -> Stores],
       trust : [Devices -> {"none", "blind", "untrusted", "undecided"}],
       records : SUBSET Keys, index : SUBSET Keys, batch : Nat, made : Nat,
       asked : SUBSET (Devices \cup {NoList}), out : [Devices -> Seq(Stanza)],
       publishing : SUBSET Keys]

OmemoTypes ==
    /\ up \in BOOLEAN /\ catchup \in BOOLEAN /\ due \in BOOLEAN
    /\ configuring \in BOOLEAN /\ lost \in BOOLEAN /\ hitch \in BOOLEAN
    /\ om \in Om /\ heard \in Nat
    /\ inbox \in Seq(Message) /\ archive \in Seq(Message)
    /\ offer \in [Devices -> Offers] /\ published \subseteq Keys
    /\ theirs \in [Devices -> Stores] /\ needs \subseteq Devices

\* The keys of records and sessions are of batches and numbers given out, and a key that
\* a session was built from is no record any more.
KeysInv(o) ==
    /\ \A k \in o.records : k # NoKey /\ k.batch <= o.batch /\ k.n <= o.made
    /\ \A d \in Devices : \A s \in o.ours[d].all :
          s.key # NoKey => s.key \notin o.records /\ s.key.batch <= o.batch /\ s.key.n <= o.made
    /\ \A d, e \in Devices : \A s \in o.ours[d].all, t \in o.ours[e].all :
          s # t /\ s.key # NoKey => s.key # t.key

\* A new index is published, or a publication stands out: the catch-up's end, the node's
\* configuration, or nothing since one was lost.  A lost link leaves none of these behind.
PublishInv ==
    /\ om.index # {}
    /\ om.republish => IF up THEN catchup ELSE lost
    /\ ~up /\ configuring => lost
    /\ ~lost /\ ~configuring /\ ~om.republish
          => om.publishing = om.index \/ (om.publishing = {} /\ published = om.index)

\* A device in need is asked with a transport noted for the answer, or has a session and is
\* postponed.  That it was attempted keeps later failures from dropping the session.
NeedsInv ==
    \A d \in needs :
        /\ up
        /\ \/ d \in om.transports \cap om.asked
           \/ catchup /\ d \in om.postponed \cap om.attempted /\ HasSession(om, d)

\* Nothing hinders: no device is left out, and what is being fetched was asked for.
Easy(o) ==
    /\ \A d \in Devices : offer[d] = "usable" /\ o.trust[d] \in {"none", "blind"}
    /\ o.failed = {} /\ o.fetching \subseteq o.asked
    /\ o.missing => NoList \in o.asked

\* What is queued has an answer to wait for that will have it tried again.
Awaited(o) == o.queue # 0 => NoList \in o.asked \/ o.listed \cap o.asked # {}

QueueInv == ~hitch /\ (\A d \in Devices : offer[d] = "usable") => Easy(om) /\ Awaited(om)

OmemoInv == KeysInv(om) /\ PublishInv /\ NeedsInv /\ QueueInv

-------------------------------------------------------------------------------
\* What every operation of the client does to its state, and what every sequence of
\* them does: nothing that a need rests on is taken back, the index is published or
\* remembered, and what holds of keys and of what is awaited is kept.

Grows(o, p) ==
    /\ p.listed = o.listed
    /\ o.transports \subseteq p.transports /\ o.asked \subseteq p.asked
    /\ o.attempted \subseteq p.attempted /\ o.postponed \subseteq p.postponed
    /\ \A d \in o.attempted : HasSession(o, d) => HasSession(p, d)
    /\ \A d \in Devices : Len(o.out[d]) <= Len(p.out[d])

Publishes(o, p) ==
    /\ o.republish => p.republish
    /\ p.republish => o.republish \/ catchup
    /\ o.index # {} => p.index # {}
    /\ \/ p.publishing = p.index
       \/ p.publishing = o.publishing /\ p.index = o.index
       \/ p.republish

Keeps(o, p) ==
    /\ KeysInv(o) => KeysInv(p)
    /\ Easy(o) => Easy(p)
    /\ Easy(o) /\ Awaited(o) => Awaited(p)

Step(o, p) == p \in Om /\ Grows(o, p) /\ Publishes(o, p) /\ Keeps(o, p)

LEMMA StepTrans ==
    ASSUME NEW o \in Om, NEW p, NEW q, Step(o, p), Step(p, q)
    PROVE  Step(o, q)
<1>1. o \in Om /\ p \in Om /\ q \in Om
  BY DEF Step
<1>2. Grows(o, q)
  <2>1. Grows(o, p) /\ Grows(p, q)
    BY DEF Step
  <2>2. \A d \in Devices : Len(o.out[d]) \in Nat /\ Len(p.out[d]) \in Nat /\ Len(q.out[d]) \in Nat
    BY <1>1 DEF Om
  <2> QED BY <2>1, <2>2 DEF Grows
<1>3. Publishes(o, q)
  BY DEF Step, Publishes
<1>4. Keeps(o, q)
  BY DEF Step, Keeps
<1> QED BY <1>1, <1>2, <1>3, <1>4 DEF Step

\* An operation that leaves alone what one of these speaks of.
LEMMA GrowsSame ==
    ASSUME NEW o \in Om, NEW p,
           p.listed = o.listed, p.transports = o.transports, p.asked = o.asked,
           p.attempted = o.attempted, p.postponed = o.postponed, p.ours = o.ours, p.out = o.out
    PROVE  Grows(o, p)
BY DEF Grows, HasSession, Om

LEMMA PublishesSame ==
    ASSUME NEW o, NEW p,
           p.republish = o.republish, p.index = o.index, p.publishing = o.publishing
    PROVE  Publishes(o, p)
BY DEF Publishes

LEMMA KeysSame ==
    ASSUME NEW o, NEW p,
           p.records = o.records, p.batch = o.batch, p.made = o.made, p.ours = o.ours
    PROVE  KeysInv(o) => KeysInv(p)
BY DEF KeysInv

LEMMA EasySame ==
    ASSUME NEW o, NEW p,
           p.trust = o.trust, p.failed = o.failed, p.fetching = o.fetching, p.asked = o.asked,
           p.missing = o.missing
    PROVE  Easy(o) => Easy(p)
BY DEF Easy

LEMMA AwaitedSame ==
    ASSUME NEW o, NEW p, p.queue = o.queue, p.asked = o.asked, p.listed = o.listed
    PROVE  Awaited(o) => Awaited(p)
BY DEF Awaited

LEMMA StepSame ==
    ASSUME NEW o \in Om
    PROVE  Step(o, o)
BY GrowsSame, PublishesSame DEF Step, Keeps

LEMMA SaveIdentitiesStep ==
    ASSUME NEW o \in Om, NEW ds \in SUBSET Devices
    PROVE  /\ Step(o, SaveIdentities(o, ds))
           /\ \A f \in DOMAIN o \ {"trust"} : SaveIdentities(o, ds)[f] = o[f]
<1> DEFINE p == SaveIdentities(o, ds)
<1>1. p \in Om /\ \A f \in DOMAIN o \ {"trust"} : p[f] = o[f]
  BY DEF Om, SaveIdentities, DefaultTrust
<1>2. p.trust = [d \in Devices |-> IF d \in ds /\ o.trust[d] = "none" THEN DefaultTrust(o)
                                                                  ELSE o.trust[d]]
  BY DEF Om, SaveIdentities
<1>0. /\ p.listed = o.listed /\ p.transports = o.transports /\ p.asked = o.asked
      /\ p.attempted = o.attempted /\ p.postponed = o.postponed /\ p.ours = o.ours
      /\ p.out = o.out /\ p.republish = o.republish /\ p.index = o.index
      /\ p.publishing = o.publishing /\ p.records = o.records /\ p.batch = o.batch
      /\ p.made = o.made /\ p.queue = o.queue
  BY <1>1 DEF Om
<1>3. Grows(o, p) /\ Publishes(o, p)
  BY <1>0, GrowsSame, PublishesSame
<1>4. KeysInv(o) => KeysInv(p)
  BY <1>0, KeysSame
<1>5. Easy(o) => Easy(p)
  BY <1>1, <1>2 DEF Easy, Om, DefaultTrust
<1>6. Awaited(o) => Awaited(p)
  BY <1>0, AwaitedSame
<1> QED BY <1>1, <1>3, <1>4, <1>5, <1>6 DEF Step, Keeps

\* Sessions of one's own are built from no prekey of one's own.
LEMMA EstablishStep ==
    ASSUME NEW o \in Om, NEW ds \in SUBSET Devices
    PROVE  /\ Step(o, Establish(o, ds))
           /\ \A f \in DOMAIN o \ {"trust", "ours", "made"} : Establish(o, ds)[f] = o[f]
           /\ \A d \in Devices : HasSession(Establish(o, ds), d) <=> HasSession(o, d) \/ d \in ds
<1> DEFINE i == SaveIdentities(o, ds)
           p == Establish(o, ds)
           New(d) == Session(d, NoKey, o.made + 1)
<1>1. Step(o, i) /\ i \in Om /\ \A f \in DOMAIN o \ {"trust"} : i[f] = o[f]
  BY SaveIdentitiesStep DEF Step
<1>2. p.ours = [d \in Devices |-> IF d \in ds THEN Promoted(o.ours[d], New(d)) ELSE o.ours[d]]
  BY <1>1 DEF Establish, Om
<1>3. \A f \in DOMAIN o \ {"trust", "ours", "made"} : p[f] = o[f]
  BY <1>1 DEF Establish, Om
<1>4. p.made \in Nat /\ p.made >= o.made /\ p.trust = i.trust
  <2>1. p.made = (IF ds = {} THEN o.made ELSE o.made + 1) /\ p.trust = i.trust
    BY <1>1 DEF Establish, Om
  <2>2. o.made \in Nat
    BY DEF Om
  <2> QED BY <2>1, <2>2
<1>5. \A d \in Devices : New(d) \in Sessions /\ New(d).key = NoKey
  BY DEF Sessions, Keys, Session, NoKey, Om
<1>6. p.ours \in [Devices -> Stores]
  BY <1>2, <1>5 DEF Om, Stores, Promoted
<1>7. p \in Om
  BY <1>1, <1>3, <1>4, <1>6 DEF Om, Establish
<1>8. \A d \in Devices : p.ours[d].all \subseteq o.ours[d].all \cup {New(d)}
  BY <1>2 DEF Promoted
<1>9. \A d \in Devices : HasSession(p, d) <=> HasSession(o, d) \/ d \in ds
  BY <1>2 DEF Promoted, HasSession
<1>0. /\ p.listed = o.listed /\ p.transports = o.transports /\ p.asked = o.asked
      /\ p.attempted = o.attempted /\ p.postponed = o.postponed /\ p.out = o.out
      /\ p.republish = o.republish /\ p.index = o.index /\ p.publishing = o.publishing
      /\ p.queue = o.queue
  BY <1>3 DEF Om
<1>10. Grows(o, p) /\ Publishes(o, p)
  <2>1. \A d \in Devices : Len(o.out[d]) \in Nat
    BY DEF Om
  <2>2. Grows(o, p)
    <3>1. o.attempted \subseteq Devices
      BY DEF Om
    <3> HIDE DEF p
    <3> QED BY <1>9, <1>0, <2>1, <3>1 DEF Grows
  <2>3. Publishes(o, p)
    BY <1>0, PublishesSame
  <2> QED BY <2>2, <2>3
<1>11. KeysInv(o) => KeysInv(p)
  <2> SUFFICES ASSUME KeysInv(o) PROVE KeysInv(p)
    OBVIOUS
  <2>1. p.records = o.records /\ p.batch = o.batch
    BY <1>3 DEF Om
  <2>2. \A k \in Keys : k.n <= o.made => k.n <= p.made
    BY <1>4 DEF Keys, Om
  <2>3. \A d \in Devices : \A s \in p.ours[d].all : s.key # NoKey => s \in o.ours[d].all
    BY <1>5, <1>8
  <2>4. \A k \in o.records : k \in Keys
    BY DEF Om
  <2>5. \A d \in Devices : \A s \in o.ours[d].all : s.key \in Keys
    BY DEF Om, Stores, Sessions
  <2>6. \A k \in p.records : k # NoKey /\ k.batch <= p.batch /\ k.n <= p.made
    BY <2>1, <2>2, <2>4 DEF KeysInv
  <2>7. \A d \in Devices : \A s \in p.ours[d].all :
           s.key # NoKey => s.key \notin p.records /\ s.key.batch <= p.batch /\ s.key.n <= p.made
    BY <2>1, <2>2, <2>3, <2>5 DEF KeysInv
  <2>8. ASSUME NEW d \in Devices, NEW e \in Devices, NEW s \in p.ours[d].all,
               NEW t \in p.ours[e].all, s # t, s.key # NoKey
        PROVE  s.key # t.key
    BY <2>3, <2>8 DEF KeysInv
  <2> QED BY <2>6, <2>7, <2>8 DEF KeysInv
<1>12. Easy(o) => Easy(p)
  <2>1. Easy(o) => Easy(i)
    BY <1>1 DEF Step, Keeps
  <2> QED BY <2>1, <1>1, <1>3, <1>4 DEF Easy, Om
<1>13. Awaited(o) => Awaited(p)
  BY <1>0, AwaitedSame
<1> QED BY <1>3, <1>7, <1>9, <1>10, <1>11, <1>12, <1>13 DEF Step, Keeps

\* The bundle that is sent is the index.
LEMMA PublishBundleStep ==
    ASSUME OmemoTypes, NEW o \in Om
    PROVE  LET p == PublishBundle(o)
           IN  /\ Step(o, p) /\ p.publishing = p.index
               /\ \A f \in DOMAIN o \ {"records", "index", "batch", "publishing"} : p[f] = o[f]
<1> DEFINE p == PublishBundle(o)
           new == Batch(o.batch + 1, o.made)
<1>1. \A f \in DOMAIN o \ {"records", "index", "batch", "publishing"} : p[f] = o[f]
  BY DEF PublishBundle, EnsurePrekeys, Rotate, Om
<1>2. /\ p.listed = o.listed /\ p.transports = o.transports /\ p.asked = o.asked
      /\ p.attempted = o.attempted /\ p.postponed = o.postponed /\ p.ours = o.ours
      /\ p.out = o.out /\ p.republish = o.republish /\ p.made = o.made /\ p.queue = o.queue
      /\ p.trust = o.trust /\ p.failed = o.failed /\ p.fetching = o.fetching
      /\ p.missing = o.missing
  BY <1>1 DEF Om
<1>3. p.publishing = p.index
  BY DEF PublishBundle, EnsurePrekeys, Rotate, Om
<1>4. \/ p.records = o.records /\ p.index = o.index /\ p.batch = o.batch
      \/ p.records = o.records \cup new /\ p.index = new /\ p.batch = o.batch + 1
  BY DEF PublishBundle, EnsurePrekeys, Rotate, Om
<1>5. o.batch \in Nat /\ o.made \in Nat
  BY DEF Om
<1>6. \A k \in new : k \in Keys /\ k.batch = o.batch + 1 /\ k.n = o.made
  BY <1>5 DEF Batch, Key, Keys
<1>7. new # {}
  BY PlacesAssumption DEF Batch
<1>8. p \in Om
  <2>1. p.records \in SUBSET Keys /\ p.index \in SUBSET Keys /\ p.batch \in Nat
    BY <1>4, <1>5, <1>6 DEF Om
  <2> QED BY <1>1, <1>3, <2>1 DEF Om, PublishBundle, EnsurePrekeys, Rotate
<1>9. Grows(o, p)
  BY <1>2, GrowsSame
<1>10. Publishes(o, p)
  BY <1>2, <1>3, <1>4, <1>7 DEF Publishes
<1>11. KeysInv(o) => KeysInv(p)
  <2> SUFFICES ASSUME KeysInv(o), p.records = o.records \cup new, p.batch = o.batch + 1
               PROVE  KeysInv(p)
    BY <1>2, <1>4, KeysSame
  <2>1. \A k \in p.records : k # NoKey /\ k.batch <= p.batch /\ k.n <= p.made
    <3> SUFFICES ASSUME NEW k \in p.records PROVE k # NoKey /\ k.batch <= p.batch /\ k.n <= p.made
      OBVIOUS
    <3>1. CASE k \in o.records
      <4>1. k \in Keys
        BY <3>1 DEF Om
      <4>2. k.batch \in Nat /\ k # NoKey /\ k.batch <= o.batch /\ k.n <= o.made
        BY <3>1, <4>1 DEF KeysInv, Keys
      <4> QED BY <4>2, <1>2, <1>5
    <3>2. CASE k \in new
      BY <3>2, <1>2, <1>5, <1>6 DEF NoKey
    <3> QED BY <3>1, <3>2
  <2>2. ASSUME NEW d \in Devices, NEW s \in p.ours[d].all, s.key # NoKey
        PROVE  s.key \notin p.records /\ s.key.batch <= p.batch /\ s.key.n <= p.made
    <3>1. s \in o.ours[d].all /\ s.key \in Keys
      BY <1>2 DEF Om, Stores, Sessions
    <3>2. s.key.batch \in Nat /\ s.key \notin o.records /\ s.key.batch <= o.batch
          /\ s.key.n <= o.made
      BY <2>2, <3>1 DEF KeysInv, Keys
    <3>3. s.key \notin new
      BY <3>2, <1>5, <1>6
    <3> QED BY <3>2, <3>3, <1>2, <1>5
  <2>3. \A d, e \in Devices : \A s \in p.ours[d].all, t \in p.ours[e].all :
           s # t /\ s.key # NoKey => s.key # t.key
    BY <1>2 DEF KeysInv
  <2> QED BY <2>1, <2>2, <2>3 DEF KeysInv
<1>12. (Easy(o) => Easy(p)) /\ (Awaited(o) => Awaited(p))
  BY <1>2, EasySame, AwaitedSame
<1> QED BY <1>1, <1>3, <1>8, <1>9, <1>10, <1>11, <1>12 DEF Step, Keeps

LEMMA WithPrekeysStep ==
    ASSUME OmemoTypes, NEW o \in Om
    PROVE  LET p == WithPrekeys(o)
           IN  /\ Step(o, p) /\ p.queue = o.queue /\ p.trust = o.trust /\ p.failed = o.failed
               /\ p.ours = o.ours
<1>1. PublishBundle(o).queue = o.queue /\ PublishBundle(o).trust = o.trust
      /\ PublishBundle(o).failed = o.failed /\ PublishBundle(o).ours = o.ours
  BY PublishBundleStep DEF Om
<1> QED BY <1>1, PublishBundleStep, StepSame DEF WithPrekeys

LEMMA RequestDevicelistStep ==
    ASSUME NEW o \in Om
    PROVE  LET p == RequestDevicelist(o)
           IN  /\ Step(o, p) /\ (Easy(o) => Awaited(p))
               /\ \A f \in DOMAIN o \ {"missing", "asked"} : p[f] = o[f]
<1> DEFINE p == RequestDevicelist(o)
<1>1. \A f \in DOMAIN o \ {"missing", "asked"} : p[f] = o[f]
  BY DEF RequestDevicelist, Om
<1>2. /\ p.listed = o.listed /\ p.transports = o.transports
      /\ p.attempted = o.attempted /\ p.postponed = o.postponed /\ p.ours = o.ours
      /\ p.out = o.out /\ p.republish = o.republish /\ p.made = o.made /\ p.queue = o.queue
      /\ p.trust = o.trust /\ p.failed = o.failed /\ p.fetching = o.fetching
      /\ p.index = o.index /\ p.publishing = o.publishing /\ p.records = o.records
      /\ p.batch = o.batch
  BY <1>1 DEF Om
<1>3. \/ o.missing /\ p = o
      \/ ~o.missing /\ p.missing /\ p.asked = o.asked \cup {NoList}
  BY DEF RequestDevicelist, Om
<1>4. p \in Om
  BY DEF RequestDevicelist, Om
<1>5. Grows(o, p)
  <2>1. \A d \in Devices : Len(o.out[d]) \in Nat
    BY DEF Om
  <2> QED BY <1>2, <1>3, <2>1 DEF Grows, HasSession
<1>6. Publishes(o, p)
  BY <1>2, PublishesSame
<1>7. KeysInv(o) => KeysInv(p)
  BY <1>2, KeysSame
<1>8. Easy(o) => Easy(p) /\ Awaited(p)
  BY <1>2, <1>3 DEF Easy, Awaited
<1> QED BY <1>1, <1>4, <1>5, <1>6, <1>7, <1>8 DEF Step, Keeps

LEMMA RequestBundlesStep ==
    ASSUME NEW o \in Om, NEW ds \in SUBSET Devices
    PROVE  LET p == RequestBundles(o, ds)
           IN  /\ Step(o, p)
               /\ \A f \in DOMAIN o \ {"fetching", "asked"} : p[f] = o[f]
               /\ o.traffic => ds \subseteq p.fetching /\ ds \ o.fetching \subseteq p.asked
<1> DEFINE p == RequestBundles(o, ds)
<1>1. \A f \in DOMAIN o \ {"fetching", "asked"} : p[f] = o[f]
  BY DEF RequestBundles, Om
<1>2. /\ p.listed = o.listed /\ p.transports = o.transports
      /\ p.attempted = o.attempted /\ p.postponed = o.postponed /\ p.ours = o.ours
      /\ p.out = o.out /\ p.republish = o.republish /\ p.made = o.made /\ p.queue = o.queue
      /\ p.trust = o.trust /\ p.failed = o.failed /\ p.missing = o.missing
      /\ p.index = o.index /\ p.publishing = o.publishing /\ p.records = o.records
      /\ p.batch = o.batch
  BY <1>1 DEF Om
<1>3. \/ ~o.traffic /\ p = o
      \/ o.traffic /\ p.fetching = o.fetching \cup ds /\ p.asked = o.asked \cup (ds \ o.fetching)
  BY DEF RequestBundles, Om
<1>4. p \in Om
  BY DEF RequestBundles, Om
<1>5. Grows(o, p)
  <2>1. \A d \in Devices : Len(o.out[d]) \in Nat
    BY DEF Om
  <2> QED BY <1>2, <1>3, <2>1 DEF Grows, HasSession
<1>6. Publishes(o, p)
  BY <1>2, PublishesSame
<1>7. KeysInv(o) => KeysInv(p)
  BY <1>2, KeysSame
<1>8. (Easy(o) => Easy(p)) /\ (Awaited(o) => Awaited(p))
  BY <1>2, <1>3 DEF Easy, Awaited
<1> QED BY <1>1, <1>3, <1>4, <1>5, <1>6, <1>7, <1>8 DEF Step, Keeps

\* Stanzas are added to what is on its way.
LEMMA SendToStep ==
    ASSUME NEW o \in Om, NEW ds \in SUBSET Devices, NEW n \in Nat, NEW payload \in BOOLEAN
    PROVE  LET p == SendTo(o, ds, n, payload)
           IN  /\ Step(o, p)
               /\ \A f \in DOMAIN o \ {"out"} : p[f] = o[f]
               /\ \A d \in ds : Len(p.out[d]) = Len(o.out[d]) + n
<1> DEFINE p == SendTo(o, ds, n, payload)
           more(d) == [i \in 1..n |-> Sealed(o, d, payload)]
<1>1. \A f \in DOMAIN o \ {"out"} : p[f] = o[f]
  BY DEF SendTo, Om
<1>2. /\ p.listed = o.listed /\ p.transports = o.transports /\ p.asked = o.asked
      /\ p.attempted = o.attempted /\ p.postponed = o.postponed /\ p.ours = o.ours
      /\ p.republish = o.republish /\ p.made = o.made /\ p.queue = o.queue
      /\ p.trust = o.trust /\ p.failed = o.failed /\ p.missing = o.missing
      /\ p.index = o.index /\ p.publishing = o.publishing /\ p.records = o.records
      /\ p.batch = o.batch /\ p.fetching = o.fetching
  BY <1>1 DEF Om
<1>3. p.out = [d \in Devices |-> IF d \in ds THEN o.out[d] \o more(d) ELSE o.out[d]]
  BY DEF SendTo, Om
<1>4. \A d \in Devices : more(d) \in Seq(Stanza) /\ Len(more(d)) = n
  <2> TAKE d \in Devices
  <2>1. Sealed(o, d, payload) \in Stanza
    BY DEF Sealed, Stanza, Om, Stores
  <2> QED BY <2>1
<1>5. \A d \in Devices : o.out[d] \in Seq(Stanza)
  BY DEF Om
<1>6. \A d \in Devices : /\ p.out[d] \in Seq(Stanza) /\ Len(p.out[d]) >= Len(o.out[d])
                         /\ d \in ds => Len(p.out[d]) = Len(o.out[d]) + n
  <2> TAKE d \in Devices
  <2>1. CASE d \in ds
    <3>1. p.out[d] = o.out[d] \o more(d)
      BY <1>3, <2>1
    <3>2. more(d) \in Seq(Stanza) /\ Len(more(d)) = n /\ o.out[d] \in Seq(Stanza)
      BY <1>4, <1>5
    <3> HIDE DEF more, p
    <3>3. o.out[d] \o more(d) \in Seq(Stanza) /\ Len(o.out[d] \o more(d)) = Len(o.out[d]) + n
      BY <3>2
    <3>4. Len(o.out[d]) \in Nat
      BY <3>2
    <3> QED BY <3>1, <3>3, <3>4
  <2>2. CASE d \notin ds
    <3>1. p.out[d] = o.out[d]
      BY <1>3, <2>2
    <3> QED BY <1>5, <2>2, <3>1
  <2> QED BY <2>1, <2>2
<1>7. p \in Om
  <2>1. p.out \in [Devices -> Seq(Stanza)]
    BY <1>3, <1>6
  <2> QED BY <1>1, <2>1 DEF Om, SendTo
<1>8. Grows(o, p)
  <2>1. \A d \in Devices : Len(o.out[d]) <= Len(p.out[d])
    <3> HIDE DEF p
    <3> QED BY <1>5, <1>6
  <2> QED BY <1>2, <2>1 DEF Grows, HasSession
<1>9. Publishes(o, p)
  BY <1>2, PublishesSame
<1>10. KeysInv(o) => KeysInv(p)
  BY <1>2, KeysSame
<1>11. (Easy(o) => Easy(p)) /\ (Awaited(o) => Awaited(p))
  BY <1>2, EasySame, AwaitedSame
<1> QED BY <1>1, <1>6, <1>7, <1>8, <1>9, <1>10, <1>11 DEF Step, Keeps

LEMMA SendKeyTransportsStep ==
    ASSUME NEW o \in Om, NEW ds \in SUBSET Devices
    PROVE  LET p == SendKeyTransports(o, ds)
           IN  /\ Step(o, p)
               /\ \A f \in DOMAIN o \ {"out"} : p[f] = o[f]
               /\ \A d \in ds : HasSession(o, d) => Len(p.out[d]) = Len(o.out[d]) + 1
<1> DEFINE with == {d \in ds : HasSession(o, d)}
<1>1. with \in SUBSET Devices /\ 1 \in Nat /\ FALSE \in BOOLEAN
  OBVIOUS
<1> HIDE DEF with
<1>2. LET p == SendTo(o, with, 1, FALSE)
      IN  /\ Step(o, p)
          /\ \A f \in DOMAIN o \ {"out"} : p[f] = o[f]
          /\ \A d \in with : Len(p.out[d]) = Len(o.out[d]) + 1
  BY <1>1, SendToStep
<1> QED BY <1>2 DEF SendKeyTransports, with

\* Marks, which are only ever set, but for those of failed bundles.
MarkFields == {"transports", "attempted", "postponed", "failed", "traffic", "replied",
               "heartbeat", "bundle"}

Marked(o, p) ==
    /\ \A f \in DOMAIN o \ MarkFields : p[f] = o[f]
    /\ o.transports \subseteq p.transports /\ o.attempted \subseteq p.attempted
    /\ o.postponed \subseteq p.postponed /\ p.failed \subseteq o.failed

LEMMA MarkStep ==
    ASSUME NEW o \in Om, NEW p \in Om, Marked(o, p)
    PROVE  Step(o, p)
<1>1. /\ p.listed = o.listed /\ p.asked = o.asked /\ p.ours = o.ours /\ p.out = o.out
      /\ p.republish = o.republish /\ p.index = o.index /\ p.publishing = o.publishing
      /\ p.records = o.records /\ p.batch = o.batch /\ p.made = o.made /\ p.trust = o.trust
      /\ p.fetching = o.fetching /\ p.missing = o.missing /\ p.queue = o.queue
  BY DEF Marked, MarkFields, Om
<1>2. /\ o.transports \subseteq p.transports /\ o.attempted \subseteq p.attempted
      /\ o.postponed \subseteq p.postponed /\ p.failed \subseteq o.failed
  BY DEF Marked
<1>3. Grows(o, p)
  <2>1. \A d \in Devices : Len(o.out[d]) \in Nat
    BY DEF Om
  <2> QED BY <1>1, <1>2, <2>1 DEF Grows, HasSession
<1>4. Publishes(o, p)
  BY <1>1, PublishesSame
<1>5. KeysInv(o) => KeysInv(p)
  BY <1>1, KeysSame
<1>6. (Easy(o) => Easy(p)) /\ (Awaited(o) => Awaited(p))
  BY <1>1, <1>2 DEF Easy, Awaited
<1> QED BY <1>3, <1>4, <1>5, <1>6 DEF Step, Keeps

LEMMA TrafficStep ==
    ASSUME NEW o \in Om
    PROVE  LET p == [o EXCEPT !.traffic = TRUE]
           IN  /\ Step(o, p) /\ p.traffic
               /\ \A f \in DOMAIN o \ {"traffic"} : p[f] = o[f]
<1> DEFINE p == [o EXCEPT !.traffic = TRUE]
<1>1. p \in Om /\ p.traffic /\ \A f \in DOMAIN o \ {"traffic"} : p[f] = o[f]
  BY DEF Om
<1>2. Marked(o, p)
  BY DEF Om, Marked, MarkFields
<1> HIDE DEF p
<1>3. Step(o, p)
  BY <1>1, <1>2, MarkStep
<1> QED BY <1>1, <1>3 DEF p

-------------------------------------------------------------------------------
\* Encrypting.  With nothing in the way, what cannot be encrypted for a listed device
\* waits for an answer.
LEMMA PreparedStep ==
    ASSUME NEW o \in Om
    PROVE  LET p == Prepared(o)
           IN  /\ Step(o, p) /\ p.queue = o.queue
               /\ Easy(o) /\ o.listed # {} => Encodable(p) \/ p.listed \cap p.asked # {}
<1> DEFINE lacking == {d \in Recipients(o) : ~HasSession(o, d)}
           ready == {d \in lacking : CanEstablish(o, d)}
           begun == [o EXCEPT !.traffic = TRUE]
           built == Establish(begun, ready)
           p == Prepared(o)
<1> SUFFICES /\ Step(o, p) /\ p.queue = o.queue
             /\ Easy(o) /\ o.listed # {} => Encodable(p) \/ p.listed \cap p.asked # {}
  OBVIOUS
<1>1. Recipients(o) \subseteq o.listed /\ o.listed \subseteq Devices
  BY DEF Recipients, Om
<1>2. lacking \in SUBSET Devices /\ ready \in SUBSET Devices /\ lacking \ ready \in SUBSET Devices
  BY <1>1
<1>3. p = IF o.listed = {} THEN RequestDevicelist(built)
                           ELSE RequestBundles(built, lacking \ ready)
  BY DEF Prepared
<1> HIDE DEF lacking, ready, p
<1>4. /\ Step(o, begun) /\ begun \in Om /\ begun.traffic /\ begun.queue = o.queue
      /\ \A d \in Devices : HasSession(begun, d) <=> HasSession(o, d)
  BY TrafficStep DEF Om, Step, HasSession
<1> HIDE DEF begun
<1>5. /\ Step(begun, built) /\ built \in Om
      /\ \A f \in DOMAIN begun \ {"trust", "ours", "made"} : built[f] = begun[f]
      /\ \A d \in Devices : HasSession(built, d) <=> HasSession(begun, d) \/ d \in ready
  BY <1>2, <1>4, EstablishStep DEF Step
<1>6. built.traffic /\ built.queue = o.queue
  BY <1>4, <1>5 DEF Om
<1> HIDE DEF built
<1>7. Step(o, built)
  BY <1>4, <1>5, StepTrans
<1>8. CASE o.listed = {}
  <2>1. Step(built, p) /\ p.queue = built.queue
    <3>1. Step(built, p) /\ \A f \in DOMAIN built \ {"missing", "asked"} : p[f] = built[f]
      BY <1>3, <1>5, <1>8, RequestDevicelistStep
    <3> QED BY <1>5, <3>1 DEF Om
  <2> QED BY <1>6, <1>7, <1>8, <2>1, StepTrans
<1>9. CASE o.listed # {}
  <2>1. /\ Step(built, p) /\ p.queue = built.queue /\ p.ours = built.ours
        /\ lacking \ ready \subseteq p.fetching
    <3>1. /\ Step(built, p) /\ \A f \in DOMAIN built \ {"fetching", "asked"} : p[f] = built[f]
          /\ lacking \ ready \subseteq p.fetching
      BY <1>2, <1>3, <1>5, <1>6, <1>9, RequestBundlesStep
    <3> QED BY <1>5, <3>1 DEF Om
  <2>2. Step(o, p)
    BY <1>7, <2>1, StepTrans
  <2>3. ASSUME Easy(o), ~Encodable(p) PROVE p.listed \cap p.asked # {}
    <3>1. Easy(p) /\ p.listed = o.listed /\ p \in Om
      BY <2>2, <2>3 DEF Step, Keeps, Grows
    <3>2. Recipients(p) = o.listed /\ Recipients(o) = o.listed
      BY <1>1, <2>3, <3>1 DEF Easy, Recipients
    <3>3. PICK d \in o.listed : ~HasSession(p, d)
      BY <1>9, <2>3, <3>1, <3>2 DEF Encodable
    <3>4. d \in Devices /\ ~HasSession(built, d)
      BY <1>1, <2>1, <3>3 DEF HasSession
    <3>5. d \in lacking \ ready
      BY <1>4, <1>5, <3>2, <3>3, <3>4 DEF lacking
    <3> QED BY <2>1, <3>1, <3>3, <3>5 DEF Easy
  <2> QED BY <1>6, <2>1, <2>2, <2>3
<1> QED BY <1>8, <1>9

\* A message that cannot be encrypted waits for the list.
LEMMA SendMessageStep ==
    ASSUME OmemoTypes, NEW o \in Om
    PROVE  Step(o, SendMessage(o))
<1> DEFINE w == WithPrekeys(o)
           p == Prepared(w)
           queued == [p EXCEPT !.queue = @ + 1]
<1>1. Step(o, w) /\ w \in Om
  BY WithPrekeysStep DEF Step
<1> HIDE DEF w
<1>2. Step(o, p) /\ p \in Om
  <2>1. Step(w, p)
    BY <1>1, PreparedStep
  <2> QED BY <1>1, <2>1, StepTrans DEF Step
<1>3. SendMessage(o) = IF Encodable(p) THEN SendTo(p, Recipients(p), 1, TRUE)
                                       ELSE RequestDevicelist(queued)
  BY DEF SendMessage, w
<1> HIDE DEF p
<1>4. Step(p, SendTo(p, Recipients(p), 1, TRUE))
  <2>1. Recipients(p) \in SUBSET Devices /\ 1 \in Nat /\ TRUE \in BOOLEAN
    BY <1>2 DEF Recipients, Om
  <2> HIDE DEF p
  <2> QED BY <1>2, <2>1, SendToStep
<1>5. Step(p, RequestDevicelist(queued))
  <2>1. queued \in Om
    <3>1. p.queue + 1 \in Nat
      BY <1>2 DEF Om
    <3> QED BY <1>2, <3>1 DEF Om
  <2>2. /\ queued.listed = p.listed /\ queued.transports = p.transports
        /\ queued.asked = p.asked /\ queued.attempted = p.attempted
        /\ queued.postponed = p.postponed /\ queued.ours = p.ours
        /\ queued.republish = p.republish /\ queued.made = p.made
        /\ queued.trust = p.trust /\ queued.failed = p.failed /\ queued.missing = p.missing
        /\ queued.index = p.index /\ queued.publishing = p.publishing
        /\ queued.records = p.records /\ queued.batch = p.batch
        /\ queued.fetching = p.fetching /\ queued.out = p.out
    BY <1>2 DEF Om
  <2> HIDE DEF queued
  <2>3. Grows(p, queued) /\ Publishes(p, queued)
    BY <1>2, <2>2, GrowsSame, PublishesSame
  <2>4. (KeysInv(p) => KeysInv(queued)) /\ (Easy(p) => Easy(queued))
    BY <2>2, KeysSame, EasySame
  <2> DEFINE q == RequestDevicelist(queued)
  <2>5. Step(queued, q) /\ (Easy(queued) => Awaited(q))
    BY <2>1, RequestDevicelistStep
  <2> HIDE DEF q
  <2>6. q \in Om /\ Grows(queued, q) /\ Publishes(queued, q)
        /\ (KeysInv(queued) => KeysInv(q)) /\ (Easy(queued) => Easy(q))
    BY <2>5 DEF Step, Keeps
  <2>7. Grows(p, q)
    <3>1. \A d \in Devices : Len(p.out[d]) \in Nat /\ Len(queued.out[d]) \in Nat
                             /\ Len(q.out[d]) \in Nat
      BY <1>2, <2>1, <2>6 DEF Om
    <3> QED BY <2>3, <2>6, <3>1 DEF Grows
  <2>8. Publishes(p, q)
    BY <2>3, <2>6 DEF Publishes
  <2>9. Keeps(p, q)
    BY <2>4, <2>5, <2>6 DEF Keeps
  <2> QED BY <2>6, <2>7, <2>8, <2>9 DEF Step, q
<1> QED BY <1>2, <1>3, <1>4, <1>5, StepTrans

\* The queue is sent, or a listed device is asked.
LEMMA FlushStep ==
    ASSUME OmemoTypes, NEW o \in Om
    PROVE  LET p == Flush(o)
           IN  /\ Step(o, p)
               /\ Easy(o) /\ o.listed # {} => Awaited(p)
<1>1. CASE o.queue = 0
  BY <1>1, StepSame DEF Flush, Awaited
<1>2. CASE o.queue # 0
  <2> DEFINE w == WithPrekeys(o)
             p == Prepared(w)
             empty == [p EXCEPT !.queue = 0]
             sent == SendTo(empty, Recipients(p), o.queue, TRUE)
  <2>1. Step(o, w) /\ w \in Om
    BY WithPrekeysStep DEF Step
  <2> HIDE DEF w
  <2>2. Step(w, p) /\ (Easy(w) /\ w.listed # {} => Encodable(p) \/ p.listed \cap p.asked # {})
    BY <2>1, PreparedStep
  <2>3. Step(o, p) /\ p \in Om
    BY <2>1, <2>2, StepTrans DEF Step
  <2>4. Flush(o) = IF Encodable(p) THEN sent ELSE p
    BY <1>2 DEF Flush, w
  <2> HIDE DEF p
  <2>5. empty \in Om
    BY <2>3 DEF Om
  <2>6. Step(p, empty) /\ empty.queue = 0
    <3>1. /\ empty.listed = p.listed /\ empty.transports = p.transports
          /\ empty.asked = p.asked /\ empty.attempted = p.attempted
          /\ empty.postponed = p.postponed /\ empty.ours = p.ours
          /\ empty.republish = p.republish /\ empty.made = p.made
          /\ empty.trust = p.trust /\ empty.failed = p.failed /\ empty.missing = p.missing
          /\ empty.index = p.index /\ empty.publishing = p.publishing
          /\ empty.records = p.records /\ empty.batch = p.batch
          /\ empty.fetching = p.fetching /\ empty.out = p.out /\ empty.queue = 0
      BY <2>3 DEF Om
    <3> HIDE DEF empty
    <3>2. Grows(p, empty) /\ Publishes(p, empty)
      BY <2>3, <3>1, GrowsSame, PublishesSame
    <3>3. (KeysInv(p) => KeysInv(empty)) /\ (Easy(p) => Easy(empty)) /\ Awaited(empty)
      BY <3>1, KeysSame, EasySame DEF Awaited
    <3> QED BY <2>5, <3>1, <3>2, <3>3 DEF Step, Keeps
  <2> HIDE DEF empty
  <2>7. Step(empty, sent) /\ sent.queue = 0
    <3>1. Recipients(p) \in SUBSET Devices /\ o.queue \in Nat /\ TRUE \in BOOLEAN
      BY <2>3 DEF Recipients, Om
    <3>2. Step(empty, sent) /\ \A f \in DOMAIN empty \ {"out"} : sent[f] = empty[f]
      BY <2>5, <3>1, SendToStep
    <3> QED BY <2>5, <2>6, <3>2 DEF Om
  <2> HIDE DEF sent
  <2>8. Step(o, sent)
    BY <2>3, <2>5, <2>6, <2>7, StepTrans
  <2>9. Easy(o) /\ o.listed # {} => Easy(w) /\ w.listed # {}
    BY <2>1 DEF Step, Keeps, Grows
  <2> QED BY <2>2, <2>3, <2>4, <2>7, <2>8, <2>9 DEF Awaited
<1> QED BY <1>1, <1>2

\* /omemo kex.
LEMMA KexStep ==
    ASSUME NEW o \in Om, NEW ds \in SUBSET Devices
    PROVE  Step(o, Kex(o, ds))
<1> DEFINE a == [o EXCEPT !.failed = @ \ ds]
           some == {d \in ds : ~HasSession(a, d) /\ CanEstablish(a, d)}
           b == Establish(a, some)
           without == {d \in ds : ~HasSession(b, d)}
           c == SendKeyTransports(b, ds)
           e == [c EXCEPT !.transports = @ \cup without]
<1>1. Step(o, a) /\ a \in Om
  <2>1. a \in Om
    BY DEF Om
  <2>2. Marked(o, a)
    BY DEF Om, Marked, MarkFields
  <2> HIDE DEF a
  <2> QED BY <2>1, <2>2, MarkStep
<1>2. some \in SUBSET Devices /\ without \in SUBSET Devices
  OBVIOUS
<1>3. Kex(o, ds) = RequestBundles(e, without)
  BY DEF Kex
<1> HIDE DEF a, some, without
<1>4. Step(a, b) /\ b \in Om
  BY <1>1, <1>2, EstablishStep DEF Step
<1> HIDE DEF b
<1>5. Step(b, c) /\ c \in Om
  BY <1>4, SendKeyTransportsStep DEF Step
<1> HIDE DEF c
<1>6. Step(c, e) /\ e \in Om
  <2>1. e \in Om
    BY <1>2, <1>5 DEF Om
  <2>2. Marked(c, e)
    BY <1>5 DEF Om, Marked, MarkFields
  <2> HIDE DEF e
  <2> QED BY <1>5, <2>1, <2>2, MarkStep
<1> HIDE DEF e
<1>7. Step(e, Kex(o, ds))
  BY <1>2, <1>3, <1>6, RequestBundlesStep
<1>8. Step(o, b)
  BY <1>1, <1>4, StepTrans
<1>9. Step(o, c)
  BY <1>5, <1>8, StepTrans
<1>10. Step(o, e)
  BY <1>6, <1>9, StepTrans
<1> QED BY <1>7, <1>10, StepTrans

-------------------------------------------------------------------------------
\* Messages of the contact.

\* The session of a message is known, or the record of its prekey is used up.
LEMMA OpenedStep ==
    ASSUME NEW o \in Om, NEW m \in Message, Decrypts(o, m)
    PROVE  Step(o, Opened(o, m))
<1> DEFINE a == IF m.prekey THEN SaveIdentities(o, {m.dev}) ELSE o
           p == Opened(o, m)
<1>1. m.dev \in Devices /\ m.ses \in Sessions /\ m.prekey \in BOOLEAN /\ m.ses.key \in Keys
  BY DEF Message, Sessions
<1>2. Step(o, a) /\ \A f \in DOMAIN o \ {"trust"} : a[f] = o[f]
  <2>1. {m.dev} \in SUBSET Devices
    BY <1>1
  <2>2. PICK ds \in SUBSET Devices : ds = {m.dev}
    BY <2>1
  <2> QED BY <2>2, SaveIdentitiesStep, StepSame
<1>3. a \in Om
  BY <1>2 DEF Step
<1>4. p = [a EXCEPT !.ours[m.dev] = Promoted(@, m.ses),
                    !.records = IF m.prekey THEN @ \ {m.ses.key} ELSE @]
  BY DEF Opened
<1> HIDE DEF a, p
<1>5. /\ a.listed = o.listed /\ a.asked = o.asked /\ a.ours = o.ours /\ a.out = o.out
      /\ a.republish = o.republish /\ a.index = o.index /\ a.publishing = o.publishing
      /\ a.records = o.records /\ a.batch = o.batch /\ a.made = o.made
  BY <1>2 DEF Om
<1>6. /\ p.listed = a.listed /\ p.asked = a.asked /\ p.out = a.out
      /\ p.republish = a.republish /\ p.index = a.index /\ p.publishing = a.publishing
      /\ p.batch = a.batch /\ p.made = a.made /\ p.trust = a.trust
      /\ p.failed = a.failed /\ p.fetching = a.fetching /\ p.missing = a.missing
      /\ p.queue = a.queue /\ p.transports = a.transports
      /\ p.attempted = a.attempted /\ p.postponed = a.postponed
      /\ p.ours = [a.ours EXCEPT ![m.dev] = Promoted(@, m.ses)]
      /\ p.records = IF m.prekey THEN a.records \ {m.ses.key} ELSE a.records
  BY <1>3, <1>4 DEF Om
<1>7. p \in Om
  <2>1. p.ours \in [Devices -> Stores]
    BY <1>1, <1>3, <1>6 DEF Om, Stores, Promoted
  <2>2. p.records \in SUBSET Keys
    BY <1>3, <1>6 DEF Om
  <2> QED BY <1>3, <1>4, <2>1, <2>2 DEF Om
<1>8. \A d \in Devices : p.ours[d].all = IF d = m.dev THEN o.ours[d].all \cup {m.ses}
                                                      ELSE o.ours[d].all
  <2>1. a.ours \in [Devices -> Stores]
    BY <1>3 DEF Om
  <2>2. \A d \in Devices : p.ours[d] = IF d = m.dev THEN Promoted(a.ours[d], m.ses) ELSE a.ours[d]
    BY ONLY <2>1, <1>1, <1>6
  <2>3. \A q : Promoted(q, m.ses).all = q.all \cup {m.ses}
    BY DEF Promoted
  <2>4. a.ours = o.ours
    BY <1>5
  <2> QED BY ONLY <2>2, <2>3, <2>4
<1>9. Grows(a, p)
  <2>1. \A d \in Devices : Len(a.out[d]) \in Nat /\ (HasSession(a, d) => HasSession(p, d))
    <3>1. \A d \in Devices : Len(a.out[d]) \in Nat
      BY <1>3 DEF Om
    <3>2. \A d \in Devices : HasSession(a, d) => HasSession(p, d)
      BY <1>5, <1>8 DEF HasSession
    <3> QED BY <3>1, <3>2
  <2>2. a.attempted \subseteq Devices
    BY <1>3 DEF Om
  <2> QED BY <1>6, <2>1, <2>2 DEF Grows
<1>10. Publishes(a, p)
  BY <1>6, PublishesSame
<1>11. (Easy(a) => Easy(p)) /\ (Awaited(a) => Awaited(p))
  BY <1>6, EasySame, AwaitedSame
<1>12. ASSUME KeysInv(a) PROVE KeysInv(p)
  <2> USE <1>12
  <2>1. KeysInv(o)
    BY <1>5 DEF KeysInv
  <2>2. p.records \subseteq o.records /\ p.batch = o.batch /\ p.made = o.made
    BY <1>5, <1>6
  <2>3. CASE m.ses \in o.ours[m.dev].all
    <3>1. \A d \in Devices : p.ours[d].all = o.ours[d].all
      BY <1>8, <2>3
    <3> QED BY ONLY <2>1, <2>2, <3>1 DEF KeysInv
  <2>4. CASE m.ses \notin o.ours[m.dev].all
    <3>1. m.ses.key \in o.records /\ m.ses.key \notin p.records
      BY <1>5, <1>6, <2>4 DEF Decrypts
    <3>2. m.ses.key.batch <= p.batch /\ m.ses.key.n <= p.made
      BY <2>1, <2>2, <3>1 DEF KeysInv
    <3>3. \A d \in Devices : \A s \in o.ours[d].all : s.key # m.ses.key
      BY <2>1, <3>1 DEF KeysInv
    <3>4. \A d \in Devices : \A s \in p.ours[d].all :
             s = m.ses \/ s \in o.ours[d].all
      BY <1>8
    <3>5. \A k \in p.records : k # NoKey /\ k.batch <= p.batch /\ k.n <= p.made
      BY <2>1, <2>2 DEF KeysInv
    <3>6. \A d \in Devices : \A s \in p.ours[d].all : s.key # NoKey =>
             s.key \notin p.records /\ s.key.batch <= p.batch /\ s.key.n <= p.made
      BY <2>1, <2>2, <3>1, <3>2, <3>4 DEF KeysInv
    <3>7. ASSUME NEW d \in Devices, NEW e \in Devices, NEW s \in p.ours[d].all,
                 NEW t \in p.ours[e].all, s # t, s.key # NoKey
          PROVE  s.key # t.key
      BY <2>1, <3>3, <3>4, <3>7 DEF KeysInv
    <3> QED BY <3>5, <3>6, <3>7 DEF KeysInv
  <2> QED BY <2>3, <2>4
<1>13. Step(a, p)
  BY <1>7, <1>9, <1>10, <1>11, <1>12 DEF Step, Keeps
<1> QED BY <1>2, <1>3, <1>13, StepTrans DEF p

\* The place of a used prekey is taken by a key with a number of its own.
LEMMA ReplaceUsedPrekeyKeeps ==
    ASSUME NEW o \in Om, NEW key \in Keys, KeysInv(o) => key.batch <= o.batch
    PROVE  LET p == ReplaceUsedPrekey(o, key)
           IN  /\ p \in Om /\ Grows(o, p) /\ Keeps(o, p)
               /\ p.index # {} /\ p.republish = o.republish
<1> DEFINE new == Key(key.batch, key.place, o.made + 1)
           p == ReplaceUsedPrekey(o, key)
<1>1. o.made \in Nat /\ new \in Keys /\ new.batch = key.batch /\ new.n = o.made + 1
  BY DEF Key, Keys, Om
<1>2. p = [o EXCEPT !.records = Renewed(@, key, new), !.index = Renewed(@, key, new),
                    !.made = @ + 1]
  BY DEF ReplaceUsedPrekey
<1> HIDE DEF new, p
<1>3. /\ p.listed = o.listed /\ p.asked = o.asked /\ p.out = o.out
      /\ p.republish = o.republish /\ p.publishing = o.publishing
      /\ p.batch = o.batch /\ p.made = o.made + 1 /\ p.trust = o.trust
      /\ p.failed = o.failed /\ p.fetching = o.fetching /\ p.missing = o.missing
      /\ p.queue = o.queue /\ p.transports = o.transports
      /\ p.attempted = o.attempted /\ p.postponed = o.postponed /\ p.ours = o.ours
      /\ p.index = Renewed(o.index, key, new) /\ p.records = Renewed(o.records, key, new)
  BY <1>2 DEF Om
<1>4. p.index \in SUBSET Keys /\ p.records \in SUBSET Keys /\ p.made \in Nat /\ p.index # {}
  BY <1>1, <1>3 DEF Om, Renewed
<1>5. p \in Om
  BY <1>2, <1>4 DEF Om
<1>6. Grows(o, p)
  BY <1>3, GrowsSame
<1>7. (Easy(o) => Easy(p)) /\ (Awaited(o) => Awaited(p))
  BY <1>3, EasySame, AwaitedSame
<1>8. ASSUME KeysInv(o) PROVE KeysInv(p)
  <2> USE <1>8
  <2>1. new # NoKey /\ new.batch <= p.batch /\ new.n <= p.made
    BY <1>1, <1>3 DEF NoKey
  <2>2. p.records \subseteq o.records \cup {new}
    BY <1>3 DEF Renewed
  <2>3. \A k \in Keys : k.n <= o.made => k.n <= p.made /\ k # new
    BY <1>1, <1>3 DEF Keys
  <2>4. o.records \subseteq Keys /\ \A d \in Devices : \A s \in o.ours[d].all : s.key \in Keys
    BY DEF Om, Stores, Sessions
  <2>5. \A k \in p.records : k # NoKey /\ k.batch <= p.batch /\ k.n <= p.made
    BY <1>3, <2>1, <2>2, <2>3, <2>4 DEF KeysInv
  <2>6. \A d \in Devices : \A s \in p.ours[d].all : s.key # NoKey =>
           s.key \notin p.records /\ s.key.batch <= p.batch /\ s.key.n <= p.made
    BY <1>3, <2>2, <2>3, <2>4 DEF KeysInv
  <2>7. \A d, e \in Devices : \A s \in p.ours[d].all, t \in p.ours[e].all :
           s # t /\ s.key # NoKey => s.key # t.key
    BY <1>3 DEF KeysInv
  <2> QED BY <2>5, <2>6, <2>7 DEF KeysInv
<1> QED BY <1>3, <1>4, <1>5, <1>6, <1>7, <1>8 DEF Keeps, p

\* Then the bundle is published, or its publication is remembered.
LEMMA PrekeyReplacedStep ==
    ASSUME OmemoTypes, NEW o \in Om, NEW m \in Message, m.ses \in o.ours[m.dev].all
    PROVE  Step(o, PrekeyReplaced(o, m))
<1> SUFFICES ASSUME m.prekey PROVE Step(o, PrekeyReplaced(o, m))
  BY StepSame DEF PrekeyReplaced
<1> DEFINE r == ReplaceUsedPrekey(o, m.ses.key)
           q == Republished(r)
<1>1. m.dev \in Devices /\ m.ses.key \in Keys
  BY DEF Message, Sessions
<1>2. KeysInv(o) => m.ses.key.batch <= o.batch
  <2>1. o.batch \in Nat
    BY DEF Om
  <2>2. m.ses.key = NoKey => m.ses.key.batch = 0
    BY DEF NoKey
  <2> QED BY <1>1, <2>1, <2>2 DEF KeysInv
<1>3. /\ r \in Om /\ Grows(o, r) /\ Keeps(o, r)
      /\ r.index # {} /\ r.republish = o.republish
  BY <1>1, <1>2, ReplaceUsedPrekeyKeeps
<1> HIDE DEF r
<1>4. q \in Om /\ Grows(r, q) /\ Keeps(r, q) /\ Publishes(o, q)
  <2>1. CASE catchup
    <3> DEFINE e == [r EXCEPT !.republish = TRUE]
    <3>1. q = e
      BY <2>1 DEF Republished
    <3>2. e \in Om /\ e.republish /\ e.index = r.index
      BY <1>3 DEF Om
    <3>3. /\ e.listed = r.listed /\ e.transports = r.transports /\ e.asked = r.asked
          /\ e.attempted = r.attempted /\ e.postponed = r.postponed /\ e.ours = r.ours
          /\ e.out = r.out /\ e.made = r.made /\ e.queue = r.queue
          /\ e.trust = r.trust /\ e.failed = r.failed /\ e.missing = r.missing
          /\ e.records = r.records /\ e.batch = r.batch /\ e.fetching = r.fetching
      BY <1>3 DEF Om
    <3> HIDE DEF e, q
    <3>4. Grows(r, e)
      BY <1>3, <3>3, GrowsSame
    <3>5. (KeysInv(r) => KeysInv(e)) /\ (Easy(r) => Easy(e)) /\ (Awaited(r) => Awaited(e))
      BY <3>3, KeysSame, EasySame, AwaitedSame
    <3>6. Publishes(o, e)
      BY <1>3, <2>1, <3>2 DEF Publishes
    <3> QED BY <3>1, <3>2, <3>4, <3>5, <3>6 DEF Keeps
  <2>2. CASE ~catchup
    <3>1. q = PublishBundle(r)
      BY <2>2 DEF Republished
    <3>2. Step(r, q) /\ q.publishing = q.index
      BY <1>3, <3>1, PublishBundleStep
    <3> HIDE DEF q
    <3> QED BY <1>3, <3>2 DEF Step, Publishes
  <2> QED BY <2>1, <2>2
<1> HIDE DEF q
<1>5. Grows(o, q)
  <2>1. \A d \in Devices : Len(o.out[d]) \in Nat /\ Len(r.out[d]) \in Nat /\ Len(q.out[d]) \in Nat
    BY <1>3, <1>4 DEF Om
  <2> QED BY <1>3, <1>4, <2>1 DEF Grows
<1>6. Keeps(o, q)
  BY <1>3, <1>4 DEF Keeps
<1>7. PrekeyReplaced(o, m) = q
  BY DEF PrekeyReplaced, q, r
<1> QED BY <1>4, <1>5, <1>6, <1>7 DEF Step

\* The same of a single device.
LEMMA OneTransport ==
    ASSUME NEW o \in Om, NEW d \in Devices
    PROVE  LET p == SendKeyTransports(o, {d})
           IN  /\ Step(o, p)
               /\ \A f \in DOMAIN o \ {"out"} : p[f] = o[f]
               /\ HasSession(o, d) => Len(p.out[d]) = Len(o.out[d]) + 1
<1>1. PICK ds \in SUBSET Devices : ds = {d}
  OBVIOUS
<1> QED BY <1>1, SendKeyTransportsStep

LEMMA OneRequest ==
    ASSUME NEW o \in Om, NEW d \in Devices
    PROVE  LET p == RequestBundles(o, {d})
           IN  /\ Step(o, p)
               /\ \A f \in DOMAIN o \ {"fetching", "asked"} : p[f] = o[f]
               /\ o.traffic /\ d \notin o.fetching => d \in p.asked
<1>1. PICK ds \in SUBSET Devices : ds = {d}
  OBVIOUS
<1> QED BY <1>1, RequestBundlesStep

LEMMA OneSession ==
    ASSUME NEW o \in Om, NEW d \in Devices
    PROVE  LET p == Establish(o, {d})
           IN  /\ Step(o, p) /\ HasSession(p, d)
               /\ \A f \in DOMAIN o \ {"trust", "ours", "made"} : p[f] = o[f]
<1>1. PICK ds \in SUBSET Devices : ds = {d}
  OBVIOUS
<1> QED BY <1>1, EstablishStep

\* A heartbeat, and the empty answer.
LEMMA AnsweredStep ==
    ASSUME NEW o \in Om, NEW m \in Message, NEW long \in BOOLEAN
    PROVE  Step(o, Answered(o, m, long))
<1> DEFINE d == m.dev
           calm == IF m.prekey THEN [o EXCEPT !.heartbeat = @ \ {d}] ELSE o
           beats == long /\ ~catchup /\ d \notin calm.heartbeat
           beating == [calm EXCEPT !.heartbeat = @ \cup {d}]
           a == IF beats THEN SendKeyTransports(beating, {d}) ELSE calm
           replying == [a EXCEPT !.replied = @ \cup {d}]
<1>1. d \in Devices
  BY DEF Message
<1>2. Answered(o, m, long) = IF m.prekey /\ ~catchup /\ d \notin o.replied
                             THEN SendKeyTransports(replying, {d}) ELSE a
  BY DEF Answered
<1> HIDE DEF d
<1>3. Step(o, calm) /\ calm \in Om
  <2>1. calm \in Om
    BY DEF Om
  <2>2. Marked(o, calm)
    BY DEF Om, Marked, MarkFields
  <2> HIDE DEF calm
  <2> QED BY <2>1, <2>2, MarkStep
<1> HIDE DEF calm
<1>4. Step(calm, beating) /\ beating \in Om
  <2>1. beating \in Om
    BY <1>1, <1>3 DEF Om
  <2>2. Marked(calm, beating)
    BY <1>3 DEF Om, Marked, MarkFields
  <2> HIDE DEF beating
  <2> QED BY <1>3, <2>1, <2>2, MarkStep
<1> HIDE DEF beating, beats
<1>5. Step(o, a) /\ a \in Om
  <2>1. Step(beating, SendKeyTransports(beating, {d}))
    BY <1>1, <1>4, OneTransport
  <2>2. Step(o, beating)
    BY <1>3, <1>4, StepTrans
  <2>3. Step(o, SendKeyTransports(beating, {d}))
    BY <1>4, <2>1, <2>2, StepTrans
  <2> QED BY <1>3, <2>3 DEF Step
<1> HIDE DEF a
<1>6. Step(a, replying) /\ replying \in Om
  <2>1. replying \in Om
    BY <1>1, <1>5 DEF Om
  <2>2. Marked(a, replying)
    BY <1>5 DEF Om, Marked, MarkFields
  <2> HIDE DEF replying
  <2> QED BY <1>5, <2>1, <2>2, MarkStep
<1> HIDE DEF replying
<1>7. Step(replying, SendKeyTransports(replying, {d}))
  BY <1>1, <1>6, OneTransport
<1>8. Step(o, replying)
  BY <1>5, <1>6, StepTrans
<1>9. Step(o, SendKeyTransports(replying, {d}))
  BY <1>6, <1>7, <1>8, StepTrans
<1> QED BY <1>2, <1>5, <1>9

LEMMA ReadStep ==
    ASSUME OmemoTypes, NEW o \in Om, NEW m \in Message, NEW long \in BOOLEAN, Decrypts(o, m)
    PROVE  Step(o, Read(o, m, long))
<1> DEFINE a == Opened(o, m)
           b == PrekeyReplaced(a, m)
<1>1. Step(o, a) /\ a \in Om
  BY OpenedStep DEF Step
<1>2. m.ses \in a.ours[m.dev].all
  <2> DEFINE i == IF m.prekey THEN SaveIdentities(o, {m.dev}) ELSE o
  <2>1. m.dev \in Devices
    BY DEF Message
  <2>2. i \in Om
    <3>1. PICK ds \in SUBSET Devices : ds = {m.dev}
      BY <2>1
    <3> QED BY <3>1, SaveIdentitiesStep DEF Step
  <2>3. a = [i EXCEPT !.ours[m.dev] = Promoted(@, m.ses),
                      !.records = IF m.prekey THEN @ \ {m.ses.key} ELSE @]
    BY DEF Opened
  <2> HIDE DEF i, a
  <2>4. a.ours = [i.ours EXCEPT ![m.dev] = Promoted(@, m.ses)]
    BY <2>2, <2>3 DEF Om
  <2>5. a.ours[m.dev] = Promoted(i.ours[m.dev], m.ses)
    BY <2>1, <2>2, <2>4 DEF Om
  <2> QED BY <2>5 DEF Promoted
<1> HIDE DEF a
<1>3. Step(a, b) /\ b \in Om
  BY <1>1, <1>2, PrekeyReplacedStep DEF Step
<1> HIDE DEF b
<1>4. Step(b, Answered(b, m, long))
  BY <1>3, AnsweredStep
<1>5. Step(o, b)
  BY <1>1, <1>3, StepTrans
<1>6. Step(o, Answered(b, m, long))
  BY <1>3, <1>4, <1>5, StepTrans
<1>7. Read(o, m, long) = IF m.payload THEN Answered(b, m, long) ELSE a
  BY DEF Read, a, b
<1> QED BY <1>1, <1>6, <1>7

-------------------------------------------------------------------------------
\* Repairs.  A device that is neither attempted nor asked is asked.

LEMMA UnaddressedStep ==
    ASSUME NEW o \in Om, NEW d \in Devices
    PROVE  LET p == Unaddressed(o, d)
           IN  /\ Step(o, p)
               /\ o.traffic /\ d \notin o.attempted \cup o.transports \cup o.fetching
                  => d \in p.transports \cap p.asked
<1> DEFINE e == [o EXCEPT !.transports = @ \cup {d}]
           p == RequestBundles(e, {d})
<1>1. CASE d \in o.attempted \cup o.transports
  BY <1>1, StepSame DEF Unaddressed
<1>2. CASE d \notin o.attempted \cup o.transports
  <2>1. Unaddressed(o, d) = p
    BY <1>2 DEF Unaddressed
  <2>2. e \in Om /\ d \in e.transports /\ e.traffic = o.traffic
    BY DEF Om
  <2>3. Marked(o, e) /\ e.fetching = o.fetching
    BY DEF Om, Marked, MarkFields
  <2> HIDE DEF e
  <2>4. Step(o, e)
    BY <2>2, <2>3, MarkStep
  <2>5. /\ Step(e, p)
        /\ e.traffic /\ d \notin e.fetching => d \in p.asked
    BY <2>2, OneRequest
  <2> HIDE DEF p
  <2>6. Step(o, p)
    BY <2>2, <2>4, <2>5, StepTrans
  <2>7. e.transports \subseteq p.transports
    BY <2>5 DEF Step, Grows
  <2> QED BY <2>1, <2>2, <2>3, <2>5, <2>6, <2>7
<1> QED BY <1>1, <1>2

LEMMA RepairLaterStep ==
    ASSUME NEW o \in Om, NEW d \in Devices
    PROVE  Step(o, RepairLater(o, d))
<1> DEFINE e == [o EXCEPT !.transports = @ \cup {d}]
<1>1. RepairLater(o, d) \in {o, e}
  BY DEF RepairLater
<1>2. e \in Om
  BY DEF Om
<1>3. Marked(o, e)
  BY DEF Om, Marked, MarkFields
<1> HIDE DEF e
<1>4. Step(o, e)
  BY <1>2, <1>3, MarkStep
<1> QED BY <1>1, <1>4, StepSame

\* The session that is dropped is one of a device not attempted before.
LEMMA RepairStep ==
    ASSUME NEW o \in Om, NEW d \in Devices
    PROVE  LET p == Repair(o, d)
           IN  /\ Step(o, p)
               /\ o.traffic /\ d \notin o.attempted \cup o.fetching
                  => d \in p.transports \cap p.asked
<1> DEFINE e == [o EXCEPT !.attempted = @ \cup {d}, !.ours[d] = NoSessions,
                          !.transports = @ \cup {d}]
           p == RequestBundles(e, {d})
<1>1. CASE d \in o.attempted
  BY <1>1, StepSame DEF Repair
<1>2. CASE d \notin o.attempted
  <2>1. Repair(o, d) = p
    BY <1>2 DEF Repair
  <2>2. NoSessions \in Stores /\ NoSessions.all = {}
    BY DEF NoSessions, NoSession, Stores, Session, Sessions, NoKey, Keys
  <2>3. /\ e.listed = o.listed /\ e.asked = o.asked /\ e.out = o.out
        /\ e.republish = o.republish /\ e.index = o.index /\ e.publishing = o.publishing
        /\ e.records = o.records /\ e.batch = o.batch /\ e.made = o.made /\ e.trust = o.trust
        /\ e.failed = o.failed /\ e.fetching = o.fetching /\ e.missing = o.missing
        /\ e.queue = o.queue /\ e.transports = o.transports \cup {d} /\ e.traffic = o.traffic
        /\ e.attempted = o.attempted \cup {d} /\ e.postponed = o.postponed
        /\ e.ours = [o.ours EXCEPT ![d] = NoSessions]
    BY DEF Om
  <2>4. e.ours \in [Devices -> Stores]
    BY <2>2, <2>3 DEF Om
  <2>5. e \in Om
    BY <2>4 DEF Om
  <2>6. \A c \in Devices : e.ours[c].all = IF c = d THEN {} ELSE o.ours[c].all
    BY <2>2, <2>3 DEF Om
  <2> HIDE DEF e
  <2>7. Grows(o, e)
    <3>1. \A c \in Devices : Len(o.out[c]) \in Nat
      BY DEF Om
    <3>2. \A c \in o.attempted : c \in Devices /\ c # d
      BY <1>2 DEF Om
    <3> QED BY <2>3, <2>6, <3>1, <3>2 DEF Grows, HasSession
  <2>8. Publishes(o, e)
    BY <2>3, PublishesSame
  <2>9. KeysInv(o) => KeysInv(e)
    <3>1. \A c \in Devices : e.ours[c].all \subseteq o.ours[c].all
      BY <2>6
    <3> QED BY <2>3, <3>1 DEF KeysInv
  <2>10. (Easy(o) => Easy(e)) /\ (Awaited(o) => Awaited(e))
    BY <2>3, EasySame, AwaitedSame
  <2>11. Step(o, e)
    BY <2>5, <2>7, <2>8, <2>9, <2>10 DEF Step, Keeps
  <2>12. /\ Step(e, p)
         /\ e.traffic /\ d \notin e.fetching => d \in p.asked
    BY <2>5, OneRequest
  <2> HIDE DEF p
  <2>13. Step(o, p)
    BY <2>5, <2>11, <2>12, StepTrans
  <2>14. e.transports \subseteq p.transports
    BY <2>12 DEF Step, Grows
  <2> QED BY <2>1, <2>3, <2>12, <2>13, <2>14
<1> QED BY <1>1, <1>2

LEMMA TakesStep ==
    ASSUME OmemoTypes, NEW o \in Om, NEW m \in Message, NEW live \in BOOLEAN,
           NEW long \in BOOLEAN
    PROVE  LET p == Takes(o, m, live, long)
           IN  /\ Step(o, p)
               /\ live /\ o.traffic /\ Starts(o, m) => m.dev \in p.transports \cap p.asked
<1>1. m.dev \in Devices /\ m.known \in BOOLEAN
  BY DEF Message
<1>2. CASE m.known /\ Decrypts(o, m)
  <2>1. Takes(o, m, live, long) = Read(o, m, long)
    BY <1>2 DEF Takes
  <2> QED BY <1>2, <2>1, ReadStep DEF Starts
<1>3. CASE m.known /\ ~Decrypts(o, m)
  <2>1. Takes(o, m, live, long) = IF live THEN Repair(o, m.dev) ELSE RepairLater(o, m.dev)
    BY <1>3 DEF Takes
  <2> QED BY <1>1, <2>1, RepairStep, RepairLaterStep DEF Starts
<1>4. CASE ~m.known
  <2>1. Takes(o, m, live, long) = IF live THEN Unaddressed(o, m.dev) ELSE o
    BY <1>4 DEF Takes
  <2> QED BY <1>1, <2>1, UnaddressedStep, StepSame DEF Starts
<1> QED BY <1>2, <1>3, <1>4

-------------------------------------------------------------------------------
\* The steps of the system.

LEMMA EasyPrimed ==
    ASSUME offer' = offer, NEW o
    PROVE  Easy(om)' <=> Easy(om')
BY DEF Easy

\* Those in which the client does what it does and nothing else changes that matters.
LEMMA Stepping ==
    ASSUME OmemoTypes, OmemoInv, Step(om, om'), up' = up, catchup' = catchup, offer' = offer,
           published' = published, lost' = lost, hitch => hitch',
           configuring' = configuring \/ om'.publishing = om'.index,
           \A d \in needs' : d \in needs \/ (up /\ d \in om'.transports \cap om'.asked),
           up \/ (om' = om /\ configuring' = configuring)
    PROVE  OmemoInv'
<1>1. /\ om \in Om /\ om' \in Om /\ Grows(om, om') /\ Publishes(om, om') /\ Keeps(om, om')
      /\ configuring \in BOOLEAN
  BY DEF Step, OmemoTypes
<1>2. KeysInv(om)'
  BY <1>1 DEF OmemoInv, Keeps
<1>3. PublishInv'
  <2>1. om'.index # {}
    BY <1>1 DEF OmemoInv, PublishInv, Publishes
  <2>2. om'.republish => IF up THEN catchup ELSE lost
    BY <1>1 DEF OmemoInv, PublishInv, Publishes
  <2> QED BY <1>1, <2>1, <2>2 DEF OmemoInv, PublishInv, Publishes
<1>4. NeedsInv'
  <2> SUFFICES ASSUME NEW d \in needs'
               PROVE  /\ up
                      /\ \/ d \in om'.transports \cap om'.asked
                         \/ /\ catchup /\ d \in om'.postponed \cap om'.attempted
                            /\ HasSession(om', d)
    BY DEF NeedsInv
  <2> QED BY <1>1 DEF OmemoInv, NeedsInv, Grows
<1>5. QueueInv'
  <2> SUFFICES ASSUME ~hitch', \A d \in Devices : offer[d] = "usable"
               PROVE  Easy(om') /\ Awaited(om')
    BY EasyPrimed DEF QueueInv
  <2> QED BY <1>1 DEF OmemoInv, QueueInv, Keeps
<1> QED BY <1>2, <1>3, <1>4, <1>5 DEF OmemoInv

LEMMA FreshTyped == Fresh \in Om /\ KeysInv(Fresh) /\ Fresh.index # {}
<1> DEFINE keys == Batch(1, 0)
<1>1. \A k \in keys : k \in Keys /\ k # NoKey /\ k.batch = 1 /\ k.n = 0
  BY DEF Batch, Key, Keys, NoKey
<1>2. keys # {}
  BY PlacesAssumption DEF Batch
<1>3. NoSessions \in Stores /\ NoSessions.all = {}
  BY DEF NoSessions, NoSession, Stores, Session, Sessions, NoKey, Keys
<1> HIDE DEF keys
<1>4. Fresh.records = keys /\ Fresh.index = keys /\ Fresh.batch = 1 /\ Fresh.made = 0
      /\ Fresh.ours = [d \in Devices |-> NoSessions]
  BY DEF Fresh, keys
<1>5. Fresh \in Om
  <2>1. [d \in Devices |-> <<>>] \in [Devices -> Seq(Stanza)]
    OBVIOUS
  <2>2. [d \in Devices |-> NoSessions] \in [Devices -> Stores]
    BY <1>3
  <2>3. keys \in SUBSET Keys
    BY <1>1
  <2> QED BY <2>1, <2>2, <2>3 DEF Fresh, Om, keys
<1>6. KeysInv(Fresh)
  BY <1>1, <1>3, <1>4 DEF KeysInv
<1> QED BY <1>2, <1>4, <1>5, <1>6

LEMMA OmemoInit == Init => OmemoTypes /\ OmemoInv
<1> SUFFICES ASSUME Init PROVE OmemoTypes /\ OmemoInv
  OBVIOUS
<1>1. om \in Om /\ KeysInv(om) /\ om.index # {} /\ om = Fresh
  BY FreshTyped DEF Init
<1>2. NoSessions \in Stores
  BY DEF NoSessions, NoSession, Stores, Session, Sessions, NoKey, Keys
<1>3. published \subseteq Keys /\ published = om.index
  BY <1>1 DEF Init, Fresh, Om
<1>4. OmemoTypes
  <2>1. inbox \in Seq(Message) /\ archive \in Seq(Message)
    BY DEF Init
  <2>2. theirs \in [Devices -> Stores]
    BY <1>2 DEF Init
  <2> QED BY <1>1, <1>3, <2>1, <2>2 DEF Init, OmemoTypes
<1>5. PublishInv
  BY <1>1, <1>3 DEF Init, PublishInv, Fresh
<1>6. NeedsInv /\ QueueInv
  BY <1>1 DEF Init, NeedsInv, QueueInv, Easy, Awaited, Fresh
<1> QED BY <1>1, <1>4, <1>5, <1>6 DEF OmemoInv

LEMMA StepConnect ==
    ASSUME OmemoTypes, OmemoInv, Connect
    PROVE  OmemoTypes' /\ OmemoInv'
<1> DEFINE f == Forgotten(om)
<1>1. om \in Om /\ ~up /\ needs = {}
  BY DEF OmemoTypes, Connect, OmemoInv, NeedsInv
<1>2. f \in Om
  BY <1>1 DEF Forgotten, Om
<1>3. /\ f.records = om.records /\ f.batch = om.batch /\ f.made = om.made /\ f.ours = om.ours
      /\ f.index = om.index /\ f.publishing = om.publishing /\ ~f.republish
      /\ f.trust = om.trust /\ f.failed = {} /\ f.fetching = {} /\ ~f.missing
      /\ f.queue = om.queue /\ f.asked = om.asked /\ f.listed = om.listed
  BY <1>1 DEF Forgotten, Om
<1> HIDE DEF f
<1>4. Step(f, om')
  BY <1>2, WithPrekeysStep DEF Connect, f
<1>5. om' \in Om /\ Publishes(f, om') /\ Keeps(f, om')
  BY <1>4 DEF Step
<1>6. OmemoTypes'
  BY <1>5 DEF OmemoTypes, Connect, external, used
<1>7. KeysInv(om)'
  BY <1>3, <1>5, KeysSame DEF OmemoInv, Keeps
<1>8. PublishInv'
  <2>1. /\ om'.index # {} /\ catchup' /\ up'
        /\ published' = published /\ lost' = lost /\ configuring' = configuring
    BY <1>3, <1>5 DEF OmemoInv, PublishInv, Publishes, Connect, external
  <2>2. ~lost => ~om.republish /\ ~configuring
    BY <1>1 DEF OmemoInv, PublishInv, OmemoTypes
  <2> QED BY <1>3, <1>5, <2>1, <2>2 DEF OmemoInv, PublishInv, Publishes
<1>9. NeedsInv'
  BY <1>1 DEF NeedsInv, Connect
<1>10. QueueInv'
  <2>1. offer' = offer /\ hitch' = hitch
    BY DEF Connect, external
  <2>2. ASSUME ~hitch, \A d \in Devices : offer[d] = "usable"
        PROVE  Easy(om') /\ Awaited(om')
    <3>1. Easy(f) /\ Awaited(f)
      BY <1>3, <2>2 DEF OmemoInv, QueueInv, Easy, Awaited
    <3> QED BY <1>5, <3>1 DEF Keeps
  <2> QED BY <2>1, <2>2, EasyPrimed DEF QueueInv
<1> QED BY <1>6, <1>7, <1>8, <1>9, <1>10 DEF OmemoInv

LEMMA StepDrop ==
    ASSUME OmemoTypes, OmemoInv, Drop
    PROVE  OmemoTypes' /\ OmemoInv'
<1>1. om \in Om /\ om' = [om EXCEPT !.asked = {}, !.publishing = {}]
  BY DEF OmemoTypes, Drop
<1>2. om' \in Om
  BY <1>1 DEF Om
<1>3. /\ om'.records = om.records /\ om'.batch = om.batch /\ om'.made = om.made
      /\ om'.ours = om.ours /\ om'.index = om.index /\ om'.publishing = {}
      /\ om'.republish = om.republish
  BY <1>1 DEF Om
<1>4. OmemoTypes'
  <2>1. inbox' \in Seq(Message) /\ archive' \in Seq(Message)
    BY DEF OmemoTypes, Drop
  <2> QED BY <1>2, <2>1 DEF OmemoTypes, Drop
<1>5. KeysInv(om)'
  BY <1>3, KeysSame DEF OmemoInv
<1>6. PublishInv'
  BY <1>3 DEF OmemoInv, PublishInv, Drop
<1>7. NeedsInv' /\ QueueInv'
  BY DEF Drop, NeedsInv, QueueInv
<1> QED BY <1>4, <1>5, <1>6, <1>7 DEF OmemoInv

LEMMA StepRotationDue ==
    ASSUME OmemoTypes, OmemoInv, RotationDue
    PROVE  OmemoTypes' /\ OmemoInv'
<1>1. Step(om, om')
  BY StepSame DEF OmemoTypes, RotationDue
<1>2. OmemoTypes'
  BY DEF OmemoTypes, RotationDue, external
<1> QED BY <1>1, <1>2, Stepping DEF RotationDue, external

LEMMA StepOnFin ==
    ASSUME OmemoTypes, OmemoInv, OnFin
    PROVE  OmemoTypes' /\ OmemoInv'
<1> DEFINE s == SendKeyTransports(om, om.postponed)
           e == [s EXCEPT !.postponed = {}]
           c == [e EXCEPT !.republish = FALSE]
<1>1. om \in Om /\ up /\ catchup /\ om.postponed \in SUBSET Devices
  BY DEF OmemoTypes, OnFin, Om
<1>2. /\ Step(om, s) /\ \A f \in DOMAIN om \ {"out"} : s[f] = om[f]
      /\ \A d \in om.postponed : HasSession(om, d) => Len(s.out[d]) = Len(om.out[d]) + 1
  BY <1>1, SendKeyTransportsStep
<1> HIDE DEF s
<1>3. s \in Om /\ Grows(om, s)
  BY <1>2 DEF Step
<1>4. /\ s.records = om.records /\ s.batch = om.batch /\ s.made = om.made /\ s.ours = om.ours
      /\ s.index = om.index /\ s.publishing = om.publishing /\ s.republish = om.republish
      /\ s.trust = om.trust /\ s.failed = om.failed /\ s.fetching = om.fetching
      /\ s.missing = om.missing /\ s.queue = om.queue /\ s.asked = om.asked
      /\ s.listed = om.listed /\ s.transports = om.transports
  BY <1>1, <1>2 DEF Om
<1>5. /\ e \in Om
      /\ e.records = om.records /\ e.batch = om.batch /\ e.made = om.made /\ e.ours = om.ours
      /\ e.index = om.index /\ e.publishing = om.publishing /\ e.republish = om.republish
      /\ e.trust = om.trust /\ e.failed = om.failed /\ e.fetching = om.fetching
      /\ e.missing = om.missing /\ e.queue = om.queue /\ e.asked = om.asked
      /\ e.listed = om.listed /\ e.transports = om.transports /\ e.out = s.out
  BY <1>3, <1>4 DEF Om
<1>6. om' = IF om.republish THEN PublishBundle(c) ELSE e
  BY DEF OnFin, ProcessPostponed, s
<1> HIDE DEF e
<1>7. /\ c \in Om
      /\ c.records = om.records /\ c.batch = om.batch /\ c.made = om.made /\ c.ours = om.ours
      /\ c.index = om.index /\ c.publishing = om.publishing /\ ~c.republish
      /\ c.trust = om.trust /\ c.failed = om.failed /\ c.fetching = om.fetching
      /\ c.missing = om.missing /\ c.queue = om.queue /\ c.asked = om.asked
      /\ c.listed = om.listed /\ c.transports = om.transports /\ c.out = s.out
  BY <1>5 DEF Om
<1> HIDE DEF c
<1> DEFINE b == IF e.republish THEN c ELSE e
<1>8. /\ b \in Om
      /\ b.records = om.records /\ b.batch = om.batch /\ b.made = om.made /\ b.ours = om.ours
      /\ b.index = om.index /\ b.publishing = om.publishing /\ ~b.republish
      /\ b.trust = om.trust /\ b.failed = om.failed /\ b.fetching = om.fetching
      /\ b.missing = om.missing /\ b.queue = om.queue /\ b.asked = om.asked
      /\ b.listed = om.listed /\ b.transports = om.transports /\ b.out = s.out
  BY <1>5, <1>7 DEF Om
<1>9. /\ Step(b, om') /\ ~om'.republish
      /\ om.republish => om'.publishing = om'.index
      /\ ~om.republish => om' = b
  <2>1. CASE om.republish
    <3>1. om' = PublishBundle(c) /\ b = c
      BY <1>5, <1>6, <2>1
    <3>2. Step(c, om') /\ om'.publishing = om'.index
          /\ \A f \in DOMAIN c \ {"records", "index", "batch", "publishing"} : om'[f] = c[f]
      BY <1>7, <3>1, PublishBundleStep
    <3> QED BY <1>7, <2>1, <3>1, <3>2 DEF Om
  <2>2. CASE ~om.republish
    <3>1. om' = e /\ b = e
      BY <1>5, <1>6, <2>2
    <3> QED BY <1>5, <2>2, <3>1, StepSame
  <2> QED BY <2>1, <2>2
<1> HIDE DEF b
<1>10. om' \in Om /\ Grows(b, om') /\ Publishes(b, om') /\ Keeps(b, om')
  BY <1>9 DEF Step
<1>11. OmemoTypes'
  <2>1. needs' \subseteq Devices
    BY DEF OnFin, Met, OmemoTypes
  <2>2. due' \in BOOLEAN
    BY DEF OnFin
  <2> QED BY <1>10, <2>1, <2>2 DEF OmemoTypes, OnFin, external, used
<1>12. KeysInv(om)'
  <2>1. KeysInv(b)
    BY <1>8, KeysSame DEF OmemoInv
  <2> QED BY <1>10, <2>1 DEF Keeps
<1>13. PublishInv'
  <2>1. om'.index # {}
    BY <1>8, <1>10 DEF OmemoInv, PublishInv, Publishes
  <2>2. /\ published' = published /\ lost' = lost /\ configuring' = configuring /\ up'
    BY DEF OnFin, external
  <2> QED BY <1>8, <1>9, <2>1, <2>2 DEF OmemoInv, PublishInv
<1>14. NeedsInv'
  <2> SUFFICES ASSUME NEW d \in needs'
               PROVE  up' /\ d \in om'.transports \cap om'.asked
    BY DEF NeedsInv
  <2>1. d \in needs /\ Len(om'.out[d]) = Len(om.out[d]) /\ up' /\ d \in Devices
    BY DEF OnFin, Met, OmemoTypes
  <2>2. CASE d \in om.transports \cap om.asked
    BY <1>8, <1>10, <2>1, <2>2 DEF Grows
  <2>3. CASE d \in om.postponed /\ HasSession(om, d)
    <3>1. Len(s.out[d]) = Len(om.out[d]) + 1 /\ Len(s.out[d]) <= Len(om'.out[d])
      BY <1>2, <1>8, <1>10, <2>1, <2>3 DEF Grows
    <3>2. Len(om.out[d]) \in Nat
      BY <1>1, <2>1 DEF Om
    <3> QED BY <2>1, <3>1, <3>2
  <2> QED BY <2>1, <2>2, <2>3 DEF OmemoInv, NeedsInv
<1>15. QueueInv'
  <2>1. (Easy(om) => Easy(b)) /\ (Awaited(om) => Awaited(b))
    BY <1>8, EasySame, AwaitedSame
  <2>2. offer' = offer /\ hitch' = hitch
    BY DEF OnFin, external
  <2>3. ASSUME ~hitch, \A d \in Devices : offer[d] = "usable"
        PROVE  Easy(om') /\ Awaited(om')
    BY <1>10, <2>1, <2>3 DEF OmemoInv, QueueInv, Keeps
  <2> QED BY <2>2, <2>3, EasyPrimed DEF QueueInv
<1> QED BY <1>11, <1>12, <1>13, <1>14, <1>15 DEF OmemoInv

LEMMA StepUserSends ==
    ASSUME OmemoTypes, OmemoInv, UserSends
    PROVE  OmemoTypes' /\ OmemoInv'
<1>1. Step(om, om')
  BY SendMessageStep DEF OmemoTypes, UserSends
<1>2. OmemoTypes'
  BY <1>1 DEF Step, OmemoTypes, UserSends, external
<1> QED BY <1>1, <1>2, Stepping DEF UserSends, external, OmemoTypes

LEMMA StepForceFetch ==
    ASSUME OmemoTypes, OmemoInv, ForceFetch
    PROVE  OmemoTypes' /\ OmemoInv'
<1>1. Step(om, om')
  <2>1. om \in Om
    BY DEF OmemoTypes
  <2>2. PICK ds \in {om.listed} \cup {{d} : d \in Devices} :
           om' = RequestBundles(RequestDevicelist(om), ds)
    BY DEF ForceFetch
  <2>3. ds \in SUBSET Devices
    BY <2>1 DEF Om
  <2>4. Step(om, RequestDevicelist(om)) /\ RequestDevicelist(om) \in Om
    BY <2>1, RequestDevicelistStep DEF Step
  <2>5. Step(RequestDevicelist(om), om')
    BY <2>2, <2>3, <2>4, RequestBundlesStep
  <2> QED BY <2>1, <2>4, <2>5, StepTrans
<1>2. OmemoTypes'
  BY <1>1 DEF Step, OmemoTypes, ForceFetch, Command, external
<1> QED BY <1>1, <1>2, Stepping DEF ForceFetch, Command, external, OmemoTypes

LEMMA StepForceKex ==
    ASSUME OmemoTypes, OmemoInv, ForceKex
    PROVE  OmemoTypes' /\ OmemoInv'
<1>1. Step(om, om')
  <2>1. om \in Om /\ om.listed \in SUBSET Devices
    BY DEF OmemoTypes, Om
  <2> QED BY <2>1, KexStep, RequestDevicelistStep DEF ForceKex
<1>2. needs' \subseteq needs
  BY DEF ForceKex, Met
<1>3. OmemoTypes'
  BY <1>1, <1>2 DEF Step, OmemoTypes, ForceKex, Command, external
<1> QED BY <1>1, <1>2, <1>3, Stepping DEF ForceKex, Command, external, OmemoTypes

LEMMA StepRepublish ==
    ASSUME OmemoTypes, OmemoInv, Republish
    PROVE  OmemoTypes' /\ OmemoInv'
<1>1. Step(om, om')
  BY PublishBundleStep DEF OmemoTypes, Republish
<1>2. OmemoTypes'
  BY <1>1 DEF Step, OmemoTypes, Republish, Command, external
<1> QED BY <1>1, <1>2, Stepping DEF Republish, Command, external, OmemoTypes

LEMMA StepDistrust ==
    ASSUME OmemoTypes, OmemoInv, NEW d \in Devices, Distrust(d)
    PROVE  OmemoTypes' /\ OmemoInv'
<1>1. om \in Om /\ om' = [om EXCEPT !.trust[d] = "untrusted"] /\ up' = up /\ hitch'
  BY DEF OmemoTypes, Distrust
<1>2. om' \in Om
  BY <1>1 DEF Om
<1>3. /\ om'.records = om.records /\ om'.batch = om.batch /\ om'.made = om.made
      /\ om'.ours = om.ours /\ om'.index = om.index /\ om'.publishing = om.publishing
      /\ om'.republish = om.republish /\ om'.transports = om.transports
      /\ om'.asked = om.asked /\ om'.postponed = om.postponed
      /\ om'.attempted = om.attempted
  BY <1>1 DEF Om
<1>4. OmemoTypes'
  BY <1>2 DEF OmemoTypes, Distrust, Command, external
<1>5. KeysInv(om)'
  BY <1>3, KeysSame DEF OmemoInv
<1>6. PublishInv'
  BY <1>3 DEF OmemoInv, PublishInv, Distrust, Command, external
<1>7. NeedsInv'
  BY <1>3 DEF OmemoInv, NeedsInv, Distrust, Command, HasSession
<1>8. QueueInv'
  BY <1>1 DEF QueueInv
<1> QED BY <1>4, <1>5, <1>6, <1>7, <1>8 DEF OmemoInv

LEMMA StepDistrustJid ==
    ASSUME OmemoTypes, OmemoInv, DistrustJid
    PROVE  OmemoTypes' /\ OmemoInv'
<1>1. /\ om \in Om /\ up' = up /\ hitch' /\ needs' = {}
      /\ om' = [om EXCEPT !.bundle = [d \in Devices |-> "none"],
                          !.ours = [d \in Devices |-> NoSessions]]
  BY DEF OmemoTypes, DistrustJid
<1>2. NoSessions \in Stores /\ NoSessions.all = {}
  BY DEF NoSessions, NoSession, Stores, Session, Sessions, NoKey, Keys
<1>3. /\ om'.records = om.records /\ om'.batch = om.batch /\ om'.made = om.made
      /\ om'.ours = [d \in Devices |-> NoSessions] /\ om'.index = om.index
      /\ om'.publishing = om.publishing /\ om'.republish = om.republish
  BY <1>1 DEF Om
<1>4. om' \in Om
  <2>1. [d \in Devices |-> NoSessions] \in [Devices -> Stores]
    BY <1>2
  <2> QED BY <1>1, <2>1 DEF Om
<1>5. OmemoTypes'
  BY <1>1, <1>4 DEF OmemoTypes, DistrustJid, Command, external
<1>6. KeysInv(om)'
  <2>1. KeysInv(om) /\ \A d \in Devices : om'.ours[d].all = {}
    BY <1>2, <1>3 DEF OmemoInv
  <2> QED BY <1>3, <2>1 DEF KeysInv
<1>7. PublishInv'
  BY <1>3 DEF OmemoInv, PublishInv, DistrustJid, Command, external
<1>8. NeedsInv' /\ QueueInv'
  BY <1>1 DEF NeedsInv, QueueInv
<1> QED BY <1>5, <1>6, <1>7, <1>8 DEF OmemoInv

-------------------------------------------------------------------------------
\* Answers.

LEMMA StepOnDevicelist ==
    ASSUME OmemoTypes, OmemoInv, OnDevicelist
    PROVE  OmemoTypes' /\ OmemoInv'
<1>1. om \in Om /\ up
  BY DEF OmemoTypes, OnDevicelist
<1> DEFINE Kept(ds) == [om EXCEPT !.missing = FALSE, !.listed = ds, !.asked = @ \ {NoList}]
           Flushed(ds) == IF \E d \in ds : HasSession(Kept(ds), d) THEN Flush(Kept(ds))
                                                                 ELSE Kept(ds)
<1>2. PICK ds \in (SUBSET Devices) \ {{}} :
         om' = [Flushed(ds) EXCEPT !.fetching = @ \cup (ds \ Flushed(ds).fetching),
                                   !.asked = @ \cup (ds \ Flushed(ds).fetching)]
  BY DEF OnDevicelist
<1> DEFINE k == Kept(ds)
           f == Flushed(ds)
           new == ds \ f.fetching
<1>3. /\ k \in Om /\ ~k.missing /\ k.listed = ds /\ k.asked = om.asked \ {NoList}
      /\ k.records = om.records /\ k.batch = om.batch /\ k.made = om.made /\ k.ours = om.ours
      /\ k.index = om.index /\ k.publishing = om.publishing /\ k.republish = om.republish
      /\ k.trust = om.trust /\ k.failed = om.failed /\ k.fetching = om.fetching
      /\ k.queue = om.queue /\ k.transports = om.transports /\ k.attempted = om.attempted
      /\ k.postponed = om.postponed
  BY <1>1, <1>2 DEF Om
<1>4. f = k \/ f = Flush(k)
  OBVIOUS
<1>5. om' = [f EXCEPT !.fetching = @ \cup new, !.asked = @ \cup new]
  BY <1>2
<1> HIDE DEF k, f
<1>6. Step(k, f) /\ f \in Om
  BY <1>3, <1>4, FlushStep, StepSame DEF Step
<1>7. new \in SUBSET Devices
  BY <1>2
<1>8. /\ om' \in Om
      /\ om'.records = f.records /\ om'.batch = f.batch /\ om'.made = f.made
      /\ om'.ours = f.ours /\ om'.index = f.index /\ om'.publishing = f.publishing
      /\ om'.republish = f.republish /\ om'.trust = f.trust /\ om'.failed = f.failed
      /\ om'.queue = f.queue /\ om'.transports = f.transports
      /\ om'.attempted = f.attempted /\ om'.postponed = f.postponed /\ om'.listed = f.listed
      /\ om'.missing = f.missing
      /\ om'.fetching = f.fetching \cup new /\ om'.asked = f.asked \cup new
  BY <1>5, <1>6, <1>7 DEF Om
<1> HIDE DEF new
<1>9. /\ up' = up /\ catchup' = catchup /\ offer' = offer /\ published' = published
      /\ configuring' = configuring /\ needs' = needs /\ lost' = lost /\ hitch' = hitch
  BY DEF OnDevicelist, external
<1>10. Grows(k, f) /\ Publishes(k, f) /\ Keeps(k, f)
  BY <1>6 DEF Step
<1>11. OmemoTypes'
  <2>1. due' \in BOOLEAN
    BY DEF OnDevicelist
  <2> QED BY <1>8, <1>9, <2>1 DEF OmemoTypes, OnDevicelist, external, used
<1>12. KeysInv(om)'
  <2>1. KeysInv(k)
    BY <1>3, KeysSame DEF OmemoInv
  <2>2. KeysInv(f)
    BY <1>10, <2>1 DEF Keeps
  <2> QED BY <1>8, <2>2, KeysSame
<1>13. PublishInv'
  <2>1. om'.index # {} /\ (om'.republish => om.republish \/ catchup)
        /\ (om.republish => om'.republish)
    BY <1>3, <1>8, <1>10 DEF OmemoInv, PublishInv, Publishes
  <2>2. \/ om'.publishing = om'.index
        \/ om'.publishing = om.publishing /\ om'.index = om.index
        \/ om'.republish
    BY <1>3, <1>8, <1>10 DEF Publishes
  <2> QED BY <1>1, <1>9, <2>1, <2>2 DEF OmemoInv, PublishInv
<1>14. NeedsInv'
  <2> SUFFICES ASSUME NEW d \in needs
               PROVE  \/ d \in om'.transports \cap om'.asked
                      \/ /\ catchup /\ d \in om'.postponed \cap om'.attempted
                         /\ HasSession(om', d)
    BY <1>1, <1>9 DEF NeedsInv
  <2>1. d \in Devices /\ d # NoList
    BY DevicesAssumption DEF OmemoTypes
  <2>2. CASE d \in om.transports \cap om.asked
    BY <1>3, <1>8, <1>10, <2>1, <2>2 DEF Grows
  <2>3. CASE catchup /\ d \in om.postponed \cap om.attempted /\ HasSession(om, d)
    BY <1>3, <1>8, <1>10, <2>1, <2>3 DEF Grows, HasSession
  <2> QED BY <2>2, <2>3 DEF OmemoInv, NeedsInv
<1>15. QueueInv'
  <2>1. ASSUME ~hitch, \A d \in Devices : offer[d] = "usable"
        PROVE  Easy(om') /\ Awaited(om')
    <3>1. Easy(om) /\ Awaited(om)
      BY <2>1 DEF OmemoInv, QueueInv
    <3>2. Easy(k)
      <4>1. NoList \notin om.fetching
        BY <1>1, DevicesAssumption DEF Om
      <4> QED BY <1>3, <3>1, <4>1 DEF Easy
    <3>3. Easy(f)
      BY <1>10, <3>2 DEF Keeps
    <3>4. Easy(om')
      BY <1>8, <3>3 DEF Easy
    <3>5. ds \subseteq om'.listed \cap om'.asked
      <4>1. om'.listed = ds
        BY <1>3, <1>8, <1>10 DEF Grows
      <4>2. f.fetching \subseteq f.asked
        BY <3>3 DEF Easy
      <4> QED BY <1>8, <4>1, <4>2 DEF new
    <3>6. Awaited(om')
      BY <1>2, <3>5 DEF Awaited
    <3> QED BY <3>4, <3>6
  <2> QED BY <1>9, <2>1, EasyPrimed DEF QueueInv
<1> QED BY <1>11, <1>12, <1>13, <1>14, <1>15 DEF OmemoInv

LEMMA StepOnDevicelistError ==
    ASSUME OmemoTypes, OmemoInv, OnDevicelistError
    PROVE  OmemoTypes' /\ OmemoInv'
<1>1. om \in Om /\ up /\ hitch'
  BY DEF OmemoTypes, OnDevicelistError
<1>2. PICK repeated \in BOOLEAN :
         om' = [om EXCEPT !.asked = @ \ {NoList}, !.missing = @ /\ ~repeated,
                          !.listed = IF repeated THEN {} ELSE @]
  BY DEF OnDevicelistError
<1>3. /\ om' \in Om
      /\ om'.records = om.records /\ om'.batch = om.batch /\ om'.made = om.made
      /\ om'.ours = om.ours /\ om'.index = om.index /\ om'.publishing = om.publishing
      /\ om'.republish = om.republish /\ om'.transports = om.transports
      /\ om'.asked = om.asked \ {NoList} /\ om'.postponed = om.postponed
      /\ om'.attempted = om.attempted
  BY <1>1, <1>2 DEF Om
<1>4. OmemoTypes'
  BY <1>3 DEF OmemoTypes, OnDevicelistError, external
<1>5. KeysInv(om)'
  BY <1>3, KeysSame DEF OmemoInv
<1>6. PublishInv'
  BY <1>3 DEF OmemoInv, PublishInv, OnDevicelistError, external
<1>7. NeedsInv'
  <2>1. \A d \in needs : d # NoList
    BY DevicesAssumption DEF OmemoTypes
  <2> QED BY <1>3, <2>1 DEF OmemoInv, NeedsInv, OnDevicelistError, HasSession
<1>8. QueueInv'
  BY <1>1 DEF QueueInv
<1> QED BY <1>4, <1>5, <1>6, <1>7, <1>8 DEF OmemoInv

LEMMA StepOnBundleError ==
    ASSUME OmemoTypes, OmemoInv, NEW d \in Devices, OnBundleError(d)
    PROVE  OmemoTypes' /\ OmemoInv'
<1>1. om \in Om /\ up /\ hitch'
  BY DEF OmemoTypes, OnBundleError
<1>2. PICK repeated \in BOOLEAN :
         om' = [om EXCEPT !.fetching = IF repeated THEN @ \ {d} ELSE @, !.asked = @ \ {d}]
  BY DEF OnBundleError
<1>3. /\ om' \in Om
      /\ om'.records = om.records /\ om'.batch = om.batch /\ om'.made = om.made
      /\ om'.ours = om.ours /\ om'.index = om.index /\ om'.publishing = om.publishing
      /\ om'.republish = om.republish /\ om'.transports = om.transports
      /\ om'.asked = om.asked \ {d} /\ om'.postponed = om.postponed
      /\ om'.attempted = om.attempted
  BY <1>1, <1>2 DEF Om
<1>4. OmemoTypes'
  BY <1>3 DEF OmemoTypes, OnBundleError, external
<1>5. KeysInv(om)'
  BY <1>3, KeysSame DEF OmemoInv
<1>6. PublishInv'
  BY <1>3 DEF OmemoInv, PublishInv, OnBundleError, external
<1>7. NeedsInv'
  BY <1>3 DEF OmemoInv, NeedsInv, OnBundleError, HasSession
<1>8. QueueInv'
  BY <1>1 DEF QueueInv
<1> QED BY <1>4, <1>5, <1>6, <1>7, <1>8 DEF OmemoInv

LEMMA StepOnPublished ==
    ASSUME OmemoTypes, OmemoInv, OnPublished
    PROVE  OmemoTypes' /\ OmemoInv'
<1>1. om \in Om /\ om' = [om EXCEPT !.publishing = {}] /\ published' = om.publishing
      /\ om.publishing # {}
  BY DEF OmemoTypes, OnPublished
<1>2. /\ om' \in Om
      /\ om'.records = om.records /\ om'.batch = om.batch /\ om'.made = om.made
      /\ om'.ours = om.ours /\ om'.index = om.index /\ om'.publishing = {}
      /\ om'.republish = om.republish /\ om'.transports = om.transports
      /\ om'.asked = om.asked /\ om'.postponed = om.postponed
      /\ om'.attempted = om.attempted /\ om'.listed = om.listed /\ om'.queue = om.queue
      /\ om'.trust = om.trust /\ om'.failed = om.failed /\ om'.fetching = om.fetching
      /\ om'.missing = om.missing
  BY <1>1 DEF Om
<1>3. OmemoTypes'
  <2>1. published' \subseteq Keys
    BY <1>1 DEF Om
  <2> QED BY <1>2, <2>1 DEF OmemoTypes, OnPublished, used
<1>4. KeysInv(om)'
  BY <1>2, KeysSame DEF OmemoInv
<1>5. PublishInv'
  BY <1>1, <1>2 DEF OmemoInv, PublishInv, OnPublished
<1>6. NeedsInv'
  BY <1>2 DEF OmemoInv, NeedsInv, OnPublished, HasSession
<1>7. QueueInv'
  <2>1. (Easy(om) => Easy(om')) /\ (Awaited(om) => Awaited(om'))
    BY <1>2, EasySame, AwaitedSame
  <2>2. offer' = offer /\ hitch' = hitch
    BY DEF OnPublished
  <2> QED BY <2>1, <2>2, EasyPrimed DEF OmemoInv, QueueInv
<1> QED BY <1>3, <1>4, <1>5, <1>6, <1>7 DEF OmemoInv

LEMMA StepOnRejected ==
    ASSUME OmemoTypes, OmemoInv, OnRejected
    PROVE  OmemoTypes' /\ OmemoInv'
<1>1. om \in Om /\ om' = [om EXCEPT !.publishing = {}] /\ configuring' /\ up
  BY DEF OmemoTypes, OnRejected
<1>2. /\ om' \in Om
      /\ om'.records = om.records /\ om'.batch = om.batch /\ om'.made = om.made
      /\ om'.ours = om.ours /\ om'.index = om.index /\ om'.publishing = {}
      /\ om'.republish = om.republish /\ om'.transports = om.transports
      /\ om'.asked = om.asked /\ om'.postponed = om.postponed
      /\ om'.attempted = om.attempted /\ om'.listed = om.listed /\ om'.queue = om.queue
      /\ om'.trust = om.trust /\ om'.failed = om.failed /\ om'.fetching = om.fetching
      /\ om'.missing = om.missing
  BY <1>1 DEF Om
<1>3. OmemoTypes'
  BY <1>2 DEF OmemoTypes, OnRejected
<1>4. KeysInv(om)'
  BY <1>2, KeysSame DEF OmemoInv
<1>5. PublishInv'
  BY <1>1, <1>2 DEF OmemoInv, PublishInv, OnRejected
<1>6. NeedsInv'
  BY <1>2 DEF OmemoInv, NeedsInv, OnRejected, HasSession
<1>7. QueueInv'
  <2>1. (Easy(om) => Easy(om')) /\ (Awaited(om) => Awaited(om'))
    BY <1>2, EasySame, AwaitedSame
  <2>2. offer' = offer /\ hitch' = hitch
    BY DEF OnRejected
  <2> QED BY <2>1, <2>2, EasyPrimed DEF OmemoInv, QueueInv
<1> QED BY <1>3, <1>4, <1>5, <1>6, <1>7 DEF OmemoInv

LEMMA StepOnConfigured ==
    ASSUME OmemoTypes, OmemoInv, OnConfigured
    PROVE  OmemoTypes' /\ OmemoInv'
<1>1. Step(om, om') /\ om'.publishing = om'.index
  BY PublishBundleStep DEF OmemoTypes, OnConfigured
<1>2. OmemoTypes'
  BY <1>1 DEF Step, OmemoTypes, OnConfigured, used
<1> QED BY <1>1, <1>2, Stepping DEF OnConfigured

\* With nothing in the way, a bundle yields a session.
LEMMA BootstrappedStep ==
    ASSUME OmemoTypes, NEW o \in Om, NEW d \in Devices
    PROVE  LET p == Bootstrapped(o, d, offer[d])
           IN  Step(o, p) /\ (Easy(o) => HasSession(p, d))
<1> DEFINE kept == [o EXCEPT !.bundle[d] = offer[d], !.failed = @ \ {d}]
           may == ~HasSession(o, d) /\ CanEstablish(kept, d)
           built == IF may THEN Establish(kept, {d}) ELSE kept
           without == [built EXCEPT !.failed = @ \cup {d}]
<1>1. Bootstrapped(o, d, offer[d]) = IF HasSession(built, d) THEN built ELSE without
  BY DEF Bootstrapped
<1>2. /\ kept \in Om /\ kept.bundle[d] = offer[d]
      /\ kept.ours = o.ours /\ kept.trust = o.trust
      /\ Marked(o, kept)
  BY DEF Om, OmemoTypes, Marked, MarkFields
<1> HIDE DEF kept
<1>3. Step(o, kept)
  BY <1>2, MarkStep
<1>4. Step(kept, built) /\ built \in Om /\ (may => HasSession(built, d))
  BY <1>2, OneSession, StepSame DEF Step
<1>5. ~may => built = kept
  OBVIOUS
<1>6. Easy(o) /\ ~HasSession(o, d) => may
  BY <1>2 DEF Easy, CanEstablish, IsTrusted, DefaultTrust
<1> HIDE DEF built, may
<1>7. Step(o, built)
  BY <1>2, <1>3, <1>4, StepTrans
<1>8. Easy(o) => HasSession(built, d)
  BY <1>2, <1>4, <1>5, <1>6 DEF HasSession
<1>9. ASSUME ~HasSession(built, d) PROVE Step(o, without)
  <2>1. /\ without \in Om
        /\ without.listed = built.listed /\ without.asked = built.asked
        /\ without.ours = built.ours /\ without.out = built.out
        /\ without.republish = built.republish /\ without.index = built.index
        /\ without.publishing = built.publishing /\ without.records = built.records
        /\ without.batch = built.batch /\ without.made = built.made
        /\ without.queue = built.queue /\ without.transports = built.transports
        /\ without.attempted = built.attempted /\ without.postponed = built.postponed
    BY <1>4 DEF Om
  <2> HIDE DEF without
  <2>2. Grows(built, without) /\ Publishes(built, without)
    BY <1>4, <2>1, GrowsSame, PublishesSame
  <2>3. (KeysInv(built) => KeysInv(without)) /\ (Awaited(built) => Awaited(without))
    BY <2>1, KeysSame, AwaitedSame
  <2>4. built \in Om /\ Grows(o, built) /\ Publishes(o, built) /\ Keeps(o, built)
    BY <1>7 DEF Step
  <2>5. Grows(o, without)
    <3>1. \A c \in Devices : Len(o.out[c]) \in Nat /\ Len(built.out[c]) \in Nat
                             /\ Len(without.out[c]) \in Nat
      BY <2>1, <2>4 DEF Om
    <3> QED BY <2>2, <2>4, <3>1 DEF Grows
  <2>6. Publishes(o, without)
    BY <2>2, <2>4 DEF Publishes
  <2>7. Keeps(o, without)
    BY <1>8, <1>9, <2>3, <2>4 DEF Keeps
  <2> QED BY <2>1, <2>5, <2>6, <2>7 DEF Step
<1>10. Easy(o) => HasSession(IF HasSession(built, d) THEN built ELSE without, d)
  BY <1>8
<1> QED BY <1>1, <1>7, <1>9, <1>10

LEMMA TransportedStep ==
    ASSUME OmemoTypes, NEW o \in Om, NEW d \in Devices
    PROVE  LET p == Transported(o, d)
           IN  /\ Step(o, p) /\ p.ours = o.ours
               /\ catchup => d \in p.postponed
               /\ ~catchup /\ HasSession(o, d) => Len(p.out[d]) = Len(o.out[d]) + 1
<1>1. CASE catchup
  <2> DEFINE e == [o EXCEPT !.postponed = @ \cup {d}]
  <2>1. Transported(o, d) = e
    BY <1>1 DEF Transported
  <2>2. /\ e \in Om /\ d \in e.postponed
        /\ e.ours = o.ours /\ Marked(o, e)
    BY DEF Om, Marked, MarkFields
  <2> HIDE DEF e
  <2>3. Step(o, e)
    BY <2>2, MarkStep
  <2> QED BY <1>1, <2>1, <2>2, <2>3
<1>2. CASE ~catchup
  <2>1. Transported(o, d) = SendKeyTransports(o, {d})
    BY <1>2 DEF Transported
  <2> DEFINE p == SendKeyTransports(o, {d})
  <2>2. /\ Step(o, p) /\ \A f \in DOMAIN o \ {"out"} : p[f] = o[f]
        /\ HasSession(o, d) => Len(p.out[d]) = Len(o.out[d]) + 1
    BY OneTransport
  <2> HIDE DEF p
  <2>3. p.ours = o.ours
    BY <2>2 DEF Om
  <2> QED BY <1>2, <2>1, <2>2, <2>3 DEF p
<1> QED BY <1>1, <1>2

LEMMA StepOnBundle ==
    ASSUME OmemoTypes, OmemoInv, NEW d \in Devices, OnBundle(d)
    PROVE  OmemoTypes' /\ OmemoInv'
<1> DEFINE taken == [om EXCEPT !.attempted = @ \cup {d}, !.fetching = @ \ {d},
                               !.transports = @ \ {d}, !.asked = @ \ {d}]
           built == Taken(taken, d)
           due1 == offer[d] # "unparsable" /\ NeedsTransport(om, built, d)
           told == IF due1 THEN Transported(built, d) ELSE built
<1>1. om \in Om /\ up /\ d # NoList /\ om' = AfterBundle(told, d)
  BY DevicesAssumption DEF OmemoTypes, OnBundle
<1>2. needs' = Met(om, om') \ (IF HasSession(built, d) /\ offer[d] # "unparsable" THEN {} ELSE {d})
  BY DEF OnBundle
<1>3. /\ taken \in Om
      /\ taken.records = om.records /\ taken.batch = om.batch /\ taken.made = om.made
      /\ taken.ours = om.ours /\ taken.index = om.index /\ taken.publishing = om.publishing
      /\ taken.republish = om.republish /\ taken.transports = om.transports \ {d}
      /\ taken.asked = om.asked \ {d} /\ taken.postponed = om.postponed
      /\ taken.attempted = om.attempted \cup {d} /\ taken.listed = om.listed
      /\ taken.queue = om.queue /\ taken.trust = om.trust /\ taken.failed = om.failed
      /\ taken.fetching = om.fetching \ {d} /\ taken.missing = om.missing
      /\ taken.out = om.out
  BY <1>1 DEF Om
<1> HIDE DEF taken
<1>4. Step(taken, built) /\ built \in Om
      /\ (Easy(taken) => HasSession(built, d))
  <2>1. CASE offer[d] = "unparsable"
    <3>1. built = taken /\ ~Easy(taken)
      BY <2>1 DEF Taken, Easy
    <3> QED BY <1>3, <3>1, StepSame
  <2>2. CASE offer[d] # "unparsable"
    <3>1. built = Bootstrapped(taken, d, offer[d])
      BY <2>2 DEF Taken
    <3> QED BY <1>3, <3>1, BootstrappedStep DEF Step
  <2> QED BY <2>1, <2>2
<1> HIDE DEF built
<1>5. /\ Step(built, told) /\ told \in Om /\ told.ours = built.ours
      /\ due1 /\ catchup => d \in told.postponed
      /\ due1 /\ ~catchup /\ HasSession(built, d) => Len(told.out[d]) = Len(built.out[d]) + 1
  BY <1>4, TransportedStep, StepSame DEF Step
<1> HIDE DEF told
<1>6. /\ Step(told, om') /\ om' \in Om
      /\ HasSession(told, d) /\ Easy(told) /\ told.listed # {} => Awaited(om')
  BY <1>1, <1>5, FlushStep, StepSame DEF AfterBundle, Step
<1>7. Step(taken, told)
  BY <1>3, <1>4, <1>5, StepTrans
<1>8. Step(taken, om')
  BY <1>3, <1>5, <1>6, <1>7, StepTrans
<1>9. /\ Grows(taken, om') /\ Publishes(taken, om') /\ Keeps(taken, om')
      /\ Grows(taken, built) /\ Grows(told, om') /\ Grows(taken, told) /\ Keeps(taken, told)
  BY <1>4, <1>6, <1>7, <1>8 DEF Step
<1>10. /\ up' = up /\ catchup' = catchup /\ offer' = offer /\ published' = published
       /\ configuring' = configuring /\ lost' = lost /\ hitch' = hitch
  BY DEF OnBundle, external
<1>11. OmemoTypes'
  <2>1. due' \in BOOLEAN
    BY DEF OnBundle
  <2>2. needs' \subseteq Devices
    BY <1>2 DEF Met, OmemoTypes
  <2> QED BY <1>6, <1>10, <2>1, <2>2 DEF OmemoTypes, OnBundle, external, used
<1>12. KeysInv(om)'
  <2>1. KeysInv(taken)
    BY <1>3, KeysSame DEF OmemoInv
  <2> QED BY <1>9, <2>1 DEF Keeps
<1>13. PublishInv'
  <2>1. om'.index # {} /\ (om'.republish => om.republish \/ catchup)
        /\ (om.republish => om'.republish)
    BY <1>3, <1>9 DEF OmemoInv, PublishInv, Publishes
  <2>2. \/ om'.publishing = om'.index
        \/ om'.publishing = om.publishing /\ om'.index = om.index
        \/ om'.republish
    BY <1>3, <1>9 DEF Publishes
  <2> QED BY <1>1, <1>10, <2>1, <2>2 DEF OmemoInv, PublishInv
<1>14. NeedsInv'
  <2> SUFFICES ASSUME NEW c \in needs'
               PROVE  \/ c \in om'.transports \cap om'.asked
                      \/ /\ catchup /\ c \in om'.postponed \cap om'.attempted
                         /\ HasSession(om', c)
    BY <1>1, <1>10 DEF NeedsInv
  <2>1. c \in needs /\ c \in Devices /\ Len(om'.out[c]) = Len(om.out[c])
        /\ (c = d => HasSession(built, d) /\ offer[d] # "unparsable")
    BY <1>2 DEF Met, OmemoTypes
  <2>2. CASE catchup /\ c \in om.postponed \cap om.attempted /\ HasSession(om, c)
    BY <1>3, <1>9, <2>2 DEF Grows, HasSession
  <2>3. CASE c \in om.transports \cap om.asked
    <3>1. CASE c # d
      BY <1>3, <1>9, <2>3, <3>1 DEF Grows
    <3>2. CASE c = d
      <4>1. due1
        BY <2>1, <2>3, <3>2 DEF NeedsTransport
      <4>2. d \in taken.attempted /\ d \in told.attempted /\ d \in om'.attempted
        BY <1>3, <1>9 DEF Grows
      <4>3. HasSession(om', d)
        <5>1. HasSession(told, d)
          BY <1>5, <2>1, <3>2 DEF HasSession
        <5> QED BY <1>9, <4>2, <5>1 DEF Grows
      <4>4. CASE catchup
        BY <1>5, <1>9, <3>2, <4>1, <4>2, <4>3, <4>4 DEF Grows
      <4>5. CASE ~catchup
        <5>1. Len(told.out[d]) = Len(built.out[d]) + 1
          BY <1>5, <2>1, <3>2, <4>1, <4>5
        <5>2. Len(taken.out[d]) <= Len(built.out[d]) /\ Len(told.out[d]) <= Len(om'.out[d])
              /\ taken.out = om.out
          BY <1>3, <1>9 DEF Grows
        <5>3. Len(om.out[d]) \in Nat /\ Len(built.out[d]) \in Nat /\ Len(om'.out[d]) \in Nat
          BY <1>1, <1>4, <1>6 DEF Om
        <5> QED BY <2>1, <3>2, <5>1, <5>2, <5>3
      <4> QED BY <4>4, <4>5
    <3> QED BY <3>1, <3>2
  <2> QED BY <2>1, <2>2, <2>3 DEF OmemoInv, NeedsInv
<1>15. QueueInv'
  <2>1. ASSUME ~hitch, \A c \in Devices : offer[c] = "usable"
        PROVE  Easy(om') /\ Awaited(om')
    <3>1. Easy(om) /\ Awaited(om)
      BY <2>1 DEF OmemoInv, QueueInv
    <3>2. Easy(taken)
      BY <1>1, <1>3, <3>1 DEF Easy
    <3>3. Easy(om') /\ Easy(told)
      BY <1>9, <3>2 DEF Keeps
    <3>4. CASE om.listed = {}
      <4>1. Awaited(taken)
        BY <1>1, <1>3, <3>1, <3>4 DEF Awaited
      <4> QED BY <1>9, <3>2, <3>3, <4>1 DEF Keeps
    <3>5. CASE om.listed # {}
      <4>1. HasSession(told, d)
        BY <1>4, <1>5, <3>2 DEF HasSession
      <4>2. told.listed # {}
        BY <1>3, <1>9, <3>5 DEF Grows
      <4> QED BY <1>6, <3>3, <4>1, <4>2
    <3> QED BY <3>4, <3>5
  <2> QED BY <1>10, <2>1, EasyPrimed DEF QueueInv
<1> QED BY <1>11, <1>12, <1>13, <1>14, <1>15 DEF OmemoInv

-------------------------------------------------------------------------------
\* Messages, and the contact's devices.

LEMMA Handled ==
    ASSUME OmemoTypes, OmemoInv, NEW m \in Message, NEW live \in BOOLEAN, Handle(m, live), up
    PROVE  om' \in Om /\ needs' \subseteq Devices /\ due' \in BOOLEAN /\ OmemoInv'
<1> DEFINE o == [om EXCEPT !.traffic = TRUE]
<1>1. PICK long \in BOOLEAN : om' = Takes(o, m, live, long)
  BY DEF Handle
<1>2. om \in Om /\ m.dev \in Devices
  BY DEF OmemoTypes, Message
<1>3. Step(om, o) /\ o \in Om /\ o.traffic
  BY <1>2, TrafficStep DEF Step
<1>4. Starts(o, m) <=> Starts(om, m)
  <2>1. o.ours = om.ours /\ o.trust = om.trust /\ o.records = om.records
        /\ o.attempted = om.attempted /\ o.transports = om.transports
        /\ o.fetching = om.fetching
    BY <1>2 DEF Om
  <2> HIDE DEF o
  <2> QED BY <2>1 DEF Starts, Decrypts, IsTrusted, DefaultTrust
<1> HIDE DEF o
<1>5. Step(o, om') /\ (live /\ Starts(om, m) => m.dev \in om'.transports \cap om'.asked)
  BY <1>1, <1>3, <1>4, TakesStep
<1>6. Step(om, om')
  BY <1>2, <1>3, <1>5, StepTrans
<1>7. \A d \in needs' : d \in needs \/ (d = m.dev /\ live /\ Starts(om, m))
  BY DEF Handle, Met
<1>8. needs' \subseteq Devices
  BY <1>2, <1>7 DEF OmemoTypes
<1>9. due' \in BOOLEAN
  BY DEF Handle
<1>10. OmemoInv'
  BY <1>5, <1>6, <1>7, Stepping DEF Handle
<1> QED BY <1>6, <1>8, <1>9, <1>10 DEF Step

LEMMA StepOnLive ==
    ASSUME OmemoTypes, OmemoInv, OnLive
    PROVE  OmemoTypes' /\ OmemoInv'
<1>1. Head(inbox) \in Message /\ Tail(inbox) \in Seq(Message)
  BY DEF OmemoTypes, OnLive
<1>2. om' \in Om /\ needs' \subseteq Devices /\ due' \in BOOLEAN /\ OmemoInv'
  <2>1. TRUE \in BOOLEAN /\ Handle(Head(inbox), TRUE) /\ up
    BY DEF OnLive
  <2> QED BY <1>1, <2>1, Handled
<1>3. OmemoTypes'
  BY <1>1, <1>2 DEF OmemoTypes, OnLive, Handle, used
<1> QED BY <1>2, <1>3

LEMMA StepOnReplay ==
    ASSUME OmemoTypes, OmemoInv, OnReplay
    PROVE  OmemoTypes' /\ OmemoInv'
<1>1. Head(archive) \in Message /\ Tail(archive) \in Seq(Message)
  BY DEF OmemoTypes, OnReplay
<1>2. om' \in Om /\ needs' \subseteq Devices /\ due' \in BOOLEAN /\ OmemoInv'
  <2>1. FALSE \in BOOLEAN /\ Handle(Head(archive), FALSE) /\ up
    BY DEF OnReplay
  <2> QED BY <1>1, <2>1, Handled
<1>3. OmemoTypes'
  BY <1>1, <1>2 DEF OmemoTypes, OnReplay, Handle, used
<1> QED BY <1>2, <1>3

LEMMA StepPeerSends ==
    ASSUME OmemoTypes, OmemoInv, NEW d \in Devices, PeerSends(d)
    PROVE  OmemoTypes' /\ OmemoInv'
<1> DEFINE Ses(k) == IF theirs[d].all = {} THEN Session(d, k, heard + 1) ELSE theirs[d].current
           Sent(k, payload) == [dev |-> d, ses |-> Ses(k), payload |-> payload,
                                known |-> d \in aware,
                                prekey |-> Ses(k).key # NoKey /\ Ses(k) \notin confirmed]
<1>1. PICK payload \in BOOLEAN, k \in published :
         /\ theirs' = IF Sent(k, payload).known THEN [theirs EXCEPT ![d] = Promoted(@, Ses(k))]
                                                ELSE theirs
         /\ IF up THEN inbox' = Append(inbox, Sent(k, payload)) /\ UNCHANGED archive
                  ELSE archive' = Append(archive, Sent(k, payload)) /\ UNCHANGED inbox
  BY DEF PeerSends
<1>2. Ses(k) \in Sessions
  BY DEF OmemoTypes, Session, Sessions, Stores
<1>3. Sent(k, payload) \in Message
  BY <1>2 DEF Message
<1> HIDE DEF Ses, Sent
<1>4. theirs' \in [Devices -> Stores]
  BY <1>1, <1>2 DEF OmemoTypes, Stores, Promoted
<1>5. inbox' \in Seq(Message) /\ archive' \in Seq(Message)
  <2>1. inbox \in Seq(Message) /\ archive \in Seq(Message) /\ up \in BOOLEAN
    BY DEF OmemoTypes
  <2>2. \A m \in Message : Append(inbox, m) \in Seq(Message)
                          /\ Append(archive, m) \in Seq(Message)
    BY <2>1
  <2>3. CASE up
    BY <1>1, <1>3, <2>1, <2>2, <2>3
  <2>4. CASE ~up
    BY <1>1, <1>3, <2>1, <2>2, <2>4
  <2> QED BY <2>3, <2>4
<1>6. OmemoTypes'
  BY <1>4, <1>5 DEF OmemoTypes, PeerSends
<1>7. Step(om, om')
  BY StepSame DEF OmemoTypes, PeerSends
<1> QED BY <1>6, <1>7, Stepping DEF PeerSends

LEMMA StepPeerForgets ==
    ASSUME OmemoTypes, OmemoInv, NEW d \in Devices, PeerForgets(d)
    PROVE  OmemoTypes' /\ OmemoInv'
<1>1. NoSessions \in Stores
  BY DEF NoSessions, NoSession, Stores, Session, Sessions, NoKey, Keys
<1>2. OmemoTypes'
  <2>1. theirs' \in [Devices -> Stores]
    BY <1>1 DEF OmemoTypes, PeerForgets
  <2> QED BY <2>1 DEF OmemoTypes, PeerForgets
<1>3. Step(om, om')
  BY StepSame DEF OmemoTypes, PeerForgets
<1> QED BY <1>2, <1>3, Stepping DEF PeerForgets

LEMMA StepPeerReads ==
    ASSUME OmemoTypes, OmemoInv, NEW d \in Devices, PeerReads(d)
    PROVE  OmemoTypes' /\ OmemoInv'
<1>1. om \in Om /\ om' = [om EXCEPT !.out[d] = Tail(@)] /\ om.out[d] \in Seq(Stanza)
      /\ om.out[d] # <<>>
  BY DEF OmemoTypes, PeerReads, Om
<1>2. /\ om' \in Om
      /\ om'.records = om.records /\ om'.batch = om.batch /\ om'.made = om.made
      /\ om'.ours = om.ours /\ om'.index = om.index /\ om'.publishing = om.publishing
      /\ om'.republish = om.republish /\ om'.transports = om.transports
      /\ om'.asked = om.asked /\ om'.postponed = om.postponed
      /\ om'.attempted = om.attempted /\ om'.listed = om.listed /\ om'.queue = om.queue
      /\ om'.trust = om.trust /\ om'.failed = om.failed /\ om'.fetching = om.fetching
      /\ om'.missing = om.missing
  <2>1. Tail(om.out[d]) \in Seq(Stanza)
    BY <1>1
  <2> QED BY <1>1, <2>1 DEF Om
<1>3. theirs' \in [Devices -> Stores]
  <2>1. NoSessions \in Stores
    BY DEF NoSessions, NoSession, Stores, Session, Sessions, NoKey, Keys
  <2>2. Head(om.out[d]).ses \in Sessions
    <3>1. Head(om.out[d]) \in Stanza
      BY <1>1
    <3> QED BY <3>1 DEF Stanza
  <2>3. PICK has \in BOOLEAN :
           theirs' = [theirs EXCEPT ![d] = IF has THEN Promoted(@, Head(om.out[d]).ses)
                                                  ELSE NoSessions]
    BY DEF PeerReads
  <2> QED BY <2>1, <2>2, <2>3 DEF OmemoTypes, Stores, Promoted
<1>4. OmemoTypes'
  BY <1>2, <1>3 DEF OmemoTypes, PeerReads, used
<1>5. KeysInv(om)'
  BY <1>2, KeysSame DEF OmemoInv
<1>6. PublishInv'
  BY <1>2 DEF OmemoInv, PublishInv, PeerReads
<1>7. NeedsInv'
  BY <1>2 DEF OmemoInv, NeedsInv, PeerReads, HasSession
<1>8. QueueInv'
  <2>1. (Easy(om) => Easy(om')) /\ (Awaited(om) => Awaited(om'))
    BY <1>2, EasySame, AwaitedSame
  <2>2. offer' = offer /\ hitch' = hitch
    BY DEF PeerReads
  <2> QED BY <2>1, <2>2, EasyPrimed DEF OmemoInv, QueueInv
<1> QED BY <1>4, <1>5, <1>6, <1>7, <1>8 DEF OmemoInv

-------------------------------------------------------------------------------
LEMMA OmemoNext == OmemoTypes /\ OmemoInv /\ [Next]_vars => OmemoTypes' /\ OmemoInv'
<1> SUFFICES ASSUME OmemoTypes, OmemoInv, [Next]_vars
             PROVE  OmemoTypes' /\ OmemoInv'
  OBVIOUS
<1>1. CASE UNCHANGED vars
  <2>1. OmemoTypes'
    BY <1>1 DEF vars, external, used, OmemoTypes
  <2>2. Step(om, om')
    BY <1>1, StepSame DEF vars, OmemoTypes
  <2> QED BY <1>1, <2>1, <2>2, Stepping DEF vars, external
<1>2. CASE Connect \/ Drop \/ RotationDue
  BY <1>2, StepConnect, StepDrop, StepRotationDue
<1>3. CASE User
  BY <1>3, StepUserSends, StepForceFetch, StepForceKex, StepDistrustJid, StepRepublish DEF User
<1>4. CASE \E d \in Devices : Distrust(d)
  BY <1>4, StepDistrust
<1>5. CASE Answer
  BY <1>5, StepOnDevicelist, StepOnDevicelistError, StepOnBundle, StepOnBundleError,
     StepOnPublished, StepOnRejected, StepOnConfigured DEF Answer
<1>6. CASE OnFin \/ OnLive \/ OnReplay
  BY <1>6, StepOnFin, StepOnLive, StepOnReplay
<1>7. CASE \E d \in Devices : PeerSends(d) \/ PeerReads(d) \/ PeerForgets(d)
  BY <1>7, StepPeerSends, StepPeerReads, StepPeerForgets
<1> QED BY <1>1, <1>2, <1>3, <1>4, <1>5, <1>6, <1>7 DEF Next, Stream

LEMMA OmemoAlways == Spec => [](OmemoTypes /\ OmemoInv)
<1>1. Init => OmemoTypes /\ OmemoInv
  BY OmemoInit
<1>2. (OmemoTypes /\ OmemoInv) /\ [Next]_vars => (OmemoTypes /\ OmemoInv)'
  BY OmemoNext
<1> QED BY <1>1, <1>2, PTL DEF Spec

\* No prekey of this client serves two sessions, whatever is replaced, rotated, repaired or
\* replayed (decrypt_axolotl_transport_key, replace_used_prekey and ensure_prekeys): what
\* built a session is no record any more, and later keys have numbers of their own.
THEOREM OneTimeCorrect == Spec => []OneTime
<1>1. OmemoTypes /\ OmemoInv => OneTime
  BY DEF OmemoInv, KeysInv, OneTime
<1> QED BY <1>1, OmemoAlways, PTL

\* When all has been answered and no publish was lost, the server's bundle is the one that
\* is kept on disk: whatever changes the index is published at once, or remembered until
\* the catch-up ends (get_axolotl_bundle and process_postponed_bundle_republish).
THEOREM PublishedIsIndexCorrect == Spec => []PublishedIsIndex
<1>1. OmemoTypes /\ OmemoInv => PublishedIsIndex
  <2> SUFFICES ASSUME OmemoTypes, OmemoInv, Settled, ~lost PROVE published = om.index
    BY DEF PublishedIsIndex
  <2>1. ~om.republish /\ ~configuring /\ om.publishing = {}
    BY DEF OmemoInv, PublishInv, Settled, OmemoTypes, Om
  <2> QED BY <2>1 DEF OmemoInv, PublishInv
<1> QED BY <1>1, OmemoAlways, PTL

\* A device whose message could not be read is sent a key transport, at once or when the
\* catch-up ends, unless its bundle yields no session (decode, handle_axolotl_bundle):
\* until then it is asked, or it is postponed with a session that no other failure takes.
THEOREM FailureIsRepairedCorrect == Spec => []FailureIsRepaired
<1>1. OmemoTypes /\ OmemoInv => FailureIsRepaired
  BY DEF OmemoInv, NeedsInv, FailureIsRepaired, Settled, OmemoTypes
<1> QED BY <1>1, OmemoAlways, PTL

\* With no error, lost link or distrusted device, and bundles that are of use, a message
\* that waits in the queue (send_message, flush_pending_omemo_messages) has an answer to
\* wait for: the list, or a listed device's bundle.
THEOREM QueueIsSentCorrect == Spec => []QueueIsSent
<1>1. OmemoTypes /\ OmemoInv => QueueIsSent
  BY DEF OmemoInv, QueueInv, Awaited, QueueIsSent, Settled
<1> QED BY <1>1, OmemoAlways, PTL

===============================================================================
