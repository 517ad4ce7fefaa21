--------------------------------- MODULE Feeds ---------------------------------
(***************************************************************************)
(* Feeds (XEP-0060, -0277, -0472): a buffer per node, opened by the user,  *)
(* by a push or by an answer, restored at every connect from the registry  *)
(* in LMDB (muc_admin.inl, message_handler.inl, iq_handler.inl,            *)
(* connect_lifecycle.inl, lmdb_cache.inl, buffer.cpp).                     *)
(*                                                                         *)
(* The nodes in Pep are of other users' accounts; all others are of one    *)
(* service.  Items of a node are numbered in the order of their dates.     *)
(* An entry of the client's maps of queries (pubsub_fetch_ids and the      *)
(* like) only takes effect when its answer comes, so a query carries its   *)
(* entry with it; those to learn what the service supports, which hold     *)
(* others back, are kept apart.                                            *)
(***************************************************************************)
EXTENDS Integers, Sequences, FiniteSets, SequencesExt, FiniteSetsExt

CONSTANTS
    Feeds, Pep, Thread,     \* nodes; of user accounts; the one with the comments
    Long,                   \* those with more old items than a page holds, not modelled
    Described,              \* those whose items may be descriptions of the node (<feed>)
    MaxItems,               \* bounds: items ever published in a node,
    MaxEvents, MaxTrouble   \* what users do here and elsewhere; losses and refusals

ASSUME FeedsAssumption ==
    /\ Pep \subseteq Feeds /\ Thread \in Feeds
    /\ Long \cup Described \subseteq Feeds /\ {MaxItems, MaxEvents, MaxTrouble} \subseteq Nat

VARIABLES
    up,         \* the stream is open
    chans,      \* the feed buffers
    registry,   \* LMDB: feed_open
    seen,       \* LMDB: feed_seen
    known,      \* items whose number and comments link are in memory
    mamKnown,   \* pubsub_mam_services has the service
    disco,      \* pubsub_mam_disco_queries has an entry
    deferred,   \* pubsub_mam_deferred_feeds
    asked,      \* queries on their way
    inbox,      \* what is on its way to the client
    node,       \* the items in each node
    payload,    \* what each item is: an entry, or a description that has a title or is blank
    next,       \* how many were ever published in it
    old,        \* the items up to this number are older than thirty days
    subs,       \* the nodes the user is subscribed to
    mam, rich,  \* the service has archives; its pushes carry the entry
    shown,      \* history: the items ever printed
    repeats,    \* history: the items printed again by a push or from an archive
    discoLost,  \* history: the query in disco went with an earlier stream
    events, trouble   \* for the bounds

disk    == <<registry, seen>>
memory  == <<chans, known, mamKnown, disco, deferred>>
server  == <<node, payload, next, old, subs, mam, rich>>
history == <<shown, repeats, discoLost>>
feedsVars == <<up, memory, disk, asked, inbox, server, history, events, trouble>>

Payloads == {"entry", "title", "blank"}

FeedsInit ==
    /\ up = FALSE /\ chans = {} /\ registry \in {{}, Feeds \ Pep} /\ seen = {} /\ known = {}
    /\ mamKnown = FALSE /\ disco = FALSE /\ deferred = <<>>
    /\ asked = <<>> /\ inbox = <<>>
    /\ next \in {[f \in Feeds |-> n] : n \in 0 .. MaxItems}
    /\ node = [f \in Feeds |-> 1 .. next[f]]
    /\ payload \in {p \in [Feeds \X (1 .. MaxItems) -> Payloads] :
                       \A x \in DOMAIN p : x[1] \in Described \/ p[x] = "entry"}
    /\ old = next
    /\ subs = Feeds /\ mam \in BOOLEAN /\ rich = mam
    /\ shown = {} /\ repeats = {} /\ discoLost = FALSE
    /\ events = 0 /\ trouble = 0

-------------------------------------------------------------------------------
\* Queries.

Page(f)      == [kind |-> "items", feed |-> f, item |-> 0, page |-> "any"]
LastPage(f)  == [kind |-> "items", feed |-> f, item |-> 0, page |-> "last"]
Whole(f)     == [kind |-> "items", feed |-> f, item |-> 0, page |-> "all"]
Single(f, i) == [kind |-> "items", feed |-> f, item |-> i, page |-> "all"]
Archive(f)   == [kind |-> "mam", feed |-> f]
Discover     == [kind |-> "disco"]
List(all)    == [kind |-> "list", all |-> all]
Publish(f)   == [kind |-> "publish", feed |-> f]
Withdraw(f, i)  == [kind |-> "retract", feed |-> f, item |-> i]
Subscription(f, wish) == [kind |-> "subscribe", feed |-> f, wish |-> wish]

Ask(queries) == asked' = asked \o queries

\* One query for each of these feeds, in the order of their keys.
ForEach(Q(_), feeds) == LET s == SetToSeq(feeds) IN [k \in DOMAIN s |-> Q(s[k])]

\* try_emplace with feed_open_register when the buffer is new.
Opened(feeds) ==
    /\ chans' = chans \cup feeds
    /\ registry' = registry \cup (feeds \ chans)

-------------------------------------------------------------------------------
\* The service.

Subscribed(f) == f \in subs
Pushed(f, push) == IF Subscribed(f) THEN <<push>> ELSE <<>>
ItemPush(f, i)  == [kind |-> "push", feed |-> f, item |-> i, rich |-> rich]
RetractPush(f)  == [kind |-> "gone", feed |-> f]
Done(f, i, gone) == [kind |-> "published", feed |-> f, item |-> i, gone |-> gone]

\* The items of the pages the service may answer with.  A service that counts from
\* the oldest gives the oldest page, unless it is asked for the last by its index.
Pages(q) ==
    IF q.item > 0 THEN {node[q.feed] \cap {q.item}}
    ELSE {node[q.feed]} \cup (IF q.page = "any" /\ q.feed \in Long THEN {{}} ELSE {})

\* What the client concludes from <first> and <count> of a page it asked for with
\* max_items: the node has more than a page, and the first of the page is old.
StalePage(q, page) ==
    /\ q.item = 0 /\ q.page \in {"any", "last"} /\ q.feed \in Long
    /\ page = {} \/ Min(page) <= old[q.feed]

ArchiveResults(f) ==
    LET s == SetToSortSeq(node[f], >)
    IN  [k \in DOMAIN s |-> [kind |-> "result", feed |-> f, item |-> s[k]]]

Serve ==
    /\ up /\ asked # <<>> /\ asked' = Tail(asked)
    /\ LET q == Head(asked) IN
       \/ /\ q.kind = "items"
          /\ \E page \in Pages(q) :
                inbox' = Append(inbox, [kind |-> "page", feed |-> q.feed, items |-> page,
                                        stale |-> StalePage(q, page)])
          /\ UNCHANGED <<node, next, subs>>
       \/ /\ q.kind = "mam" /\ inbox' = inbox \o ArchiveResults(q.feed)
          /\ UNCHANGED <<node, next, subs>>
       \/ /\ q.kind = "disco" /\ inbox' = Append(inbox, [kind |-> "features", mam |-> mam])
          /\ UNCHANGED <<node, next, subs>>
       \/ /\ q.kind = "list"
          /\ inbox' = Append(inbox, [kind |-> "list", feeds |-> IF q.all THEN Feeds \ Pep
                                                                        ELSE subs \ Pep])
          /\ UNCHANGED <<node, next, subs>>
       \/ /\ q.kind = "publish" /\ next[q.feed] < MaxItems
          /\ LET i == next[q.feed] + 1 IN
             /\ next' = [next EXCEPT ![q.feed] = i] /\ node' = [node EXCEPT ![q.feed] = @ \cup {i}]
             /\ \/ inbox' = inbox \o Pushed(q.feed, ItemPush(q.feed, i)) \o <<Done(q.feed, i, FALSE)>>
                \/ inbox' = Append(inbox, Done(q.feed, i, FALSE)) \o Pushed(q.feed, ItemPush(q.feed, i))
          /\ UNCHANGED subs
       \/ /\ q.kind = "retract" /\ q.item \in node[q.feed]
          /\ node' = [node EXCEPT ![q.feed] = @ \ {q.item}]
          /\ \/ inbox' = inbox \o Pushed(q.feed, RetractPush(q.feed)) \o <<Done(q.feed, q.item, TRUE)>>
             \/ inbox' = Append(inbox, Done(q.feed, q.item, TRUE)) \o Pushed(q.feed, RetractPush(q.feed))
          /\ UNCHANGED <<next, subs>>
       \/ /\ q.kind = "subscribe"
          /\ subs' = IF q.wish THEN subs \cup {q.feed} ELSE subs \ {q.feed}
          /\ UNCHANGED <<inbox, node, next>>
    /\ UNCHANGED <<up, memory, disk, payload, old, mam, rich, history, events, trouble>>

\* An error.  The client prints it and forgets the query; only that of a discovery
\* has more to do.  A query nothing can be done for is always refused.
Impossible(q) ==
    \/ q.kind = "publish" /\ next[q.feed] = MaxItems
    \/ q.kind = "retract" /\ q.item \notin node[q.feed]

Refuse ==
    /\ up /\ asked # <<>> /\ asked' = Tail(asked)
    /\ LET q == Head(asked) IN
       /\ \/ Impossible(q) /\ UNCHANGED trouble
          \/ trouble < MaxTrouble /\ trouble' = trouble + 1
       /\ inbox' = IF q.kind = "disco" THEN Append(inbox, [kind |-> "noinfo"]) ELSE inbox
    /\ UNCHANGED <<up, memory, disk, server, history, events>>

\* Somebody else publishes, also what is there again, or takes it back.
OthersPublish(f) ==
    /\ events < MaxEvents /\ events' = events + 1
    /\ \E i \in node[f] \cup ({next[f] + 1} \cap (1 .. MaxItems)) :
        /\ next' = [next EXCEPT ![f] = Max({@, i})] /\ node' = [node EXCEPT ![f] = @ \cup {i}]
        /\ inbox' = IF up THEN inbox \o Pushed(f, ItemPush(f, i)) ELSE inbox
    /\ UNCHANGED <<up, memory, disk, asked, payload, old, subs, mam, rich, history, trouble>>

OthersRetract(f) ==
    /\ events < MaxEvents /\ events' = events + 1
    /\ \E i \in node[f] : node' = [node EXCEPT ![f] = @ \ {i}]
    /\ inbox' = IF up THEN inbox \o Pushed(f, RetractPush(f)) ELSE inbox
    /\ UNCHANGED <<up, memory, disk, asked, payload, next, old, subs, mam, rich, history, trouble>>

-------------------------------------------------------------------------------
\* What the client does with what it receives.

\* Entries get their numbers and comments links; the lines of entries and of
\* descriptions are printed.
Entries(items)  == {x \in items : payload[x] = "entry"}
Readable(items) == {x \in items : payload[x] # "blank"}
Noted(items)    == known' = known \cup items
Printed(items)  == shown' = shown \cup Readable(items)

\* Printed because the client was told, not because it asked: only what is not
\* marked as seen, and that is marked.
Announce(items) ==
    /\ Noted(Entries(items)) /\ Printed(items) /\ seen' = seen \cup items
    /\ repeats' = repeats \cup (Readable(items) \cap shown)

\* A push without the payload is fetched, and marked when it is printed.
\* Mutant: it is marked at once.
FetchPushedMarks(f, i) ==
    /\ Noted({<<f, i>>}) /\ Ask(<<Single(f, i)>>)
    /\ seen' = seen \cup {<<f, i>>}
    /\ UNCHANGED <<shown, repeats>>

FetchPushed(f, i) ==
    /\ Noted({<<f, i>>}) /\ Ask(<<Single(f, i)>>)
    /\ UNCHANGED <<seen, shown, repeats>>

OnPush(m) ==
    /\ m.kind = "push" /\ Opened({m.feed})
    /\ \/ /\ <<m.feed, m.item>> \in seen
          /\ UNCHANGED <<known, seen, asked, shown, repeats>>
       \/ /\ <<m.feed, m.item>> \notin seen /\ m.rich
          /\ Announce({<<m.feed, m.item>>}) /\ UNCHANGED asked
       \/ /\ <<m.feed, m.item>> \notin seen /\ ~m.rich
          /\ FetchPushed(m.feed, m.item)
    /\ UNCHANGED <<mamKnown, disco, deferred, discoLost>>

OnRetract(m) ==
    /\ m.kind = "gone" /\ Opened({m.feed}) /\ Ask(<<Whole(m.feed)>>)
    /\ UNCHANGED <<known, seen, mamKnown, disco, deferred, history>>

\* From an archive only entries count.
OnArchived(m) ==
    /\ m.kind = "result" /\ Opened({m.feed})
    /\ Announce(Entries({<<m.feed, m.item>>}) \ seen)
    /\ UNCHANGED <<asked, mamKnown, disco, deferred, discoLost>>

\* A page is printed whatever was printed before, and its entries are marked.
\* Mutant: they are not.
PrintUnmarked(items) ==
    /\ Noted(Entries(items)) /\ Printed(items)
    /\ UNCHANGED <<seen, repeats>>

PrintPage(items) ==
    /\ Noted(Entries(items)) /\ Printed(items)
    /\ seen' = seen \cup Entries(items) /\ UNCHANGED repeats

\* Mutant: the buffer an answer opens is not registered.
OpenedByPageOnly(f) == chans' = chans \cup {f} /\ UNCHANGED registry

OpenedByPage(f) == Opened({f})

OnPage(m) ==
    /\ m.kind = "page" /\ OpenedByPage(m.feed)
    /\ IF m.stale
       THEN Ask(<<LastPage(m.feed)>>) /\ UNCHANGED <<known, seen, shown, repeats>>
       ELSE PrintPage({m.feed} \X m.items) /\ UNCHANGED asked
    /\ UNCHANGED <<mamKnown, disco, deferred, discoLost>>

\* trigger_publish_refetch
OnPublished(m) ==
    /\ m.kind = "published"
    /\ Ask(IF m.gone THEN <<Whole(m.feed)>> ELSE <<Single(m.feed, m.item)>>)
    /\ UNCHANGED <<memory, disk, history>>

OnList(m) ==
    /\ m.kind = "list"
    /\ LET feeds == m.feeds \ {Thread} IN Opened(feeds) /\ Ask(ForEach(Page, feeds))
    /\ UNCHANGED <<known, seen, mamKnown, disco, deferred, history>>

\* What waited for the discovery is asked for.
Flush(archives) ==
    /\ disco' = FALSE /\ deferred' = <<>> /\ discoLost' = FALSE
    /\ Ask([k \in DOMAIN deferred |-> IF archives THEN Archive(deferred[k]) ELSE Page(deferred[k])])

OnFeatures(m) ==
    /\ m.kind = "features" /\ mamKnown' = (mamKnown \/ m.mam)
    /\ Flush(m.mam)
    /\ UNCHANGED <<chans, known, disk, shown, repeats>>

\* Mutant: an error leaves what waits for it.
OnNoInfoForgets(m) ==
    /\ m.kind = "noinfo" /\ disco' = FALSE
    /\ UNCHANGED <<chans, known, mamKnown, deferred, asked, disk, history>>

OnNoInfo(m) ==
    /\ m.kind = "noinfo" /\ Flush(FALSE)
    /\ UNCHANGED <<chans, known, mamKnown, disk, shown, repeats>>

Receive ==
    /\ up /\ inbox # <<>> /\ inbox' = Tail(inbox)
    /\ LET m == Head(inbox) IN
       \/ OnPush(m) \/ OnRetract(m) \/ OnArchived(m) \/ OnPage(m)
       \/ OnPublished(m) \/ OnList(m) \/ OnFeatures(m) \/ OnNoInfo(m)
    /\ UNCHANGED <<up, server, events, trouble>>

-------------------------------------------------------------------------------
\* The stream and the program.

\* An account sends its last item to subscribers that come online.
LastItems ==
    LET s == SetToSeq({f \in Pep \cap subs : node[f] # {}})
    IN  [k \in DOMAIN s |-> ItemPush(s[k], Max(node[s[k]]))]

\* restore_feed, for every registered feed and every buffer left open.
OnConnect ==
    /\ ~up /\ up' = TRUE
    /\ LET restored == registry \cup chans
           waiting  == IF mamKnown THEN {} ELSE restored \ Pep
       IN  /\ chans' = restored /\ registry' = restored
           /\ deferred' = deferred \o SetToSeq(waiting)
           /\ disco' = (disco \/ waiting # {})
           /\ Ask(ForEach(Archive, (restored \ Pep) \ waiting) \o ForEach(Page, restored \cap Pep)
                  \o IF waiting # {} /\ ~disco THEN <<Discover>> ELSE <<>>)
    /\ inbox' = inbox \o LastItems
    /\ UNCHANGED <<seen, known, mamKnown, server, history, events, trouble>>

\* With the stream goes what is on its way, unless the session can be resumed.
Drop ==
    /\ up /\ up' = FALSE /\ trouble < MaxTrouble /\ trouble' = trouble + 1
    /\ \/ UNCHANGED <<asked, inbox, discoLost>>
       \/ asked' = <<>> /\ inbox' = <<>> /\ discoLost' = disco
    /\ UNCHANGED <<memory, disk, server, shown, repeats, events>>

Restart ==
    /\ trouble < MaxTrouble /\ trouble' = trouble + 1 /\ up' = FALSE
    /\ chans' = {} /\ known' = {} /\ mamKnown' = FALSE /\ disco' = FALSE /\ deferred' = <<>>
    /\ asked' = <<>> /\ inbox' = <<>> /\ discoLost' = FALSE
    /\ UNCHANGED <<disk, server, shown, repeats, events>>

-------------------------------------------------------------------------------
\* The user.

Command(queries) ==
    /\ up /\ events < MaxEvents /\ events' = events + 1 /\ Ask(queries)
    /\ UNCHANGED <<up, seen, known, mamKnown, disco, deferred, inbox, server, history, trouble>>

\* /feed <service> <node>
Fetch(f) ==
    /\ Command(<<Page(f)>>)
    /\ chans' = chans \cup {f} /\ registry' = registry \cup {f}

\* /feed comments #N
Comments(f, i) ==
    /\ <<f, i>> \in known /\ Command(<<Page(Thread)>>)
    /\ chans' = chans \cup {Thread} /\ registry' = registry \cup {Thread}

\* /feed, /feed subscriptions, /feed discover [--all]
Overview(all) == Command(<<List(all)>>) /\ UNCHANGED <<chans, registry>>

\* /feed subscribe, /feed unsubscribe
Subscribe(f, wish) ==
    /\ wish # Subscribed(f)   \* otherwise nothing changes
    /\ Command(<<Subscription(f, wish)>>) /\ UNCHANGED <<chans, registry>>

\* /feed post, and /feed repeat into a node of one's own
Post(f) == Command(<<Publish(f)>>) /\ UNCHANGED <<chans, registry>>

\* /feed reply #N goes to the comments.
Reply(f, i) ==
    /\ <<f, i>> \in known /\ Command(<<Publish(Thread)>>) /\ UNCHANGED <<chans, registry>>

\* /feed retract #N
Retract(f, i) ==
    /\ <<f, i>> \in known /\ Command(<<Withdraw(f, i)>>) /\ UNCHANGED <<chans, registry>>

\* The buffer is closed; queries for the feed may still be on their way.
Close(f) ==
    /\ events < MaxEvents /\ events' = events + 1
    /\ f \in chans /\ chans' = chans \ {f} /\ registry' = registry \ {f}
    /\ UNCHANGED <<up, seen, known, mamKnown, disco, deferred, asked, inbox, server, history, trouble>>

-------------------------------------------------------------------------------
User ==
    \/ \E all \in BOOLEAN : Overview(all)
    \/ \E f \in Feeds :
        \/ Fetch(f) \/ Post(f) \/ Close(f)
        \/ \E wish \in BOOLEAN : Subscribe(f, wish)
        \/ \E i \in 1 .. MaxItems : Comments(f, i) \/ Reply(f, i) \/ Retract(f, i)

FeedsNext ==
    \/ Serve \/ Refuse \/ Receive \/ OnConnect \/ Drop \/ Restart \/ User
    \/ \E f \in Feeds : OthersPublish(f) \/ OthersRetract(f)

FeedsSpec == FeedsInit /\ [][FeedsNext]_feedsVars

\* timer_cb reads and reconnects for as long as the program runs; the service answers.
FairFeedsSpec ==
    /\ FeedsSpec
    /\ WF_feedsVars(Serve \/ Refuse) /\ WF_feedsVars(Receive) /\ WF_feedsVars(OnConnect)

-------------------------------------------------------------------------------
\* No push and no archive prints an entry that was printed before, whoever asked for
\* it then, in this or an earlier session of the program (feed_item_seen guards both,
\* message_handler.inl:1220 and :363, and every place that prints one has to mark).
PrintedOnce == Entries(repeats) = {}

\* Whatever pushes and archives leave out as seen has been printed, unless it is blank:
\* an item of which the client only had a notice is not lost with the stream that was
\* to bring it.
SeenWasShown == Readable(seen) \subseteq shown

\* The feeds open now are those a restart brings back: what opens a buffer, also a
\* push or an answer that comes after the user closed it, registers it, and nothing
\* else stays registered.
OpenIsRemembered == chans \subseteq registry /\ (up => chans = registry)

\* A feed that waits for the discovery of its service is asked for in the end,
\* whatever the answer, unless that query went with an earlier stream: nobody then
\* asks again while the program runs.
DeferredIsAsked ==
    \A f \in Feeds \ Pep : f \in ToSet(deferred) ~> (f \notin ToSet(deferred) \/ discoLost)

\* "IQ results are explicit user fetches (/feed ...) so always render them"
\* (iq_handler.inl:852): once the items of a node are asked for, some are printed, if
\* there are any to read and neither the stream is lost nor the query refused.
FetchIsPrinted ==
    \A f \in Feeds :
        (\E q \in ToSet(asked) : q.kind = "items" /\ q.feed = f) ~>
            ({f} \X (1 .. MaxItems) \cap shown # {}
             \/ Readable({f} \X node[f]) = {} \/ trouble > 0)
===============================================================================
