------------------------------ MODULE HistorySync ------------------------------
(***************************************************************************)
(* The history of private conversations: the server's archive (XEP-0313),  *)
(* the catch-up after each connect, the fetch of each conversation, and    *)
(* what the LMDB cache keeps across restarts (connect_lifecycle.inl,       *)
(* message_handler.inl, iq_handler.inl, channel.cpp, lmdb_cache.inl).      *)
(*                                                                         *)
(* A message is its place in the archive and is stamped with it; the clock *)
(* reads one more than the last stamp, so no two things happen in the same *)
(* second.  Rooms, feeds and stanzas without a body are left out.          *)
(***************************************************************************)
EXTENDS Integers, Sequences, FiniteSets, SequencesExt

CONSTANTS
    Peers,        \* contacts
    Everyone,     \* the empty "with" of the global query
    PageSize,     \* results the server puts on a page
    CacheLimit,   \* messages mam_cache_load_messages shows: 100
    Window,       \* how far back 7 days reach
    Redelivery,   \* the server delivers again to a new process what the last one showed
    MaxMsgs, MaxDrops, MaxRestarts, MaxClicks, MaxRefusals, MaxPurged   \* bounds

ASSUME PeersAssumption == Everyone \notin Peers
ASSUME SizesAssumption == PageSize \in Nat \ {0} /\ CacheLimit \in Nat \ {0} /\ Window \in Nat
ASSUME RedeliveryAssumption == Redelivery \in BOOLEAN
ASSUME BoundsAssumption == /\ MaxMsgs \in Nat /\ MaxDrops \in Nat /\ MaxRestarts \in Nat
                           /\ MaxClicks \in Nat /\ MaxRefusals \in Nat /\ MaxPurged \in Nat

VARIABLES
    up,           \* the account is connected
    channels,     \* account.channels: the conversations that have a buffer
    lines,        \* lines[n]: how often message n stands in its buffer
    tagged,       \* messages whose line has its stanza_id_ tag; every line has id_
    queries,      \* account.mam_queries
    catchup,      \* omemo.global_mam_catchup
    lastTs,       \* disk: "timestamps", when a conversation was last fetched
    cache,        \* disk: "messages"
    pmOpen,       \* disk: the "pm_open:" keys
    cursor,       \* disk: the cursor "global", 0 when absent
    c2s, s2c,     \* queries, and what the server sends, on the current stream
    archive,      \* archive[n]: the contact of message n
    purged,       \* messages the archive has forgotten, from the first on
    pushed,       \* messages the server pushed on this stream
    held,         \* messages it will deliver again, delayed, on the next stream
    shown,        \* history: messages a buffer ever showed
    horizon,      \* history: messages older than the first catch-up reaches
    drops, restarts, clicks, refusals      \* for the bounds

memory  == <<channels, lines, tagged, queries, catchup>>
disk    == <<lastTs, cache, pmOpen, cursor>>
server  == <<archive, purged, pushed, held>>
history == <<shown, horizon>>
used    == <<drops, restarts, clicks, refusals>>
vars    == <<up, memory, disk, c2s, s2c, server, history, used>>

Msgs == 1..MaxMsgs
Now == Len(archive) + 1
Past == IF Now > Window THEN Now - Window ELSE 0
NoEnd == MaxMsgs + 1
Unknown == 0                  \* last_mam_fetch = 0
Closed == -1                  \* last_mam_fetch = -1: deliberately closed

Of(S) == {n \in DOMAIN archive : archive[n] \in S}

\* The messages S, oldest first.
InOrder(S) == {s \in [1..Cardinality(S) -> S] : \A i, j \in DOMAIN s : i < j => s[i] < s[j]}

Init ==
    /\ up = FALSE /\ channels = {} /\ lines = [n \in Msgs |-> 0] /\ tagged = {}
    /\ queries = {} /\ catchup = FALSE
    /\ lastTs = [p \in Peers |-> Unknown] /\ cache = {} /\ pmOpen = {} /\ cursor = 0
    /\ c2s = <<>> /\ s2c = <<>>
    /\ archive = <<>> /\ purged = 0 /\ pushed = {} /\ held = {}
    /\ shown = {} /\ horizon = 0
    /\ drops = 0 /\ restarts = 0 /\ clicks = 0 /\ refusals = 0

-------------------------------------------------------------------------------
\* Opening a conversation.

\* stanza::uuid(): an id no query of that contact has.
Fresh(p) == CHOOSE i \in 1..(Cardinality(queries) + 1) :
                \A q \in queries : q.with = p => q.nr # i

Ask(q, after) == [query |-> q, after |-> after]

\* The constructor asks for what came since the last fetch; ts is what it reads.
Fetch(p, ts) == [with |-> p, nr |-> Fresh(p), start |-> IF ts > 0 THEN ts ELSE Past, end |-> Now]

\* fetch_mam sends nothing when mam_queries holds a query of that contact.
Fetches(S, ts) == {Fetch(p, ts[p]) : p \in {r \in S : \A q \in queries : q.with # r}}

\* mam_cache_load_messages: the first CacheLimit messages, by their stamp.
Loaded(S, ts) ==
    {n \in cache : /\ archive[n] \in S /\ ts[archive[n]] > 0
                   /\ Cardinality({m \in cache : archive[m] = archive[n] /\ m < n}) < CacheLimit}

\* channels.emplace(make_pair(p, channel{...})) for the contacts S: the
\* constructor reads ts, loads the cache and asks the server; then ~channel of
\* the temporaries it was copied from marks p as closed, strikes it from the
\* restore list and (Kept) clears its cache.  The queries more are asked before.
Open(S, ts, more) ==
    /\ channels' = channels \cup S
    /\ queries' = queries \cup Fetches(S, ts) \cup more
    /\ c2s' = c2s \o SetToSeq({Ask(q, cursor) : q \in more})
                  \o SetToSeq({Ask(q, 0) : q \in Fetches(S, ts)})
    /\ lastTs' = [p \in Peers |-> IF p \in S THEN Closed ELSE lastTs[p]]
    /\ pmOpen' = pmOpen \ S
Kept(S) == cache \ Of(S)

\* Lines printed from the cache carry no stanza_id_ tag.
Show(old, new) ==
    /\ lines' = [n \in Msgs |-> lines[n] + (IF n \in old THEN 1 ELSE 0)
                                         + (IF n \in new THEN 1 ELSE 0)]
    /\ tagged' = tagged \cup new
    /\ shown' = shown \cup old \cup new

\* conn_handler(connect): the global query, after the cursor if there is one,
\* then the conversations of the restore list.  The server delivers what it
\* held when the initial presence arrives, which is before the query.
Connect ==
    LET restored == pmOpen \ channels
        global == [with |-> Everyone, nr |-> Fresh(Everyone),
                   start |-> IF cursor = 0 THEN Past ELSE 0, end |-> NoEnd]
    IN  /\ ~up /\ up' = TRUE
        /\ catchup' = TRUE
        /\ Open(restored, lastTs, {global})
        /\ Show(Loaded(restored, lastTs), {})
        /\ cache' = Kept(restored)
        /\ \E again \in InOrder(held) :
              s2c' = [i \in DOMAIN again |-> [kind |-> "late", n |-> again[i]]]
        /\ pushed' = held /\ held' = {}
        /\ horizon' = IF cursor = 0 /\ Past > horizon + 1 THEN Past - 1 ELSE horizon
        /\ UNCHANGED <<cursor, archive, purged, used>>

\* /open.
UserOpen(p) ==
    /\ up /\ p \notin channels /\ clicks < MaxClicks
    /\ clicks' = clicks + 1
    /\ Open({p}, [lastTs EXCEPT ![p] = Unknown], {})
    /\ cache' = Kept({p})
    /\ UNCHANGED <<up, lines, tagged, catchup, cursor, s2c, server, shown, horizon, drops,
                   restarts, refusals>>

\* buffer__close_cb: ~channel clears the cache and marks p as closed.
UserClose(p) ==
    /\ up /\ p \in channels /\ clicks < MaxClicks
    /\ clicks' = clicks + 1
    /\ channels' = channels \ {p}
    /\ lines' = [n \in Msgs |-> IF n \in Of({p}) THEN 0 ELSE lines[n]]
    /\ tagged' = tagged \ Of({p})
    /\ cache' = Kept({p})
    /\ lastTs' = [lastTs EXCEPT ![p] = Closed]
    /\ pmOpen' = pmOpen \ {p}
    /\ UNCHANGED <<up, queries, catchup, cursor, c2s, s2c, server, shown, horizon, drops,
                   restarts, refusals>>

-------------------------------------------------------------------------------
\* What the stream brings.

Receive(kind) == /\ up /\ s2c # <<>> /\ Head(s2c).kind = kind
                 /\ s2c' = Tail(s2c)

\* message_handler for a message as it is sent, which may bring a conversation
\* about.
OnLive ==
    /\ Receive("live")
    /\ LET n == Head(s2c).n
           p == archive[n]
           new == {p} \ channels
       IN  /\ Open(new, lastTs, {})
           /\ Show(Loaded(new, lastTs), {n})
           /\ cache' = Kept(new)
    /\ UNCHANGED <<up, catchup, cursor, server, horizon, used>>

\* The same with a <delay/>: it is dropped when its stanza_id_ tag is there.
\* Mutant: it is not looked for.
NotRedelivered(n) == FALSE
Redelivered(n) == n \in tagged

OnLate ==
    /\ Receive("late")
    /\ LET n == Head(s2c).n
           p == archive[n]
           new == {p} \ channels
       IN  /\ Open(new, lastTs, {})
           /\ Show(Loaded(new, lastTs), IF Redelivered(n) THEN {} ELSE {n})
           /\ cache' = Kept(new)
    /\ UNCHANGED <<up, catchup, cursor, server, horizon, used>>

\* Either tag, stanza_id_ or id_, tells a replayed message that is in the buffer.
Known(n, loaded) == lines[n] > 0 \/ n \in loaded

\* A <result/> of a conversation that has a buffer is cached, and shown unless
\* it is there already.
OnResult ==
    /\ Receive("result")
    /\ LET n == Head(s2c).n
       IN  /\ archive[n] \in channels
           /\ cache' = cache \cup {n}
           /\ Show({}, IF Known(n, {}) THEN {} ELSE {n})
    /\ UNCHANGED <<up, channels, queries, catchup, lastTs, pmOpen, cursor, c2s, server, horizon,
                   used>>

\* "MAM: discovered conversation with ...": the conversation is opened first.
OnDiscovery ==
    /\ Receive("result")
    /\ LET n == Head(s2c).n
           p == archive[n]
       IN  /\ p \notin channels /\ lastTs[p] # Closed
           /\ Open({p}, lastTs, {})
           /\ cache' = Kept({p}) \cup {n}
           /\ Show(Loaded({p}, lastTs), IF Known(n, Loaded({p}, lastTs)) THEN {} ELSE {n})
    /\ UNCHANGED <<up, catchup, cursor, server, horizon, used>>

\* It is marked as closed: not discovered, but cached and handed to
\* message_handler, which opens the conversation all the same.
OnReplayToClosed ==
    /\ Receive("result")
    /\ LET n == Head(s2c).n
           p == archive[n]
       IN  /\ p \notin channels /\ lastTs[p] = Closed
           /\ Open({p}, lastTs, {})
           /\ cache' = Kept({p})
           /\ Show({}, {n})
    /\ UNCHANGED <<up, catchup, cursor, server, horizon, used>>

Answered(m) == {q \in queries : q.with = m.with /\ q.nr = m.nr}

\* "Only page when the result set is not complete."  Mutant: never.
NoMorePages(m) == FALSE
MorePages(m) == m.last # 0 /\ ~m.complete

\* <fin/> of a conversation's query: the next page, or it is fetched and will
\* be restored.  Mutant: the global cursor moves along.
OnFinMovingCursor ==
    /\ Receive("fin") /\ Head(s2c).with # Everyone
    /\ LET m == Head(s2c)
       IN  \E q \in Answered(m) :
             /\ cursor' = IF m.last # 0 THEN m.last ELSE cursor
             /\ lastTs' = [lastTs EXCEPT ![q.with] = Now]
             /\ queries' = queries \ {q}
             /\ UNCHANGED <<pmOpen, c2s>>
    /\ UNCHANGED <<up, channels, lines, tagged, catchup, cache, server, history, used>>
OnFin ==
    /\ Receive("fin") /\ Head(s2c).with # Everyone
    /\ LET m == Head(s2c)
       IN  \E q \in Answered(m) :
             \/ /\ q.with \in channels /\ MorePages(m)
                /\ c2s' = Append(c2s, Ask(q, m.last))
                /\ UNCHANGED <<lastTs, pmOpen, queries>>
             \/ /\ q.with \in channels /\ ~MorePages(m)
                /\ lastTs' = [lastTs EXCEPT ![q.with] = Now]
                /\ pmOpen' = pmOpen \cup {q.with}
                /\ queries' = queries \ {q}
                /\ UNCHANGED c2s
             \/ /\ q.with \notin channels
                /\ queries' = IF m.last = 0 THEN queries \ {q} ELSE queries
                /\ UNCHANGED <<lastTs, pmOpen, c2s>>
    /\ UNCHANGED <<up, channels, lines, tagged, catchup, cache, cursor, server, shown, horizon,
                   used>>

\* <fin/> of the global query: the cursor is kept at every page, the next one
\* is asked for under a new id, and the last one ends the catch-up.
OnGlobalFin ==
    /\ Receive("fin") /\ Head(s2c).with = Everyone
    /\ LET m == Head(s2c)
       IN  \E q \in Answered(m) :
             /\ cursor' = IF m.last # 0 THEN m.last ELSE cursor
             /\ \/ /\ MorePages(m)
                   /\ LET next == [q EXCEPT !.nr = Fresh(Everyone)]
                      IN  /\ queries' = (queries \ {q}) \cup {next}
                          /\ c2s' = Append(c2s, Ask(next, m.last))
                   /\ UNCHANGED catchup
                \/ /\ ~MorePages(m)
                   /\ queries' = queries \ {q}
                   /\ catchup' = FALSE
                   /\ UNCHANGED c2s
    /\ UNCHANGED <<up, channels, lines, tagged, lastTs, cache, pmOpen, server, history, used>>

\* An IQ error, or a <fin/> with abort='true': the query is given up and the
\* cursor stays.  Mutant: the global catch-up goes on.
CatchupStays(m) == catchup
CatchupAfter(m) == catchup /\ m.with # Everyone

OnRefused ==
    /\ Receive("refused")
    /\ queries' = queries \ Answered(Head(s2c))
    /\ catchup' = CatchupAfter(Head(s2c))
    /\ UNCHANGED <<up, channels, lines, tagged, disk, c2s, server, history, used>>

-------------------------------------------------------------------------------
\* Streams and processes that end.  Nothing of the history's state is touched
\* when a stream ends; what a process held in memory is gone when it ends.

\* What the server may deliver again: nothing, or all that it pushed after some
\* point before which everything was handled.
Unhandled == {s2c[i].n : i \in {j \in DOMAIN s2c : s2c[j].kind \in {"live", "late"}}}
Unacked == {{n \in pushed : n > h} : h \in {k \in 0..Len(archive) : \A n \in Unhandled : n > k}}

StreamEnds == up' = FALSE /\ c2s' = <<>> /\ s2c' = <<>> /\ pushed' = {}

Drop ==
    /\ up /\ drops < MaxDrops /\ drops' = drops + 1
    /\ StreamEnds
    /\ held' \in {{}} \cup Unacked
    /\ UNCHANGED <<memory, disk, archive, purged, history, restarts, clicks, refusals>>

\* WeeChat quits or dies: accounts are never freed, so no destructor runs.
Restart ==
    /\ restarts < MaxRestarts /\ restarts' = restarts + 1
    /\ StreamEnds
    /\ \E h \in IF up THEN {{}} \cup Unacked ELSE {held} :
          held' = {n \in h : Redelivery \/ n \notin shown}
    /\ channels' = {} /\ lines' = [n \in Msgs |-> 0] /\ tagged' = {}
    /\ queries' = {} /\ catchup' = FALSE
    /\ UNCHANGED <<disk, archive, purged, history, drops, clicks, refusals>>

-------------------------------------------------------------------------------
\* The server (external: XEP-0313 with RSM, oldest results first).

SrvMessage(p) ==
    /\ Len(archive) < MaxMsgs
    /\ archive' = Append(archive, p)
    /\ s2c' = IF up THEN Append(s2c, [kind |-> "live", n |-> Len(archive')]) ELSE s2c
    /\ pushed' = IF up THEN pushed \cup {Len(archive')} ELSE pushed
    /\ held' \in IF up THEN {held} ELSE {held, held \cup {Len(archive')}}
    /\ UNCHANGED <<up, memory, disk, c2s, purged, history, used>>

Matches(q, after) ==
    {n \in purged + 1 .. Len(archive) :
        n > after /\ n >= q.start /\ n < q.end /\ q.with \in {Everyone, archive[n]}}

\* A page of what was found: its results, and the <fin/> with its last one.
Page(found) == SubSeq(found, 1, IF Len(found) < PageSize THEN Len(found) ELSE PageSize)
Results(page) == [i \in DOMAIN page |-> [kind |-> "result", n |-> page[i]]]
Fin(q, page, found) == [kind |-> "fin", with |-> q.with, nr |-> q.nr,
                        last |-> IF page = <<>> THEN 0 ELSE page[Len(page)],
                        complete |-> Len(page) = Len(found)]

SrvAnswer ==
    /\ up /\ c2s # <<>>
    /\ c2s' = Tail(c2s)
    /\ Head(c2s).after = 0 \/ Head(c2s).after > purged
    /\ LET ask == Head(c2s)
       IN  \E found \in InOrder(Matches(ask.query, ask.after)) :
             s2c' = s2c \o Results(Page(found)) \o <<Fin(ask.query, Page(found), found)>>
    /\ UNCHANGED <<up, memory, disk, server, history, used>>

Refuse(ask) ==
    s2c' = Append(s2c, [kind |-> "refused", with |-> ask.query.with, nr |-> ask.query.nr])

\* item-not-found: the archive no longer has the message to start after.
SrvNotFound ==
    /\ up /\ c2s # <<>>
    /\ Head(c2s).after \in 1..purged
    /\ refusals' = refusals + 1
    /\ c2s' = Tail(c2s)
    /\ Refuse(Head(c2s))
    /\ UNCHANGED <<up, memory, disk, server, history, drops, restarts, clicks>>

\* It may refuse or abort any query.
SrvRefuse ==
    /\ up /\ c2s # <<>> /\ refusals < MaxRefusals
    /\ refusals' = refusals + 1
    /\ c2s' = Tail(c2s)
    /\ Refuse(Head(c2s))
    /\ UNCHANGED <<up, memory, disk, server, history, drops, restarts, clicks>>

\* Retention.
SrvPurge ==
    /\ purged < MaxPurged /\ purged < Len(archive)
    /\ purged' = purged + 1
    /\ UNCHANGED <<up, memory, disk, c2s, s2c, archive, pushed, held, history, used>>

-------------------------------------------------------------------------------
ClientReceive == \/ OnLive \/ OnLate \/ OnResult \/ OnDiscovery \/ OnReplayToClosed
                 \/ OnFin \/ OnGlobalFin \/ OnRefused
ServerHandle == SrvAnswer \/ SrvNotFound \/ SrvRefuse

Next == \/ Connect
        \/ \E p \in Peers : UserOpen(p) \/ UserClose(p) \/ SrvMessage(p)
        \/ ClientReceive \/ ServerHandle
        \/ Drop \/ Restart \/ SrvPurge

Spec == Init /\ [][Next]_vars

\* timer_cb runs the event loop every second; the server answers its queries.
FairSpec == Spec /\ WF_vars(ClientReceive) /\ WF_vars(ServerHandle)

-------------------------------------------------------------------------------
\* What is expected of it.

\* No buffer shows a message twice, whether it came as it was sent, again with
\* a delay, from the archive by either query, or from the cache.
NoDuplicates == \A n \in Msgs : lines[n] <= 1

\* Whatever the cursor has passed was shown to the user: a crash at any moment
\* loses no message for the next catch-up ("we only fetch messages we haven't
\* seen yet").
CursorCovers == \A n \in 1..cursor : n \in shown \/ n <= horizon \/ n <= purged

Settled == up /\ c2s = <<>> /\ s2c = <<>>

\* When the catch-up is over and nothing is in flight, no message of the last 7
\* days is missing, unless the server refused a query.
CaughtUp ==
    Settled /\ ~catchup /\ refusals = 0 =>
        \A n \in purged + 1 .. Len(archive) : n \in shown \/ n <= horizon

\* The catch-up ends, however the server answers: until then OMEMO sends no key
\* transports.
CatchupEnds == (up /\ catchup) ~> (~catchup \/ ~up)

===============================================================================
