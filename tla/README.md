# TLA+ models of weechat-xmpp

This directory holds a TLA+ development of the weechat-xmpp plugin under `src/`: modules that model its
protocol logic, TLC configurations that check them on small instances, and TLAPS proofs of the results that
matter most. Paths such as `connection/stream_management.inl` are relative to `src/src/`.

    tlc -config StreamManagement_inbound.cfg StreamManagement.tla      # a run
    tlapm StreamManagement_proofs.tla                                  # the proofs

`PROJECT.json` lists the components, the runs, for every property of a passing run a mutated definition that
violates it, the lines each definition translates, the findings, the hazards and the theorems.

## 1. The system

The plugin is one process with one thread that keeps its state: WeeChat calls it back (commands, timers, hooks), and
`timer_cb` runs libstrophe's event loop (`xmpp_run_once`) for each account, which calls the connection, iq, message and
presence handlers. A callback runs to its end, so each action of a model is one callback. Uploads, downloads
and previews have worker threads, whose result a callback takes up later (`BackgroundWork`). What makes the
code hard is less the parallelism than everything that outlives a callback: a stream can end between any
two stanzas, the server's answers arrive in a later callback or never, three stores (memory, LMDB, the
server) keep parts of the same facts, and the process can die between any two writes.

| Component | State it keeps | Operations | Interacts with |
|---|---|---|---|
| Stream management (XEP-0198): `connection.cpp`, `connection/stream_management.inl` | `sm_enabled`, `sm_available`, `sm_id`, the two counters, `sm_outqueue`, the ack timer | enable, resume, acknowledge, retransmit | every handler counts; every `send()` queues; reconnection decides what survives |
| Account life cycle: `account.cpp`, `connection/connect_lifecycle.inl`, `command/account.inl` | `is_connected`, `disconnected`, `reconnect_start`, `reconnect_delay`, the resource | connect, disconnect, `timer_cb` | starts and ends everything else |
| Client state and idle presence: `account/callbacks.inl` | `csi_active`, `xep0319_idle_sent`, `last_activity` | `idle_timer_cb`, `activity_cb` | hooked and unhooked by the life cycle |
| Connection event dispatch: `connection/connect_lifecycle.inl` | handler registrations | the initial burst after connecting: presence, queries, restored buffers | all |
| Message history: `channel.cpp`, `account/lmdb_cache.inl`, `message_handler.inl`, `iq_handler.inl` | `mam_queries`, `global_mam_catchup`; on disk the cursor, messages, timestamps and the list of open conversations | global catch-up, conversation fetch, paging, cache, deduplication, `/open`, close, restore | OMEMO waits for the catch-up to end |
| Group chats: `presence_handler.inl`, `command/channel.inl`, `command/rooms.inl`, `command/muc_admin.inl` | channel, members, `joining` | enter, leave, kicked, nick change, self-ping, catch-up at status 110 | history, bookmarks |
| OMEMO: `omemo/`, `command/encryption.inl` | the signal store in LMDB, device lists, bundles in flight, the queue, postponed key transports | encode, decode, session repair, prekey replacement, publishing | history (postponement), PEP |
| Receipts, markers, chat states, displayed synchronisation: `message_handler.inl`, `channel.cpp`, `input.cpp`, `buffer.cpp` | `unreads`, glyphs in lines, `typings`, `last_sent_chat_state` | on message, on focus, on key, on PEP event | history (replays are silent) |
| Corrections, retractions, reactions, moderation: `message_handler.inl`, `command/history.inl` | tags in buffer lines; retractions in LMDB | one handler each; `/edit`, `/retract`, `/reply` | history (replay, cache) |
| Feeds and pubsub: `message_handler.inl`, `iq_handler.inl`, `command/muc_admin.inl` | feed buffers, their registry and seen items in LMDB, maps of queries | push, archive, page, publish, retract, subscribe, restore | discovery, uploads (embeds) |
| Uploads and downloads: `command/rooms.inl`, `iq_handler.inl`, `account/callbacks.inl`, `connection/helpers.cpp` | `upload_requests`, `pending_uploads`, `pending_feed_posts`, `g_esfs_downloads`, threads, pipes | slot request, transfer, completion | feeds, OMEMO, the stream |
| Link previews: `connection/helpers.cpp`, `command/links.inl` | `g_og_fetches`, `g_og_pending`, the cache in LMDB | fetch, queue, callback | threads, as above |
| Roster, bookmarks, subscriptions | `roster`, `bookmarks` | push, result, approval | rooms (autojoin) |
| Capabilities, vCards, avatars, PGP | caches | request and answer | display |
| Picker, commands, input, buffers, configuration | user interface state | — | call the above |

What makes each correct, in a sentence: stream management loses and repeats nothing; the life cycle never
strands an account nor storms a server; client state on the server is the client's; history shows every message
once, in both senses; a room the user is in is a room he sees; an OMEMO message is decrypted by those it was
meant for and a broken session repairs itself; what was read is read everywhere; a retraction holds whatever order it comes in;
an entry of a feed is announced once; a post goes out whole or is kept as a draft, and a file is fetched once.

The hard behaviours, line by line, are the `hazards` of `PROJECT.json`.

## 2. The modules

| Module | Models | Code |
|---|---|---|
| `StreamManagement` | the client's XEP-0198 and a conforming server over streams that break | `connection.cpp`, `connection/stream_management.inl`, SM parts of `connect_lifecycle.inl`, `account.cpp`, `account/callbacks.inl` |
| `SessionDelivery` | abstract: each session's stanzas are handled in order, once | what `StreamManagement` promises inbound |
| `AccountLifecycle` | connecting, backoff, conflict, client state and idle presence of one account | `account.cpp`, `account/callbacks.inl`, `connect_lifecycle.inl`, `command/account.inl` |
| `HistorySync` | private conversations: archive, catch-up, cache, restarts | `channel.cpp`, `account/lmdb_cache.inl`, `message_handler.inl`, `iq_handler.inl`, `connect_lifecycle.inl` |
| `Rooms` | group chats: entering, leaving, kicks, nicklists, bookmarks and autojoin, self-ping | `command/channel.inl`, `presence_handler.inl`, `channel.cpp`, `buffer.cpp`, `account/lmdb_cache.inl` (bookmarks), `command/roster.inl`, `command/notify.inl`, bookmark parts of `message_handler.inl` and `iq_handler.inl` |
| `OmemoSessions` | sessions with a contact's devices, trust, lists, bundles, the message queue, repair, prekeys | `omemo/`, `command/encryption.inl`, OMEMO parts of `channel.cpp`, `message_handler.inl`, `iq_handler.inl`, `connect_lifecycle.inl` |
| `Conversation` | the lines of one conversation: corrections, retractions, moderation, the message cache | `message_handler.inl`, `command/history.inl`, `account/lmdb_cache.inl`, `channel.cpp` |
| `Attention` | receipts, markers, the unread list and its synchronisation, status glyphs, reactions, chat states | `message_handler.inl`, `channel.cpp`, `input.cpp`, `buffer.cpp` |
| `BackgroundWork` | previews, downloads, uploads and the posts that wait for uploads: threads, pipes, callbacks | `connection/helpers.cpp`, `iq_handler.inl`, `account/callbacks.inl`, `command/rooms.inl`, `command/muc_admin.inl`, `account.cpp` |
| `Feeds` | feed buffers, their registry, seen items, queries, discovery, the `/feed` commands | `message_handler.inl`, `iq_handler.inl`, `command/muc_admin.inl`, `connect_lifecycle.inl`, `account/lmdb_cache.inl` |
| `StreamManagement_proofs` | theorems about `StreamManagement`: the negotiation, that it implements `SessionDelivery`, what can be lost | |
| `AccountAndFeeds_proofs` | theorems about `AccountLifecycle` and about `Feeds`, side by side: the two share no state and no name | |
| `HistorySync_proofs`, `Rooms_proofs`, `OmemoSessions_proofs`, `Conversation_proofs`, `Attention_proofs`, `BackgroundWork_proofs` | theorems about the module they are named for | |

The modules are parameterised by CONSTANTS and are instantiated by their `.cfg` files directly: every constant is a
number, a flag or a set of model values, so no MC module is needed. How they compose: `StreamManagement` justifies
that the other modules treat the stream as first in first out, with what is in flight either kept whole (a resumed
session) or lost whole; `HistorySync` justifies the catch-up of a contact in `Conversation` and gives `OmemoSessions` its `catchup`;
`Feeds` publishes posts whose uploads `BackgroundWork` has done.

### StreamManagement

The variables `smEnabled`, `smAvailable`, `smId`, `hIn`, `hOut`, `outq` are the fields of `weechat::account`.
`c2s` and `s2c` are the two directions of the current stream, first in first out; a stream that
ends loses what is in them. `Connected` is `conn_handler(connect)`: it sends `<resume/>` or
`<enable/>` and, in the same callback, its burst of `Burst` stanzas. `OnEnabled` … `OnStanza` are the
branches of `sm_handler` and the counting of the other handlers; `AckTimerTick` is the 30 s
timer, which the code hooks by overwriting `sm_ack_timer_hook` (`Hooked`: an earlier timer runs on, unnamed). `LinkLost`,
`CleanClose` and `UserDisconnect` are the three ways a stream ends; they differ in what of the state they reset.

The server is external: it enables, resumes or refuses as XEP-0198 lets it, may give an id without offering
to resume, replays what the client's `h` lacks, may ask for acknowledgements, and may forget a session no stream serves.
`EarlyPush` says whether it routes stanzas to a bound stream before it has answered `<enable/>` or
`<resume/>`. The runs set it FALSE: XEP-0198 leaves the numbering of such stanzas open, and the code's counter
would take them for stanzas of the session to be resumed.

### AccountLifecycle

`conn` is libstrophe's view of the connection and `isConnected`, `disconnected`, `armed` are the account's, since the
code consults both and they disagree while a connection is closing. `told` is what the current stream said last of the
client's state; because a stream keeps order it is what the server believes. Time is abstracted to whether a deadline has
passed, so a timer may be arbitrarily late. The initial resource may be empty (0) or configured (1).

### HistorySync

A message is its place in the server's archive. Memory (`channels`, `lines`, `tagged`, `queries`, `catchup`), disk
(`lastTs`, `cache`, `pmOpen`, `cursor`), stream and server are separate variables; `Drop` keeps memory and disk, `Restart`
only the disk. One action per callback: `Connect` issues the global query and restores conversations, `OnLive`, `OnLate`
are messages as they are sent or delivered with a delay, `OnResult`, `OnDiscovery`, `OnReplayToClosed` the three things
an archive result can lead to, `OnFin` and `OnGlobalFin` the end of a page, `OnRefused` an IQ error or an aborted query.

Opening a conversation is written out as it happens: `channels.emplace(std::make_pair(jid, weechat::channel{...}))`
copies the channel (its user-declared destructor leaves it no move constructor), and `~channel` of the temporaries clears
the conversation's cache, marks it as deliberately closed and strikes it from the restore list; the fetch that the
constructor started repairs the marks when its `<fin/>` arrives (`Open`, `Kept`, `OnFin`).

`lines[n]` counts how often a message stands in its buffer, `tagged` which lines carry the `stanza_id_`
tag: cached and live lines differ in it, and the two deduplications look for different tags (`Redelivered`, `Known`).
What the server pushed on a stream and will deliver again is a set of messages (`pushed`, `held`), and so is what a query matches; both arrive
oldest first (`InOrder`). `Redelivery` says whether the server hands a new process again what the last one had already shown. The run
sets it FALSE, and `NoDuplicates` is proved for that case only; see the known divergences.

The clock is the archive's length plus one, so two events never fall into the same second; the code compares
seconds, and what happens within one second is not modelled.

### Rooms

`channels`, `joining`, `buffers`, `nicklist`, `bookmarks` and `pings` are the client's (`account.channels`, the flag of a
channel, WeeChat's buffer and its nicklist, `account.bookmarks`, `account.user_ping_queries`); `member`, `occupants` and
`stored` are the server's. Each stanza of the stream is one kind of record and one action takes it: `OnHere`, `OnAway`, `OnRefused`
are the presence handler, `OnMessage` what a message does to the list of channels, `OnItemOn`, `OnItemOff`, `OnRetract` the XEP-0402
events, `OnPrivate` the XEP-0049 result, `OnPong` the answer to a self-ping. A bookmark event runs the commands the
code runs: `/enter` on the account's buffer, `/close` on the room's, so these actions contain `Opens` and a join, `Closes` and a leave.

`Drop` is `disconnect()`, which empties every nicklist and keeps the channels. The next stream
resumes the session with all that was in flight (`ConnectResumed`) or starts a new one (`ConnectNew`), in which the
server has the user in no room. Neither enters a room: the connection handler leaves that to the bookmarks. (A room's
traffic over a resumption is `StreamManagement`'s subject; here it is exact.)

The server handles what it was sent before the client takes the next callback. What the client can see is
only the order of `s2c`, and a slow server is the same as one whose later stanzas are late, so this loses no
behaviour but a lost link catches at most the requests of the last callback.

A buffer closed while the account is offline leaves its channel behind (`Dangling`), with a pointer to a buffer that is gone; and "Kicked
from room" is printed to `channel->buffer` without a test of `channel`. Both are undefined behaviour: the process ends (`Dies`) or, for the
first, the call does no harm (`OnDangling`); dereferencing the null channel always ends it.

A nick change is a departure and an arrival, as the code treats it for the nicklist. The user's
own occupant is `Me` whatever its nick, and a leave takes out the session, whatever nick it names. History variables: `missed` (who left a
room unseen), `emptied` (rooms whose list a drop emptied in a session that went on), `out` (open rooms the user was told he is not in),
`closed` (rooms he closed, until anyone enters or bookmarks them again).

### OmemoSessions

`om` is the client's state as it concerns one contact: the guards of `omemo.hh` (`missing`, `fetching`, `attempted`, `postponed` …
are the sets of the same purpose there), what LMDB keeps (`listed`, `bundle`, `ours`, `trust`, `records`, `index`), and what was
sent. Cryptography is perfect: a prekey is a token and a session is what both ends hold. A record of libsignal is the current session and
the set of all that it keeps. A session made with one of our prekeys names it, so reuse shows. Where the code goes over the devices of a
list, one operation takes the set of them (`Establish`, `RequestBundles`, `SendKeyTransports`), since what is done for one touches no other. The actions are the answers of the server (`OnDevicelist`, `OnBundle` and their errors, `OnPublished` …),
messages live and from the archive (`OnLive`, `OnReplay`), the end of the catch-up with what it postponed (`OnFin`), the user's
sending and `/omemo` commands, and the contact's devices (external): they send, read, start over, forget their sessions.
The account's own devices appear as one that always has a session (`OwnKeys`): what a message needs of them. An error may or may not
repeat what was asked for: one that repeats `<items/>` is read as an answer (`OnDevicelistError`, `OnBundleError`).

### Conversation

A stanza is its place in the archive, a text is the stanza that wrote it, and a line keeps which kinds of id are in its tags
(`own`: the sender's, `sid`: the archive's), for the searches differ in which they look for and a server may or may not
stamp stanzas. `style` fixes, for a behaviour, a room or a contact, clients with or without origin-ids, a stamping server or not.
`MessageHandler` runs for each stanza, live or archived. `Connect` is a contact's: the global catch-up goes on where the last one was, up to whatever is there when
it ends. `JoinRoom` is a room's status 110: only a channel that is `joining`, so only one made since the start of the program, loads its cache and asks the archive, up to
the moment it asks (`upto`); a room joined again does neither. `Settled` compares the buffer with a reference definition: the latest version by the author among the
stanzas that were handled. What a room sends live about a message whose fetch is running may come before the line, and is not repeated (`crossed`, a history variable):
`Settled` excepts such lines.

### Attention

A message of the contact is its place, which is the order of their stanza-ids. `inbox` holds all the server sends: messages
(`how`: live, delayed, carbon, archive), notifications of what was displayed, receipts and markers, reactions, chat states.
`unreads` and `published` are the two ends of XEP-0490; each of the user's lines has what stands behind its text and,
as history, what the contact did with it. `chat` is the support flag and the tracker. `users` are the entries of `account.users`, which presences and
chat states make: a message ends the typing, kept by bare JID, only if `user::search` finds its full one (`TypingAfter`), and once the client's own JID is among them chat states are
asked of and sent to that JID (`ToSelf`). `composers` is the history `TypingIsHeard` compares with: it follows what the contact's devices said, not what the code made of it.

### BackgroundWork

A job is a record with the state of its thread; the steps called `…Worker` are a thread's, everything else is the main
thread's. A preview's queue, its limit and the drain in the callback; a download's two guards, in memory by link and on disk by stable id; an
upload's three maps keyed by slot id and by file descriptor, and the post that moves from key to key as its embeds are stored.
`StreamLost` is `account::disconnect`, which joins the threads and so lets them finish, and then drops their results.
`stored`, `published`, `shared` and `drafts` are what the outside has. `ids` says what a message is known by when it comes live: the archive's id (`stamped`), its
sender's, or none; the archive brings it under its own (`StableId`), and so `records`, `displayed` and `announced` are by stable id, not by message.

### Feeds

A query carries the entry the code keeps for it (`pubsub_fetch_ids` and the like), since the entry matters only when the answer
comes; `disco` and `deferred` are kept apart, since other code reads them. Pushes, pages, archives and echoes come through one
stream. The service is external: it may answer with the oldest or the latest page, have an archive or none, push entries or bare
notices (`rich`). `Long` are nodes with more old items than a page holds; those items are not modelled, only what their presence
makes of a page (`StalePage`). An item (`payload`) is an entry or, in the nodes `Described`, perhaps a description of the node (`<feed>`), which has a title or is blank. A push marks whatever it prints, a
page only entries, and from an archive only entries are printed. Items of the model are numbered in the order of their dates, and those up to `old` are older than thirty days.

## 3. The runs

| Run | Configuration | Result | Shows |
|---|---|---|---|
| `sm_inbound` | `StreamManagement_inbound` | pass | in each session the client handles the server's stanzas in order, exactly once; `SessionDelivery` is implemented |
| `sm_outbound` | `StreamManagement_outbound` | pass | types; the queue is aligned with its counter; wrongly acknowledged stanzas are at most the uncounted ones; no closed session is resumed; negotiations end; a queue with a timer drains |
| `account` | `AccountLifecycle` | pass | agreement on client state, revocable idle presence, conflicts escaped, reconnects tried, idle users reported |
| `hs_catchup` | `HistorySync` | pass | no message twice; the cursor covers only what was shown; nothing of the window is missing after a catch-up; every catch-up ends |
| `rooms` | `Rooms` | pass | nicklists show who is there; the user is in no room that is closed; autojoined rooms are entered or he knows that he is out; bookmarks agree with the server's; a join ends |
| `omemo` | `OmemoSessions` | pass | failed devices get a key transport; nothing stays queued unless an answer failed; the published bundle is the kept one; a prekey serves one session |
| `conversation` | `Conversation` | pass | lines show their author's last version, in a room unless an amendment crossed the fetch; only authors and the room change them; a contact's retraction holds for the reloaded cache |
| `attention` | `Attention` | pass | one answer to a message; published places advance; glyphs are true; the contact is shown typing only while a device of it composes |
| `background` | `BackgroundWork` | pass | a file is announced once under each stable id: once if the server stamps its message, else twice at most; posts go out whole, with their own files; queued previews get their turn |
| `feeds` | `Feeds` | pass | pushes and archives print no entry again; what is marked seen was shown; open buffers are the registered ones; what waits for a discovery is asked for |
| `attention_unread` | `Attention_unread` | violated | the notification of one displayed message empties the whole unread list |
| `feeds_quiet` | `Feeds_quiet` | violated | the last page of a quiet node is taken for stale and asked for without end |

Type invariants are kept where they carry a proof (`StreamManagement`).

### Bounds, and why they are enough

* `MaxDrops`: 2 in the `StreamManagement` runs, so that a session is resumed and the resumed one lost again: a third
  drop meets the same states, for nothing but the counters remembers how many there were. In `AccountLifecycle` 7, the
  number of failures after which the backoff has reached its cap twice.
* `Burst` 1, `MaxUser` 1, `MaxSrv` 3: one stanza is enough to be lost, repeated or miscounted; three per session let
  one be acknowledged, one replayed and one follow. `sm_inbound` has no client stanzas and `sm_outbound`
  no server stanzas: the two directions share `smEnabled` and the session, which both runs have, and no counter.
* One `<r/>` each way at a time (in the guards of `AckTimerTick`, `SrvAsk`): a second one is answered the same.
* `HistorySync`: one conversation, two messages, one a page, two drops and a restart: three streams, two processes and a drop before, between
  and after the pages. `Window` is 2, so both messages lie within it (with 1 the window is too short for `CaughtUp` to notice a missing page). Runs
  with three messages, the first of which falls out of the window, and with two contacts, which share only the cursor and the global query, are too long to be kept and found nothing else.
* `Rooms`: one room and one other occupant, two commands, one event of others, one drop, one refusal, any bookmark and occupants on the server.
  The rooms share only the list that `Publish` sends and the streams. Every disjunct of the
  next-state relation fires. Runs with two rooms (2 commands, 1 event), with three commands and with two events, too
  long to be kept, found no further violation.
* `OmemoSessions`: two devices, so that one fails while the other works, one place in a batch of prekeys, so that every new session takes the same,
  one message of the user, two of the contact, one trouble (a command, a lost link, a forgetful device).
* `Conversation`: three stanzas (a message, an amendment, and another of either) and two troubles, so a cache is filled, lost and loaded; `CacheLimit` 2
  is below the number of stanzas, as the cache of a long conversation is to the code's 100.
* `Attention`: two messages each way, three deliveries, one trouble: an older and a newer place, a replay, and one stream or process after the first.
  The contact has two devices, so one may compose while the other writes; they are symmetric. `attention_unread` needs one device, and neither own messages nor trouble.
* `BackgroundWork`: one slot for two links, so one waits; two messages that share a file, each known by any kind of id; two posts of two embeds and one file, three jobs, one failure or restart: a message
  comes live, again after its conversation was closed or the program restarted; two chains of uploads run beside each other and one of them breaks. Runs of each kind of job alone, with four links for two slots, two
  files and five deliveries, two files to share and four jobs, and two troubles each, found nothing else.
* `Feeds`: a feed of the service and a user's node, which take different ways at every connect; one item each that may be published again, two
  events, one trouble. The items of the service's feed may be descriptions (`Described`), those of the user's node, which is also the one with the comments, are entries. A subscriber to both is the
  starting point, since all pushes need one. `feeds_quiet` needs no trouble. A run in which all items may be descriptions, without the liveness property, found nothing else (7.8 million states).
* `CHECK_DEADLOCK FALSE`: all bounds used up, nobody has to act; the program waits in its event loop.

### Fairness, and why the code justifies it

`timer_cb` is hooked for every second and runs the event loop, so what has arrived on a live stream is handled:
WF of `ClientReceive`, `Receive`. A server that is connected handles what it is sent (external): WF of `ServerHandle`, `Serve \/ Refuse`. The ack, idle and
reconnect timers are periodic hooks: WF of `AckTimerTick`, `IdleTimer`, `Reconnect`, and of `OnConnect` in `Feeds`. A dialled connection is established
or fails: WF of `Connected`. A preview's thread ends, for curl has a limit of ten seconds there, and WeeChat
runs the hook of a readable pipe: WF of `OgWorker` and `OgFetchCb` (uploads and downloads have no limit, and no fairness). No fairness is put on streams breaking, users, pushes, purges or refusals.

## 4. What is proved

Thirty-two properties that some run checks are theorems, for every value of the constants, from the named assumptions on them (naturals, booleans, for `Rooms` finite sets of
rooms and occupants, for `OmemoSessions` that no device is the name of the list).

* `StreamManagement_proofs`: `TypeCorrect`. One lemma per group of actions. Beyond types it says
  that a session exists whenever the server holds or counts one and that each session has one log. The only arithmetic in
  it is that popping the queue's front ends somewhere in `0..Len(q)` (`ConfirmedRange`, from the
  least-element principle), which the CHOOSE in `Confirmed` needs.
  `QueueAlignedCorrect` and `ResumeIsOpenCorrect` are in the same module. Neither is inductive. An `<enabled/>` that came when the
  client already counted would misalign the queue, and a `<resume/>` could name a dead session if two negotiations overlapped.
  The inductive invariant `NegotiationInv` adds to the types: at most one question or answer is on a stream (`OneNegotiation`); only an
  established stream of an available client has any (`NegotiatesWhenAvailable`); an id is held while its `<resume/>` is
  in flight (`ResumeHoldsId`); the queue is aligned or the stream is about to restart the numbering (`AlignedOrRestarting`); and the
  ids at hand are not over (`KnownIds`). Lemmas about appending to and taking from a channel (`ConcatKeeps`, `AppendKeeps`,
  `TailKeeps`) carry the first three through every action.
* `StreamManagement_proofs`, second part: `InboundExactlyOnceCorrect` and `DeliveryCorrect`, under `~EarlyPush`, as in the runs: with early pushes the former is false (§2). That the
  log has no gap does not by itself survive a step; why it has none is a chain through the stream. `DeliveryInv` says: nothing else goes before the
  client's request on a stream (`OneStream`), and nothing comes back before its answer, for the server is silent until then (`Served`); once the request is answered, each stanza on the way
  has the number the client's count will have when it is read (`InStep`, over `Upto`: a function of the place in the channel that says what will have been handled there), and that count
  is the length of the log of the session the request names. A `<resumed/>` replays from the `h` of the `<resume/>`, which is why the count and not what is in flight decides what comes. The
  refinement is then a case per action: a handled stanza is the abstract `Handle` of the last session, all else is `Open`, `Post` or a stutter.
* `StreamManagement_proofs`, third part: `LossBoundedCorrect`, with early pushes and without. A stanza is lost when an `h` stands for a queued one that the server never had, and `LossBounded`
  alone says nothing about the next `h`. The argument counts along the channel. Follow the server over what is on its way to it: of as many stanzas as it then has handled, all but `uncounted`
  are in `acked` or the queue while the session waits to be resumed (`ResumableRun`, over `TrackedAlong`), and are ones that this number itself stands for once the stream is established
  (`EstablishedRun`, over `CoveredAlong`). An `h` on its way is at most one of these numbers and comes after the answer that opened the stream (`ReportsHandled`), and `acked` and the queue together are
  no more than `hOut`, of which the server lacks at most the queue (`QueueKept`). So what is missing from the server's side of the count is all that can be missing from `acked`. While a session opens, all that was sent is
  uncounted (`OpeningRun`), and `<enabled/>` starts the numbers from nothing; a resumption's copies go behind what is on its way (`ResumeAlong`), and each either fills a place that was missing or is
  uncounted itself.
* `AccountAndFeeds_proofs`, of `AccountLifecycle`: `CsiAgreesCorrect` and `IdleIsRevocableCorrect` are inductive together with the types: what is told is the exclusive or of
  what was told and what the flags say is due, so one wrong flag would invert it for good. `ConflictEscapedCorrect` needs that the empty resource (0) is
  never connected under, so that a conflict always gives up the resource in use, and that there are no more conflicts than streams that ended: by cardinality one
  of `drops + 2` resources is unused (`FreshExists`), which the CHOOSE in `Fresh` needs.
* `HistorySync_proofs`: `CursorCoversCorrect`, `CaughtUpCorrect`, and `NoDuplicatesCorrect` under `~Redelivery`, since with redelivery it is false (§5). The first two are conjuncts of `HistoryInv`. A `<fin/>` moves the cursor
  to a message whose result came some callbacks before, and the next page goes on from there, so the invariant follows the stream: all that is on its way is archived (`ArrivalInv`); a query starts after
  what is covered and its page leaves nothing out (`QueryInv`); each `<fin/>` of the global query that reaches message `n` comes after `n`'s result, or `n` is covered (`CursorInv`); and while a catch-up runs
  there is a global query on its way, or a page on which another follows, or all of the window is covered or on its way (`CatchupInv`). `NoDuplicates` is inductive with
  `PushedInv`: a message that the server pushed or holds back stands under the tag the search looks for, or neither in the buffer nor in the cache, and nothing else that brings it comes before its live copy.
* `Rooms_proofs`: `NicklistExactCorrect`, `ClosedIsLeftCorrect`, `AutojoinJoinsCorrect`, `BookmarksAgreeCorrect`. All four speak of states in which nothing is in flight, so none is
  inductive. `RoomsInv` says of every state what each becomes while something is: either the last thing on its way about the matter sets it right (`Ends`: something of one
  kind, and nothing of the opposite kind after it), or nothing on its way disturbs it (`Free`) and it is right already. So a closed room is one whose last request is to leave it, or that
  is neither entered nor requested (`LeftInv`); who is out of a room will be told, unless he asked to enter it (`ToldInv`); a bookmark that the client has not got is on its way or about to be
  asked for (`BookmarkInv`); of each occupant the last word is that he came, and of everyone else that he went (`SeenInv`, `UnseenInv`). An action that appends keeps the first form or
  restores it, one that reads turns the first form into the second; `Concatenated` and `Consumed` do this once for all. That `SetToSeq` lists every member of a finite set, which the greeting of a
  room and the pushes of a publish rest on, is `Listing`, by the pigeonhole principle. `RoomsInv` was checked by TLC with one room and with two before it was proved (`RoomsInvCorrect`).
* `OmemoSessions_proofs`: `OneTimeCorrect`, `PublishedIsIndexCorrect`, `FailureIsRepairedCorrect`, `QueueIsSentCorrect`. The client's state is one record and a handler is a chain of operations on it. `Step` relates two
  such states: nothing that a device in need rests on is taken back (`Grows`), a new index is published or remembered (`Publishes`), and what holds of keys and of the queue is kept (`Keeps`). It is transitive, a lemma
  shows it of every operation, and most actions need no more. The invariant has a part per property. `KeysInv`: the key of a session is no record any more, and all keys are of batches and numbers already given out, so that
  a new one is new. `PublishInv`: the index is published or on its way, or `republish`, the node's configuration or the catch-up still has to publish it, or a publication was lost with its stream. `NeedsInv`: a device in need
  was asked for its bundle with a key transport noted for the answer, or is postponed, with a session that `attempted` keeps from being dropped before the catch-up ends. `QueueInv`: while nothing hinders (`Easy`), what is
  queued awaits an answer that is on its way, the list's or a listed device's (`Awaited`).
* `Conversation_proofs`. `AuthorOnlyCorrect`: a line fits the archive and what was handled of it (`Fits`): it names the author it has, its text is of that author, a tombstone has
  its retraction among what was handled. `SettledCorrect` needs `EffectInv`: what was handled is in effect as far as it is `Covered`. For a contact that is a prefix of the archive, up to where the catch-up is
  or, if a lost link ended it, began; each handled stanza extends it: the one search for the newest line finds the only line that the stanza can be about, for one message has one line that names its author (`One`), and
  later stanzas name earlier ones (`EffHandled`). The hard case is a result that is dropped because its own text is in the buffer; lines out of the cache, of corrections and retractions too, were loaded before
  anything was handled (`ContactCache`). In a room all that was handled is covered, save what is excepted, for a room's fetch runs once: the archive's results come in order, and what
  came live meanwhile is after the fetch and about no message of it, or is in `crossed` (`RoomOrder`). `DeletedOnReloadCorrect`: every retraction that was
  handled is in the cache by the id it names, and a contact names its messages by the id the cache has of them.
* `Attention_proofs`, three inductive invariants. `TypingInv`, for `TypingIsHeardCorrect`: while typing is shown, the conversation is open and a device that composes is a user, for the state that
  showed it made its sender one; a message of that device is found by its full JID, and a message of another leaves the first composing. `PlaceInv`, for `AnsweredOnceCorrect`
  and `PlacesAdvanceCorrect`: the live messages on their way are in order, unanswered and after all that is unread, and what is unread is after all that is published; so an answer is
  the first and a place the furthest. `GlyphInv`: what a receipt or marker on its way says was done (`EventsDone`), and stripping, replacing and adding marks adds none but the new one
  (`GlyphedIs`, `ReactedIs`).
* `AccountAndFeeds_proofs`, of `Feeds`: `PrintedOnceCorrect`, `SeenWasShownCorrect` and `OpenIsRememberedCorrect`. The last is inductive; the others rest on `Marks`: the entries
  ever printed are marked on disk, and all that is marked and not blank was printed. Every step that prints an entry marks it in the same callback, and neither a lost stream nor a restart comes between. Of
  descriptions only the second half holds: a page prints them and leaves them unmarked.
* `BackgroundWork_proofs`: `AnnouncedOnceCorrect` and `PostCompleteCorrect`. A stable id with a running download is not recorded, and a running download has its link to itself; the callback
  that announces a file records its stable id and ends the download in one step, so `announced` is 1 exactly for the recorded ids. A message has two of them at most, and one if the server stamps it; one without
  any is never recorded, and nothing is claimed of it.
  For posts (`PostInv`): a slot id is below `fresh` and in one place only, asked for, uploading or stored (`Numbers`, `OnePlace`), and what is stored stays (`Grows`); a post waits under one id, what is on
  its way under that id is its next file, and the urls it has are those of the files before (`Waits`, `Whole`). So the callback of an upload appends the right url to the right post, though callbacks come in any order.

The invariants of `HistorySync_proofs` and `OmemoSessions_proofs`, like `RoomsInv`, were checked by TLC as invariants of the runs before they were proved.

Only model-checked: the liveness properties, whose fairness is out of TLAPS's reach here: `NegotiationConcludes`, `TimedQueueDrains`, `ReconnectTried`,
`InactiveReported`, `CatchupEnds`, `JoinCompletes`, `PreviewsConclude`, `DeferredIsAsked`. Every invariant and action property of a passing run is a theorem.

## 5. Known divergences

Two have a run of their own, `attention_unread` and `feeds_quiet`, and are the `findings` of `PROJECT.json`. The others were met while modelling; the models do what the code does. Where a property would have to speak of them it says what is left.

**Stream management**
* `<enabled/>` zeroes `sm_h_outbound` and empties `sm_outqueue`, although the burst was sent after `<enable/>` (`stream_management.inl:22`, `:120`). A later `h` then removes a stanza
  that is still on its way, and a lost stream does not repeat it (XEP-0198, `xep-0198.txt:84`). `LossBounded` says how many.
* Only `<enabled/>` hooks the ack timer and `disconnect()` unhooks it (`account.cpp:387`); `<resumed/>` hooks none, so a resumed session is never asked to acknowledge (`TimedQueueDrains` speaks of queues with a timer).
* `<resumed/>` resends the whole queue, this stream's burst with it, which the server is about to receive anyway. `<failed/>` drops the queue and tells nobody.
* `h` is compared as a number of 32 bits without wrap-around.

**Account and presence**
* `timer_cb` clears `reconnect_start` and ignores the result of `connect()` (`account.cpp:581`): an attempt that fails at once raises no event and is the last.
* `xep0319_idle_sent` outlives the stream, so a user who is idle when it breaks is not shown idle on the next.

**History**
* `channels.emplace(std::make_pair(jid, channel{...}))` destroys temporaries, whose `~channel` clears the cache and strikes the conversation from the restore list (`channel.cpp:603`,
  `connect_lifecycle.inl:640`): a conversation restored once is forgotten by the second restart, if no catch-up ended in between.
* `mam_cache_load_messages` loads the oldest 100, not the "last 100" of `lmdb_cache.inl:156`: of a longer cache the newer lines are missing until the archive is asked.
* An archive result reopens a conversation the user closed. `mam_queries` keeps the queries of lost streams, which `fetch_mam` takes for queries in flight.
* A line from the cache lacks the `stanza_id_` tag that the deduplication of delayed messages looks for: with `Redelivery = TRUE`, `NoDuplicates` fails. A message is dropped as a duplicate when its id is a substring of a tag already shown (`message_handler.inl:722`).
* After `item-not-found` the cursor stays, so each later catch-up is refused again. `/reload` marks every open conversation as closed (`config.cpp:126`).

**Rooms and bookmarks**
* `/bookmark add` and `/notify` publish a bookmark with autojoin off, whose echo closes the room the user is in (`message_handler.inl:1063`, `roster.inl:441`, `command.cpp:497`).
* `/enter` on the account's buffer, as autojoin gives it, returns for a room that is open: after a lost session or a kick it is not entered again.
  After a resumption nicklists stay empty, for `disconnect()` cleared them and the server sends no presences anew.
* A message in flight, the private bookmarks or a republished bookmark opens a room the user closed. The answer to the XEP-0402 query is read by no handler; the XEP-0049 merge keeps bookmarks the server lacks.
* `/selfping` registers no id. A PM contact's unavailable presence never removes him. A kick that crosses closing the room dereferences null (`presence_handler.inl:220`).

**OMEMO**
* An error about a device list that repeats `<items/>` is read as an answer: an empty list replaces the stored one and the guard is lifted that `iq_handler.inl:3691` sets "to avoid request/error loops" (`iq_handler.inl:3871`).
* PEP pushes of device lists are not handled. A failed bundle flushes nothing, though `omemo.hh:99` says the device is skipped (`session_flow.inl:497`); `item-not-found` keeps the guard until the stream ends.
* Nobody flushes the queue after reconnecting, and later messages overtake it. When all of a contact's devices failed or are distrusted, messages go out with keys for own devices only.
* A replayed message that cannot be decrypted puts its device into `pending_key_transport` and requests nothing. Every answer about a bundle sets `attempted`, which disables most later recovery until the next connect.
* `/omemo trust` deletes under `identity_key:` what is stored under `identity:`; no command reaches VERIFIED. `/omemo reset-keys` keeps the identity in memory, so no bundle can be published until the plugin is reloaded.
* `replace_used_prekey` reuses the id, and runs when the session existed already; key transports consume a prekey and replace none; a publish lost with the stream is not repeated. `send_key_transport` asks for no trust.

**Corrections and retractions**
* In a private conversation the user's own line never changes when he edits or retracts it (`README.md:306`, `message_handler.inl:2545`); his targets name his own archive's id, which the contact does not know. Under a server that stamps
  messages, corrections and retractions of contacts without origin-ids never match.
* Cached lines name no author, so later amendments are refused until a restart; corrections are cached and come back as lines of their own. In rooms retractions are stored by the archive's id and the cache by the message's: deleted messages reappear. 
* A room that is joined again asks its archive for nothing, for `joining` is set in the constructor of its channel only (`channel.cpp:332`), though `presence_handler.inl:132` says that missed messages are recovered on reconnect.
  Its one fetch ends when it was asked for: a correction or retraction that comes live before its message is printed finds no line, and is not repeated, so that other devices do not "see the tombstone" of `README.md:307`.
* The cache records a retraction before its sender is checked. A tombstone loses its ids, so a replayed original is printed again until the retraction is replayed too. Moderations and reactions without a body are dropped; one sender's reactions replace another's.

**Receipts, markers, chat states**
* A displayed marker is sent on receipt and again on reading. A receipt after a marker takes ✓✓ back to ✓; a glyph after a reaction is taken off by the next reaction, so ⌛ stays (`README.md:201`).
* Once the client's own presence was seen, chat states are looked up under its own JID and no longer sent: not `<inactive>` on leaving either (`buffer.cpp:127`). Each key sends paused and composing, and no paused when typing stops; composing is sent without asking for support.
* Messages from the archive never become unread. Every device answers a carbon. The XEP-0490 answer at connecting is not used.

**Threads, uploads, previews**
* Threads of previews and downloads are not joined at unload, though `account.cpp:333` says that joinable threads end the program. Results use pointers to buffers and accounts that may be gone; `disconnect()` closes a pipe before it joins the writer.
* `README.md:516` says of a failed upload that the post is aborted and a draft saved: a refused slot, a file that went away or a lost stream (`iq_handler.inl:1315`, `:1816`, `:1864`; `account.cpp:341`) leaves the pending post in memory for ever and no draft. A result that is no slot leaves the request as well.
* A file is downloaded and announced again when the archive brings its message under another stable id (`message_handler.inl:755`, `:1732`), though the record is there so that it "blocks MAM replay re-downloads" (`:3480`), and each time it comes without one.
* An upload that ends while the client is offline, or whose stream or buffer went away, is not shared and nobody is told. With OMEMO on, a file whose message cannot be encrypted is shared in plain; the three steps of an upload each read the OMEMO state anew.
* `og_start_fetch` does not consult the cache, though its header says so; a pipe that cannot be made loses the entry and stalls the queue until the next completion.

**Feeds**
* A discovery query lost with its stream is never cleared, so feeds deferred later are not fetched until a restart (`DeferredIsAsked` speaks of one stream).
* A page prints descriptions of a node (`<feed>`) without marking them, so that a push prints them again (`iq_handler.inl:827`), though `:853` says that push duplicates are suppressed after a fetch; a push of a blank one marks it and prints nothing.
* A late answer opens and registers a feed the user closed. A refused archive query has no fallback. The user's own post is printed twice where the service pushes it back, and edited items never again.
* After a restart restored feeds skip what was seen, so their buffers are empty. The archive's cursor is used as an item id; `--all` reads a cursor and saves none. Retracting fetches the node twice and leaves the line; a long-form retraction with an unknown alias takes it for an id.

**vCards**: `/setvcard` reads, merges and writes back over two round trips, so a change made between is lost and unknown fields are dropped (`iq_handler.inl:330`).

## 6. Not modelled, and why

* libstrophe, libsignal, LMDB and WeeChat are external and appear by how the code uses them. TLS, SASL and certificate checks are libstrophe's; cryptography is perfect.
* Wording and layout of lines, XHTML, Markdown and Atom conversion, completion and configuration are data without control flow.
* The roster, subscriptions and the display of presence copy what the server says into tables. Capabilities, vCards, avatars and PGP are a request, an answer and a cache each. The picker is a selection in a list.
* The pages of a room's archive (its one fetch is in `Conversation`); RSM cursors of feeds; items of feeds that are not Atom, which pages skip and pushes fetch each time; invitations, roles, topics, kicks and bans given.
* In `OmemoSessions`, more than one contact and the interplay of own devices. In `HistorySync`, what happens within one second: the code compares seconds.
* Races between the main thread and a worker on memory: a worker shares nothing with the main thread but its own record until it has written its byte.
* 32-bit wrap-around of the SM counters needs 2^32 stanzas in a session.

## 7. Plan

Models: `Contacts` (roster pushes, subscriptions, presence of several resources, capabilities and the queries on their way), and the room's archive in `HistorySync`.
