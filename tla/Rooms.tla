--------------------------------- MODULE Rooms ---------------------------------
(***************************************************************************)
(* Group chats: entering and leaving rooms, who is shown in them, the      *)
(* bookmarks that open and close them, and self-ping (command/channel.inl, *)
(* presence_handler.inl, channel.cpp, buffer.cpp, command/roster.inl, the  *)
(* bookmark parts of message_handler.inl and iq_handler.inl).              *)
(*                                                                         *)
(* The user's own occupant is Me in every room, whatever its nick; what a  *)
(* presence says of an occupant besides his coming and going is left out.  *)
(* Gateways ("biboumi"), which autojoin skips, are not among the Rooms.    *)
(* A server that is slow to handle a request is one that is slow to send:  *)
(* it handles each before anything else happens, unless the link is lost.  *)
(***************************************************************************)
EXTENDS Integers, Sequences, FiniteSets, SequencesExt

CONSTANTS
    Rooms,        \* rooms
    Nicks,        \* occupants other than the user
    Me,           \* the user's own occupant
    MaxCommands, MaxEvents, MaxDrops, MaxRefusals   \* bounds

ASSUME MeAssumption == Me \notin Nicks
\* A server has finitely many rooms, and each finitely many occupants.
ASSUME FiniteAssumption == IsFiniteSet(Rooms) /\ IsFiniteSet(Nicks)
ASSUME BoundsAssumption == /\ MaxCommands \in Nat /\ MaxEvents \in Nat
                           /\ MaxDrops \in Nat /\ MaxRefusals \in Nat

VARIABLES
    up,           \* the account is connected
    channels,     \* account.channels, the rooms among them
    joining,      \* those whose joining flag is set
    buffers,      \* rooms that have a buffer
    nicklist,     \* nicklist[r]: who is shown in it
    bookmarks,    \* account.bookmarks: "none", or autojoin "on" or "off"
    pings,        \* account.user_ping_queries: rooms the user pinged himself in
    c2s, s2c,     \* the two directions of the session
    member,       \* rooms the server has the user's session in
    occupants,    \* occupants[r]: who else is in it
    stored,       \* the bookmarks on the server
    missed,       \* history: who left a room, unseen because the user was out of it
    emptied,      \* history: rooms a lost link emptied the list of, while the session went on
    out,          \* history: rooms that are open though he was told that he is not in them
    closed,       \* history: rooms the user closed after anyone last entered or bookmarked them
    commands, events, drops, refusals   \* for the bounds

shown   == <<channels, joining, buffers, nicklist, out>>
server  == <<member, occupants, stored>>
history == <<missed, emptied, closed>>
used    == <<commands, events, drops, refusals>>
vars    == <<up, shown, bookmarks, pings, c2s, s2c, server, history, used>>

Bookmark == {"none", "off", "on"}

Init ==
    /\ up = FALSE
    /\ channels = {} /\ joining = {} /\ buffers = {} /\ nicklist = [r \in Rooms |-> {}]
    /\ bookmarks = [r \in Rooms |-> "none"] /\ pings = {}
    /\ c2s = <<>> /\ s2c = <<>>
    /\ member = {} /\ occupants \in [Rooms -> SUBSET Nicks] /\ stored \in [Rooms -> Bookmark]
    /\ missed = [r \in Rooms |-> {}] /\ emptied = {} /\ out = {} /\ closed = {}
    /\ commands = 0 /\ events = 0 /\ drops = 0 /\ refusals = 0

Join(r)    == [kind |-> "join", room |-> r]
Leave(r)   == [kind |-> "leave", room |-> r]
Here(r, n) == [kind |-> "here", room |-> r, nick |-> n]
Away(r, n, kicked) == [kind |-> "away", room |-> r, nick |-> n, kicked |-> kicked]
Item(r, b) == [kind |-> "item", room |-> r, autojoin |-> b]

-------------------------------------------------------------------------------
\* Opening and closing.

\* channels.emplace(..., channel{MUC}): create_buffer empties the nicklist of a
\* buffer it finds; the constructor sets joining.
Opens(r) ==
    /\ channels' = channels \cup {r}
    /\ joining' = joining \cup {r}
    /\ buffers' = buffers \cup {r}
    /\ nicklist' = [nicklist EXCEPT ![r] = {}]
    /\ out' = out \ {r}

\* buffer__close_cb on a connected account.
Closes(r) ==
    /\ channels' = channels \ {r}
    /\ joining' = joining \ {r}
    /\ buffers' = buffers \ {r}
    /\ nicklist' = [nicklist EXCEPT ![r] = {}]
    /\ out' = out \ {r}

\* It leaves the room.  Mutant: it does not.
NoLeave(r) == <<>>
Leaving(r) == <<Leave(r)>>

\* A channel whose buffer was closed while the account was not connected points
\* to a buffer that is gone.
Dangling == channels \ buffers

\* conn_handler(connect) asks for the private bookmarks; rooms are not entered.
\* The server resumes the session, with all that was in flight, or has none.
Burst == <<[kind |-> "private"]>>
ConnectResumed ==
    /\ ~up /\ drops > 0 /\ up' = TRUE
    /\ c2s' = c2s \o Burst
    /\ emptied' = emptied \cup member
    /\ UNCHANGED <<shown, bookmarks, pings, s2c, server, missed, closed, used>>

ConnectNew ==
    /\ ~up /\ up' = TRUE
    /\ c2s' = Burst /\ s2c' = <<>>
    /\ member' = {}
    /\ out' = out \cup channels
    /\ emptied' = {}
    /\ missed' = [r \in Rooms |-> {}]
    /\ UNCHANGED <<channels, joining, buffers, nicklist, bookmarks, pings, occupants, stored,
                   closed, used>>

\* disconnect(): every nicklist is emptied, everything else stays.
Drop ==
    /\ up /\ up' = FALSE
    /\ drops < MaxDrops /\ drops' = drops + 1
    /\ nicklist' = [r \in Rooms |-> {}]
    /\ UNCHANGED <<channels, joining, buffers, out, bookmarks, pings, c2s, s2c, server, history,
                   commands, events, refusals>>

-------------------------------------------------------------------------------
\* What the user does.

Handled == c2s = <<>>
Command == Handled /\ commands < MaxCommands /\ commands' = commands + 1
Send(ms) == c2s' = c2s \o ms
Wanted(r) == closed' = closed \ {r}

\* /enter r.
EnterAnew(r) ==
    /\ up /\ Command /\ r \notin channels
    /\ Opens(r)
    /\ Send(<<Join(r)>>)
    /\ Wanted(r)
    /\ UNCHANGED <<up, bookmarks, pings, s2c, server, missed, emptied, events, drops, refusals>>

\* The room is open.  Given in a conversation's or a room's own buffer; in the
\* account's, "if (!ptr_channel) return" comes before the join.
EnterAgain(r) ==
    /\ up /\ Command /\ r \in channels
    /\ Send(<<Join(r)>>)
    /\ Wanted(r)
    /\ UNCHANGED <<up, shown, bookmarks, pings, s2c, server, missed, emptied, events, drops, refusals>>

UserClose(r) ==
    /\ Command /\ r \in buffers
    /\ IF up
       THEN Closes(r) /\ Send(Leaving(r))
       ELSE /\ buffers' = buffers \ {r}
            /\ UNCHANGED <<channels, joining, nicklist, out, c2s>>
    /\ closed' = closed \cup {r}
    /\ UNCHANGED <<up, bookmarks, pings, s2c, server, missed, emptied, events, drops, refusals>>

\* Every bookmark is published, whichever changed.
Publish(marks) == <<[kind |-> "publish", marks |-> marks]>>

SetBookmark(r, b) ==
    /\ bookmarks' = [bookmarks EXCEPT ![r] = b]
    /\ Send(Publish(bookmarks'))
    /\ Wanted(r)
    /\ UNCHANGED <<up, shown, pings, s2c, server, missed, emptied, events, drops, refusals>>

\* /bookmark add: autojoin is off.
BookmarkAdd(r) ==
    /\ up /\ Command
    /\ SetBookmark(r, "off")

\* /bookmark autojoin.
BookmarkAutojoin(r, b) ==
    /\ up /\ Command /\ bookmarks[r] # "none" /\ b # "none"
    /\ SetBookmark(r, b)

\* /notify makes a bookmark where there is none.
Notify(r) ==
    /\ up /\ Command
    /\ SetBookmark(r, IF bookmarks[r] = "none" THEN "off" ELSE bookmarks[r])

\* /bookmark del.
BookmarkDel(r) ==
    /\ up /\ Command /\ bookmarks[r] # "none"
    /\ bookmarks' = [bookmarks EXCEPT ![r] = "none"]
    /\ Send(<<[kind |-> "retract", room |-> r]>>)
    /\ Wanted(r)
    /\ UNCHANGED <<up, shown, pings, s2c, server, missed, emptied, events, drops, refusals>>

\* /ping room/nick with the user's own nick, which is what can tell him that he
\* is out of the room (/selfping does not keep the id of its query).
SelfPing(r) ==
    /\ up /\ Command /\ r \in channels \ pings
    /\ pings' = pings \cup {r}
    /\ Send(<<[kind |-> "ping", room |-> r]>>)
    /\ UNCHANGED <<up, shown, bookmarks, s2c, server, history, events, drops, refusals>>

\* idle_timer_cb gives up pings after 30 seconds.
PingSweep(r) ==
    /\ up /\ Handled /\ r \in pings
    /\ pings' = pings \ {r}
    /\ UNCHANGED <<up, shown, bookmarks, c2s, s2c, server, history, used>>

-------------------------------------------------------------------------------
\* What the stream brings.

Receive(kind) == up /\ Handled /\ s2c # <<>> /\ Head(s2c).kind = kind
Taken == s2c' = Tail(s2c)

\* presence_handler: add_member.  Nothing is shown without a channel.
Listed(r, n) == [nicklist EXCEPT ![r] = IF r \in channels THEN @ \cup {n} ELSE @]

\* remove_member, or for status 303 nicklist_remove alone; the new nick follows.
\* Mutant: the old nick stays.
StillListed(r, n) == nicklist
Delisted(r, n) == [nicklist EXCEPT ![r] = @ \ {n}]

\* Status 110, the user's own presence, ends joining.  Mutant: it does not.
StillJoining(r, n) == joining
JoiningAfter(r, n) == IF n = Me THEN joining \ {r} ELSE joining

OnHere ==
    /\ Receive("here") /\ Taken
    /\ LET m == Head(s2c)
       IN  /\ m.room \notin Dangling
           /\ nicklist' = Listed(m.room, m.nick)
           /\ joining' = JoiningAfter(m.room, m.nick)
           /\ out' = IF m.nick = Me THEN out \ {m.room} ELSE out
    /\ UNCHANGED <<up, channels, buffers, bookmarks, pings, c2s, server, history, used>>

OnAway ==
    /\ Receive("away") /\ Taken
    /\ LET m == Head(s2c)
       IN  /\ m.room \notin Dangling
           /\ m.room \in channels \/ ~m.kicked
           /\ nicklist' = Delisted(m.room, m.nick)
           /\ joining' = JoiningAfter(m.room, m.nick)
           /\ out' = IF m.nick = Me THEN out \cup ({m.room} \cap channels) ELSE out
    /\ UNCHANGED <<up, channels, buffers, bookmarks, pings, c2s, server, history, used>>

\* A presence of type error only prints.
OnRefused ==
    /\ Receive("refused") /\ Taken
    /\ out' = out \cup ({Head(s2c).room} \cap channels)
    /\ UNCHANGED <<up, channels, joining, buffers, nicklist, bookmarks, pings, c2s, server, history, used>>

\* message_handler for a room's message: the room is opened if it was closed, and
\* a live message (no <delay/>) clears joining.
OnMessage ==
    /\ Receive("message") /\ Taken
    /\ LET r == Head(s2c).room
           live == IF Head(s2c).delayed THEN {} ELSE {r}
       IN  IF r \in channels
           THEN joining' = joining \ live /\ UNCHANGED <<channels, buffers, nicklist, out>>
           ELSE /\ channels' = channels \cup {r} /\ buffers' = buffers \cup {r}
                /\ joining' = (joining \cup {r}) \ live
                /\ nicklist' = [nicklist EXCEPT ![r] = {}]
                /\ out' = out \cup {r}
    /\ UNCHANGED <<up, bookmarks, pings, c2s, server, history, used>>

\* A bookmark event with autojoin: /enter on the account's buffer, which joins
\* if the room is not open.
OnItemOn ==
    /\ Receive("item") /\ Head(s2c).autojoin = "on" /\ Taken
    /\ LET r == Head(s2c).room
       IN  /\ bookmarks' = [bookmarks EXCEPT ![r] = "on"]
           /\ IF r \in channels THEN UNCHANGED <<shown, c2s>>
                                ELSE Opens(r) /\ Send(<<Join(r)>>)
    /\ UNCHANGED <<up, pings, server, history, used>>

\* Without autojoin: the room is closed unless it is being joined.
OnItemOff ==
    /\ Receive("item") /\ Head(s2c).autojoin = "off" /\ Taken
    /\ LET r == Head(s2c).room
       IN  /\ r \notin Dangling \ joining
           /\ bookmarks' = [bookmarks EXCEPT ![r] = "off"]
           /\ IF r \in channels \ joining THEN Closes(r) /\ Send(Leaving(r))
                                          ELSE UNCHANGED <<shown, c2s>>
    /\ UNCHANGED <<up, pings, server, history, used>>

\* A retracted bookmark closes the room.
OnRetract ==
    /\ Receive("retract") /\ Taken
    /\ LET r == Head(s2c).room
       IN  /\ r \notin Dangling
           /\ bookmarks' = [bookmarks EXCEPT ![r] = "none"]
           /\ IF r \in channels THEN Closes(r) /\ Send(Leaving(r)) ELSE UNCHANGED <<shown, c2s>>
    /\ UNCHANGED <<up, pings, server, history, used>>

\* The private bookmarks: "the XEP-0049 data wins per-JID"; what they lack stays.
\* Mutant: what is known already wins.
KnownWins(marks) ==
    [r \in Rooms |-> IF bookmarks[r] = "none" THEN marks[r] ELSE bookmarks[r]]
Merged(marks) == [r \in Rooms |-> IF marks[r] = "none" THEN bookmarks[r] ELSE marks[r]]

\* Each with autojoin is entered, on the account's buffer.  Mutant: only the
\* bookmarks are taken in, as for a gateway.
NoneAutojoined(marks) == {}
Autojoined(marks) == {r \in Rooms : marks[r] = "on"}

OnPrivate ==
    /\ Receive("private") /\ Taken
    /\ LET marks == Head(s2c).marks
           new == Autojoined(marks) \ channels
       IN  /\ bookmarks' = Merged(marks)
           /\ channels' = channels \cup new
           /\ joining' = joining \cup new
           /\ buffers' = buffers \cup new
           /\ nicklist' = [r \in Rooms |-> IF r \in new THEN {} ELSE nicklist[r]]
           /\ out' = out \ new
           /\ Send(SetToSeq({Join(r) : r \in new}))
    /\ UNCHANGED <<up, pings, server, history, used>>

\* The answer to a self-ping that was not given up: not in the room, so it is
\* entered again, if it is open.
OnPong ==
    /\ Receive("pong") /\ Taken
    /\ LET r == Head(s2c).room
           lost == r \in pings /\ ~Head(s2c).inside /\ r \in channels
       IN  /\ pings' = pings \ {r}
           /\ Send(IF lost THEN <<Join(r)>> ELSE <<>>)
    /\ UNCHANGED <<up, shown, bookmarks, server, history, used>>

\* "Kicked from room" is printed to channel->buffer without asking whether there
\* is a channel, and a presence or a close uses the buffer that is gone.
Faulty ==
    LET m == Head(s2c)
    IN  \/ m.kind \in {"here", "away", "retract"} /\ m.room \in Dangling
        \/ m.kind = "away" /\ m.kicked /\ m.room \notin channels
        \/ m.kind = "item" /\ m.autojoin = "off" /\ m.room \in Dangling \ joining

\* WeeChat dies and is started again; the server drops the session.
Dies ==
    /\ up /\ Handled /\ s2c # <<>> /\ Faulty
    /\ up' = FALSE
    /\ channels' = {} /\ joining' = {} /\ buffers' = {} /\ nicklist' = [r \in Rooms |-> {}]
    /\ bookmarks' = [r \in Rooms |-> "none"] /\ pings' = {}
    /\ c2s' = <<>> /\ s2c' = <<>> /\ member' = {}
    /\ missed' = [r \in Rooms |-> {}] /\ emptied' = {} /\ out' = {} /\ closed' = {}
    /\ UNCHANGED <<occupants, stored, used>>

\* Reading the memory of a buffer that is gone may also do no harm.
OnDangling ==
    /\ up /\ Handled /\ s2c # <<>> /\ Faulty /\ Head(s2c).room \in Dangling
    /\ Taken
    /\ LET m == Head(s2c)
       IN  /\ bookmarks' = [bookmarks EXCEPT ![m.room] =
                               CASE m.kind = "item" -> m.autojoin
                                 [] m.kind = "retract" -> "none"
                                 [] OTHER -> @]
           /\ joining' = IF m.kind \in {"here", "away"} THEN JoiningAfter(m.room, m.nick)
                                                      ELSE joining
           /\ out' = IF m.kind = "away" /\ m.nick = Me THEN out \cup {m.room}
                     ELSE IF m.kind = "here" /\ m.nick = Me THEN out \ {m.room} ELSE out
    /\ UNCHANGED <<up, channels, buffers, nicklist, pings, c2s, server, history, used>>

-------------------------------------------------------------------------------
\* The server (external: XEP-0045, XEP-0402, XEP-0049, XEP-0410).  It keeps the
\* session while the link is down.

Handle(kind) == up /\ c2s # <<>> /\ Head(c2s).kind = kind /\ c2s' = Tail(c2s)
Tell(ms) == s2c' = s2c \o ms
TellRoom(r, ms) == s2c' = IF r \in member THEN s2c \o ms ELSE s2c

\* Everyone's presence, then the user's own with status 110, then the history.
SrvJoin ==
    /\ Handle("join")
    /\ LET r == Head(c2s).room
       IN  /\ member' = member \cup {r}
           /\ emptied' = emptied \ {r}
           /\ \E past \in {<<>>, <<[kind |-> "message", room |-> r, delayed |-> TRUE]>>} :
                 Tell([i \in 1..Cardinality(occupants[r]) |->
                          Here(r, SetToSeq(occupants[r])[i])] \o <<Here(r, Me)>> \o past)
    /\ UNCHANGED <<up, shown, bookmarks, pings, occupants, stored, missed, closed, used>>

\* Members only, banned, or the nick is taken.
SrvRefuse ==
    /\ Handle("join") /\ refusals < MaxRefusals /\ Head(c2s).room \notin member
    /\ refusals' = refusals + 1
    /\ Tell(<<[kind |-> "refused", room |-> Head(c2s).room]>>)
    /\ UNCHANGED <<up, shown, bookmarks, pings, server, missed, emptied, closed, commands, events,
                   drops>>

SrvLeave ==
    /\ Handle("leave")
    /\ LET r == Head(c2s).room
       IN  /\ TellRoom(r, <<Away(r, Me, FALSE)>>)
           /\ member' = member \ {r}
    /\ UNCHANGED <<up, shown, bookmarks, pings, occupants, stored, history, used>>

\* Each item is pushed to every resource of the account, the publisher's too.
Pushed(marks) == SetToSeq({Item(r, marks[r]) : r \in {x \in Rooms : marks[x] # "none"}})

SrvPublish ==
    /\ Handle("publish")
    /\ LET marks == Head(c2s).marks
       IN  /\ stored' = [r \in Rooms |-> IF marks[r] = "none" THEN stored[r] ELSE marks[r]]
           /\ Tell(Pushed(marks))
    /\ UNCHANGED <<up, shown, bookmarks, pings, member, occupants, history, used>>

SrvRetract ==
    /\ Handle("retract")
    /\ stored' = [stored EXCEPT ![Head(c2s).room] = "none"]
    /\ Tell(<<[kind |-> "retract", room |-> Head(c2s).room]>>)
    /\ UNCHANGED <<up, shown, bookmarks, pings, member, occupants, history, used>>

\* A server that shows the same bookmarks in both places.
SrvPrivate ==
    /\ Handle("private")
    /\ Tell(<<[kind |-> "private", marks |-> stored]>>)
    /\ UNCHANGED <<up, shown, bookmarks, pings, server, history, used>>

SrvPing ==
    /\ Handle("ping")
    /\ Tell(<<[kind |-> "pong", room |-> Head(c2s).room, inside |-> Head(c2s).room \in member]>>)
    /\ UNCHANGED <<up, shown, bookmarks, pings, server, history, used>>

Event == Handled /\ events < MaxEvents /\ events' = events + 1

Arrives(r, n) ==
    /\ Event /\ n \notin occupants[r]
    /\ occupants' = [occupants EXCEPT ![r] = @ \cup {n}]
    /\ TellRoom(r, <<Here(r, n)>>)
    /\ UNCHANGED <<up, shown, bookmarks, pings, c2s, member, stored, history, commands, drops,
                   refusals>>

\* He leaves, or is kicked.
Departs(r, n) ==
    /\ Event /\ n \in occupants[r]
    /\ occupants' = [occupants EXCEPT ![r] = @ \ {n}]
    /\ \E kicked \in BOOLEAN : TellRoom(r, <<Away(r, n, kicked)>>)
    /\ missed' = IF r \in member THEN missed ELSE [missed EXCEPT ![r] = @ \cup {n}]
    /\ UNCHANGED <<up, shown, bookmarks, pings, c2s, member, stored, emptied, closed, commands,
                   drops, refusals>>

KickedOut(r) ==
    /\ Event /\ r \in member
    /\ member' = member \ {r}
    /\ Tell(<<Away(r, Me, TRUE)>>)
    /\ UNCHANGED <<up, shown, bookmarks, pings, c2s, occupants, stored, missed, emptied, closed,
                   commands, drops, refusals>>

Speaks(r) ==
    /\ Event /\ r \in member /\ occupants[r] # {}
    /\ Tell(<<[kind |-> "message", room |-> r, delayed |-> FALSE]>>)
    /\ UNCHANGED <<up, shown, bookmarks, pings, c2s, server, history, commands, drops, refusals>>

\* Another client of the user.
OtherBookmarks(r, b) ==
    /\ Event /\ b # stored[r]
    /\ stored' = [stored EXCEPT ![r] = b]
    /\ Tell(IF b = "none" THEN <<[kind |-> "retract", room |-> r]>> ELSE <<Item(r, b)>>)
    /\ Wanted(r)
    /\ UNCHANGED <<up, shown, bookmarks, pings, c2s, member, occupants, missed, emptied,
                   commands, drops, refusals>>

-------------------------------------------------------------------------------
ClientReceive == \/ OnHere \/ OnAway \/ OnRefused \/ OnMessage
                 \/ OnItemOn \/ OnItemOff \/ OnRetract \/ OnPrivate \/ OnPong
                 \/ OnDangling \/ Dies
ServerHandle == \/ SrvJoin \/ SrvRefuse \/ SrvLeave \/ SrvPublish \/ SrvRetract \/ SrvPrivate
                \/ SrvPing

UserActs(r) == \/ EnterAnew(r) \/ EnterAgain(r) \/ UserClose(r)
               \/ BookmarkAdd(r) \/ Notify(r) \/ BookmarkDel(r) \/ SelfPing(r)
               \/ \E b \in Bookmark : BookmarkAutojoin(r, b)
OthersAct(r) == \/ \E n \in Nicks : Arrives(r, n) \/ Departs(r, n)
                \/ KickedOut(r) \/ Speaks(r)
                \/ \E b \in Bookmark : OtherBookmarks(r, b)

Next == \/ ConnectResumed \/ ConnectNew \/ Drop
        \/ \E r \in Rooms : UserActs(r) \/ OthersAct(r) \/ PingSweep(r)
        \/ ClientReceive \/ ServerHandle

Spec == Init /\ [][Next]_vars

\* timer_cb runs the event loop every second; the server handles what it is sent.
FairSpec == Spec /\ WF_vars(ClientReceive) /\ WF_vars(ServerHandle)

-------------------------------------------------------------------------------
\* What is expected of it.

Settled == up /\ c2s = <<>> /\ s2c = <<>>

\* When nothing is in flight, the nicklist of a room the user is in shows who is
\* in it: everyone, and beyond them only who left while the user was out.
NicklistExact ==
    Settled => \A r \in (member \cap buffers) \ emptied :
        LET there == occupants[r] \cup {Me}
        IN  there \subseteq nicklist[r] /\ nicklist[r] \subseteq there \cup missed[r]

\* "Send unavailable presence to leave MUC": however commands, bookmark events and
\* answers cross, the user is in no room that is not open.
ClosedIsLeft == Settled => member \subseteq channels

\* "Guard: if we are already in this room ... do not re-enter": a room with
\* autojoin that the user did not close is open, and he is in it, unless he was
\* told otherwise: refused, kicked, by a session that was lost, or by a leave.
AutojoinJoins ==
    Settled => \A r \in Rooms :
        stored[r] = "on" /\ r \notin closed => r \in channels /\ (r \in member \/ r \in out)

\* When nothing is in flight, every bookmark of the server is the client's: what
\* is published from it takes nothing of another client's back.
BookmarksAgree == Settled => \A r \in Rooms : stored[r] # "none" => bookmarks[r] = stored[r]

\* "Status 110 is sent last": a room that let the user in is joined in the end, or
\* it is closed, or he is out of it, or the link is lost.
JoinCompletes ==
    \A r \in Rooms : (up /\ r \in member \cap joining) ~> (~up \/ r \notin member \cap joining)

===============================================================================
