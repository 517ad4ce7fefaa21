------------------------------- MODULE Attention -------------------------------
(***************************************************************************)
(* Who has seen what in the conversation with one contact: receipts and    *)
(* chat markers asked and given, the unread list and its synchronisation   *)
(* with the user's other devices (XEP-0184, -0333, -0490), the status      *)
(* glyphs and reactions on the user's own lines, and chat states           *)
(* (message_handler.inl, channel.cpp, input.cpp, buffer.cpp).              *)
(*                                                                         *)
(* What the client sends reaches the server at once; what the server sends *)
(* waits in inbox.  A message of the contact is its place in msgs, which   *)
(* is also the order of their stanza-ids; it is a text, sent by one of the *)
(* contact's devices or by the user.                                       *)
(***************************************************************************)
EXTENDS Integers, Sequences, FiniteSets, SequencesExt

CONSTANTS
    Devices,                 \* the contact's, each a full JID
    MaxMsgs, MaxSent,        \* bounds: messages received, messages sent from here
    MaxEvents, MaxTrouble    \* everything the server delivers; losses, ends of the program

ASSUME BoundsAssumption == {MaxMsgs, MaxSent, MaxEvents, MaxTrouble} \subseteq Nat

VARIABLES
    stamped,    \* the server adds a stanza-id to what it delivers
    up,         \* the stream is open
    users,      \* account.users: of the contact's devices and "self", the client's own
                \* full JID, those that a presence or a chat state made
    open,       \* the conversation has a channel
    inbox,      \* on the way to the client, in order
    msgs,       \* messages for the user: the device that sent them, or "me", if they ask
                \* for a receipt or a marker, how often they were answered
    unreads,    \* channel::unreads
    published,  \* what the client published as displayed, oldest first
    elsewhere,  \* the furthest another device of the user displayed
    lines,      \* the user's own lines: what follows the text; what the contact did
    typing,     \* the contact is shown as typing
    composers,  \* history: the devices of which the last that came, live, is composing
    chat,       \* chat_state_supported of the contact, last_sent_chat_state to it
    events, trouble   \* for the bounds

channel == <<open, unreads, lines, typing, chat>>
vars == <<stamped, up, users, channel, inbox, msgs, published, elsewhere, composers,
          events, trouble>>

Fresh == [supported |-> FALSE, last |-> "none"]

Init ==
    /\ stamped \in BOOLEAN /\ up = FALSE /\ users = {} /\ open = FALSE
    /\ inbox = <<>> /\ msgs = <<>> /\ unreads = <<>> /\ published = <<>>
    /\ elsewhere = 0 /\ lines = <<>> /\ typing = FALSE /\ composers = {}
    /\ chat = Fresh /\ events = 0 /\ trouble = 0

-------------------------------------------------------------------------------
\* The contact's messages.

\* The guard of the answer.  Mutant: a replay of the archive is answered too.
AnswersReplays(m, how) ==
    msgs[m].asks /\ msgs[m].from # "me" /\ how \in {"live", "archive"}
Answers(m, how) ==
    msgs[m].asks /\ msgs[m].from # "me" /\ how = "live"

\* A live message ends the typing of the bare JID, if user::search finds its full JID.
\* Mutant: the search is for the bare JID, which is no user.
SearchesBare(m, how) == typing
TypingAfter(m, how) == typing /\ ~(how = "live" /\ msgs[m].from \in users)

\* message_handler: the channel is made, receipt and marker go out in one stanza.
MessageHandler(m, how) ==
    /\ open' = TRUE
    /\ IF Answers(m, how)
       THEN /\ unreads' = Append(unreads, m)
            /\ msgs' = [msgs EXCEPT ![m].answers = @ + 1]
       ELSE UNCHANGED <<unreads, msgs>>
    /\ typing' = TypingAfter(m, how)
    /\ composers' = IF how = "live" THEN composers \ {msgs[m].from} ELSE composers
    /\ UNCHANGED <<users, lines, chat, published>>

\* send_reads: a displayed marker for each, the newest to the other devices.
\* Mutant: the list is not emptied.
PublishKeeps ==
    /\ published' = IF unreads = <<>> THEN published ELSE Append(published, Last(unreads))
    /\ UNCHANGED unreads
SendReads ==
    /\ published' = IF unreads = <<>> THEN published ELSE Append(published, Last(unreads))
    /\ unreads' = <<>>

\* The PEP service tells every device, the one that published too.
Notified(event) == IF up THEN Append(inbox, event) ELSE inbox
Published == IF unreads = <<>> THEN inbox
             ELSE Notified([is |-> "displayed", of |-> Last(unreads)])

\* The unreads go one by one until one has the id: the loop compares the id of the
\* sender with the published stanza-id, where there is one.
OnDisplayed(m) ==
    LET at == IF stamped THEN 0 ELSE SelectInSeq(unreads, LAMBDA u : u = m)
    IN  /\ unreads' = IF at = 0 THEN <<>> ELSE SubSeq(unreads, at + 1, Len(unreads))
        /\ UNCHANGED <<open, msgs, published, lines, typing, users, composers, chat>>

-------------------------------------------------------------------------------
\* The user's own lines.

\* update_line_glyph: one glyph is stripped from the end of the line, if it ends in one.
Glyphed(tail, glyph) ==
    LET ends == tail # <<>> /\ Last(tail) \in {"wait", "received", "seen"}
    IN  Append(IF ends THEN Front(tail) ELSE tail, glyph)

\* A reaction replaces all from the first reaction on; an empty one takes it away.
Reacted(tail, some) ==
    LET at   == SelectInSeq(tail, LAMBDA t : t = "reaction")
        base == IF at = 0 THEN tail ELSE SubSeq(tail, 1, at - 1)
    IN  IF some THEN Append(base, "reaction") ELSE base

\* The line that has the id in its tags.  Mutant: the newest line.
NewestLine(i) == Len(lines)
LineOf(i) == i

OnGlyph(i, glyph) ==
    /\ lines' = IF lines[LineOf(i)].shown
                THEN [lines EXCEPT ![LineOf(i)].tail = Glyphed(@, glyph)] ELSE lines
    /\ UNCHANGED <<open, msgs, unreads, published, typing, users, composers, chat>>

OnReaction(i, some) ==
    /\ lines' = IF lines[i].shown
                THEN [lines EXCEPT ![i].tail = Reacted(@, some)] ELSE lines
    /\ UNCHANGED <<open, msgs, unreads, published, typing, users, composers, chat>>

-------------------------------------------------------------------------------
\* Chat states.

\* set_typing_state, for the state a device sent: the line is the bare JID's.
ShowsTyping(s) == s = "composing"

\* The branch of the stanzas without a body; without a channel it returns.
OnChatState(d, s) ==
    /\ IF open
       THEN /\ typing' = ShowsTyping(s) /\ users' = users \cup {d}
            /\ chat' = [chat EXCEPT !.supported = TRUE]
       ELSE UNCHANGED <<typing, users, chat>>
    /\ composers' = IF s = "composing" THEN composers \cup {d} ELSE composers \ {d}
    /\ UNCHANGED <<open, msgs, unreads, published, lines>>

\* is_chat_state_supported.  The senders address the user of the client's own full JID
\* once there is one, and that JID never sent a state here.
ToSelf == "self" \in users
Supported(c) == ~ToSelf /\ c.supported

\* send_active, send_paused, send_inactive: not twice in a row.
Tells(s) == Supported(chat) /\ chat.last # s
Tell(s) ==
    chat' = IF Tells(s) THEN [chat EXCEPT !.last = s] ELSE chat

\* send_typing.  add_self_typing runs self_typing_cb on an entry with no time yet: it
\* sends paused and removes the entry, so that every key sends composing.
TellTyping ==
    chat' = IF ToSelf THEN chat ELSE [chat EXCEPT !.last = "composing"]

-------------------------------------------------------------------------------
\* Stanzas, in the order of the stream.

Handle ==
    /\ up /\ inbox # <<>>
    /\ inbox' = Tail(inbox)
    /\ LET e == Head(inbox)
       IN CASE e.is = "message"   -> MessageHandler(e.of, "live")
            [] e.is \in {"composing", "another"} -> OnChatState(e.of, e.is)
            [] e.is = "displayed" ->
                  IF open THEN OnDisplayed(e.of)
                  ELSE UNCHANGED <<users, channel, msgs, published, composers>>
            [] e.is = "react"     -> OnReaction(e.of, TRUE)
            [] e.is = "unreact"   -> OnReaction(e.of, FALSE)
            [] OTHER              -> OnGlyph(e.of, e.is)
    /\ UNCHANGED <<stamped, up, elsewhere, events, trouble>>

\* Out of the archive, or kept by the server while the client was away (delayed).
OnOldMessage ==
    /\ up
    /\ \E m \in DOMAIN msgs, how \in {"archive", "delayed"} : MessageHandler(m, how)
    /\ UNCHANGED <<stamped, up, inbox, elsewhere, events, trouble>>

\* A presence of a device of the contact, or the client's own, makes a user.
Presence ==
    /\ up /\ \E jid \in Devices \cup {"self"} : users' = users \cup {jid}
    /\ UNCHANGED <<stamped, up, channel, inbox, msgs, published, elsewhere, composers,
                   events, trouble>>

-------------------------------------------------------------------------------
\* The contact, the server, the user's other devices.

Event(event) == events < MaxEvents /\ events' = events + 1 /\ inbox' = Notified(event)

Message ==
    /\ Len(msgs) < MaxMsgs
    /\ Event([is |-> "message", of |-> Len(msgs) + 1])
    /\ \E from \in Devices \cup {"me"}, asks \in BOOLEAN :
          msgs' = Append(msgs, [from |-> from, asks |-> asks, answers |-> 0])
    /\ UNCHANGED <<stamped, up, users, channel, published, elsewhere, composers, trouble>>

DisplayedElsewhere ==
    /\ \E m \in DOMAIN msgs :
          /\ m > elsewhere /\ elsewhere' = m
          /\ Event([is |-> "displayed", of |-> m])
    /\ UNCHANGED <<stamped, up, users, channel, msgs, published, composers, trouble>>

\* Any device of the contact receives, displays, reacts, in any order and repeatedly.
ContactActs ==
    /\ \E i \in DOMAIN lines, a \in {"received", "seen", "react", "unreact"} :
          /\ Event([is |-> a, of |-> i])
          /\ lines' = [lines EXCEPT ![i].did = @ \cup {a}]
    /\ UNCHANGED <<stamped, up, users, open, unreads, typing, chat, msgs, published,
                   elsewhere, composers, trouble>>

ContactState ==
    /\ \E s \in {"composing", "another"}, d \in Devices : Event([is |-> s, of |-> d])
    /\ UNCHANGED <<stamped, up, users, channel, msgs, published, elsewhere, composers,
                   trouble>>

-------------------------------------------------------------------------------
\* The user.

\* input__typing.
Keystroke ==
    /\ up /\ open /\ SendReads /\ TellTyping /\ inbox' = Published
    /\ UNCHANGED <<stamped, up, users, open, lines, typing, msgs, elsewhere, composers,
                   events, trouble>>

\* buffer__switch_cb, to and from the buffer.
Enter ==
    /\ up /\ open /\ Tell("active")
    /\ UNCHANGED <<stamped, up, users, open, unreads, lines, typing, inbox, msgs,
                   published, elsewhere, composers, events, trouble>>
Leave ==
    /\ up /\ open /\ Tell("inactive") /\ SendReads /\ inbox' = Published
    /\ UNCHANGED <<stamped, up, users, open, lines, typing, msgs, elsewhere, composers,
                   events, trouble>>

\* input__data, send_message: the line ends in the hourglass.
SendMessage ==
    /\ up /\ open /\ Len(lines) < MaxSent /\ SendReads /\ inbox' = Published
    /\ lines' = Append(lines, [shown |-> TRUE, tail |-> <<"wait">>, did |-> {}])
    /\ UNCHANGED <<stamped, up, users, open, typing, chat, msgs, elsewhere, composers,
                   events, trouble>>

\* The channel and its buffer are destroyed; the typing plugin forgets the buffer.
Destroyed ==
    /\ open' = FALSE /\ unreads' = <<>> /\ typing' = FALSE /\ chat' = Fresh
    /\ lines' = [i \in DOMAIN lines |-> [lines[i] EXCEPT !.shown = FALSE, !.tail = <<>>]]

\* buffer__close_cb: send_gone.
Close ==
    /\ up /\ open /\ Destroyed
    /\ UNCHANGED <<stamped, up, users, inbox, msgs, published, elsewhere, composers, events,
                   trouble>>

\* /query.
Open ==
    /\ ~open /\ open' = TRUE
    /\ UNCHANGED <<stamped, up, users, unreads, lines, typing, chat, inbox, msgs,
                   published, elsewhere, composers, events, trouble>>

-------------------------------------------------------------------------------
\* Trouble.

Connect ==
    /\ ~up /\ up' = TRUE
    /\ UNCHANGED <<stamped, users, channel, inbox, msgs, published, elsewhere, composers,
                   events, trouble>>

\* What was on the way comes after a resumption, or never.
Drop ==
    /\ up /\ trouble < MaxTrouble /\ trouble' = trouble + 1
    /\ up' = FALSE /\ inbox' \in {inbox, <<>>}
    /\ UNCHANGED <<stamped, users, channel, msgs, published, elsewhere, composers,
                   events>>

Restart ==
    /\ trouble < MaxTrouble /\ trouble' = trouble + 1
    /\ up' = FALSE /\ inbox' = <<>> /\ users' = {} /\ Destroyed
    /\ UNCHANGED <<stamped, msgs, published, elsewhere, composers, events>>

Next ==
    \/ Handle \/ OnOldMessage \/ Presence
    \/ Message \/ DisplayedElsewhere \/ ContactActs \/ ContactState
    \/ Keystroke \/ Enter \/ Leave \/ SendMessage \/ Close \/ Open
    \/ Connect \/ Drop \/ Restart

Spec == Init /\ [][Next]_vars

Symmetry == Permutations(Devices)

-------------------------------------------------------------------------------

\* Whatever the live stream, the archive, delayed deliveries, carbons and reopened
\* conversations bring again, a message is answered at most once, only if it asks for
\* it, and never if the user wrote it (message_handler.inl:1782: replaying the archive
\* "must be silent").
AnsweredOnce ==
    \A i \in DOMAIN msgs :
        /\ msgs[i].answers <= 1
        /\ msgs[i].answers = 1 => msgs[i].from # "me" /\ msgs[i].asks

\* The places this client publishes for the user's other devices only advance: it never
\* tells them twice, nor takes the place back, over reconnections and restarts
\* (send_reads, the last of the unreads).
PlacesAdvance ==
    \A i, j \in DOMAIN published : i < j => published[i] < published[j]

\* A line says delivered or read only of a message some device of the contact did
\* receive or display, with receipts, markers and reactions in any order
\* (README, "Status glyphs"; update_line_glyph).
GlyphsAreTrue ==
    \A i \in DOMAIN lines : \A t \in {"received", "seen"} :
        t \in ToSet(lines[i].tail) => t \in lines[i].did

\* The contact is shown as typing only while the last that came from one of its devices
\* is that it composes: a message ends what its own device said, though the typing is kept
\* for the bare JID and the message is looked up by the full one (message_handler.inl:2794).
TypingIsHeard == typing => composers # {}

\* A message stops being unread when the user reads here, when the conversation is
\* closed, or when another device displayed it or a later one: a notification clears
\* "all unreads up to and including the given stanza-id" (message_handler.inl:1128).
UnreadKept ==
    [][\A m \in ToSet(unreads) :
          m \in ToSet(unreads') \/ ~open' \/ elsewhere' >= m \/ published' # published]_vars

================================================================================
