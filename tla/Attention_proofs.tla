--------------------------- MODULE Attention_proofs ----------------------------
(***************************************************************************)
(* The four invariants of Attention, for any number of messages, events    *)
(* and troubles.  Each part has its own inductive invariant: typing needs  *)
(* nothing of the stream, places and glyphs need what is on its way.       *)
(***************************************************************************)
EXTENDS Attention, SequenceTheorems, WellFoundedInduction, TLAPS

USE BoundsAssumption

-------------------------------------------------------------------------------
(* Typing.  A device that is shown as typing is a user, because its chat state *)
(* made it one, and the conversation is open: so its next message or state is  *)
(* neither looked up in vain nor dropped for want of a channel.                *)

TypingInv == typing => open /\ composers \cap users # {}

\* A live message leaves the typing of another device only, its own device being no user.
LEMMA MessageKeepsTyping ==
    ASSUME TypingInv, NEW m, NEW how, MessageHandler(m, how)
    PROVE  TypingInv'
<1> SUFFICES ASSUME typing' PROVE open' /\ (composers \cap users)' # {}
    BY DEF TypingInv
<1>1. typing /\ ~(how = "live" /\ msgs[m].from \in users) /\ open' /\ users' = users
    BY DEF MessageHandler, TypingAfter
<1>2. PICK d \in composers : d \in users
    BY <1>1 DEF TypingInv
<1>3. d \in composers'
    BY <1>1, <1>2 DEF MessageHandler
<1> QED BY <1>1, <1>2, <1>3

\* What a device of a closed conversation sends finds nobody typing.
LEMMA StateKeepsTyping ==
    ASSUME TypingInv, NEW d, NEW s, OnChatState(d, s)
    PROVE  TypingInv'
<1> SUFFICES ASSUME typing' PROVE open' /\ (composers \cap users)' # {}
    BY DEF TypingInv
<1>1. open
    BY DEF OnChatState, TypingInv
<1>2. s = "composing" /\ d \in users' /\ d \in composers' /\ open'
    BY <1>1 DEF OnChatState, ShowsTyping
<1> QED BY <1>2

LEMMA QuietKeepsTyping ==
    TypingInv /\ UNCHANGED <<typing, open, composers, users>> => TypingInv'
BY DEF TypingInv

LEMMA HandleKeepsTyping == TypingInv /\ Handle => TypingInv'
<1> SUFFICES ASSUME TypingInv, Handle PROVE TypingInv'
    OBVIOUS
<1> DEFINE e == Head(inbox)
<1>1. CASE MessageHandler(e.of, "live")
    BY <1>1, MessageKeepsTyping
<1>2. CASE OnChatState(e.of, e.is)
    BY <1>2, StateKeepsTyping
<1>3. CASE UNCHANGED <<typing, open, composers, users>>
    BY <1>3, QuietKeepsTyping
<1>4. \/ MessageHandler(e.of, "live") \/ OnChatState(e.of, e.is)
      \/ UNCHANGED <<typing, open, composers, users>>
    BY DEF Handle, OnDisplayed, OnReaction, OnGlyph, channel
<1> QED BY <1>1, <1>2, <1>3, <1>4

LEMMA TypingNext == TypingInv /\ [Next]_vars => TypingInv'
<1> SUFFICES ASSUME TypingInv, [Next]_vars PROVE TypingInv'
    OBVIOUS
<1>1. CASE Handle
    BY <1>1, HandleKeepsTyping
<1>2. CASE OnOldMessage
    BY <1>2, MessageKeepsTyping DEF OnOldMessage
<1>3. CASE Presence
    BY <1>3 DEF Presence, TypingInv, channel
<1>4. CASE Open
    BY <1>4 DEF Open, TypingInv
<1>5. CASE Message \/ DisplayedElsewhere \/ ContactActs \/ ContactState \/ Keystroke \/ Enter
           \/ Leave \/ SendMessage \/ Connect \/ Drop \/ UNCHANGED vars
    BY <1>5, QuietKeepsTyping
    DEF Message, DisplayedElsewhere, ContactActs, ContactState, Keystroke, Enter, Leave,
        SendMessage, Connect, Drop, channel, vars
<1>6. CASE Close \/ Restart
    BY <1>6 DEF Close, Restart, Destroyed, TypingInv
<1> QED BY <1>1, <1>2, <1>3, <1>4, <1>5, <1>6 DEF Next

\* The contact is shown as typing only while the last that came from one of its devices
\* is that it composes.
THEOREM TypingIsHeardCorrect == Spec => []TypingIsHeard
<1>1. Init => TypingInv
    BY DEF Init, TypingInv
<1>2. TypingInv => TypingIsHeard
    BY DEF TypingInv, TypingIsHeard
<1> QED BY <1>1, <1>2, TypingNext, PTL DEF Spec

-------------------------------------------------------------------------------
(* Helpers.                                                                 *)

\* What a search in a sequence finds is a place of it, or 0.
LEMMA LeastIsIn ==
    ASSUME NEW T, T \subseteq Nat, T # {}
    PROVE  Min(T) \in T
<1>1. PICK x \in T : \A y \in T : ~ (<<y, x>> \in OpToRel(<, Nat))
    BY NatLessThanWellFounded, WFMin
<1>2. \A y \in T : x <= y
    <2> SUFFICES ASSUME NEW y \in T PROVE x <= y
        OBVIOUS
    <2>1. x \in Nat /\ y \in Nat
        OBVIOUS
    <2>2. ~ (y < x)
        BY <1>1, <2>1 DEF OpToRel
    <2> QED BY <2>1, <2>2
<1> QED BY <1>1, <1>2 DEF Min

\* What the server sends.
EventType ==
    [is : {"message", "displayed", "composing", "another", "received", "seen", "react",
           "unreact"},
     of : Nat \cup Devices]

\* The user's lines are numbered: steps change lines or add one.
LinesNumbered == \E n \in Nat : lines = [i \in 1..n |-> lines[i]]

LEMMA SentIsNumbered == LinesNumbered /\ SendMessage => LinesNumbered'
<1> SUFFICES ASSUME LinesNumbered, SendMessage PROVE LinesNumbered'
    OBVIOUS
<1> DEFINE line == [shown |-> TRUE, tail |-> <<"wait">>, did |-> {}]
           S == {lines[i] : i \in DOMAIN lines} \cup {line}
<1>1. lines \in Seq(S) /\ line \in S
    BY DEF LinesNumbered
<1>2. lines' = Append(lines, line)
    BY DEF SendMessage
<1> HIDE DEF S, line
<1>3. lines' \in Seq(S)
    BY <1>1, <1>2, AppendProperties
<1> QED BY <1>3, LenProperties DEF LinesNumbered

LEMMA NumberedNext == LinesNumbered /\ [Next]_vars => LinesNumbered'
<1> SUFFICES ASSUME LinesNumbered, [Next]_vars PROVE LinesNumbered'
    OBVIOUS
<1>1. CASE SendMessage
    BY <1>1, SentIsNumbered
<1>2. ASSUME NEW i, NEW v, lines' = [lines EXCEPT ![i] = v] PROVE LinesNumbered'
    BY <1>2 DEF LinesNumbered
<1>3. CASE UNCHANGED lines
    BY <1>3 DEF LinesNumbered
<1>4. CASE Handle
    BY <1>2, <1>3, <1>4
    DEF Handle, MessageHandler, OnDisplayed, OnReaction, OnGlyph, OnChatState, channel
<1>5. CASE ContactActs
    BY <1>2, <1>5 DEF ContactActs
<1>6. CASE Close \/ Restart
    BY <1>6 DEF Close, Restart, Destroyed, LinesNumbered
<1>7. CASE OnOldMessage \/ Presence \/ Message \/ DisplayedElsewhere \/ ContactState
           \/ Keystroke \/ Enter \/ Leave \/ Open \/ Connect \/ Drop \/ UNCHANGED vars
    BY <1>3, <1>7
    DEF OnOldMessage, MessageHandler, Presence, Message, DisplayedElsewhere, ContactState,
        Keystroke, Enter, Leave, Open, Connect, Drop, channel, vars
<1> QED BY <1>1, <1>4, <1>5, <1>6, <1>7 DEF Next

LEMMA NumberedCorrect == Spec => []LinesNumbered
<1>1. Init => LinesNumbered
    BY DEF Init, LinesNumbered
<1> QED BY <1>1, NumberedNext, PTL DEF Spec

-------------------------------------------------------------------------------
(* Answers and places.  A message on its way live was not answered yet, and  *)
(* comes after all that is unread or published; what is unread comes after   *)
(* what is published.  So each answer is the first and each place a further. *)

MsgType == [from : Devices \cup {"me"}, asks : BOOLEAN, answers : Nat]

PlaceTypes ==
    /\ msgs \in Seq(MsgType) /\ inbox \in Seq(EventType)
    /\ unreads \in Seq(Nat) /\ published \in Seq(Nat)

Increasing(s) == \A i, j \in DOMAIN s : i < j => s[i] < s[j]
Below(s, t)   == \A i \in DOMAIN s, j \in DOMAIN t : s[i] < t[j]
AllBelow(s, n) == \A i \in DOMAIN s : s[i] < n

InboxAhead ==
    \A k \in DOMAIN inbox : inbox[k].is = "message" =>
        /\ inbox[k].of \in DOMAIN msgs /\ msgs[inbox[k].of].answers = 0
        /\ AllBelow(unreads, inbox[k].of) /\ AllBelow(published, inbox[k].of)
        /\ \A l \in DOMAIN inbox :
              l > k /\ inbox[l].is = "message" => inbox[k].of < inbox[l].of

PlaceInv ==
    /\ PlaceTypes /\ AnsweredOnce /\ InboxAhead
    /\ AllBelow(unreads, Len(msgs) + 1) /\ AllBelow(published, Len(msgs) + 1)
    /\ Increasing(unreads) /\ Increasing(published) /\ Below(published, unreads)

LEMMA QuietKeepsPlaces ==
    PlaceInv /\ UNCHANGED <<msgs, inbox, unreads, published>> => PlaceInv'
BY DEF PlaceInv, PlaceTypes, AnsweredOnce, InboxAhead, AllBelow, Increasing, Below

\* The end of the unread list, none of it included, keeps what the list promises.
LEMMA RestOfUnreads ==
    ASSUME PlaceInv, NEW n \in 0..Len(unreads)
    PROVE  LET rest == SubSeq(unreads, n + 1, Len(unreads))
           IN  /\ rest \in Seq(Nat) /\ Increasing(rest) /\ Below(published, rest)
               /\ \A k : AllBelow(unreads, k) => AllBelow(rest, k)
<1> DEFINE rest == SubSeq(unreads, n + 1, Len(unreads))
<1>0. unreads \in Seq(Nat) /\ Len(unreads) \in Nat /\ DOMAIN unreads = 1..Len(unreads)
    BY LenProperties DEF PlaceInv, PlaceTypes
<1>1. \A i \in (n + 1)..Len(unreads) : unreads[i] \in Nat
    BY <1>0, ElementOfSeq
<1>2. /\ rest \in Seq(Nat)
      /\ Len(rest) = IF n + 1 <= Len(unreads) THEN Len(unreads) - (n + 1) + 1 ELSE 0
      /\ \A i \in 1..(Len(unreads) - (n + 1) + 1) : rest[i] = unreads[n + 1 + i - 1]
    <2>1. n + 1 \in Int /\ Len(unreads) \in Int
        BY <1>0
    <2> QED BY <1>1, <2>1, SubSeqProperties
<1>3. DOMAIN rest = 1..Len(rest)
    BY <1>2, LenProperties
<1> HIDE DEF rest
<1>4. \A i \in DOMAIN rest : n + i \in DOMAIN unreads /\ rest[i] = unreads[n + i] /\ i \in Nat
    <2> SUFFICES ASSUME NEW i \in 1..Len(rest)
                 PROVE  n + i \in 1..Len(unreads) /\ rest[i] = unreads[n + i] /\ i \in Nat
        BY <1>0, <1>3
    <2>1. n + 1 <= Len(unreads) /\ i \in 1..(Len(unreads) - (n + 1) + 1)
        <3>1. Len(rest) # 0
            BY <1>3
        <3>2. n + 1 <= Len(unreads) /\ Len(rest) = Len(unreads) - (n + 1) + 1
            BY <1>2, <3>1
        <3> QED BY <3>2
    <2>2. n + 1 + i - 1 = n + i /\ n + i \in 1..Len(unreads) /\ i \in Nat
        BY <1>0, <2>1
    <2> QED BY <1>2, <2>1, <2>2
<1>5. Increasing(rest)
    <2> SUFFICES ASSUME NEW i \in DOMAIN rest, NEW j \in DOMAIN rest, i < j PROVE rest[i] < rest[j]
        BY DEF Increasing
    <2>1. n + i < n + j
        BY <1>4
    <2> QED BY <1>4, <2>1 DEF PlaceInv, Increasing
<1>6. Below(published, rest)
    BY <1>4 DEF PlaceInv, Below
<1>7. \A k : AllBelow(unreads, k) => AllBelow(rest, k)
    BY <1>4 DEF AllBelow
<1> QED BY <1>2, <1>5, <1>6, <1>7 DEF rest

\* The first event of the inbox is handled and changes nothing here, or is lost with the rest.
LEMMA InboxShorter ==
    ASSUME PlaceInv, inbox' = <<>> \/ (inbox # <<>> /\ inbox' = Tail(inbox))
    PROVE  /\ inbox' \in Seq(EventType)
           /\ \A k \in DOMAIN inbox' : k \in Nat /\ k + 1 \in DOMAIN inbox /\ inbox'[k] = inbox[k + 1]
<1>0. inbox \in Seq(EventType)
    BY DEF PlaceInv, PlaceTypes
<1>1. CASE inbox' = <<>>
    BY <1>1, EmptySeq
<1>2. CASE inbox # <<>> /\ inbox' = Tail(inbox)
    <2>1. /\ inbox' \in Seq(EventType) /\ Len(inbox') = Len(inbox) - 1
          /\ \A i \in 1..Len(inbox') : inbox'[i] = inbox[i + 1]
        BY <1>0, <1>2, HeadTailProperties
    <2>2. DOMAIN inbox = 1..Len(inbox) /\ Len(inbox) \in Nat /\ DOMAIN inbox' = 1..Len(inbox')
        BY <1>0, <2>1, LenProperties
    <2> QED BY <2>1, <2>2
<1> QED BY <1>1, <1>2

LEMMA ShorterKeepsPlaces ==
    ASSUME PlaceInv, inbox' = <<>> \/ (inbox # <<>> /\ inbox' = Tail(inbox)),
           UNCHANGED <<msgs, published>>,
           \E n \in 0..Len(unreads) : unreads' = SubSeq(unreads, n + 1, Len(unreads))
    PROVE  PlaceInv'
<1>1. /\ inbox' \in Seq(EventType)
      /\ \A k \in DOMAIN inbox' : k \in Nat /\ k + 1 \in DOMAIN inbox /\ inbox'[k] = inbox[k + 1]
    BY InboxShorter
<1>2. /\ unreads' \in Seq(Nat) /\ Increasing(unreads') /\ Below(published, unreads')
      /\ \A k : AllBelow(unreads, k) => AllBelow(unreads', k)
    BY RestOfUnreads
<1>3. InboxAhead'
    <2> SUFFICES ASSUME NEW k \in DOMAIN inbox', inbox'[k].is = "message"
                 PROVE  /\ inbox'[k].of \in DOMAIN msgs /\ msgs[inbox'[k].of].answers = 0
                        /\ AllBelow(unreads', inbox'[k].of) /\ AllBelow(published, inbox'[k].of)
                        /\ \A l \in DOMAIN inbox' :
                              l > k /\ inbox'[l].is = "message" => inbox'[k].of < inbox'[l].of
        BY DEF InboxAhead, AllBelow
    <2>1. k + 1 \in DOMAIN inbox /\ inbox[k + 1].is = "message" /\ inbox'[k] = inbox[k + 1]
        BY <1>1
    <2>2. \A l \in DOMAIN inbox' : l > k => l + 1 > k + 1
        BY <1>1
    <2> QED BY <1>1, <1>2, <2>1, <2>2 DEF PlaceInv, InboxAhead
<1>4. PlaceTypes' /\ AnsweredOnce'
    BY <1>1, <1>2 DEF PlaceInv, PlaceTypes, AnsweredOnce
<1>5. AllBelow(unreads', Len(msgs') + 1) /\ AllBelow(published', Len(msgs') + 1)
    BY <1>2 DEF PlaceInv
<1> QED BY <1>2, <1>3, <1>4, <1>5 DEF PlaceInv, AllBelow, Increasing, Below

\* An event that is no message joins the inbox, or none does.
LEMMA OtherEventKeepsPlaces ==
    ASSUME PlaceInv, UNCHANGED <<msgs, unreads, published>>,
           NEW e \in EventType, e.is # "message", inbox' \in {inbox, Append(inbox, e)}
    PROVE  PlaceInv'
<1>1. CASE inbox' = inbox
    BY <1>1, QuietKeepsPlaces
<1>2. CASE inbox' = Append(inbox, e)
    <2>1. inbox \in Seq(EventType)
        BY DEF PlaceInv, PlaceTypes
    <2>2. /\ inbox' \in Seq(EventType) /\ Len(inbox') = Len(inbox) + 1
          /\ \A i \in 1..Len(inbox) : inbox'[i] = inbox[i]
          /\ inbox'[Len(inbox) + 1] = e
        BY <1>2, <2>1, AppendProperties
    <2>3. DOMAIN inbox = 1..Len(inbox) /\ Len(inbox) \in Nat /\ DOMAIN inbox' = 1..Len(inbox')
        BY <2>1, <2>2, LenProperties
    <2>4. \A k \in DOMAIN inbox' : inbox'[k].is = "message" =>
              k \in DOMAIN inbox /\ inbox'[k] = inbox[k]
        BY <2>2, <2>3
    <2>5. InboxAhead'
        BY <2>4 DEF PlaceInv, InboxAhead, AllBelow
    <2> QED BY <2>2, <2>5 DEF PlaceInv, PlaceTypes, AnsweredOnce, AllBelow, Increasing, Below
<1> QED BY <1>1, <1>2

\* send_reads: the last of the unreads is published, after all the others.
LEMMA SendReadsKeepsPlaces ==
    ASSUME PlaceInv, SendReads, inbox' = Published, UNCHANGED msgs
    PROVE  PlaceInv'
<1>0. /\ unreads \in Seq(Nat) /\ published \in Seq(Nat) /\ inbox \in Seq(EventType)
      /\ unreads' = <<>>
    BY DEF PlaceInv, PlaceTypes, SendReads
<1>1. CASE unreads = <<>>
    BY <1>1, QuietKeepsPlaces DEF SendReads, Published
<1>2. CASE unreads # <<>>
    <2> DEFINE last == unreads[Len(unreads)]
    <2>1. Len(unreads) \in DOMAIN unreads /\ last \in Nat
        BY <1>0, <1>2, EmptySeq, LenProperties, ElementOfSeq
    <2>2. published' = Append(published, last)
        BY <1>2 DEF SendReads, Last
    <2> HIDE DEF last
    <2>3. /\ published' \in Seq(Nat) /\ Len(published') = Len(published) + 1
          /\ \A i \in 1..Len(published) : published'[i] = published[i]
          /\ published'[Len(published) + 1] = last
        BY <1>0, <2>1, <2>2, AppendProperties
    <2>4. /\ DOMAIN published = 1..Len(published) /\ Len(published) \in Nat
          /\ DOMAIN published' = 1..Len(published')
        BY <1>0, <2>3, LenProperties
    <2>5. \A i \in DOMAIN published : published[i] < last
        BY <2>1 DEF PlaceInv, Below, last
    <2>6. Increasing(published')
        <3> SUFFICES ASSUME NEW i \in DOMAIN published', NEW j \in DOMAIN published', i < j
                     PROVE  published'[i] < published'[j]
            BY DEF Increasing
        <3>1. i \in DOMAIN published /\ published'[i] = published[i]
            BY <2>3, <2>4
        <3>2. CASE j \in DOMAIN published
            BY <2>3, <2>4, <3>1, <3>2 DEF PlaceInv, Increasing
        <3>3. CASE j \notin DOMAIN published
            <4>1. j = Len(published) + 1
                BY <2>3, <2>4, <3>3
            <4> QED BY <2>3, <2>5, <3>1, <4>1
        <3> QED BY <3>2, <3>3
    <2>7. \A k : AllBelow(published, k) /\ AllBelow(unreads, k) => AllBelow(published', k)
        <3> SUFFICES ASSUME NEW k, AllBelow(published, k), AllBelow(unreads, k),
                            NEW i \in DOMAIN published'
                     PROVE  published'[i] < k
            BY DEF AllBelow
        <3>1. CASE i \in DOMAIN published
            BY <2>3, <2>4, <3>1 DEF AllBelow
        <3>2. CASE i \notin DOMAIN published
            <4>1. i = Len(published) + 1
                BY <2>3, <2>4, <3>2
            <4> QED BY <2>1, <2>3, <4>1 DEF AllBelow, last
        <3> QED BY <3>1, <3>2
    <2> DEFINE e == [is |-> "displayed", of |-> last]
    <2>8. e \in EventType /\ e.is # "message" /\ inbox' \in {inbox, Append(inbox, e)}
        BY <1>2, <2>1 DEF Published, Notified, Last, EventType, last
    <2> HIDE DEF e
    <2>9. /\ inbox' \in Seq(EventType)
          /\ \A k \in DOMAIN inbox' : inbox'[k].is = "message" =>
                k \in DOMAIN inbox /\ inbox'[k] = inbox[k]
        <3>1. CASE inbox' = inbox
            BY <1>0, <3>1
        <3>2. CASE inbox' = Append(inbox, e)
            <4>1. /\ inbox' \in Seq(EventType) /\ Len(inbox') = Len(inbox) + 1
                  /\ \A i \in 1..Len(inbox) : inbox'[i] = inbox[i]
                  /\ inbox'[Len(inbox) + 1] = e
                BY <1>0, <2>8, <3>2, AppendProperties
            <4>2. DOMAIN inbox = 1..Len(inbox) /\ Len(inbox) \in Nat
                  /\ DOMAIN inbox' = 1..Len(inbox')
                BY <1>0, <4>1, LenProperties
            <4> QED BY <2>8, <4>1, <4>2
        <3> QED BY <2>8, <3>1, <3>2
    <2>10. \A k : AllBelow(unreads', k)
        BY <1>0, EmptySeq DEF AllBelow
    <2>11. InboxAhead'
        <3> SUFFICES ASSUME NEW k \in DOMAIN inbox', inbox'[k].is = "message"
                     PROVE  /\ inbox'[k].of \in DOMAIN msgs /\ msgs[inbox'[k].of].answers = 0
                            /\ AllBelow(unreads', inbox'[k].of)
                            /\ AllBelow(published', inbox'[k].of)
                            /\ \A l \in DOMAIN inbox' :
                                l > k /\ inbox'[l].is = "message" => inbox'[k].of < inbox'[l].of
            BY DEF InboxAhead, AllBelow
        <3> QED BY <2>7, <2>9, <2>10 DEF PlaceInv, InboxAhead
    <2>12. PlaceTypes' /\ AnsweredOnce'
        BY <1>0, <2>3, <2>9, EmptySeq DEF PlaceInv, PlaceTypes, AnsweredOnce
    <2>13. AllBelow(unreads', Len(msgs') + 1) /\ AllBelow(published', Len(msgs') + 1)
        BY <2>7, <2>10 DEF PlaceInv
    <2>14. Increasing(unreads') /\ Below(published', unreads')
        BY <1>0, EmptySeq DEF Increasing, Below
    <2> QED BY <2>6, <2>11, <2>12, <2>13, <2>14 DEF PlaceInv, AllBelow, Increasing, Below
<1> QED BY <1>1, <1>2

\* A new message is the last of all and was not answered.
LEMMA MessageKeepsPlaces == PlaceInv /\ Message => PlaceInv'
<1> SUFFICES ASSUME PlaceInv, Message PROVE PlaceInv'
    OBVIOUS
<1> DEFINE n == Len(msgs) + 1
           e == [is |-> "message", of |-> n]
<1>0. msgs \in Seq(MsgType) /\ inbox \in Seq(EventType)
    BY DEF PlaceInv, PlaceTypes
<1>1. PICK m \in MsgType : m.answers = 0 /\ msgs' = Append(msgs, m)
    BY DEF Message, MsgType
<1>2. /\ msgs' \in Seq(MsgType) /\ Len(msgs') = n /\ msgs'[n] = m
      /\ \A i \in 1..Len(msgs) : msgs'[i] = msgs[i]
    BY <1>0, <1>1, AppendProperties
<1>3. /\ Len(msgs) \in Nat /\ DOMAIN msgs = 1..Len(msgs) /\ DOMAIN msgs' = 1..n
      /\ DOMAIN inbox = 1..Len(inbox) /\ Len(inbox) \in Nat
    BY <1>0, <1>2, LenProperties
<1>4. n \in Nat /\ DOMAIN msgs' = DOMAIN msgs \cup {n} /\ n \notin DOMAIN msgs
    BY <1>3
<1>5. e \in EventType /\ UNCHANGED <<unreads, published>> /\ inbox' \in {inbox, Append(inbox, e)}
    BY <1>4 DEF Message, Event, Notified, EventType, channel
<1>6. /\ inbox' \in Seq(EventType)
      /\ \A k \in DOMAIN inbox' :
            \/ k \in DOMAIN inbox /\ inbox'[k] = inbox[k]
            \/ k = Len(inbox) + 1 /\ inbox'[k] = e
    <2> HIDE DEF e
    <2>1. CASE inbox' = inbox
        BY <1>0, <2>1
    <2>2. CASE inbox' = Append(inbox, e)
        <3>1. /\ inbox' \in Seq(EventType) /\ Len(inbox') = Len(inbox) + 1
              /\ \A i \in 1..Len(inbox) : inbox'[i] = inbox[i]
              /\ inbox'[Len(inbox) + 1] = e
            BY <1>0, <1>5, <2>2, AppendProperties
        <3>2. DOMAIN inbox' = 1..Len(inbox')
            BY <3>1, LenProperties
        <3> QED BY <1>3, <3>1, <3>2
    <2> QED BY <1>5, <2>1, <2>2
<1>7. e.is = "message" /\ e.of = n
    OBVIOUS
<1> HIDE DEF e
<1>8. \A i \in DOMAIN msgs : msgs'[i] = msgs[i] /\ i < n
    BY <1>2, <1>3
<1> HIDE DEF n
<1>9. AllBelow(unreads, n) /\ AllBelow(published, n)
    BY DEF PlaceInv, n
<1>10. InboxAhead'
    <2> SUFFICES ASSUME NEW k \in DOMAIN inbox', inbox'[k].is = "message"
                 PROVE  /\ inbox'[k].of \in DOMAIN msgs' /\ msgs'[inbox'[k].of].answers = 0
                        /\ AllBelow(unreads, inbox'[k].of) /\ AllBelow(published, inbox'[k].of)
                        /\ \A l \in DOMAIN inbox' :
                            l > k /\ inbox'[l].is = "message" => inbox'[k].of < inbox'[l].of
        BY <1>5 DEF InboxAhead, AllBelow
    <2>1. CASE k \in DOMAIN inbox /\ inbox'[k] = inbox[k]
        <3>1. inbox[k].of \in DOMAIN msgs /\ msgs[inbox[k].of].answers = 0
              /\ AllBelow(unreads, inbox[k].of) /\ AllBelow(published, inbox[k].of)
            BY <2>1 DEF PlaceInv, InboxAhead
        <3>2. ASSUME NEW l \in DOMAIN inbox', l > k, inbox'[l].is = "message"
              PROVE  inbox'[k].of < inbox'[l].of
            <4>1. CASE l \in DOMAIN inbox /\ inbox'[l] = inbox[l]
                BY <2>1, <3>2, <4>1 DEF PlaceInv, InboxAhead
            <4>2. CASE inbox'[l] = e
                BY <1>7, <1>8, <2>1, <3>1, <4>2
            <4> QED BY <1>6, <4>1, <4>2
        <3> QED BY <1>4, <1>8, <2>1, <3>1, <3>2
    <2>2. CASE k = Len(inbox) + 1 /\ inbox'[k] = e
        <3>1. \A l \in DOMAIN inbox' : ~(l > k)
            BY <1>3, <1>6, <2>2
        <3> QED BY <1>1, <1>2, <1>4, <1>7, <1>9, <2>2, <3>1
    <2> QED BY <1>6, <2>1, <2>2
<1>11. PlaceTypes'
    BY <1>2, <1>5, <1>6 DEF PlaceInv, PlaceTypes
<1>12. AnsweredOnce'
    BY <1>1, <1>2, <1>4, <1>8 DEF PlaceInv, AnsweredOnce
<1>13. AllBelow(unreads', Len(msgs') + 1) /\ AllBelow(published', Len(msgs') + 1)
    <2>1. ASSUME NEW s \in Seq(Nat), AllBelow(s, n) PROVE AllBelow(s, n + 1)
        <3>1. \A i \in DOMAIN s : s[i] \in Nat
            BY LenProperties, ElementOfSeq
        <3> QED BY <1>4, <2>1, <3>1 DEF AllBelow
    <2> QED BY <1>2, <1>5, <1>9, <2>1 DEF PlaceInv, PlaceTypes
<1> QED BY <1>5, <1>10, <1>11, <1>12, <1>13 DEF PlaceInv, Increasing, Below

\* A notification removes some of the unreads, from the front, or all.
LEMMA DisplayedIsRest ==
    ASSUME PlaceInv, NEW m, OnDisplayed(m) \/ UNCHANGED unreads
    PROVE  \E n \in 0..Len(unreads) : unreads' = SubSeq(unreads, n + 1, Len(unreads))
<1>0. unreads \in Seq(Nat) /\ Len(unreads) \in Nat
    BY LenProperties DEF PlaceInv, PlaceTypes
<1>1. CASE unreads' = unreads
    <2>1. SubSeq(unreads, 0 + 1, Len(unreads)) = unreads /\ 0 \in 0..Len(unreads)
        BY <1>0, SubSeqFull
    <2> QED BY <1>1, <2>1
<1>2. CASE unreads' = <<>>
    <2>1. Len(unreads) + 1 \in Int /\ Len(unreads) \in Int /\ Len(unreads) < Len(unreads) + 1
          /\ Len(unreads) \in 0..Len(unreads)
        BY <1>0
    <2>2. SubSeq(unreads, Len(unreads) + 1, Len(unreads)) = <<>>
        BY <2>1, SubSeqEmpty
    <2> QED BY <1>2, <2>1, <2>2
<1> DEFINE I == {i \in 1..Len(unreads) : unreads[i] = m}
<1>3. CASE I # {} /\ unreads' = SubSeq(unreads, Min(I) + 1, Len(unreads))
    <2>1. Min(I) \in I
        <3>1. I \subseteq Nat
            BY <1>0
        <3> HIDE DEF I
        <3> QED BY <1>3, <3>1, LeastIsIn
    <2>2. Min(I) \in 0..Len(unreads)
        BY <1>0, <2>1
    <2> QED BY <1>3, <2>2
<1>4. unreads' = unreads \/ unreads' = <<>>
      \/ (I # {} /\ unreads' = SubSeq(unreads, Min(I) + 1, Len(unreads)))
    BY <1>0 DEF OnDisplayed, SelectInSeq
<1> QED BY <1>1, <1>2, <1>3, <1>4

\* The live message at the head of the inbox is the next place and was not answered.
LEMMA LiveKeepsPlaces ==
    ASSUME PlaceInv, inbox # <<>>, Head(inbox).is = "message", inbox' = Tail(inbox),
           MessageHandler(Head(inbox).of, "live")
    PROVE  PlaceInv'
<1> DEFINE m == Head(inbox).of
<1>0. /\ inbox \in Seq(EventType) /\ unreads \in Seq(Nat) /\ published \in Seq(Nat)
      /\ msgs \in Seq(MsgType)
    BY DEF PlaceInv, PlaceTypes
<1>1. 1 \in DOMAIN inbox /\ Head(inbox) = inbox[1]
    <2>1. Len(inbox) \in Nat \ {0} /\ DOMAIN inbox = 1..Len(inbox)
        BY <1>0, EmptySeq, LenProperties
    <2> QED BY <1>0, <2>1
<1>2. /\ m \in DOMAIN msgs /\ msgs[m].answers = 0 /\ AllBelow(unreads, m) /\ AllBelow(published, m)
      /\ \A l \in DOMAIN inbox : l > 1 /\ inbox[l].is = "message" => m < inbox[l].of
    BY <1>1 DEF PlaceInv, InboxAhead
<1> HIDE DEF m
<1>3. DOMAIN msgs = 1..Len(msgs) /\ Len(msgs) \in Nat /\ m \in Nat /\ m < Len(msgs) + 1
    BY <1>0, <1>2, LenProperties
<1>4. /\ inbox' \in Seq(EventType)
      /\ \A k \in DOMAIN inbox' : k \in Nat /\ k + 1 \in DOMAIN inbox /\ inbox'[k] = inbox[k + 1]
    BY InboxShorter
<1>5. CASE ~Answers(m, "live")
    <2>1. UNCHANGED <<msgs, unreads, published>>
        BY <1>5 DEF MessageHandler, m
    <2>2. \E n \in 0..Len(unreads) : unreads' = SubSeq(unreads, n + 1, Len(unreads))
        BY <2>1, DisplayedIsRest
    <2> QED BY <2>1, <2>2, ShorterKeepsPlaces
<1>6. CASE Answers(m, "live")
    <2>1. /\ unreads' = Append(unreads, m) /\ UNCHANGED published
          /\ msgs' = [msgs EXCEPT ![m].answers = @ + 1]
        BY <1>6 DEF MessageHandler, m
    <2>2. /\ unreads' \in Seq(Nat) /\ Len(unreads') = Len(unreads) + 1
          /\ \A i \in 1..Len(unreads) : unreads'[i] = unreads[i]
          /\ unreads'[Len(unreads) + 1] = m
        BY <1>0, <1>3, <2>1, AppendProperties
    <2>3. DOMAIN unreads = 1..Len(unreads) /\ Len(unreads) \in Nat
          /\ DOMAIN unreads' = 1..Len(unreads')
        BY <1>0, <2>2, LenProperties
    <2>4. \A j \in DOMAIN unreads' :
              \/ j \in DOMAIN unreads /\ unreads'[j] = unreads[j]
              \/ j = Len(unreads) + 1 /\ unreads'[j] = m
        BY <2>2, <2>3
    <2>5. Increasing(unreads')
        <3> SUFFICES ASSUME NEW i \in DOMAIN unreads', NEW j \in DOMAIN unreads', i < j
                     PROVE  unreads'[i] < unreads'[j]
            BY DEF Increasing
        <3>1. i \in DOMAIN unreads /\ unreads'[i] = unreads[i]
            BY <2>2, <2>3
        <3> QED BY <1>2, <2>4, <3>1 DEF PlaceInv, Increasing, AllBelow
    <2>6. Below(published, unreads')
        BY <1>2, <2>4 DEF PlaceInv, Below, AllBelow
    <2>7. \A k : AllBelow(unreads, k) /\ m < k => AllBelow(unreads', k)
        BY <2>4 DEF AllBelow
    <2>8. msgs[m] \in MsgType
        BY <1>0, <1>2, <1>3, ElementOfSeq
    <2>9. /\ msgs' \in Seq(MsgType) /\ Len(msgs') = Len(msgs) /\ DOMAIN msgs' = DOMAIN msgs
          /\ \A i \in DOMAIN msgs : i # m => msgs'[i] = msgs[i]
          /\ msgs'[m].answers = 1 /\ msgs'[m].from # "me" /\ msgs'[m].asks
        <3>1. [msgs[m] EXCEPT !.answers = @ + 1] \in MsgType
            BY <2>8 DEF MsgType
        <3>2. msgs' = [msgs EXCEPT ![m] = [msgs[m] EXCEPT !.answers = @ + 1]]
            BY <2>1
        <3>3. /\ msgs' \in Seq(MsgType) /\ Len(msgs') = Len(msgs)
              /\ \A i \in DOMAIN msgs : i # m => msgs'[i] = msgs[i]
              /\ msgs'[m] = [msgs[m] EXCEPT !.answers = @ + 1]
            BY <1>0, <1>2, <1>3, <3>1, <3>2, ExceptSeq
        <3>4. msgs'[m].answers = 1 /\ msgs'[m].from # "me" /\ msgs'[m].asks
            BY <1>2, <1>6, <2>8, <3>3 DEF Answers, MsgType
        <3> QED BY <1>3, <3>3, <3>4, LenProperties
    <2>10. InboxAhead'
        <3> SUFFICES ASSUME NEW k \in DOMAIN inbox', inbox'[k].is = "message"
                     PROVE  /\ inbox'[k].of \in DOMAIN msgs' /\ msgs'[inbox'[k].of].answers = 0
                            /\ AllBelow(unreads', inbox'[k].of)
                            /\ AllBelow(published, inbox'[k].of)
                            /\ \A l \in DOMAIN inbox' :
                                l > k /\ inbox'[l].is = "message" => inbox'[k].of < inbox'[l].of
            BY <2>1 DEF InboxAhead, AllBelow
        <3>1. k + 1 \in DOMAIN inbox /\ inbox[k + 1].is = "message" /\ inbox'[k] = inbox[k + 1]
              /\ k + 1 > 1
            <4>1. k # 0
                BY <1>4, LenProperties
            <4> QED BY <1>4, <4>1
        <3>2. /\ inbox'[k].of \in DOMAIN msgs /\ msgs[inbox'[k].of].answers = 0
              /\ AllBelow(unreads, inbox'[k].of) /\ AllBelow(published, inbox'[k].of)
            BY <3>1 DEF PlaceInv, InboxAhead
        <3>3. m < inbox'[k].of /\ inbox'[k].of # m
            BY <1>2, <1>3, <3>1, <3>2
        <3>4. \A l \in DOMAIN inbox' :
                  l > k /\ inbox'[l].is = "message" => inbox'[k].of < inbox'[l].of
            <4>1. \A l \in DOMAIN inbox' : l > k => l + 1 > k + 1
                BY <1>4
            <4> QED BY <1>4, <3>1, <4>1 DEF PlaceInv, InboxAhead
        <3> QED BY <2>7, <2>9, <3>2, <3>3, <3>4
    <2>11. AnsweredOnce'
        BY <1>2, <2>9 DEF PlaceInv, AnsweredOnce
    <2>12. PlaceTypes'
        BY <1>0, <1>4, <2>1, <2>2, <2>9 DEF PlaceTypes
    <2>13. AllBelow(unreads', Len(msgs') + 1) /\ AllBelow(published', Len(msgs') + 1)
        BY <1>3, <2>1, <2>7, <2>9 DEF PlaceInv
    <2> QED BY <2>1, <2>5, <2>6, <2>10, <2>11, <2>12, <2>13
            DEF PlaceInv, AllBelow, Increasing, Below
<1> QED BY <1>5, <1>6

LEMMA HandleKeepsPlaces == PlaceInv /\ Handle => PlaceInv'
<1> SUFFICES ASSUME PlaceInv, Handle PROVE PlaceInv'
    OBVIOUS
<1> DEFINE e == Head(inbox)
<1>0. inbox # <<>> /\ inbox' = Tail(inbox)
    BY DEF Handle
<1>1. CASE e.is = "message"
    BY <1>0, <1>1, LiveKeepsPlaces DEF Handle
<1>2. CASE e.is # "message"
    <2>1. UNCHANGED <<msgs, published>> /\ (OnDisplayed(e.of) \/ UNCHANGED unreads)
        BY <1>2 DEF Handle, OnDisplayed, OnReaction, OnGlyph, OnChatState, channel
    <2>2. \E n \in 0..Len(unreads) : unreads' = SubSeq(unreads, n + 1, Len(unreads))
        BY <2>1, DisplayedIsRest
    <2> QED BY <1>0, <2>1, <2>2, ShorterKeepsPlaces
<1> QED BY <1>1, <1>2

LEMMA PlaceInit == Init => PlaceInv
<1> SUFFICES ASSUME Init PROVE PlaceInv
    OBVIOUS
<1>1. inbox = <<>> /\ msgs = <<>> /\ unreads = <<>> /\ published = <<>>
    BY DEF Init
<1>2. \A i : i \notin DOMAIN <<>>
    BY EmptySeq, LenProperties
<1> QED BY <1>1, <1>2, EmptySeq
        DEF PlaceInv, PlaceTypes, AnsweredOnce, InboxAhead, AllBelow, Increasing, Below

LEMMA PlaceNext == PlaceInv /\ LinesNumbered /\ [Next]_vars => PlaceInv'
<1> SUFFICES ASSUME PlaceInv, LinesNumbered, [Next]_vars PROVE PlaceInv'
    OBVIOUS
<1>1. CASE Handle
    BY <1>1, HandleKeepsPlaces
<1>2. CASE OnOldMessage
    BY <1>2, QuietKeepsPlaces DEF OnOldMessage, MessageHandler, Answers
<1>3. CASE Presence \/ Enter \/ Open \/ Connect
    BY <1>3, QuietKeepsPlaces DEF Presence, Enter, Open, Connect, channel
<1>4. CASE Message
    BY <1>4, MessageKeepsPlaces
<1>5. CASE DisplayedElsewhere \/ ContactActs \/ ContactState
    <2>1. UNCHANGED <<msgs, unreads, published>>
        BY <1>5 DEF DisplayedElsewhere, ContactActs, ContactState, channel
    <2>2. DOMAIN msgs \subseteq Nat /\ DOMAIN lines \subseteq Nat
        BY LenProperties DEF PlaceInv, PlaceTypes, LinesNumbered
    <2>3. PICK e \in EventType : e.is # "message" /\ inbox' \in {inbox, Append(inbox, e)}
        <3>1. ASSUME NEW is \in {"displayed", "composing", "another", "received", "seen",
                                 "react", "unreact"},
                     NEW of \in Nat \cup Devices,
                     Event([is |-> is, of |-> of])
              PROVE  \E e \in EventType : e.is # "message" /\ inbox' \in {inbox, Append(inbox, e)}
            <4> DEFINE e == [is |-> is, of |-> of]
            <4>1. e \in EventType /\ e.is # "message"
                BY DEF EventType
            <4>2. inbox' \in {inbox, Append(inbox, e)}
                BY <3>1 DEF Event, Notified
            <4> QED BY <4>1, <4>2
        <3>2. CASE DisplayedElsewhere
            BY <2>2, <3>1, <3>2 DEF DisplayedElsewhere
        <3>3. CASE ContactActs
            BY <2>2, <3>1, <3>3 DEF ContactActs
        <3>4. CASE ContactState
            BY <3>1, <3>4 DEF ContactState
        <3> QED BY <1>5, <3>2, <3>3, <3>4
    <2> QED BY <2>1, <2>3, OtherEventKeepsPlaces
<1>6. CASE Keystroke \/ Leave \/ SendMessage
    BY <1>6, SendReadsKeepsPlaces DEF Keystroke, Leave, SendMessage
<1>7. CASE Close \/ Drop \/ Restart
    <2>1. UNCHANGED <<msgs, published>>
        BY <1>7 DEF Close, Drop, Restart
    <2>2. unreads' = unreads \/ unreads' = <<>>
        BY <1>7 DEF Close, Drop, Restart, Destroyed, channel
    <2>3. inbox' = inbox \/ inbox' = <<>>
        BY <1>7 DEF Close, Drop, Restart
    <2>4. PlaceTypes' /\ AnsweredOnce'
        BY <2>1, <2>2, <2>3, EmptySeq DEF PlaceInv, PlaceTypes, AnsweredOnce
    <2>5. \A i : i \notin DOMAIN <<>>
        BY EmptySeq, LenProperties
    <2>6. /\ \A k \in DOMAIN inbox' : k \in DOMAIN inbox /\ inbox'[k] = inbox[k]
          /\ \A i \in DOMAIN unreads' : i \in DOMAIN unreads /\ unreads'[i] = unreads[i]
        BY <2>2, <2>3, <2>5
    <2>7. InboxAhead'
        BY <2>1, <2>6 DEF PlaceInv, InboxAhead, AllBelow
    <2> QED BY <2>1, <2>4, <2>6, <2>7 DEF PlaceInv, AllBelow, Increasing, Below
<1>8. CASE UNCHANGED vars
    BY <1>8, QuietKeepsPlaces DEF vars, channel
<1> QED BY <1>1, <1>2, <1>3, <1>4, <1>5, <1>6, <1>7, <1>8 DEF Next

LEMMA PlaceCorrect == Spec => []PlaceInv
BY PlaceInit, PlaceNext, NumberedCorrect, PTL DEF Spec

\* However often the archive, delayed deliveries, carbons and resumed streams bring a
\* message again, it is answered once at most, and only if its author is the contact.
THEOREM AnsweredOnceCorrect == Spec => []AnsweredOnce
<1>1. PlaceInv => AnsweredOnce
    BY DEF PlaceInv
<1> QED BY <1>1, PlaceCorrect, PTL

\* The places published for the user's other devices never go back.
THEOREM PlacesAdvanceCorrect == Spec => []PlacesAdvance
<1>1. PlaceInv => PlacesAdvance
    BY DEF PlaceInv, Increasing, PlacesAdvance
<1> QED BY <1>1, PlaceCorrect, PTL

-------------------------------------------------------------------------------
(* Glyphs.  What the contact did is recorded before the client hears of it,  *)
(* so a receipt or marker on its way is backed, and so is the glyph it sets. *)

Marks == {"wait", "received", "seen", "reaction"}
Acts  == {"received", "seen", "react", "unreact"}
LineType == [shown : BOOLEAN, tail : Seq(Marks), did : SUBSET Acts]

EventsDone ==
    \A k \in DOMAIN inbox : inbox[k].is \in Acts =>
        inbox[k].of \in DOMAIN lines /\ inbox[k].is \in lines[inbox[k].of].did

GlyphInv == lines \in Seq(LineType) /\ GlyphsAreTrue /\ EventsDone

LEMMA QuietKeepsGlyphs == GlyphInv /\ UNCHANGED <<lines, inbox>> => GlyphInv'
BY DEF GlyphInv, GlyphsAreTrue, EventsDone

\* The front of a tail, as long as it is one.
LEMMA FrontOfTail ==
    ASSUME NEW tail \in Seq(Marks), NEW n \in Int, n <= Len(tail)
    PROVE  /\ SubSeq(tail, 1, n) \in Seq(Marks)
           /\ ToSet(SubSeq(tail, 1, n)) \subseteq ToSet(tail)
<1>0. Len(tail) \in Nat /\ DOMAIN tail = 1..Len(tail) /\ \A i \in 1..n : tail[i] \in Marks
    BY LenProperties, ElementOfSeq
<1>1. /\ SubSeq(tail, 1, n) \in Seq(Marks)
      /\ Len(SubSeq(tail, 1, n)) = IF 1 <= n THEN n - 1 + 1 ELSE 0
      /\ \A i \in 1..(n - 1 + 1) : SubSeq(tail, 1, n)[i] = tail[1 + i - 1]
    <2>1. 1 \in Int /\ \A i \in 1..n : tail[i] \in Marks
        BY <1>0
    <2> QED BY <2>1, SubSeqProperties
<1>2. DOMAIN SubSeq(tail, 1, n) = 1..Len(SubSeq(tail, 1, n))
    BY <1>1, LenProperties
<1>3. \A i \in DOMAIN SubSeq(tail, 1, n) : i \in DOMAIN tail /\ SubSeq(tail, 1, n)[i] = tail[i]
    <2> SUFFICES ASSUME NEW i \in DOMAIN SubSeq(tail, 1, n)
                 PROVE  i \in DOMAIN tail /\ SubSeq(tail, 1, n)[i] = tail[i]
        OBVIOUS
    <2>1. i \in 1..n
        BY <1>1, <1>2
    <2>2. i \in 1..(n - 1 + 1) /\ 1 + i - 1 = i /\ i \in 1..Len(tail)
        BY <1>0, <2>1
    <2> QED BY <1>0, <1>1, <2>2
<1> QED BY <1>1, <1>3 DEF ToSet

LEMMA MarkAppended ==
    ASSUME NEW tail \in Seq(Marks), NEW mark \in Marks
    PROVE  /\ Append(tail, mark) \in Seq(Marks)
           /\ ToSet(Append(tail, mark)) \subseteq ToSet(tail) \cup {mark}
<1>1. /\ Append(tail, mark) \in Seq(Marks) /\ Len(Append(tail, mark)) = Len(tail) + 1
      /\ \A i \in 1..Len(tail) : Append(tail, mark)[i] = tail[i]
      /\ Append(tail, mark)[Len(tail) + 1] = mark
    BY AppendProperties
<1>2. /\ DOMAIN tail = 1..Len(tail) /\ Len(tail) \in Nat
      /\ DOMAIN Append(tail, mark) = 1..Len(Append(tail, mark))
    BY <1>1, LenProperties
<1> HIDE DEF Marks
<1> QED BY <1>1, <1>2 DEF ToSet

\* A glyph adds itself only; a reaction neither adds nor alters a glyph.
LEMMA GlyphedIs ==
    ASSUME NEW tail \in Seq(Marks), NEW glyph \in Marks
    PROVE  /\ Glyphed(tail, glyph) \in Seq(Marks)
           /\ ToSet(Glyphed(tail, glyph)) \subseteq ToSet(tail) \cup {glyph}
<1>1. Len(tail) - 1 \in Int /\ Len(tail) - 1 <= Len(tail)
    BY LenProperties
<1>2. Front(tail) \in Seq(Marks) /\ ToSet(Front(tail)) \subseteq ToSet(tail)
    BY <1>1, FrontOfTail DEF Front
<1>3. PICK base \in Seq(Marks) :
          ToSet(base) \subseteq ToSet(tail) /\ Glyphed(tail, glyph) = Append(base, glyph)
    BY <1>2 DEF Glyphed
<1> QED BY <1>3, MarkAppended

LEMMA ReactedIs ==
    ASSUME NEW tail \in Seq(Marks), NEW some \in BOOLEAN
    PROVE  /\ Reacted(tail, some) \in Seq(Marks)
           /\ ToSet(Reacted(tail, some)) \subseteq ToSet(tail) \cup {"reaction"}
<1> DEFINE I == {i \in 1..Len(tail) : tail[i] = "reaction"}
<1>1. PICK base \in Seq(Marks) :
          /\ ToSet(base) \subseteq ToSet(tail)
          /\ Reacted(tail, some) = IF some THEN Append(base, "reaction") ELSE base
    <2>1. CASE I = {}
        BY <2>1 DEF Reacted, SelectInSeq
    <2>2. CASE I # {}
        <3>1. Len(tail) \in Nat /\ I \subseteq Nat
            BY LenProperties
        <3>2. Min(I) \in I
            <4> HIDE DEF I
            <4> QED BY <2>2, <3>1, LeastIsIn
        <3>3. Min(I) - 1 \in Int /\ Min(I) - 1 <= Len(tail) /\ Min(I) # 0
            BY <3>1, <3>2
        <3>4. /\ SubSeq(tail, 1, Min(I) - 1) \in Seq(Marks)
              /\ ToSet(SubSeq(tail, 1, Min(I) - 1)) \subseteq ToSet(tail)
            BY <3>3, FrontOfTail
        <3>5. Reacted(tail, some) = IF some THEN Append(SubSeq(tail, 1, Min(I) - 1), "reaction")
                                            ELSE SubSeq(tail, 1, Min(I) - 1)
            BY <2>2, <3>3 DEF Reacted, SelectInSeq
        <3> QED BY <3>4, <3>5
    <2> QED BY <2>1, <2>2
<1>2. "reaction" \in Marks
    BY DEF Marks
<1> QED BY <1>1, <1>2, MarkAppended

\* One line gets a tail whose glyphs are backed.
LEMMA LineKeepsGlyphs ==
    ASSUME GlyphInv, NEW i \in DOMAIN lines, NEW tail \in Seq(Marks),
           NEW glyph \in {"reaction"} \cup (lines[i].did \cap {"received", "seen"}),
           ToSet(tail) \subseteq ToSet(lines[i].tail) \cup {glyph},
           lines' = [lines EXCEPT ![i].tail = tail]
    PROVE  /\ lines' \in Seq(LineType) /\ DOMAIN lines' = DOMAIN lines
           /\ \A j \in DOMAIN lines : lines'[j].did = lines[j].did
           /\ GlyphsAreTrue'
<1>0. lines \in Seq(LineType) /\ DOMAIN lines = 1..Len(lines)
    BY LenProperties DEF GlyphInv
<1>1. lines[i] \in LineType
    BY <1>0, ElementOfSeq
<1>2. [lines[i] EXCEPT !.tail = tail] \in LineType
    BY <1>1 DEF LineType
<1>3. /\ lines' \in Seq(LineType) /\ Len(lines') = Len(lines)
      /\ \A j \in 1..Len(lines) :
            lines'[j] = IF j = i THEN [lines[i] EXCEPT !.tail = tail] ELSE lines[j]
    BY <1>0, <1>2, ExceptSeq
<1>4. DOMAIN lines' = DOMAIN lines
    BY <1>0, <1>3, LenProperties
<1>5. lines'[i].tail = tail /\ lines'[i].did = lines[i].did
    BY <1>0, <1>1, <1>3 DEF LineType
<1>6. \A j \in DOMAIN lines : j # i => lines'[j] = lines[j]
    BY <1>0, <1>3
<1>7. GlyphsAreTrue'
    <2> SUFFICES ASSUME NEW j \in DOMAIN lines, NEW t \in {"received", "seen"},
                        t \in ToSet(lines'[j].tail)
                 PROVE  t \in lines'[j].did
        BY <1>4 DEF GlyphsAreTrue, ToSet
    <2>1. CASE j # i
        BY <1>6, <2>1 DEF GlyphInv, GlyphsAreTrue
    <2>2. CASE j = i
        <3>1. t \in ToSet(lines[i].tail) \/ t = glyph
            BY <1>5, <2>2
        <3> QED BY <1>5, <2>2, <3>1 DEF GlyphInv, GlyphsAreTrue
    <2> QED BY <2>1, <2>2
<1> QED BY <1>3, <1>4, <1>5, <1>6, <1>7

\* The event at the head of the inbox, if it is about a line.
LEMMA HandleKeepsGlyphs == PlaceInv /\ GlyphInv /\ Handle => GlyphInv'
<1> SUFFICES ASSUME PlaceInv, GlyphInv, Handle PROVE GlyphInv'
    OBVIOUS
<1> DEFINE e == Head(inbox)
<1>0. inbox # <<>> /\ inbox' = Tail(inbox) /\ inbox \in Seq(EventType) /\ lines \in Seq(LineType)
    BY DEF Handle, PlaceInv, PlaceTypes, GlyphInv
<1>1. \A k \in DOMAIN inbox' : k + 1 \in DOMAIN inbox /\ inbox'[k] = inbox[k + 1]
    BY <1>0, InboxShorter
<1>2. 1 \in DOMAIN inbox /\ e = inbox[1] /\ e \in EventType
    <2>1. Len(inbox) \in Nat \ {0} /\ DOMAIN inbox = 1..Len(inbox)
        BY <1>0, EmptySeq, LenProperties
    <2> QED BY <1>0, <2>1, ElementOfSeq
<1>3. e.is \in Acts => e.of \in DOMAIN lines /\ e.is \in lines[e.of].did
    BY <1>2 DEF GlyphInv, EventsDone
<1> HIDE DEF e
<1>4. ASSUME DOMAIN lines' = DOMAIN lines,
             \A j \in DOMAIN lines : lines'[j].did = lines[j].did
      PROVE  EventsDone'
    BY <1>1, <1>4 DEF GlyphInv, EventsDone
<1>5. CASE UNCHANGED lines
    BY <1>4, <1>5 DEF GlyphInv, GlyphsAreTrue
<1>6. ASSUME NEW some \in BOOLEAN, OnReaction(e.of, some), e.is \in {"react", "unreact"}
      PROVE  GlyphInv'
    <2>1. e.of \in DOMAIN lines
        BY <1>3, <1>6 DEF Acts
    <2>2. lines[e.of] \in LineType
        BY <1>0, <2>1, LenProperties, ElementOfSeq
    <2>3. CASE lines[e.of].shown
        <3> DEFINE tail == Reacted(lines[e.of].tail, some)
        <3>1. tail \in Seq(Marks) /\ ToSet(tail) \subseteq ToSet(lines[e.of].tail) \cup {"reaction"}
            BY <2>2, ReactedIs DEF LineType
        <3>2. lines' = [lines EXCEPT ![e.of].tail = tail]
            BY <1>6, <2>3 DEF OnReaction
        <3> HIDE DEF tail
        <3>3. /\ lines' \in Seq(LineType) /\ DOMAIN lines' = DOMAIN lines
              /\ \A j \in DOMAIN lines : lines'[j].did = lines[j].did
              /\ GlyphsAreTrue'
            BY <2>1, <3>1, <3>2, LineKeepsGlyphs
        <3> QED BY <1>4, <3>3 DEF GlyphInv
    <2> QED BY <1>5, <1>6, <2>3 DEF OnReaction
<1>7. ASSUME OnGlyph(e.of, e.is), e.is \in {"received", "seen"}
      PROVE  GlyphInv'
    <2>1. e.of \in DOMAIN lines /\ e.is \in lines[e.of].did /\ e.is \in Marks
        BY <1>3, <1>7 DEF Acts, Marks
    <2>2. lines[e.of] \in LineType
        BY <1>0, <2>1, LenProperties, ElementOfSeq
    <2>3. CASE lines[e.of].shown
        <3> DEFINE tail == Glyphed(lines[e.of].tail, e.is)
        <3>1. tail \in Seq(Marks) /\ ToSet(tail) \subseteq ToSet(lines[e.of].tail) \cup {e.is}
            BY <2>1, <2>2, GlyphedIs DEF LineType
        <3>2. lines' = [lines EXCEPT ![e.of].tail = tail]
            BY <1>7, <2>3 DEF OnGlyph, LineOf
        <3> HIDE DEF tail
        <3>3. /\ lines' \in Seq(LineType) /\ DOMAIN lines' = DOMAIN lines
              /\ \A j \in DOMAIN lines : lines'[j].did = lines[j].did
              /\ GlyphsAreTrue'
            BY <1>7, <2>1, <3>1, <3>2, LineKeepsGlyphs
        <3> QED BY <1>4, <3>3 DEF GlyphInv
    <2> QED BY <1>5, <1>7, <2>3 DEF OnGlyph, LineOf
<1>8. \/ UNCHANGED lines
      \/ e.is \in {"react", "unreact"} /\ \E some \in BOOLEAN : OnReaction(e.of, some)
      \/ e.is \in {"received", "seen"} /\ OnGlyph(e.of, e.is)
    <2>1. e.is \in {"message", "displayed", "composing", "another", "received", "seen",
                    "react", "unreact"}
        BY <1>2 DEF EventType
    <2> QED BY <2>1 DEF Handle, MessageHandler, OnDisplayed, OnChatState, channel, e
<1> QED BY <1>5, <1>6, <1>7, <1>8

\* Another event joins the inbox, which what the contact did backs.
LEMMA EventKeepsGlyphs ==
    ASSUME PlaceInv, GlyphInv, NEW e \in EventType, inbox' \in {inbox, Append(inbox, e)},
           lines' \in Seq(LineType), DOMAIN lines' = DOMAIN lines,
           \A j \in DOMAIN lines : /\ lines'[j].tail = lines[j].tail
                                   /\ lines[j].did \subseteq lines'[j].did,
           e.is \in Acts => e.of \in DOMAIN lines /\ e.is \in lines'[e.of].did
    PROVE  GlyphInv'
<1>1. GlyphsAreTrue'
    BY DEF GlyphInv, GlyphsAreTrue, ToSet
<1>2. \A k \in DOMAIN inbox' : (k \in DOMAIN inbox /\ inbox'[k] = inbox[k]) \/ inbox'[k] = e
    <2>1. CASE inbox' = inbox
        BY <2>1
    <2>2. CASE inbox' = Append(inbox, e)
        <3>1. inbox \in Seq(EventType)
            BY DEF PlaceInv, PlaceTypes
        <3>2. /\ inbox' \in Seq(EventType) /\ Len(inbox') = Len(inbox) + 1
              /\ \A i \in 1..Len(inbox) : inbox'[i] = inbox[i]
              /\ inbox'[Len(inbox) + 1] = e
            BY <2>2, <3>1, AppendProperties
        <3>3. DOMAIN inbox = 1..Len(inbox) /\ Len(inbox) \in Nat /\ DOMAIN inbox' = 1..Len(inbox')
            BY <3>1, <3>2, LenProperties
        <3> QED BY <3>2, <3>3
    <2> QED BY <2>1, <2>2
<1>3. EventsDone'
    BY <1>2 DEF GlyphInv, EventsDone
<1> QED BY <1>1, <1>3 DEF GlyphInv

\* A sent line ends in the hourglass, a closed buffer's line in nothing.
LEMMA SentKeepsGlyphs ==
    ASSUME PlaceInv, GlyphInv, SendMessage
    PROVE  GlyphInv'
<1> DEFINE line == [shown |-> TRUE, tail |-> <<"wait">>, did |-> {}]
<1>0. lines \in Seq(LineType) /\ lines' = Append(lines, line)
    BY DEF GlyphInv, SendMessage
<1>1. line \in LineType /\ \A t \in {"received", "seen"} : t \notin ToSet(line.tail)
    BY DEF LineType, Marks, ToSet
<1> HIDE DEF line
<1>2. /\ lines' \in Seq(LineType) /\ Len(lines') = Len(lines) + 1
      /\ \A i \in 1..Len(lines) : lines'[i] = lines[i]
      /\ lines'[Len(lines) + 1] = line
    BY <1>0, <1>1, AppendProperties
<1>3. DOMAIN lines = 1..Len(lines) /\ Len(lines) \in Nat /\ DOMAIN lines' = 1..Len(lines')
    BY <1>0, <1>2, LenProperties
<1>4. \A j \in DOMAIN lines' : (j \in DOMAIN lines /\ lines'[j] = lines[j]) \/ lines'[j] = line
    BY <1>2, <1>3
<1>5. GlyphsAreTrue'
    BY <1>1, <1>4 DEF GlyphInv, GlyphsAreTrue
<1>6. \A k \in DOMAIN inbox' : inbox'[k].is \in Acts => k \in DOMAIN inbox /\ inbox'[k] = inbox[k]
    <2>1. CASE inbox' = inbox
        BY <2>1
    <2>2. CASE unreads # <<>> /\ inbox' = Append(inbox, [is |-> "displayed", of |-> Last(unreads)])
        <3> DEFINE e == [is |-> "displayed", of |-> Last(unreads)]
                   S == EventType \cup {e}
        <3>1. inbox \in Seq(S) /\ e \in S
            BY SeqMonotonic DEF PlaceInv, PlaceTypes
        <3>2. e.is \notin Acts
            BY DEF Acts
        <3> HIDE DEF e, S
        <3>3. /\ inbox' \in Seq(S) /\ Len(inbox') = Len(inbox) + 1
              /\ \A i \in 1..Len(inbox) : inbox'[i] = inbox[i]
              /\ inbox'[Len(inbox) + 1] = e
            BY <2>2, <3>1, AppendProperties DEF e
        <3>4. DOMAIN inbox = 1..Len(inbox) /\ Len(inbox) \in Nat /\ DOMAIN inbox' = 1..Len(inbox')
            BY <3>1, <3>3, LenProperties
        <3> QED BY <3>2, <3>3, <3>4
    <2> QED BY <2>1, <2>2 DEF SendMessage, Published, Notified
<1>7. EventsDone'
    BY <1>2, <1>3, <1>6 DEF GlyphInv, EventsDone
<1> QED BY <1>2, <1>5, <1>7 DEF GlyphInv

LEMMA DestroyedKeepsGlyphs ==
    ASSUME GlyphInv, Destroyed, inbox' \in {inbox, <<>>}
    PROVE  GlyphInv'
<1>0. lines \in Seq(LineType) /\ Len(lines) \in Nat /\ DOMAIN lines = 1..Len(lines)
    BY LenProperties DEF GlyphInv
<1>1. \A i \in DOMAIN lines : lines[i] \in LineType
    BY <1>0, ElementOfSeq
<1>2. DOMAIN lines' = DOMAIN lines
      /\ \A i \in DOMAIN lines : lines'[i] = [lines[i] EXCEPT !.shown = FALSE, !.tail = <<>>]
    BY DEF Destroyed
<1>3. \A i \in DOMAIN lines : lines'[i] \in LineType /\ lines'[i].tail = <<>>
                              /\ lines'[i].did = lines[i].did
    BY <1>1, <1>2, EmptySeq DEF LineType
<1>4. lines' \in Seq(LineType)
    <2>1. lines' = [i \in 1..Len(lines) |-> lines'[i]]
        BY <1>0 DEF Destroyed
    <2> QED BY <1>0, <1>3, <2>1
<1>5. \A i : i \notin DOMAIN <<>>
    BY EmptySeq, LenProperties
<1>6. GlyphsAreTrue'
    BY <1>2, <1>3, <1>5 DEF GlyphsAreTrue, ToSet
<1>7. EventsDone'
    BY <1>2, <1>3, <1>5 DEF GlyphInv, EventsDone
<1> QED BY <1>4, <1>6, <1>7 DEF GlyphInv

\* What the contact does is recorded with the event that tells of it.
LEMMA ActsKeepGlyphs ==
    ASSUME PlaceInv, GlyphInv, ContactActs
    PROVE  GlyphInv'
<1>0. lines \in Seq(LineType) /\ DOMAIN lines = 1..Len(lines) /\ Len(lines) \in Nat
    BY LenProperties DEF GlyphInv
<1>1. PICK i \in DOMAIN lines, a \in Acts :
          Event([is |-> a, of |-> i]) /\ lines' = [lines EXCEPT ![i].did = @ \cup {a}]
    BY DEF ContactActs, Acts
<1> DEFINE e == [is |-> a, of |-> i]
           line == [lines[i] EXCEPT !.did = @ \cup {a}]
<1>2. e \in EventType /\ e.is = a /\ e.of = i
    BY <1>0 DEF EventType, Acts
<1>3. lines[i] \in LineType
    BY <1>0, ElementOfSeq
<1>4. line \in LineType /\ line.tail = lines[i].tail /\ line.did = lines[i].did \cup {a}
    BY <1>3 DEF LineType
<1>5. lines' = [lines EXCEPT ![i] = line]
    BY <1>1
<1>6. inbox' \in {inbox, Append(inbox, e)}
    BY <1>1 DEF Event, Notified
<1> HIDE DEF e, line
<1>7. /\ lines' \in Seq(LineType) /\ Len(lines') = Len(lines)
      /\ \A j \in 1..Len(lines) : lines'[j] = IF j = i THEN line ELSE lines[j]
    BY <1>0, <1>4, <1>5, ExceptSeq
<1>8. DOMAIN lines' = DOMAIN lines
    BY <1>0, <1>7, LenProperties
<1>9. \A j \in DOMAIN lines : lines'[j].tail = lines[j].tail /\ lines[j].did \subseteq lines'[j].did
    BY <1>0, <1>4, <1>7
<1>10. a \in lines'[i].did
    BY <1>0, <1>4, <1>7
<1> QED BY <1>2, <1>6, <1>7, <1>8, <1>9, <1>10, EventKeepsGlyphs

LEMMA GlyphInit == Init => GlyphInv
<1> SUFFICES ASSUME Init PROVE GlyphInv
    OBVIOUS
<1>1. inbox = <<>> /\ lines = <<>>
    BY DEF Init
<1>2. \A i : i \notin DOMAIN <<>>
    BY EmptySeq, LenProperties
<1> QED BY <1>1, <1>2, EmptySeq DEF GlyphInv, GlyphsAreTrue, EventsDone

LEMMA GlyphNext == PlaceInv /\ GlyphInv /\ [Next]_vars => GlyphInv'
<1> SUFFICES ASSUME PlaceInv, GlyphInv, [Next]_vars PROVE GlyphInv'
    OBVIOUS
<1>0. lines \in Seq(LineType) /\ DOMAIN msgs \subseteq Nat
      /\ (unreads # <<>> => Last(unreads) \in Nat)
    <2>1. msgs \in Seq(MsgType) /\ unreads \in Seq(Nat)
        BY DEF PlaceInv, PlaceTypes
    <2>2. unreads # <<>> => Len(unreads) \in 1..Len(unreads)
        BY <2>1, EmptySeq
    <2> QED BY <2>1, <2>2, LenProperties, ElementOfSeq DEF GlyphInv, Last
<1>1. CASE Handle
    BY <1>1, HandleKeepsGlyphs
<1>2. CASE OnOldMessage \/ Presence \/ Enter \/ Open \/ Connect \/ UNCHANGED vars
    BY <1>2, QuietKeepsGlyphs
    DEF OnOldMessage, MessageHandler, Presence, Enter, Open, Connect, vars, channel
<1>3. ASSUME NEW is \in {"message", "displayed", "composing", "another"},
             NEW of \in Nat \cup Devices,
             inbox' \in {inbox, Append(inbox, [is |-> is, of |-> of])}, UNCHANGED lines
      PROVE  GlyphInv'
    <2> DEFINE e == [is |-> is, of |-> of]
    <2>1. e \in EventType /\ e.is \notin Acts
        BY DEF EventType, Acts
    <2>2. inbox' \in {inbox, Append(inbox, e)}
        BY <1>3
    <2> HIDE DEF e
    <2> QED BY <1>0, <1>3, <2>1, <2>2, EventKeepsGlyphs
<1>4. CASE Message
    <2>1. Len(msgs) + 1 \in Nat
        BY LenProperties DEF PlaceInv, PlaceTypes
    <2> QED BY <1>3, <1>4, <2>1 DEF Message, Event, Notified, channel
<1>5. CASE DisplayedElsewhere
    BY <1>0, <1>3, <1>5 DEF DisplayedElsewhere, Event, Notified, channel
<1>6. CASE ContactState
    BY <1>3, <1>6 DEF ContactState, Event, Notified, channel
<1>7. CASE ContactActs
    BY <1>7, ActsKeepGlyphs
<1>8. CASE Keystroke \/ Leave
    <2>1. UNCHANGED lines /\ inbox' = Published
        BY <1>8 DEF Keystroke, Leave
    <2>2. CASE inbox' = inbox
        BY <2>1, <2>2, QuietKeepsGlyphs
    <2>3. CASE unreads # <<>> /\ inbox' = Append(inbox, [is |-> "displayed", of |-> Last(unreads)])
        BY <1>0, <1>3, <2>1, <2>3
    <2> QED BY <2>1, <2>2, <2>3 DEF Published, Notified
<1>9. CASE SendMessage
    BY <1>9, SentKeepsGlyphs
<1>10. CASE Close \/ Restart
    BY <1>10, DestroyedKeepsGlyphs DEF Close, Restart
<1>11. CASE Drop
    <2>1. \A i : i \notin DOMAIN <<>>
        BY EmptySeq, LenProperties
    <2> QED BY <1>11, <2>1 DEF Drop, channel, GlyphInv, GlyphsAreTrue, EventsDone
<1> QED BY <1>1, <1>2, <1>4, <1>5, <1>6, <1>7, <1>8, <1>9, <1>10, <1>11 DEF Next

\* A line says delivered or read only if some device of the contact did receive or
\* display it, whatever receipts, markers and reactions came, in any order.
THEOREM GlyphsAreTrueCorrect == Spec => []GlyphsAreTrue
<1>1. GlyphInv => GlyphsAreTrue
    BY DEF GlyphInv
<1> QED BY <1>1, GlyphInit, GlyphNext, PlaceCorrect, PTL DEF Spec
================================================================================
