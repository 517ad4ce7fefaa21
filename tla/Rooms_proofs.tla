------------------------------ MODULE Rooms_proofs ------------------------------
(***************************************************************************)
(* Theorems about Rooms, for every value of its constants: what holds when *)
(* nothing is in flight follows from what holds while things are.  Each of *)
(* the four rests on the same kind of fact: whatever a room's state says,  *)
(* the last thing on its way about it is right.                            *)
(***************************************************************************)
EXTENDS Rooms, SequenceTheorems, FiniteSetTheorems, TLAPS

-------------------------------------------------------------------------------
\* What is said on a channel, and the inductive invariant.

Marks     == [Rooms -> Bookmark]
Occupants == Nicks \cup {Me}

ClientMsg ==
    [kind : {"join", "leave", "retract", "ping"}, room : Rooms]
    \cup [kind : {"publish"}, marks : Marks] \cup [kind : {"private"}]
ServerMsg ==
    [kind : {"here"}, room : Rooms, nick : Occupants]
    \cup [kind : {"away"}, room : Rooms, nick : Occupants, kicked : BOOLEAN]
    \cup [kind : {"refused", "retract"}, room : Rooms]
    \cup [kind : {"message"}, room : Rooms, delayed : BOOLEAN]
    \cup [kind : {"item"}, room : Rooms, autojoin : Bookmark \ {"none"}]
    \cup [kind : {"private"}, marks : Marks]
    \cup [kind : {"pong"}, room : Rooms, inside : BOOLEAN]

RoomTypes ==
    /\ up \in BOOLEAN
    /\ channels \subseteq Rooms /\ buffers \subseteq channels /\ member \subseteq Rooms
    /\ bookmarks \in Marks /\ stored \in Marks
    /\ occupants \in [Rooms -> SUBSET Nicks] /\ missed \in [Rooms -> SUBSET Nicks]
    /\ nicklist \in [Rooms -> SUBSET Occupants]
    /\ c2s \in Seq(ClientMsg) /\ s2c \in Seq(ServerMsg)
    /\ ~up => \A r \in Rooms : nicklist[r] = {}

\* q has something of S and nothing of T after it; nothing of T; something of S.
Ends(q, S, T) == \E i \in DOMAIN q : q[i] \in S /\ \A j \in DOMAIN q : j > i => q[j] \notin T
Free(q, T)    == \A i \in DOMAIN q : q[i] \notin T
Has(q, S)     == \E i \in DOMAIN q : q[i] \in S

\* Requests to enter a room and to leave it; an occupant's presences, and what puts
\* the user out of a room.
Entries(r)  == {Join(r)}
Exits(r)    == {Leave(r)}
Heres(r, n) == {Here(r, n)}
Aways(r, n) == {Away(r, n, kicked) : kicked \in BOOLEAN}
Expels(r)   == Aways(r, Me) \cup {[kind |-> "refused", room |-> r]}

\* What tells the client that the bookmark of r is b, what tells it another, and
\* what makes the server tell it.
Says(r, b) ==
    {m \in ServerMsg : \/ m.kind = "item" /\ m.room = r /\ m.autojoin = b
                       \/ m.kind = "private" /\ m.marks[r] = b}
Denies(r, b) ==
    {m \in ServerMsg : \/ m.kind = "item" /\ m.room = r /\ m.autojoin # b
                       \/ m.kind = "retract" /\ m.room = r
                       \/ m.kind = "private" /\ m.marks[r] \notin {b, "none"}}
Refreshes(r) ==
    {m \in ClientMsg : \/ m.kind = "private"
                       \/ m.kind = "publish" /\ m.marks[r] # "none"
                       \/ m.kind = "retract" /\ m.room = r}

\* A room that is not open: the last request about it is to leave it.
IsLeft(r)  == Ends(c2s, Exits(r), Entries(r)) \/ (Free(c2s, Entries(r)) /\ r \notin member)
LeftInv    == \A r \in Rooms \ channels : IsLeft(r)

\* A room the user is out of: the last he is told of it is that.
IsTold(r)  == \/ Ends(s2c, Expels(r), Heres(r, Me))
              \/ Free(s2c, Heres(r, Me)) /\ (r \in channels => r \in out)
ToldInv    == \A r \in Rooms : r \in member \/ Has(c2s, Entries(r)) \/ IsTold(r)

\* A bookmark of the server: the last the client is told of the room is that, or
\* the server is going to tell it.
Agreed(r)    == bookmarks[r] = stored[r] /\ (stored[r] = "on" => r \in channels \cup closed)
IsGiven(r)   == \/ Ends(s2c, Says(r, stored[r]), Denies(r, stored[r]))
                \/ Free(s2c, Denies(r, stored[r])) /\ Agreed(r)
BookmarkInv  == up => \A r \in Rooms : stored[r] = "none" \/ Has(c2s, Refreshes(r)) \/ IsGiven(r)

\* Who is in a room the user is in, stays in and sees: the last he is told of him is that.
\* Who is in none, likewise, unless he left unseen.
IsSeen(r, n)   == \/ Ends(s2c, Heres(r, n), Aways(r, n))
                  \/ Free(s2c, Aways(r, n)) /\ n \in nicklist[r]
IsUnseen(r, n) == \/ Ends(s2c, Aways(r, n), Heres(r, n))
                  \/ Free(s2c, Heres(r, n)) /\ n \notin nicklist[r]
SeenInv   == up => \A r \in (member \cap buffers) \ emptied :
                       Has(c2s, Exits(r)) \/ \A n \in occupants[r] \cup {Me} : IsSeen(r, n)
UnseenInv == \A r \in Rooms \ Dangling : \A n \in Nicks \ occupants[r] :
                 n \in missed[r] \/ IsUnseen(r, n)

RoomsInv == RoomTypes /\ LeftInv /\ ToldInv /\ BookmarkInv /\ SeenInv /\ UnseenInv

-------------------------------------------------------------------------------
\* Sequences.

LEMMA Concatenated ==
    ASSUME NEW X, NEW q \in Seq(X), NEW p \in Seq(X), NEW S, NEW T
    PROVE  /\ q \o p \in Seq(X)
           /\ Ends(p, S, T) => Ends(q \o p, S, T)
           /\ Ends(q, S, T) /\ Free(p, T) => Ends(q \o p, S, T)
           /\ Free(q, T) /\ Free(p, T) => Free(q \o p, T)
           /\ Has(q, S) => Has(q \o p, S)
           /\ Has(p, S) => Has(q \o p, S)
<1>1. /\ Len(q) \in Nat /\ Len(p) \in Nat
      /\ DOMAIN q = 1..Len(q) /\ DOMAIN p = 1..Len(p)
  OBVIOUS
<1>2. PICK s : s = q \o p
  OBVIOUS
<1>3. s \in Seq(X) /\ DOMAIN s = 1..(Len(q) + Len(p))
  BY <1>2
<1>4. \A i \in 1..Len(q) : s[i] = q[i] /\ i \in DOMAIN s
  BY <1>1, <1>2, <1>3, ConcatProperties
<1>5. \A i \in 1..Len(p) : s[Len(q) + i] = p[i] /\ Len(q) + i \in DOMAIN s
  BY <1>1, <1>2, <1>3, ConcatProperties
<1>6. \A j \in DOMAIN s : j \in 1..Len(q) \/ (j - Len(q) \in 1..Len(p) /\ s[j] = p[j - Len(q)])
  <2> SUFFICES ASSUME NEW j \in DOMAIN s, j \notin 1..Len(q)
               PROVE  j - Len(q) \in 1..Len(p) /\ s[j] = p[j - Len(q)]
    OBVIOUS
  <2>1. j - Len(q) \in 1..Len(p) /\ Len(q) + (j - Len(q)) = j
    BY <1>1, <1>3
  <2> QED BY <1>5, <2>1
<1>7. ASSUME Ends(p, S, T) PROVE Ends(s, S, T)
  <2>1. PICK i \in 1..Len(p) : p[i] \in S /\ \A j \in 1..Len(p) : j > i => p[j] \notin T
    BY <1>1, <1>7 DEF Ends
  <2>2. Len(q) + i \in DOMAIN s /\ s[Len(q) + i] \in S
    BY <1>5, <2>1
  <2>3. ASSUME NEW j \in DOMAIN s, j > Len(q) + i PROVE s[j] \notin T
    <3>1. j - Len(q) \in 1..Len(p) /\ s[j] = p[j - Len(q)] /\ j - Len(q) > i
      BY <1>1, <1>3, <1>6, <2>1, <2>3
    <3> QED BY <2>1, <3>1
  <2> QED BY <2>2, <2>3 DEF Ends
<1>8. ASSUME Ends(q, S, T), Free(p, T) PROVE Ends(s, S, T)
  <2>1. PICK i \in 1..Len(q) : q[i] \in S /\ \A j \in 1..Len(q) : j > i => q[j] \notin T
    BY <1>1, <1>8 DEF Ends
  <2>2. i \in DOMAIN s /\ s[i] \in S
    BY <1>4, <2>1
  <2>3. ASSUME NEW j \in DOMAIN s, j > i PROVE s[j] \notin T
    BY <1>1, <1>4, <1>6, <1>8, <2>1, <2>3 DEF Free
  <2> QED BY <2>2, <2>3 DEF Ends
<1>9. ASSUME Free(q, T), Free(p, T) PROVE Free(s, T)
  BY <1>1, <1>4, <1>6, <1>9 DEF Free
<1>10. (Has(q, S) => Has(s, S)) /\ (Has(p, S) => Has(s, S))
  BY <1>1, <1>4, <1>5 DEF Has
<1> QED BY <1>2, <1>3, <1>7, <1>8, <1>9, <1>10

LEMMA Consumed ==
    ASSUME NEW X, NEW q \in Seq(X), q # <<>>, NEW S, NEW T
    PROVE  /\ Head(q) \in X /\ Tail(q) \in Seq(X)
           /\ Free(q, T) => Head(q) \notin T /\ Free(Tail(q), T)
           /\ Ends(q, S, T) => Ends(Tail(q), S, T) \/ (Head(q) \in S /\ Free(Tail(q), T))
           /\ Has(q, S) => Head(q) \in S \/ Has(Tail(q), S)
<1>1. Len(q) \in Nat \ {0} /\ DOMAIN q = 1..Len(q)
  OBVIOUS
<1>2. PICK s : s = Tail(q)
  OBVIOUS
<1>3. PICK x : x = Head(q)
  OBVIOUS
<1>4. x \in X /\ x = q[1] /\ s \in Seq(X) /\ DOMAIN s = 1..(Len(q) - 1)
  BY <1>1, <1>2, <1>3
<1>5. \A i \in DOMAIN s : s[i] = q[i + 1] /\ i + 1 \in DOMAIN q
  BY <1>1, <1>2, <1>4
<1>6. \A i \in DOMAIN q : i = 1 \/ (i - 1 \in DOMAIN s /\ s[i - 1] = q[i])
  <2> SUFFICES ASSUME NEW i \in DOMAIN q, i # 1 PROVE i - 1 \in DOMAIN s /\ s[i - 1] = q[i]
    OBVIOUS
  <2>1. i - 1 \in DOMAIN s /\ (i - 1) + 1 = i
    BY <1>1, <1>4
  <2> QED BY <1>5, <2>1
<1>7. ASSUME Free(q, T) PROVE x \notin T /\ Free(s, T)
  BY <1>1, <1>4, <1>5, <1>7 DEF Free
<1>8. ASSUME Ends(q, S, T) PROVE Ends(s, S, T) \/ (x \in S /\ Free(s, T))
  <2>1. PICK i \in DOMAIN q : q[i] \in S /\ \A j \in DOMAIN q : j > i => q[j] \notin T
    BY <1>8 DEF Ends
  <2>2. CASE i = 1
    <3>1. \A j \in DOMAIN s : s[j] \notin T
      <4> TAKE j \in DOMAIN s
      <4>1. j + 1 \in DOMAIN q /\ j + 1 > 1 /\ s[j] = q[j + 1]
        BY <1>4, <1>5
      <4> QED BY <2>1, <2>2, <4>1
    <3> QED BY <1>4, <2>1, <2>2, <3>1 DEF Free
  <2>3. CASE i # 1
    <3>1. i - 1 \in DOMAIN s /\ s[i - 1] \in S
      BY <1>6, <2>1, <2>3
    <3>2. ASSUME NEW j \in DOMAIN s, j > i - 1 PROVE s[j] \notin T
      <4>1. j + 1 \in DOMAIN q /\ j + 1 > i /\ s[j] = q[j + 1]
        BY <1>1, <1>4, <1>5, <2>1, <3>2
      <4> QED BY <2>1, <4>1
    <3> QED BY <3>1, <3>2 DEF Ends
  <2> QED BY <2>2, <2>3
<1>9. Has(q, S) => x \in S \/ Has(s, S)
  BY <1>4, <1>6 DEF Has
<1> QED BY <1>2, <1>3, <1>4, <1>7, <1>8, <1>9

\* A sequence of one element, and of none.
LEMMA Single ==
    ASSUME NEW x, NEW S, NEW T
    PROVE  /\ Free(<<x>>, T) <=> x \notin T
           /\ x \in S => Ends(<<x>>, S, T) /\ Has(<<x>>, S)
           /\ Free(<<>>, T) /\ ~ Ends(<<>>, S, T) /\ ~ Has(<<>>, S)
<1>1. DOMAIN <<x>> = {1} /\ <<x>>[1] = x /\ DOMAIN <<>> = {}
  OBVIOUS
<1> QED BY <1>1 DEF Free, Ends, Has

\* SetToSeq lists all of a finite set, and no more.
LEMMA Listing ==
    ASSUME NEW S, IsFiniteSet(S)
    PROVE  /\ SetToSeq(S) \in Seq(S) /\ SetToSeq(S) \in [1..Cardinality(S) -> S]
           /\ \A x \in S : \E i \in DOMAIN SetToSeq(S) : SetToSeq(S)[i] = x
<1>1. Cardinality(S) \in Nat /\ ExistsBijection(1..Cardinality(S), S)
  BY FS_CardinalityType
<1>2. PICK n : n = Cardinality(S)
  OBVIOUS
<1>3. \E f \in [1..n -> S] : IsInjective(f)
  <2>1. PICK f : f \in Bijection(1..n, S)
    BY <1>1, <1>2 DEF ExistsBijection
  <2>2. f \in [1..n -> S] /\ IsInjective(f)
    BY <2>1 DEF Bijection, Injection
  <2> QED BY <2>2
<1>4. PICK f : f = SetToSeq(S)
  OBVIOUS
<1>5. f \in [1..n -> S] /\ IsInjective(f)
  BY <1>2, <1>3, <1>4 DEF SetToSeq
<1>6. f \in Seq(S) /\ DOMAIN f = 1..n
  BY <1>1, <1>2, <1>5, SeqDef
<1>7. ASSUME NEW x \in S, \A i \in DOMAIN f : f[i] # x PROVE FALSE
  <2>1. IsFiniteSet(S \ {x}) /\ Cardinality(S \ {x}) = n - 1
    BY <1>2, FS_RemoveElement
  <2>2. f \in [1..n -> S \ {x}]
    BY <1>5, <1>6, <1>7
  <2>3. IsFiniteSet(1..n) /\ Cardinality(1..n) = n
    BY <1>1, <1>2, FS_Interval
  <2>4. \E i, j \in 1..n : i # j /\ f[i] = f[j]
    BY <1>1, <1>2, <2>1, <2>2, <2>3, FS_PigeonHole
  <2> QED BY <1>5, <2>4 DEF IsInjective
<1> QED BY <1>2, <1>4, <1>5, <1>6, <1>7

-------------------------------------------------------------------------------
\* Types.

USE DEF Bookmark

Receipt ==
    \/ OnHere \/ OnAway \/ OnRefused \/ OnMessage \/ OnItemOn \/ OnItemOff \/ OnRetract
    \/ OnPrivate \/ OnPong \/ OnDangling

\* Every message that is read is of the types above.
LEMMA ReceiptFrame ==
    ASSUME RoomTypes, Receipt
    PROVE  /\ up /\ up' /\ c2s = <<>> /\ s2c # <<>> /\ s2c' = Tail(s2c)
           /\ Head(s2c) \in ServerMsg /\ s2c' \in Seq(ServerMsg)
           /\ UNCHANGED <<server, history>>
<1>1. up /\ up' /\ c2s = <<>> /\ s2c # <<>> /\ s2c' = Tail(s2c) /\ UNCHANGED <<server, history>>
  BY DEF Receipt, OnHere, OnAway, OnRefused, OnMessage, OnItemOn, OnItemOff, OnRetract, OnPrivate,
         OnPong, OnDangling, Receive, Handled, Taken
<1> QED BY <1>1, Consumed DEF RoomTypes

LEMMA EmptyConcat ==
    /\ <<>> \in Seq(ClientMsg) /\ \A q \in Seq(ClientMsg) : <<>> \o q = q
  OBVIOUS

LEMMA RequestTypes ==
    /\ \A r \in Rooms : Join(r) \in ClientMsg /\ Leave(r) \in ClientMsg
    /\ Burst \in Seq(ClientMsg)
<1>1. \A r \in Rooms : Join(r) \in ClientMsg /\ Leave(r) \in ClientMsg
  BY DEF Join, Leave, ClientMsg
<1>2. [kind |-> "private"] \in ClientMsg
  BY DEF ClientMsg
<1> QED BY <1>1, <1>2 DEF Burst

\* What reading a message does to the client, except for the private bookmarks.
LEMMA TypeReceipt ==
    ASSUME RoomTypes, Receipt, ~ OnPrivate
    PROVE  RoomTypes'
<1>1. /\ up' /\ c2s = <<>> /\ s2c' \in Seq(ServerMsg) /\ Head(s2c) \in ServerMsg
      /\ UNCHANGED <<server, history>>
  BY ReceiptFrame
<1>2. PICK m \in ServerMsg : m = Head(s2c)
  BY <1>1
<1>3. /\ channels \subseteq Rooms /\ buffers \subseteq channels /\ bookmarks \in Marks
      /\ nicklist \in [Rooms -> SUBSET Occupants]
  BY DEF RoomTypes
<1> DEFINE Good == /\ channels' \subseteq Rooms /\ buffers' \subseteq channels'
                   /\ bookmarks' \in Marks /\ nicklist' \in [Rooms -> SUBSET Occupants]
                   /\ c2s' \in Seq(ClientMsg)
<1>4. ASSUME OnHere PROVE Good
  <2>1. m.room \in Rooms /\ m.nick \in Occupants
    BY <1>2, <1>4 DEF OnHere, Receive, ServerMsg
  <2> QED BY <1>1, <1>2, <1>3, <1>4, <2>1 DEF OnHere, Listed
<1>5. ASSUME OnAway PROVE Good
  <2>1. m.room \in Rooms /\ m.nick \in Occupants
    BY <1>2, <1>5 DEF OnAway, Receive, ServerMsg
  <2> QED BY <1>1, <1>2, <1>3, <1>5, <2>1 DEF OnAway, Delisted
<1>6. ASSUME OnRefused PROVE Good
  BY <1>1, <1>3, <1>6 DEF OnRefused
<1>7. ASSUME OnMessage PROVE Good
  <2>1. m.room \in Rooms
    BY <1>2, <1>7 DEF OnMessage, Receive, ServerMsg
  <2> QED BY <1>1, <1>2, <1>3, <1>7, <2>1 DEF OnMessage
<1>8. ASSUME OnItemOn PROVE Good
  <2>1. m.room \in Rooms /\ <<Join(m.room)>> \in Seq(ClientMsg)
    <3>1. m.room \in Rooms
      BY <1>2, <1>8 DEF OnItemOn, Receive, ServerMsg
    <3> QED BY <3>1, RequestTypes
  <2>2. c2s' \in Seq(ClientMsg)
    BY <1>1, <1>2, <1>8, <2>1, EmptyConcat DEF OnItemOn, Send, shown
  <2> QED BY <1>1, <1>2, <1>3, <1>8, <2>1, <2>2 DEF OnItemOn, Opens, shown, Marks
<1>9. ASSUME OnItemOff \/ OnRetract PROVE Good
  <2>1. m.room \in Rooms /\ Leaving(m.room) \in Seq(ClientMsg)
    <3>1. m.room \in Rooms
      BY <1>2, <1>9 DEF OnItemOff, OnRetract, Receive, ServerMsg
    <3> QED BY <3>1, RequestTypes DEF Leaving
  <2>2. c2s' \in Seq(ClientMsg)
    BY <1>1, <1>2, <1>9, <2>1, EmptyConcat DEF OnItemOff, OnRetract, Send, shown
  <2> QED BY <1>1, <1>2, <1>3, <1>9, <2>1, <2>2 DEF OnItemOff, OnRetract, Closes, shown, Marks
<1>10. ASSUME OnPong PROVE Good
  <2>1. m.room \in Rooms /\ <<Join(m.room)>> \in Seq(ClientMsg)
    <3>1. m.room \in Rooms
      BY <1>2, <1>10 DEF OnPong, Receive, ServerMsg
    <3> QED BY <3>1, RequestTypes
  <2>2. c2s' \in Seq(ClientMsg)
    BY <1>1, <1>2, <1>10, <2>1, EmptyConcat DEF OnPong, Send
  <2> QED BY <1>1, <1>3, <1>10, <2>2 DEF OnPong, shown
<1>11. ASSUME OnDangling PROVE Good
  <2>1. m.kind = "item" => m.autojoin \in Bookmark
    BY <1>2 DEF ServerMsg
  <2>2. bookmarks' \in Marks
    BY <1>2, <1>3, <1>11, <2>1 DEF OnDangling, Marks
  <2> QED BY <1>1, <1>3, <1>11, <2>2 DEF OnDangling
<1>12. Good
  BY <1>4, <1>5, <1>6, <1>7, <1>8, <1>9, <1>10, <1>11 DEF Receipt
<1> QED BY <1>1, <1>12 DEF RoomTypes, server, history

LEMMA PrivateJoins ==
    ASSUME RoomTypes, OnPrivate
    PROVE  /\ Head(s2c).kind = "private" /\ Head(s2c).marks \in Marks
           /\ \E new : /\ new = Autojoined(Head(s2c).marks) \ channels
                       /\ new \subseteq Rooms
                       /\ c2s' = SetToSeq({Join(r) : r \in new})
                       /\ c2s' \in Seq(ClientMsg)
                       /\ \A i \in DOMAIN c2s' : \E r \in new : c2s'[i] = Join(r)
                       /\ \A r \in new : \E i \in DOMAIN c2s' : c2s'[i] = Join(r)
<1>1. c2s = <<>> /\ Head(s2c) \in ServerMsg /\ Head(s2c).kind = "private"
  BY ReceiptFrame DEF Receipt, OnPrivate, Receive
<1>2. Head(s2c).marks \in Marks
  BY <1>1 DEF ServerMsg
<1>3. PICK new : new = Autojoined(Head(s2c).marks) \ channels
  OBVIOUS
<1>4. new \subseteq Rooms
  BY <1>3 DEF Autojoined
<1>5. PICK S : S = {Join(r) : r \in new}
  OBVIOUS
<1>6. IsFiniteSet(S)
  <2>1. IsFiniteSet(new)
    BY <1>4, FS_Subset, FiniteAssumption
  <2>2. PICK f : f = [r \in new |-> Join(r)]
    OBVIOUS
  <2>3. f \in Surjection(new, S)
    BY <1>5, <2>2 DEF Surjection
  <2> QED BY <2>1, <2>3, FS_Surjection
<1>7. c2s' = <<>> \o SetToSeq(S)
  BY <1>1, <1>3, <1>5 DEF OnPrivate, Send
<1>8. S \subseteq ClientMsg
  BY <1>4, <1>5, RequestTypes
<1>9. PICK q : q = SetToSeq(S)
  OBVIOUS
<1>10. /\ q \in Seq(S) /\ \A i \in DOMAIN q : q[i] \in S
       /\ \A x \in S : \E i \in DOMAIN q : q[i] = x
  <2>1. q \in Seq(S) /\ \A x \in S : \E i \in DOMAIN q : q[i] = x
    BY <1>6, <1>9, Listing
  <2> QED BY <2>1
<1>11. q \in Seq(ClientMsg)
  BY <1>8, <1>10, SeqMonotonic
<1>12. c2s' = q
  BY <1>7, <1>9, <1>11, EmptyConcat
<1>13. \A i \in DOMAIN c2s' : \E r \in new : c2s'[i] = Join(r)
  BY <1>5, <1>10, <1>12
<1>14. \A r \in new : \E i \in DOMAIN c2s' : c2s'[i] = Join(r)
  BY <1>5, <1>10, <1>12
<1>15. c2s' = SetToSeq({Join(r) : r \in new})
  BY <1>5, <1>9, <1>12
<1> QED BY <1>1, <1>2, <1>3, <1>4, <1>11, <1>12, <1>13, <1>14, <1>15

LEMMA TypePrivate == RoomTypes /\ OnPrivate => RoomTypes'
<1> SUFFICES ASSUME RoomTypes, OnPrivate PROVE RoomTypes'
  OBVIOUS
<1>1. up' /\ s2c' \in Seq(ServerMsg) /\ UNCHANGED <<server, history>>
  BY ReceiptFrame DEF Receipt
<1>2. PICK marks \in Marks : marks = Head(s2c).marks
  BY PrivateJoins
<1>3. c2s' \in Seq(ClientMsg)
  BY PrivateJoins
<1>4. Autojoined(marks) \subseteq Rooms
  BY DEF Autojoined
<1>5. /\ channels \subseteq Rooms /\ buffers \subseteq channels /\ bookmarks \in Marks
      /\ nicklist \in [Rooms -> SUBSET Occupants]
  BY DEF RoomTypes
<1>6. /\ channels' \subseteq Rooms /\ buffers' \subseteq channels'
      /\ nicklist' \in [Rooms -> SUBSET Occupants]
  BY <1>2, <1>4, <1>5 DEF OnPrivate
<1>7. bookmarks' \in Marks
  BY <1>2, <1>5 DEF OnPrivate, Merged, Marks
<1> QED BY <1>1, <1>3, <1>6, <1>7 DEF RoomTypes, server, history

\* What the user does: he enters a room, closes it with its buffer or the buffer
\* alone, changes its bookmark, or nothing that matters here.
Acts(r) == UserActs(r) \/ PingSweep(r)

Enters(r) ==
    /\ up /\ c2s' = <<Join(r)>> /\ closed' = closed \ {r} /\ UNCHANGED bookmarks
    /\ (r \in channels /\ UNCHANGED shown) \/ (r \notin channels /\ Opens(r))
Shuts(r) ==
    /\ up /\ c2s' = <<Leave(r)>> /\ closed' = closed \cup {r} /\ UNCHANGED bookmarks
    /\ r \in buffers /\ Closes(r)
Hides(r) ==
    /\ ~up /\ c2s' = <<>> /\ closed' = closed \cup {r} /\ UNCHANGED bookmarks
    /\ r \in buffers /\ buffers' = buffers \ {r} /\ UNCHANGED <<channels, nicklist, out>>
Marked(r) ==
    /\ UNCHANGED shown /\ closed' = closed \ {r}
    /\ \E b \in Bookmark : bookmarks' = [bookmarks EXCEPT ![r] = b]
    /\ \E m \in Refreshes(r) : c2s' = <<m>>
Idles(r) ==
    /\ UNCHANGED <<shown, bookmarks, closed>>
    /\ c2s' \in {<<>>, <<[kind |-> "ping", room |-> r]>>}

LEMMA ActsFrame ==
    ASSUME RoomTypes, NEW r \in Rooms, Acts(r)
    PROVE  UNCHANGED <<up, s2c, server, missed, emptied>> /\ c2s = <<>>
  BY DEF Acts, UserActs, PingSweep, EnterAnew, EnterAgain, UserClose, BookmarkAdd, Notify, BookmarkDel,
         SelfPing, BookmarkAutojoin, SetBookmark, Command, Handled, history

LEMMA ActsCases ==
    ASSUME RoomTypes, NEW r \in Rooms, Acts(r)
    PROVE  Enters(r) \/ Shuts(r) \/ Hides(r) \/ Marked(r) \/ Idles(r)
<1>1. c2s = <<>> /\ bookmarks \in Marks
  BY ActsFrame DEF RoomTypes
<1>2. \A ms \in Seq(ClientMsg) : Send(ms) => c2s' = ms
  BY <1>1, EmptyConcat DEF Send
<1>3. <<Join(r)>> \in Seq(ClientMsg) /\ Leaving(r) \in Seq(ClientMsg)
  BY RequestTypes DEF Leaving
<1>12. \A m \in ClientMsg : Send(<<m>>) => c2s' = <<m>>
  <2> TAKE m \in ClientMsg
  <2>1. <<m>> \in Seq(ClientMsg)
    OBVIOUS
  <2> QED BY <1>2, <2>1
<1>4. CASE EnterAnew(r)
  BY <1>2, <1>3, <1>4 DEF EnterAnew, Enters, Wanted
<1>5. CASE EnterAgain(r)
  BY <1>2, <1>3, <1>5 DEF EnterAgain, Enters, Wanted
<1>6. CASE UserClose(r)
  BY <1>1, <1>2, <1>3, <1>6 DEF UserClose, Shuts, Hides, Leaving
<1>7. ASSUME NEW b \in Bookmark \ {"none"}, SetBookmark(r, b) PROVE Marked(r)
  <2>1. bookmarks' = [bookmarks EXCEPT ![r] = b] /\ bookmarks' \in Marks /\ bookmarks'[r] # "none"
    BY <1>1, <1>7 DEF SetBookmark, Marks
  <2>2. PICK m : m = [kind |-> "publish", marks |-> bookmarks']
    OBVIOUS
  <2>3. m \in ClientMsg /\ m \in Refreshes(r)
    BY <2>1, <2>2 DEF ClientMsg, Refreshes
  <2>4. c2s' = <<m>>
    BY <1>7, <1>12, <2>2, <2>3 DEF SetBookmark, Publish
  <2> QED BY <1>7, <2>1, <2>3, <2>4 DEF SetBookmark, Marked, Wanted
<1>8. CASE BookmarkAdd(r) \/ Notify(r) \/ \E b \in Bookmark : BookmarkAutojoin(r, b)
  BY <1>1, <1>7, <1>8 DEF BookmarkAdd, Notify, BookmarkAutojoin, Marks
<1>9. CASE BookmarkDel(r)
  <2>1. PICK m : m = [kind |-> "retract", room |-> r]
    OBVIOUS
  <2>2. m \in ClientMsg /\ m \in Refreshes(r)
    BY <2>1 DEF ClientMsg, Refreshes
  <2>3. c2s' = <<m>>
    BY <1>9, <1>12, <2>1, <2>2 DEF BookmarkDel
  <2> QED BY <1>9, <2>2, <2>3 DEF BookmarkDel, Marked, Wanted
<1>10. CASE SelfPing(r)
  <2>1. PICK m : m = [kind |-> "ping", room |-> r]
    OBVIOUS
  <2>2. m \in ClientMsg
    BY <2>1 DEF ClientMsg
  <2>3. c2s' = <<m>>
    BY <1>10, <1>12, <2>1, <2>2 DEF SelfPing
  <2> QED BY <1>10, <2>1, <2>3 DEF SelfPing, Idles, history
<1>11. CASE PingSweep(r)
  BY <1>1, <1>11 DEF PingSweep, Idles, history
<1> QED
  BY <1>4, <1>5, <1>6, <1>8, <1>9, <1>10, <1>11 DEF Acts, UserActs

LEMMA TypeActs == RoomTypes /\ (\E r \in Rooms : Acts(r)) => RoomTypes'
<1> SUFFICES ASSUME RoomTypes, NEW r \in Rooms, Acts(r) PROVE RoomTypes'
  OBVIOUS
<1>1. UNCHANGED <<up, s2c, server, missed, emptied>> /\ c2s = <<>>
  BY ActsFrame
<1>2. /\ channels \subseteq Rooms /\ buffers \subseteq channels /\ bookmarks \in Marks
      /\ nicklist \in [Rooms -> SUBSET Occupants] /\ c2s \in Seq(ClientMsg)
      /\ ~up => \A x \in Rooms : nicklist[x] = {}
  BY DEF RoomTypes
<1> DEFINE Good == /\ channels' \subseteq Rooms /\ buffers' \subseteq channels'
                   /\ bookmarks' \in Marks /\ nicklist' \in [Rooms -> SUBSET Occupants]
                   /\ c2s' \in Seq(ClientMsg)
                   /\ ~up => \A x \in Rooms : nicklist'[x] = {}
<1>3. \A m \in ClientMsg : <<m>> \in Seq(ClientMsg)
  OBVIOUS
<1>4. ASSUME Enters(r) PROVE Good
  <2>1. c2s' \in Seq(ClientMsg)
    BY <1>3, <1>4, RequestTypes DEF Enters
  <2> QED BY <1>2, <1>4, <2>1 DEF Enters, Opens, shown
<1>5. ASSUME Shuts(r) PROVE Good
  <2>1. c2s' \in Seq(ClientMsg)
    BY <1>3, <1>5, RequestTypes DEF Shuts
  <2> QED BY <1>2, <1>5, <2>1 DEF Shuts, Closes
<1>6. ASSUME Hides(r) PROVE Good
  BY <1>2, <1>6, EmptyConcat DEF Hides
<1>7. ASSUME Marked(r) PROVE Good
  <2>1. c2s' \in Seq(ClientMsg)
    BY <1>3, <1>7 DEF Marked, Refreshes
  <2> QED BY <1>2, <1>7, <2>1 DEF Marked, shown, Marks
<1>8. ASSUME Idles(r) PROVE Good
  <2>1. [kind |-> "ping", room |-> r] \in ClientMsg
    BY DEF ClientMsg
  <2>2. c2s' \in Seq(ClientMsg)
    BY <1>3, <1>8, <2>1, EmptyConcat DEF Idles
  <2> QED BY <1>2, <1>8, <2>2 DEF Idles, shown
<1>9. Good
  BY <1>4, <1>5, <1>6, <1>7, <1>8, ActsCases
<1> QED BY <1>1, <1>2, <1>9 DEF RoomTypes, server

\* What the server says of its own accord, or as it handles a request.

LEMMA MessageTypes ==
    ASSUME NEW r \in Rooms
    PROVE  /\ \A n \in Occupants : /\ Here(r, n) \in ServerMsg
                                   /\ \A k \in BOOLEAN : Away(r, n, k) \in ServerMsg
           /\ \A b \in Bookmark \ {"none"} : Item(r, b) \in ServerMsg
           /\ [kind |-> "refused", room |-> r] \in ServerMsg
           /\ [kind |-> "retract", room |-> r] \in ServerMsg
           /\ \A d \in BOOLEAN : [kind |-> "message", room |-> r, delayed |-> d] \in ServerMsg
           /\ \A d \in BOOLEAN : [kind |-> "pong", room |-> r, inside |-> d] \in ServerMsg
  BY DEF Here, Away, Item, ServerMsg

LEMMA OthersFrame ==
    ASSUME RoomTypes, NEW r \in Rooms, OthersAct(r)
    PROVE  /\ UNCHANGED <<up, shown, bookmarks, c2s, emptied>> /\ c2s = <<>>
           /\ \E p \in Seq(ServerMsg) : s2c' = s2c \o p
<1>1. UNCHANGED <<up, shown, bookmarks, c2s, emptied>> /\ c2s = <<>>
  BY DEF OthersAct, Arrives, Departs, KickedOut, Speaks, OtherBookmarks, Event, Handled, history
<1> SUFFICES \E p \in Seq(ServerMsg) : s2c' = s2c \o p
  BY <1>1
<1>2. s2c \in Seq(ServerMsg) /\ stored \in Marks /\ <<>> \in Seq(ServerMsg) /\ s2c \o <<>> = s2c
  BY DEF RoomTypes
<1>3. \A m \in ServerMsg : <<m>> \in Seq(ServerMsg)
  OBVIOUS
<1>4. ASSUME NEW m \in ServerMsg, Tell(<<m>>) \/ TellRoom(r, <<m>>)
      PROVE  \E p \in Seq(ServerMsg) : s2c' = s2c \o p
  BY <1>2, <1>3, <1>4 DEF Tell, TellRoom
<1>5. CASE \E n \in Nicks : Arrives(r, n) \/ Departs(r, n)
  BY <1>4, <1>5, MessageTypes DEF Arrives, Departs, Occupants
<1>6. CASE KickedOut(r)
  BY <1>4, <1>6, MessageTypes DEF KickedOut, Occupants
<1>7. CASE Speaks(r)
  BY <1>4, <1>7, MessageTypes DEF Speaks
<1>8. CASE \E b \in Bookmark : OtherBookmarks(r, b)
  BY <1>4, <1>8, MessageTypes DEF OtherBookmarks
<1> QED BY <1>5, <1>6, <1>7, <1>8 DEF OthersAct

LEMMA TypeOthers == RoomTypes /\ (\E r \in Rooms : OthersAct(r)) => RoomTypes'
<1> SUFFICES ASSUME RoomTypes, NEW r \in Rooms, OthersAct(r) PROVE RoomTypes'
  OBVIOUS
<1>1. /\ UNCHANGED <<up, shown, bookmarks, c2s, emptied>> /\ c2s = <<>>
      /\ \E p \in Seq(ServerMsg) : s2c' = s2c \o p
  BY OthersFrame
<1>2. /\ member \subseteq Rooms /\ stored \in Marks
      /\ occupants \in [Rooms -> SUBSET Nicks] /\ missed \in [Rooms -> SUBSET Nicks]
  BY DEF RoomTypes
<1>3. s2c' \in Seq(ServerMsg)
  BY <1>1, ConcatProperties DEF RoomTypes
<1> DEFINE Good == /\ member' \subseteq Rooms /\ stored' \in Marks
                   /\ occupants' \in [Rooms -> SUBSET Nicks] /\ missed' \in [Rooms -> SUBSET Nicks]
<1>4. ASSUME NEW n \in Nicks, Arrives(r, n) \/ Departs(r, n) PROVE Good
  BY <1>2, <1>4 DEF Arrives, Departs, history
<1>5. ASSUME KickedOut(r) \/ Speaks(r) PROVE Good
  BY <1>2, <1>5 DEF KickedOut, Speaks, server, history
<1>6. ASSUME NEW b \in Bookmark, OtherBookmarks(r, b) PROVE Good
  BY <1>2, <1>6 DEF OtherBookmarks, Marks
<1>7. Good
  BY <1>4, <1>5, <1>6 DEF OthersAct
<1> QED BY <1>1, <1>3, <1>7 DEF RoomTypes, shown

\* What the server pushes after a publish: all of it, and nothing but the bookmarks.
LEMMA PushedAll ==
    ASSUME NEW marks \in Marks
    PROVE  /\ Pushed(marks) \in Seq(ServerMsg)
           /\ \A i \in DOMAIN Pushed(marks) :
                 \E r \in Rooms : marks[r] # "none" /\ Pushed(marks)[i] = Item(r, marks[r])
           /\ \A r \in Rooms : marks[r] # "none" =>
                 \E i \in DOMAIN Pushed(marks) : Pushed(marks)[i] = Item(r, marks[r])
<1>1. PICK W : W = {x \in Rooms : marks[x] # "none"}
  OBVIOUS
<1>2. PICK S : S = {Item(r, marks[r]) : r \in W}
  OBVIOUS
<1>3. IsFiniteSet(S)
  <2>1. IsFiniteSet(W)
    BY <1>1, FS_Subset, FiniteAssumption
  <2>2. PICK f : f = [r \in W |-> Item(r, marks[r])]
    OBVIOUS
  <2>3. f \in Surjection(W, S)
    BY <1>2, <2>2 DEF Surjection
  <2> QED BY <2>1, <2>3, FS_Surjection
<1>4. PICK q : q = SetToSeq(S)
  OBVIOUS
<1>5. q \in Seq(S) /\ \A x \in S : \E i \in DOMAIN q : q[i] = x
  BY <1>3, <1>4, Listing
<1>6. \A i \in DOMAIN q : q[i] \in S
  BY <1>5
<1>7. S \subseteq ServerMsg
  <2>1. \A r \in W : r \in Rooms /\ marks[r] \in Bookmark \ {"none"}
    BY <1>1 DEF Marks
  <2> QED BY <1>2, <2>1, MessageTypes
<1>8. q \in Seq(ServerMsg)
  BY <1>5, <1>7, SeqMonotonic
<1>9. Pushed(marks) = q
  BY <1>1, <1>2, <1>4 DEF Pushed
<1>10. \A i \in DOMAIN q : \E r \in W : q[i] = Item(r, marks[r])
  BY <1>2, <1>6
<1>11. \A r \in W : \E i \in DOMAIN q : q[i] = Item(r, marks[r])
  BY <1>2, <1>5
<1> QED BY <1>1, <1>8, <1>9, <1>10, <1>11

\* What it says to who enters: all who are there, the user last, and no one's leaving.
Greets(p, r, S) ==
    /\ \A n \in S \cup {Me} : Has(p, Heres(r, n))
    /\ \A i \in DOMAIN p : p[i].kind = "message" \/ \E n \in S \cup {Me} : p[i] = Here(r, n)

LEMMA Greeting ==
    ASSUME NEW r \in Rooms, NEW S, S \subseteq Nicks, NEW past \in Seq(ServerMsg),
           past \in {<<>>, <<[kind |-> "message", room |-> r, delayed |-> TRUE]>>},
           NEW p, p = [i \in 1..Cardinality(S) |-> Here(r, SetToSeq(S)[i])] \o <<Here(r, Me)>> \o past
    PROVE  /\ p \in Seq(ServerMsg)
           /\ Greets(p, r, S)
<1>1. IsFiniteSet(S)
  BY FS_Subset, FiniteAssumption
<1>2. PICK k : k = Cardinality(S)
  OBVIOUS
<1>3. PICK q : q = SetToSeq(S)
  OBVIOUS
<1>4. k \in Nat /\ q \in [1..k -> S] /\ \A x \in S : \E i \in 1..k : q[i] = x
  <2>1. SetToSeq(S) \in [1..Cardinality(S) -> S]
    BY <1>1, Listing
  <2>2. \A x \in S : \E i \in DOMAIN SetToSeq(S) : SetToSeq(S)[i] = x
    BY <1>1, Listing
  <2> QED BY <1>1, <1>2, <1>3, <2>1, <2>2, FS_CardinalityType
<1>5. PICK a : a = [i \in 1..k |-> Here(r, q[i])]
  OBVIOUS
<1>6. \A i \in 1..k : q[i] \in S
  BY <1>4
<1>7. \A n \in S \cup {Me} : Here(r, n) \in ServerMsg
  BY MessageTypes DEF Occupants
<1>8. a \in [1..k -> ServerMsg]
  BY <1>5, <1>6, <1>7
<1>9. a \in Seq(ServerMsg) /\ DOMAIN a = 1..k
  BY <1>4, <1>8, SeqDef
<1>10. PICK me : me = <<Here(r, Me)>>
  OBVIOUS
<1>11. me \in Seq(ServerMsg) /\ DOMAIN me = {1} /\ me[1] = Here(r, Me)
  BY <1>7, <1>10
<1>12. PICK b : b = a \o me
  OBVIOUS
<1>13. b \in Seq(ServerMsg) /\ p = b \o past
  BY <1>2, <1>3, <1>5, <1>9, <1>10, <1>11, <1>12, ConcatProperties
<1>14. p \in Seq(ServerMsg)
  BY <1>13, ConcatProperties
<1>15. \A n \in S \cup {Me} : Has(p, Heres(r, n))
  <2> TAKE n \in S \cup {Me}
  <2>1. Has(a, Heres(r, n)) \/ Has(me, Heres(r, n))
    <3>1. CASE n \in S
      <4>1. PICK i \in 1..k : q[i] = n
        BY <1>4, <3>1
      <4> QED BY <1>5, <1>9, <4>1 DEF Has, Heres
    <3>2. CASE n = Me
      BY <1>11, <3>2 DEF Has, Heres
    <3> QED BY <3>1, <3>2
  <2>2. Has(b, Heres(r, n))
    BY <1>9, <1>11, <1>12, <2>1, Concatenated
  <2> QED BY <1>13, <2>2, Concatenated
<1>16. ASSUME NEW i \in DOMAIN p
       PROVE  p[i].kind = "message" \/ \E n \in S \cup {Me} : p[i] = Here(r, n)
  <2>0. PICK T : T = {m \in ServerMsg : ~ (m.kind = "message" \/ \E n \in S \cup {Me} : m = Here(r, n))}
    OBVIOUS
  <2>1. Free(a, T)
    BY <1>5, <1>6, <1>9, <2>0 DEF Free
  <2>2. Free(me, T)
    BY <1>11, <2>0 DEF Free
  <2>3. Free(past, T)
    BY <2>0 DEF Free
  <2>4. Free(b, T)
    BY <1>9, <1>11, <1>12, <2>1, <2>2, Concatenated
  <2>5. Free(p, T)
    BY <1>13, <2>3, <2>4, Concatenated
  <2>6. p[i] \in ServerMsg
    BY ONLY <1>14, <1>16
  <2> QED BY <2>0, <2>5, <2>6 DEF Free
<1> QED BY <1>14, <1>15, <1>16 DEF Greets

LEMMA ServerFrame ==
    ASSUME RoomTypes, ServerHandle
    PROVE  /\ up /\ up' /\ UNCHANGED <<shown, bookmarks, occupants, missed, closed>>
           /\ c2s # <<>> /\ c2s' = Tail(c2s) /\ c2s' \in Seq(ClientMsg)
           /\ Head(c2s) \in ClientMsg /\ emptied' \subseteq emptied
<1>1. /\ up /\ up' /\ UNCHANGED <<shown, bookmarks, occupants, missed, closed>>
      /\ c2s # <<>> /\ c2s' = Tail(c2s) /\ emptied' \subseteq emptied
  BY DEF ServerHandle, SrvJoin, SrvRefuse, SrvLeave, SrvPublish, SrvRetract, SrvPrivate, SrvPing,
         Handle, server, history
<1> QED BY <1>1, Consumed DEF RoomTypes

\* Each request and what it adds to the stream.
Joined(r) ==
    /\ Head(c2s) = Join(r) /\ member' = member \cup {r} /\ stored' = stored
    /\ emptied' = emptied \ {r}
    /\ \E past \in {<<>>, <<[kind |-> "message", room |-> r, delayed |-> TRUE]>>} :
          s2c' = s2c \o ([i \in 1..Cardinality(occupants[r]) |->
                             Here(r, SetToSeq(occupants[r])[i])] \o <<Here(r, Me)>> \o past)
Denied(r) ==
    /\ Head(c2s) = Join(r) /\ r \notin member /\ UNCHANGED <<member, stored, emptied>>
    /\ s2c' = s2c \o <<[kind |-> "refused", room |-> r]>>
Left(r) ==
    /\ Head(c2s) = Leave(r) /\ member' = member \ {r} /\ UNCHANGED <<stored, emptied>>
    /\ s2c' = IF r \in member THEN s2c \o <<Away(r, Me, FALSE)>> ELSE s2c
Stored(marks) ==
    /\ Head(c2s) = [kind |-> "publish", marks |-> marks] /\ UNCHANGED <<member, emptied>>
    /\ stored' = [r \in Rooms |-> IF marks[r] = "none" THEN stored[r] ELSE marks[r]]
    /\ s2c' = s2c \o Pushed(marks)
Retracted(r) ==
    /\ Head(c2s) = [kind |-> "retract", room |-> r] /\ UNCHANGED <<member, emptied>>
    /\ stored' = [stored EXCEPT ![r] = "none"]
    /\ s2c' = s2c \o <<[kind |-> "retract", room |-> r]>>
Reported ==
    /\ Head(c2s).kind = "private" /\ UNCHANGED <<member, stored, emptied>>
    /\ s2c' = s2c \o <<[kind |-> "private", marks |-> stored]>>
Answered(r) ==
    /\ Head(c2s).kind = "ping" /\ UNCHANGED <<member, stored, emptied>>
    /\ s2c' = s2c \o <<[kind |-> "pong", room |-> r, inside |-> r \in member]>>

LEMMA ServerCases ==
    ASSUME RoomTypes, ServerHandle
    PROVE  \/ \E r \in Rooms : Joined(r) \/ Denied(r) \/ Left(r) \/ Retracted(r) \/ Answered(r)
           \/ \E marks \in Marks : Stored(marks)
           \/ Reported
<1>1. PICK m \in ClientMsg : m = Head(c2s)
  BY ServerFrame
<1>2. \A r \in Rooms : m.kind = "join" /\ m.room = r => m = Join(r)
  BY <1>1 DEF ClientMsg, Join
<1>3. \A r \in Rooms : m.kind = "leave" /\ m.room = r => m = Leave(r)
  BY <1>1 DEF ClientMsg, Leave
<1>4. m.kind \in {"join", "leave", "retract", "ping"} => m.room \in Rooms
  BY <1>1 DEF ClientMsg
<1>5. CASE SrvJoin
  BY <1>1, <1>2, <1>4, <1>5 DEF SrvJoin, Handle, Joined, Tell
<1>6. CASE SrvRefuse
  BY <1>1, <1>2, <1>4, <1>6 DEF SrvRefuse, Handle, Denied, Tell, server
<1>7. CASE SrvLeave
  BY <1>1, <1>3, <1>4, <1>7 DEF SrvLeave, Handle, Left, TellRoom, history
<1>8. CASE SrvPublish
  <2>1. m.kind = "publish"
    BY <1>1, <1>8 DEF SrvPublish, Handle
  <2>2. m.marks \in Marks /\ m = [kind |-> "publish", marks |-> m.marks]
    BY <1>1, <2>1 DEF ClientMsg
  <2> QED BY <1>1, <1>8, <2>2 DEF SrvPublish, Stored, Tell, history
<1>9. CASE SrvRetract
  <2>1. m.kind = "retract"
    BY <1>1, <1>9 DEF SrvRetract, Handle
  <2>2. m.room \in Rooms /\ m = [kind |-> "retract", room |-> m.room]
    BY <1>1, <2>1 DEF ClientMsg
  <2> QED BY <1>1, <1>9, <2>2 DEF SrvRetract, Retracted, Tell, history
<1>10. CASE SrvPrivate
  BY <1>1, <1>10 DEF SrvPrivate, Handle, Reported, Tell, server, history
<1>11. CASE SrvPing
  BY <1>1, <1>4, <1>11 DEF SrvPing, Handle, Answered, Tell, server, history
<1> QED BY <1>5, <1>6, <1>7, <1>8, <1>9, <1>10, <1>11 DEF ServerHandle

LEMMA ServerSays ==
    ASSUME RoomTypes, ServerHandle
    PROVE  \E p \in Seq(ServerMsg) : s2c' = s2c \o p
<1>1. /\ s2c \in Seq(ServerMsg) /\ stored \in Marks /\ <<>> \in Seq(ServerMsg) /\ s2c \o <<>> = s2c
      /\ occupants \in [Rooms -> SUBSET Nicks]
  BY DEF RoomTypes
<1>2. \A m \in ServerMsg : <<m>> \in Seq(ServerMsg)
  OBVIOUS
<1>3. ASSUME NEW r \in Rooms, Joined(r) PROVE \E p \in Seq(ServerMsg) : s2c' = s2c \o p
  <2>1. PICK past \in {<<>>, <<[kind |-> "message", room |-> r, delayed |-> TRUE]>>} :
            s2c' = s2c \o ([i \in 1..Cardinality(occupants[r]) |->
                               Here(r, SetToSeq(occupants[r])[i])] \o <<Here(r, Me)>> \o past)
    BY <1>3 DEF Joined
  <2>2. past \in Seq(ServerMsg)
    BY <1>1, <1>2, <2>1, MessageTypes
  <2>3. PICK S : S = occupants[r] /\ S \subseteq Nicks
    BY <1>1
  <2>4. PICK p : p = [i \in 1..Cardinality(S) |-> Here(r, SetToSeq(S)[i])] \o <<Here(r, Me)>> \o past
    OBVIOUS
  <2>5. p \in Seq(ServerMsg)
    BY <2>1, <2>2, <2>3, <2>4, Greeting
  <2> QED BY <2>1, <2>3, <2>4, <2>5
<1>4. ASSUME NEW r \in Rooms, Denied(r) \/ Left(r) \/ Retracted(r) \/ Answered(r)
      PROVE  \E p \in Seq(ServerMsg) : s2c' = s2c \o p
  <2>1. \A m \in ServerMsg : s2c' = s2c \o <<m>> => \E p \in Seq(ServerMsg) : s2c' = s2c \o p
    BY <1>2
  <2>2. CASE Denied(r) \/ Retracted(r)
    BY <2>1, <2>2, MessageTypes DEF Denied, Retracted
  <2>3. CASE Left(r)
    <3>1. Away(r, Me, FALSE) \in ServerMsg
      BY MessageTypes DEF Occupants
    <3> QED BY <1>1, <2>1, <2>3, <3>1 DEF Left
  <2>4. CASE Answered(r)
    <3>1. (r \in member) \in BOOLEAN
      OBVIOUS
    <3> QED BY <2>1, <2>4, <3>1, MessageTypes DEF Answered
  <2> QED BY <1>4, <2>2, <2>3, <2>4
<1>5. ASSUME NEW marks \in Marks, Stored(marks) PROVE \E p \in Seq(ServerMsg) : s2c' = s2c \o p
  BY <1>5, PushedAll DEF Stored
<1>6. ASSUME Reported PROVE \E p \in Seq(ServerMsg) : s2c' = s2c \o p
  <2>1. [kind |-> "private", marks |-> stored] \in ServerMsg
    BY <1>1 DEF ServerMsg
  <2> QED BY <1>2, <1>6, <2>1 DEF Reported
<1>7. CASE \E r \in Rooms : Joined(r) \/ Denied(r) \/ Left(r) \/ Retracted(r) \/ Answered(r)
  <2>1. PICK r \in Rooms : Joined(r) \/ Denied(r) \/ Left(r) \/ Retracted(r) \/ Answered(r)
    BY <1>7
  <2> QED BY <1>3, <1>4, <2>1
<1>8. CASE \E marks \in Marks : Stored(marks)
  BY <1>5, <1>8
<1> QED BY <1>6, <1>7, <1>8, ServerCases

LEMMA TypeServer == RoomTypes /\ ServerHandle => RoomTypes'
<1> SUFFICES ASSUME RoomTypes, ServerHandle PROVE RoomTypes'
  OBVIOUS
<1>1. /\ up /\ up' /\ UNCHANGED <<shown, bookmarks, occupants, missed>> /\ c2s' \in Seq(ClientMsg)
  BY ServerFrame
<1>2. s2c' \in Seq(ServerMsg)
  <2>1. PICK p \in Seq(ServerMsg) : s2c' = s2c \o p
    BY ServerSays
  <2> QED BY <2>1, ConcatProperties DEF RoomTypes
<1>3. member \subseteq Rooms /\ stored \in Marks
  BY DEF RoomTypes
<1>4. member' \subseteq Rooms /\ stored' \in Marks
  BY <1>3, ServerCases DEF Joined, Denied, Left, Stored, Retracted, Answered, Reported, Marks
<1> QED BY <1>1, <1>2, <1>4 DEF RoomTypes, shown

\* The link.
Links == ConnectResumed \/ ConnectNew \/ Drop \/ Dies

LEMMA TypeLinks == RoomTypes /\ Links => RoomTypes'
<1> SUFFICES ASSUME RoomTypes, Links PROVE RoomTypes'
  OBVIOUS
<1>1. Burst \in Seq(ClientMsg) /\ <<>> \in Seq(ClientMsg) /\ <<>> \in Seq(ServerMsg)
  BY RequestTypes
<1>2. CASE ConnectResumed
  <2>1. c2s' \in Seq(ClientMsg)
    BY <1>1, <1>2, ConcatProperties DEF ConnectResumed, RoomTypes
  <2> QED BY <1>2, <2>1 DEF ConnectResumed, RoomTypes, shown, server
<1>3. CASE ConnectNew
  <2>1. [r \in Rooms |-> {}] \in [Rooms -> SUBSET Nicks]
    OBVIOUS
  <2> QED BY <1>1, <1>3, <2>1 DEF ConnectNew, RoomTypes
<1>4. CASE Drop
  <2>1. /\ [r \in Rooms |-> {}] \in [Rooms -> SUBSET Occupants]
        /\ \A r \in Rooms : [x \in Rooms |-> {}][r] = {}
    OBVIOUS
  <2> QED BY <1>4, <2>1 DEF Drop, RoomTypes, server, history
<1>5. CASE Dies
  <2>1. [r \in Rooms |-> {}] \in [Rooms -> SUBSET Occupants]
        /\ [r \in Rooms |-> {}] \in [Rooms -> SUBSET Nicks]
        /\ [r \in Rooms |-> "none"] \in Marks
        /\ \A r \in Rooms : [x \in Rooms |-> {}][r] = {}
    BY DEF Marks
  <2> QED BY <1>1, <1>5, <2>1 DEF Dies, RoomTypes
<1> QED BY <1>2, <1>3, <1>4, <1>5 DEF Links

LEMMA NextCases ==
    Next => Links \/ (\E r \in Rooms : Acts(r) \/ OthersAct(r)) \/ Receipt \/ ServerHandle
  BY DEF Next, Links, Acts, Receipt, ClientReceive

LEMMA TypeNext == RoomTypes /\ [Next]_vars => RoomTypes'
<1>1. RoomTypes /\ UNCHANGED vars => RoomTypes'
  BY DEF RoomTypes, vars, shown, server, history
<1> QED
  BY <1>1, NextCases, TypeLinks, TypeActs, TypeOthers, TypeReceipt, TypePrivate, TypeServer

LEMMA TypeInit == Init => RoomTypes
<1> SUFFICES ASSUME Init PROVE RoomTypes
  OBVIOUS
<1>1. /\ [r \in Rooms |-> {}] \in [Rooms -> SUBSET Occupants]
      /\ [r \in Rooms |-> {}] \in [Rooms -> SUBSET Nicks]
      /\ [r \in Rooms |-> "none"] \in Marks
      /\ \A r \in Rooms : [x \in Rooms |-> {}][r] = {}
      /\ <<>> \in Seq(ClientMsg) /\ <<>> \in Seq(ServerMsg)
  BY DEF Marks
<1> QED BY <1>1 DEF Init, RoomTypes, Marks

-------------------------------------------------------------------------------
\* A closed room is left.

\* What a sequence of one request says of a room.
LEMMA OneRequest ==
    ASSUME NEW r, NEW m
    PROVE  /\ m = Leave(r) => Ends(<<m>>, Exits(r), Entries(r)) /\ Has(<<m>>, Exits(r))
           /\ m # Join(r) => Free(<<m>>, Entries(r))
           /\ m = Join(r) => Has(<<m>>, Entries(r))
           /\ Free(<<>>, Entries(r)) /\ ~ Ends(<<>>, Exits(r), Entries(r)) /\ ~ Has(<<>>, Exits(r))
           /\ ~ Has(<<>>, Entries(r))
  BY Single DEF Exits, Entries

LEMMA LeftWhenHandled ==
    ASSUME RoomTypes, LeftInv, c2s = <<>>
    PROVE  member \subseteq channels
<1>1. \A r \in Rooms \ channels : r \notin member
  BY OneRequest DEF LeftInv, IsLeft
<1> QED BY <1>1 DEF RoomTypes

\* Who opens a room, and who closes one, says so to the server.
LEMMA LeftReceipt ==
    ASSUME RoomTypes, LeftInv, Receipt
    PROVE  LeftInv'
<1>1. c2s = <<>> /\ member' = member
  BY ReceiptFrame DEF server
<1>2. \A r \in Rooms \ channels : r \notin member
  BY <1>1, OneRequest DEF LeftInv, IsLeft
<1> SUFFICES ASSUME NEW r \in Rooms \ channels' PROVE IsLeft(r)'
  BY DEF LeftInv
<1>3. PICK m \in ServerMsg : m = Head(s2c)
  BY ReceiptFrame
<1>4. \A ms \in Seq(ClientMsg) : Send(ms) => c2s' = ms
  BY <1>1, EmptyConcat DEF Send
<1> DEFINE Good == \/ r \notin channels /\ Free(c2s', Entries(r))
                   \/ Ends(c2s', Exits(r), Entries(r))
<1>5. ASSUME OnHere \/ OnAway \/ OnRefused \/ OnMessage \/ OnDangling PROVE Good
  <2>1. channels \subseteq channels' /\ c2s' = <<>>
    BY <1>1, <1>5 DEF OnHere, OnAway, OnRefused, OnMessage, OnDangling
  <2> QED BY <2>1, OneRequest
<1>6. ASSUME OnItemOn PROVE Good
  <2>1. m.room \in Rooms
    BY <1>3, <1>6 DEF OnItemOn, Receive, ServerMsg
  <2>2. <<Join(m.room)>> \in Seq(ClientMsg)
    BY <2>1, RequestTypes
  <2>3. \/ channels' = channels /\ c2s' = <<>>
        \/ channels' = channels \cup {m.room} /\ c2s' = <<Join(m.room)>>
    BY <1>1, <1>3, <1>4, <1>6, <2>2 DEF OnItemOn, Opens, shown
  <2>4. r # m.room => Join(m.room) # Join(r)
    BY DEF Join
  <2> QED BY <2>3, <2>4, OneRequest
<1>7. ASSUME OnItemOff \/ OnRetract PROVE Good
  <2>1. m.room \in Rooms
    BY <1>3, <1>7 DEF OnItemOff, OnRetract, Receive, ServerMsg
  <2>2. Leaving(m.room) \in Seq(ClientMsg)
    BY <2>1, RequestTypes DEF Leaving
  <2>3. \/ channels' = channels /\ c2s' = <<>>
        \/ channels' = channels \ {m.room} /\ c2s' = <<Leave(m.room)>>
    BY <1>1, <1>3, <1>4, <1>7, <2>2 DEF OnItemOff, OnRetract, Closes, shown, Leaving
  <2>4. Leave(m.room) # Join(r)
    BY DEF Join, Leave
  <2> QED BY <2>3, <2>4, OneRequest
<1>8. ASSUME OnPrivate PROVE Good
  <2>1. PICK new : /\ new = Autojoined(Head(s2c).marks) \ channels
                   /\ \A i \in DOMAIN c2s' : \E x \in new : c2s'[i] = Join(x)
    BY <1>8, PrivateJoins
  <2>2. channels' = channels \cup new
    BY <1>8, <2>1 DEF OnPrivate
  <2>3. \A x \in new : Join(x) # Join(r)
    BY <2>2 DEF Join
  <2> QED BY <2>1, <2>2, <2>3 DEF Free, Entries
<1>9. ASSUME OnPong PROVE Good
  <2>1. m.room \in Rooms
    BY <1>3, <1>9 DEF OnPong, Receive, ServerMsg
  <2>2. <<Join(m.room)>> \in Seq(ClientMsg) /\ <<>> \in Seq(ClientMsg)
    BY <2>1, RequestTypes
  <2>3. channels' = channels /\ (c2s' = <<>> \/ (m.room \in channels /\ c2s' = <<Join(m.room)>>))
    BY <1>3, <1>4, <1>9, <2>2 DEF OnPong, shown
  <2>4. r # m.room => Join(m.room) # Join(r)
    BY DEF Join
  <2> QED BY <2>3, <2>4, OneRequest
<1>10. Good
  BY <1>5, <1>6, <1>7, <1>8, <1>9 DEF Receipt
<1> QED BY <1>1, <1>2, <1>10 DEF IsLeft

LEMMA LeftActs ==
    ASSUME RoomTypes, LeftInv, NEW s \in Rooms, Acts(s)
    PROVE  LeftInv'
<1>1. c2s = <<>> /\ member' = member
  BY ActsFrame DEF server
<1>2. \A r \in Rooms \ channels : r \notin member
  BY <1>1, OneRequest DEF LeftInv, IsLeft
<1> SUFFICES ASSUME NEW r \in Rooms \ channels' PROVE IsLeft(r)'
  BY DEF LeftInv
<1> DEFINE Good == \/ r \notin channels /\ Free(c2s', Entries(r))
                   \/ Ends(c2s', Exits(r), Entries(r))
<1>3. ASSUME Enters(s) PROVE Good
  <2>1. r # s => Join(s) # Join(r)
    BY DEF Join
  <2> QED BY <1>3, <2>1, OneRequest DEF Enters, Opens, shown
<1>4. ASSUME Shuts(s) PROVE Good
  <2>1. Leave(s) # Join(r)
    BY DEF Join, Leave
  <2> QED BY <1>4, <2>1, OneRequest DEF Shuts, Closes
<1>5. ASSUME Hides(s) PROVE Good
  BY <1>5, OneRequest DEF Hides
<1>6. ASSUME Marked(s) PROVE Good
  <2>1. \A m \in Refreshes(s) : m # Join(r)
    BY DEF Refreshes, Join
  <2> QED BY <1>6, <2>1, OneRequest DEF Marked, shown
<1>7. ASSUME Idles(s) PROVE Good
  <2>1. [kind |-> "ping", room |-> s] # Join(r)
    BY DEF Join
  <2> QED BY <1>7, <2>1, OneRequest DEF Idles, shown
<1>8. Good
  BY <1>3, <1>4, <1>5, <1>6, <1>7, ActsCases
<1> QED BY <1>1, <1>2, <1>8 DEF IsLeft

LEMMA LeftServer ==
    ASSUME RoomTypes, LeftInv, ServerHandle
    PROVE  LeftInv'
<1>1. c2s \in Seq(ClientMsg) /\ c2s # <<>> /\ c2s' = Tail(c2s) /\ channels' = channels
  BY ServerFrame DEF RoomTypes, shown
<1> SUFFICES ASSUME NEW r \in Rooms \ channels PROVE IsLeft(r)'
  BY <1>1 DEF LeftInv
<1>2. PICK m : m = Head(c2s)
  OBVIOUS
<1>3. /\ m = Leave(r) => r \notin member'
      /\ m # Join(r) /\ r \notin member => r \notin member'
  <2>1. \A x : Leave(r) # Join(x) /\ (Leave(r) = Leave(x) => r = x)
               /\ Leave(r) # [kind |-> "retract", room |-> x]
               /\ Leave(r) # [kind |-> "publish", marks |-> x]
               /\ Leave(r).kind \notin {"private", "ping"}
    BY DEF Leave, Join
  <2>2. \A x : Join(r) = Join(x) => r = x
    BY DEF Join
  <2> QED
    BY <1>2, <2>1, <2>2, ServerCases DEF Joined, Denied, Left, Retracted, Answered, Stored, Reported
<1>4. /\ Free(c2s, Entries(r)) => m # Join(r) /\ Free(c2s', Entries(r))
      /\ Ends(c2s, Exits(r), Entries(r)) =>
            Ends(c2s', Exits(r), Entries(r)) \/ (m = Leave(r) /\ Free(c2s', Entries(r)))
  <2>1. /\ Free(c2s, Entries(r)) => Head(c2s) \notin Entries(r) /\ Free(Tail(c2s), Entries(r))
        /\ Ends(c2s, Exits(r), Entries(r)) =>
              \/ Ends(Tail(c2s), Exits(r), Entries(r))
              \/ Head(c2s) \in Exits(r) /\ Free(Tail(c2s), Entries(r))
    BY <1>1, Consumed
  <2> QED BY <1>1, <1>2, <2>1 DEF Entries, Exits
<1>5. IsLeft(r)
  BY DEF LeftInv
<1> QED BY <1>3, <1>4, <1>5 DEF IsLeft

LEMMA LeftOthers ==
    ASSUME RoomTypes, LeftInv, NEW s \in Rooms, OthersAct(s)
    PROVE  LeftInv'
<1>1. c2s' = c2s /\ channels' = channels
  BY OthersFrame DEF shown
<1>2. member' \subseteq member
  BY DEF OthersAct, Arrives, Departs, KickedOut, Speaks, OtherBookmarks, server
<1> QED BY <1>1, <1>2 DEF LeftInv, IsLeft

LEMMA LeftLinks ==
    ASSUME RoomTypes, LeftInv, Links
    PROVE  LeftInv'
<1> SUFFICES ASSUME NEW r \in Rooms \ channels' PROVE IsLeft(r)'
  BY DEF LeftInv
<1>1. Free(Burst, Entries(r))
  BY OneRequest DEF Burst, Join
<1>2. CASE ConnectResumed
  <2>1. Burst \in Seq(ClientMsg) /\ c2s \in Seq(ClientMsg)
    BY RequestTypes DEF RoomTypes
  <2>2. /\ Ends(c2s, Exits(r), Entries(r)) => Ends(c2s \o Burst, Exits(r), Entries(r))
        /\ Free(c2s, Entries(r)) => Free(c2s \o Burst, Entries(r))
    BY <1>1, <2>1, Concatenated
  <2>3. c2s' = c2s \o Burst /\ channels' = channels /\ member' = member
    BY <1>2 DEF ConnectResumed, shown, server
  <2> QED BY <2>2, <2>3 DEF LeftInv, IsLeft
<1>3. CASE ConnectNew
  BY <1>1, <1>3 DEF ConnectNew, IsLeft
<1>4. CASE Drop
  BY <1>4 DEF Drop, LeftInv, IsLeft, server
<1>5. CASE Dies
  BY <1>5, OneRequest DEF Dies, IsLeft
<1> QED BY <1>2, <1>3, <1>4, <1>5 DEF Links

LEMMA LeftNext == RoomTypes /\ LeftInv /\ [Next]_vars => LeftInv'
<1>1. LeftInv /\ UNCHANGED vars => LeftInv'
  BY DEF LeftInv, IsLeft, vars, shown, server
<1> QED
  BY <1>1, NextCases, LeftReceipt, LeftActs, LeftServer, LeftOthers, LeftLinks

-------------------------------------------------------------------------------
\* Who is put out of a room is told.

LEMMA OneMessage ==
    ASSUME NEW r, NEW n, NEW m
    PROVE  /\ m \in Expels(r) => Ends(<<m>>, Expels(r), Heres(r, Me))
           /\ m = Here(r, n) => Ends(<<m>>, Heres(r, n), Aways(r, n))
           /\ m \in Aways(r, n) => Ends(<<m>>, Aways(r, n), Heres(r, n))
           /\ m # Here(r, n) => Free(<<m>>, Heres(r, n))
           /\ m \notin Aways(r, n) => Free(<<m>>, Aways(r, n))
           /\ Free(<<>>, Heres(r, n)) /\ Free(<<>>, Aways(r, n)) /\ ~ Ends(<<>>, Expels(r), Heres(r, Me))
  BY Single DEF Heres

LEMMA ToldReceipt ==
    ASSUME RoomTypes, ToldInv, Receipt
    PROVE  ToldInv'
<1>1. /\ c2s = <<>> /\ member' = member /\ s2c' = Tail(s2c) /\ s2c # <<>>
      /\ s2c \in Seq(ServerMsg)
  BY ReceiptFrame DEF server, RoomTypes
<1> SUFFICES ASSUME NEW r \in Rooms, r \notin member, ~ Has(c2s', Entries(r)) PROVE IsTold(r)'
  BY <1>1 DEF ToldInv
<1>2. IsTold(r)
  BY <1>1, OneRequest DEF ToldInv
<1>3. PICK m \in ServerMsg : m = Head(s2c)
  BY ReceiptFrame
<1> DEFINE Known == r \in channels => r \in out
           Good == /\ m \in Expels(r) => Known'
                   /\ m # Here(r, Me) /\ Known => Known'
<1>4. m \in Expels(r) => m.kind \in {"away", "refused"} /\ m.room = r /\ (m.kind = "away" => m.nick = Me)
  BY DEF Expels, Aways, Away
<1>5. m.kind = "here" /\ m.room = r /\ m.nick = Me => m = Here(r, Me)
  BY DEF Here, ServerMsg
<1>6. ASSUME OnHere PROVE Good
  BY <1>3, <1>4, <1>5, <1>6 DEF OnHere, Receive
<1>7. ASSUME OnAway PROVE Good
  BY <1>3, <1>4, <1>7 DEF OnAway, Receive
<1>8. ASSUME OnRefused PROVE Good
  BY <1>3, <1>4, <1>8 DEF OnRefused, Receive
<1>9. ASSUME OnMessage PROVE Good
  BY <1>3, <1>4, <1>9 DEF OnMessage, Receive
<1>10. \A x \in Rooms, ms \in Seq(ClientMsg) : Send(ms) => c2s' = ms
  BY <1>1, EmptyConcat DEF Send
<1>11. ASSUME OnItemOn PROVE Good
  <2>1. m.room \in Rooms
    BY <1>3, <1>11 DEF OnItemOn, Receive, ServerMsg
  <2>2. <<Join(m.room)>> \in Seq(ClientMsg)
    BY <2>1, RequestTypes
  <2>3. \/ channels' = channels /\ out' = out
        \/ channels' = channels \cup {m.room} /\ out' = out \ {m.room} /\ c2s' = <<Join(m.room)>>
    BY <1>3, <1>10, <1>11, <2>2 DEF OnItemOn, Opens, shown
  <2>4. channels' = channels \cup {m.room} /\ c2s' = <<Join(m.room)>> => m.room # r
    BY OneRequest
  <2> QED BY <1>3, <1>4, <1>11, <2>3, <2>4 DEF OnItemOn, Receive
<1>12. ASSUME OnItemOff \/ OnRetract PROVE Good
  <2>1. \/ channels' = channels /\ out' = out
        \/ channels' = channels \ {m.room} /\ out' = out \ {m.room}
    BY <1>3, <1>12 DEF OnItemOff, OnRetract, Closes, shown
  <2> QED BY <1>3, <1>4, <1>12, <2>1 DEF OnItemOff, OnRetract, Receive
<1>13. ASSUME OnPrivate PROVE Good
  <2>1. PICK new : /\ new = Autojoined(Head(s2c).marks) \ channels
                   /\ \A x \in new : \E i \in DOMAIN c2s' : c2s'[i] = Join(x)
    BY <1>13, PrivateJoins
  <2>2. channels' = channels \cup new /\ out' = out \ new
    BY <1>13, <2>1 DEF OnPrivate
  <2>3. r \notin new
    BY <2>1 DEF Has, Entries
  <2> QED BY <1>3, <1>4, <1>13, <2>2, <2>3 DEF OnPrivate, Receive
<1>14. ASSUME OnPong PROVE Good
  BY <1>3, <1>4, <1>14 DEF OnPong, Receive, shown
<1>15. ASSUME OnDangling PROVE Good
  BY <1>3, <1>4, <1>5, <1>15 DEF OnDangling, Faulty, Dangling
<1>16. Good
  BY <1>6, <1>7, <1>8, <1>9, <1>11, <1>12, <1>13, <1>14, <1>15 DEF Receipt
<1>17. /\ Free(s2c, Heres(r, Me)) => m # Here(r, Me) /\ Free(s2c', Heres(r, Me))
       /\ Ends(s2c, Expels(r), Heres(r, Me)) =>
             Ends(s2c', Expels(r), Heres(r, Me)) \/ (m \in Expels(r) /\ Free(s2c', Heres(r, Me)))
  <2>1. /\ Free(s2c, Heres(r, Me)) => Head(s2c) \notin Heres(r, Me) /\ Free(Tail(s2c), Heres(r, Me))
        /\ Ends(s2c, Expels(r), Heres(r, Me)) =>
              \/ Ends(Tail(s2c), Expels(r), Heres(r, Me))
              \/ Head(s2c) \in Expels(r) /\ Free(Tail(s2c), Heres(r, Me))
    BY <1>1, Consumed
  <2> QED BY <1>1, <1>3, <2>1 DEF Heres
<1> QED BY <1>2, <1>16, <1>17 DEF IsTold

LEMMA ToldActs ==
    ASSUME RoomTypes, ToldInv, NEW s \in Rooms, Acts(s)
    PROVE  ToldInv'
<1>1. c2s = <<>> /\ member' = member /\ s2c' = s2c
  BY ActsFrame DEF server
<1> SUFFICES ASSUME NEW r \in Rooms, r \notin member, ~ Has(c2s', Entries(r)) PROVE IsTold(r)'
  BY <1>1 DEF ToldInv
<1>2. IsTold(r)
  BY <1>1, OneRequest DEF ToldInv
<1> DEFINE Good == (r \in channels => r \in out) => (r \in channels' => r \in out')
<1>3. ASSUME Enters(s) PROVE Good
  <2>1. r # s
    BY <1>3, OneRequest DEF Enters
  <2> QED BY <1>3, <2>1 DEF Enters, Opens, shown
<1>4. ASSUME Shuts(s) \/ Hides(s) \/ Marked(s) \/ Idles(s) PROVE Good
  BY <1>4 DEF Shuts, Closes, Hides, Marked, Idles, shown
<1>5. Good
  BY <1>3, <1>4, ActsCases
<1> QED BY <1>1, <1>2, <1>5 DEF IsTold

\* What is appended leaves it at that, or tells it anew.
LEMMA ToldMore ==
    ASSUME NEW r, s2c \in Seq(ServerMsg), NEW p \in Seq(ServerMsg), s2c' = s2c \o p,
           UNCHANGED <<channels, out>>,
           \/ Ends(p, Expels(r), Heres(r, Me))
           \/ Free(p, Heres(r, Me)) /\ IsTold(r)
    PROVE  IsTold(r)'
<1>1. /\ Ends(p, Expels(r), Heres(r, Me)) => Ends(s2c', Expels(r), Heres(r, Me))
      /\ Ends(s2c, Expels(r), Heres(r, Me)) /\ Free(p, Heres(r, Me))
            => Ends(s2c', Expels(r), Heres(r, Me))
      /\ Free(s2c, Heres(r, Me)) /\ Free(p, Heres(r, Me)) => Free(s2c', Heres(r, Me))
  BY Concatenated
<1> QED BY <1>1 DEF IsTold

\* What the server says to who enters.
LEMMA JoinedSays ==
    ASSUME RoomTypes, NEW s \in Rooms, Joined(s)
    PROVE  \E p \in Seq(ServerMsg) : s2c' = s2c \o p /\ Greets(p, s, occupants[s])
<1>1. PICK past \in {<<>>, <<[kind |-> "message", room |-> s, delayed |-> TRUE]>>} :
          s2c' = s2c \o ([i \in 1..Cardinality(occupants[s]) |->
                             Here(s, SetToSeq(occupants[s])[i])] \o <<Here(s, Me)>> \o past)
  BY DEF Joined
<1>2. past \in Seq(ServerMsg)
  <2>1. PICK x \in ServerMsg : x = [kind |-> "message", room |-> s, delayed |-> TRUE]
    BY MessageTypes
  <2>2. <<x>> \in Seq(ServerMsg) /\ <<>> \in Seq(ServerMsg)
    OBVIOUS
  <2> QED BY <1>1, <2>1, <2>2
<1>3. PICK S : S = occupants[s] /\ S \subseteq Nicks
  BY DEF RoomTypes
<1>4. PICK p : p = [i \in 1..Cardinality(S) |-> Here(s, SetToSeq(S)[i])] \o <<Here(s, Me)>> \o past
  OBVIOUS
<1>5. past \in {<<>>, <<[kind |-> "message", room |-> s, delayed |-> TRUE]>>}
  BY <1>1
<1>6. p \in Seq(ServerMsg)
  BY <1>2, <1>3, <1>4, <1>5, Greeting
<1>7. Greets(p, s, S)
  BY <1>2, <1>3, <1>4, <1>5, Greeting
<1>8. s2c' = s2c \o p
  BY <1>1, <1>3, <1>4
<1> QED BY <1>3, <1>6, <1>7, <1>8

LEMMA ToldServer ==
    ASSUME RoomTypes, ToldInv, ServerHandle
    PROVE  ToldInv'
<1>1. /\ c2s \in Seq(ClientMsg) /\ c2s # <<>> /\ c2s' = Tail(c2s) /\ UNCHANGED <<channels, out>>
      /\ s2c \in Seq(ServerMsg) /\ stored \in Marks /\ occupants \in [Rooms -> SUBSET Nicks]
  BY ServerFrame DEF RoomTypes, shown
<1> SUFFICES ASSUME NEW r \in Rooms, r \notin member', ~ Has(c2s', Entries(r)) PROVE IsTold(r)'
  BY DEF ToldInv
<1>2. PICK m : m = Head(c2s)
  OBVIOUS
<1>3. r \in member \/ m = Join(r) \/ IsTold(r)
  <2>1. Has(c2s, Entries(r)) => Head(c2s) \in Entries(r) \/ Has(Tail(c2s), Entries(r))
    BY <1>1, Consumed
  <2> QED BY <1>1, <1>2, <2>1 DEF ToldInv, Entries
<1> DEFINE Good == \E p \in Seq(ServerMsg) :
                      /\ s2c' = s2c \o p
                      /\ \/ Ends(p, Expels(r), Heres(r, Me))
                         \/ Free(p, Heres(r, Me)) /\ IsTold(r)
<1>4. ASSUME NEW x \in ServerMsg, s2c' = s2c \o <<x>>,
             x \in Expels(r) \/ (x # Here(r, Me) /\ IsTold(r))
      PROVE  Good
  <2>1. <<x>> \in Seq(ServerMsg)
    OBVIOUS
  <2> QED BY <1>4, <2>1, OneMessage
<1>5. ASSUME NEW s \in Rooms, Joined(s) PROVE Good
  <2>1. r # s /\ r \notin member /\ m = Join(s)
    BY <1>2, <1>5 DEF Joined
  <2>2. IsTold(r)
    BY <1>3, <2>1 DEF Join
  <2>3. PICK p \in Seq(ServerMsg) : s2c' = s2c \o p /\ Greets(p, s, occupants[s])
    BY <1>5, JoinedSays
  <2>4. \A n : Here(s, n) # Here(r, Me)
    BY <2>1 DEF Here
  <2>5. Here(r, Me).kind # "message"
    BY DEF Here
  <2>6. Free(p, Heres(r, Me))
    BY <2>3, <2>4, <2>5 DEF Free, Heres, Greets
  <2> QED BY <2>2, <2>3, <2>6
<1>6. \A s : /\ Join(s) = Join(r) => s = r
             /\ Leave(s) # Join(r) /\ [kind |-> "retract", room |-> s] # Join(r)
             /\ [kind |-> "publish", marks |-> s] # Join(r)
  BY DEF Join, Leave
<1>7. ASSUME NEW s \in Rooms, Denied(s) PROVE Good
  <2>1. PICK x : x = [kind |-> "refused", room |-> s]
    OBVIOUS
  <2>2. x \in ServerMsg /\ s2c' = s2c \o <<x>> /\ x # Here(r, Me)
    BY <1>7, <2>1, MessageTypes DEF Denied, Here
  <2>3. s = r => x \in Expels(r)
    BY <2>1 DEF Expels
  <2>4. s # r => IsTold(r)
    BY <1>2, <1>3, <1>6, <1>7 DEF Denied
  <2> QED BY <1>4, <2>2, <2>3, <2>4
<1>8. ASSUME NEW s \in Rooms, Left(s) PROVE Good
  <2>1. m = Leave(s) /\ member' = member \ {s}
    BY <1>2, <1>8 DEF Left
  <2>2. CASE s \in member
    <3>1. PICK x : x = Away(s, Me, FALSE)
      OBVIOUS
    <3>2. x \in ServerMsg /\ s2c' = s2c \o <<x>> /\ x # Here(r, Me)
      BY <1>8, <2>2, <3>1, MessageTypes DEF Left, Here, Away, Occupants
    <3>3. s = r => x \in Expels(r)
      BY <3>1 DEF Expels, Aways
    <3>4. s # r => IsTold(r)
      BY <1>3, <1>6, <2>1
    <3> QED BY <1>4, <3>2, <3>3, <3>4
  <2>3. CASE s \notin member
    <3>1. IsTold(r)
      BY <1>3, <1>6, <2>1, <2>3
    <3>2. <<>> \in Seq(ServerMsg) /\ s2c' = s2c \o <<>>
      BY <1>1, <1>8, <2>3 DEF Left
    <3> QED BY <3>1, <3>2, OneMessage
  <2> QED BY <2>2, <2>3
<1>9. ASSUME NEW s \in Rooms, Retracted(s) PROVE Good
  <2>1. IsTold(r)
    BY <1>2, <1>3, <1>6, <1>9 DEF Retracted
  <2>2. [kind |-> "retract", room |-> s] # Here(r, Me)
    BY DEF Here
  <2> QED BY <1>4, <1>9, <2>1, <2>2, MessageTypes DEF Retracted
<1>10. ASSUME NEW s \in Rooms, Answered(s) PROVE Good
  <2>1. IsTold(r)
    BY <1>2, <1>3, <1>10 DEF Answered, Join
  <2>2. PICK x : x = [kind |-> "pong", room |-> s, inside |-> s \in member]
    OBVIOUS
  <2>3. x # Here(r, Me) /\ x \in ServerMsg
    <3>1. (s \in member) \in BOOLEAN
      OBVIOUS
    <3> QED BY <2>2, <3>1, MessageTypes DEF Here
  <2> QED BY <1>4, <1>10, <2>1, <2>2, <2>3 DEF Answered
<1>11. ASSUME Reported PROVE Good
  <2>1. IsTold(r)
    BY <1>2, <1>3, <1>11 DEF Reported, Join
  <2>2. [kind |-> "private", marks |-> stored] # Here(r, Me)
        /\ [kind |-> "private", marks |-> stored] \in ServerMsg
    BY <1>1 DEF Here, ServerMsg
  <2> QED BY <1>4, <1>11, <2>1, <2>2 DEF Reported
<1>12. ASSUME NEW marks \in Marks, Stored(marks) PROVE Good
  <2>1. IsTold(r)
    BY <1>2, <1>3, <1>6, <1>12 DEF Stored
  <2>2. PICK p : p = Pushed(marks)
    OBVIOUS
  <2>3. /\ p \in Seq(ServerMsg)
        /\ \A i \in DOMAIN p : \E x \in Rooms : p[i] = Item(x, marks[x])
    BY <2>2, PushedAll
  <2>4. \A x, b : Item(x, b) # Here(r, Me)
    BY DEF Item, Here
  <2>5. Free(p, Heres(r, Me))
    BY <2>3, <2>4 DEF Free, Heres
  <2> QED BY <1>12, <2>1, <2>2, <2>3, <2>5 DEF Stored
<1>13. Good
  <2>1. CASE \E s \in Rooms : Joined(s) \/ Denied(s) \/ Left(s) \/ Retracted(s) \/ Answered(s)
    <3>1. PICK s \in Rooms : Joined(s) \/ Denied(s) \/ Left(s) \/ Retracted(s) \/ Answered(s)
      BY <2>1
    <3> QED BY <1>5, <1>7, <1>8, <1>9, <1>10, <3>1
  <2>2. CASE \E marks \in Marks : Stored(marks)
    BY <1>12, <2>2
  <2> QED BY <1>11, <2>1, <2>2, ServerCases
<1> QED BY <1>1, <1>13, ToldMore

LEMMA ToldOthers ==
    ASSUME RoomTypes, ToldInv, NEW s \in Rooms, OthersAct(s)
    PROVE  ToldInv'
<1>1. /\ c2s' = c2s /\ UNCHANGED <<channels, out>> /\ s2c \in Seq(ServerMsg)
  BY OthersFrame DEF shown, RoomTypes
<1> SUFFICES ASSUME NEW r \in Rooms, r \notin member', ~ Has(c2s, Entries(r)) PROVE IsTold(r)'
  BY <1>1 DEF ToldInv
<1>2. r \in member \/ IsTold(r)
  BY DEF ToldInv
<1>3. ASSUME NEW x \in ServerMsg, Tell(<<x>>) \/ TellRoom(s, <<x>>), IsTold(r), x # Here(r, Me)
      PROVE  IsTold(r)'
  <2>1. <<x>> \in Seq(ServerMsg) /\ <<>> \in Seq(ServerMsg) /\ s2c = s2c \o <<>>
    BY <1>1
  <2>2. \E p \in Seq(ServerMsg) : s2c' = s2c \o p /\ Free(p, Heres(r, Me))
    BY <1>3, <2>1, OneMessage DEF Tell, TellRoom
  <2> QED BY <1>1, <1>3, <2>2, ToldMore
<1>4. ASSUME NEW n \in Nicks, Arrives(s, n) PROVE IsTold(r)'
  <2>1. Here(s, n) # Here(r, Me) /\ Here(s, n) \in ServerMsg
    BY MeAssumption, MessageTypes DEF Here, Occupants
  <2> QED BY <1>2, <1>3, <1>4, <2>1 DEF Arrives
<1>5. ASSUME NEW n \in Nicks, Departs(s, n) PROVE IsTold(r)'
  <2>1. \A k \in BOOLEAN : Away(s, n, k) # Here(r, Me) /\ Away(s, n, k) \in ServerMsg
    BY MessageTypes DEF Here, Away, Occupants
  <2> QED BY <1>2, <1>3, <1>5, <2>1 DEF Departs
<1>6. ASSUME KickedOut(s) PROVE IsTold(r)'
  <2>1. PICK x : x = Away(s, Me, TRUE)
    OBVIOUS
  <2>2. x # Here(r, Me) /\ x \in ServerMsg /\ Tell(<<x>>) /\ member' = member \ {s}
    BY <1>6, <2>1, MessageTypes DEF KickedOut, Here, Away, Occupants
  <2>3. CASE s = r
    <3>1. x \in Expels(r)
      BY <2>1, <2>3 DEF Expels, Aways
    <3>2. <<x>> \in Seq(ServerMsg) /\ s2c' = s2c \o <<x>>
      BY <2>2 DEF Tell
    <3>3. Ends(<<x>>, Expels(r), Heres(r, Me))
      BY <3>1, OneMessage
    <3> QED BY <1>1, <3>2, <3>3, ToldMore
  <2> QED BY <1>2, <1>3, <2>2, <2>3
<1>7. ASSUME Speaks(s) PROVE IsTold(r)'
  <2>1. PICK x : x = [kind |-> "message", room |-> s, delayed |-> FALSE]
    OBVIOUS
  <2>2. x # Here(r, Me) /\ x \in ServerMsg
    BY <2>1, MessageTypes DEF Here
  <2> QED BY <1>2, <1>3, <1>7, <2>1, <2>2 DEF Speaks, server
<1>8. ASSUME NEW b \in Bookmark, OtherBookmarks(s, b) PROVE IsTold(r)'
  <2>1. Item(s, b) # Here(r, Me) /\ [kind |-> "retract", room |-> s] # Here(r, Me)
    BY DEF Here, Item
  <2> QED BY <1>2, <1>3, <1>8, <2>1, MessageTypes DEF OtherBookmarks
<1> QED BY <1>4, <1>5, <1>6, <1>7, <1>8 DEF OthersAct

LEMMA ToldLinks ==
    ASSUME RoomTypes, ToldInv, Links
    PROVE  ToldInv'
<1>1. CASE ConnectResumed
  <2>1. Burst \in Seq(ClientMsg) /\ c2s \in Seq(ClientMsg) /\ c2s' = c2s \o Burst
        /\ UNCHANGED <<channels, out, member, s2c>>
    BY <1>1, RequestTypes DEF RoomTypes, ConnectResumed, shown, server
  <2>2. \A r \in Rooms : Has(c2s, Entries(r)) => Has(c2s', Entries(r))
    BY <2>1, Concatenated
  <2> QED BY <2>1, <2>2 DEF ToldInv, IsTold
<1>2. CASE ConnectNew
  BY <1>2, OneMessage DEF ConnectNew, ToldInv, IsTold
<1>3. CASE Drop
  BY <1>3 DEF Drop, ToldInv, IsTold, server
<1>4. CASE Dies
  BY <1>4, OneMessage DEF Dies, ToldInv, IsTold
<1> QED BY <1>1, <1>2, <1>3, <1>4 DEF Links

LEMMA ToldNext == RoomTypes /\ ToldInv /\ [Next]_vars => ToldInv'
<1>1. ToldInv /\ UNCHANGED vars => ToldInv'
  BY DEF ToldInv, IsTold, vars, shown, server
<1> QED
  BY <1>1, NextCases, ToldReceipt, ToldActs, ToldServer, ToldOthers, ToldLinks

-------------------------------------------------------------------------------
\* What the server keeps is what the client is told.

\* What is appended leaves it at that, or tells it anew.
LEMMA GivenMore ==
    ASSUME NEW r \in Rooms, s2c \in Seq(ServerMsg), NEW p \in Seq(ServerMsg), s2c' = s2c \o p,
           \/ Ends(p, Says(r, stored'[r]), Denies(r, stored'[r]))
           \/ /\ stored'[r] = stored[r] /\ (Agreed(r) => Agreed(r)')
              /\ Free(p, Denies(r, stored[r])) /\ IsGiven(r)
    PROVE  IsGiven(r)'
<1>1. PICK S, T : S = Says(r, stored'[r]) /\ T = Denies(r, stored'[r])
  OBVIOUS
<1>2. /\ Ends(p, S, T) => Ends(s2c', S, T)
      /\ Ends(s2c, S, T) /\ Free(p, T) => Ends(s2c', S, T)
      /\ Free(s2c, T) /\ Free(p, T) => Free(s2c', T)
  BY Concatenated
<1> QED BY <1>1, <1>2 DEF IsGiven

\* What a single message says of a bookmark.
LEMMA OneMark ==
    ASSUME NEW r \in Rooms, NEW m \in ServerMsg, NEW b
    PROVE  /\ m \notin Denies(r, b) => Free(<<m>>, Denies(r, b))
           /\ m \in Says(r, b) /\ b # "none" => Ends(<<m>>, Says(r, b), Denies(r, b))
           /\ m.kind \notin {"item", "retract", "private"} => m \notin Denies(r, b)
           /\ m.kind \in {"item", "retract"} /\ m.room # r => m \notin Denies(r, b)
           /\ ~ Has(<<>>, Refreshes(r)) /\ Free(<<>>, Denies(r, b))
           /\ ~ Ends(<<>>, Says(r, b), Denies(r, b))
  BY Single DEF Says, Denies

LEMMA GivenReceipt ==
    ASSUME RoomTypes, BookmarkInv, Receipt
    PROVE  BookmarkInv'
<1>1. /\ up /\ c2s = <<>> /\ s2c' = Tail(s2c) /\ s2c # <<>> /\ stored' = stored /\ closed' = closed
      /\ s2c \in Seq(ServerMsg) /\ stored \in Marks /\ bookmarks \in Marks
  BY ReceiptFrame DEF server, history, RoomTypes
<1> SUFFICES ASSUME NEW r \in Rooms, stored[r] # "none" PROVE IsGiven(r)'
  BY <1>1 DEF BookmarkInv
<1>2. IsGiven(r)
  BY <1>1, Single DEF BookmarkInv
<1>3. PICK m \in ServerMsg : m = Head(s2c)
  BY ReceiptFrame
<1>4. PICK b : b = stored[r] /\ b \in Bookmark \ {"none"}
  BY <1>1 DEF Marks
<1> DEFINE Is  == bookmarks[r] = b /\ (b = "on" => r \in channels \cup closed)
           Good == /\ m \in Says(r, b) => Is'
                   /\ m \notin Denies(r, b) /\ Is => Is'
<1>5. /\ m \in Says(r, b) => \/ m.kind = "item" /\ m.room = r /\ m.autojoin = b
                             \/ m.kind = "private" /\ m.marks[r] = b
      /\ m \notin Denies(r, b) => /\ m.kind = "item" /\ m.room = r => m.autojoin = b
                                  /\ m.kind = "retract" => m.room # r
                                  /\ m.kind = "private" => m.marks[r] \in {b, "none"}
  BY DEF Says, Denies
<1>6. bookmarks \in [Rooms -> Bookmark]
  BY <1>1 DEF Marks
<1>7. ASSUME OnHere \/ OnAway \/ OnRefused \/ OnMessage \/ OnPong PROVE Good
  <2>1. channels \subseteq channels' /\ bookmarks' = bookmarks /\ m.kind \notin {"item", "private"}
    BY <1>3, <1>7 DEF OnHere, OnAway, OnRefused, OnMessage, OnPong, Receive, shown
  <2> QED BY <1>1, <1>5, <2>1
<1>8. ASSUME OnItemOn PROVE Good
  <2>1. /\ m.kind = "item" /\ m.autojoin = "on" /\ bookmarks' = [bookmarks EXCEPT ![m.room] = "on"]
        /\ m.room \in channels' /\ channels \subseteq channels'
    BY <1>3, <1>8 DEF OnItemOn, Receive, Opens, shown
  <2> QED BY <1>1, <1>5, <1>6, <2>1
<1>9. ASSUME OnItemOff PROVE Good
  <2>1. /\ m.kind = "item" /\ m.autojoin = "off" /\ bookmarks' = [bookmarks EXCEPT ![m.room] = "off"]
        /\ channels \ {m.room} \subseteq channels'
    BY <1>3, <1>9 DEF OnItemOff, Receive, Closes, shown
  <2> QED BY <1>1, <1>5, <1>6, <2>1
<1>10. ASSUME OnRetract PROVE Good
  <2>1. /\ m.kind = "retract" /\ bookmarks' = [bookmarks EXCEPT ![m.room] = "none"]
        /\ channels \ {m.room} \subseteq channels'
    BY <1>3, <1>10 DEF OnRetract, Receive, Closes, shown
  <2> QED BY <1>1, <1>5, <1>6, <2>1
<1>11. ASSUME OnPrivate PROVE Good
  <2>1. PICK marks \in Marks : marks = Head(s2c).marks
    BY <1>11, PrivateJoins
  <2>2. /\ m.kind = "private" /\ m.marks = marks
        /\ bookmarks' = Merged(marks) /\ channels' = channels \cup (Autojoined(marks) \ channels)
    BY <1>3, <1>11, <2>1 DEF OnPrivate, Receive
  <2>3. bookmarks'[r] = IF marks[r] = "none" THEN bookmarks[r] ELSE marks[r]
    BY <2>2 DEF Merged
  <2>4. marks[r] = "on" => r \in channels'
    BY <2>2 DEF Autojoined
  <2>5. channels \subseteq channels'
    BY <2>2
  <2> QED BY <1>1, <1>4, <1>5, <2>2, <2>3, <2>4, <2>5
<1>12. ASSUME OnDangling PROVE Good
  <2>1. /\ channels' = channels
        /\ m.kind \in {"here", "away", "retract", "item"} /\ (m.kind = "item" => m.autojoin = "off")
        /\ bookmarks' = [bookmarks EXCEPT ![m.room] = CASE m.kind = "item" -> m.autojoin
                                                        [] m.kind = "retract" -> "none"
                                                        [] OTHER -> @]
    BY <1>3, <1>12 DEF OnDangling, Faulty
  <2>2. bookmarks'[r] = IF m.room = r /\ m.kind = "item" THEN m.autojoin
                        ELSE IF m.room = r /\ m.kind = "retract" THEN "none" ELSE bookmarks[r]
    BY <1>6, <2>1
  <2> QED BY <1>1, <1>5, <2>1, <2>2
<1>13. Good
  BY <1>7, <1>8, <1>9, <1>10, <1>11, <1>12 DEF Receipt
<1>14. /\ Free(s2c, Denies(r, b)) => m \notin Denies(r, b) /\ Free(s2c', Denies(r, b))
       /\ Ends(s2c, Says(r, b), Denies(r, b)) =>
             Ends(s2c', Says(r, b), Denies(r, b)) \/ (m \in Says(r, b) /\ Free(s2c', Denies(r, b)))
  <2>1. /\ Free(s2c, Denies(r, b)) => Head(s2c) \notin Denies(r, b) /\ Free(Tail(s2c), Denies(r, b))
        /\ Ends(s2c, Says(r, b), Denies(r, b)) =>
              \/ Ends(Tail(s2c), Says(r, b), Denies(r, b))
              \/ Head(s2c) \in Says(r, b) /\ Free(Tail(s2c), Denies(r, b))
    BY <1>1, Consumed
  <2> QED BY <1>1, <1>3, <2>1
<1>15. (Agreed(r) <=> Is) /\ (Agreed(r)' <=> Is')
  BY <1>1, <1>4 DEF Agreed
<1>16. stored'[r] = b
  BY <1>1, <1>4
<1> QED BY <1>2, <1>4, <1>13, <1>14, <1>15, <1>16 DEF IsGiven

LEMMA GivenActs ==
    ASSUME RoomTypes, BookmarkInv, NEW s \in Rooms, Acts(s)
    PROVE  BookmarkInv'
<1>1. c2s = <<>> /\ stored' = stored /\ s2c' = s2c /\ up' = up /\ bookmarks \in [Rooms -> Bookmark]
  BY ActsFrame DEF server, RoomTypes, Marks
<1> SUFFICES ASSUME up, NEW r \in Rooms, stored[r] # "none", ~ Has(c2s', Refreshes(r))
             PROVE  IsGiven(r)'
  BY <1>1 DEF BookmarkInv
<1>2. IsGiven(r)
  BY <1>1, Single DEF BookmarkInv
<1> DEFINE Good == /\ bookmarks'[r] = bookmarks[r]
                   /\ r \in channels \cup closed => r \in channels' \cup closed'
<1>3. ASSUME Enters(s) PROVE Good
  BY <1>3 DEF Enters, Opens, shown
<1>4. ASSUME Shuts(s) PROVE Good
  BY <1>4 DEF Shuts, Closes
<1>5. ASSUME Marked(s) PROVE Good
  <2>1. r # s
    BY <1>5, Single DEF Marked
  <2> QED BY <1>1, <1>5, <2>1 DEF Marked, shown
<1>6. ASSUME Idles(s) PROVE Good
  BY <1>6 DEF Idles, shown
<1>7. Good
  BY <1>3, <1>4, <1>5, <1>6, ActsCases DEF Hides
<1> QED BY <1>1, <1>2, <1>7 DEF IsGiven, Agreed

LEMMA GivenServer ==
    ASSUME RoomTypes, BookmarkInv, ServerHandle
    PROVE  BookmarkInv'
<1>1. /\ c2s \in Seq(ClientMsg) /\ c2s # <<>> /\ c2s' = Tail(c2s) /\ s2c \in Seq(ServerMsg)
      /\ UNCHANGED <<channels, bookmarks, closed>> /\ stored \in Marks /\ up
  BY ServerFrame DEF RoomTypes, shown
<1> SUFFICES ASSUME NEW r \in Rooms, stored'[r] # "none", ~ Has(c2s', Refreshes(r)) PROVE IsGiven(r)'
  BY DEF BookmarkInv
<1>2. PICK m : m = Head(c2s)
  OBVIOUS
<1>3. stored[r] = "none" \/ m \in Refreshes(r) \/ IsGiven(r)
  <2>1. Has(c2s, Refreshes(r)) => Head(c2s) \in Refreshes(r) \/ Has(Tail(c2s), Refreshes(r))
    BY <1>1, Consumed
  <2> QED BY <1>1, <1>2, <2>1 DEF BookmarkInv
<1>4. stored'[r] = stored[r] => (Agreed(r) => Agreed(r)')
  BY <1>1 DEF Agreed
<1> DEFINE Good == \E p \in Seq(ServerMsg) :
                      /\ s2c' = s2c \o p
                      /\ \/ Ends(p, Says(r, stored'[r]), Denies(r, stored'[r]))
                         \/ stored'[r] = stored[r] /\ Free(p, Denies(r, stored[r])) /\ IsGiven(r)
<1>5. ASSUME NEW x \in ServerMsg, s2c' = s2c \o <<x>>,
             \/ x \in Says(r, stored'[r])
             \/ stored'[r] = stored[r] /\ x \notin Denies(r, stored[r]) /\ IsGiven(r)
      PROVE  Good
  <2>1. <<x>> \in Seq(ServerMsg)
    OBVIOUS
  <2>2. PICK b : b = stored'[r] /\ b # "none"
    OBVIOUS
  <2>3. /\ x \notin Denies(r, b) => Free(<<x>>, Denies(r, b))
        /\ x \in Says(r, b) => Ends(<<x>>, Says(r, b), Denies(r, b))
    BY <2>2, OneMark
  <2> QED BY <1>5, <2>1, <2>2, <2>3
<1>6. m.kind \in {"join", "leave", "ping"} \/ (m.kind = "retract" /\ m.room # r)
      => m \notin Refreshes(r)
  BY DEF Refreshes
<1>7. ASSUME NEW s \in Rooms, Joined(s) PROVE Good
  <2>1. m.kind = "join" /\ stored' = stored
    BY <1>2, <1>7 DEF Joined, Join
  <2>2. IsGiven(r)
    BY <1>3, <1>6, <2>1
  <2>3. PICK p \in Seq(ServerMsg) : s2c' = s2c \o p /\ Greets(p, s, occupants[s])
    BY <1>7, JoinedSays
  <2>4. \A n : Here(s, n).kind = "here"
    BY DEF Here
  <2>5. Free(p, Denies(r, stored[r]))
    BY <2>3, <2>4 DEF Free, Denies, Greets
  <2> QED BY <2>1, <2>2, <2>3, <2>5
<1>8. ASSUME NEW s \in Rooms, Denied(s) PROVE Good
  <2>1. m.kind = "join" /\ stored' = stored
    BY <1>2, <1>8 DEF Denied, Join
  <2>2. PICK x \in ServerMsg : x = [kind |-> "refused", room |-> s]
    BY MessageTypes
  <2>3. x \notin Denies(r, stored[r])
    BY <2>2 DEF Denies
  <2> QED BY <1>3, <1>5, <1>6, <1>8, <2>1, <2>2, <2>3 DEF Denied
<1>9. ASSUME NEW s \in Rooms, Left(s) PROVE Good
  <2>1. m.kind = "leave" /\ stored' = stored
    BY <1>2, <1>9 DEF Left, Leave
  <2>2. IsGiven(r)
    BY <1>3, <1>6, <2>1
  <2>3. CASE s \in member
    <3>1. PICK x \in ServerMsg : x = Away(s, Me, FALSE)
      BY MessageTypes DEF Occupants
    <3>2. x \notin Denies(r, stored[r])
      BY <3>1 DEF Denies, Away
    <3> QED BY <1>5, <1>9, <2>1, <2>2, <2>3, <3>1, <3>2 DEF Left
  <2>4. CASE s \notin member
    <3>1. <<>> \in Seq(ServerMsg) /\ s2c' = s2c \o <<>>
      BY <1>1, <1>9, <2>4 DEF Left
    <3>2. Free(<<>>, Denies(r, stored[r]))
      BY Single
    <3> QED BY <2>1, <2>2, <3>1, <3>2
  <2> QED BY <2>3, <2>4
<1>10. ASSUME NEW s \in Rooms, Retracted(s) PROVE Good
  <2>1. m = [kind |-> "retract", room |-> s] /\ stored' = [stored EXCEPT ![s] = "none"]
    BY <1>2, <1>10 DEF Retracted
  <2>2. r # s /\ stored'[r] = stored[r]
    BY <1>1, <2>1 DEF Marks
  <2>3. IsGiven(r)
    BY <1>3, <1>6, <2>1, <2>2
  <2>4. PICK x \in ServerMsg : x = [kind |-> "retract", room |-> s]
    BY MessageTypes
  <2>5. x \notin Denies(r, stored[r])
    BY <2>2, <2>4 DEF Denies
  <2> QED BY <1>5, <1>10, <2>2, <2>3, <2>4, <2>5 DEF Retracted
<1>11. ASSUME NEW s \in Rooms, Answered(s) PROVE Good
  <2>1. m.kind = "ping" /\ stored' = stored
    BY <1>2, <1>11 DEF Answered
  <2>2. PICK x : x = [kind |-> "pong", room |-> s, inside |-> s \in member]
    OBVIOUS
  <2>3. x \in ServerMsg
    <3>1. (s \in member) \in BOOLEAN
      OBVIOUS
    <3> QED BY <2>2, <3>1, MessageTypes
  <2>4. x \notin Denies(r, stored[r])
    BY <2>2 DEF Denies
  <2>5. IsGiven(r)
    BY <1>3, <1>6, <2>1
  <2>6. s2c' = s2c \o <<x>>
    BY <1>11, <2>2 DEF Answered
  <2> QED BY <1>5, <2>1, <2>3, <2>4, <2>5, <2>6
<1>12. ASSUME Reported PROVE Good
  <2>1. PICK x : x = [kind |-> "private", marks |-> stored]
    OBVIOUS
  <2>2. x \in ServerMsg
    BY <1>1, <2>1 DEF ServerMsg
  <2>3. stored' = stored /\ x \in Says(r, stored'[r])
    BY <1>12, <2>1, <2>2 DEF Says, Reported
  <2> QED BY <1>5, <1>12, <2>1, <2>2, <2>3 DEF Reported
<1>13. ASSUME NEW marks \in Marks, Stored(marks) PROVE Good
  <2>1. stored'[r] = IF marks[r] = "none" THEN stored[r] ELSE marks[r]
    BY <1>13 DEF Stored
  <2>2. PICK p : p = Pushed(marks)
    OBVIOUS
  <2>3. /\ p \in Seq(ServerMsg) /\ s2c' = s2c \o p
        /\ \A i \in DOMAIN p : \E x \in Rooms : marks[x] # "none" /\ p[i] = Item(x, marks[x])
        /\ marks[r] # "none" => \E i \in DOMAIN p : p[i] = Item(r, marks[r])
    BY <1>13, <2>2, PushedAll DEF Stored
  <2>4. Free(p, Denies(r, stored'[r]))
    <3>1. \A x \in Rooms : marks[x] # "none" => Item(x, marks[x]) \notin Denies(r, stored'[r])
      BY <2>1 DEF Item, Denies
    <3> QED BY <2>3, <3>1 DEF Free
  <2>5. CASE marks[r] = "none"
    <3>1. m \notin Refreshes(r)
      BY <1>2, <1>13, <2>5 DEF Stored, Refreshes
    <3> QED BY <1>3, <2>1, <2>3, <2>4, <2>5, <3>1
  <2>6. CASE marks[r] # "none"
    <3>1. Item(r, marks[r]) \in ServerMsg
      BY <2>6, MessageTypes DEF Marks
    <3>2. Item(r, marks[r]) \in Says(r, stored'[r])
      BY <2>1, <2>6, <3>1 DEF Says, Item
    <3>3. Ends(p, Says(r, stored'[r]), Denies(r, stored'[r]))
      BY <2>3, <2>4, <2>6, <3>2 DEF Ends, Free
    <3> QED BY <2>3, <3>3
  <2> QED BY <2>5, <2>6
<1>14. Good
  <2>1. CASE \E s \in Rooms : Joined(s) \/ Denied(s) \/ Left(s) \/ Retracted(s) \/ Answered(s)
    <3>1. PICK s \in Rooms : Joined(s) \/ Denied(s) \/ Left(s) \/ Retracted(s) \/ Answered(s)
      BY <2>1
    <3> QED BY <1>7, <1>8, <1>9, <1>10, <1>11, <3>1
  <2>2. CASE \E marks \in Marks : Stored(marks)
    BY <1>13, <2>2
  <2> QED BY <1>12, <2>1, <2>2, ServerCases
<1> QED BY <1>1, <1>4, <1>14, GivenMore

LEMMA GivenOthers ==
    ASSUME RoomTypes, BookmarkInv, NEW s \in Rooms, OthersAct(s)
    PROVE  BookmarkInv'
<1>1. /\ c2s' = c2s /\ c2s = <<>> /\ UNCHANGED <<up, channels, bookmarks>> /\ s2c \in Seq(ServerMsg)
      /\ stored \in [Rooms -> Bookmark]
  BY OthersFrame DEF shown, RoomTypes, Marks
<1> SUFFICES ASSUME up, NEW r \in Rooms, stored'[r] # "none" PROVE IsGiven(r)'
  BY <1>1 DEF BookmarkInv
<1>2. stored[r] = "none" \/ IsGiven(r)
  BY <1>1, Single DEF BookmarkInv
<1>3. ASSUME NEW x \in ServerMsg, Tell(<<x>>) \/ TellRoom(s, <<x>>),
             x.kind \notin {"item", "retract", "private"}, UNCHANGED <<stored, closed>>
      PROVE  IsGiven(r)'
  <2>1. <<x>> \in Seq(ServerMsg) /\ <<>> \in Seq(ServerMsg) /\ s2c = s2c \o <<>>
    BY <1>1
  <2>2. Free(<<x>>, Denies(r, stored[r])) /\ Free(<<>>, Denies(r, stored[r]))
    BY <1>3, Single DEF Denies
  <2>3. \E p \in Seq(ServerMsg) : s2c' = s2c \o p /\ Free(p, Denies(r, stored[r]))
    BY <1>3, <2>1, <2>2 DEF Tell, TellRoom
  <2>4. Agreed(r) => Agreed(r)'
    BY <1>1, <1>3 DEF Agreed
  <2> QED BY <1>1, <1>2, <1>3, <2>3, <2>4, GivenMore
<1>4. ASSUME NEW n \in Nicks, Arrives(s, n) PROVE IsGiven(r)'
  <2>1. Here(s, n).kind = "here" /\ Here(s, n) \in ServerMsg
    BY MessageTypes DEF Here, Occupants
  <2> QED BY <1>3, <1>4, <2>1 DEF Arrives, history
<1>5. ASSUME NEW n \in Nicks, Departs(s, n) PROVE IsGiven(r)'
  <2>1. \A k \in BOOLEAN : Away(s, n, k).kind = "away" /\ Away(s, n, k) \in ServerMsg
    BY MessageTypes DEF Away, Occupants
  <2> QED BY <1>3, <1>5, <2>1 DEF Departs
<1>6. ASSUME KickedOut(s) PROVE IsGiven(r)'
  <2>1. Away(s, Me, TRUE).kind = "away" /\ Away(s, Me, TRUE) \in ServerMsg
    BY MessageTypes DEF Away, Occupants
  <2> QED BY <1>3, <1>6, <2>1 DEF KickedOut
<1>7. ASSUME Speaks(s) PROVE IsGiven(r)'
  <2>1. PICK x \in ServerMsg : x = [kind |-> "message", room |-> s, delayed |-> FALSE]
    BY MessageTypes
  <2> QED BY <1>3, <1>7, <2>1 DEF Speaks, server, history
<1>8. ASSUME NEW b \in Bookmark, OtherBookmarks(s, b) PROVE IsGiven(r)'
  <2>1. PICK x : x = IF b = "none" THEN [kind |-> "retract", room |-> s] ELSE Item(s, b)
    OBVIOUS
  <2>2. x \in ServerMsg /\ s2c' = s2c \o <<x>> /\ <<x>> \in Seq(ServerMsg)
    <3>1. x \in ServerMsg
      BY <2>1, MessageTypes
    <3>2. <<x>> \in Seq(ServerMsg)
      BY <3>1
    <3> QED BY <1>8, <2>1, <3>1, <3>2 DEF OtherBookmarks, Tell
  <2>3. stored' = [stored EXCEPT ![s] = b] /\ closed' = closed \ {s}
    BY <1>8 DEF OtherBookmarks, Wanted
  <2>4. CASE r = s
    <3>1. stored'[r] = b /\ b # "none"
      BY <1>1, <2>3, <2>4
    <3>2. x \in Says(r, b)
      BY <2>1, <2>2, <2>4, <3>1 DEF Says, Item
    <3>3. Ends(<<x>>, Says(r, b), Denies(r, b))
      BY <2>2, <3>1, <3>2, OneMark
    <3> QED BY <1>1, <2>2, <3>1, <3>3, GivenMore
  <2>5. CASE r # s
    <3>1. stored'[r] = stored[r] /\ (Agreed(r) => Agreed(r)')
      BY <1>1, <2>3, <2>5 DEF Agreed
    <3>2. Free(<<x>>, Denies(r, stored[r]))
      BY <2>1, <2>5, Single DEF Denies, Item
    <3> QED BY <1>1, <1>2, <2>2, <3>1, <3>2, GivenMore
  <2> QED BY <2>4, <2>5
<1> QED BY <1>4, <1>5, <1>6, <1>7, <1>8 DEF OthersAct

LEMMA GivenLinks ==
    ASSUME RoomTypes, BookmarkInv, Links
    PROVE  BookmarkInv'
<1>1. \A r \in Rooms : Has(Burst, Refreshes(r))
  <2>1. PICK m : m = [kind |-> "private"]
    OBVIOUS
  <2>2. \A r \in Rooms : m \in Refreshes(r)
    BY <2>1 DEF Refreshes, ClientMsg
  <2> QED BY <2>1, <2>2, Single DEF Burst
<1>2. CASE ConnectResumed
  <2>1. Burst \in Seq(ClientMsg) /\ c2s \in Seq(ClientMsg) /\ c2s' = c2s \o Burst
    BY <1>2, RequestTypes DEF RoomTypes, ConnectResumed
  <2>2. \A r \in Rooms : Has(c2s', Refreshes(r))
    BY <1>1, <2>1, Concatenated
  <2> QED BY <2>2 DEF BookmarkInv
<1>3. CASE ConnectNew
  BY <1>1, <1>3 DEF ConnectNew, BookmarkInv
<1>4. CASE Drop \/ Dies
  BY <1>4 DEF Drop, Dies, BookmarkInv
<1> QED BY <1>2, <1>3, <1>4 DEF Links

LEMMA GivenNext == RoomTypes /\ BookmarkInv /\ [Next]_vars => BookmarkInv'
<1>1. BookmarkInv /\ UNCHANGED vars => BookmarkInv'
  BY DEF BookmarkInv, IsGiven, Agreed, vars, shown, server, history
<1> QED
  BY <1>1, NextCases, GivenReceipt, GivenActs, GivenServer, GivenOthers, GivenLinks

-------------------------------------------------------------------------------
\* Who is in a room is shown, and who is not is not.

LEMMA Presences ==
    ASSUME NEW r, NEW n, NEW s, NEW k, NEW kicked \in BOOLEAN
    PROVE  /\ Here(s, k) \notin Aways(r, n) /\ Away(s, k, kicked) # Here(r, n)
           /\ Here(s, k) = Here(r, n) => s = r /\ k = n
           /\ Away(s, k, kicked) \in Aways(r, n) => s = r /\ k = n
           /\ Away(r, n, kicked) \in Aways(r, n)
  BY DEF Here, Away, Aways

LEMMA NoPresence ==
    ASSUME NEW r, NEW n, NEW m
    PROVE  /\ m.kind # "here" => m # Here(r, n)
           /\ m.kind # "away" => m \notin Aways(r, n)
           /\ m \in Aways(r, n) => m.kind = "away" /\ m.room = r /\ m.nick = n
           /\ m \in ServerMsg /\ m.kind = "here" /\ m.room = r /\ m.nick = n => m = Here(r, n)
           /\ m \in ServerMsg /\ m.kind = "away" /\ m.room = r /\ m.nick = n => m \in Aways(r, n)
  BY DEF Here, Away, Aways, ServerMsg

\* What is appended leaves it at that, or tells it anew.
LEMMA SeenMore ==
    ASSUME NEW r, NEW n, s2c \in Seq(ServerMsg), NEW p \in Seq(ServerMsg), s2c' = s2c \o p,
           nicklist' = nicklist
    PROVE  /\ Ends(p, Heres(r, n), Aways(r, n)) \/ (Free(p, Aways(r, n)) /\ IsSeen(r, n))
              => IsSeen(r, n)'
           /\ Ends(p, Aways(r, n), Heres(r, n)) \/ (Free(p, Heres(r, n)) /\ IsUnseen(r, n))
              => IsUnseen(r, n)'
<1>1. PICK S, T : S = Heres(r, n) /\ T = Aways(r, n)
  OBVIOUS
<1>2. /\ Ends(p, S, T) => Ends(s2c', S, T)
      /\ Ends(s2c, S, T) /\ Free(p, T) => Ends(s2c', S, T)
      /\ Free(s2c, T) /\ Free(p, T) => Free(s2c', T)
  BY Concatenated
<1>3. /\ Ends(p, T, S) => Ends(s2c', T, S)
      /\ Ends(s2c, T, S) /\ Free(p, S) => Ends(s2c', T, S)
      /\ Free(s2c, S) /\ Free(p, S) => Free(s2c', S)
  BY Concatenated
<1> QED BY <1>1, <1>2, <1>3 DEF IsSeen, IsUnseen

\* Nothing that is read takes an occupant off the list of a room, but word that he left it.
LEMMA SeenReceipt ==
    ASSUME RoomTypes, LeftInv, SeenInv, Receipt
    PROVE  SeenInv'
<1>1. /\ up /\ c2s = <<>> /\ s2c' = Tail(s2c) /\ s2c # <<>> /\ s2c \in Seq(ServerMsg)
      /\ UNCHANGED <<member, occupants, emptied>> /\ member \subseteq channels
      /\ nicklist \in [Rooms -> SUBSET Occupants] /\ buffers \subseteq channels
      /\ channels \subseteq Rooms
  BY ReceiptFrame, LeftWhenHandled DEF server, history, RoomTypes
<1> SUFFICES ASSUME NEW r \in (member \cap buffers') \ emptied, NEW n \in occupants[r] \cup {Me}
             PROVE  IsSeen(r, n)'
  BY <1>1 DEF SeenInv
<1>2. PICK m \in ServerMsg : m = Head(s2c)
  BY ReceiptFrame
<1>3. r \in Rooms /\ r \in channels
  BY <1>1
<1> DEFINE Good == /\ r \in buffers
                   /\ m = Here(r, n) => n \in nicklist'[r]
                   /\ m \notin Aways(r, n) /\ n \in nicklist[r] => n \in nicklist'[r]
<1>4. ASSUME OnHere PROVE Good
  <2>1. r \in buffers /\ nicklist' = Listed(m.room, m.nick)
    BY <1>2, <1>4 DEF OnHere
  <2>2. \A x \in nicklist[r] : x \in nicklist'[r]
    BY <1>1, <1>3, <2>1 DEF Listed
  <2>3. ASSUME m = Here(r, n) PROVE n \in nicklist'[r]
    <3>1. m.room = r /\ m.nick = n
      BY <2>3 DEF Here
    <3> QED BY <1>1, <1>3, <2>1, <3>1 DEF Listed
  <2> QED BY <2>1, <2>2, <2>3
<1>5. ASSUME OnAway PROVE Good
  <2>1. /\ r \in buffers /\ nicklist' = [nicklist EXCEPT ![m.room] = @ \ {m.nick}] /\ m.kind = "away"
    BY <1>2, <1>5 DEF OnAway, Delisted, Receive
  <2>2. m # Here(r, n) /\ (m \notin Aways(r, n) => ~ (m.room = r /\ m.nick = n))
    BY <2>1, NoPresence
  <2>3. ASSUME m \notin Aways(r, n), n \in nicklist[r] PROVE n \in nicklist'[r]
    BY <1>1, <1>3, <2>1, <2>2, <2>3
  <2> QED BY <2>1, <2>2, <2>3
<1>6. ASSUME OnRefused \/ OnPong PROVE Good
  <2>1. m.kind # "here" /\ nicklist' = nicklist /\ buffers' = buffers
    BY <1>2, <1>6 DEF OnRefused, OnPong, Receive, shown
  <2> QED BY <2>1, NoPresence
<1>7. ASSUME OnMessage PROVE Good
  <2>1. m.kind # "here"
    BY <1>2, <1>7 DEF OnMessage, Receive
  <2>2. \/ buffers' = buffers /\ nicklist' = nicklist
        \/ /\ m.room \notin channels /\ buffers' = buffers \cup {m.room}
           /\ nicklist' = [nicklist EXCEPT ![m.room] = {}]
    BY <1>2, <1>7 DEF OnMessage
  <2>3. r \in buffers /\ nicklist'[r] = nicklist[r]
    BY <1>1, <1>3, <2>2
  <2> QED BY <2>1, <2>3, NoPresence
<1>8. ASSUME OnItemOn PROVE Good
  <2>1. m.kind # "here"
    BY <1>2, <1>8 DEF OnItemOn, Receive
  <2>2. \/ buffers' = buffers /\ nicklist' = nicklist
        \/ /\ m.room \notin channels /\ buffers' = buffers \cup {m.room}
           /\ nicklist' = [nicklist EXCEPT ![m.room] = {}]
    BY <1>2, <1>8 DEF OnItemOn, Opens, shown
  <2>3. r \in buffers /\ nicklist'[r] = nicklist[r]
    BY <1>1, <1>3, <2>2
  <2> QED BY <2>1, <2>3, NoPresence
<1>9. ASSUME OnItemOff \/ OnRetract PROVE Good
  <2>1. m.kind # "here"
    BY <1>2, <1>9 DEF OnItemOff, OnRetract, Receive
  <2>2. \/ buffers' = buffers /\ nicklist' = nicklist
        \/ buffers' = buffers \ {m.room} /\ nicklist' = [nicklist EXCEPT ![m.room] = {}]
    BY <1>2, <1>9 DEF OnItemOff, OnRetract, Closes, shown
  <2>3. r \in buffers /\ nicklist'[r] = nicklist[r]
    BY <1>1, <1>3, <2>2
  <2> QED BY <2>1, <2>3, NoPresence
<1>10. ASSUME OnPrivate PROVE Good
  <2>1. PICK new : new = Autojoined(Head(s2c).marks) \ channels
    OBVIOUS
  <2>2. /\ m.kind # "here" /\ buffers' = buffers \cup new
        /\ nicklist' = [x \in Rooms |-> IF x \in new THEN {} ELSE nicklist[x]]
    BY <1>2, <1>10, <2>1 DEF OnPrivate, Receive
  <2>3. r \in buffers /\ nicklist'[r] = nicklist[r]
    BY <1>1, <1>3, <2>1, <2>2
  <2> QED BY <2>2, <2>3, NoPresence
<1>11. ASSUME OnDangling PROVE Good
  <2>1. nicklist' = nicklist /\ buffers' = buffers /\ m.room \in channels \ buffers
    BY <1>2, <1>11 DEF OnDangling, Dangling
  <2>2. m # Here(r, n)
    BY <2>1 DEF Here
  <2> QED BY <2>1, <2>2
<1>12. Good
  BY <1>4, <1>5, <1>6, <1>7, <1>8, <1>9, <1>10, <1>11 DEF Receipt
<1>13. IsSeen(r, n)
  <2>1. ~ Has(c2s, Exits(r))
    BY <1>1, OneRequest
  <2> QED BY <1>1, <1>12, <2>1 DEF SeenInv
<1>14. /\ Free(s2c, Aways(r, n)) => m \notin Aways(r, n) /\ Free(s2c', Aways(r, n))
       /\ Ends(s2c, Heres(r, n), Aways(r, n)) =>
             Ends(s2c', Heres(r, n), Aways(r, n)) \/ (m = Here(r, n) /\ Free(s2c', Aways(r, n)))
  <2>1. /\ Free(s2c, Aways(r, n)) => Head(s2c) \notin Aways(r, n) /\ Free(Tail(s2c), Aways(r, n))
        /\ Ends(s2c, Heres(r, n), Aways(r, n)) =>
              \/ Ends(Tail(s2c), Heres(r, n), Aways(r, n))
              \/ Head(s2c) \in Heres(r, n) /\ Free(Tail(s2c), Aways(r, n))
    BY <1>1, Consumed
  <2> QED BY <1>1, <1>2, <2>1 DEF Heres
<1> QED BY <1>12, <1>13, <1>14 DEF IsSeen

LEMMA SeenActs ==
    ASSUME RoomTypes, LeftInv, SeenInv, NEW s \in Rooms, Acts(s)
    PROVE  SeenInv'
<1>1. /\ c2s = <<>> /\ UNCHANGED <<up, s2c, member, occupants, emptied>> /\ member \subseteq channels
      /\ nicklist \in [Rooms -> SUBSET Occupants] /\ channels \subseteq Rooms
  BY ActsFrame, LeftWhenHandled DEF server, RoomTypes
<1> SUFFICES ASSUME up, NEW r \in (member \cap buffers') \ emptied, NEW n \in occupants[r] \cup {Me}
             PROVE  IsSeen(r, n)'
  BY <1>1 DEF SeenInv
<1>2. r \in Rooms /\ r \in channels
  BY <1>1
<1> DEFINE Good == r \in buffers /\ nicklist'[r] = nicklist[r]
<1>3. ASSUME Enters(s) PROVE Good
  BY <1>1, <1>2, <1>3 DEF Enters, Opens, shown
<1>4. ASSUME Shuts(s) PROVE Good
  BY <1>1, <1>2, <1>4 DEF Shuts, Closes
<1>5. ASSUME Marked(s) \/ Idles(s) PROVE Good
  BY <1>5 DEF Marked, Idles, shown
<1>6. Good
  BY <1>3, <1>4, <1>5, ActsCases DEF Hides
<1>7. IsSeen(r, n)
  <2>1. ~ Has(c2s, Exits(r))
    BY <1>1, OneRequest
  <2> QED BY <1>6, <2>1 DEF SeenInv
<1> QED BY <1>1, <1>6, <1>7 DEF IsSeen

\* A message that is no presence of n in r leaves both as they were.
LEMMA OtherServer ==
    ASSUME RoomTypes, ServerHandle, ~ \E s \in Rooms : Joined(s), NEW r, NEW n, n = Me => r \in member'
    PROVE  /\ member' \subseteq member /\ emptied' = emptied
           /\ Head(c2s) = Leave(r) => r \notin member'
           /\ \E p \in Seq(ServerMsg) : s2c' = s2c \o p /\ Free(p, Aways(r, n)) /\ Free(p, Heres(r, n))
<1>1. s2c \in Seq(ServerMsg) /\ stored \in Marks
  BY DEF RoomTypes
<1>2. PICK m : m = Head(c2s)
  OBVIOUS
<1> DEFINE Good == /\ member' \subseteq member /\ emptied' = emptied
                   /\ m = Leave(r) => r \notin member'
                   /\ \E p \in Seq(ServerMsg) :
                         s2c' = s2c \o p /\ Free(p, Aways(r, n)) /\ Free(p, Heres(r, n))
<1>3. ASSUME NEW x \in ServerMsg, s2c' = s2c \o <<x>>, x \notin Aways(r, n), x # Here(r, n)
      PROVE  \E p \in Seq(ServerMsg) : s2c' = s2c \o p /\ Free(p, Aways(r, n)) /\ Free(p, Heres(r, n))
  <2>1. <<x>> \in Seq(ServerMsg)
    OBVIOUS
  <2> QED BY <1>3, <2>1, OneMessage
<1>4. /\ Leave(r).kind = "leave" /\ Leave(r).room = r
      /\ \A s : Join(s).kind = "join" /\ Leave(s).room = s
  BY DEF Leave, Join
<1>5. ASSUME NEW s \in Rooms, Denied(s) \/ Retracted(s) PROVE Good
  <2>1. PICK x \in ServerMsg : x.kind \in {"refused", "retract"} /\ s2c' = s2c \o <<x>>
    BY <1>5, MessageTypes DEF Denied, Retracted
  <2>2. x \notin Aways(r, n) /\ x # Here(r, n)
    BY <2>1, NoPresence
  <2>3. m # Leave(r) /\ member' = member /\ emptied' = emptied
    BY <1>2, <1>4, <1>5 DEF Denied, Retracted
  <2> QED BY <1>3, <2>1, <2>2, <2>3
<1>6. ASSUME NEW s \in Rooms, Left(s) PROVE Good
  <2>1. member' = member \ {s} /\ emptied' = emptied /\ m = Leave(s)
    BY <1>2, <1>6 DEF Left
  <2>2. m = Leave(r) => r \notin member'
    BY <1>4, <2>1
  <2>3. CASE s \in member
    <3>1. PICK x \in ServerMsg : x = Away(s, Me, FALSE)
      BY MessageTypes DEF Occupants
    <3>2. s2c' = s2c \o <<x>>
      BY <1>6, <2>3, <3>1 DEF Left
    <3>3. x # Here(r, n) /\ (x \in Aways(r, n) => s = r /\ n = Me)
      BY <3>1, Presences
    <3>4. x \notin Aways(r, n)
      BY <2>1, <3>3
    <3> QED BY <1>3, <2>1, <2>2, <3>2, <3>3, <3>4
  <2>4. CASE s \notin member
    <3>1. <<>> \in Seq(ServerMsg) /\ s2c' = s2c \o <<>>
      BY <1>1, <1>6, <2>4 DEF Left
    <3>2. Free(<<>>, Aways(r, n)) /\ Free(<<>>, Heres(r, n))
      BY OneMessage
    <3> QED BY <2>1, <2>2, <3>1, <3>2
  <2> QED BY <2>3, <2>4
<1>7. ASSUME NEW s \in Rooms, Answered(s) PROVE Good
  <2>1. PICK x : x = [kind |-> "pong", room |-> s, inside |-> s \in member]
    OBVIOUS
  <2>2. x \in ServerMsg /\ x.kind = "pong"
    <3>1. (s \in member) \in BOOLEAN
      OBVIOUS
    <3> QED BY <2>1, <3>1, MessageTypes
  <2>3. x \notin Aways(r, n) /\ x # Here(r, n)
    BY <2>2, NoPresence
  <2>4. m # Leave(r) /\ member' = member /\ emptied' = emptied /\ s2c' = s2c \o <<x>>
    BY <1>2, <1>4, <1>7, <2>1 DEF Answered
  <2> QED BY <1>3, <2>2, <2>3, <2>4
<1>8. ASSUME Reported PROVE Good
  <2>1. PICK x : x = [kind |-> "private", marks |-> stored]
    OBVIOUS
  <2>2. x \in ServerMsg /\ x.kind = "private"
    BY <1>1, <2>1 DEF ServerMsg
  <2>3. x \notin Aways(r, n) /\ x # Here(r, n)
    BY <2>2, NoPresence
  <2>4. m # Leave(r) /\ member' = member /\ emptied' = emptied /\ s2c' = s2c \o <<x>>
    BY <1>2, <1>4, <1>8, <2>1 DEF Reported
  <2> QED BY <1>3, <2>2, <2>3, <2>4
<1>9. ASSUME NEW marks \in Marks, Stored(marks) PROVE Good
  <2>1. PICK p : p = Pushed(marks)
    OBVIOUS
  <2>2. /\ p \in Seq(ServerMsg) /\ s2c' = s2c \o p
        /\ \A i \in DOMAIN p : \E x \in Rooms : p[i] = Item(x, marks[x])
    BY <1>9, <2>1, PushedAll DEF Stored
  <2>3. \A x, b : Item(x, b) \notin Aways(r, n) /\ Item(x, b) # Here(r, n)
    BY DEF Item, Aways, Away, Here
  <2>4. Free(p, Aways(r, n)) /\ Free(p, Heres(r, n))
    BY <2>2, <2>3 DEF Free, Heres
  <2>5. m # Leave(r) /\ member' = member /\ emptied' = emptied
    BY <1>2, <1>4, <1>9 DEF Stored
  <2> QED BY <2>2, <2>4, <2>5
<1>10. Good
  <2>1. CASE \E s \in Rooms : Denied(s) \/ Left(s) \/ Retracted(s) \/ Answered(s)
    <3>1. PICK s \in Rooms : Denied(s) \/ Left(s) \/ Retracted(s) \/ Answered(s)
      BY <2>1
    <3> QED BY <1>5, <1>6, <1>7, <3>1
  <2>2. CASE \E marks \in Marks : Stored(marks)
    BY <1>9, <2>2
  <2> QED BY <1>8, <2>1, <2>2, ServerCases
<1> QED BY <1>2, <1>10

\* Who enters is told of everyone who is there, and of no one's leaving.
LEMMA GreetsAll ==
    ASSUME NEW p, NEW s, NEW S, Greets(p, s, S), NEW r, NEW n
    PROVE  /\ Free(p, Aways(r, n))
           /\ r = s /\ n \in S \cup {Me} => Ends(p, Heres(r, n), Aways(r, n))
           /\ r # s \/ n \notin S \cup {Me} => Free(p, Heres(r, n))
<1>1. \A k : /\ Here(s, k) \notin Aways(r, n)
             /\ Here(s, k) = Here(r, n) => s = r /\ k = n
  BY Presences
<1>2. \A m : m.kind = "message" => m \notin Aways(r, n) /\ m # Here(r, n)
  BY NoPresence
<1>3. \A i \in DOMAIN p : p[i].kind = "message" \/ \E k \in S \cup {Me} : p[i] = Here(s, k)
  BY DEF Greets
<1>4. Free(p, Aways(r, n))
  BY <1>1, <1>2, <1>3 DEF Free
<1>5. r = s /\ n \in S \cup {Me} => Ends(p, Heres(r, n), Aways(r, n))
  <2>1. r = s /\ n \in S \cup {Me} => Has(p, Heres(r, n))
    BY DEF Greets
  <2> QED BY <1>4, <2>1 DEF Has, Free, Ends
<1>6. r # s \/ n \notin S \cup {Me} => Free(p, Heres(r, n))
  BY <1>1, <1>2, <1>3 DEF Free, Heres
<1> QED BY <1>4, <1>5, <1>6

LEMMA SeenServer ==
    ASSUME RoomTypes, SeenInv, ServerHandle
    PROVE  SeenInv'
<1>1. /\ c2s \in Seq(ClientMsg) /\ c2s # <<>> /\ c2s' = Tail(c2s) /\ s2c \in Seq(ServerMsg)
      /\ UNCHANGED <<nicklist, buffers, occupants>> /\ up
  BY ServerFrame DEF RoomTypes, shown
<1> SUFFICES ASSUME NEW r \in (member' \cap buffers) \ emptied', ~ Has(c2s', Exits(r)),
                    NEW n \in occupants[r] \cup {Me}
             PROVE  IsSeen(r, n)'
  BY <1>1 DEF SeenInv
<1>2. Has(c2s, Exits(r)) => Head(c2s) = Leave(r)
  <2>1. Has(c2s, Exits(r)) => Head(c2s) \in Exits(r) \/ Has(Tail(c2s), Exits(r))
    BY <1>1, Consumed
  <2> QED BY <1>1, <2>1 DEF Exits
<1>3. CASE \E s \in Rooms : Joined(s)
  <2>1. PICK s \in Rooms : Joined(s)
    BY <1>3
  <2>2. PICK p \in Seq(ServerMsg) : s2c' = s2c \o p /\ Greets(p, s, occupants[s])
    BY <2>1, JoinedSays
  <2>3. CASE r = s
    <3>1. Ends(p, Heres(r, n), Aways(r, n))
      BY <2>2, <2>3, GreetsAll
    <3> QED BY <1>1, <2>2, <3>1, SeenMore
  <2>4. CASE r # s
    <3>1. r \in (member \cap buffers) \ emptied
      BY <2>1, <2>4 DEF Joined
    <3>2. Head(c2s) # Leave(r)
      BY <2>1 DEF Joined, Join, Leave
    <3>3. IsSeen(r, n)
      BY <1>1, <1>2, <3>1, <3>2 DEF SeenInv
    <3>4. Free(p, Aways(r, n))
      BY <2>2, GreetsAll
    <3> QED BY <1>1, <2>2, <3>3, <3>4, SeenMore
  <2> QED BY <2>3, <2>4
<1>4. CASE ~ \E s \in Rooms : Joined(s)
  <2>1. /\ member' \subseteq member /\ emptied' = emptied
        /\ Head(c2s) = Leave(r) => r \notin member'
        /\ \E p \in Seq(ServerMsg) : s2c' = s2c \o p /\ Free(p, Aways(r, n)) /\ Free(p, Heres(r, n))
    BY <1>4, OtherServer
  <2>2. IsSeen(r, n)
    BY <1>1, <1>2, <2>1 DEF SeenInv
  <2> QED BY <1>1, <2>1, <2>2, SeenMore
<1> QED BY <1>3, <1>4

\* What happens in the rooms, as the server tells it.
Came(s, n) ==
    /\ n \in Nicks /\ occupants' = [occupants EXCEPT ![s] = @ \cup {n}]
    /\ UNCHANGED <<member, missed>> /\ TellRoom(s, <<Here(s, n)>>)
Went(s, n) ==
    /\ n \in Nicks /\ occupants' = [occupants EXCEPT ![s] = @ \ {n}] /\ member' = member
    /\ \E kicked \in BOOLEAN : TellRoom(s, <<Away(s, n, kicked)>>)
    /\ missed' = IF s \in member THEN missed ELSE [missed EXCEPT ![s] = @ \cup {n}]
Happens(s) ==
    /\ UNCHANGED <<occupants, missed>>
    /\ \E x \in ServerMsg : /\ Tell(<<x>>)
                            /\ \/ x = Away(s, Me, TRUE) /\ member' = member \ {s}
                               \/ x.kind \notin {"here", "away"} /\ member' = member

LEMMA OthersCases ==
    ASSUME RoomTypes, NEW s \in Rooms, OthersAct(s)
    PROVE  (\E n \in Nicks : Came(s, n) \/ Went(s, n)) \/ Happens(s)
<1>1. CASE \E n \in Nicks : Arrives(s, n)
  BY <1>1 DEF Arrives, Came, history
<1>2. CASE \E n \in Nicks : Departs(s, n)
  BY <1>2 DEF Departs, Went
<1>3. CASE KickedOut(s)
  <2>1. Away(s, Me, TRUE) \in ServerMsg
    BY MessageTypes DEF Occupants
  <2> QED BY <1>3, <2>1 DEF KickedOut, Happens
<1>4. CASE Speaks(s)
  <2>1. PICK x \in ServerMsg : x = [kind |-> "message", room |-> s, delayed |-> FALSE]
    BY MessageTypes
  <2> QED BY <1>4, <2>1 DEF Speaks, Happens, server, history
<1>5. ASSUME NEW b \in Bookmark, OtherBookmarks(s, b) PROVE Happens(s)
  <2>1. PICK x : x = IF b = "none" THEN [kind |-> "retract", room |-> s] ELSE Item(s, b)
    OBVIOUS
  <2>2. x \in ServerMsg /\ x.kind \notin {"here", "away"}
    BY <2>1, MessageTypes DEF Item
  <2>3. Tell(<<x>>)
    BY <1>5, <2>1 DEF OtherBookmarks, Tell
  <2> QED BY <1>5, <2>2, <2>3 DEF OtherBookmarks, Happens
<1> QED BY <1>1, <1>2, <1>3, <1>4, <1>5 DEF OthersAct

LEMMA SeenOthers ==
    ASSUME RoomTypes, SeenInv, NEW s \in Rooms, OthersAct(s)
    PROVE  SeenInv'
<1>1. /\ UNCHANGED <<up, nicklist, buffers, emptied, c2s>> /\ s2c \in Seq(ServerMsg)
      /\ occupants \in [Rooms -> SUBSET Nicks] /\ member \subseteq Rooms
      /\ <<>> \in Seq(ServerMsg) /\ s2c \o <<>> = s2c
  BY OthersFrame DEF RoomTypes, shown
<1> SUFFICES ASSUME up, NEW r \in (member' \cap buffers) \ emptied, ~ Has(c2s, Exits(r)),
                    NEW n \in occupants'[r] \cup {Me}
             PROVE  IsSeen(r, n)'
  BY <1>1 DEF SeenInv
<1>2. r \in member /\ n \in occupants[r] \cup {Me} => IsSeen(r, n)
  BY DEF SeenInv
<1>3. ASSUME NEW x \in ServerMsg, s2c' = s2c \o <<x>> \/ s2c' = s2c, x \notin Aways(r, n), IsSeen(r, n)
      PROVE  IsSeen(r, n)'
  <2>1. <<x>> \in Seq(ServerMsg)
    OBVIOUS
  <2>2. \E p \in Seq(ServerMsg) : s2c' = s2c \o p /\ Free(p, Aways(r, n))
    BY <1>1, <1>3, <2>1, OneMessage
  <2> QED BY <1>1, <1>3, <2>2, SeenMore
<1>4. ASSUME NEW k \in Nicks, Came(s, k) PROVE IsSeen(r, n)'
  <2>1. /\ occupants' = [occupants EXCEPT ![s] = @ \cup {k}] /\ member' = member
        /\ TellRoom(s, <<Here(s, k)>>)
    BY <1>4 DEF Came
  <2>2. PICK x \in ServerMsg : x = Here(s, k)
    BY MessageTypes DEF Occupants
  <2>3. s2c' = s2c \o <<x>> \/ s2c' = s2c
    BY <2>1, <2>2 DEF TellRoom
  <2>4. CASE r = s /\ n = k
    <3>1. s2c' = s2c \o <<x>> /\ <<x>> \in Seq(ServerMsg)
      BY <2>1, <2>2, <2>4 DEF TellRoom
    <3>2. Ends(<<x>>, Heres(r, n), Aways(r, n))
      BY <2>2, <2>4, OneMessage
    <3> QED BY <1>1, <3>1, <3>2, SeenMore
  <2>5. CASE ~ (r = s /\ n = k)
    <3>1. n \in occupants[r] \cup {Me}
      BY <1>1, <2>1, <2>5
    <3>2. x \notin Aways(r, n)
      BY <2>2, Presences
    <3> QED BY <1>2, <1>3, <2>1, <2>3, <3>1, <3>2
  <2> QED BY <2>4, <2>5
<1>5. ASSUME NEW k \in Nicks, Went(s, k) PROVE IsSeen(r, n)'
  <2>1. /\ occupants' = [occupants EXCEPT ![s] = @ \ {k}] /\ member' = member
        /\ \E kicked \in BOOLEAN : TellRoom(s, <<Away(s, k, kicked)>>)
    BY <1>5 DEF Went
  <2>2. PICK kicked \in BOOLEAN : TellRoom(s, <<Away(s, k, kicked)>>)
    BY <2>1
  <2>3. PICK x \in ServerMsg : x = Away(s, k, kicked)
    BY MessageTypes DEF Occupants
  <2>4. s2c' = s2c \o <<x>> \/ s2c' = s2c
    BY <2>2, <2>3 DEF TellRoom
  <2>5. n \in occupants[r] \cup {Me} /\ ~ (r = s /\ n = k)
    BY <1>1, <2>1, MeAssumption
  <2>6. x \notin Aways(r, n)
    BY <2>3, <2>5, Presences
  <2> QED BY <1>2, <1>3, <2>1, <2>4, <2>5, <2>6
<1>6. ASSUME Happens(s) PROVE IsSeen(r, n)'
  <2>1. PICK x \in ServerMsg : /\ Tell(<<x>>)
                               /\ \/ x = Away(s, Me, TRUE) /\ member' = member \ {s}
                                  \/ x.kind \notin {"here", "away"} /\ member' = member
    BY <1>6 DEF Happens
  <2>2. x \notin Aways(r, n)
    <3>1. CASE x = Away(s, Me, TRUE) /\ member' = member \ {s}
      BY <3>1, Presences
    <3>2. CASE x.kind \notin {"here", "away"}
      BY <3>2, NoPresence
    <3> QED BY <2>1, <3>1, <3>2
  <2>3. r \in member /\ n \in occupants[r] \cup {Me} /\ s2c' = s2c \o <<x>>
    BY <1>6, <2>1 DEF Happens, Tell
  <2> QED BY <1>2, <1>3, <2>2, <2>3
<1> QED BY <1>4, <1>5, <1>6, OthersCases

LEMMA SeenNext == RoomTypes /\ LeftInv /\ SeenInv /\ [Next]_vars => SeenInv'
<1>1. SeenInv /\ UNCHANGED vars => SeenInv'
  BY DEF SeenInv, IsSeen, vars, shown, server, history
<1>2. Links => SeenInv'
  BY DEF Links, ConnectResumed, ConnectNew, Drop, Dies, SeenInv, server
<1> QED
  BY <1>1, <1>2, NextCases, SeenReceipt, SeenActs, SeenServer, SeenOthers

LEMMA UnseenReceipt ==
    ASSUME RoomTypes, UnseenInv, Receipt
    PROVE  UnseenInv'
<1>1. /\ s2c' = Tail(s2c) /\ s2c # <<>> /\ s2c \in Seq(ServerMsg)
      /\ UNCHANGED <<occupants, missed>>
      /\ nicklist \in [Rooms -> SUBSET Occupants] /\ buffers \subseteq channels
  BY ReceiptFrame DEF server, history, RoomTypes
<1> SUFFICES ASSUME NEW r \in Rooms, r \notin channels' \ buffers', NEW n \in Nicks \ occupants[r],
                    n \notin missed[r]
             PROVE  IsUnseen(r, n)'
  BY <1>1 DEF UnseenInv, Dangling
<1>2. PICK m \in ServerMsg : m = Head(s2c)
  BY ReceiptFrame
<1> DEFINE Good == /\ r \notin channels \ buffers
                   /\ m \in Aways(r, n) => n \notin nicklist'[r]
                   /\ m # Here(r, n) /\ n \notin nicklist[r] => n \notin nicklist'[r]
<1>3. ASSUME OnHere PROVE Good
  <2>1. /\ m.kind = "here" /\ channels' = channels /\ buffers' = buffers
        /\ nicklist' = Listed(m.room, m.nick)
    BY <1>2, <1>3 DEF OnHere, Receive
  <2>2. m \notin Aways(r, n) /\ (m.room = r /\ m.nick = n => m = Here(r, n))
    BY <2>1, NoPresence
  <2>3. ASSUME m # Here(r, n), n \notin nicklist[r] PROVE n \notin nicklist'[r]
    BY <1>1, <2>1, <2>2, <2>3 DEF Listed
  <2> QED BY <2>1, <2>2, <2>3
<1>4. ASSUME OnAway PROVE Good
  <2>1. /\ channels' = channels /\ buffers' = buffers
        /\ nicklist' = [nicklist EXCEPT ![m.room] = @ \ {m.nick}]
    BY <1>2, <1>4 DEF OnAway, Delisted
  <2>2. m \in Aways(r, n) => m.room = r /\ m.nick = n
    BY NoPresence
  <2>3. n \notin nicklist[r] => n \notin nicklist'[r]
    BY <1>1, <2>1
  <2>4. m.room = r /\ m.nick = n => n \notin nicklist'[r]
    BY <1>1, <2>1
  <2> QED BY <2>1, <2>2, <2>3, <2>4
<1>5. ASSUME OnRefused \/ OnPong PROVE Good
  <2>1. m.kind # "away" /\ nicklist' = nicklist /\ buffers' = buffers /\ channels' = channels
    BY <1>2, <1>5 DEF OnRefused, OnPong, Receive, shown
  <2> QED BY <2>1, NoPresence
<1>6. ASSUME OnMessage \/ OnItemOn PROVE Good
  <2>1. m.kind # "away"
    BY <1>2, <1>6 DEF OnMessage, OnItemOn, Receive
  <2>2. \/ buffers' = buffers /\ nicklist' = nicklist /\ channels' = channels
        \/ /\ m.room \notin channels /\ buffers' = buffers \cup {m.room}
           /\ channels' = channels \cup {m.room}
           /\ nicklist' = [nicklist EXCEPT ![m.room] = {}]
    BY <1>2, <1>6 DEF OnMessage, OnItemOn, Opens, shown
  <2>3. r \notin channels \ buffers /\ (n \notin nicklist[r] => n \notin nicklist'[r])
    BY <1>1, <2>2
  <2> QED BY <2>1, <2>3, NoPresence
<1>7. ASSUME OnItemOff \/ OnRetract PROVE Good
  <2>1. m.kind # "away"
    BY <1>2, <1>7 DEF OnItemOff, OnRetract, Receive
  <2>2. \/ buffers' = buffers /\ nicklist' = nicklist /\ channels' = channels
        \/ /\ m.room \notin channels \ buffers
           /\ buffers' = buffers \ {m.room} /\ channels' = channels \ {m.room}
           /\ nicklist' = [nicklist EXCEPT ![m.room] = {}]
    BY <1>2, <1>7 DEF OnItemOff, OnRetract, Closes, shown, Dangling
  <2>3. r \notin channels \ buffers /\ (n \notin nicklist[r] => n \notin nicklist'[r])
    BY <1>1, <2>2
  <2> QED BY <2>1, <2>3, NoPresence
<1>8. ASSUME OnPrivate PROVE Good
  <2>1. PICK new : new = Autojoined(Head(s2c).marks) \ channels
    OBVIOUS
  <2>2. /\ m.kind # "away" /\ buffers' = buffers \cup new /\ channels' = channels \cup new
        /\ nicklist' = [x \in Rooms |-> IF x \in new THEN {} ELSE nicklist[x]]
    BY <1>2, <1>8, <2>1 DEF OnPrivate, Receive
  <2>3. r \notin channels \ buffers /\ (n \notin nicklist[r] => n \notin nicklist'[r])
    BY <1>1, <2>1, <2>2
  <2> QED BY <2>2, <2>3, NoPresence
<1>9. ASSUME OnDangling PROVE Good
  <2>1. /\ nicklist' = nicklist /\ buffers' = buffers /\ channels' = channels
        /\ m.room \in channels \ buffers
    BY <1>2, <1>9 DEF OnDangling, Dangling
  <2>2. m \notin Aways(r, n)
    BY <2>1, NoPresence
  <2> QED BY <2>1, <2>2
<1>10. Good
  BY <1>3, <1>4, <1>5, <1>6, <1>7, <1>8, <1>9 DEF Receipt
<1>11. IsUnseen(r, n)
  BY <1>10 DEF UnseenInv, Dangling
<1>12. /\ Free(s2c, Heres(r, n)) => m # Here(r, n) /\ Free(s2c', Heres(r, n))
       /\ Ends(s2c, Aways(r, n), Heres(r, n)) =>
             Ends(s2c', Aways(r, n), Heres(r, n)) \/ (m \in Aways(r, n) /\ Free(s2c', Heres(r, n)))
  <2>1. /\ Free(s2c, Heres(r, n)) => Head(s2c) \notin Heres(r, n) /\ Free(Tail(s2c), Heres(r, n))
        /\ Ends(s2c, Aways(r, n), Heres(r, n)) =>
              \/ Ends(Tail(s2c), Aways(r, n), Heres(r, n))
              \/ Head(s2c) \in Aways(r, n) /\ Free(Tail(s2c), Heres(r, n))
    BY <1>1, Consumed
  <2> QED BY <1>1, <1>2, <2>1 DEF Heres
<1> QED BY <1>10, <1>11, <1>12 DEF IsUnseen

LEMMA UnseenActs ==
    ASSUME RoomTypes, UnseenInv, NEW s \in Rooms, Acts(s)
    PROVE  UnseenInv'
<1>1. /\ UNCHANGED <<s2c, occupants, missed>> /\ buffers \subseteq channels
      /\ nicklist \in [Rooms -> SUBSET Occupants]
  BY ActsFrame DEF server, RoomTypes
<1> SUFFICES ASSUME NEW r \in Rooms, r \notin channels' \ buffers', NEW n \in Nicks \ occupants[r],
                    n \notin missed[r]
             PROVE  IsUnseen(r, n)'
  BY <1>1 DEF UnseenInv, Dangling
<1> DEFINE Good == r \notin channels \ buffers /\ (n \notin nicklist[r] => n \notin nicklist'[r])
<1>2. ASSUME Enters(s) PROVE Good
  BY <1>1, <1>2 DEF Enters, Opens, shown
<1>3. ASSUME Shuts(s) PROVE Good
  BY <1>1, <1>3 DEF Shuts, Closes
<1>4. ASSUME Hides(s) PROVE Good
  BY <1>1, <1>4 DEF Hides
<1>5. ASSUME Marked(s) \/ Idles(s) PROVE Good
  BY <1>5 DEF Marked, Idles, shown
<1>6. Good
  BY <1>2, <1>3, <1>4, <1>5, ActsCases
<1>7. IsUnseen(r, n)
  BY <1>6 DEF UnseenInv, Dangling
<1> QED BY <1>1, <1>6, <1>7 DEF IsUnseen

LEMMA UnseenServer ==
    ASSUME RoomTypes, UnseenInv, ServerHandle
    PROVE  UnseenInv'
<1>1. /\ s2c \in Seq(ServerMsg) /\ UNCHANGED <<nicklist, channels, buffers, occupants, missed>>
  BY ServerFrame DEF RoomTypes, shown
<1> SUFFICES ASSUME NEW r \in Rooms \ Dangling, NEW n \in Nicks \ occupants[r], n \notin missed[r]
             PROVE  IsUnseen(r, n)'
  BY <1>1 DEF UnseenInv, Dangling
<1>2. IsUnseen(r, n) /\ n # Me
  BY MeAssumption DEF UnseenInv
<1>3. CASE \E s \in Rooms : Joined(s)
  <2>1. PICK s \in Rooms : Joined(s)
    BY <1>3
  <2>2. PICK p \in Seq(ServerMsg) : s2c' = s2c \o p /\ Greets(p, s, occupants[s])
    BY <2>1, JoinedSays
  <2>3. Free(p, Heres(r, n))
    BY <1>2, <2>2, GreetsAll
  <2> QED BY <1>1, <1>2, <2>2, <2>3, SeenMore
<1>4. CASE ~ \E s \in Rooms : Joined(s)
  <2>1. \E p \in Seq(ServerMsg) : s2c' = s2c \o p /\ Free(p, Aways(r, n)) /\ Free(p, Heres(r, n))
    BY <1>2, <1>4, OtherServer
  <2> QED BY <1>1, <1>2, <2>1, SeenMore
<1> QED BY <1>3, <1>4

LEMMA UnseenOthers ==
    ASSUME RoomTypes, UnseenInv, NEW s \in Rooms, OthersAct(s)
    PROVE  UnseenInv'
<1>1. /\ UNCHANGED <<nicklist, channels, buffers>> /\ s2c \in Seq(ServerMsg)
      /\ occupants \in [Rooms -> SUBSET Nicks] /\ missed \in [Rooms -> SUBSET Nicks]
      /\ <<>> \in Seq(ServerMsg) /\ s2c \o <<>> = s2c
  BY OthersFrame DEF RoomTypes, shown
<1> SUFFICES ASSUME NEW r \in Rooms \ Dangling, NEW n \in Nicks \ occupants'[r], n \notin missed'[r]
             PROVE  IsUnseen(r, n)'
  BY <1>1 DEF UnseenInv, Dangling
<1>2. n \notin occupants[r] /\ n \notin missed[r] => IsUnseen(r, n)
  BY DEF UnseenInv
<1>3. ASSUME NEW x \in ServerMsg, s2c' = s2c \o <<x>> \/ s2c' = s2c, x # Here(r, n), IsUnseen(r, n)
      PROVE  IsUnseen(r, n)'
  <2>1. <<x>> \in Seq(ServerMsg)
    OBVIOUS
  <2>2. \E p \in Seq(ServerMsg) : s2c' = s2c \o p /\ Free(p, Heres(r, n))
    BY <1>1, <1>3, <2>1, OneMessage
  <2> QED BY <1>1, <1>3, <2>2, SeenMore
<1>4. ASSUME NEW k \in Nicks, Came(s, k) PROVE IsUnseen(r, n)'
  <2>1. /\ occupants' = [occupants EXCEPT ![s] = @ \cup {k}] /\ missed' = missed
        /\ TellRoom(s, <<Here(s, k)>>)
    BY <1>4 DEF Came
  <2>2. PICK x \in ServerMsg : x = Here(s, k)
    BY MessageTypes DEF Occupants
  <2>3. s2c' = s2c \o <<x>> \/ s2c' = s2c
    BY <2>1, <2>2 DEF TellRoom
  <2>4. n \notin occupants[r] /\ n \notin missed[r] /\ ~ (r = s /\ n = k)
    BY <1>1, <2>1
  <2>5. x # Here(r, n)
    BY <2>2, <2>4, Presences
  <2> QED BY <1>2, <1>3, <2>3, <2>4, <2>5
<1>5. ASSUME NEW k \in Nicks, Went(s, k) PROVE IsUnseen(r, n)'
  <2>1. /\ occupants' = [occupants EXCEPT ![s] = @ \ {k}]
        /\ missed' = IF s \in member THEN missed ELSE [missed EXCEPT ![s] = @ \cup {k}]
        /\ \E kicked \in BOOLEAN : TellRoom(s, <<Away(s, k, kicked)>>)
    BY <1>5 DEF Went
  <2>2. PICK kicked \in BOOLEAN : TellRoom(s, <<Away(s, k, kicked)>>)
    BY <2>1
  <2>3. PICK x \in ServerMsg : x = Away(s, k, kicked)
    BY MessageTypes DEF Occupants
  <2>4. s2c' = s2c \o <<x>> \/ s2c' = s2c
    BY <2>2, <2>3 DEF TellRoom
  <2>5. CASE r = s /\ n = k
    <3>1. s \in member
      BY <1>1, <2>1, <2>5
    <3>2. s2c' = s2c \o <<x>> /\ <<x>> \in Seq(ServerMsg)
      BY <2>2, <2>3, <3>1 DEF TellRoom
    <3>3. x \in Aways(r, n)
      BY <2>3, <2>5, Presences
    <3>4. Ends(<<x>>, Aways(r, n), Heres(r, n))
      BY <3>3, OneMessage
    <3> QED BY <1>1, <3>2, <3>4, SeenMore
  <2>6. CASE ~ (r = s /\ n = k)
    <3>1. n \notin occupants[r] /\ n \notin missed[r]
      BY <1>1, <2>1, <2>6
    <3>2. x # Here(r, n)
      BY <2>3, Presences
    <3> QED BY <1>2, <1>3, <2>4, <3>1, <3>2
  <2> QED BY <2>5, <2>6
<1>6. ASSUME Happens(s) PROVE IsUnseen(r, n)'
  <2>1. PICK x \in ServerMsg : Tell(<<x>>) /\ (x = Away(s, Me, TRUE) \/ x.kind # "here")
    BY <1>6 DEF Happens
  <2>2. x # Here(r, n)
    <3>1. CASE x = Away(s, Me, TRUE)
      BY <3>1, Presences
    <3>2. CASE x.kind # "here"
      BY <3>2, NoPresence
    <3> QED BY <2>1, <3>1, <3>2
  <2>3. n \notin occupants[r] /\ n \notin missed[r] /\ s2c' = s2c \o <<x>>
    BY <1>6, <2>1 DEF Happens, Tell
  <2> QED BY <1>2, <1>3, <2>2, <2>3
<1> QED BY <1>4, <1>5, <1>6, OthersCases

\* A lost link empties every list, and a new session has told nothing yet.
LEMMA UnseenLinks ==
    ASSUME RoomTypes, UnseenInv, Links
    PROVE  UnseenInv'
<1>1. CASE ConnectResumed
  BY <1>1 DEF ConnectResumed, UnseenInv, IsUnseen, Dangling, shown, server
<1>2. CASE ConnectNew
  <2>1. \A r \in Rooms : nicklist'[r] = {}
    BY <1>2 DEF ConnectNew, RoomTypes
  <2> QED BY <1>2, <2>1, OneMessage DEF ConnectNew, UnseenInv, IsUnseen
<1>3. CASE Drop
  BY <1>3 DEF Drop, UnseenInv, IsUnseen, Dangling, server, history
<1>4. CASE Dies
  BY <1>4, OneMessage DEF Dies, UnseenInv, IsUnseen
<1> QED BY <1>1, <1>2, <1>3, <1>4 DEF Links

LEMMA UnseenNext == RoomTypes /\ UnseenInv /\ [Next]_vars => UnseenInv'
<1>1. UnseenInv /\ UNCHANGED vars => UnseenInv'
  BY DEF UnseenInv, IsUnseen, Dangling, vars, shown, server, history
<1> QED
  BY <1>1, NextCases, UnseenReceipt, UnseenActs, UnseenServer, UnseenOthers, UnseenLinks

-------------------------------------------------------------------------------
\* The four properties.

LEMMA RoomsInvInit == Init => RoomsInv
<1> SUFFICES ASSUME Init PROVE RoomsInv
  OBVIOUS
<1>1. RoomTypes
  BY TypeInit
<1>2. LeftInv /\ ToldInv
  BY OneRequest, OneMessage DEF Init, LeftInv, IsLeft, ToldInv, IsTold
<1>3. BookmarkInv /\ SeenInv
  BY DEF Init, BookmarkInv, SeenInv
<1>4. UnseenInv
  BY OneMessage DEF Init, UnseenInv, IsUnseen
<1> QED BY <1>1, <1>2, <1>3, <1>4 DEF RoomsInv

LEMMA RoomsInvNext == RoomsInv /\ [Next]_vars => RoomsInv'
  BY TypeNext, LeftNext, ToldNext, GivenNext, SeenNext, UnseenNext DEF RoomsInv

LEMMA AgreedWhenSettled ==
    ASSUME RoomsInv, Settled, NEW r \in Rooms, stored[r] # "none"
    PROVE  Agreed(r)
<1>1. up /\ c2s = <<>> /\ s2c = <<>> /\ BookmarkInv
  BY DEF RoomsInv, Settled
<1>2. PICK S, T : S = Says(r, stored[r]) /\ T = Denies(r, stored[r])
  OBVIOUS
<1>3. ~ Has(<<>>, Refreshes(r)) /\ ~ Ends(<<>>, S, T)
  BY Single
<1> QED BY <1>1, <1>2, <1>3 DEF BookmarkInv, IsGiven

\* What the properties rest on: what the client and the server hold, and what is
\* on its way between them, always agree.
THEOREM RoomsInvCorrect == Spec => []RoomsInv
  BY RoomsInvInit, RoomsInvNext, PTL DEF Spec

\* When nothing is in flight the user is in no room that is not open, however his
\* commands, the bookmark events and the server's answers crossed.
THEOREM ClosedIsLeftCorrect == Spec => []ClosedIsLeft
<1>1. RoomsInv => ClosedIsLeft
  BY LeftWhenHandled DEF RoomsInv, ClosedIsLeft, Settled
<1> QED BY <1>1, RoomsInvCorrect, PTL

\* When nothing is in flight every bookmark of the server is the client's.
THEOREM BookmarksAgreeCorrect == Spec => []BookmarksAgree
<1>1. RoomsInv /\ Settled => \A r \in Rooms : stored[r] # "none" => Agreed(r)
  BY AgreedWhenSettled
<1>2. RoomsInv => BookmarksAgree
  BY <1>1 DEF BookmarksAgree, Agreed
<1> QED BY <1>2, RoomsInvCorrect, PTL

\* When nothing is in flight a room whose bookmark has autojoin, and that the user
\* did not close, is open, and he is in it or was told that he is not.
THEOREM AutojoinJoinsCorrect == Spec => []AutojoinJoins
<1>1. RoomsInv /\ Settled => \A r \in Rooms : stored[r] # "none" => Agreed(r)
  BY AgreedWhenSettled
<1>2. RoomsInv /\ Settled => \A r \in channels : r \in member \/ r \in out
  BY OneRequest, OneMessage DEF RoomsInv, RoomTypes, Settled, ToldInv, IsTold
<1>3. RoomsInv => AutojoinJoins
  BY <1>1, <1>2 DEF AutojoinJoins, Agreed
<1> QED BY <1>3, RoomsInvCorrect, PTL

\* When nothing is in flight the nicklist of a room the user is in shows who is in
\* it: everyone, and beyond them only who left while the user was out.
THEOREM NicklistExactCorrect == Spec => []NicklistExact
<1>1. ASSUME RoomsInv, Settled, NEW r \in (member \cap buffers) \ emptied
      PROVE  /\ occupants[r] \cup {Me} \subseteq nicklist[r]
             /\ nicklist[r] \subseteq occupants[r] \cup {Me} \cup missed[r]
  <2>1. r \in Rooms \ Dangling /\ nicklist[r] \subseteq Nicks \cup {Me} /\ s2c = <<>> /\ c2s = <<>> /\ up
    BY <1>1 DEF RoomsInv, RoomTypes, Dangling, Occupants, Settled
  <2>2. \A n \in occupants[r] \cup {Me} : n \in nicklist[r]
    BY <1>1, <2>1, Single DEF RoomsInv, SeenInv, IsSeen
  <2>3. \A n \in Nicks \ occupants[r] : n \in missed[r] \/ n \notin nicklist[r]
    BY <1>1, <2>1, Single DEF RoomsInv, UnseenInv, IsUnseen
  <2> QED BY <2>1, <2>2, <2>3
<1>2. RoomsInv => NicklistExact
  BY <1>1 DEF NicklistExact
<1> QED BY <1>2, RoomsInvCorrect, PTL
===============================================================================
