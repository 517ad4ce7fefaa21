------------------------ MODULE StreamManagement_proofs ------------------------
(***************************************************************************)
(* Theorems about StreamManagement, for every value of its constants: type *)
(* correctness, QueueAligned and ResumeIsOpen.  The last two are not       *)
(* inductive: both rest on what a stream negotiates, at most one <enable/> *)
(* or <resume/> and its single answer, and on what the client's flags say  *)
(* meanwhile.                                                              *)
(*                                                                         *)
(* The second part, from Upto on, shows that StreamManagement implements   *)
(* SessionDelivery: against a server that pushes nothing to a stream       *)
(* before stream management starts on it, each session's stanzas are       *)
(* handled in order and exactly once, over any number of lost, closed,     *)
(* resumed and refused streams.                                            *)
(*                                                                         *)
(* The third part, from Places on, shows LossBounded: what an h removes    *)
(* from the queue although the server never handled it is bounded by the   *)
(* transmissions hOut missed.  The argument counts.  Follow the server     *)
(* along what is on its way to it: of the stanzas it will then have        *)
(* handled all but the uncounted ones are in acked or in the queue (a      *)
(* session that waits to be resumed), and even ones that number already    *)
(* stands for (an established stream).  An h is one of these numbers;      *)
(* acked and the queue hold no more than hOut, so as many as are missing   *)
(* from what the server has can be missing from acked.                     *)
(***************************************************************************)
EXTENDS StreamManagement, SequenceTheorems, FiniteSetTheorems, WellFoundedInduction, TLAPS

USE DEF ReportedH, Counted

-------------------------------------------------------------------------------
\* The helpers.

\* A nonempty set of natural numbers has a least element.
LEMMA LeastNatural ==
    ASSUME NEW T, T \subseteq Nat, T # {}
    PROVE  \E x \in T : \A y \in T : x <= y
<1>1. IsWellFoundedOn(OpToRel(<, Nat), Nat)
  BY NatLessThanWellFounded
<1>2. PICK x \in T : \A y \in T : ~ (<<y, x>> \in OpToRel(<, Nat))
  BY <1>1, WFMin
<1>3. ASSUME NEW y \in T PROVE x <= y
  <2>1. x \in Nat /\ y \in Nat
    OBVIOUS
  <2>2. ~ (y < x)
    BY <1>2, <2>1 DEF OpToRel
  <2> QED BY <2>1, <2>2
<1> QED BY <1>3

\* Popping the front of the queue while it is covered by h stops somewhere, and
\* what it pops is covered.
LEMMA ConfirmedRange ==
    ASSUME NEW q \in Seq(Queued), NEW h \in Nat
    PROVE  /\ Confirmed(q, h) \in 0..Len(q)
           /\ \A i \in 1..Confirmed(q, h) : q[i].seq <= h
<1>1. Len(q) \in Nat
  OBVIOUS
<1>2. \A i \in 1..Len(q) : q[i] \in Queued
  OBVIOUS
<1>3. \A i \in 1..Len(q) : q[i].seq \in Nat
  BY <1>2 DEF Queued
<1> DEFINE Above == {i \in 1..Len(q) : q[i].seq > h}
<1>4. CASE Above = {}
  <2>1. \A i \in 1..Len(q) : q[i].seq <= h
    BY <1>4, <1>3
  <2> QED BY <1>1, <2>1 DEF Confirmed
<1>5. CASE Above # {}
  <2>1. Above \subseteq Nat
    BY <1>1
  <2>2. PICK m \in Above : \A y \in Above : m <= y
    <3> HIDE DEF Above
    <3> QED BY <1>5, <2>1, LeastNatural
  <2>3. m \in 1..Len(q) /\ q[m].seq > h
    BY <2>2
  <2>4. \A i \in 1..(m - 1) : q[i].seq <= h
    <3>1. SUFFICES ASSUME NEW i \in 1..(m - 1), q[i].seq > h PROVE FALSE
      BY <1>1, <1>3, <2>3
    <3>2. i \in Above
      BY <3>1, <1>1, <2>3
    <3> QED BY <3>2, <2>2, <2>3, <1>1
  <2> HIDE DEF Above
  <2>5. m - 1 \in 0..Len(q) /\ (m - 1) + 1 = m
    BY <2>3, <1>1
  <2> QED BY <2>3, <2>4, <2>5 DEF Confirmed
<1> QED BY <1>4, <1>5

\* What pruning leaves is the end of the queue.
LEMMA PruneProperties ==
    ASSUME NEW q \in Seq(Queued), NEW h \in Nat
    PROVE  /\ Prune(q, h) \in Seq(Queued)
           /\ Len(Prune(q, h)) = Len(q) - Confirmed(q, h)
           /\ \A i \in 1..Len(Prune(q, h)) : Prune(q, h)[i] = q[Confirmed(q, h) + i]
           /\ PrunedMsgs(q, h) \in SUBSET Nat
<1> DEFINE k == Confirmed(q, h)
<1>1. k \in 0..Len(q) /\ Len(q) \in Nat
  BY ConfirmedRange
<1>2. \A i \in 1..Len(q) : q[i] \in Queued
  OBVIOUS
<1> HIDE DEF k
<1>3. \A i \in (k + 1)..Len(q) : q[i] \in Queued
  BY <1>1, <1>2
<1>4. /\ SubSeq(q, k + 1, Len(q)) \in Seq(Queued)
      /\ Len(SubSeq(q, k + 1, Len(q))) = IF k + 1 <= Len(q) THEN Len(q) - (k + 1) + 1 ELSE 0
      /\ \A i \in 1..(Len(q) - (k + 1) + 1) : SubSeq(q, k + 1, Len(q))[i] = q[k + 1 + i - 1]
  <2>1. k + 1 \in Int /\ Len(q) \in Int
    BY <1>1
  <2> QED BY <2>1, <1>3, SubSeqProperties
<1>5. {q[i].msg : i \in 1..k} \in SUBSET Nat
  <2>1. \A i \in 1..k : q[i].msg \in Nat
    BY <1>1, <1>2 DEF Queued
  <2> QED BY <2>1
<1> QED BY <1>1, <1>4, <1>5 DEF Prune, PrunedMsgs, k

\* What send() appends to the stream and to the queue.
LEMMA SentTypes ==
    ASSUME NEW k \in Nat, NEW m \in Nat, NEW n \in Nat
    PROVE  /\ [i \in 1..k |-> Elem("stanza", m + i, 0)] \in Seq(ClientElem)
           /\ [i \in 1..k |-> Elem("stanza", m + i, n)] \in Seq(ServerElem)
           /\ [i \in 1..k |-> [seq |-> n + i, msg |-> m + i]] \in Seq(Queued)
  BY DEF Elem, ClientElem, ServerElem, Queued

\* What a resumed stream retransmits.
LEMMA RetransmittedType ==
    ASSUME NEW q \in Seq(Queued)
    PROVE  [i \in 1..Len(q) |-> Elem("stanza", q[i].msg, 0)] \in Seq(ClientElem)
<1>0. \A i \in 1..Len(q) : q[i] \in Queued
  OBVIOUS
<1>1. \A i \in 1..Len(q) : q[i].msg \in Nat
  BY <1>0 DEF Queued
<1>2. \A i \in 1..Len(q) : Elem("stanza", q[i].msg, 0) \in ClientElem
  BY <1>1 DEF Elem, ClientElem
<1>3. [i \in 1..Len(q) |-> Elem("stanza", q[i].msg, 0)] \in [1..Len(q) -> ClientElem]
  BY <1>2
<1> QED BY <1>3, SeqDef

-------------------------------------------------------------------------------
\* Type correctness.

LEMMA TypeSend ==
    ASSUME TypeOK, NEW k \in Nat, NEW first \in Seq(ClientElem), Send(k, first)
    PROVE  msgs' \in Nat /\ c2s' \in Seq(ClientElem) /\ hOut' \in Nat /\ outq' \in Seq(Queued)
<1>0. /\ c2s \in Seq(ClientElem) /\ outq \in Seq(Queued)
      /\ msgs \in Nat /\ hOut \in Nat
  BY DEF TypeOK, ClientTypes, StreamTypes, HistoryTypes
<1>1. /\ [i \in 1..k |-> Elem("stanza", msgs + i, 0)] \in Seq(ClientElem)
      /\ [i \in 1..k |-> [seq |-> hOut + i, msg |-> msgs + i]] \in Seq(Queued)
  BY <1>0, SentTypes
<1>2. c2s \o first \in Seq(ClientElem)
  BY <1>0
<1>3. c2s \o first \o [i \in 1..k |-> Elem("stanza", msgs + i, 0)] \in Seq(ClientElem)
  BY <1>1, <1>2, ConcatProperties
<1>4. outq \o [i \in 1..k |-> [seq |-> hOut + i, msg |-> msgs + i]] \in Seq(Queued)
  BY <1>0, <1>1, ConcatProperties
<1>5. msgs' \in Nat /\ hOut' \in Nat
  BY <1>0 DEF Send
<1>6. c2s' \in Seq(ClientElem)
  BY <1>3 DEF Send
<1>7. outq' \in Seq(Queued)
  BY <1>0, <1>4 DEF Send
<1> QED BY <1>5, <1>6, <1>7

\* Receiving takes a well-typed element off a channel.
LEMMA TypeReceive ==
    ASSUME TypeOK, NEW kind
    PROVE  /\ Receive(kind) => /\ s2c' \in Seq(ServerElem) /\ Head(s2c) \in ServerElem
                               /\ Head(s2c).n \in Nat /\ Head(s2c).id \in Nat
           /\ ServerReceive(kind) => /\ c2s' \in Seq(ClientElem) /\ Head(c2s) \in ClientElem
                                     /\ Head(c2s).n \in Nat /\ Head(c2s).id \in Nat
<1>1. ASSUME Receive(kind)
      PROVE  s2c' \in Seq(ServerElem) /\ Head(s2c) \in ServerElem
  BY <1>1, HeadTailProperties DEF TypeOK, StreamTypes, Receive
<1>2. ASSUME ServerReceive(kind)
      PROVE  c2s' \in Seq(ClientElem) /\ Head(c2s) \in ClientElem
  BY <1>2, HeadTailProperties DEF TypeOK, StreamTypes, ServerReceive
<1> QED BY <1>1, <1>2 DEF ServerElem, ClientElem

\* What a step leaves alone keeps its type.
LEMMA TypeFrame ==
    ASSUME TypeOK
    PROVE  /\ UNCHANGED client => ClientTypes'
           /\ UNCHANGED server => ServerTypes'
           /\ UNCHANGED <<msgs, used, history, sent>> => HistoryTypes'
<1>1. ASSUME UNCHANGED client PROVE ClientTypes'
  BY <1>1 DEF TypeOK, ClientTypes, client
<1>2. ASSUME UNCHANGED server PROVE ServerTypes'
  BY <1>2 DEF TypeOK, ServerTypes, server
<1>3. ASSUME UNCHANGED <<msgs, used, history, sent>> PROVE HistoryTypes'
  BY <1>3 DEF TypeOK, HistoryTypes, history, used
<1> QED BY <1>1, <1>2, <1>3

\* A stream that ends may end the session with it.
LEMMA TypeServer ==
    ASSUME TypeOK, live' \in {live, FALSE}, counting' \in {counting, FALSE}, sent' = sent,
           handled' \in Nat, peerAck' \in Nat
    PROVE  ServerTypes'
<1> USE DEF TypeOK, ServerTypes
<1>1. live' \in BOOLEAN /\ counting' \in BOOLEAN
  OBVIOUS
<1>2. live' \/ counting' => sent' # <<>>
  OBVIOUS
<1>3. sent' \in Seq(Nat)
  OBVIOUS
<1> QED BY <1>1, <1>2, <1>3

LEMMA TypeDial ==
    ASSUME TypeOK, NEW ok \in BOOLEAN, ManualConnect(ok) \/ AutoReconnect(ok)
    PROVE  TypeOK'
<1>1. ClientTypes'
  BY DEF ManualConnect, AutoReconnect, TypeOK, ClientTypes, client
<1>2. StreamTypes'
  <2>1. c2s' = <<>> /\ s2c' = <<>> /\ link' \in {"down", "connecting"}
    BY DEF ManualConnect, AutoReconnect, Dial
  <2>2. armed' \in BOOLEAN /\ ackTimers' \subseteq {"named", "lost"}
    BY DEF ManualConnect, AutoReconnect, TypeOK, StreamTypes
  <2> QED BY <2>1, <2>2 DEF StreamTypes
<1>3. ServerTypes'
  <2>1. live' \in {live, FALSE} /\ counting' = FALSE
    BY DEF ManualConnect, AutoReconnect, Dial
  <2>2. sent' = sent /\ handled' \in Nat /\ peerAck' \in Nat
    BY DEF ManualConnect, AutoReconnect, TypeOK, ServerTypes
  <2> QED BY <2>1, <2>2, TypeServer
<1>4. HistoryTypes'
  <2>1. drops' \in {drops, drops + 1}
    BY DEF ManualConnect, AutoReconnect, used
  <2>2. UNCHANGED <<msgs, userSent, outside, history, sent>>
    BY DEF ManualConnect, AutoReconnect, used
  <2> QED BY <2>1, <2>2 DEF TypeOK, HistoryTypes, history
<1> QED BY <1>1, <1>2, <1>3, <1>4 DEF TypeOK

LEMMA TypeConnected == TypeOK /\ Connected => TypeOK'
<1> SUFFICES ASSUME TypeOK, Connected PROVE TypeOK'
  OBVIOUS
<1>1. hIn \in Nat /\ smId \in Nat
  BY DEF TypeOK, ClientTypes
<1>2. /\ <<>> \in Seq(ClientElem)
      /\ <<Elem("resume", hIn, smId)>> \in Seq(ClientElem)
      /\ <<Elem("enable", 0, 0)>> \in Seq(ClientElem)
  BY <1>1 DEF Elem, ClientElem
<1>3. \E first \in Seq(ClientElem) : Send(Burst, first)
  <2>1. smAvailable \in BOOLEAN
    BY DEF TypeOK, ClientTypes
  <2>2. CASE ~smAvailable
    BY <2>2, <1>2 DEF Connected
  <2>3. CASE smAvailable /\ smId # NoId
    BY <2>3, <1>2 DEF Connected
  <2>4. CASE smAvailable /\ smId = NoId
    BY <2>4, <1>2 DEF Connected
  <2> QED BY <2>1, <2>2, <2>3, <2>4
<1>4. msgs' \in Nat /\ c2s' \in Seq(ClientElem) /\ hOut' \in Nat /\ outq' \in Seq(Queued)
  BY <1>3, TypeSend, BurstAssumption
<1>5. ClientTypes'
  BY <1>4 DEF Connected, TypeOK, ClientTypes
<1>6. StreamTypes'
  BY <1>4 DEF Connected, TypeOK, StreamTypes
<1>7. ServerTypes' /\ sent' = sent
  BY TypeFrame DEF Connected, server
<1>8. HistoryTypes'
  BY <1>4, <1>7, BurstAssumption DEF Connected, TypeOK, HistoryTypes, used
<1> QED BY <1>5, <1>6, <1>7, <1>8 DEF TypeOK

LEMMA TypeUserSend == TypeOK /\ UserSend => TypeOK'
<1> SUFFICES ASSUME TypeOK, UserSend PROVE TypeOK'
  OBVIOUS
<1>1. msgs' \in Nat /\ c2s' \in Seq(ClientElem) /\ hOut' \in Nat /\ outq' \in Seq(Queued)
  <2>1. <<>> \in Seq(ClientElem)
    OBVIOUS
  <2> QED BY <2>1, TypeSend DEF UserSend
<1>2. ClientTypes'
  BY <1>1 DEF UserSend, TypeOK, ClientTypes
<1>3. StreamTypes'
  BY <1>1 DEF UserSend, TypeOK, StreamTypes
<1>4. ServerTypes' /\ sent' = sent
  <2>1. UNCHANGED server
    BY DEF UserSend
  <2> QED BY <2>1, TypeFrame DEF server
<1>5. HistoryTypes'
  <2>1. uncounted' \in {uncounted, uncounted + 1} /\ userSent' = userSent + 1
    BY DEF UserSend
  <2>2. UNCHANGED <<outside, drops, received, acked, logs, over>>
    BY DEF UserSend
  <2> QED BY <1>1, <1>4, <2>1, <2>2 DEF TypeOK, HistoryTypes
<1> QED BY <1>2, <1>3, <1>4, <1>5 DEF TypeOK

\* Handlers of the client that touch neither the server nor the history.
LEMMA TypeQuiet ==
    ASSUME TypeOK, OnEnabled \/ OnFailed \/ OnRequest \/ AckTimerTick
    PROVE  TypeOK'
<1>1. UNCHANGED server /\ UNCHANGED <<msgs, used, sent>> /\ link' = link /\ armed' = armed
  BY DEF OnEnabled, OnFailed, OnRequest, AckTimerTick, server
<1>2. ServerTypes'
  BY <1>1, TypeFrame
<1>3. ClientTypes'
  <2>1. CASE OnEnabled
    <3>1. Head(s2c).id \in Nat
      BY <2>1, TypeReceive DEF OnEnabled
    <3> QED BY <2>1, <3>1 DEF OnEnabled, TypeOK, ClientTypes
  <2>2. CASE OnFailed
    <3>1. smEnabled' = FALSE /\ smAvailable' = FALSE /\ smId' = 0 /\ hIn' = 0 /\ hOut' = 0
      BY <2>2 DEF OnFailed, NoId
    <3>2. outq' = <<>> /\ <<>> \in Seq(Queued)
      BY <2>2 DEF OnFailed
    <3> QED BY <3>1, <3>2 DEF ClientTypes
  <2>3. CASE OnRequest \/ AckTimerTick
    BY <2>3, TypeFrame DEF OnRequest, AckTimerTick
  <2> QED BY <2>1, <2>2, <2>3
<1>4. StreamTypes'
  <2>1. s2c' \in Seq(ServerElem)
    BY TypeReceive DEF OnEnabled, OnFailed, OnRequest, AckTimerTick, TypeOK, StreamTypes
  <2>2. Elem("a", hIn, 0) \in ClientElem /\ Elem("r", 0, 0) \in ClientElem
    BY DEF Elem, ClientElem, TypeOK, ClientTypes
  <2>3. c2s' \in {c2s, Append(c2s, Elem("a", hIn, 0)), Append(c2s, Elem("r", 0, 0))}
    BY DEF OnEnabled, OnFailed, OnRequest, AckTimerTick
  <2>4. c2s' \in Seq(ClientElem)
    BY <2>2, <2>3, AppendProperties DEF TypeOK, StreamTypes
  <2>5. ackTimers' = Hooked \/ ackTimers' = ackTimers
    BY DEF OnEnabled, OnFailed, OnRequest, AckTimerTick
  <2>6. ackTimers' \subseteq {"named", "lost"}
    BY <2>5 DEF Hooked, TypeOK, StreamTypes
  <2> QED BY <1>1, <2>1, <2>4, <2>6 DEF TypeOK, StreamTypes
<1>5. HistoryTypes'
  <2>1. over' \in {over, over \cup {smId}}
    BY DEF OnEnabled, OnFailed, OnRequest, AckTimerTick, history
  <2>2. UNCHANGED <<received, acked, uncounted, logs>>
    BY DEF OnEnabled, OnFailed, OnRequest, AckTimerTick, history
  <2>3. smId \in Nat
    BY DEF TypeOK, ClientTypes
  <2> QED BY <1>1, <2>1, <2>2, <2>3 DEF TypeOK, HistoryTypes, used
<1> QED BY <1>2, <1>3, <1>4, <1>5 DEF TypeOK

\* <resumed/> and <a/> prune.
LEMMA TypePrune == TypeOK /\ (OnResumed \/ OnAck) => TypeOK'
<1> SUFFICES ASSUME TypeOK, OnResumed \/ OnAck PROVE TypeOK'
  OBVIOUS
<1>1. s2c' \in Seq(ServerElem) /\ Head(s2c).n \in Nat
  BY TypeReceive DEF OnResumed, OnAck
<1>2. Prune(outq, Head(s2c).n) \in Seq(Queued) /\ PrunedMsgs(outq, Head(s2c).n) \in SUBSET Nat
  BY <1>1, PruneProperties DEF TypeOK, ClientTypes
<1>3. outq' \in Seq(Queued) /\ acked' \in SUBSET Nat
  <2>1. acked \in SUBSET Nat
    BY DEF TypeOK, HistoryTypes
  <2> QED BY <1>2, <2>1 DEF OnResumed, OnAck
<1>4. c2s' \in Seq(ClientElem)
  <2>1. c2s \in Seq(ClientElem)
    BY DEF TypeOK, StreamTypes
  <2>2. c2s \o [i \in 1..Len(outq') |-> Elem("stanza", outq'[i].msg, 0)] \in Seq(ClientElem)
    BY <2>1, <1>3, RetransmittedType, ConcatProperties
  <2> QED BY <2>1, <2>2 DEF OnResumed, OnAck
<1>5. uncounted' \in Nat
  <2>1. Len(outq') \in Nat /\ uncounted \in Nat
    BY <1>3 DEF TypeOK, HistoryTypes
  <2> QED BY <2>1 DEF OnResumed, OnAck
<1>6. ClientTypes'
  BY <1>3 DEF OnResumed, OnAck, TypeOK, ClientTypes
<1>7. StreamTypes'
  BY <1>1, <1>4 DEF OnResumed, OnAck, TypeOK, StreamTypes
<1>8. ServerTypes' /\ sent' = sent
  BY TypeFrame DEF OnResumed, OnAck, server
<1>9. HistoryTypes'
  BY <1>3, <1>5, <1>8 DEF OnResumed, OnAck, TypeOK, HistoryTypes, used
<1> QED BY <1>6, <1>7, <1>8, <1>9 DEF TypeOK

LEMMA TypeStanza == TypeOK /\ OnStanza => TypeOK'
<1> SUFFICES ASSUME TypeOK, OnStanza PROVE TypeOK'
  OBVIOUS
<1>1. s2c' \in Seq(ServerElem) /\ Head(s2c).n \in Nat /\ Head(s2c).id \in Nat
  BY TypeReceive DEF OnStanza
<1>2. logs' \in Seq(Seq(Nat)) /\ Len(logs') = Len(logs)
  <2>1. logs \in Seq(Seq(Nat))
    BY DEF TypeOK, HistoryTypes
  <2>2. CASE Head(s2c).id \in DOMAIN logs
    <3>1. logs[Head(s2c).id] \in Seq(Nat)
      BY <2>1, <2>2
    <3>2. Append(logs[Head(s2c).id], Head(s2c).n) \in Seq(Nat)
      BY <1>1, <3>1
    <3> QED BY <2>1, <2>2, <3>2, ExceptSeq DEF OnStanza
  <2>3. CASE Head(s2c).id \notin DOMAIN logs
    <3> DEFINE x == Head(s2c).id
               v == Append(logs[x], Head(s2c).n)
    <3>1. logs = [i \in DOMAIN logs |-> logs[i]]
      BY <2>1
    <3>2. logs' = logs \/ logs' = [logs EXCEPT ![x] = v]
      BY DEF OnStanza
    <3> HIDE DEF x, v
    <3>3. [logs EXCEPT ![x] = v] = [i \in DOMAIN logs |-> IF i = x THEN v ELSE logs[i]]
      OBVIOUS
    <3>4. [i \in DOMAIN logs |-> IF i = x THEN v ELSE logs[i]] = [i \in DOMAIN logs |-> logs[i]]
      BY <2>3 DEF x
    <3>5. logs' = logs
      BY <3>1, <3>2, <3>3, <3>4
    <3> QED BY <2>1, <3>5
  <2> QED BY <2>2, <2>3
<1>3. ClientTypes'
  BY DEF OnStanza, TypeOK, ClientTypes
<1>4. StreamTypes'
  BY <1>1 DEF OnStanza, TypeOK, StreamTypes
<1>5. ServerTypes' /\ sent' = sent
  BY TypeFrame DEF OnStanza, server
<1>6. HistoryTypes'
  <2>1. UNCHANGED <<msgs, userSent, outside, drops, received, acked, uncounted, over>>
    BY DEF OnStanza, used
  <2> QED BY <1>2, <1>5, <2>1 DEF TypeOK, HistoryTypes
<1> QED BY <1>3, <1>4, <1>5, <1>6 DEF TypeOK

\* Streams that end.
LEMMA TypeEnds == TypeOK /\ (LinkLost \/ CleanClose \/ UserDisconnect) => TypeOK'
<1> SUFFICES ASSUME TypeOK, LinkLost \/ CleanClose \/ UserDisconnect PROVE TypeOK'
  OBVIOUS
<1>1. /\ link' = "down" /\ c2s' = <<>> /\ s2c' = <<>> /\ counting' = FALSE
      /\ ackTimers' = ackTimers \ {"named"} /\ drops' = drops + 1 /\ armed' \in BOOLEAN
  BY DEF LinkLost, CleanClose, UserDisconnect, Ends
<1>2. ClientTypes'
  <2>1. CASE CleanClose
    <3>1. smId' = 0 /\ hIn' = 0 /\ hOut' = 0 /\ UNCHANGED <<smEnabled, smAvailable, outq>>
      BY <2>1 DEF CleanClose, NoId
    <3> QED BY <3>1 DEF TypeOK, ClientTypes
  <2>2. CASE LinkLost \/ UserDisconnect
    BY <2>2, TypeFrame DEF LinkLost, UserDisconnect
  <2> QED BY <2>1, <2>2
<1>3. StreamTypes'
  <2>1. c2s' \in Seq(ClientElem) /\ s2c' \in Seq(ServerElem)
    BY <1>1
  <2>2. ackTimers' \subseteq {"named", "lost"}
    BY <1>1 DEF TypeOK, StreamTypes
  <2>3. link' \in {"down", "connecting", "up"} /\ armed' \in BOOLEAN
    BY <1>1
  <2> QED BY <2>1, <2>2, <2>3 DEF StreamTypes
<1>4. ServerTypes' /\ sent' = sent
  <2>1. live' \in {live, FALSE} /\ UNCHANGED <<handled, sent, peerAck>>
    BY DEF LinkLost, CleanClose, UserDisconnect
  <2>2. handled' \in Nat /\ peerAck' \in Nat
    BY <2>1 DEF TypeOK, ServerTypes
  <2> QED BY <1>1, <2>1, <2>2, TypeServer
<1>5. HistoryTypes'
  <2>1. over' \in {over, over \cup {smId}} /\ smId \in Nat
    BY DEF LinkLost, CleanClose, UserDisconnect, history, TypeOK, ClientTypes
  <2>2. UNCHANGED <<msgs, userSent, outside, received, acked, uncounted, logs>>
    BY DEF LinkLost, CleanClose, UserDisconnect, history
  <2> QED BY <1>1, <1>4, <2>1, <2>2 DEF TypeOK, HistoryTypes
<1> QED BY <1>2, <1>3, <1>4, <1>5 DEF TypeOK

\* The server's side of the stream, when it only sends, drops or answers.
LEMMA TypeServerQuiet ==
    ASSUME TypeOK, SrvRefuse \/ SrvRequest \/ SrvAck \/ SrvSendOutside \/ SrvAsk \/ SrvForget
    PROVE  TypeOK'
<1>1. UNCHANGED <<link, armed, client, ackTimers, counting, handled, sent, msgs, history>>
  BY DEF SrvRefuse, SrvRequest, SrvAck, SrvSendOutside, SrvAsk, SrvForget, server
<1>2. c2s' \in Seq(ClientElem) /\ s2c \in Seq(ServerElem)
  BY TypeReceive DEF SrvRefuse, SrvRequest, SrvAck, SrvSendOutside, SrvAsk, SrvForget,
                     TypeOK, StreamTypes
<1>3. s2c' \in Seq(ServerElem)
  <2>1. handled \in Nat
    BY DEF TypeOK, ServerTypes
  <2>2. /\ Elem("failed", 0, 0) \in ServerElem /\ Elem("a", handled, 0) \in ServerElem
        /\ Elem("stanza", 0, 0) \in ServerElem /\ Elem("r", 0, 0) \in ServerElem
    BY <2>1 DEF Elem, ServerElem
  <2>3. s2c' \in {s2c, Append(s2c, Elem("failed", 0, 0)), Append(s2c, Elem("a", handled, 0)),
                  Append(s2c, Elem("stanza", 0, 0)), Append(s2c, Elem("r", 0, 0))}
    BY DEF SrvRefuse, SrvRequest, SrvAck, SrvSendOutside, SrvAsk, SrvForget
  <2>4. \A e \in ServerElem : Append(s2c, e) \in Seq(ServerElem)
    BY <1>2, AppendProperties
  <2> QED BY <1>2, <2>2, <2>3, <2>4
<1>4. ClientTypes'
  BY <1>1, TypeFrame
<1>5. StreamTypes'
  BY <1>1, <1>2, <1>3 DEF TypeOK, StreamTypes
<1>6. ServerTypes'
  <2>1. live' \in {live, FALSE}
    BY DEF SrvRefuse, SrvRequest, SrvAck, SrvSendOutside, SrvAsk, SrvForget, server
  <2>2. peerAck' \in Nat
    <3>1. CASE SrvAck
      BY <3>1, TypeReceive DEF SrvAck, TypeOK, ServerTypes
    <3>2. CASE ~SrvAck
      BY <3>2 DEF SrvRefuse, SrvRequest, SrvSendOutside, SrvAsk, SrvForget, server,
                  TypeOK, ServerTypes
    <3> QED BY <3>1, <3>2
  <2>3. handled' \in Nat
    BY <1>1 DEF TypeOK, ServerTypes
  <2> QED BY <1>1, <2>1, <2>2, <2>3, TypeServer
<1>7. HistoryTypes'
  <2>1. UNCHANGED used \/ (outside' = outside + 1 /\ UNCHANGED <<userSent, drops>>)
    <3>1. CASE SrvSendOutside
      BY <3>1 DEF SrvSendOutside, used
    <3>2. CASE ~SrvSendOutside
      BY <3>2 DEF SrvRefuse, SrvRequest, SrvAck, SrvAsk, SrvForget
    <3> QED BY <3>1, <3>2
  <2>2. outside' \in Nat /\ userSent' \in Nat /\ drops' \in Nat
    BY <2>1 DEF used, TypeOK, HistoryTypes
  <2> QED BY <1>1, <2>2 DEF TypeOK, HistoryTypes, history
<1> QED BY <1>4, <1>5, <1>6, <1>7 DEF TypeOK

LEMMA TypeSrvStanza == TypeOK /\ SrvStanza => TypeOK'
<1> SUFFICES ASSUME TypeOK, SrvStanza PROVE TypeOK'
  OBVIOUS
<1>1. c2s' \in Seq(ClientElem) /\ Head(c2s).n \in Nat
  BY TypeReceive DEF SrvStanza
<1>2. ClientTypes'
  BY TypeFrame DEF SrvStanza
<1>3. StreamTypes'
  BY <1>1 DEF SrvStanza, TypeOK, StreamTypes
<1>4. ServerTypes' /\ sent' = sent
  <2>1. UNCHANGED <<live, counting, sent, peerAck>> /\ handled' \in {handled, handled + 1}
    BY DEF SrvStanza
  <2> QED BY <2>1 DEF TypeOK, ServerTypes
<1>5. HistoryTypes'
  <2>1. received' = received \cup {Head(c2s).n}
    BY DEF SrvStanza
  <2>2. UNCHANGED <<msgs, userSent, outside, drops, acked, uncounted, logs, over>>
    BY DEF SrvStanza, used
  <2> QED BY <1>1, <1>4, <2>1, <2>2 DEF TypeOK, HistoryTypes
<1> QED BY <1>2, <1>3, <1>4, <1>5 DEF TypeOK

LEMMA TypeSrvSend == TypeOK /\ SrvSend => TypeOK'
<1> SUFFICES ASSUME TypeOK, SrvSend PROVE TypeOK'
  OBVIOUS
<1>1. sent \in Seq(Nat) /\ sent # <<>>
  BY DEF SrvSend, TypeOK, ServerTypes
<1>2. Session \in 1..Len(sent) /\ Session \in Nat /\ sent[Session] + 1 \in Nat
  <2>1. Len(sent) \in Nat /\ Len(sent) # 0
    BY <1>1, EmptySeq
  <2>2. Len(sent) \in 1..Len(sent)
    BY <2>1
  <2>3. sent[Len(sent)] \in Nat
    BY <1>1, <2>2, ElementOfSeq
  <2> QED BY <2>1, <2>2, <2>3 DEF Session
<1>3. sent' \in Seq(Nat) /\ Len(sent') = Len(sent) /\ sent'[Session] = sent[Session] + 1
  <2>1. sent' = [sent EXCEPT ![Session] = sent[Session] + 1]
    BY DEF SrvSend
  <2> QED BY <1>1, <1>2, <2>1, ExceptSeq
<1>4. s2c' \in Seq(ServerElem)
  <2>1. Elem("stanza", sent'[Session], Session) \in ServerElem
    BY <1>2, <1>3 DEF Elem, ServerElem
  <2> QED BY <2>1, AppendProperties DEF SrvSend, TypeOK, StreamTypes
<1>5. ClientTypes'
  BY TypeFrame DEF SrvSend
<1>6. StreamTypes'
  BY <1>4 DEF SrvSend, TypeOK, StreamTypes
<1>7. ServerTypes'
  <2>1. sent' # <<>>
    BY <1>1, <1>3, EmptySeq
  <2> QED BY <1>3, <2>1 DEF SrvSend, TypeOK, ServerTypes
<1>8. HistoryTypes'
  <2>1. UNCHANGED <<msgs, userSent, outside, drops, received, acked, uncounted, logs, over>>
    BY DEF SrvSend, used, history
  <2> QED BY <1>3, <2>1 DEF TypeOK, HistoryTypes
<1> QED BY <1>5, <1>6, <1>7, <1>8 DEF TypeOK

LEMMA TypeSrvEnable ==
    ASSUME TypeOK, NEW resumable \in BOOLEAN, NEW named \in BOOLEAN, SrvEnable(resumable, named)
    PROVE  TypeOK'
<1>1. sent \in Seq(Nat) /\ Len(sent) \in Nat /\ logs \in Seq(Seq(Nat)) /\ Len(logs) = Len(sent)
  BY DEF TypeOK, ServerTypes, HistoryTypes
<1>2. /\ sent' \in Seq(Nat) /\ Len(sent') = Len(sent) + 1
      /\ logs' \in Seq(Seq(Nat)) /\ Len(logs') = Len(logs) + 1
  <2>1. <<>> \in Seq(Nat) /\ 0 \in Nat
    OBVIOUS
  <2> QED BY <1>1, <2>1, AppendProperties DEF SrvEnable
<1>3. s2c' \in Seq(ServerElem)
  <2>1. Elem("enabled", 0, IF named THEN Session + 1 ELSE NoId) \in ServerElem
    BY <1>1 DEF Elem, ServerElem, Session, NoId
  <2>2. s2c \in Seq(ServerElem)
    BY DEF TypeOK, StreamTypes
  <2> QED BY <2>1, <2>2, AppendProperties DEF SrvEnable
<1>4. c2s' \in Seq(ClientElem)
  BY TypeReceive DEF SrvEnable
<1>5. ClientTypes'
  BY TypeFrame DEF SrvEnable
<1>6. StreamTypes'
  BY <1>3, <1>4 DEF SrvEnable, TypeOK, StreamTypes
<1>7. ServerTypes'
  <2>1. live' \in BOOLEAN /\ counting' \in BOOLEAN /\ handled' = 0 /\ peerAck' = 0
    BY DEF SrvEnable
  <2>2. sent' # <<>>
    BY <1>1, <1>2, EmptySeq
  <2> QED BY <1>2, <2>1, <2>2 DEF ServerTypes
<1>8. HistoryTypes'
  <2>1. UNCHANGED <<msgs, userSent, outside, drops, received, acked, uncounted, over>>
    BY DEF SrvEnable, used
  <2> QED BY <1>1, <1>2, <2>1 DEF TypeOK, HistoryTypes
<1> QED BY <1>5, <1>6, <1>7, <1>8 DEF TypeOK

LEMMA TypeSrvResume == TypeOK /\ SrvResume => TypeOK'
<1> SUFFICES ASSUME TypeOK, SrvResume PROVE TypeOK'
  OBVIOUS
<1>1. c2s' \in Seq(ClientElem) /\ Head(c2s).n \in Nat
  BY TypeReceive DEF SrvResume
<1>2. sent \in Seq(Nat) /\ sent # <<>> /\ handled \in Nat
  BY DEF SrvResume, TypeOK, ServerTypes
<1>3. Session \in Nat /\ sent[Session] \in Nat
  <2>1. Len(sent) \in Nat /\ Len(sent) # 0
    BY <1>2, EmptySeq
  <2>2. Len(sent) \in 1..Len(sent)
    BY <2>1
  <2>3. sent[Len(sent)] \in Nat
    BY <1>2, <2>2, ElementOfSeq
  <2> QED BY <2>1, <2>3 DEF Session
<1>4. sent[Session] - Head(c2s).n \in Nat
  BY <1>1, <1>3 DEF SrvResume
<1>5. s2c' \in Seq(ServerElem)
  <2>1. s2c \in Seq(ServerElem)
    BY DEF TypeOK, StreamTypes
  <2>2. <<Elem("resumed", handled, Session)>> \in Seq(ServerElem)
    BY <1>2, <1>3 DEF Elem, ServerElem
  <2>3. [i \in 1..(sent[Session] - Head(c2s).n) |-> Elem("stanza", Head(c2s).n + i, Session)]
          \in Seq(ServerElem)
    BY <1>1, <1>3, <1>4, SentTypes
  <2>4. s2c \o <<Elem("resumed", handled, Session)>> \in Seq(ServerElem)
    BY <2>1, <2>2, ConcatProperties
  <2> QED BY <2>3, <2>4, ConcatProperties DEF SrvResume
<1>6. ClientTypes'
  BY TypeFrame DEF SrvResume
<1>7. StreamTypes'
  BY <1>1, <1>5 DEF SrvResume, TypeOK, StreamTypes
<1>8. ServerTypes' /\ sent' = sent
  BY <1>1, <1>2 DEF SrvResume, TypeOK, ServerTypes
<1>9. HistoryTypes'
  BY <1>8, TypeFrame DEF SrvResume
<1> QED BY <1>6, <1>7, <1>8, <1>9 DEF TypeOK

LEMMA TypeNext == TypeOK /\ [Next]_vars => TypeOK'
<1> SUFFICES ASSUME TypeOK, [Next]_vars PROVE TypeOK'
  OBVIOUS
<1>1. ASSUME NEW ok \in BOOLEAN, ManualConnect(ok) \/ AutoReconnect(ok) PROVE TypeOK'
  BY <1>1, TypeDial
<1>2. CASE Connected \/ UserSend
  BY <1>2, TypeConnected, TypeUserSend
<1>3. CASE AckTimerTick \/ ClientReceive
  BY <1>3, TypeQuiet, TypePrune, TypeStanza DEF ClientReceive
<1>4. CASE ServerHandle
  BY <1>4, TypeSrvEnable, TypeSrvResume, TypeServerQuiet, TypeSrvStanza
     DEF ServerHandle, SrvEnabling
<1>5. CASE LinkLost \/ CleanClose \/ UserDisconnect
  BY <1>5, TypeEnds
<1>6. CASE SrvSend \/ SrvSendOutside \/ SrvAsk \/ SrvForget
  BY <1>6, TypeSrvSend, TypeServerQuiet
<1>7. CASE UNCHANGED vars
  <2>1. UNCHANGED <<link, armed, client, ackTimers, c2s, s2c, server, msgs, used, history>>
    BY <1>7 DEF vars
  <2>2. ClientTypes' /\ ServerTypes'
    BY <2>1, TypeFrame
  <2>3. StreamTypes'
    BY <2>1 DEF TypeOK, StreamTypes
  <2>4. HistoryTypes'
    BY <2>1, TypeFrame DEF server
  <2> QED BY <2>2, <2>3, <2>4 DEF TypeOK
<1> QED BY <1>1, <1>2, <1>3, <1>4, <1>5, <1>6, <1>7 DEF Next

LEMMA TypeInit == Init => TypeOK
<1> SUFFICES ASSUME Init PROVE TypeOK
  OBVIOUS
<1>0. <<>> \in Seq(Queued) /\ <<>> \in Seq(ClientElem) /\ <<>> \in Seq(ServerElem)
      /\ <<>> \in Seq(Nat)
  OBVIOUS
<1>1. ClientTypes
  BY <1>0 DEF Init, ClientTypes, NoId
<1>2. StreamTypes
  BY <1>0 DEF Init, StreamTypes
<1>3. ServerTypes
  BY <1>0 DEF Init, ServerTypes
<1>4. HistoryTypes
  BY DEF Init, HistoryTypes
<1> QED BY <1>1, <1>2, <1>3, <1>4 DEF TypeOK

\* Every variable keeps its type, whatever the bounds; a server that can resume
\* or counts has opened a session, so "the last session" exists where it is used.
THEOREM TypeCorrect == Spec => []TypeOK
  BY TypeInit, TypeNext, PTL DEF Spec

-------------------------------------------------------------------------------
\* Negotiation.

Asks    == {"enable", "resume"}
Answers == {"enabled", "resumed", "failed"}

AtMostOne(chan, kinds) ==
    \A i, j \in DOMAIN chan : chan[i].kind \in kinds /\ chan[j].kind \in kinds => i = j

\* A stream carries at most one request and, once it is gone, one answer.
OneNegotiation ==
    /\ AtMostOne(c2s, Asks) /\ AtMostOne(s2c, Answers)
    /\ ~ (InFlight(c2s, Asks) /\ InFlight(s2c, Answers))

\* Only an established stream negotiates, and only a client that has not been
\* refused since the last manual connect.
NegotiatesWhenAvailable ==
    /\ InFlight(c2s, Asks) \/ InFlight(s2c, Answers) => link = "up" /\ smAvailable
    /\ smEnabled => smAvailable

\* An id is held until the <resume/> that used it is answered.
ResumeHoldsId == InFlight(c2s, {"resume"}) \/ InFlight(s2c, {"resumed"}) => smId # NoId

Aligned == \A i \in DOMAIN outq : outq[i].seq + Len(outq) = hOut + i

\* The queue is misaligned only between a cleanly closed stream and the answer
\* to the next <enable/>, which empties it, or the next refusal.
AlignedOrRestarting ==
    smEnabled => \/ Aligned
                 \/ smId = NoId /\ (link = "up" => InFlight(c2s, Asks) \/ InFlight(s2c, Answers))

\* The id held, and the one on its way, name sessions nobody was told the end of.
KnownIds ==
    /\ \A s \in over : s <= Len(sent)
    /\ smId <= Len(sent) /\ (smId # NoId => smId \notin over)
    /\ \A i \in DOMAIN c2s : c2s[i].kind = "resume" => c2s[i].id = smId
    /\ \A i \in DOMAIN s2c :
          s2c[i].kind = "enabled" =>
              s2c[i].id <= Len(sent) /\ (s2c[i].id # NoId => s2c[i].id \notin over)

NegotiationInv == /\ TypeOK /\ OneNegotiation /\ NegotiatesWhenAvailable /\ ResumeHoldsId
                  /\ AlignedOrRestarting /\ KnownIds

-------------------------------------------------------------------------------
\* Channels.

\* A channel step neither adds nor takes away elements of the kinds given.
Keeps(q, p, kinds) ==
    /\ \A i \in DOMAIN p : p[i].kind \in kinds => \E j \in DOMAIN q : q[j] = p[i]
    /\ InFlight(q, kinds) => InFlight(p, kinds)
    /\ AtMostOne(q, kinds) => AtMostOne(p, kinds)

\* Where the elements of a concatenation come from.
LEMMA ConcatAt ==
    ASSUME NEW S, NEW q \in Seq(S), NEW r \in Seq(S)
    PROVE  /\ Len(q) \in Nat /\ Len(r) \in Nat /\ Len(q \o r) = Len(q) + Len(r)
           /\ DOMAIN q = 1..Len(q) /\ DOMAIN r = 1..Len(r)
           /\ DOMAIN (q \o r) = 1..(Len(q) + Len(r))
           /\ \A i \in 1..Len(q) : (q \o r)[i] = q[i]
           /\ \A i \in (Len(q) + 1)..(Len(q) + Len(r)) : (q \o r)[i] = r[i - Len(q)]
  OBVIOUS

\* Appending elements of other kinds keeps those of the kinds given; appending
\* to a channel that carries none of them keeps the appended ones alone.
LEMMA ConcatKeeps ==
    ASSUME NEW S, NEW q \in Seq(S), NEW r \in Seq(S), NEW kinds
    PROVE  /\ ~ InFlight(r, kinds) => Keeps(q, q \o r, kinds)
           /\ ~ InFlight(q, kinds) =>
                 /\ \A i \in DOMAIN (q \o r) : (q \o r)[i].kind \in kinds =>
                        \E j \in DOMAIN r : r[j] = (q \o r)[i]
                 /\ AtMostOne(r, kinds) => AtMostOne(q \o r, kinds)
<1> DEFINE p == q \o r
<1>1. /\ Len(q) \in Nat /\ Len(r) \in Nat /\ Len(p) = Len(q) + Len(r)
      /\ DOMAIN q = 1..Len(q) /\ DOMAIN r = 1..Len(r) /\ DOMAIN p = 1..(Len(q) + Len(r))
  BY ConcatAt
<1>2. /\ \A i \in 1..Len(q) : p[i] = q[i]
      /\ \A i \in (Len(q) + 1)..(Len(q) + Len(r)) : p[i] = r[i - Len(q)]
  BY ConcatAt
<1> HIDE DEF p
<1>3. ASSUME ~ InFlight(r, kinds) PROVE Keeps(q, p, kinds)
  <2>1. \A i \in DOMAIN p : p[i].kind \in kinds => i \in DOMAIN q /\ p[i] = q[i]
    <3> SUFFICES ASSUME NEW i \in DOMAIN p, p[i].kind \in kinds, i \notin DOMAIN q PROVE FALSE
      BY <1>1, <1>2
    <3>1. i - Len(q) \in DOMAIN r /\ p[i] = r[i - Len(q)]
      BY <1>1, <1>2
    <3> QED BY <3>1, <1>3 DEF InFlight
  <2>2. \A i \in DOMAIN q : i \in DOMAIN p /\ p[i] = q[i]
    BY <1>1, <1>2
  <2> QED BY <2>1, <2>2 DEF Keeps, InFlight, AtMostOne
<1>4. ASSUME ~ InFlight(q, kinds)
      PROVE  /\ \A i \in DOMAIN p : p[i].kind \in kinds => \E j \in DOMAIN r : r[j] = p[i]
             /\ AtMostOne(r, kinds) => AtMostOne(p, kinds)
  <2>1. \A i \in DOMAIN p : p[i].kind \in kinds =>
            i - Len(q) \in DOMAIN r /\ p[i] = r[i - Len(q)]
    <3> TAKE i \in DOMAIN p
    <3> HAVE p[i].kind \in kinds
    <3>1. CASE i \in DOMAIN q
      BY <3>1, <1>1, <1>2, <1>4 DEF InFlight
    <3>2. CASE i \notin DOMAIN q
      BY <3>2, <1>1, <1>2
    <3> QED BY <3>1, <3>2
  <2>2. AtMostOne(r, kinds) => AtMostOne(p, kinds)
    <3> SUFFICES ASSUME AtMostOne(r, kinds), NEW i \in DOMAIN p, NEW j \in DOMAIN p,
                        p[i].kind \in kinds, p[j].kind \in kinds
                 PROVE  i = j
      BY DEF AtMostOne
    <3>1. i - Len(q) = j - Len(q)
      BY <2>1 DEF AtMostOne
    <3>2. i \in 1..(Len(q) + Len(r)) /\ j \in 1..(Len(q) + Len(r))
      BY <1>1
    <3> QED BY <3>1, <3>2, <1>1
  <2> QED BY <2>1, <2>2
<1> QED BY <1>3, <1>4 DEF p

\* The same for one element.
LEMMA AppendKeeps ==
    ASSUME NEW S, NEW q \in Seq(S), NEW e \in S, NEW kinds
    PROVE  /\ e.kind \notin kinds => Keeps(q, Append(q, e), kinds)
           /\ ~ InFlight(q, kinds) =>
                 /\ \A i \in DOMAIN Append(q, e) :
                        Append(q, e)[i].kind \in kinds => Append(q, e)[i] = e
                 /\ AtMostOne(Append(q, e), kinds)
<1>1. <<e>> \in Seq(S) /\ Append(q, e) = q \o <<e>>
  BY AppendIsConcat
<1>2. DOMAIN <<e>> = {1} /\ <<e>>[1] = e
  OBVIOUS
<1>3. (e.kind \notin kinds => ~ InFlight(<<e>>, kinds)) /\ AtMostOne(<<e>>, kinds)
  BY <1>2 DEF InFlight, AtMostOne
<1>4. e.kind \notin kinds => Keeps(q, q \o <<e>>, kinds)
  BY <1>1, <1>3, ConcatKeeps
<1>5. ASSUME ~ InFlight(q, kinds)
      PROVE  /\ \A i \in DOMAIN (q \o <<e>>) :
                    (q \o <<e>>)[i].kind \in kinds => (q \o <<e>>)[i] = e
             /\ AtMostOne(q \o <<e>>, kinds)
  <2>1. /\ \A i \in DOMAIN (q \o <<e>>) : (q \o <<e>>)[i].kind \in kinds =>
               \E j \in DOMAIN <<e>> : <<e>>[j] = (q \o <<e>>)[i]
        /\ AtMostOne(q \o <<e>>, kinds)
    BY <1>1, <1>3, <1>5, ConcatKeeps
  <2> QED BY <2>1, <1>2
<1> QED BY <1>1, <1>4, <1>5

\* Taking the head keeps the elements of the kinds it is not of; taking the
\* only element of some kinds leaves none.
LEMMA TailKeeps ==
    ASSUME NEW S, NEW q \in Seq(S), q # <<>>, NEW kinds
    PROVE  /\ Head(q).kind \notin kinds => Keeps(q, Tail(q), kinds)
           /\ Head(q).kind \in kinds =>
                 InFlight(q, kinds) /\ (AtMostOne(q, kinds) => ~ InFlight(Tail(q), kinds))
<1> DEFINE p == Tail(q)
<1>1. /\ Len(q) \in Nat /\ Len(q) # 0 /\ Len(p) = Len(q) - 1 /\ Head(q) = q[1]
      /\ DOMAIN q = 1..Len(q) /\ DOMAIN p = 1..(Len(q) - 1)
  BY HeadTailProperties, EmptySeq
<1>2. \A i \in DOMAIN p : i + 1 \in DOMAIN q /\ p[i] = q[i + 1] /\ i + 1 # 1
  BY <1>1
<1>3. \A i \in DOMAIN q : i # 1 => i - 1 \in DOMAIN p /\ p[i - 1] = q[i]
  BY <1>1
<1>4. 1 \in DOMAIN q
  BY <1>1
<1>5. \A i, j \in DOMAIN p : i + 1 = j + 1 => i = j
  BY <1>1
<1> HIDE DEF p
<1>6. ASSUME Head(q).kind \notin kinds PROVE Keeps(q, p, kinds)
  <2>1. \A i \in DOMAIN p : p[i].kind \in kinds => \E j \in DOMAIN q : q[j] = p[i]
    BY <1>2
  <2>2. InFlight(q, kinds) => InFlight(p, kinds)
    <3> SUFFICES ASSUME NEW i \in DOMAIN q, q[i].kind \in kinds PROVE InFlight(p, kinds)
      BY DEF InFlight
    <3>1. i # 1
      BY <1>1, <1>6
    <3> QED BY <3>1, <1>3 DEF InFlight
  <2>3. AtMostOne(q, kinds) => AtMostOne(p, kinds)
    <3> SUFFICES ASSUME AtMostOne(q, kinds), NEW i \in DOMAIN p, NEW j \in DOMAIN p,
                        p[i].kind \in kinds, p[j].kind \in kinds
                 PROVE  i = j
      BY DEF AtMostOne
    <3>1. i + 1 = j + 1
      BY <1>2 DEF AtMostOne
    <3> QED BY <3>1, <1>5
  <2> QED BY <2>1, <2>2, <2>3 DEF Keeps
<1>7. ASSUME Head(q).kind \in kinds
      PROVE  InFlight(q, kinds) /\ (AtMostOne(q, kinds) => ~ InFlight(p, kinds))
  <2>1. InFlight(q, kinds)
    BY <1>1, <1>4, <1>7 DEF InFlight
  <2>2. ASSUME AtMostOne(q, kinds), InFlight(p, kinds) PROVE FALSE
    <3>1. PICK i \in DOMAIN p : p[i].kind \in kinds
      BY <2>2 DEF InFlight
    <3>2. i + 1 \in DOMAIN q /\ q[i + 1].kind \in kinds /\ i + 1 # 1
      BY <3>1, <1>2
    <3>3. q[1].kind \in kinds
      BY <1>1, <1>7
    <3> QED BY <3>2, <3>3, <1>4, <2>2 DEF AtMostOne
  <2> QED BY <2>1, <2>2
<1> QED BY <1>6, <1>7 DEF p

\* A channel that does not change keeps everything.
LEMMA SameKeeps == ASSUME NEW q, NEW kinds PROVE Keeps(q, q, kinds)
  BY DEF Keeps

-------------------------------------------------------------------------------
\* The queue.

\* send() keeps the queue aligned: each stanza counted is a stanza queued.
LEMMA SendAligned ==
    ASSUME TypeOK, NEW k \in Nat, NEW first, Send(k, first), smEnabled, Aligned
    PROVE  Aligned'
<1> DEFINE r == [i \in 1..k |-> [seq |-> hOut + i, msg |-> msgs + i]]
<1>1. outq \in Seq(Queued) /\ hOut \in Nat /\ msgs \in Nat
  BY DEF TypeOK, ClientTypes, HistoryTypes
<1>2. r \in Seq(Queued) /\ Len(r) = k /\ \A i \in 1..k : r[i].seq = hOut + i
  <2>1. r \in Seq(Queued)
    BY <1>1, SentTypes
  <2>2. DOMAIN r = 1..k /\ \A i \in 1..k : r[i].seq = hOut + i
    OBVIOUS
  <2> HIDE DEF r
  <2> QED BY <2>1, <2>2, LenProperties
<1>3. outq' = outq \o r /\ hOut' = hOut + k
  BY DEF Send
<1> HIDE DEF r
<1>4. /\ Len(outq) \in Nat /\ DOMAIN outq' = 1..(Len(outq) + k) /\ Len(outq') = Len(outq) + k
      /\ \A i \in 1..Len(outq) : outq'[i] = outq[i]
      /\ \A i \in (Len(outq) + 1)..(Len(outq) + k) : outq'[i] = r[i - Len(outq)]
  <2> DEFINE p == outq \o r
  <2>1. /\ Len(outq) \in Nat /\ DOMAIN p = 1..(Len(outq) + Len(r))
        /\ Len(p) = Len(outq) + Len(r)
        /\ \A i \in 1..Len(outq) : p[i] = outq[i]
        /\ \A i \in (Len(outq) + 1)..(Len(outq) + Len(r)) : p[i] = r[i - Len(outq)]
    <3>1. r \in Seq(Queued)
      BY <1>2
    <3>2. outq \in Seq(Queued)
      BY <1>1
    <3> QED BY <3>1, <3>2
  <2>2. outq' = p /\ Len(r) = k
    BY <1>2, <1>3
  <2> HIDE DEF p
  <2> QED BY <2>1, <2>2
<1>5. \A i \in 1..Len(outq) : outq[i].seq + Len(outq) = hOut + i /\ outq[i].seq \in Nat
  <2>1. \A i \in 1..Len(outq) : outq[i] \in Queued
    BY <1>1
  <2> QED BY <2>1, <1>1 DEF Aligned, Queued
<1>6. SUFFICES ASSUME NEW i \in 1..(Len(outq) + k)
               PROVE  outq'[i].seq + (Len(outq) + k) = (hOut + k) + i
  BY <1>3, <1>4 DEF Aligned
<1>7. CASE i <= Len(outq)
  <2>1. i \in 1..Len(outq)
    BY <1>4, <1>7
  <2>2. outq'[i].seq = outq[i].seq
    BY <2>1, <1>4
  <2>3. \A a, l \in Nat : a + l = hOut + i => a + (l + k) = (hOut + k) + i
    BY <1>1
  <2>4. outq[i].seq \in Nat /\ outq[i].seq + Len(outq) = hOut + i /\ Len(outq) \in Nat
    BY <2>1, <1>4, <1>5
  <2> QED BY <2>2, <2>3, <2>4
<1>8. CASE ~ (i <= Len(outq))
  <2>1. i \in (Len(outq) + 1)..(Len(outq) + k) /\ i - Len(outq) \in 1..k
    BY <1>4, <1>8
  <2>2. outq'[i].seq = hOut + (i - Len(outq))
    BY <2>1, <1>2, <1>4
  <2> QED BY <2>1, <2>2, <1>1, <1>4
<1> QED BY <1>7, <1>8

\* Pruning keeps it aligned: what is left is its end.
LEMMA PruneAligned ==
    ASSUME TypeOK, NEW h \in Nat, outq' = Prune(outq, h), hOut' = hOut, Aligned
    PROVE  Aligned'
<1> DEFINE k == Confirmed(outq, h)
<1>1. outq \in Seq(Queued) /\ hOut \in Nat
  BY DEF TypeOK, ClientTypes
<1>2. k \in 0..Len(outq) /\ Len(outq) \in Nat
  BY <1>1, ConfirmedRange
<1>3. /\ outq' \in Seq(Queued) /\ Len(outq') = Len(outq) - k
      /\ \A i \in 1..(Len(outq) - k) : outq'[i] = outq[k + i]
  BY <1>1, PruneProperties
<1> HIDE DEF k
<1>4. \A i \in 1..Len(outq) : outq[i].seq + Len(outq) = hOut + i /\ outq[i].seq \in Nat
  <2>1. \A i \in 1..Len(outq) : outq[i] \in Queued
    BY <1>1
  <2> QED BY <2>1, <1>1 DEF Aligned, Queued
<1>5. DOMAIN outq' = 1..(Len(outq) - k)
  BY <1>3
<1>6. SUFFICES ASSUME NEW i \in 1..(Len(outq) - k)
               PROVE  outq'[i].seq + (Len(outq) - k) = hOut + i
  BY <1>3, <1>5 DEF Aligned
<1>7. k + i \in 1..Len(outq) /\ outq'[i].seq = outq[k + i].seq
  BY <1>2, <1>3
<1>8. \A a, l \in Nat : a + l = hOut + (k + i) => a + (l - k) = hOut + i
  BY <1>1, <1>2
<1> QED BY <1>2, <1>4, <1>7, <1>8

-------------------------------------------------------------------------------
\* Steps.

\* Steps that start, answer or end no negotiation.
LEMMA QuietStep ==
    ASSUME NegotiationInv, TypeOK',
           Keeps(c2s, c2s', Asks), Keeps(s2c, s2c', Answers),
           UNCHANGED <<link, smEnabled, smAvailable, smId, over>>, Len(sent') = Len(sent),
           smEnabled /\ Aligned => Aligned'
    PROVE  NegotiationInv'
<1> USE DEF NegotiationInv
<1>0. /\ \A i \in DOMAIN c2s' : c2s'[i].kind \in Asks => \E j \in DOMAIN c2s : c2s[j] = c2s'[i]
      /\ \A i \in DOMAIN s2c' : s2c'[i].kind \in Answers => \E j \in DOMAIN s2c : s2c[j] = s2c'[i]
  BY DEF Keeps
<1>a. (InFlight(c2s, Asks))' <=> InFlight(c2s, Asks)
  BY <1>0 DEF Keeps, InFlight
<1>b. (InFlight(s2c, Answers))' <=> InFlight(s2c, Answers)
  BY <1>0 DEF Keeps, InFlight
<1>1. OneNegotiation'
  BY <1>a, <1>b DEF OneNegotiation, Keeps
<1>2. NegotiatesWhenAvailable'
  BY <1>a, <1>b DEF NegotiatesWhenAvailable
<1>3. ResumeHoldsId'
  <2>1. (InFlight(c2s, {"resume"}))' => InFlight(c2s, {"resume"})
    BY <1>0 DEF InFlight, Asks
  <2>2. (InFlight(s2c, {"resumed"}))' => InFlight(s2c, {"resumed"})
    BY <1>0 DEF InFlight, Answers
  <2> QED BY <2>1, <2>2 DEF ResumeHoldsId
<1>4. AlignedOrRestarting'
  BY <1>a, <1>b DEF AlignedOrRestarting
<1>5. KnownIds'
  <2>1. /\ \A s \in over' : s <= Len(sent')
        /\ smId' <= Len(sent') /\ (smId' # NoId => smId' \notin over')
    BY DEF KnownIds
  <2>2. ASSUME NEW i \in DOMAIN c2s', c2s'[i].kind = "resume" PROVE c2s'[i].id = smId'
    <3>1. PICK j \in DOMAIN c2s : c2s[j] = c2s'[i]
      BY <2>2, <1>0 DEF Asks
    <3> QED BY <2>2, <3>1 DEF KnownIds
  <2>3. ASSUME NEW i \in DOMAIN s2c', s2c'[i].kind = "enabled"
        PROVE  s2c'[i].id <= Len(sent') /\ (s2c'[i].id # NoId => s2c'[i].id \notin over')
    <3>1. PICK j \in DOMAIN s2c : s2c[j] = s2c'[i]
      BY <2>3, <1>0 DEF Answers
    <3> QED BY <2>3, <3>1 DEF KnownIds
  <2> QED BY <2>1, <2>2, <2>3 DEF KnownIds
<1> QED BY <1>1, <1>2, <1>3, <1>4, <1>5

\* Steps after which nothing is negotiated.
LEMMA SilentStep ==
    ASSUME TypeOK', ~ InFlight(c2s', Asks), ~ InFlight(s2c', Answers), smEnabled' => smAvailable',
           smEnabled' => Aligned' \/ (smId' = NoId /\ link' # "up"),
           \A s \in over' : s <= Len(sent'), smId' <= Len(sent'),
           smId' # NoId => smId' \notin over'
    PROVE  NegotiationInv'
<1>1. OneNegotiation'
  BY DEF OneNegotiation, AtMostOne, InFlight
<1>2. NegotiatesWhenAvailable'
  BY DEF NegotiatesWhenAvailable
<1>3. ResumeHoldsId'
  BY DEF ResumeHoldsId, InFlight, Asks, Answers
<1>4. AlignedOrRestarting'
  BY DEF AlignedOrRestarting
<1>5. KnownIds'
  BY DEF KnownIds, InFlight, Asks, Answers
<1> QED BY <1>1, <1>2, <1>3, <1>4, <1>5 DEF NegotiationInv

\* Nothing is negotiated on a stream that just ended or is being dialled.
LEMMA SilentChannels ==
    ASSUME c2s' = <<>>, s2c' = <<>>
    PROVE  ~ InFlight(c2s', Asks) /\ ~ InFlight(s2c', Answers)
  BY DEF InFlight

LEMMA NegotiationDial ==
    ASSUME NegotiationInv, NEW ok \in BOOLEAN, ManualConnect(ok) \/ AutoReconnect(ok)
    PROVE  NegotiationInv'
<1>1. TypeOK'
  BY TypeDial DEF NegotiationInv
<1>2. /\ c2s' = <<>> /\ s2c' = <<>> /\ link' # "up"
      /\ UNCHANGED <<smEnabled, smId, hOut, outq, sent, over>>
  BY DEF ManualConnect, AutoReconnect, Dial, client, history
<1>3. smEnabled' => smAvailable'
  <2>1. smEnabled => smAvailable
    BY DEF NegotiationInv, NegotiatesWhenAvailable
  <2>2. CASE ManualConnect(ok)
    BY <2>2 DEF ManualConnect
  <2>3. CASE AutoReconnect(ok)
    BY <2>1, <2>3 DEF AutoReconnect, client
  <2> QED BY <2>2, <2>3
<1>4. smEnabled' => Aligned' \/ (smId' = NoId /\ link' # "up")
  BY <1>2 DEF NegotiationInv, AlignedOrRestarting, Aligned
<1>5. /\ \A s \in over' : s <= Len(sent')
      /\ smId' <= Len(sent') /\ (smId' # NoId => smId' \notin over')
  BY <1>2 DEF NegotiationInv, KnownIds
<1> QED BY <1>1, <1>2, <1>3, <1>4, <1>5, SilentChannels, SilentStep

LEMMA NegotiationEnds ==
    ASSUME NegotiationInv, LinkLost \/ CleanClose \/ UserDisconnect
    PROVE  NegotiationInv'
<1>1. TypeOK'
  BY TypeEnds DEF NegotiationInv
<1>2. c2s' = <<>> /\ s2c' = <<>> /\ link' # "up" /\ UNCHANGED <<smEnabled, smAvailable, outq, sent>>
  BY DEF LinkLost, CleanClose, UserDisconnect, Ends, client
<1>3. smEnabled' => smAvailable'
  BY <1>2 DEF NegotiationInv, NegotiatesWhenAvailable
<1>4. CASE CleanClose
  <2>1. smId' = NoId /\ over' = over \cup {smId}
    BY <1>4 DEF CleanClose
  <2>2. Len(sent) \in Nat
    BY DEF NegotiationInv, TypeOK, ServerTypes
  <2>3. (\A s \in over' : s <= Len(sent')) /\ smId' <= Len(sent')
    BY <1>2, <2>1, <2>2 DEF NegotiationInv, KnownIds, NoId
  <2> QED BY <1>1, <1>2, <1>3, <2>1, <2>3, SilentChannels, SilentStep
<1>5. CASE LinkLost \/ UserDisconnect
  <2>1. UNCHANGED <<smId, hOut, over>>
    BY <1>5 DEF LinkLost, UserDisconnect, client, history
  <2>2. smEnabled' => Aligned' \/ (smId' = NoId /\ link' # "up")
    BY <1>2, <2>1 DEF NegotiationInv, AlignedOrRestarting, Aligned
  <2>3. /\ \A s \in over' : s <= Len(sent')
        /\ smId' <= Len(sent') /\ (smId' # NoId => smId' \notin over')
    BY <1>2, <2>1 DEF NegotiationInv, KnownIds
  <2> QED BY <1>1, <1>2, <1>3, <2>2, <2>3, SilentChannels, SilentStep
<1> QED BY <1>4, <1>5

\* Handlers and timers that take or add only elements that negotiate nothing.
LEMMA QuietKeeps ==
    ASSUME NegotiationInv, TypeOK', OnAck \/ OnRequest \/ OnStanza \/ AckTimerTick \/ SrvStanza
               \/ SrvRequest \/ SrvAck \/ SrvSend \/ SrvSendOutside \/ SrvAsk \/ SrvForget
    PROVE  Keeps(c2s, c2s', Asks) /\ Keeps(s2c, s2c', Answers)
<1>1. c2s \in Seq(ClientElem) /\ s2c \in Seq(ServerElem)
  BY DEF NegotiationInv, TypeOK, StreamTypes
<1>2. Keeps(c2s, c2s', Asks)
  <2>1. CASE c2s' = c2s
    BY <2>1, SameKeeps
  <2>2. CASE \E kind \in {"stanza", "r", "a"} : ServerReceive(kind)
    <3>1. PICK kind \in {"stanza", "r", "a"} :
              c2s # <<>> /\ Head(c2s).kind = kind /\ c2s' = Tail(c2s)
      BY <2>2 DEF ServerReceive
    <3>2. Head(c2s).kind \notin Asks
      BY <3>1 DEF Asks
    <3> QED BY <1>1, <3>1, <3>2, TailKeeps
  <2>3. ASSUME NEW kind \in {"r", "a"}, NEW n \in Nat, c2s' = Append(c2s, Elem(kind, n, 0))
        PROVE  Keeps(c2s, c2s', Asks)
    <3>1. Elem(kind, n, 0) \in ClientElem /\ Elem(kind, n, 0).kind \notin Asks
      BY DEF Elem, ClientElem, Asks
    <3> QED BY <1>1, <2>3, <3>1, AppendKeeps
  <2>4. \/ c2s' = c2s \/ \E kind \in {"stanza", "r", "a"} : ServerReceive(kind)
        \/ c2s' = Append(c2s, Elem("a", hIn, 0)) \/ c2s' = Append(c2s, Elem("r", 0, 0))
    BY DEF OnAck, OnRequest, OnStanza, AckTimerTick, SrvStanza, SrvRequest, SrvAck, SrvSend,
           SrvSendOutside, SrvAsk, SrvForget
  <2>5. hIn \in Nat
    BY DEF NegotiationInv, TypeOK, ClientTypes
  <2> QED BY <2>1, <2>2, <2>3, <2>4, <2>5
<1>3. Keeps(s2c, s2c', Answers)
  <2>1. CASE s2c' = s2c
    BY <2>1, SameKeeps
  <2>2. CASE \E kind \in {"stanza", "r", "a"} : Receive(kind)
    <3>1. PICK kind \in {"stanza", "r", "a"} :
              s2c # <<>> /\ Head(s2c).kind = kind /\ s2c' = Tail(s2c)
      BY <2>2 DEF Receive
    <3>2. Head(s2c).kind \notin Answers
      BY <3>1 DEF Answers
    <3> QED BY <1>1, <3>1, <3>2, TailKeeps
  <2>3. ASSUME NEW e, e.kind \in {"stanza", "r", "a"}, s2c' = Append(s2c, e)
        PROVE  Keeps(s2c, s2c', Answers)
    <3>1. s2c' \in Seq(ServerElem)
      BY DEF TypeOK, StreamTypes
    <3>2. s2c'[Len(s2c) + 1] = e /\ Len(s2c) + 1 \in DOMAIN s2c'
      BY <1>1, <2>3
    <3>3. e \in ServerElem
      BY <3>1, <3>2
    <3>4. e.kind \notin Answers
      BY <2>3 DEF Answers
    <3> QED BY <1>1, <2>3, <3>3, <3>4, AppendKeeps
  <2>4. \/ s2c' = s2c \/ \E kind \in {"stanza", "r", "a"} : Receive(kind)
        \/ s2c' = Append(s2c, Elem("a", handled, 0)) \/ s2c' = Append(s2c, Elem("stanza", 0, 0))
        \/ s2c' = Append(s2c, Elem("r", 0, 0))
        \/ s2c' = Append(s2c, Elem("stanza", sent'[Session], Session))
    BY DEF OnAck, OnRequest, OnStanza, AckTimerTick, SrvStanza, SrvRequest, SrvAck, SrvSend,
           SrvSendOutside, SrvAsk, SrvForget
  <2>5. \A kind, n, id : Elem(kind, n, id).kind = kind
    BY DEF Elem
  <2> QED BY <2>1, <2>2, <2>3, <2>4, <2>5
<1> QED BY <1>2, <1>3

LEMMA NegotiationQuiet ==
    ASSUME NegotiationInv, TypeOK', OnAck \/ OnRequest \/ OnStanza \/ AckTimerTick \/ SrvStanza
               \/ SrvRequest \/ SrvAck \/ SrvSend \/ SrvSendOutside \/ SrvAsk \/ SrvForget
    PROVE  NegotiationInv'
<1>2. Keeps(c2s, c2s', Asks) /\ Keeps(s2c, s2c', Answers)
  BY QuietKeeps
<1>4. UNCHANGED <<link, smEnabled, smAvailable, smId, over>>
  BY DEF OnAck, OnRequest, OnStanza, AckTimerTick, SrvStanza, SrvRequest, SrvAck, SrvSend,
         SrvSendOutside, SrvAsk, SrvForget, client, history
<1>5. Len(sent') = Len(sent)
  <2>1. CASE SrvSend
    BY <2>1 DEF SrvSend, NegotiationInv, TypeOK, ServerTypes
  <2>2. CASE ~SrvSend
    BY <2>2 DEF OnAck, OnRequest, OnStanza, AckTimerTick, SrvStanza, SrvRequest, SrvAck,
                SrvSendOutside, SrvAsk, SrvForget, server
  <2> QED BY <2>1, <2>2
<1>6. ASSUME Aligned PROVE Aligned'
  <2>1. CASE OnAck
    <3>1. Head(s2c).n \in Nat
      BY <2>1, TypeReceive DEF OnAck, NegotiationInv
    <3> QED BY <2>1, <3>1, <1>6, PruneAligned DEF OnAck, NegotiationInv
  <2>2. CASE ~OnAck
    <3>1. outq' = outq /\ hOut' = hOut
      BY <2>2 DEF OnRequest, OnStanza, AckTimerTick, SrvStanza, SrvRequest, SrvAck, SrvSend,
                  SrvSendOutside, SrvAsk, SrvForget, client
    <3> QED BY <3>1, <1>6 DEF Aligned
  <2> QED BY <2>1, <2>2
<1> QED BY <1>2, <1>4, <1>5, <1>6, QuietStep

LEMMA UserSendKeeps ==
    ASSUME NegotiationInv, UserSend
    PROVE  Keeps(c2s, c2s', Asks) /\ Keeps(s2c, s2c', Answers)
<1> DEFINE r == [i \in 1..1 |-> Elem("stanza", msgs + i, 0)]
<1>2. c2s \in Seq(ClientElem) /\ msgs \in Nat
  BY DEF NegotiationInv, TypeOK, StreamTypes, HistoryTypes
<1>3. r \in Seq(ClientElem)
  BY <1>2, SentTypes
<1>4. ~ InFlight(r, Asks)
  <2>1. \A i \in DOMAIN r : r[i].kind = "stanza"
    BY DEF Elem
  <2> HIDE DEF r
  <2> QED BY <2>1 DEF InFlight, Asks
<1>5. c2s' = c2s \o r \/ c2s' = c2s
  <2>1. c2s' = (c2s \o <<>>) \o r \/ c2s' = c2s
    BY DEF UserSend, Send
  <2>2. c2s \o <<>> = c2s
    BY <1>2
  <2> QED BY <2>1, <2>2
<1> HIDE DEF r
<1>6. Keeps(c2s, c2s', Asks)
  <2>1. CASE c2s' = c2s \o r
    BY <2>1, <1>2, <1>3, <1>4, ConcatKeeps
  <2>2. CASE c2s' = c2s
    BY <2>2, SameKeeps
  <2> QED BY <1>5, <2>1, <2>2
<1>7. Keeps(s2c, s2c', Answers)
  BY SameKeeps DEF UserSend
<1> QED BY <1>6, <1>7

LEMMA NegotiationUserSend == NegotiationInv /\ UserSend => NegotiationInv'
<1> SUFFICES ASSUME NegotiationInv, UserSend PROVE NegotiationInv'
  OBVIOUS
<1>1. TypeOK'
  BY TypeUserSend DEF NegotiationInv
<1>6. Keeps(c2s, c2s', Asks) /\ Keeps(s2c, s2c', Answers)
  BY UserSendKeeps
<1>8. UNCHANGED <<link, smEnabled, smAvailable, smId, over>> /\ Len(sent') = Len(sent)
  BY DEF UserSend, server
<1>9. smEnabled /\ Aligned => Aligned'
  BY SendAligned DEF UserSend, NegotiationInv
<1> QED BY <1>1, <1>6, <1>8, <1>9, QuietStep

\* The client takes in the only answer.
LEMMA AnswerTaken ==
    ASSUME NegotiationInv, NEW kind \in Answers, Receive(kind)
    PROVE  /\ ~ InFlight(c2s, Asks) /\ ~ InFlight(s2c', Answers)
           /\ smAvailable /\ link = "up" /\ InFlight(s2c, {kind})
<1>1. s2c \in Seq(ServerElem) /\ s2c # <<>> /\ Head(s2c).kind = kind /\ s2c' = Tail(s2c)
  BY DEF Receive, NegotiationInv, TypeOK, StreamTypes
<1>2. /\ InFlight(s2c, Answers) /\ (AtMostOne(s2c, Answers) => ~ InFlight(s2c', Answers))
      /\ InFlight(s2c, {kind})
  BY <1>1, TailKeeps
<1> QED BY <1>2 DEF NegotiationInv, OneNegotiation, NegotiatesWhenAvailable

\* The server takes the only request.
LEMMA AskTaken ==
    ASSUME NegotiationInv, NEW kind \in Asks, ServerReceive(kind)
    PROVE  /\ ~ InFlight(c2s', Asks) /\ ~ InFlight(s2c, Answers)
           /\ smAvailable /\ link = "up" /\ InFlight(c2s, {kind})
<1>1. c2s \in Seq(ClientElem) /\ c2s # <<>> /\ Head(c2s).kind = kind /\ c2s' = Tail(c2s)
  BY DEF ServerReceive, NegotiationInv, TypeOK, StreamTypes
<1>2. /\ InFlight(c2s, Asks) /\ (AtMostOne(c2s, Asks) => ~ InFlight(c2s', Asks))
      /\ InFlight(c2s, {kind})
  BY <1>1, TailKeeps
<1> QED BY <1>2 DEF NegotiationInv, OneNegotiation, NegotiatesWhenAvailable

LEMMA NegotiationEnabled == NegotiationInv /\ OnEnabled => NegotiationInv'
<1> SUFFICES ASSUME NegotiationInv, OnEnabled PROVE NegotiationInv'
  OBVIOUS
<1>1. TypeOK'
  BY TypeQuiet DEF NegotiationInv
<1>2. ~ InFlight(c2s', Asks) /\ ~ InFlight(s2c', Answers) /\ smAvailable'
  BY AnswerTaken DEF OnEnabled, Answers
<1>3. Aligned'
  BY DEF OnEnabled, Aligned
<1>4. sent' = sent /\ over' = over
  BY DEF OnEnabled, server, history
<1>5. smId' <= Len(sent) /\ (smId' # NoId => smId' \notin over)
  <2>1. 1 \in DOMAIN s2c /\ s2c[1] = Head(s2c) /\ Head(s2c).kind = "enabled"
    <3>1. s2c \in Seq(ServerElem) /\ s2c # <<>> /\ Head(s2c).kind = "enabled"
      BY DEF OnEnabled, Receive, NegotiationInv, TypeOK, StreamTypes
    <3> QED BY <3>1
  <2>2. /\ Head(s2c).id <= Len(sent) /\ (Head(s2c).id # NoId => Head(s2c).id \notin over)
        /\ smId <= Len(sent) /\ (smId # NoId => smId \notin over)
    BY <2>1 DEF NegotiationInv, KnownIds
  <2>3. smId' = Head(s2c).id \/ smId' = smId
    BY DEF OnEnabled
  <2> QED BY <2>2, <2>3
<1>6. \A s \in over : s <= Len(sent)
  BY DEF NegotiationInv, KnownIds
<1> QED BY <1>1, <1>2, <1>3, <1>4, <1>5, <1>6, SilentStep

LEMMA NegotiationResumed == NegotiationInv /\ OnResumed => NegotiationInv'
<1> SUFFICES ASSUME NegotiationInv, OnResumed PROVE NegotiationInv'
  OBVIOUS
<1> DEFINE r == [i \in 1..Len(outq') |-> Elem("stanza", outq'[i].msg, 0)]
<1>1. TypeOK'
  BY TypePrune DEF NegotiationInv
<1>2. /\ ~ InFlight(c2s, Asks) /\ ~ InFlight(s2c', Answers) /\ smAvailable /\ link = "up"
      /\ InFlight(s2c, {"resumed"})
  BY AnswerTaken DEF OnResumed, Answers
<1>3. ~ InFlight(c2s', Asks)
  <2>1. c2s \in Seq(ClientElem) /\ outq' \in Seq(Queued)
    BY <1>1 DEF NegotiationInv, TypeOK, StreamTypes, ClientTypes
  <2>2. r \in Seq(ClientElem)
    BY <2>1, RetransmittedType
  <2>3. \A i \in DOMAIN r : r[i].kind = "stanza"
    BY DEF Elem
  <2>4. c2s' = c2s \o r
    BY DEF OnResumed
  <2> HIDE DEF r
  <2>5. ~ InFlight(r, Asks)
    BY <2>3 DEF InFlight, Asks
  <2>6. \A i \in DOMAIN c2s' : c2s'[i].kind \in Asks => \E j \in DOMAIN r : r[j] = c2s'[i]
    BY <1>2, <2>1, <2>2, <2>4, ConcatKeeps
  <2> QED BY <2>5, <2>6 DEF InFlight
<1>4. UNCHANGED <<smEnabled, smAvailable, smId, hOut, sent, over>>
  BY DEF OnResumed, server
<1>5. smEnabled' => Aligned'
  <2>1. Head(s2c).n \in Nat /\ outq' = Prune(outq, Head(s2c).n)
    BY TypeReceive DEF OnResumed, NegotiationInv
  <2>2. smId # NoId
    BY <1>2 DEF NegotiationInv, ResumeHoldsId
  <2>3. smEnabled => Aligned
    BY <2>2 DEF NegotiationInv, AlignedOrRestarting
  <2> QED BY <1>4, <2>1, <2>3, PruneAligned DEF NegotiationInv
<1>6. /\ \A s \in over' : s <= Len(sent')
      /\ smId' <= Len(sent') /\ (smId' # NoId => smId' \notin over')
  BY <1>4 DEF NegotiationInv, KnownIds
<1> QED BY <1>1, <1>2, <1>3, <1>4, <1>5, <1>6, SilentStep

LEMMA NegotiationFailed == NegotiationInv /\ OnFailed => NegotiationInv'
<1> SUFFICES ASSUME NegotiationInv, OnFailed PROVE NegotiationInv'
  OBVIOUS
<1>1. TypeOK'
  BY TypeQuiet DEF NegotiationInv
<1>2. ~ InFlight(c2s', Asks) /\ ~ InFlight(s2c', Answers)
  BY AnswerTaken DEF OnFailed, Answers
<1>3. smEnabled' = FALSE /\ smId' = NoId /\ over' = over \cup {smId} /\ sent' = sent
  BY DEF OnFailed, server
<1>4. Len(sent) \in Nat
  BY DEF NegotiationInv, TypeOK, ServerTypes
<1>5. (\A s \in over' : s <= Len(sent')) /\ smId' <= Len(sent')
  BY <1>3, <1>4 DEF NegotiationInv, KnownIds, NoId
<1> QED BY <1>1, <1>2, <1>3, <1>5, SilentStep

\* A connected stream starts with at most one request, the one Connected chose.
LEMMA ConnectedAsks ==
    ASSUME NegotiationInv, NEW e \in ClientElem, NEW first \in {<<>>, <<e>>},
           e.kind \in Asks, link' = "up", Send(Burst, first), ~ InFlight(c2s, Asks)
    PROVE  /\ AtMostOne(c2s', Asks)
           /\ \A i \in DOMAIN c2s' : c2s'[i].kind \in Asks => first = <<e>> /\ c2s'[i] = e
           /\ first = <<e>> => InFlight(c2s', Asks)
<1> DEFINE r == [i \in 1..Burst |-> Elem("stanza", msgs + i, 0)]
<1>1. c2s \in Seq(ClientElem) /\ first \in Seq(ClientElem) /\ msgs \in Nat
  <2>1. <<e>> \in Seq(ClientElem) /\ <<>> \in Seq(ClientElem)
    OBVIOUS
  <2> QED BY <2>1 DEF NegotiationInv, TypeOK, StreamTypes, HistoryTypes
<1>2. r \in Seq(ClientElem)
  BY <1>1, BurstAssumption, SentTypes
<1>3. \A i \in DOMAIN r : r[i].kind = "stanza"
  BY DEF Elem
<1>4. c2s' = (c2s \o first) \o r
  BY DEF Send
<1> HIDE DEF r
<1>5. ~ InFlight(r, Asks)
  BY <1>3 DEF InFlight, Asks
<1>6. c2s \o first \in Seq(ClientElem)
  BY <1>1
<1>7. Keeps(c2s \o first, c2s', Asks)
  BY <1>2, <1>4, <1>5, <1>6, ConcatKeeps
<1>8. CASE first = <<>>
  <2>1. c2s \o first = c2s
    BY <1>1, <1>8
  <2>2. ~ InFlight(c2s', Asks)
    BY <1>7, <2>1 DEF Keeps, InFlight
  <2> QED BY <1>8, <2>2 DEF InFlight, AtMostOne
<1>9. CASE first = <<e>>
  <2>1. c2s \o first = Append(c2s, e)
    BY <1>1, <1>9
  <2>2. /\ \A i \in DOMAIN Append(c2s, e) :
               Append(c2s, e)[i].kind \in Asks => Append(c2s, e)[i] = e
        /\ AtMostOne(Append(c2s, e), Asks)
    BY <1>1, AppendKeeps
  <2>3. InFlight(Append(c2s, e), Asks)
    <3>1. Len(c2s) + 1 \in DOMAIN Append(c2s, e) /\ Append(c2s, e)[Len(c2s) + 1] = e
      BY <1>1
    <3> QED BY <3>1 DEF InFlight
  <2>4. Keeps(Append(c2s, e), c2s', Asks)
    BY <1>7, <2>1
  <2> QED BY <1>9, <2>2, <2>3, <2>4 DEF Keeps
<1> QED BY <1>8, <1>9

LEMMA NegotiationConnected == NegotiationInv /\ Connected => NegotiationInv'
<1> SUFFICES ASSUME NegotiationInv, Connected PROVE NegotiationInv'
  OBVIOUS
<1>1. TypeOK'
  BY TypeConnected DEF NegotiationInv
<1>2. ~ InFlight(c2s, Asks) /\ ~ InFlight(s2c, Answers) /\ s2c' = s2c /\ link' = "up"
  BY DEF Connected, NegotiationInv, NegotiatesWhenAvailable
<1>3. UNCHANGED <<smEnabled, smAvailable, smId, over, sent>>
  BY DEF Connected, server
<1>4. hIn \in Nat /\ smId \in Nat /\ smAvailable \in BOOLEAN
  BY DEF NegotiationInv, TypeOK, ClientTypes
<1> DEFINE e == IF smId # NoId THEN Elem("resume", hIn, smId) ELSE Elem("enable", 0, 0)
           first == IF smAvailable THEN <<e>> ELSE <<>>
<1>5. e \in ClientElem /\ e.kind \in Asks
  BY <1>4 DEF Elem, ClientElem, Asks
<1>6. /\ e.kind = "resume" => smId # NoId /\ e.id = smId
      /\ e.kind \in {"enable", "resume"}
  BY DEF Elem
<1>7. Send(Burst, first)
  <2>1. CASE ~ smAvailable
    BY <2>1 DEF Connected
  <2>2. CASE smAvailable /\ smId # NoId
    BY <2>2 DEF Connected
  <2>3. CASE smAvailable /\ smId = NoId
    BY <2>3 DEF Connected
  <2> QED BY <2>1, <2>2, <2>3, <1>4
<1>8. first \in {<<>>, <<e>>} /\ (first = <<e>> <=> smAvailable)
  <2>1. <<e>> # <<>>
    OBVIOUS
  <2> QED BY <2>1
<1> HIDE DEF e, first
<1>9. /\ AtMostOne(c2s', Asks)
      /\ \A i \in DOMAIN c2s' : c2s'[i].kind \in Asks => first = <<e>> /\ c2s'[i] = e
      /\ first = <<e>> => InFlight(c2s', Asks)
  BY <1>2, <1>5, <1>7, <1>8, ConnectedAsks
<1>10. OneNegotiation'
  BY <1>2, <1>9 DEF OneNegotiation, AtMostOne, InFlight
<1>11. NegotiatesWhenAvailable'
  <2>1. InFlight(c2s', Asks) => smAvailable
    BY <1>8, <1>9 DEF InFlight
  <2> QED BY <2>1, <1>2, <1>3 DEF NegotiationInv, NegotiatesWhenAvailable
<1>12. ResumeHoldsId'
  <2>1. InFlight(c2s', {"resume"}) => smId # NoId
    BY <1>6, <1>9 DEF InFlight, Asks
  <2>2. ~ InFlight(s2c', {"resumed"})
    BY <1>2 DEF InFlight, Answers
  <2> QED BY <2>1, <2>2, <1>3 DEF ResumeHoldsId
<1>13. AlignedOrRestarting'
  <2> SUFFICES ASSUME smEnabled, ~ Aligned PROVE smId = NoId /\ InFlight(c2s', Asks)
    <3>1. smEnabled /\ Aligned => Aligned'
      BY <1>7, BurstAssumption, SendAligned DEF NegotiationInv
    <3> QED BY <3>1, <1>3 DEF AlignedOrRestarting
  <2> QED BY <1>8, <1>9 DEF NegotiationInv, AlignedOrRestarting, NegotiatesWhenAvailable
<1>14. KnownIds'
  <2>1. \A i \in DOMAIN c2s' : c2s'[i].kind = "resume" => c2s'[i].id = smId
    BY <1>6, <1>9 DEF Asks
  <2> QED BY <2>1, <1>2, <1>3 DEF NegotiationInv, KnownIds
<1> QED BY <1>1, <1>10, <1>11, <1>12, <1>13, <1>14 DEF NegotiationInv

\* Steps of the server that answer a request.
LEMMA AnsweredStep ==
    ASSUME NegotiationInv, TypeOK', ~ InFlight(c2s', Asks), InFlight(s2c', Answers),
           AtMostOne(s2c', Answers), smAvailable, link = "up",
           UNCHANGED <<link, client, over>>, Len(sent') >= Len(sent),
           InFlight(s2c', {"resumed"}) => smId # NoId,
           \A i \in DOMAIN s2c' : s2c'[i].kind = "enabled" =>
               s2c'[i].id <= Len(sent') /\ (s2c'[i].id # NoId => s2c'[i].id \notin over)
    PROVE  NegotiationInv'
<1>1. UNCHANGED <<smEnabled, smAvailable, smId, hOut, outq>>
  BY DEF client
<1>2. OneNegotiation'
  BY DEF OneNegotiation, AtMostOne, InFlight
<1>3. NegotiatesWhenAvailable'
  BY <1>1 DEF NegotiatesWhenAvailable
<1>4. ResumeHoldsId'
  BY <1>1 DEF ResumeHoldsId, InFlight, Asks
<1>5. AlignedOrRestarting'
  BY <1>1 DEF NegotiationInv, AlignedOrRestarting, Aligned
<1>6. KnownIds'
  <2>1. Len(sent) \in Nat /\ Len(sent') \in Nat /\ smId \in Nat /\ over \in SUBSET Nat
    <3>1. sent \in Seq(Nat) /\ sent' \in Seq(Nat)
      BY DEF NegotiationInv, TypeOK, ServerTypes
    <3>2. smId \in Nat /\ over \in SUBSET Nat
      BY DEF NegotiationInv, TypeOK, ClientTypes, HistoryTypes
    <3> QED BY <3>1, <3>2
  <2>2. (\A s \in over' : s <= Len(sent')) /\ smId' <= Len(sent')
    BY <2>1, <1>1 DEF NegotiationInv, KnownIds
  <2>3. smId' # NoId => smId' \notin over'
    BY <1>1 DEF NegotiationInv, KnownIds
  <2>4. \A i \in DOMAIN c2s' : c2s'[i].kind # "resume"
    BY DEF InFlight, Asks
  <2> QED BY <2>2, <2>3, <2>4 DEF KnownIds
<1> QED BY <1>2, <1>3, <1>4, <1>5, <1>6 DEF NegotiationInv

\* One appended answer is the only one.
LEMMA OneAnswer ==
    ASSUME NegotiationInv, ~ InFlight(s2c, Answers), NEW e \in ServerElem, e.kind \in Answers,
           s2c' = Append(s2c, e)
    PROVE  /\ InFlight(s2c', Answers) /\ AtMostOne(s2c', Answers)
           /\ \A i \in DOMAIN s2c' : s2c'[i].kind \in Answers => s2c'[i] = e
<1>1. s2c \in Seq(ServerElem)
  BY DEF NegotiationInv, TypeOK, StreamTypes
<1>2. Len(s2c) + 1 \in DOMAIN s2c' /\ s2c'[Len(s2c) + 1] = e
  BY <1>1
<1> QED BY <1>1, <1>2, AppendKeeps DEF InFlight

LEMMA NegotiationSrvEnable ==
    ASSUME NegotiationInv, NEW resumable \in BOOLEAN, NEW named \in BOOLEAN,
           SrvEnable(resumable, named)
    PROVE  NegotiationInv'
<1> DEFINE e == Elem("enabled", 0, IF named THEN Session + 1 ELSE NoId)
<1>1. TypeOK'
  BY TypeSrvEnable DEF NegotiationInv
<1>2. ~ InFlight(c2s', Asks) /\ ~ InFlight(s2c, Answers) /\ smAvailable /\ link = "up"
  BY AskTaken DEF SrvEnable, Asks
<1>3. Len(sent) \in Nat /\ Len(sent') = Len(sent) + 1 /\ UNCHANGED <<link, client, over>>
  BY DEF SrvEnable, NegotiationInv, TypeOK, ServerTypes
<1>4. e \in ServerElem /\ e.kind = "enabled" /\ e.id \in {Len(sent) + 1, NoId} /\ s2c' = Append(s2c, e)
  BY <1>3 DEF Elem, ServerElem, Session, NoId, SrvEnable
<1> HIDE DEF e
<1>5. /\ InFlight(s2c', Answers) /\ AtMostOne(s2c', Answers)
      /\ \A i \in DOMAIN s2c' : s2c'[i].kind \in Answers => s2c'[i] = e
  BY <1>2, <1>4, OneAnswer DEF Answers
<1>6. e.id <= Len(sent') /\ (e.id # NoId => e.id \notin over)
  BY <1>3, <1>4 DEF NegotiationInv, KnownIds, NoId
<1>7. ~ InFlight(s2c', {"resumed"})
  BY <1>4, <1>5 DEF InFlight, Answers
<1>8. \A i \in DOMAIN s2c' : s2c'[i].kind = "enabled" => s2c'[i] = e
  BY <1>5 DEF Answers
<1> QED BY <1>1, <1>2, <1>3, <1>5, <1>6, <1>7, <1>8, AnsweredStep

LEMMA NegotiationSrvRefuse == NegotiationInv /\ SrvRefuse => NegotiationInv'
<1> SUFFICES ASSUME NegotiationInv, SrvRefuse PROVE NegotiationInv'
  OBVIOUS
<1> DEFINE e == Elem("failed", 0, 0)
<1>1. TypeOK'
  BY TypeServerQuiet DEF NegotiationInv
<1>2. ~ InFlight(c2s', Asks) /\ ~ InFlight(s2c, Answers) /\ smAvailable /\ link = "up"
  BY AskTaken DEF SrvRefuse, Asks
<1>3. Len(sent') = Len(sent) /\ Len(sent) \in Nat /\ UNCHANGED <<link, client, over>>
  BY DEF SrvRefuse, history, NegotiationInv, TypeOK, ServerTypes
<1>4. e \in ServerElem /\ e.kind = "failed" /\ s2c' = Append(s2c, e)
  BY DEF Elem, ServerElem, SrvRefuse
<1> HIDE DEF e
<1>5. /\ InFlight(s2c', Answers) /\ AtMostOne(s2c', Answers)
      /\ \A i \in DOMAIN s2c' : s2c'[i].kind \in Answers => s2c'[i] = e
  BY <1>2, <1>4, OneAnswer DEF Answers
<1>6. \A i \in DOMAIN s2c' : s2c'[i].kind \notin {"enabled", "resumed"}
  BY <1>4, <1>5 DEF Answers
<1> QED BY <1>1, <1>2, <1>3, <1>5, <1>6, AnsweredStep DEF InFlight

LEMMA NegotiationSrvResume == NegotiationInv /\ SrvResume => NegotiationInv'
<1> SUFFICES ASSUME NegotiationInv, SrvResume PROVE NegotiationInv'
  OBVIOUS
<1> DEFINE e == Elem("resumed", handled, Session)
           k == sent[Session] - Head(c2s).n
           r == [i \in 1..k |-> Elem("stanza", Head(c2s).n + i, Session)]
           p == Append(s2c, e)
<1>1. TypeOK'
  BY TypeSrvResume DEF NegotiationInv
<1>2. /\ ~ InFlight(c2s', Asks) /\ ~ InFlight(s2c, Answers) /\ smAvailable /\ link = "up"
      /\ InFlight(c2s, {"resume"})
  BY AskTaken DEF SrvResume, Asks
<1>3. smId # NoId
  BY <1>2 DEF NegotiationInv, ResumeHoldsId
<1>4. sent' = sent /\ Len(sent) \in Nat /\ UNCHANGED <<link, client, over>>
  BY DEF SrvResume, history, NegotiationInv, TypeOK, ServerTypes
<1>5. s2c \in Seq(ServerElem) /\ handled \in Nat /\ Session \in Nat
  BY <1>4 DEF NegotiationInv, TypeOK, StreamTypes, ServerTypes, Session
<1>6. e \in ServerElem /\ e.kind = "resumed"
  BY <1>5 DEF Elem, ServerElem
<1>7. r \in Seq(ServerElem)
  <2>1. Head(c2s).n \in Nat
    BY TypeReceive DEF SrvResume, NegotiationInv
  <2>2. k \in Nat
    <3>1. Len(sent) \in 1..Len(sent) /\ sent \in Seq(Nat)
      <4>1. sent \in Seq(Nat) /\ sent # <<>>
        BY DEF SrvResume, NegotiationInv, TypeOK, ServerTypes
      <4> QED BY <4>1, EmptySeq
    <3>2. sent[Session] \in Nat /\ Head(c2s).n <= sent[Session]
      BY <3>1, ElementOfSeq DEF Session, SrvResume
    <3> QED BY <2>1, <3>2
  <2> HIDE DEF k
  <2> QED BY <2>1, <2>2, <1>5, SentTypes
<1>8. \A i \in DOMAIN r : r[i].kind = "stanza"
  BY DEF Elem
<1>9. s2c' = p \o r
  <2>1. p = s2c \o <<e>>
    BY <1>5, <1>6
  <2> QED BY <2>1 DEF SrvResume
<1> HIDE DEF e, r
<1>10. /\ \A i \in DOMAIN p : p[i].kind \in Answers => p[i] = e
       /\ AtMostOne(p, Answers)
       /\ InFlight(p, Answers) /\ p \in Seq(ServerElem)
  <2>1. Len(s2c) + 1 \in DOMAIN p /\ p[Len(s2c) + 1] = e /\ p \in Seq(ServerElem)
    BY <1>5, <1>6
  <2>2. e.kind \in Answers
    BY <1>6 DEF Answers
  <2> QED BY <1>2, <1>5, <1>6, <2>1, <2>2, AppendKeeps DEF InFlight
<1> HIDE DEF p
<1>11. Keeps(p, s2c', Answers)
  <2>1. ~ InFlight(r, Answers)
    BY <1>8 DEF InFlight, Answers
  <2> QED BY <1>7, <1>9, <1>10, <2>1, ConcatKeeps
<1>12. /\ InFlight(s2c', Answers) /\ AtMostOne(s2c', Answers)
       /\ \A i \in DOMAIN s2c' : s2c'[i].kind \in Answers => s2c'[i] = e
  BY <1>10, <1>11 DEF Keeps
<1>13. \A i \in DOMAIN s2c' : s2c'[i].kind # "enabled"
  BY <1>6, <1>12 DEF Answers
<1> QED BY <1>1, <1>2, <1>3, <1>4, <1>12, <1>13, AnsweredStep

-------------------------------------------------------------------------------
LEMMA NegotiationInit == Init => NegotiationInv
<1> SUFFICES ASSUME Init PROVE NegotiationInv
  OBVIOUS
<1>1. TypeOK
  BY TypeInit
<1>2. ~ InFlight(c2s, Asks) /\ ~ InFlight(s2c, Answers) /\ c2s = <<>> /\ s2c = <<>>
  BY DEF Init, InFlight
<1>3. OneNegotiation /\ NegotiatesWhenAvailable /\ ResumeHoldsId
  BY <1>2 DEF OneNegotiation, AtMostOne, NegotiatesWhenAvailable, ResumeHoldsId, InFlight, Init
<1>4. AlignedOrRestarting
  BY DEF AlignedOrRestarting, Init
<1>5. KnownIds
  BY <1>2 DEF KnownIds, Init, NoId
<1> QED BY <1>1, <1>3, <1>4, <1>5 DEF NegotiationInv

LEMMA NegotiationNext == NegotiationInv /\ [Next]_vars => NegotiationInv'
<1> SUFFICES ASSUME NegotiationInv, [Next]_vars PROVE NegotiationInv'
  OBVIOUS
<1>0. TypeOK'
  BY TypeNext DEF NegotiationInv
<1>1. ASSUME NEW ok \in BOOLEAN, ManualConnect(ok) \/ AutoReconnect(ok) PROVE NegotiationInv'
  BY <1>1, NegotiationDial
<1>2. CASE Connected \/ UserSend
  BY <1>2, NegotiationConnected, NegotiationUserSend
<1>3. CASE OnEnabled \/ OnResumed \/ OnFailed
  BY <1>3, NegotiationEnabled, NegotiationResumed, NegotiationFailed
<1>4. CASE SrvEnabling
  BY <1>4, NegotiationSrvEnable DEF SrvEnabling
<1>5. CASE SrvResume \/ SrvRefuse
  BY <1>5, NegotiationSrvResume, NegotiationSrvRefuse
<1>6. CASE OnAck \/ OnRequest \/ OnStanza \/ AckTimerTick \/ SrvStanza \/ SrvRequest \/ SrvAck
           \/ SrvSend \/ SrvSendOutside \/ SrvAsk \/ SrvForget
  BY <1>0, <1>6, NegotiationQuiet
<1>7. CASE LinkLost \/ CleanClose \/ UserDisconnect
  BY <1>7, NegotiationEnds
<1>8. CASE UNCHANGED vars
  <2>1. /\ UNCHANGED <<link, smEnabled, smAvailable, smId, hOut, outq, c2s, s2c, over>>
        /\ Len(sent') = Len(sent)
    BY <1>8 DEF vars, client, server, history
  <2>2. Keeps(c2s, c2s', Asks) /\ Keeps(s2c, s2c', Answers)
    BY <2>1, SameKeeps
  <2>3. Aligned => Aligned'
    BY <2>1 DEF Aligned
  <2> QED BY <1>0, <2>1, <2>2, <2>3, QuietStep
<1> QED BY <1>1, <1>2, <1>3, <1>4, <1>5, <1>6, <1>7, <1>8 DEF Next, ClientReceive, ServerHandle

\* On an established stream under SM the queue is the tail of what hOut counts,
\* however often streams broke, closed, resumed or started afresh before: the
\* pruning loop of sm_handler removes exactly the stanzas that h stands for.
THEOREM QueueAlignedCorrect == Spec => []QueueAligned
<1>1. NegotiationInv => QueueAligned
  BY DEF NegotiationInv, AlignedOrRestarting, Aligned, QueueAligned, Negotiating, Asks, Answers
<1> QED BY <1>1, NegotiationInit, NegotiationNext, PTL DEF Spec

\* The client never asks to resume a session it was told is over.
THEOREM ResumeIsOpenCorrect == Spec => []ResumeIsOpen
<1>1. NegotiationInv => ResumeIsOpen
  <2> SUFFICES ASSUME NegotiationInv, NEW i \in DOMAIN c2s, c2s[i].kind = "resume"
               PROVE  c2s[i].id \notin over
    BY DEF ResumeIsOpen
  <2>1. smId # NoId
    BY DEF NegotiationInv, ResumeHoldsId, InFlight
  <2> QED BY <2>1 DEF NegotiationInv, KnownIds
<1> QED BY <1>1, NegotiationInit, NegotiationNext, PTL DEF Spec

-------------------------------------------------------------------------------
\* The stanzas on a channel that has reached its reader up to a, and leads to b:
\* f[i] is what the reader will have handled after the i-th element.
Upto(chan, a, b) ==
    \E f \in [0..Len(chan) -> 0..b] :
        /\ f[0] = a /\ f[Len(chan)] = b
        /\ \A i \in 1..Len(chan) :
              IF chan[i].kind = "stanza" THEN f[i] = f[i - 1] + 1 /\ chan[i].n = f[i]
                                         ELSE f[i] = f[i - 1]

\* A channel with nothing on it, or nothing but an answer, leads nowhere.
LEMMA UptoEmpty ==
    ASSUME NEW a \in Nat
    PROVE  /\ Upto(<<>>, a, a)
           /\ \A e : e.kind # "stanza" => Upto(<<e>>, a, a)
<1>1. Upto(<<>>, a, a)
  <2> DEFINE f == [i \in 0..0 |-> a]
  <2>1. f \in [0..0 -> 0..a] /\ f[0] = a
    OBVIOUS
  <2>2. Len(<<>>) = 0 /\ 1..0 = {}
    OBVIOUS
  <2> HIDE DEF f
  <2> QED BY <2>1, <2>2 DEF Upto
<1>2. ASSUME NEW e, e.kind # "stanza" PROVE Upto(<<e>>, a, a)
  <2> DEFINE f == [i \in 0..1 |-> a]
  <2>1. f \in [0..1 -> 0..a] /\ f[0] = a /\ f[1] = a
    OBVIOUS
  <2>2. Len(<<e>>) = 1 /\ <<e>>[1] = e
    OBVIOUS
  <2> HIDE DEF f
  <2>3. \A i \in 1..1 : f[i] = f[i - 1] /\ <<e>>[i].kind # "stanza"
    BY <1>2, <2>1, <2>2
  <2> QED BY <2>1, <2>2, <2>3 DEF Upto
<1> QED BY <1>1, <1>2

\* Reading one element.
LEMMA UptoTail ==
    ASSUME NEW q \in Seq(ServerElem), q # <<>>, NEW a \in Nat, NEW b \in Nat, Upto(q, a, b)
    PROVE  /\ Head(q).kind = "stanza" => Head(q).n = a + 1 /\ a < b /\ Upto(Tail(q), a + 1, b)
           /\ Head(q).kind # "stanza" => Upto(Tail(q), a, b)
<1> DEFINE p == Tail(q)
<1>1. /\ Len(q) \in Nat /\ Len(q) >= 1 /\ Len(p) = Len(q) - 1 /\ Head(q) = q[1]
      /\ \A i \in 1..Len(p) : p[i] = q[i + 1]
  BY HeadTailProperties, EmptySeq
<1>2. PICK f \in [0..Len(q) -> 0..b] :
          /\ f[0] = a /\ f[Len(q)] = b
          /\ \A i \in 1..Len(q) :
                IF q[i].kind = "stanza" THEN f[i] = f[i - 1] + 1 /\ q[i].n = f[i]
                                        ELSE f[i] = f[i - 1]
  BY DEF Upto
<1> DEFINE g == [i \in 0..Len(p) |-> f[i + 1]]
<1>3. g \in [0..Len(p) -> 0..b] /\ g[0] = f[1] /\ g[Len(p)] = b
  BY <1>1, <1>2
<1>4. \A i \in 1..Len(p) : g[i] = f[i + 1] /\ g[i - 1] = f[i]
  BY <1>1
<1> HIDE DEF p, g
<1>5. \A i \in 1..Len(p) : i + 1 \in 1..Len(q) /\ (i + 1) - 1 = i
  BY <1>1
<1>6. \A i \in 1..Len(p) :
          IF p[i].kind = "stanza" THEN g[i] = g[i - 1] + 1 /\ p[i].n = g[i]
                                  ELSE g[i] = g[i - 1]
  <2> TAKE i \in 1..Len(p)
  <2>1. i + 1 \in 1..Len(q) /\ (i + 1) - 1 = i /\ p[i] = q[i + 1]
    BY <1>1, <1>5
  <2>2. IF q[i + 1].kind = "stanza" THEN f[i + 1] = f[i] + 1 /\ q[i + 1].n = f[i + 1]
                                    ELSE f[i + 1] = f[i]
    BY <1>2, <2>1
  <2> QED BY <1>4, <2>1, <2>2
<1>7. Upto(p, f[1], b)
  BY <1>3, <1>6 DEF Upto
<1>8. IF q[1].kind = "stanza" THEN f[1] = a + 1 /\ q[1].n = a + 1 ELSE f[1] = a
  BY <1>1, <1>2
<1>9. f[1] \in 0..b
  BY <1>1, <1>2
<1> QED BY <1>1, <1>7, <1>8, <1>9 DEF p

\* Sending one element.
LEMMA UptoAppend ==
    ASSUME NEW q \in Seq(ServerElem), NEW a \in Nat, NEW b \in Nat, Upto(q, a, b),
           NEW e \in ServerElem
    PROVE  /\ e.kind # "stanza" => Upto(Append(q, e), a, b)
           /\ e.kind = "stanza" /\ e.n = b + 1 => Upto(Append(q, e), a, b + 1)
<1> DEFINE p == Append(q, e)
<1>1. /\ Len(q) \in Nat /\ Len(p) = Len(q) + 1 /\ p[Len(p)] = e
      /\ \A i \in 1..Len(q) : p[i] = q[i]
  OBVIOUS
<1>2. PICK f \in [0..Len(q) -> 0..b] :
          /\ f[0] = a /\ f[Len(q)] = b
          /\ \A i \in 1..Len(q) :
                IF q[i].kind = "stanza" THEN f[i] = f[i - 1] + 1 /\ q[i].n = f[i]
                                        ELSE f[i] = f[i - 1]
  BY DEF Upto
<1> HIDE DEF p
<1>3. ASSUME NEW c \in {b, b + 1}, IF e.kind = "stanza" THEN c = b + 1 /\ e.n = c ELSE c = b
      PROVE  Upto(p, a, c)
  <2> DEFINE g == [i \in 0..Len(p) |-> IF i = Len(p) THEN c ELSE f[i]]
  <2>1. \A i \in 0..Len(q) : g[i] = f[i] /\ f[i] \in 0..b
    BY <1>1, <1>2
  <2>2. g[Len(p)] = c /\ c \in Nat /\ b <= c
    BY <1>1, <1>3
  <2>3. g \in [0..Len(p) -> 0..c]
    <3>1. \A i \in 0..Len(p) : g[i] \in 0..c
      BY <1>1, <2>1, <2>2
    <3> QED BY <3>1
  <2> HIDE DEF g
  <2>4. \A i \in 1..Len(p) :
            IF p[i].kind = "stanza" THEN g[i] = g[i - 1] + 1 /\ p[i].n = g[i]
                                    ELSE g[i] = g[i - 1]
    <3> TAKE i \in 1..Len(p)
    <3>1. CASE i \in 1..Len(q)
      <4>1. i - 1 \in 0..Len(q) /\ i \in 0..Len(q)
        BY <1>1, <3>1
      <4> QED BY <1>1, <1>2, <2>1, <3>1, <4>1
    <3>2. CASE i = Len(p)
      <4>1. p[i] = e /\ g[i] = c /\ g[i - 1] = b
        BY <1>1, <1>2, <2>1, <2>2, <3>2
      <4> QED BY <1>3, <4>1
    <3> QED BY <1>1, <3>1, <3>2
  <2>5. g[0] = a
    BY <1>1, <1>2, <2>1
  <2> QED BY <2>2, <2>3, <2>4, <2>5 DEF Upto
<1> QED BY <1>3 DEF p

\* What a resumed stream starts with: the answer, then all that h lacks.
LEMMA UptoResumed ==
    ASSUME NEW h \in Nat, NEW b \in Nat, h <= b, NEW e \in ServerElem, e.kind # "stanza",
           NEW s \in Nat
    PROVE  Upto(<<e>> \o [i \in 1..(b - h) |-> Elem("stanza", h + i, s)], h, b)
<1> DEFINE k == b - h
           r == [i \in 1..k |-> Elem("stanza", h + i, s)]
           p == <<e>> \o r
           f == [i \in 0..(k + 1) |-> IF i = 0 THEN h ELSE h + i - 1]
<1>1. k \in Nat /\ h + k = b
  OBVIOUS
<1>2. r \in Seq(ServerElem) /\ Len(r) = k /\ \A i \in 1..k : r[i] = Elem("stanza", h + i, s)
  <2> HIDE DEF k
  <2>1. r \in Seq(ServerElem)
    BY <1>1, SentTypes
  <2>2. DOMAIN r = 1..k /\ \A i \in 1..k : r[i] = Elem("stanza", h + i, s)
    OBVIOUS
  <2> HIDE DEF r
  <2>3. Len(r) \in Nat /\ DOMAIN r = 1..Len(r)
    BY <2>1
  <2> QED BY <1>1, <2>1, <2>2, <2>3
<1> HIDE DEF r, k
<1>3. Len(p) = k + 1 /\ p[1] = e /\ \A i \in 2..(k + 1) : p[i] = Elem("stanza", h + (i - 1), s)
  BY <1>1, <1>2
<1> HIDE DEF p
<1>4. f \in [0..(k + 1) -> 0..b] /\ f[0] = h /\ f[1] = h /\ f[k + 1] = b
  BY <1>1
<1>5. \A i \in 2..(k + 1) : f[i] = f[i - 1] + 1 /\ f[i] = h + (i - 1)
  BY <1>1
<1> HIDE DEF f
<1>6. \A i \in 1..(k + 1) : IF p[i].kind = "stanza" THEN f[i] = f[i - 1] + 1 /\ p[i].n = f[i]
                                                    ELSE f[i] = f[i - 1]
  <2> TAKE i \in 1..(k + 1)
  <2>1. CASE i = 1
    BY <1>3, <1>4, <2>1
  <2>2. CASE i \in 2..(k + 1)
    <3>1. p[i].kind = "stanza" /\ p[i].n = h + (i - 1)
      <4>1. p[i] = Elem("stanza", h + (i - 1), s)
        BY <1>3, <2>2
      <4> QED BY <4>1 DEF Elem
    <3> QED BY <1>5, <2>2, <3>1
  <2> QED BY <1>1, <2>1, <2>2
<1>7. Upto(p, h, b)
  BY <1>3, <1>4, <1>6 DEF Upto
<1> QED BY <1>7 DEF p, r, k

-------------------------------------------------------------------------------
\* The invariant.

\* A stream opens with the client's request; nothing comes from the server before
\* its answer, and the answer comes before everything else.
OneStream ==
    /\ link # "up" => c2s = <<>> /\ s2c = <<>> /\ ~counting
    /\ \A i \in DOMAIN c2s : c2s[i].kind \in Asks => i = 1
    /\ \A i \in DOMAIN s2c : s2c[i].kind \in Answers => i = 1
    /\ InFlight(c2s, Asks) => s2c = <<>> /\ ~counting
    /\ InFlight(s2c, {"enabled", "resumed"}) => counting
    /\ InFlight(s2c, {"failed"}) => ~counting /\ ~InFlight(s2c, {"stanza"})

\* A stream serves a session once it negotiated one, and only that session.
Served ==
    /\ link = "up" /\ smAvailable => counting \/ InFlight(c2s, Asks) \/ InFlight(s2c, Answers)
    /\ ~smAvailable => smId = NoId
    /\ \A i \in DOMAIN s2c :
          /\ s2c[i].kind = "stanza" => s2c[i].id = IF counting THEN Session ELSE 0
          /\ s2c[i].kind = "enabled" => s2c[i].id \in {NoId, Session}

\* The client's count is the length of the log of the session it holds, and of the
\* one its stream serves; what is on the stream continues that log.
InStep ==
    /\ smId # NoId => smEnabled /\ hIn = Len(logs[smId])
    /\ \A i \in DOMAIN c2s : /\ c2s[i].kind = "resume" => c2s[i].n = hIn
                             /\ c2s[i].kind = "enable" => smId = NoId
    /\ counting =>
          /\ InFlight(s2c, {"enabled"}) => smId = NoId /\ logs[Session] = <<>>
          /\ ~InFlight(s2c, {"enabled"}) =>
                smEnabled /\ hIn = Len(logs[Session]) /\ smId \in {NoId, Session}
          /\ Upto(s2c, Len(logs[Session]), sent[Session])

DeliveryInv == NegotiationInv /\ OneStream /\ Served /\ InStep /\ InboundExactlyOnce

-------------------------------------------------------------------------------
\* Elements that only come first.

\* The only element of these kinds is the first, and stays it.
KeepsFirst(q, p, kinds) ==
    /\ \A i \in DOMAIN p : p[i].kind \in kinds => i = 1 /\ q # <<>> /\ p[1] = q[1]
    /\ InFlight(q, kinds) => InFlight(p, kinds)

LEMMA FirstKept ==
    ASSUME NEW S, NEW q \in Seq(S), NEW kinds, \A i \in DOMAIN q : q[i].kind \in kinds => i = 1
    PROVE  /\ KeepsFirst(q, q, kinds)
           /\ \A e \in S : e.kind \notin kinds => KeepsFirst(q, Append(q, e), kinds)
           /\ \A r \in Seq(S) : ~InFlight(r, kinds) => KeepsFirst(q, q \o r, kinds)
           /\ q # <<>> => /\ ~InFlight(Tail(q), kinds)
                          /\ InFlight(q, kinds) <=> Head(q).kind \in kinds
                          /\ Head(q).kind \notin kinds => KeepsFirst(q, Tail(q), kinds)
<1>1. KeepsFirst(q, q, kinds)
  BY EmptySeq DEF KeepsFirst
<1>2. ASSUME NEW r \in Seq(S), ~InFlight(r, kinds)
      PROVE  KeepsFirst(q, q \o r, kinds)
  <2>1. /\ Len(q) \in Nat /\ Len(r) \in Nat
        /\ DOMAIN q = 1..Len(q) /\ DOMAIN r = 1..Len(r)
        /\ DOMAIN (q \o r) = 1..(Len(q) + Len(r))
        /\ \A i \in 1..Len(q) : (q \o r)[i] = q[i]
        /\ \A i \in (Len(q) + 1)..(Len(q) + Len(r)) : (q \o r)[i] = r[i - Len(q)]
    BY ConcatAt
  <2> DEFINE p == q \o r
  <2> HIDE DEF p
  <2>2. ASSUME NEW i \in DOMAIN p, p[i].kind \in kinds
        PROVE  i \in DOMAIN q
    <3>1. SUFFICES ASSUME i \notin DOMAIN q PROVE FALSE
      OBVIOUS
    <3>2. i \in (Len(q) + 1)..(Len(q) + Len(r))
      BY <2>1, <2>2, <3>1 DEF p
    <3>3. i - Len(q) \in DOMAIN r /\ r[i - Len(q)] = p[i]
      BY <2>1, <3>2 DEF p
    <3> QED BY <1>2, <2>2, <3>3 DEF InFlight
  <2>3. \A i \in DOMAIN q : i \in DOMAIN p /\ p[i] = q[i]
    BY <2>1 DEF p
  <2>4. InFlight(q, kinds) => InFlight(p, kinds)
    BY <2>3 DEF InFlight
  <2>5. ASSUME NEW i \in DOMAIN p, p[i].kind \in kinds
        PROVE  i = 1 /\ q # <<>> /\ p[1] = q[1]
    <3>1. i \in DOMAIN q /\ p[i] = q[i]
      BY <2>2, <2>3, <2>5
    <3>2. i = 1
      BY <2>5, <3>1
    <3>3. q # <<>>
      BY <2>1, <3>1, EmptySeq
    <3> QED BY <3>1, <3>2, <3>3
  <2> QED BY <2>4, <2>5 DEF KeepsFirst, p
<1>3. ASSUME NEW e \in S, e.kind \notin kinds
      PROVE  KeepsFirst(q, Append(q, e), kinds)
  <2>1. <<e>> \in Seq(S) /\ Append(q, e) = q \o <<e>>
    BY AppendIsConcat
  <2>2. ~InFlight(<<e>>, kinds)
    BY <1>3 DEF InFlight
  <2> QED BY <1>2, <2>1, <2>2
<1>4. ASSUME q # <<>>
      PROVE  /\ ~InFlight(Tail(q), kinds)
             /\ InFlight(q, kinds) <=> Head(q).kind \in kinds
             /\ Head(q).kind \notin kinds => KeepsFirst(q, Tail(q), kinds)
  <2>1. /\ Len(q) \in Nat /\ Len(q) # 0 /\ Head(q) = q[1]
        /\ DOMAIN q = 1..Len(q) /\ DOMAIN Tail(q) = 1..(Len(q) - 1)
        /\ \A i \in 1..(Len(q) - 1) : Tail(q)[i] = q[i + 1]
    BY <1>4, HeadTailProperties, EmptySeq
  <2>2. ~InFlight(Tail(q), kinds)
    <3> SUFFICES ASSUME NEW i \in DOMAIN Tail(q), Tail(q)[i].kind \in kinds PROVE FALSE
      BY DEF InFlight
    <3>1. i + 1 \in DOMAIN q /\ q[i + 1].kind \in kinds /\ i + 1 # 1
      BY <2>1
    <3> QED BY <3>1
  <2>3. InFlight(q, kinds) <=> Head(q).kind \in kinds
    BY <2>1 DEF InFlight
  <2> QED BY <2>2, <2>3 DEF KeepsFirst, InFlight
<1> QED BY <1>1, <1>2, <1>3, <1>4

-------------------------------------------------------------------------------
\* Steps that negotiate nothing.

LEMMA DeliveryTypes ==
    ASSUME DeliveryInv
    PROVE  /\ c2s \in Seq(ClientElem) /\ s2c \in Seq(ServerElem) /\ hIn \in Nat /\ smId \in Nat
           /\ sent \in Seq(Nat) /\ logs \in Seq(Seq(Nat)) /\ Len(logs) = Len(sent)
           /\ Session \in Nat /\ Session = Len(sent) /\ smId <= Len(sent)
           /\ smAvailable \in BOOLEAN /\ smEnabled \in BOOLEAN /\ counting \in BOOLEAN
           /\ counting => /\ Session \in DOMAIN logs /\ Session \in DOMAIN sent
                          /\ sent[Session] \in Nat /\ Len(logs[Session]) \in Nat
<1>1. /\ c2s \in Seq(ClientElem) /\ s2c \in Seq(ServerElem) /\ hIn \in Nat /\ smId \in Nat
      /\ sent \in Seq(Nat) /\ logs \in Seq(Seq(Nat)) /\ Len(logs) = Len(sent)
      /\ smAvailable \in BOOLEAN /\ smEnabled \in BOOLEAN /\ counting \in BOOLEAN
      /\ smId <= Len(sent) /\ (counting => sent # <<>>)
  BY DEF DeliveryInv, NegotiationInv, KnownIds, TypeOK, ClientTypes, StreamTypes, ServerTypes,
         HistoryTypes
<1>2. Session \in Nat /\ Session = Len(sent)
  BY <1>1 DEF Session
<1>3. ASSUME counting
      PROVE  /\ Session \in DOMAIN logs /\ Session \in DOMAIN sent
             /\ sent[Session] \in Nat /\ Len(logs[Session]) \in Nat
  <2>1. Len(sent) # 0
    BY <1>1, <1>3, EmptySeq
  <2>2. Session \in DOMAIN logs /\ Session \in DOMAIN sent
    BY <1>1, <1>2, <2>1
  <2>3. logs[Session] \in Seq(Nat) /\ sent[Session] \in Nat
    BY <1>1, <2>2, ElementOfSeq
  <2> QED BY <2>2, <2>3
<1> QED BY <1>1, <1>2, <1>3

\* The session stanzas on a channel.
OfSession(q) ==
    \A i \in DOMAIN q : q[i].kind = "stanza" => q[i].id = IF counting THEN Session ELSE 0

LEMMA OfSessionKept ==
    ASSUME NEW q \in Seq(ServerElem), OfSession(q)
    PROVE  /\ q # <<>> => OfSession(Tail(q))
           /\ \A e \in ServerElem :
                 (e.kind = "stanza" => e.id = IF counting THEN Session ELSE 0) =>
                     OfSession(Append(q, e))
<1>1. ASSUME q # <<>> PROVE OfSession(Tail(q))
  <2>1. DOMAIN q = 1..Len(q) /\ Len(q) \in Nat /\ DOMAIN Tail(q) = 1..(Len(q) - 1)
        /\ \A i \in 1..(Len(q) - 1) : Tail(q)[i] = q[i + 1]
    BY <1>1, HeadTailProperties, EmptySeq
  <2>2. \A i \in DOMAIN Tail(q) : i + 1 \in DOMAIN q /\ Tail(q)[i] = q[i + 1]
    BY <2>1
  <2> QED BY <2>2 DEF OfSession
<1>2. ASSUME NEW e \in ServerElem, e.kind = "stanza" => e.id = IF counting THEN Session ELSE 0
      PROVE  OfSession(Append(q, e))
  <2>1. \A i \in DOMAIN Append(q, e) :
            Append(q, e)[i] = e \/ (i \in DOMAIN q /\ Append(q, e)[i] = q[i])
    OBVIOUS
  <2> QED BY <1>2, <2>1 DEF OfSession
<1> QED BY <1>1, <1>2

\* A step that takes and gives other elements, on a stream that goes on.
LEMMA Flow ==
    ASSUME DeliveryInv, NegotiationInv',
           UNCHANGED <<link, smAvailable, smEnabled, smId, counting, hIn, logs>>,
           Len(sent') = Len(sent), link # "up" => UNCHANGED <<c2s, s2c>>,
           KeepsFirst(c2s, c2s', Asks), KeepsFirst(s2c, s2c', Answers),
           InFlight(c2s', Asks) => s2c' = <<>>,
           InFlight(s2c', {"failed"}) => ~InFlight(s2c', {"stanza"}),
           OfSession(s2c'),
           counting => Upto(s2c', Len(logs[Session]), sent'[Session])
    PROVE  DeliveryInv'
<1>0. /\ c2s \in Seq(ClientElem) /\ s2c \in Seq(ServerElem) /\ Session' = Session
      /\ OneStream /\ Served /\ InStep /\ InboundExactlyOnce
  BY DeliveryTypes DEF Session, DeliveryInv
<1>1. /\ \A i \in DOMAIN c2s' : c2s'[i].kind \in Asks => i = 1 /\ 1 \in DOMAIN c2s /\ c2s'[i] = c2s[1]
      /\ \A i \in DOMAIN s2c' : s2c'[i].kind \in Answers => i = 1 /\ 1 \in DOMAIN s2c /\ s2c'[i] = s2c[1]
  <2>1. /\ c2s # <<>> => 1 \in DOMAIN c2s
        /\ s2c # <<>> => 1 \in DOMAIN s2c
    BY <1>0, EmptySeq
  <2> QED BY <2>1 DEF KeepsFirst
<1>2. /\ InFlight(c2s', Asks) => InFlight(c2s, Asks)
      /\ InFlight(s2c', Answers) => InFlight(s2c, Answers)
      /\ InFlight(c2s, Asks) => InFlight(c2s', Asks)
      /\ InFlight(s2c, Answers) => InFlight(s2c', Answers)
  BY <1>1 DEF InFlight, KeepsFirst
<1>3. /\ InFlight(s2c', {"enabled", "resumed"}) => InFlight(s2c, {"enabled", "resumed"})
      /\ InFlight(s2c', {"failed"}) => InFlight(s2c, {"failed"})
      /\ InFlight(s2c', {"enabled"}) => InFlight(s2c, {"enabled"})
  BY <1>1 DEF InFlight, Answers
<1>4. InFlight(s2c, {"enabled"}) => InFlight(s2c', {"enabled"})
  <2> SUFFICES ASSUME InFlight(s2c, {"enabled"}) PROVE InFlight(s2c', {"enabled"})
    OBVIOUS
  <2>1. PICK j \in DOMAIN s2c : s2c[j].kind = "enabled"
    BY DEF InFlight
  <2>2. j = 1
    BY <1>0, <2>1 DEF OneStream, Answers
  <2>3. InFlight(s2c, Answers)
    BY <2>1 DEF InFlight, Answers
  <2>4. PICK i \in DOMAIN s2c' : s2c'[i].kind \in Answers
    BY <1>2, <2>3 DEF InFlight
  <2>5. s2c'[i].kind = "enabled"
    BY <1>1, <2>1, <2>2, <2>4
  <2> QED BY <2>5 DEF InFlight
<1>5. OneStream'
  <2>1. link' # "up" => c2s' = <<>> /\ s2c' = <<>> /\ ~counting'
    BY <1>0 DEF OneStream
  <2>2. InFlight(c2s', Asks) => s2c' = <<>> /\ ~counting'
    BY <1>0, <1>2 DEF OneStream
  <2>3. InFlight(s2c', {"enabled", "resumed"}) => counting'
    BY <1>0, <1>3 DEF OneStream
  <2>4. InFlight(s2c', {"failed"}) => ~counting' /\ ~InFlight(s2c', {"stanza"})
    BY <1>0, <1>3 DEF OneStream
  <2> QED BY <1>1, <2>1, <2>2, <2>3, <2>4 DEF OneStream
<1>6. Served'
  <2>1. link' = "up" /\ smAvailable' => counting' \/ InFlight(c2s', Asks) \/ InFlight(s2c', Answers)
    BY <1>0, <1>2 DEF Served
  <2>2. ~smAvailable' => smId' = NoId
    BY <1>0 DEF Served
  <2>3. \A i \in DOMAIN s2c' : s2c'[i].kind = "stanza" => s2c'[i].id = IF counting' THEN Session' ELSE 0
    BY <1>0 DEF OfSession
  <2>4. \A i \in DOMAIN s2c' : s2c'[i].kind = "enabled" => s2c'[i].id \in {NoId, Session'}
    BY <1>0, <1>1 DEF Served, Answers
  <2> QED BY <2>1, <2>2, <2>3, <2>4 DEF Served
<1>7. InStep'
  <2>1. smId' # NoId => smEnabled' /\ hIn' = Len(logs'[smId'])
    BY <1>0 DEF InStep
  <2>2. \A i \in DOMAIN c2s' : /\ c2s'[i].kind = "resume" => c2s'[i].n = hIn'
                               /\ c2s'[i].kind = "enable" => smId' = NoId
    BY <1>0, <1>1 DEF InStep, Asks
  <2>3. ASSUME counting'
        PROVE  /\ InFlight(s2c', {"enabled"}) => smId' = NoId /\ logs'[Session'] = <<>>
               /\ ~InFlight(s2c', {"enabled"}) =>
                     smEnabled' /\ hIn' = Len(logs'[Session']) /\ smId' \in {NoId, Session'}
               /\ Upto(s2c', Len(logs'[Session']), sent'[Session'])
    BY <1>0, <1>3, <1>4, <2>3 DEF InStep
  <2> QED BY <2>1, <2>2, <2>3 DEF InStep
<1>8. InboundExactlyOnce'
  BY <1>0 DEF InboundExactlyOnce
<1> QED BY <1>5, <1>6, <1>7, <1>8 DEF DeliveryInv

\* What the server sends, and what the client reads, besides answers and stanzas read.
LEMMA QuietServerChannel ==
    ASSUME DeliveryInv,
           \/ s2c' = s2c /\ sent' = sent
           \/ s2c # <<>> /\ Head(s2c).kind \in {"a", "r"} /\ s2c' = Tail(s2c) /\ sent' = sent
           \/ \E e \in ServerElem :
                 /\ s2c' = Append(s2c, e) /\ e.kind \in {"a", "r", "stanza"}
                 /\ e.kind # "stanza" => sent' = sent
                 /\ e.kind = "stanza" =>
                       /\ e.id = IF counting THEN Session ELSE 0
                       /\ counting => e.n = sent[Session] + 1 /\ sent'[Session] = e.n
                       /\ ~InFlight(s2c, {"failed"})
    PROVE  /\ KeepsFirst(s2c, s2c', Answers) /\ OfSession(s2c')
           /\ InFlight(s2c', {"failed"}) => ~InFlight(s2c', {"stanza"})
           /\ counting => Upto(s2c', Len(logs[Session]), sent'[Session])
<1>0. /\ s2c \in Seq(ServerElem) /\ OfSession(s2c)
      /\ \A i \in DOMAIN s2c : s2c[i].kind \in Answers => i = 1
      /\ InFlight(s2c, {"failed"}) => ~InFlight(s2c, {"stanza"})
      /\ counting => Upto(s2c, Len(logs[Session]), sent[Session])
      /\ counting => Len(logs[Session]) \in Nat /\ sent[Session] \in Nat
  BY DeliveryTypes DEF DeliveryInv, OneStream, Served, InStep, OfSession
<1>1. CASE s2c' = s2c /\ sent' = sent
  BY <1>0, <1>1, FirstKept
<1>2. CASE s2c # <<>> /\ Head(s2c).kind \in {"a", "r"} /\ s2c' = Tail(s2c) /\ sent' = sent
  <2>1. KeepsFirst(s2c, s2c', Answers) /\ ~InFlight(s2c', Answers)
    BY <1>0, <1>2, FirstKept DEF Answers
  <2>2. ~InFlight(s2c', {"failed"})
    BY <2>1 DEF InFlight, Answers
  <2>3. OfSession(s2c')
    BY <1>0, <1>2, OfSessionKept
  <2>4. counting => Upto(s2c', Len(logs[Session]), sent'[Session])
    BY <1>0, <1>2, UptoTail
  <2> QED BY <2>1, <2>2, <2>3, <2>4
<1>3. ASSUME NEW e \in ServerElem, s2c' = Append(s2c, e), e.kind \in {"a", "r", "stanza"},
             e.kind # "stanza" => sent' = sent,
             e.kind = "stanza" =>
                /\ e.id = IF counting THEN Session ELSE 0
                /\ counting => e.n = sent[Session] + 1 /\ sent'[Session] = e.n
                /\ ~InFlight(s2c, {"failed"})
      PROVE  /\ KeepsFirst(s2c, s2c', Answers) /\ OfSession(s2c')
             /\ InFlight(s2c', {"failed"}) => ~InFlight(s2c', {"stanza"})
             /\ counting => Upto(s2c', Len(logs[Session]), sent'[Session])
  <2>1. KeepsFirst(s2c, s2c', Answers)
    <3>1. e.kind \notin Answers
      BY <1>3 DEF Answers
    <3>2. KeepsFirst(s2c, Append(s2c, e), Answers)
      BY <1>0, <3>1, FirstKept
    <3> QED BY <1>3, <3>2
  <2>2. OfSession(s2c')
    BY <1>0, <1>3, OfSessionKept
  <2>3. \A i \in DOMAIN s2c' : s2c'[i] = e \/ (i \in DOMAIN s2c /\ s2c'[i] = s2c[i])
    BY <1>0, <1>3
  <2>4. InFlight(s2c', {"failed"}) => ~InFlight(s2c', {"stanza"})
    BY <1>0, <1>3, <2>3 DEF InFlight
  <2>5. counting => Upto(s2c', Len(logs[Session]), sent'[Session])
    <3>1. CASE e.kind = "stanza"
      BY <1>0, <1>3, <3>1, UptoAppend
    <3>2. CASE e.kind # "stanza"
      BY <1>0, <1>3, <3>2, UptoAppend
    <3> QED BY <3>1, <3>2
  <2> QED BY <2>1, <2>2, <2>4, <2>5
<1> QED BY <1>1, <1>2, <1>3

LEMMA DeliveryQuiet ==
    ASSUME ~EarlyPush, DeliveryInv, NegotiationInv',
           \/ UserSend \/ OnAck \/ OnRequest \/ AckTimerTick \/ SrvStanza \/ SrvRequest \/ SrvAck
           \/ SrvSend \/ SrvSendOutside \/ SrvAsk \/ SrvForget \/ UNCHANGED vars
    PROVE  DeliveryInv'
<1>0. /\ c2s \in Seq(ClientElem) /\ s2c \in Seq(ServerElem) /\ hIn \in Nat /\ Session \in Nat
      /\ \A i \in DOMAIN c2s : c2s[i].kind \in Asks => i = 1
      /\ InFlight(c2s, Asks) => s2c = <<>> /\ ~counting
      /\ link # "up" => c2s = <<>> /\ s2c = <<>>
      /\ handled \in Nat /\ sent \in Seq(Nat)
  BY DeliveryTypes DEF DeliveryInv, OneStream, NegotiationInv, TypeOK, ServerTypes
<1>1. UNCHANGED <<link, smAvailable, smEnabled, smId, counting, hIn, logs>>
  BY DEF UserSend, OnAck, OnRequest, AckTimerTick, SrvStanza, SrvRequest, SrvAck, SrvSend,
         SrvSendOutside, SrvAsk, SrvForget, vars, client, server, history
<1>2. link # "up" => UNCHANGED <<c2s, s2c>>
  BY DEF UserSend, Send, OnAck, OnRequest, Receive, AckTimerTick, SrvStanza, SrvRequest, SrvAck,
         ServerReceive, SrvSend, SrvSendOutside, SrvAsk, SrvForget, vars
<1>3. KeepsFirst(c2s, c2s', Asks)
  <2>1. CASE c2s' = c2s
    BY <1>0, <2>1, FirstKept
  <2>2. CASE c2s # <<>> /\ Head(c2s).kind \notin Asks /\ c2s' = Tail(c2s)
    BY <1>0, <2>2, FirstKept
  <2>3. CASE c2s' \in {Append(c2s, Elem("a", hIn, 0)), Append(c2s, Elem("r", 0, 0))}
    <3>1. Elem("a", hIn, 0) \in ClientElem /\ Elem("r", 0, 0) \in ClientElem
      BY <1>0 DEF Elem, ClientElem
    <3>2. Elem("a", hIn, 0).kind \notin Asks /\ Elem("r", 0, 0).kind \notin Asks
      BY DEF Elem, Asks
    <3>3. /\ KeepsFirst(c2s, Append(c2s, Elem("a", hIn, 0)), Asks)
          /\ KeepsFirst(c2s, Append(c2s, Elem("r", 0, 0)), Asks)
      BY <1>0, <3>1, <3>2, FirstKept
    <3> QED BY <2>3, <3>3
  <2>4. CASE UserSend /\ link = "up"
    <3> DEFINE r == [i \in 1..1 |-> Elem("stanza", msgs + i, 0)]
    <3>1. msgs \in Nat
      BY DEF DeliveryInv, NegotiationInv, TypeOK, HistoryTypes
    <3>2. r \in Seq(ClientElem)
      BY <3>1, SentTypes
    <3>3. \A i \in DOMAIN r : r[i].kind = "stanza"
      BY DEF Elem
    <3>4. c2s' = c2s \o <<>> \o r
      BY <2>4 DEF UserSend, Send
    <3> HIDE DEF r
    <3>5. c2s' = c2s \o r
      BY <1>0, <3>2, <3>4
    <3>6. ~InFlight(r, Asks)
      BY <3>3 DEF InFlight, Asks
    <3> QED BY <1>0, <3>2, <3>5, <3>6, FirstKept
  <2>5. \/ c2s' = c2s
        \/ c2s # <<>> /\ Head(c2s).kind \notin Asks /\ c2s' = Tail(c2s)
        \/ c2s' \in {Append(c2s, Elem("a", hIn, 0)), Append(c2s, Elem("r", 0, 0))}
        \/ UserSend /\ link = "up"
    <3>1. CASE UserSend
      BY <1>2, <3>1
    <3>2. CASE OnRequest \/ AckTimerTick
      BY <3>2 DEF OnRequest, AckTimerTick
    <3>3. CASE SrvStanza \/ SrvRequest \/ SrvAck
      BY <3>3 DEF SrvStanza, SrvRequest, SrvAck, ServerReceive, Asks
    <3>4. CASE OnAck \/ SrvSend \/ SrvSendOutside \/ SrvAsk \/ SrvForget \/ UNCHANGED vars
      BY <3>4 DEF OnAck, SrvSend, SrvSendOutside, SrvAsk, SrvForget, vars
    <3> QED BY <3>1, <3>2, <3>3, <3>4
  <2> QED BY <2>1, <2>2, <2>3, <2>4, <2>5
<1>4. InFlight(c2s', Asks) => InFlight(c2s, Asks)
  <2>1. c2s # <<>> => 1 \in DOMAIN c2s
    BY <1>0, EmptySeq
  <2> QED BY <1>3, <2>1 DEF KeepsFirst, InFlight
<1>5. InFlight(c2s', Asks) => s2c' = <<>>
  <2> SUFFICES ASSUME InFlight(c2s', Asks) PROVE s2c' = <<>>
    OBVIOUS
  <2>1. InFlight(c2s, Asks) /\ s2c = <<>> /\ ~counting
    BY <1>0, <1>4
  <2>2. Negotiating
    BY <2>1 DEF Negotiating, Asks
  <2>3. ~(SrvStanza \/ SrvRequest \/ SrvAck)
    <3>1. ASSUME c2s # <<>>, Head(c2s).kind \notin Asks PROVE FALSE
      BY <1>0, <2>1, <3>1, FirstKept
    <3> QED BY <3>1 DEF SrvStanza, SrvRequest, SrvAck, ServerReceive, Asks
  <2> QED BY <2>1, <2>2, <2>3 DEF UserSend, OnAck, OnRequest, Receive, AckTimerTick, SrvSend,
             SrvSendOutside, SrvAsk, SrvForget, vars
<1>6. /\ Len(sent') = Len(sent)
      /\ \/ s2c' = s2c /\ sent' = sent
         \/ s2c # <<>> /\ Head(s2c).kind \in {"a", "r"} /\ s2c' = Tail(s2c) /\ sent' = sent
         \/ \E e \in ServerElem :
               /\ s2c' = Append(s2c, e) /\ e.kind \in {"a", "r", "stanza"}
               /\ e.kind # "stanza" => sent' = sent
               /\ e.kind = "stanza" =>
                     /\ e.id = IF counting THEN Session ELSE 0
                     /\ counting => e.n = sent[Session] + 1 /\ sent'[Session] = e.n
                     /\ ~InFlight(s2c, {"failed"})
  <2>1. CASE SrvSend
    <3> DEFINE e == Elem("stanza", sent[Session] + 1, Session)
    <3>1. counting /\ Session \in DOMAIN sent /\ sent[Session] \in Nat
      BY <2>1, DeliveryTypes DEF SrvSend
    <3>2. sent' = [sent EXCEPT ![Session] = @ + 1] /\ sent'[Session] = sent[Session] + 1
      BY <2>1, <3>1 DEF SrvSend
    <3>3. Len(sent') = Len(sent)
      BY <1>0, <3>2
    <3>4. s2c' = Append(s2c, e) /\ e \in ServerElem /\ e.kind = "stanza" /\ e.id = Session
          /\ e.n = sent[Session] + 1
      BY <1>0, <2>1, <3>1, <3>2 DEF SrvSend, Elem, ServerElem
    <3>5. ~InFlight(s2c, {"failed"})
      BY <3>1 DEF DeliveryInv, OneStream
    <3> HIDE DEF e
    <3> QED BY <3>1, <3>2, <3>3, <3>4, <3>5
  <2>2. CASE SrvSendOutside
    <3> DEFINE e == Elem("stanza", 0, 0)
    <3>1. s2c' = Append(s2c, e) /\ e \in ServerElem /\ e.kind = "stanza" /\ e.id = 0
      BY <2>2 DEF SrvSendOutside, Elem, ServerElem
    <3>2. ~counting /\ ~InFlight(s2c, {"failed"}) /\ sent' = sent
      BY <2>2 DEF SrvSendOutside, Negotiating, InFlight, server
    <3> HIDE DEF e
    <3> QED BY <3>1, <3>2
  <2>3. CASE SrvRequest \/ SrvAsk
    <3>1. Elem("a", handled, 0) \in ServerElem /\ Elem("r", 0, 0) \in ServerElem
      BY <1>0 DEF Elem, ServerElem
    <3>2. Elem("a", handled, 0).kind = "a" /\ Elem("r", 0, 0).kind = "r"
      BY DEF Elem
    <3>3. sent' = sent /\ s2c' \in {s2c, Append(s2c, Elem("a", handled, 0)), Append(s2c, Elem("r", 0, 0))}
      BY <2>3 DEF SrvRequest, SrvAsk, server
    <3> QED BY <3>1, <3>2, <3>3
  <2>4. CASE OnAck \/ OnRequest
    BY <2>4 DEF OnAck, OnRequest, Receive, server
  <2>5. CASE UserSend \/ AckTimerTick \/ SrvStanza \/ SrvAck \/ SrvForget \/ UNCHANGED vars
    BY <2>5 DEF UserSend, AckTimerTick, SrvStanza, SrvAck, SrvForget, vars, server
  <2> QED BY <2>1, <2>2, <2>3, <2>4, <2>5
<1>7. /\ KeepsFirst(s2c, s2c', Answers) /\ OfSession(s2c')
      /\ InFlight(s2c', {"failed"}) => ~InFlight(s2c', {"stanza"})
      /\ counting => Upto(s2c', Len(logs[Session]), sent'[Session])
  BY <1>6, QuietServerChannel
<1> QED BY <1>1, <1>2, <1>3, <1>5, <1>6, <1>7, Flow

-------------------------------------------------------------------------------
\* Streams that begin and end.

LEMMA DeliverySilent ==
    ASSUME DeliveryInv, NegotiationInv', c2s' = <<>>, s2c' = <<>>, counting' = FALSE, link' # "up",
           logs' = logs, smEnabled' = smEnabled, smAvailable' \/ smAvailable' = smAvailable,
           smId' = NoId \/ (smId' = smId /\ hIn' = hIn)
    PROVE  DeliveryInv'
<1>1. ~InFlight(c2s', Asks) /\ \A kinds : ~InFlight(s2c', kinds)
  BY DEF InFlight
<1>2. OneStream'
  BY <1>1 DEF OneStream
<1>3. Served'
  <2>1. ~smAvailable' => smId' = NoId
    BY DEF DeliveryInv, Served
  <2> QED BY <2>1 DEF Served
<1>4. InStep'
  <2>1. smId' # NoId => smEnabled' /\ hIn' = Len(logs'[smId'])
    BY DEF DeliveryInv, InStep
  <2> QED BY <2>1 DEF InStep
<1>5. InboundExactlyOnce'
  BY DEF DeliveryInv, InboundExactlyOnce
<1> QED BY <1>2, <1>3, <1>4, <1>5 DEF DeliveryInv

LEMMA DeliveryDial ==
    ASSUME DeliveryInv, NegotiationInv', NEW ok \in BOOLEAN, ManualConnect(ok) \/ AutoReconnect(ok)
    PROVE  DeliveryInv'
<1>1. c2s' = <<>> /\ s2c' = <<>> /\ counting' = FALSE /\ link' # "up"
  BY DEF ManualConnect, AutoReconnect, Dial
<1>2. UNCHANGED <<logs, smEnabled, smId, hIn>> /\ (smAvailable' \/ smAvailable' = smAvailable)
  BY DEF ManualConnect, AutoReconnect, client, history
<1> QED BY <1>1, <1>2, DeliverySilent

LEMMA DeliveryEnds ==
    ASSUME DeliveryInv, NegotiationInv', LinkLost \/ CleanClose \/ UserDisconnect
    PROVE  DeliveryInv'
<1>1. c2s' = <<>> /\ s2c' = <<>> /\ counting' = FALSE /\ link' # "up"
  BY DEF LinkLost, CleanClose, UserDisconnect, Ends
<1>2. /\ UNCHANGED <<logs, smEnabled, smAvailable>>
      /\ smId' = NoId \/ (smId' = smId /\ hIn' = hIn)
  BY DEF LinkLost, CleanClose, UserDisconnect, client, history
<1> QED BY <1>1, <1>2, DeliverySilent

LEMMA DeliveryConnected == DeliveryInv /\ Connected /\ NegotiationInv' => DeliveryInv'
<1> SUFFICES ASSUME DeliveryInv, Connected, NegotiationInv' PROVE DeliveryInv'
  OBVIOUS
<1> DEFINE e == IF smId # NoId THEN Elem("resume", hIn, smId) ELSE Elem("enable", 0, 0)
           first == IF smAvailable THEN <<e>> ELSE <<>>
           r == [i \in 1..Burst |-> Elem("stanza", msgs + i, 0)]
<1>1. c2s = <<>> /\ s2c = <<>> /\ ~counting
  BY DEF Connected, DeliveryInv, OneStream
<1>2. /\ UNCHANGED <<smEnabled, smAvailable, smId, hIn, s2c, counting, logs>> /\ link' = "up"
      /\ Session' = Session
  BY DEF Connected, server, Session
<1>3. hIn \in Nat /\ smId \in Nat /\ smAvailable \in BOOLEAN /\ msgs \in Nat
  BY DEF DeliveryInv, NegotiationInv, TypeOK, ClientTypes, HistoryTypes
<1>4. /\ e \in ClientElem /\ e.kind \in Asks
      /\ e.kind = "resume" => smId # NoId /\ e.n = hIn
      /\ e.kind = "enable" => smId = NoId
  BY <1>3 DEF Elem, ClientElem, Asks
<1>5. r \in Seq(ClientElem) /\ ~InFlight(r, Asks)
  <2>1. r \in Seq(ClientElem)
    BY <1>3, BurstAssumption, SentTypes
  <2>2. \A i \in DOMAIN r : r[i].kind = "stanza"
    BY DEF Elem
  <2> HIDE DEF r
  <2> QED BY <2>1, <2>2 DEF InFlight, Asks
<1>6. c2s' = c2s \o first \o r
  <2>1. CASE ~smAvailable
    BY <2>1 DEF Connected, Send
  <2>2. CASE smAvailable /\ smId # NoId
    BY <2>2 DEF Connected, Send
  <2>3. CASE smAvailable /\ smId = NoId
    BY <2>3 DEF Connected, Send
  <2> QED BY <2>1, <2>2, <2>3, <1>3
<1> HIDE DEF e, r
<1>7. /\ \A i \in DOMAIN c2s' : c2s'[i].kind \in Asks => i = 1 /\ smAvailable /\ c2s'[i] = e
      /\ smAvailable => InFlight(c2s', Asks)
  <2>1. CASE smAvailable
    <3>1. <<e>> \in Seq(ClientElem) /\ c2s' = <<e>> \o r
      BY <1>1, <1>4, <1>5, <1>6, <2>1
    <3>2. \A i \in DOMAIN <<e>> : i = 1 /\ <<e>>[i] = e
      OBVIOUS
    <3>3. InFlight(<<e>>, Asks)
      BY <1>4 DEF InFlight
    <3>4. KeepsFirst(<<e>>, c2s', Asks)
      BY <1>5, <3>1, <3>2, FirstKept
    <3> QED BY <2>1, <3>2, <3>3, <3>4 DEF KeepsFirst
  <2>2. CASE ~smAvailable
    <3>1. c2s' = r
      BY <1>1, <1>5, <1>6, <2>2
    <3> QED BY <1>5, <2>2, <3>1 DEF InFlight
  <2> QED BY <1>3, <2>1, <2>2
<1>8. \A kinds : ~InFlight(s2c', kinds)
  BY <1>1, <1>2 DEF InFlight
<1>9. OneStream'
  BY <1>1, <1>2, <1>7, <1>8 DEF OneStream
<1>10. Served'
  BY <1>1, <1>2, <1>7 DEF DeliveryInv, Served
<1>11. InStep'
  <2>1. smId' # NoId => smEnabled' /\ hIn' = Len(logs'[smId'])
    BY <1>2 DEF DeliveryInv, InStep
  <2>2. \A i \in DOMAIN c2s' : /\ c2s'[i].kind = "resume" => c2s'[i].n = hIn'
                               /\ c2s'[i].kind = "enable" => smId' = NoId
    BY <1>2, <1>4, <1>7 DEF Asks
  <2> QED BY <1>1, <1>2, <2>1, <2>2 DEF InStep
<1>12. InboundExactlyOnce'
  BY <1>2 DEF DeliveryInv, InboundExactlyOnce
<1> QED BY <1>9, <1>10, <1>11, <1>12 DEF DeliveryInv

-------------------------------------------------------------------------------
\* The client takes the answer in.

\* An answer leaves the stream to what follows it.
LEMMA AnswerRead ==
    ASSUME DeliveryInv, NEW kind \in Answers, Receive(kind), UNCHANGED <<counting, sent>>
    PROVE  /\ ~InFlight(c2s, Asks)
           /\ ~InFlight(s2c', Answers)
           /\ link = "up" /\ Head(s2c).kind = kind /\ InFlight(s2c, {kind})
           /\ s2c # <<>>
           /\ OfSession(s2c)'
           /\ counting => Upto(s2c', Len(logs[Session]), sent[Session])
<1>0. /\ s2c \in Seq(ServerElem) /\ s2c # <<>> /\ Head(s2c).kind = kind /\ s2c' = Tail(s2c)
      /\ OfSession(s2c)
      /\ \A i \in DOMAIN s2c : s2c[i].kind \in Answers => i = 1
      /\ link = "up"
  BY DeliveryTypes DEF Receive, DeliveryInv, OneStream, Served, OfSession
<1>1. ~InFlight(s2c', Answers) /\ InFlight(s2c, Answers)
  BY <1>0, FirstKept
<1>2. 1 \in DOMAIN s2c /\ Head(s2c) = s2c[1]
  BY <1>0, EmptySeq
<1>3. InFlight(s2c, {kind})
  BY <1>0, <1>2 DEF InFlight
<1>4. ~InFlight(c2s, Asks)
  BY <1>1 DEF DeliveryInv, NegotiationInv, OneNegotiation
<1>6. OfSession(s2c')
  BY <1>0, OfSessionKept
<1>7. counting => Upto(s2c', Len(logs[Session]), sent[Session])
  <2> SUFFICES ASSUME counting PROVE Upto(s2c', Len(logs[Session]), sent[Session])
    OBVIOUS
  <2>1. Upto(s2c, Len(logs[Session]), sent[Session]) /\ Len(logs[Session]) \in Nat /\ sent[Session] \in Nat
    BY DeliveryTypes DEF DeliveryInv, InStep
  <2>2. Head(s2c).kind # "stanza"
    BY <1>0 DEF Answers
  <2> QED BY <1>0, <2>1, <2>2, UptoTail
<1>8. OfSession(s2c)'
  BY <1>6 DEF OfSession, Session
<1> QED BY <1>0, <1>1, <1>3, <1>4, <1>7, <1>8

LEMMA DeliveryEnabled == DeliveryInv /\ OnEnabled /\ NegotiationInv' => DeliveryInv'
<1> SUFFICES ASSUME DeliveryInv, OnEnabled, NegotiationInv' PROVE DeliveryInv'
  OBVIOUS
<1>1. /\ UNCHANGED <<link, smAvailable, c2s, counting, sent, logs>> /\ Session' = Session
      /\ Receive("enabled") /\ smEnabled' = TRUE /\ hIn' = 0
  BY DEF OnEnabled, server, history, Session
<1>2. /\ ~InFlight(c2s, Asks)
      /\ ~InFlight(s2c', Answers)
      /\ link = "up" /\ Head(s2c).kind = "enabled" /\ InFlight(s2c, {"enabled"}) /\ s2c # <<>>
      /\ OfSession(s2c)'
      /\ counting => Upto(s2c', Len(logs[Session]), sent[Session])
  <2>1. "enabled" \in Answers /\ UNCHANGED <<counting, sent>>
    BY <1>1 DEF Answers
  <2> QED BY <1>1, <2>1, AnswerRead
<1>3. counting /\ smId = NoId /\ logs[Session] = <<>>
  <2>1. InFlight(s2c, {"enabled", "resumed"})
    BY <1>2 DEF InFlight
  <2> QED BY <1>2, <2>1 DEF DeliveryInv, OneStream, InStep
<1>4. smId' \in {NoId, Session}
  <2>1. s2c \in Seq(ServerElem)
    BY DeliveryTypes
  <2>2. 1 \in DOMAIN s2c /\ Head(s2c) = s2c[1]
    BY <1>2, <2>1, EmptySeq
  <2>3. Head(s2c).id \in {NoId, Session}
    BY <1>2, <2>2 DEF DeliveryInv, Served
  <2> QED BY <1>3, <2>3 DEF OnEnabled
<1>5. OneStream'
  <2>1. ~InFlight(s2c', {"failed"}) /\ ~InFlight(s2c', {"enabled", "resumed"})
    BY <1>2 DEF Answers, InFlight
  <2>2. \A i \in DOMAIN s2c' : s2c'[i].kind \notin Answers
    BY <1>2 DEF InFlight
  <2>3. \A i \in DOMAIN c2s' : c2s'[i].kind \notin Asks
    BY <1>1, <1>2 DEF InFlight
  <2> QED BY <1>1, <1>2, <2>1, <2>2, <2>3 DEF OneStream
<1>6. Served'
  <2>1. smAvailable
    BY <1>2 DEF DeliveryInv, NegotiationInv, NegotiatesWhenAvailable, InFlight, Answers
  <2>2. \A i \in DOMAIN s2c' : s2c'[i].kind # "enabled"
    BY <1>2 DEF InFlight, Answers
  <2> QED BY <1>1, <1>2, <1>3, <2>1, <2>2 DEF Served, OfSession
<1>7. InStep'
  <2>1. \A i \in DOMAIN c2s' : c2s'[i].kind \notin {"resume", "enable"}
    BY <1>1, <1>2 DEF InFlight, Asks
  <2>2. hIn' = Len(logs'[Session'])
    BY <1>1, <1>3
  <2>3. ~InFlight(s2c', {"enabled"})
    BY <1>2 DEF Answers, InFlight
  <2>4. Upto(s2c', Len(logs'[Session']), sent'[Session'])
    BY <1>1, <1>2, <1>3
  <2> QED BY <1>1, <1>4, <2>1, <2>2, <2>3, <2>4 DEF InStep
<1>8. InboundExactlyOnce'
  BY <1>1 DEF DeliveryInv, InboundExactlyOnce
<1> QED BY <1>5, <1>6, <1>7, <1>8 DEF DeliveryInv

LEMMA DeliveryResumed == DeliveryInv /\ OnResumed /\ NegotiationInv' => DeliveryInv'
<1> SUFFICES ASSUME DeliveryInv, OnResumed, NegotiationInv' PROVE DeliveryInv'
  OBVIOUS
<1> DEFINE r == [i \in 1..Len(outq') |-> Elem("stanza", outq'[i].msg, 0)]
<1>1. /\ UNCHANGED <<link, smAvailable, smEnabled, smId, hIn, counting, sent, logs>>
      /\ Session' = Session /\ Receive("resumed") /\ c2s' = c2s \o r
  BY DEF OnResumed, server, Session
<1>2. /\ ~InFlight(c2s, Asks)
      /\ ~InFlight(s2c', Answers)
      /\ link = "up" /\ InFlight(s2c, {"resumed"}) /\ s2c # <<>>
      /\ OfSession(s2c)'
      /\ counting => Upto(s2c', Len(logs[Session]), sent[Session])
  <2>1. "resumed" \in Answers /\ UNCHANGED <<counting, sent>>
    BY <1>1 DEF Answers
  <2> QED BY <1>1, <2>1, AnswerRead
<1>3. counting /\ ~InFlight(s2c, {"enabled"})
  <2>1. InFlight(s2c, {"enabled", "resumed"})
    BY <1>2 DEF InFlight
  <2>2. AtMostOne(s2c, Answers)
    BY DEF DeliveryInv, NegotiationInv, OneNegotiation
  <2>3. ~InFlight(s2c, {"enabled"})
    BY <1>2, <2>2 DEF InFlight, AtMostOne, Answers
  <2> QED BY <2>1, <2>3 DEF DeliveryInv, OneStream
<1>4. ~InFlight(c2s', Asks)
  <2>1. c2s \in Seq(ClientElem) /\ outq' \in Seq(Queued)
    BY DeliveryTypes DEF NegotiationInv, TypeOK, ClientTypes
  <2>2. r \in Seq(ClientElem)
    BY <2>1, RetransmittedType
  <2>3. \A i \in DOMAIN r : r[i].kind = "stanza"
    BY DEF Elem
  <2> HIDE DEF r
  <2>4. ~InFlight(r, Asks)
    BY <2>3 DEF InFlight, Asks
  <2>5. KeepsFirst(c2s, c2s', Asks)
    BY <1>1, <2>1, <2>2, <2>4, FirstKept DEF DeliveryInv, OneStream
  <2>6. c2s # <<>> => 1 \in DOMAIN c2s
    BY <2>1, EmptySeq
  <2> QED BY <1>2, <2>5, <2>6 DEF KeepsFirst, InFlight
<1>5. /\ \A i \in DOMAIN s2c' : s2c'[i].kind \notin Answers
      /\ \A i \in DOMAIN c2s' : c2s'[i].kind \notin Asks
  BY <1>2, <1>4 DEF InFlight
<1>6. OneStream'
  BY <1>1, <1>2, <1>3, <1>5 DEF OneStream, InFlight, Answers
<1>7. Served'
  <2>1. ~smAvailable => smId = NoId
    BY DEF DeliveryInv, Served
  <2> QED BY <1>1, <1>2, <1>3, <1>5, <2>1 DEF Served, OfSession, Answers
<1>8. InStep'
  <2>1. smId' # NoId => smEnabled' /\ hIn' = Len(logs'[smId'])
    BY <1>1 DEF DeliveryInv, InStep
  <2>2. smEnabled' /\ hIn' = Len(logs'[Session']) /\ smId' \in {NoId, Session'}
    BY <1>1, <1>3 DEF DeliveryInv, InStep
  <2>3. Upto(s2c', Len(logs'[Session']), sent'[Session'])
    BY <1>1, <1>2, <1>3
  <2> QED BY <1>5, <2>1, <2>2, <2>3 DEF InStep, InFlight, Answers, Asks
<1>9. InboundExactlyOnce'
  BY <1>1 DEF DeliveryInv, InboundExactlyOnce
<1> QED BY <1>6, <1>7, <1>8, <1>9 DEF DeliveryInv

LEMMA DeliveryFailed == DeliveryInv /\ OnFailed /\ NegotiationInv' => DeliveryInv'
<1> SUFFICES ASSUME DeliveryInv, OnFailed, NegotiationInv' PROVE DeliveryInv'
  OBVIOUS
<1>1. /\ UNCHANGED <<link, counting, sent, logs, c2s>> /\ Session' = Session /\ Receive("failed")
      /\ smEnabled' = FALSE /\ smAvailable' = FALSE /\ smId' = NoId
  BY DEF OnFailed, server, Session
<1>2. /\ ~InFlight(c2s, Asks)
      /\ ~InFlight(s2c', Answers)
      /\ link = "up" /\ InFlight(s2c, {"failed"})
      /\ OfSession(s2c)'
  <2>1. "failed" \in Answers /\ UNCHANGED <<counting, sent>>
    BY <1>1 DEF Answers
  <2> QED BY <1>1, <2>1, AnswerRead
<1>3. ~counting
  BY <1>2 DEF DeliveryInv, OneStream
<1>4. /\ \A i \in DOMAIN s2c' : s2c'[i].kind \notin Answers
      /\ \A i \in DOMAIN c2s' : c2s'[i].kind \notin Asks
  BY <1>1, <1>2 DEF InFlight
<1>5. OneStream'
  BY <1>1, <1>2, <1>3, <1>4 DEF OneStream, InFlight, Answers
<1>6. Served'
  BY <1>1, <1>2, <1>4 DEF Served, OfSession, Answers
<1>7. InStep'
  BY <1>1, <1>3, <1>4 DEF InStep, Asks
<1>8. InboundExactlyOnce'
  BY <1>1 DEF DeliveryInv, InboundExactlyOnce
<1> QED BY <1>5, <1>6, <1>7, <1>8 DEF DeliveryInv

-------------------------------------------------------------------------------
\* The client handles a stanza.

\* It is the next of its session and counted, or it belongs to none and is not.
LEMMA NextStanza ==
    ASSUME DeliveryInv, OnStanza
    PROVE  /\ ~InFlight(c2s, Asks) /\ ~InFlight(s2c, Answers) /\ link = "up"
           /\ counting => /\ Head(s2c).id = Session /\ Session # 0
                          /\ Head(s2c).n = Len(logs[Session]) + 1 /\ Len(logs[Session]) < sent[Session]
                          /\ Upto(Tail(s2c), Len(logs[Session]) + 1, sent[Session])
                          /\ smEnabled /\ hIn = Len(logs[Session]) /\ smId \in {NoId, Session}
           /\ ~counting => Head(s2c).id = 0 /\ ~smEnabled /\ smId = NoId
<1>1. /\ s2c \in Seq(ServerElem) /\ s2c # <<>> /\ Head(s2c).kind = "stanza" /\ link = "up"
      /\ \A i \in DOMAIN s2c : s2c[i].kind \in Answers => i = 1
      /\ OfSession(s2c)
  BY DeliveryTypes DEF OnStanza, Receive, DeliveryInv, OneStream, Served, OfSession
<1>2. 1 \in DOMAIN s2c /\ Head(s2c) = s2c[1]
  BY <1>1, EmptySeq
<1>3. ~InFlight(s2c, Answers)
  BY <1>1, FirstKept DEF Answers
<1>4. ~InFlight(c2s, Asks)
  BY <1>1 DEF DeliveryInv, OneStream
<1>5. Head(s2c).id = IF counting THEN Session ELSE 0
  BY <1>1, <1>2 DEF OfSession
<1>6. ASSUME counting
      PROVE  /\ Head(s2c).id = Session /\ Session # 0
             /\ Head(s2c).n = Len(logs[Session]) + 1 /\ Len(logs[Session]) < sent[Session]
             /\ Upto(Tail(s2c), Len(logs[Session]) + 1, sent[Session])
             /\ smEnabled /\ hIn = Len(logs[Session]) /\ smId \in {NoId, Session}
  <2>1. /\ Len(logs[Session]) \in Nat /\ sent[Session] \in Nat /\ Session # 0
        /\ Upto(s2c, Len(logs[Session]), sent[Session])
    <3>1. Session \in DOMAIN sent /\ sent \in Seq(Nat)
      BY <1>6, DeliveryTypes
    <3> QED BY <1>6, <3>1, DeliveryTypes DEF DeliveryInv, InStep
  <2>2. ~InFlight(s2c, {"enabled"})
    BY <1>3 DEF InFlight, Answers
  <2> QED BY <1>1, <1>5, <1>6, <2>1, <2>2, UptoTail DEF DeliveryInv, InStep
<1>7. ASSUME ~counting
      PROVE  Head(s2c).id = 0 /\ ~smEnabled /\ smId = NoId
  <2>1. ~smAvailable
    BY <1>1, <1>3, <1>4, <1>7 DEF DeliveryInv, Served
  <2> QED BY <1>5, <1>7, <2>1 DEF DeliveryInv, Served, NegotiationInv, NegotiatesWhenAvailable
<1> QED BY <1>1, <1>3, <1>4, <1>6, <1>7

LEMMA DeliveryStanza == DeliveryInv /\ OnStanza /\ NegotiationInv' => DeliveryInv'
<1> SUFFICES ASSUME DeliveryInv, OnStanza, NegotiationInv' PROVE DeliveryInv'
  OBVIOUS
<1>1. /\ UNCHANGED <<link, smAvailable, smEnabled, smId, c2s, counting, sent>> /\ Session' = Session
      /\ hIn' = IF smEnabled THEN hIn + 1 ELSE hIn
      /\ s2c # <<>> /\ s2c' = Tail(s2c)
  BY DEF OnStanza, server, Session, Receive
<1>2. /\ ~InFlight(c2s, Asks) /\ ~InFlight(s2c, Answers) /\ link = "up"
      /\ counting => /\ Head(s2c).id = Session /\ Session # 0
                     /\ Head(s2c).n = Len(logs[Session]) + 1
                     /\ Upto(s2c', Len(logs[Session]) + 1, sent[Session])
                     /\ smEnabled /\ hIn = Len(logs[Session]) /\ smId \in {NoId, Session}
      /\ ~counting => Head(s2c).id = 0 /\ ~smEnabled /\ smId = NoId
  BY <1>1, NextStanza
<1>3. /\ s2c \in Seq(ServerElem) /\ logs \in Seq(Seq(Nat))
      /\ counting => Session \in DOMAIN logs /\ Len(logs[Session]) \in Nat
      /\ \A i \in DOMAIN s2c : s2c[i].kind \in Answers => i = 1
  BY DeliveryTypes DEF DeliveryInv, OneStream
<1>4. /\ ~InFlight(s2c', Answers) /\ OfSession(s2c')
  <2>1. OfSession(s2c)
    BY DEF DeliveryInv, Served, OfSession
  <2> QED BY <1>1, <1>3, <2>1, FirstKept, OfSessionKept
<1>5. /\ \A i \in DOMAIN s2c' : s2c'[i].kind \notin Answers
      /\ \A i \in DOMAIN c2s' : c2s'[i].kind \notin Asks
      /\ OfSession(s2c)'
  <2>1. OfSession(s2c)'
    BY <1>1, <1>4 DEF OfSession, Session
  <2> QED BY <1>1, <1>2, <1>4, <2>1 DEF InFlight
<1>6. IF counting
      THEN logs' = [logs EXCEPT ![Session] = Append(@, Len(logs[Session]) + 1)]
      ELSE logs' = logs
  BY <1>2 DEF OnStanza
<1>7. ASSUME counting
      PROVE  /\ Len(logs'[Session]) = Len(logs[Session]) + 1
             /\ hIn' = Len(logs'[Session])
             /\ \A s \in DOMAIN logs' : s \in DOMAIN logs /\ (s # Session => logs'[s] = logs[s])
             /\ logs'[Session] = Append(logs[Session], Len(logs[Session]) + 1)
             /\ logs[Session] \in Seq(Nat)
  <2>1. logs'[Session] = Append(logs[Session], Len(logs[Session]) + 1)
    BY <1>3, <1>6, <1>7
  <2>2. logs[Session] \in Seq(Nat)
    BY <1>3, <1>7, ElementOfSeq
  <2>3. Len(logs'[Session]) = Len(logs[Session]) + 1
    BY <2>1, <2>2
  <2>4. hIn' = Len(logs'[Session])
    BY <1>1, <1>2, <1>7, <2>3
  <2>5. \A s \in DOMAIN logs' : s \in DOMAIN logs /\ (s # Session => logs'[s] = logs[s])
    BY <1>3, <1>6, <1>7
  <2> QED BY <2>1, <2>2, <2>3, <2>4, <2>5
<1>8. OneStream'
  BY <1>1, <1>2, <1>5 DEF OneStream, InFlight, Answers
<1>9. Served'
  <2>1. /\ ~smAvailable => smId = NoId
        /\ smAvailable => counting
    BY <1>2 DEF DeliveryInv, Served
  <2> QED BY <1>1, <1>5, <2>1 DEF Served, OfSession, Answers
<1>10. InStep'
  <2>1. CASE counting
    <3>1. smId' # NoId => smEnabled' /\ hIn' = Len(logs'[smId'])
      BY <1>1, <1>2, <1>7, <2>1
    <3>2. Upto(s2c', Len(logs'[Session']), sent'[Session'])
      BY <1>1, <1>2, <1>7, <2>1
    <3>3. smEnabled' /\ hIn' = Len(logs'[Session']) /\ smId' \in {NoId, Session'}
      BY <1>1, <1>2, <1>7, <2>1
    <3> QED BY <1>5, <3>1, <3>2, <3>3 DEF InStep, InFlight, Answers, Asks
  <2>2. CASE ~counting
    BY <1>1, <1>2, <1>5, <2>2 DEF InStep, Asks
  <2> QED BY <2>1, <2>2
<1>11. InboundExactlyOnce'
  <2>1. CASE counting
    <3> SUFFICES ASSUME NEW s \in DOMAIN logs', NEW i \in DOMAIN logs'[s] PROVE logs'[s][i] = i
      BY DEF InboundExactlyOnce
    <3>1. CASE s = Session
      <4>1. i = Len(logs[Session]) + 1 \/ i \in DOMAIN logs[Session]
        BY <1>7, <2>1, <3>1
      <4>2. i \in DOMAIN logs[Session] => logs[Session][i] = i
        BY <1>3, <2>1 DEF DeliveryInv, InboundExactlyOnce
      <4> QED BY <1>7, <2>1, <3>1, <4>1, <4>2
    <3>2. CASE s # Session
      BY <1>7, <2>1, <3>2 DEF DeliveryInv, InboundExactlyOnce
    <3> QED BY <3>1, <3>2
  <2>2. CASE ~counting
    BY <1>6, <2>2 DEF DeliveryInv, InboundExactlyOnce
  <2> QED BY <2>1, <2>2
<1> QED BY <1>8, <1>9, <1>10, <1>11 DEF DeliveryInv

-------------------------------------------------------------------------------
\* The server answers.

\* The request is the first thing on a stream on which nothing has come back.
LEMMA RequestRead ==
    ASSUME DeliveryInv, NEW kind \in Asks, ServerReceive(kind)
    PROVE  /\ s2c = <<>> /\ ~counting /\ link = "up" /\ smAvailable /\ ~InFlight(c2s', Asks)
           /\ 1 \in DOMAIN c2s /\ Head(c2s) = c2s[1] /\ c2s[1].kind = kind
           /\ \A i \in DOMAIN c2s' : c2s'[i].kind \notin Asks
<1>1. /\ c2s \in Seq(ClientElem) /\ c2s # <<>> /\ Head(c2s).kind = kind /\ c2s' = Tail(c2s)
      /\ \A i \in DOMAIN c2s : c2s[i].kind \in Asks => i = 1
  BY DeliveryTypes DEF ServerReceive, DeliveryInv, OneStream
<1>2. ~InFlight(c2s', Asks) /\ InFlight(c2s, Asks)
  BY <1>1, FirstKept
<1>3. 1 \in DOMAIN c2s /\ Head(c2s) = c2s[1]
  BY <1>1, EmptySeq
<1>4. s2c = <<>> /\ ~counting
  BY <1>2 DEF DeliveryInv, OneStream
<1>5. link = "up" /\ smAvailable
  BY <1>2 DEF DeliveryInv, NegotiationInv, NegotiatesWhenAvailable
<1>6. \A i \in DOMAIN c2s' : c2s'[i].kind \notin Asks
  BY <1>2 DEF InFlight
<1> QED BY <1>1, <1>2, <1>3, <1>4, <1>5, <1>6

LEMMA DeliverySrvEnable ==
    ASSUME DeliveryInv, NegotiationInv', NEW resumable \in BOOLEAN, NEW named \in BOOLEAN,
           SrvEnable(resumable, named)
    PROVE  DeliveryInv'
<1> DEFINE e == Elem("enabled", 0, IF named THEN Session + 1 ELSE NoId)
<1>1. /\ s2c = <<>> /\ ~counting /\ link = "up" /\ smAvailable
      /\ 1 \in DOMAIN c2s /\ c2s[1].kind = "enable"
      /\ \A i \in DOMAIN c2s' : c2s'[i].kind \notin Asks
  BY RequestRead DEF SrvEnable, Asks
<1>2. smId = NoId
  BY <1>1 DEF DeliveryInv, InStep
<1>3. /\ UNCHANGED <<link, smAvailable, smId>> /\ counting' = TRUE
      /\ sent' = Append(sent, 0) /\ logs' = Append(logs, <<>>)
      /\ sent \in Seq(Nat) /\ logs \in Seq(Seq(Nat)) /\ Len(logs) = Len(sent)
  BY DeliveryTypes DEF SrvEnable, client
<1>4. Session' = Session + 1 /\ Session \in Nat /\ Session = Len(sent)
  BY <1>3 DEF Session
<1>5. logs'[Session'] = <<>> /\ sent'[Session'] = 0 /\ \A s \in DOMAIN logs : logs'[s] = logs[s]
  BY <1>3, <1>4
<1>6. s2c' = <<e>> /\ e.kind = "enabled" /\ e.id \in {NoId, Session'}
  BY <1>1, <1>4 DEF SrvEnable, Elem, NoId
<1> HIDE DEF e
<1>7. /\ \A i \in DOMAIN s2c' : i = 1 /\ s2c'[i] = e
      /\ InFlight(s2c', {"enabled"}) /\ InFlight(s2c', Answers) /\ ~InFlight(s2c', {"failed"})
  BY <1>6 DEF InFlight, Answers
<1>8. OneStream'
  BY <1>1, <1>3, <1>7 DEF OneStream, InFlight
<1>9. Served'
  BY <1>2, <1>3, <1>6, <1>7 DEF Served
<1>10. InStep'
  <2>1. Upto(s2c', Len(logs'[Session']), sent'[Session'])
    BY <1>5, <1>6, UptoEmpty
  <2> QED BY <1>1, <1>2, <1>3, <1>5, <1>7, <2>1 DEF InStep, Asks
<1>11. InboundExactlyOnce'
  <2> SUFFICES ASSUME NEW s \in DOMAIN logs', NEW i \in DOMAIN logs'[s] PROVE logs'[s][i] = i
    BY DEF InboundExactlyOnce
  <2>1. s \in DOMAIN logs \/ logs'[s] = <<>>
    BY <1>3, <1>4, <1>5
  <2> QED BY <1>5, <2>1 DEF DeliveryInv, InboundExactlyOnce
<1> QED BY <1>8, <1>9, <1>10, <1>11 DEF DeliveryInv

LEMMA DeliverySrvRefuse == DeliveryInv /\ SrvRefuse /\ NegotiationInv' => DeliveryInv'
<1> SUFFICES ASSUME DeliveryInv, SrvRefuse, NegotiationInv' PROVE DeliveryInv'
  OBVIOUS
<1> DEFINE e == Elem("failed", 0, 0)
<1>1. /\ s2c = <<>> /\ ~counting /\ link = "up" /\ smAvailable
      /\ \A i \in DOMAIN c2s' : c2s'[i].kind \notin Asks
  BY RequestRead DEF SrvRefuse, Asks
<1>2. UNCHANGED <<link, smAvailable, smEnabled, smId, hIn, counting, sent, logs>> /\ Session' = Session
  BY DEF SrvRefuse, client, history, Session
<1>3. s2c' = <<e>> /\ e.kind = "failed"
  BY <1>1 DEF SrvRefuse, Elem
<1> HIDE DEF e
<1>4. /\ \A i \in DOMAIN s2c' : i = 1 /\ s2c'[i] = e
      /\ InFlight(s2c', Answers)
  BY <1>3 DEF InFlight, Answers
<1>5. OneStream'
  BY <1>1, <1>2, <1>3, <1>4 DEF OneStream, InFlight
<1>6. Served'
  BY <1>1, <1>2, <1>3, <1>4 DEF Served
<1>7. InStep'
  BY <1>1, <1>2 DEF DeliveryInv, InStep, Asks
<1>8. InboundExactlyOnce'
  BY <1>2 DEF DeliveryInv, InboundExactlyOnce
<1> QED BY <1>5, <1>6, <1>7, <1>8 DEF DeliveryInv

LEMMA DeliverySrvResume == DeliveryInv /\ SrvResume /\ NegotiationInv' => DeliveryInv'
<1> SUFFICES ASSUME DeliveryInv, SrvResume, NegotiationInv' PROVE DeliveryInv'
  OBVIOUS
<1> DEFINE e == Elem("resumed", handled, Session)
           h == Head(c2s).n
           r == [i \in 1..(sent[Session] - h) |-> Elem("stanza", h + i, Session)]
<1>1. /\ s2c = <<>> /\ ~counting /\ link = "up" /\ smAvailable
      /\ 1 \in DOMAIN c2s /\ Head(c2s) = c2s[1] /\ c2s[1].kind = "resume"
      /\ \A i \in DOMAIN c2s' : c2s'[i].kind \notin Asks
  BY RequestRead DEF SrvResume, Asks
<1>2. /\ UNCHANGED <<link, smAvailable, smEnabled, smId, hIn, sent, logs>> /\ Session' = Session
      /\ counting' = TRUE
  BY DEF SrvResume, client, history, Session
<1>3. /\ InFlight(c2s, {"resume"}) /\ smId # NoId
      /\ smId = Session /\ hIn = h /\ smEnabled /\ hIn = Len(logs[Session])
  <2>1. InFlight(c2s, {"resume"})
    BY <1>1 DEF InFlight
  <2>2. smId # NoId
    BY <2>1 DEF DeliveryInv, NegotiationInv, ResumeHoldsId
  <2>3. Head(c2s).id = smId /\ Head(c2s).id = Session
    BY <1>1 DEF DeliveryInv, NegotiationInv, KnownIds, SrvResume
  <2>4. c2s[1].n = hIn
    BY <1>1 DEF DeliveryInv, InStep
  <2>5. smEnabled /\ hIn = Len(logs[smId])
    BY <2>2 DEF DeliveryInv, InStep
  <2> QED BY <1>1, <2>1, <2>2, <2>3, <2>4, <2>5
<1>4. /\ h \in Nat /\ sent[Session] \in Nat /\ h <= sent[Session] /\ Session \in Nat /\ handled \in Nat
      /\ Len(logs[Session]) \in Nat /\ Session # 0
  <2>1. Session \in DOMAIN sent /\ sent \in Seq(Nat) /\ hIn \in Nat /\ Session \in Nat
    <3>1. sent \in Seq(Nat) /\ Session = Len(sent) /\ Session \in Nat /\ hIn \in Nat
      BY DeliveryTypes
    <3>2. Session # 0
      BY <1>3 DEF NoId
    <3> QED BY <3>1, <3>2
  <2>2. handled \in Nat
    BY DEF DeliveryInv, NegotiationInv, TypeOK, ServerTypes
  <2> QED BY <1>3, <2>1, <2>2, ElementOfSeq DEF SrvResume
<1>5. e \in ServerElem /\ e.kind = "resumed"
  BY <1>4 DEF Elem, ServerElem
<1>6. /\ r \in Seq(ServerElem) /\ s2c' = <<e>> \o r
      /\ \A i \in DOMAIN r : r[i].kind = "stanza" /\ r[i].id = Session
  <2>1. sent[Session] - h \in Nat
    BY <1>4
  <2>2. r \in Seq(ServerElem)
    BY <1>4, <2>1, SentTypes
  <2>3. s2c' = <<>> \o <<e>> \o r
    BY <1>1 DEF SrvResume
  <2>4. <<>> \o <<e>> = <<e>>
    OBVIOUS
  <2>5. \A i \in DOMAIN r : r[i].kind = "stanza" /\ r[i].id = Session
    BY DEF Elem
  <2> QED BY <2>2, <2>3, <2>4, <2>5
<1>7. Upto(s2c', h, sent[Session])
  <2> HIDE DEF e, h
  <2>1. Upto(<<e>> \o [i \in 1..(sent[Session] - h) |-> Elem("stanza", h + i, Session)], h, sent[Session])
    BY <1>4, <1>5, UptoResumed
  <2> QED BY <1>6, <2>1
<1> HIDE DEF e, r, h
<1>8. /\ \A i \in DOMAIN s2c' : (i = 1 /\ s2c'[i] = e) \/ (s2c'[i].kind = "stanza" /\ s2c'[i].id = Session)
      /\ 1 \in DOMAIN s2c' /\ s2c'[1] = e
  <2>1. <<e>> \in Seq(ServerElem) /\ Len(<<e>>) = 1 /\ <<e>>[1] = e
    BY <1>5
  <2>2. /\ DOMAIN r = 1..Len(r) /\ Len(r) \in Nat
        /\ DOMAIN s2c' = 1..(1 + Len(r))
        /\ s2c'[1] = e
        /\ \A i \in 2..(1 + Len(r)) : s2c'[i] = r[i - 1]
    BY <1>6, <2>1, ConcatAt
  <2>3. \A i \in 2..(1 + Len(r)) : i - 1 \in DOMAIN r
    BY <2>2
  <2>4. \A i \in DOMAIN s2c' : i = 1 \/ i \in 2..(1 + Len(r))
    BY <2>2
  <2> QED BY <1>6, <2>2, <2>3, <2>4
<1>9. OneStream'
  BY <1>1, <1>2, <1>5, <1>8 DEF OneStream, InFlight, Answers
<1>10. Served'
  BY <1>2, <1>3, <1>5, <1>8 DEF Served, DeliveryInv
<1>11. InStep'
  <2>1. ~InFlight(s2c', {"enabled"})
    BY <1>5, <1>8 DEF InFlight
  <2> QED BY <1>1, <1>2, <1>3, <1>7, <2>1 DEF InStep, Asks
<1>12. InboundExactlyOnce'
  BY <1>2 DEF DeliveryInv, InboundExactlyOnce
<1> QED BY <1>9, <1>10, <1>11, <1>12 DEF DeliveryInv

-------------------------------------------------------------------------------
LEMMA DeliveryInit == Init => DeliveryInv
<1> SUFFICES ASSUME Init PROVE DeliveryInv
  OBVIOUS
<1>1. c2s = <<>> /\ s2c = <<>> /\ counting = FALSE /\ logs = <<>> /\ smId = NoId /\ link # "up"
  BY DEF Init
<1>2. OneStream /\ Served /\ InStep /\ InboundExactlyOnce
  BY <1>1 DEF OneStream, Served, InStep, InboundExactlyOnce, InFlight
<1> QED BY <1>2, NegotiationInit DEF DeliveryInv

LEMMA DeliveryNext == ~EarlyPush /\ DeliveryInv /\ [Next]_vars => DeliveryInv'
<1> SUFFICES ASSUME ~EarlyPush, DeliveryInv, [Next]_vars PROVE DeliveryInv'
  OBVIOUS
<1>0. NegotiationInv'
  BY NegotiationNext DEF DeliveryInv
<1>1. ASSUME NEW ok \in BOOLEAN, ManualConnect(ok) \/ AutoReconnect(ok) PROVE DeliveryInv'
  BY <1>0, <1>1, DeliveryDial
<1>2. CASE Connected
  BY <1>0, <1>2, DeliveryConnected
<1>3. CASE OnEnabled \/ OnResumed \/ OnFailed \/ OnStanza
  BY <1>0, <1>3, DeliveryEnabled, DeliveryResumed, DeliveryFailed, DeliveryStanza
<1>4. CASE SrvEnabling
  BY <1>0, <1>4, DeliverySrvEnable DEF SrvEnabling
<1>5. CASE SrvResume \/ SrvRefuse
  BY <1>0, <1>5, DeliverySrvResume, DeliverySrvRefuse
<1>6. CASE \/ UserSend \/ OnAck \/ OnRequest \/ AckTimerTick \/ SrvStanza \/ SrvRequest \/ SrvAck
           \/ SrvSend \/ SrvSendOutside \/ SrvAsk \/ SrvForget \/ UNCHANGED vars
  BY <1>0, <1>6, DeliveryQuiet
<1>7. CASE LinkLost \/ CleanClose \/ UserDisconnect
  BY <1>0, <1>7, DeliveryEnds
<1> QED BY <1>1, <1>2, <1>3, <1>4, <1>5, <1>6, <1>7 DEF Next, ClientReceive, ServerHandle

\* What the client handled of a session is its stanzas from the first, in order and
\* each once, over any number of streams: the h of <resume/> and of <a/>, which is
\* sm_h_inbound, is neither behind nor ahead of what the handlers were given.
THEOREM InboundExactlyOnceCorrect ==
    ASSUME ~EarlyPush
    PROVE  Spec => []InboundExactlyOnce
<1>1. Init => DeliveryInv
  BY DeliveryInit
<1>2. DeliveryInv /\ [Next]_vars => DeliveryInv'
  BY DeliveryNext
<1>3. DeliveryInv => InboundExactlyOnce
  BY DEF DeliveryInv
<1> QED BY <1>1, <1>2, <1>3, PTL DEF Spec

-------------------------------------------------------------------------------
\* The refinement.

\* What only passes by the sessions is a step the abstract protocol does not see.
LEMMA SessionsUnseen ==
    ASSUME [Next]_vars, ~OnStanza, ~SrvEnabling, ~SrvSend
    PROVE  UNCHANGED <<sent, logs>>
<1>1. ASSUME NEW ok \in BOOLEAN, ManualConnect(ok) \/ AutoReconnect(ok) PROVE UNCHANGED <<sent, logs>>
  BY <1>1 DEF ManualConnect, AutoReconnect, history
<1>2. CASE Connected \/ UserSend \/ AckTimerTick
  BY <1>2 DEF Connected, UserSend, AckTimerTick, server, history
<1>3. CASE OnEnabled \/ OnResumed \/ OnFailed \/ OnAck \/ OnRequest
  BY <1>3 DEF OnEnabled, OnResumed, OnFailed, OnAck, OnRequest, server, history
<1>4. CASE SrvResume \/ SrvRefuse \/ SrvStanza \/ SrvRequest \/ SrvAck
  BY <1>4 DEF SrvResume, SrvRefuse, SrvStanza, SrvRequest, SrvAck, server, history
<1>5. CASE SrvSendOutside \/ SrvAsk \/ SrvForget
  BY <1>5 DEF SrvSendOutside, SrvAsk, SrvForget, server, history
<1>6. CASE LinkLost \/ CleanClose \/ UserDisconnect
  BY <1>6 DEF LinkLost, CleanClose, UserDisconnect, history
<1>7. CASE UNCHANGED vars
  BY <1>7 DEF vars, server, history
<1> QED BY <1>1, <1>2, <1>3, <1>4, <1>5, <1>6, <1>7 DEF Next, ClientReceive, ServerHandle

\* <enabled/> opens a session, a stanza sent posts to it, and a stanza handled is the
\* next one of it; everything else stutters.
LEMMA DeliveryStep == DeliveryInv /\ [Next]_vars => [Delivery!Next]_(Delivery!vars)
<1> SUFFICES ASSUME DeliveryInv, [Next]_vars PROVE Delivery!Next \/ UNCHANGED <<sent, logs>>
  BY DEF Delivery!vars
<1>1. CASE OnStanza
  <2>1. CASE counting
    <3>1. /\ Head(s2c).id = Session /\ Session # 0 /\ Head(s2c).n = Len(logs[Session]) + 1
          /\ Len(logs[Session]) < sent[Session] /\ Session \in DOMAIN logs
      BY <1>1, <2>1, NextStanza, DeliveryTypes
    <3>2. logs' = [logs EXCEPT ![Session] = Append(@, Len(@) + 1)] /\ sent' = sent
      BY <1>1, <3>1 DEF OnStanza, server
    <3>3. Delivery!Handle(Session)
      BY <3>1, <3>2 DEF Delivery!Handle
    <3> QED BY <3>1, <3>3 DEF Delivery!Next
  <2>2. CASE ~counting
    BY <1>1, <2>2, NextStanza DEF OnStanza, server
  <2> QED BY <2>1, <2>2
<1>2. CASE SrvEnabling
  BY <1>2 DEF SrvEnabling, SrvEnable, Delivery!Open, Delivery!Next
<1>3. CASE SrvSend
  <2>1. sent # <<>> /\ logs' = logs /\ sent' = [sent EXCEPT ![Len(sent)] = @ + 1]
    BY <1>3 DEF SrvSend, Session, history, DeliveryInv, NegotiationInv, TypeOK, ServerTypes
  <2> QED BY <2>1 DEF Delivery!Post, Delivery!Next
<1> QED BY <1>1, <1>2, <1>3, SessionsUnseen

\* The detailed protocol, with its streams, counters, acks, resumptions and refusals,
\* implements SessionDelivery: to who looks at the sessions only, the server posts and
\* the client handles what was posted, in order, nothing lost and nothing twice.
THEOREM DeliveryCorrect ==
    ASSUME ~EarlyPush
    PROVE  Spec => DeliverySpec
<1>1. Init => DeliveryInv
  BY DeliveryInit
<1>2. DeliveryInv /\ [Next]_vars => DeliveryInv'
  BY DeliveryNext
<1>3. Init => Delivery!Init
  BY DEF Init, Delivery!Init
<1>4. DeliveryInv /\ [Next]_vars => [Delivery!Next]_(Delivery!vars)
  BY DeliveryStep
<1> QED BY <1>1, <1>2, <1>3, <1>4, PTL DEF Spec, DeliverySpec, Delivery!Spec

-------------------------------------------------------------------------------
\* Stanzas on a channel, and stanzas in the queue.

\* Where the first k elements of a channel are stanzas, how many they are, and which.
Places(q, k)  == {i \in 1..k : q[i].kind = "stanza"}
Count(q, k)   == Cardinality(Places(q, k))
Carried(q, k) == {q[i].n : i \in Places(q, k)}

\* The stanzas the client numbered since <enabled/>: those it takes for received,
\* a, and those queued, q.  Covered are the ones an h stands for.
Tracked(a, q)    == a \cup {q[i].msg : i \in DOMAIN q}
Covered(a, q, h) == a \cup {q[i].msg : i \in {j \in DOMAIN q : q[j].seq <= h}}

\* A smaller set is smaller.
LEMMA CardSubset ==
    ASSUME NEW T, IsFiniteSet(T), NEW S, S \subseteq T
    PROVE  /\ IsFiniteSet(S) /\ Cardinality(S) \in Nat /\ Cardinality(T) \in Nat
           /\ Cardinality(S) <= Cardinality(T)
<1>1. S \in SUBSET T
  OBVIOUS
<1>2. IsFiniteSet(S) /\ Cardinality(S) <= Cardinality(T)
  BY <1>1, FS_Subset
<1> QED BY <1>2, FS_CardinalityType

\* k new numbers make it larger by k.
LEMMA CardGain ==
    ASSUME NEW T, IsFiniteSet(T), NEW S, S \subseteq T, NEW m \in Nat, NEW k \in Nat,
           (m + 1)..(m + k) \subseteq T, S \cap (m + 1)..(m + k) = {}
    PROVE  Cardinality(S) + k <= Cardinality(T)
<1> DEFINE I == (m + 1)..(m + k)
<1>1. IsFiniteSet(I) /\ Cardinality(I) = k
  <2>1. m + 1 \in Int /\ m + k \in Int
    OBVIOUS
  <2>2. IsFiniteSet(I) /\ Cardinality(I) = IF m + 1 > m + k THEN 0 ELSE (m + k) - (m + 1) + 1
    BY <2>1, FS_Interval
  <2> QED BY <2>2
<1>2. I \subseteq T /\ S \cap I = {}
  OBVIOUS
<1> HIDE DEF I
<1>3. IsFiniteSet(S) /\ Cardinality(S) \in Nat
  BY CardSubset
<1>4. /\ IsFiniteSet(S \cup I)
      /\ Cardinality(S \cup I) = Cardinality(S) + Cardinality(I) - Cardinality(S \cap I)
  BY <1>1, <1>3, FS_Union
<1>5. Cardinality(S \cap I) = 0
  BY <1>2, FS_EmptySet
<1>6. Cardinality(S \cup I) <= Cardinality(T)
  BY <1>2, CardSubset
<1> QED BY <1>1, <1>3, <1>4, <1>5, <1>6

\* The values of a function are at most as many as its arguments.
LEMMA CardImage ==
    ASSUME NEW I, IsFiniteSet(I), NEW f, f = [i \in I |-> f[i]]
    PROVE  /\ IsFiniteSet({f[i] : i \in I})
           /\ Cardinality({f[i] : i \in I}) <= Cardinality(I)
<1> DEFINE T == {f[i] : i \in I}
<1>1. f \in [I -> T] /\ \A t \in T : \E i \in I : f[i] = t
  OBVIOUS
<1> HIDE DEF T
<1>2. f \in Surjection(I, T)
  BY <1>1 DEF Surjection
<1>3. IsFiniteSet(T) /\ Cardinality(T) <= Cardinality(I)
  BY <1>2, FS_Surjection
<1> QED BY <1>3 DEF T

LEMMA CountTypes ==
    ASSUME NEW q \in Seq(ClientElem), NEW k \in 0..Len(q)
    PROVE  /\ IsFiniteSet(Places(q, k)) /\ Count(q, k) \in Nat /\ Carried(q, k) \in SUBSET Nat
           /\ Count(q, 0) = 0 /\ Carried(q, 0) = {}
<1>1. Len(q) \in Nat /\ k \in Nat
  OBVIOUS
<1>2. IsFiniteSet(1..k)
  BY <1>1, FS_Interval
<1>3. Places(q, k) \subseteq 1..k
  BY DEF Places
<1>4. IsFiniteSet(Places(q, k)) /\ Count(q, k) \in Nat
  BY <1>2, <1>3, CardSubset DEF Count
<1>5. \A i \in 1..k : q[i].n \in Nat
  <2>1. \A i \in 1..k : q[i] \in ClientElem
    BY <1>1
  <2> QED BY <2>1 DEF ClientElem
<1>6. Carried(q, k) \in SUBSET Nat
  BY <1>3, <1>5 DEF Carried
<1>7. Places(q, 0) = {}
  BY DEF Places
<1> QED BY <1>4, <1>6, <1>7, FS_EmptySet DEF Count, Carried

\* What is appended changes nothing before it.
LEMMA CountPrefix ==
    ASSUME NEW q \in Seq(ClientElem), NEW r \in Seq(ClientElem), NEW k \in 0..Len(q)
    PROVE  Count(q \o r, k) = Count(q, k) /\ Carried(q \o r, k) = Carried(q, k)
<1>1. \A i \in 1..k : (q \o r)[i] = q[i]
  <2>1. Len(q) \in Nat /\ \A i \in 1..Len(q) : (q \o r)[i] = q[i]
    BY ConcatAt
  <2> QED BY <2>1
<1>2. PICK p : p = q \o r
  OBVIOUS
<1>3. Places(p, k) = Places(q, k)
  BY <1>1, <1>2 DEF Places
<1>4. Places(q, k) \subseteq 1..k
  BY DEF Places
<1>5. Carried(p, k) = Carried(q, k)
  BY <1>1, <1>2, <1>3, <1>4 DEF Carried
<1> QED BY <1>2, <1>3, <1>5 DEF Count

\* Appended stanzas count one each.
LEMMA CountMore ==
    ASSUME NEW q \in Seq(ClientElem), NEW r \in Seq(ClientElem), NEW k \in 0..Len(r),
           \A i \in 1..Len(r) : r[i].kind = "stanza"
    PROVE  /\ Count(q \o r, Len(q) + k) = Count(q, Len(q)) + k
           /\ Carried(q \o r, Len(q) + k) = Carried(q, Len(q)) \cup {r[i].n : i \in 1..k}
<1>1. PICK p : p = q \o r
  OBVIOUS
<1>2. PICK n : n = Len(q)
  OBVIOUS
<1>3. /\ n \in Nat /\ k \in Nat /\ k <= Len(r) /\ Len(r) \in Nat
      /\ \A i \in 1..n : p[i] = q[i]
      /\ \A i \in 1..Len(r) : p[n + i] = r[i]
  <2>1. /\ Len(q) \in Nat /\ Len(r) \in Nat /\ \A i \in 1..Len(q) : (q \o r)[i] = q[i]
        /\ \A i \in (Len(q) + 1)..(Len(q) + Len(r)) : (q \o r)[i] = r[i - Len(q)]
    BY ConcatAt
  <2>2. /\ n \in Nat /\ Len(r) \in Nat /\ \A i \in 1..n : p[i] = q[i]
        /\ \A i \in (n + 1)..(n + Len(r)) : p[i] = r[i - n]
    BY <2>1, <1>1, <1>2
  <2>3. \A i \in 1..Len(r) : n + i \in (n + 1)..(n + Len(r)) /\ (n + i) - n = i
    BY <2>2
  <2> QED BY <2>2, <2>3
<1>4. \A i \in (n + 1)..(n + k) : i - n \in 1..k /\ i - n \in 1..Len(r) /\ n + (i - n) = i
  BY <1>3
<1>5. \A i \in (n + 1)..(n + k) : p[i] = r[i - n] /\ p[i].kind = "stanza"
  BY <1>3, <1>4
<1>6. Places(p, n + k) = Places(q, n) \cup (n + 1)..(n + k)
  <2>1. \A i \in 1..(n + k) : i \in 1..n \/ i \in (n + 1)..(n + k)
    BY <1>3
  <2>2. 1..n \subseteq 1..(n + k) /\ (n + 1)..(n + k) \subseteq 1..(n + k)
    BY <1>3
  <2> QED BY <1>3, <1>5, <2>1, <2>2 DEF Places
<1>7. IsFiniteSet(Places(q, n)) /\ Count(q, n) \in Nat
  BY <1>2, <1>3, CountTypes
<1>8. Cardinality((n + 1)..(n + k)) = k /\ IsFiniteSet((n + 1)..(n + k))
  <2>1. n + 1 \in Int /\ n + k \in Int
    BY <1>3
  <2>2. /\ IsFiniteSet((n + 1)..(n + k))
        /\ Cardinality((n + 1)..(n + k)) = IF n + 1 > n + k THEN 0 ELSE (n + k) - (n + 1) + 1
    BY <2>1, FS_Interval
  <2> QED BY <1>3, <2>2
<1>9. Places(q, n) \cap (n + 1)..(n + k) = {}
  BY <1>3 DEF Places
<1>10. Count(p, n + k) = Count(q, n) + k
  <2> DEFINE A == Places(q, n)
             B == (n + 1)..(n + k)
  <2>1. IsFiniteSet(A) /\ IsFiniteSet(B) /\ A \cap B = {} /\ Cardinality(B) = k
    BY <1>7, <1>8, <1>9
  <2>2. Places(p, n + k) = A \cup B /\ Count(q, n) = Cardinality(A)
    BY <1>6 DEF Count
  <2> HIDE DEF A, B
  <2>3. Cardinality(A \cup B) = Cardinality(A) + Cardinality(B) - Cardinality(A \cap B)
    BY <2>1, FS_Union
  <2>4. Cardinality(A \cap B) = 0
    BY <2>1, FS_EmptySet
  <2>5. Count(p, n + k) = Cardinality(A \cup B)
    BY <2>2 DEF Count
  <2>6. Cardinality(A) \in Nat /\ Cardinality(A) = Count(q, n)
    BY <1>7, <2>2
  <2> QED BY <1>3, <2>1, <2>3, <2>4, <2>5, <2>6
<1>11. Carried(p, n + k) = Carried(q, n) \cup {r[i].n : i \in 1..k}
  <2>1. {p[i].n : i \in (n + 1)..(n + k)} = {r[i].n : i \in 1..k}
    <3>1. \A i \in 1..k : n + i \in (n + 1)..(n + k) /\ p[n + i] = r[i]
      BY <1>3
    <3>2. \A i \in (n + 1)..(n + k) : i - n \in 1..k /\ p[i] = r[i - n]
      BY <1>4, <1>5
    <3>3. {p[i].n : i \in (n + 1)..(n + k)} \subseteq {r[i].n : i \in 1..k}
      BY ONLY <3>2
    <3>4. {r[i].n : i \in 1..k} \subseteq {p[i].n : i \in (n + 1)..(n + k)}
      BY ONLY <3>1
    <3> QED BY ONLY <3>3, <3>4
  <2>2. Places(q, n) \subseteq 1..n
    BY DEF Places
  <2>3. {p[i].n : i \in Places(q, n)} = Carried(q, n)
    BY <1>3, <2>2 DEF Carried
  <2> QED BY <1>6, <2>1, <2>3 DEF Carried
<1> QED BY <1>1, <1>2, <1>10, <1>11

\* Taking the head takes its stanza.
LEMMA CountTail ==
    ASSUME NEW q \in Seq(ClientElem), q # <<>>, NEW k \in 0..Len(Tail(q))
    PROVE  /\ k + 1 \in 0..Len(q)
           /\ Head(q).kind = "stanza" =>
                /\ Count(q, k + 1) = Count(Tail(q), k) + 1
                /\ Carried(q, k + 1) = Carried(Tail(q), k) \cup {Head(q).n}
           /\ Head(q).kind # "stanza" =>
                /\ Count(q, k + 1) = Count(Tail(q), k)
                /\ Carried(q, k + 1) = Carried(Tail(q), k)
<1>1. PICK p : p = Tail(q)
  OBVIOUS
<1>2. /\ p \in Seq(ClientElem) /\ Len(q) \in Nat /\ Len(p) = Len(q) - 1 /\ k \in Nat /\ k <= Len(p)
      /\ Head(q) = q[1] /\ \A i \in 1..Len(p) : p[i] = q[i + 1]
  BY <1>1, HeadTailProperties, EmptySeq
<1>3. \A i \in 1..k : p[i] = q[i + 1] /\ i + 1 \in 1..(k + 1)
  BY <1>2
<1>4. \A i \in 1..(k + 1) : i = 1 \/ (i - 1 \in 1..k /\ (i - 1) + 1 = i)
  BY <1>2
<1> DEFINE P == Places(p, k)
           M == {i + 1 : i \in P}
<1>5. P \subseteq 1..k /\ IsFiniteSet(P) /\ Cardinality(P) \in Nat
  <2>1. P \subseteq 1..k
    BY DEF Places
  <2>2. k \in 0..Len(p)
    BY <1>2
  <2> QED BY <1>2, <2>1, <2>2, CountTypes DEF Count
<1>6. IsFiniteSet(M) /\ Cardinality(M) = Cardinality(P)
  <2> DEFINE f == [i \in P |-> i + 1]
  <2>1. f \in [P -> M] /\ (\A i, j \in P : f[i] = f[j] => i = j) /\ \A m \in M : \E i \in P : f[i] = m
    BY <1>5
  <2>2. f \in Bijection(P, M)
    BY <2>1 DEF Bijection, Injection, Surjection, IsInjective
  <2>3. ExistsBijection(P, M)
    BY <2>2 DEF ExistsBijection
  <2> QED BY <2>3, <1>5, FS_Bijection
<1>7. Places(q, k + 1) = M \cup {i \in {1} : q[i].kind = "stanza"}
  <2>1. \A i \in P : i + 1 \in Places(q, k + 1)
    BY <1>3, <1>5 DEF Places
  <2>2. ASSUME NEW i \in Places(q, k + 1), i # 1 PROVE i \in M
    <3>1. i - 1 \in 1..k /\ (i - 1) + 1 = i /\ q[i].kind = "stanza"
      BY <1>4, <2>2 DEF Places
    <3>2. i - 1 \in P
      BY <1>3, <3>1 DEF Places
    <3> QED BY <3>1, <3>2
  <2>3. 1 \in 1..(k + 1)
    BY <1>2
  <2> QED BY <2>1, <2>2, <2>3 DEF Places
<1>8. 1 \notin M
  BY <1>5
<1>9. {q[i].n : i \in M} = Carried(p, k)
  <2>1. \A i \in P : q[i + 1].n = p[i].n
    BY <1>3, <1>5
  <2> QED BY <2>1 DEF Carried
<1>12. k + 1 \in 0..Len(q) /\ Cardinality(P) = Count(Tail(q), k) /\ Carried(p, k) = Carried(Tail(q), k)
  BY <1>1, <1>2 DEF Count
<1> HIDE DEF M, P
<1>10. CASE Head(q).kind = "stanza"
  <2>1. Places(q, k + 1) = M \cup {1}
    BY <1>2, <1>7, <1>10
  <2>2. Cardinality(M \cup {1}) = Cardinality(M) + 1
    BY <1>6, <1>8, FS_AddElement
  <2>3. {q[i].n : i \in M \cup {1}} = {q[i].n : i \in M} \cup {q[1].n}
    OBVIOUS
  <2> QED BY <1>2, <1>6, <1>9, <1>12, <1>10, <2>1, <2>2, <2>3 DEF Count, Carried
<1>11. CASE Head(q).kind # "stanza"
  <2>1. Places(q, k + 1) = M
    BY <1>2, <1>7, <1>11
  <2> QED BY <1>6, <1>9, <1>12, <1>11, <2>1 DEF Count, Carried
<1> QED BY <1>10, <1>11

-------------------------------------------------------------------------------
\* The queue's stanzas.

\* q is the end of what n counts.
AlignedTo(q, n) == \A i \in DOMAIN q : q[i].seq + Len(q) = n + i

\* Sets of stanzas sent so far are finite.
LEMMA SentFinite ==
    ASSUME NEW m \in Nat, NEW S, S \subseteq 0..m
    PROVE  IsFiniteSet(S)
<1>1. 0 \in Int /\ m \in Int
  OBVIOUS
<1> QED BY <1>1, FS_Interval, CardSubset

LEMMA CoveredTracked ==
    ASSUME NEW a, NEW q, NEW h
    PROVE  a \subseteq Covered(a, q, h) /\ Covered(a, q, h) \subseteq Tracked(a, q)
  BY DEF Covered, Tracked

\* An h stands for at most h stanzas.
LEMMA CoveredBound ==
    ASSUME NEW a, IsFiniteSet(a), NEW q \in Seq(Queued), NEW n \in Nat, AlignedTo(q, n),
           Cardinality(a) + Len(q) <= n, NEW h \in Nat, n <= h + Len(q)
    PROVE  IsFiniteSet(Covered(a, q, h)) /\ Cardinality(Covered(a, q, h)) <= h
<1> DEFINE l == Len(q)
           d == h - (n - l)
           I == {j \in DOMAIN q : q[j].seq <= h}
           M == {q[i].msg : i \in I}
<1>1. l \in Nat /\ DOMAIN q = 1..l /\ Cardinality(a) \in Nat
  BY FS_CardinalityType
<1>2. d \in Nat /\ (n - l) + d = h /\ n - l \in Nat /\ Cardinality(a) <= n - l
  BY <1>1
<1>3. I \subseteq 1..d
  <2> SUFFICES ASSUME NEW j \in 1..l, q[j].seq <= h PROVE j \in 1..d
    BY <1>1
  <2>1. q[j] \in Queued
    BY <1>1
  <2>2. q[j].seq \in Nat /\ q[j].seq + l = n + j
    BY <1>1, <2>1 DEF AlignedTo, Queued
  <2> QED BY <1>1, <2>2
<1> HIDE DEF I
<1>4. IsFiniteSet(1..d) /\ Cardinality(1..d) = d
  <2>1. 1 \in Int /\ d \in Int
    BY <1>2
  <2>2. IsFiniteSet(1..d) /\ Cardinality(1..d) = IF 1 > d THEN 0 ELSE d - 1 + 1
    BY <2>1, FS_Interval
  <2> QED BY <1>2, <2>2
<1> HIDE DEF d
<1>5. IsFiniteSet(I) /\ Cardinality(I) \in Nat /\ Cardinality(I) <= d
  BY <1>2, <1>3, <1>4, CardSubset
<1>6. IsFiniteSet(M) /\ Cardinality(M) <= Cardinality(I)
  <2> DEFINE f == [i \in I |-> q[i].msg]
  <2>1. f = [i \in I |-> f[i]] /\ M = {f[i] : i \in I}
    OBVIOUS
  <2> HIDE DEF f, M
  <2> QED BY <1>5, <2>1, CardImage
<1> HIDE DEF M
<1>7. /\ IsFiniteSet(a \cup M)
      /\ Cardinality(a \cup M) = Cardinality(a) + Cardinality(M) - Cardinality(a \cap M)
  BY <1>6, FS_Union
<1>8. Cardinality(M) \in Nat /\ Cardinality(a \cap M) \in Nat
  <2>1. a \cap M \subseteq M
    OBVIOUS
  <2> QED BY <1>6, <2>1, CardSubset
<1>9. Covered(a, q, h) = a \cup M
  BY DEF Covered, M, I
<1> QED BY <1>1, <1>2, <1>5, <1>6, <1>7, <1>8, <1>9

\* When all but u of the stanzas an h stands for are received, no more than u are lost.
LEMMA LossFrom ==
    ASSUME NEW a, IsFiniteSet(a), NEW q \in Seq(Queued), NEW n \in Nat, AlignedTo(q, n),
           Cardinality(a) + Len(q) <= n, NEW h \in Nat, n <= h + Len(q),
           NEW R, NEW u \in Nat, h <= u + Cardinality(Covered(a, q, h) \cap R)
    PROVE  Cardinality(a \ R) <= u
<1>1. PICK C : C = Covered(a, q, h)
  OBVIOUS
<1>2. IsFiniteSet(C) /\ Cardinality(C) <= h /\ Cardinality(C) \in Nat
  BY <1>1, CoveredBound, FS_CardinalityType
<1>3. PICK D : D = C \cap R
  OBVIOUS
<1>4. PICK E : E = C \ R
  OBVIOUS
<1>5. D \subseteq C /\ E \subseteq C /\ D \cap E = {} /\ D \cup E = C
  BY <1>3, <1>4
<1>6. /\ IsFiniteSet(D) /\ Cardinality(D) \in Nat
      /\ IsFiniteSet(E) /\ Cardinality(E) \in Nat
  BY <1>2, <1>5, CardSubset
<1>7. Cardinality(D \cup E) = Cardinality(D) + Cardinality(E) - Cardinality(D \cap E)
  BY <1>6, FS_Union
<1>8. Cardinality(D \cap E) = 0
  BY <1>5, FS_EmptySet
<1>9. Cardinality(C) = Cardinality(D) + Cardinality(E)
  <2>1. D \cup E = C
    BY <1>5
  <2>2. Cardinality(C) = Cardinality(D) + Cardinality(E) - Cardinality(D \cap E)
    BY <2>1, <1>7
  <2> QED BY <2>2, <1>6, <1>8
<1>10. h <= u + Cardinality(D)
  BY <1>1, <1>3
<1>11. a \ R \subseteq E
  BY <1>1, <1>4, CoveredTracked
<1>12. Cardinality(a \ R) <= Cardinality(E) /\ Cardinality(a \ R) \in Nat
  BY <1>6, <1>11, CardSubset
<1> QED BY <1>2, <1>6, <1>9, <1>10, <1>12

\* Pruning only moves stanzas from the queue to those taken for received.
LEMMA PruneTracked ==
    ASSUME NEW q \in Seq(Queued), NEW h \in Nat, NEW a, IsFiniteSet(a)
    PROVE  /\ Tracked(a \cup PrunedMsgs(q, h), Prune(q, h)) = Tracked(a, q)
           /\ \A x \in Nat : h <= x =>
                Covered(a \cup PrunedMsgs(q, h), Prune(q, h), x) = Covered(a, q, x)
           /\ IsFiniteSet(a \cup PrunedMsgs(q, h))
           /\ Cardinality(a \cup PrunedMsgs(q, h)) + Len(Prune(q, h)) <= Cardinality(a) + Len(q)
           /\ \A n \in Nat : AlignedTo(q, n) => n <= h + Len(Prune(q, h)) \/ Prune(q, h) = q
<1>1. PICK k : k = Confirmed(q, h)
  OBVIOUS
<1>2. PICK p : p = Prune(q, h)
  OBVIOUS
<1>3. PICK b : b = PrunedMsgs(q, h)
  OBVIOUS
<1>4. /\ k \in Nat /\ Len(q) \in Nat /\ k <= Len(q) /\ Len(p) = Len(q) - k
      /\ p \in Seq(Queued) /\ DOMAIN p = 1..Len(p) /\ DOMAIN q = 1..Len(q)
      /\ \A i \in 1..Len(p) : p[i] = q[k + i]
      /\ b = {q[i].msg : i \in 1..k}
  <2>1. k \in 0..Len(q) /\ Len(q) \in Nat /\ DOMAIN q = 1..Len(q)
    BY <1>1, ConfirmedRange
  <2>2. p \in Seq(Queued) /\ Len(p) = Len(q) - k /\ \A i \in 1..Len(p) : p[i] = q[k + i]
    BY <1>1, <1>2, PruneProperties
  <2>3. b = {q[i].msg : i \in 1..k}
    BY <1>1, <1>3 DEF PrunedMsgs
  <2> QED BY <2>1, <2>2, <2>3
<1>5. \A i \in 1..k : q[i].seq <= h
  BY <1>1, ConfirmedRange
<1>6. \A i \in 1..Len(q) : i \in 1..k \/ (i - k \in 1..Len(p) /\ k + (i - k) = i)
  BY <1>4
<1>7. \A i \in 1..Len(p) : k + i \in 1..Len(q)
  BY <1>4
<1>8. Tracked(a \cup b, p) = Tracked(a, q)
  <2>1. {q[i].msg : i \in DOMAIN q} = b \cup {p[i].msg : i \in DOMAIN p}
    <3>1. \A i \in DOMAIN q : i \in 1..k \/ (i - k \in DOMAIN p /\ q[i] = p[i - k])
      BY <1>4, <1>6
    <3>2. \A j \in DOMAIN p : k + j \in DOMAIN q /\ p[j] = q[k + j]
      BY <1>4, <1>7
    <3>3. b = {q[i].msg : i \in 1..k} /\ 1..k \subseteq DOMAIN q
      BY <1>4
    <3> QED BY <3>1, <3>2, <3>3
  <2> QED BY <2>1 DEF Tracked
<1>9. ASSUME NEW x \in Nat, h <= x PROVE Covered(a \cup b, p, x) = Covered(a, q, x)
  <2>1. \A i \in 1..k : q[i].seq <= x
    <3> SUFFICES ASSUME NEW i \in 1..k PROVE q[i].seq <= x
      OBVIOUS
    <3>1. i \in 1..Len(q)
      BY <1>4
    <3>2. q[i] \in Queued
      BY <3>1
    <3> QED BY <3>2, <1>5, <1>9 DEF Queued
  <2> DEFINE I == {j \in DOMAIN q : q[j].seq <= x}
             J == {j \in DOMAIN p : p[j].seq <= x}
  <2>2. \A i \in I : i \in 1..k \/ (i - k \in J /\ k + (i - k) = i)
    BY <1>4, <1>6
  <2>3. \A j \in J : k + j \in I /\ p[j] = q[k + j]
    BY <1>4, <1>7
  <2>4. 1..k \subseteq I
    BY <1>4, <2>1
  <2>5. \A i \in I : i \in 1..k \/ q[i] = p[i - k]
    BY <2>2, <2>3
  <2> HIDE DEF I, J
  <2>6. {q[i].msg : i \in I} = b \cup {p[j].msg : j \in J}
    <3>1. b = {q[i].msg : i \in 1..k}
      BY <1>4
    <3>2. ASSUME NEW i \in I
          PROVE  (\E j \in 1..k : q[i].msg = q[j].msg) \/ \E j \in J : q[i].msg = p[j].msg
      <4>1. CASE i \in 1..k
        BY <4>1
      <4>2. CASE i - k \in J /\ q[i] = p[i - k]
        BY <4>2
      <4> QED BY <2>2, <2>5, <4>1, <4>2
    <3>3. ASSUME NEW j \in J PROVE \E i \in I : p[j].msg = q[i].msg
      BY <2>3
    <3> QED BY ONLY <2>4, <3>1, <3>2, <3>3
  <2> QED BY <2>6 DEF Covered, I, J
<1>10. IsFiniteSet(b) /\ Cardinality(b) <= k /\ Cardinality(b) \in Nat
  <2> DEFINE f == [i \in 1..k |-> q[i].msg]
  <2>1. f = [i \in 1..k |-> f[i]] /\ b = {f[i] : i \in 1..k}
    BY <1>4
  <2> HIDE DEF f
  <2>2. IsFiniteSet(1..k) /\ Cardinality(1..k) = k
    <3>1. 1 \in Int /\ k \in Int
      BY <1>4
    <3>2. IsFiniteSet(1..k) /\ Cardinality(1..k) = IF 1 > k THEN 0 ELSE k - 1 + 1
      BY <3>1, FS_Interval
    <3> QED BY <1>4, <3>2
  <2>3. IsFiniteSet(b) /\ Cardinality(b) <= k
    BY <2>1, <2>2, CardImage
  <2> QED BY <2>3, FS_CardinalityType
<1>11. IsFiniteSet(a \cup b) /\ Cardinality(a \cup b) + Len(p) <= Cardinality(a) + Len(q)
  <2>1. /\ IsFiniteSet(a \cup b)
        /\ Cardinality(a \cup b) = Cardinality(a) + Cardinality(b) - Cardinality(a \cap b)
    BY <1>10, FS_Union
  <2>2. a \cap b \subseteq a
    OBVIOUS
  <2>3. Cardinality(a \cap b) \in Nat /\ Cardinality(a) \in Nat
    BY <2>2, CardSubset
  <2> QED BY <1>4, <1>10, <2>1, <2>3
<1>12. ASSUME NEW n \in Nat, AlignedTo(q, n) PROVE n <= h + Len(p) \/ p = q
  <2>1. CASE k = 0
    <3>1. Len(p) = Len(q) /\ \A i \in 1..Len(q) : p[i] = q[i]
      BY <1>4, <2>1
    <3>2. p = q
      BY <1>4, <3>1
    <3> QED BY <3>2
  <2>2. CASE k # 0
    <3>1. k \in 1..k /\ k \in 1..Len(q)
      BY <1>4, <2>2
    <3>2. q[k] \in Queued
      BY <3>1
    <3>3. q[k].seq \in Nat /\ q[k].seq <= h /\ q[k].seq + Len(q) = n + k
      BY <1>4, <1>5, <1>12, <3>1, <3>2 DEF AlignedTo, Queued
    <3> QED BY <1>4, <3>3
  <2> QED BY <2>1, <2>2
<1> QED BY <1>2, <1>3, <1>8, <1>9, <1>11, <1>12

-------------------------------------------------------------------------------
\* What the server will have handled, element by element of the client's channel.

\* However far the server reads on: of as many stanzas as it then has handled, all
\* but u were tracked ones, respectively ones which that number stands for.
TrackedAlong(a, q, c, h, R, u) ==
    \A k \in 0..Len(c) :
        h + Count(c, k) <= u + Cardinality(Tracked(a, q) \cap (R \cup Carried(c, k)))
CoveredAlong(a, q, c, h, R, u) ==
    \A k \in 0..Len(c) :
        h + Count(c, k) <=
            u + Cardinality(Covered(a, q, h + Count(c, k)) \cap (R \cup Carried(c, k)))

\* A channel d with g and S behind it runs as c does with h and R, or behind it.
Follows(d, g, S, c, h, R) ==
    /\ \A k \in 0..Len(d) : \E j \in 0..Len(c) :
          /\ g + Count(d, k) = h + Count(c, j)
          /\ R \cup Carried(c, j) \subseteq S \cup Carried(d, k)
    /\ g + Count(d, Len(d)) = h + Count(c, Len(c))
Trails(d, g, S, c, h, R) ==
    \A k \in 0..Len(d) : \E j \in 0..Len(c) :
          /\ g + Count(d, k) <= h + Count(c, j)
          /\ R \cup Carried(c, j) \subseteq S \cup Carried(d, k)

LEMMA FollowsCovered ==
    ASSUME NEW a, NEW q, IsFiniteSet(Tracked(a, q)), NEW c \in Seq(ClientElem), NEW h \in Nat,
           NEW R, NEW u \in Nat, NEW d \in Seq(ClientElem), NEW g \in Nat, NEW S,
           Follows(d, g, S, c, h, R), CoveredAlong(a, q, c, h, R, u)
    PROVE  CoveredAlong(a, q, d, g, S, u)
<1> SUFFICES ASSUME NEW k \in 0..Len(d)
             PROVE  g + Count(d, k) <=
                        u + Cardinality(Covered(a, q, g + Count(d, k)) \cap (S \cup Carried(d, k)))
  BY DEF CoveredAlong
<1>1. PICK j \in 0..Len(c) : /\ g + Count(d, k) = h + Count(c, j)
                             /\ R \cup Carried(c, j) \subseteq S \cup Carried(d, k)
  BY DEF Follows
<1>2. PICK x : x = g + Count(d, k)
  OBVIOUS
<1>3. PICK T : T = Covered(a, q, x) \cap (S \cup Carried(d, k))
  OBVIOUS
<1>4. PICK U : U = Covered(a, q, x) \cap (R \cup Carried(c, j))
  OBVIOUS
<1>5. x <= u + Cardinality(U)
  BY <1>1, <1>2, <1>4 DEF CoveredAlong
<1>6. U \subseteq T /\ T \subseteq Tracked(a, q)
  BY <1>1, <1>3, <1>4, CoveredTracked
<1>7. IsFiniteSet(T) /\ Cardinality(U) \in Nat /\ Cardinality(T) \in Nat /\ Cardinality(U) <= Cardinality(T)
  BY <1>6, CardSubset
<1>8. x \in Nat
  BY <1>2, CountTypes
<1> QED BY <1>2, <1>3, <1>5, <1>7, <1>8

LEMMA TrailsTracked ==
    ASSUME NEW a, NEW q, IsFiniteSet(Tracked(a, q)), NEW c \in Seq(ClientElem), NEW h \in Nat,
           NEW R, NEW u \in Nat, NEW d \in Seq(ClientElem), NEW g \in Nat, NEW S,
           Trails(d, g, S, c, h, R), TrackedAlong(a, q, c, h, R, u)
    PROVE  TrackedAlong(a, q, d, g, S, u)
<1> SUFFICES ASSUME NEW k \in 0..Len(d)
             PROVE  g + Count(d, k) <= u + Cardinality(Tracked(a, q) \cap (S \cup Carried(d, k)))
  BY DEF TrackedAlong
<1>1. PICK j \in 0..Len(c) : /\ g + Count(d, k) <= h + Count(c, j)
                             /\ R \cup Carried(c, j) \subseteq S \cup Carried(d, k)
  BY DEF Trails
<1>2. PICK x : x = g + Count(d, k)
  OBVIOUS
<1>3. PICK T : T = Tracked(a, q) \cap (S \cup Carried(d, k))
  OBVIOUS
<1>4. PICK U : U = Tracked(a, q) \cap (R \cup Carried(c, j))
  OBVIOUS
<1>5. PICK y : y = h + Count(c, j)
  OBVIOUS
<1>6. y <= u + Cardinality(U) /\ x <= y
  BY <1>1, <1>2, <1>4, <1>5 DEF TrackedAlong
<1>7. U \subseteq T /\ T \subseteq Tracked(a, q)
  BY <1>1, <1>3, <1>4
<1>8. IsFiniteSet(T) /\ Cardinality(U) \in Nat /\ Cardinality(T) \in Nat /\ Cardinality(U) <= Cardinality(T)
  BY <1>7, CardSubset
<1>9. x \in Nat /\ y \in Nat
  <2>1. Count(d, k) \in Nat /\ Count(c, j) \in Nat
    BY CountTypes
  <2> QED BY <1>2, <1>5, <2>1
<1> QED BY <1>2, <1>3, <1>6, <1>8, <1>9

LEMMA FollowsTrails ==
    ASSUME NEW c \in Seq(ClientElem), NEW h \in Nat, NEW R,
           NEW d \in Seq(ClientElem), NEW g \in Nat, NEW S, Follows(d, g, S, c, h, R)
    PROVE  Trails(d, g, S, c, h, R)
<1> SUFFICES ASSUME NEW k \in 0..Len(d), NEW j \in 0..Len(c), g + Count(d, k) = h + Count(c, j)
             PROVE  g + Count(d, k) <= h + Count(c, j)
  BY DEF Follows, Trails
<1>1. Count(d, k) \in Nat
  BY CountTypes
<1>2. PICK x : x = g + Count(d, k)
  OBVIOUS
<1> QED BY <1>1, <1>2

\* A channel's first elements count no more than all of them.
LEMMA CountLast ==
    ASSUME NEW q \in Seq(ClientElem), NEW k \in 0..Len(q)
    PROVE  Count(q, k) <= Count(q, Len(q)) /\ Count(q, Len(q)) \in Nat /\ Count(q, k) \in Nat
<1>1. Len(q) \in 0..Len(q) /\ 1..k \subseteq 1..Len(q)
  OBVIOUS
<1>2. Places(q, k) \subseteq Places(q, Len(q))
  BY <1>1 DEF Places
<1>3. IsFiniteSet(Places(q, Len(q)))
  BY <1>1, CountTypes
<1> QED BY <1>2, <1>3, CardSubset DEF Count

\* Elements that are no stanzas come and go unnoticed.
LEMMA QuietAppend ==
    ASSUME NEW c \in Seq(ClientElem), NEW e \in ClientElem, e.kind # "stanza", NEW h \in Nat, NEW R
    PROVE  /\ Follows(Append(c, e), h, R, c, h, R)
           /\ Count(Append(c, e), Len(Append(c, e))) = Count(c, Len(c))
<1>1. /\ <<e>> \in Seq(ClientElem) /\ Append(c, e) = c \o <<e>>
      /\ Append(c, e) \in Seq(ClientElem) /\ Len(Append(c, e)) = Len(c) + 1 /\ Len(c) \in Nat
      /\ Append(c, e)[Len(c) + 1] = e
  BY AppendIsConcat
<1>2. PICK d : d = Append(c, e)
  OBVIOUS
<1>3. \A k \in 0..Len(c) : Count(d, k) = Count(c, k) /\ Carried(d, k) = Carried(c, k)
  BY <1>1, <1>2, CountPrefix
<1>4. PICK n : n = Len(c)
  OBVIOUS
<1>5. Places(d, n + 1) = Places(d, n)
  <2>1. n \in Nat /\ d[n + 1] = e
    BY <1>1, <1>2, <1>4
  <2>2. \A i \in 1..(n + 1) : i \in 1..n \/ i = n + 1
    BY <2>1
  <2>3. 1..n \subseteq 1..(n + 1)
    BY <2>1
  <2> QED BY <2>1, <2>2, <2>3 DEF Places
<1>6. /\ Count(d, n + 1) = Count(d, n) /\ Carried(d, n + 1) = Carried(d, n) /\ Len(d) = n + 1
      /\ n \in 0..Len(c)
  <2>1. Count(d, n + 1) = Count(d, n) /\ Carried(d, n + 1) = Carried(d, n)
    BY <1>5 DEF Count, Carried
  <2>2. Len(d) = n + 1 /\ n \in 0..Len(c)
    BY <1>1, <1>2, <1>4
  <2> QED BY <2>1, <2>2
<1>7. ASSUME NEW k \in 0..Len(d)
      PROVE  \E j \in 0..Len(c) : Count(d, k) = Count(c, j) /\ Carried(d, k) = Carried(c, j)
  <2>1. k \in 0..Len(c) \/ k = n + 1
    BY <1>1, <1>4, <1>6
  <2> QED BY <2>1, <1>3, <1>4, <1>6
<1>8. Count(d, Len(d)) = Count(c, Len(c))
  BY <1>3, <1>4, <1>6
<1>9. Follows(d, h, R, c, h, R)
  BY <1>7, <1>8 DEF Follows
<1> QED BY <1>2, <1>8, <1>9

LEMMA QuietTail ==
    ASSUME NEW c \in Seq(ClientElem), c # <<>>, Head(c).kind # "stanza", NEW h \in Nat, NEW R
    PROVE  /\ Follows(Tail(c), h, R, c, h, R)
           /\ Count(Tail(c), Len(Tail(c))) = Count(c, Len(c))
<1>1. PICK d : d = Tail(c)
  OBVIOUS
<1>2. \A k \in 0..Len(d) : /\ k + 1 \in 0..Len(c)
                           /\ Count(c, k + 1) = Count(d, k) /\ Carried(c, k + 1) = Carried(d, k)
  BY <1>1, CountTail
<1>3. Len(d) \in 0..Len(d) /\ Len(d) + 1 = Len(c)
  BY <1>1, HeadTailProperties, EmptySeq
<1>4. Count(d, Len(d)) = Count(c, Len(c))
  BY <1>2, <1>3
<1>5. Follows(d, h, R, c, h, R)
  BY <1>2, <1>4 DEF Follows
<1> QED BY <1>1, <1>4, <1>5

LEMMA SameRun ==
    ASSUME NEW c, NEW h, NEW R
    PROVE  Follows(c, h, R, c, h, R)
  BY DEF Follows

\* A stanza handled is one the channel had before; not counted, it leaves fewer.
LEMMA TakenStanza ==
    ASSUME NEW c \in Seq(ClientElem), c # <<>>, Head(c).kind = "stanza", NEW h \in Nat, NEW R
    PROVE  /\ Follows(Tail(c), h + 1, R \cup {Head(c).n}, c, h, R)
           /\ Trails(Tail(c), h, R \cup {Head(c).n}, c, h, R)
           /\ Count(c, Len(c)) = Count(Tail(c), Len(Tail(c))) + 1
<1>1. PICK d : d = Tail(c)
  OBVIOUS
<1>2. PICK m : m = Head(c).n
  OBVIOUS
<1>3. \A k \in 0..Len(d) : /\ k + 1 \in 0..Len(c) /\ Count(c, k + 1) = Count(d, k) + 1
                           /\ Carried(c, k + 1) = Carried(d, k) \cup {m}
  BY <1>1, <1>2, CountTail
<1>4. /\ Len(d) \in 0..Len(d) /\ Len(d) + 1 = Len(c) /\ d \in Seq(ClientElem)
  BY <1>1, HeadTailProperties, EmptySeq
<1>5. \A k \in 0..Len(d) : Count(d, k) \in Nat
  BY <1>4, CountTypes
<1>6. Count(c, Len(c)) = Count(d, Len(d)) + 1
  BY <1>3, <1>4
<1>7. ASSUME NEW k \in 0..Len(d)
      PROVE  /\ k + 1 \in 0..Len(c)
             /\ (h + 1) + Count(d, k) = h + Count(c, k + 1)
             /\ h + Count(d, k) <= h + Count(c, k + 1)
             /\ R \cup Carried(c, k + 1) \subseteq (R \cup {m}) \cup Carried(d, k)
  BY <1>3, <1>5
<1>8. (h + 1) + Count(d, Len(d)) = h + Count(c, Len(c))
  <2>1. PICK x : x = Count(d, Len(d))
    OBVIOUS
  <2>2. x \in Nat /\ Count(c, Len(c)) = x + 1
    BY <1>4, <1>5, <1>6, <2>1
  <2> QED BY <2>1, <2>2
<1>9. Follows(d, h + 1, R \cup {m}, c, h, R)
  BY <1>7, <1>8 DEF Follows
<1>10. Trails(d, h, R \cup {m}, c, h, R)
  BY <1>7 DEF Trails
<1> QED BY <1>1, <1>2, <1>6, <1>9, <1>10

\* What send() appends to the queue, and to the channel.
QueuedFrom(n, m, k) == [i \in 1..k |-> [seq |-> n + i, msg |-> m + i]]
SentFrom(m, k)      == [i \in 1..k |-> Elem("stanza", m + i, 0)]

LEMMA QueuedMore ==
    ASSUME NEW q \in Seq(Queued), NEW n \in Nat, NEW m \in Nat, NEW k \in Nat, NEW a
    PROVE  /\ q \o QueuedFrom(n, m, k) \in Seq(Queued)
           /\ Len(q \o QueuedFrom(n, m, k)) = Len(q) + k
           /\ Tracked(a, q \o QueuedFrom(n, m, k)) = Tracked(a, q) \cup (m + 1)..(m + k)
           /\ \A x : Covered(a, q, x) \subseteq Covered(a, q \o QueuedFrom(n, m, k), x)
           /\ \A x, i \in Nat : i <= k /\ n + i <= x =>
                (m + 1)..(m + i) \subseteq Covered(a, q \o QueuedFrom(n, m, k), x)
<1>1. PICK r : r = QueuedFrom(n, m, k)
  OBVIOUS
<1>2. r \in Seq(Queued) /\ Len(r) = k /\ \A i \in 1..k : r[i].seq = n + i /\ r[i].msg = m + i
  <2>1. r \in Seq(Queued)
    BY <1>1, SentTypes DEF QueuedFrom
  <2>2. DOMAIN r = 1..k /\ \A i \in 1..k : r[i].seq = n + i /\ r[i].msg = m + i
    BY <1>1 DEF QueuedFrom
  <2> QED BY <2>1, <2>2, LenProperties
<1>3. PICK p : p = q \o r
  OBVIOUS
<1>4. PICK l : l = Len(q)
  OBVIOUS
<1>5. /\ p \in Seq(Queued) /\ l \in Nat /\ Len(p) = l + k /\ DOMAIN p = 1..(l + k)
      /\ DOMAIN q = 1..l
      /\ \A i \in 1..l : p[i] = q[i]
      /\ \A i \in (l + 1)..(l + k) : p[i] = r[i - l]
  <2>1. /\ q \o r \in Seq(Queued) /\ Len(q) \in Nat /\ Len(q \o r) = Len(q) + Len(r)
        /\ DOMAIN (q \o r) = 1..(Len(q) + Len(r)) /\ DOMAIN q = 1..Len(q)
        /\ \A i \in 1..Len(q) : (q \o r)[i] = q[i]
        /\ \A i \in (Len(q) + 1)..(Len(q) + Len(r)) : (q \o r)[i] = r[i - Len(q)]
    <3>1. r \in Seq(Queued)
      BY <1>2
    <3>2. q \o r \in Seq(Queued)
      BY <3>1
    <3> QED BY <3>1, <3>2, ConcatAt
  <2> QED BY <2>1, <1>2, <1>3, <1>4
<1>6. \A i \in 1..k : /\ l + i \in (l + 1)..(l + k) /\ l + i \in 1..(l + k) /\ (l + i) - l = i
  BY <1>5
<1>7. \A i \in 1..k : l + i \in DOMAIN p /\ p[l + i].seq = n + i /\ p[l + i].msg = m + i
  BY <1>2, <1>5, <1>6
<1>8. \A i \in DOMAIN p : i \in 1..l \/ (i - l \in 1..k /\ p[i].msg = m + (i - l))
  <2>1. \A i \in 1..(l + k) : i \in 1..l \/ (i - l \in 1..k /\ i \in (l + 1)..(l + k))
    BY <1>5
  <2> QED BY <1>2, <1>5, <2>1
<1>9. \A j \in (m + 1)..(m + k) : j - m \in 1..k /\ m + (j - m) = j
  OBVIOUS
<1>10. \A i \in 1..k : m + i \in (m + 1)..(m + k)
  OBVIOUS
<1>11. 1..l \subseteq DOMAIN p
  BY <1>5
<1>12. Tracked(a, p) = Tracked(a, q) \cup (m + 1)..(m + k)
  <2>1. {p[i].msg : i \in DOMAIN p} = {q[i].msg : i \in DOMAIN q} \cup (m + 1)..(m + k)
    <3>1. ASSUME NEW i \in DOMAIN p
          PROVE  p[i].msg \in {q[j].msg : j \in DOMAIN q} \cup (m + 1)..(m + k)
      BY <1>5, <1>8, <1>10
    <3>2. ASSUME NEW i \in DOMAIN q PROVE \E j \in DOMAIN p : q[i].msg = p[j].msg
      BY <1>5, <1>11
    <3>3. ASSUME NEW j \in (m + 1)..(m + k) PROVE \E i \in DOMAIN p : j = p[i].msg
      BY <1>7, <1>9
    <3> QED BY <3>1, <3>2, <3>3
  <2> QED BY <2>1 DEF Tracked
<1>13. ASSUME NEW x PROVE Covered(a, q, x) \subseteq Covered(a, p, x)
  BY <1>5, <1>11 DEF Covered
<1>14. ASSUME NEW x \in Nat, NEW i \in Nat, i <= k, n + i <= x
       PROVE  (m + 1)..(m + i) \subseteq Covered(a, p, x)
  <2> SUFFICES ASSUME NEW j \in (m + 1)..(m + i) PROVE j \in Covered(a, p, x)
    OBVIOUS
  <2>1. j - m \in 1..k /\ n + (j - m) <= x /\ m + (j - m) = j
    BY <1>14
  <2>2. /\ l + (j - m) \in DOMAIN p /\ p[l + (j - m)].seq <= x /\ p[l + (j - m)].msg = j
    BY <1>7, <2>1
  <2> QED BY <2>2 DEF Covered
<1> QED BY <1>1, <1>3, <1>4, <1>5, <1>12, <1>13, <1>14

LEMMA SentMore ==
    ASSUME NEW c \in Seq(ClientElem), NEW m \in Nat, NEW k \in Nat
    PROVE  /\ SentFrom(m, k) \in Seq(ClientElem) /\ Len(SentFrom(m, k)) = k
           /\ \A i \in 1..k : SentFrom(m, k)[i].kind = "stanza" /\ SentFrom(m, k)[i].n = m + i
           /\ c \o SentFrom(m, k) \in Seq(ClientElem)
           /\ Len(c) \in Nat /\ Len(c \o SentFrom(m, k)) = Len(c) + k
<1>1. PICK r : r = SentFrom(m, k)
  OBVIOUS
<1>2. /\ r \in Seq(ClientElem) /\ Len(r) = k
      /\ \A i \in 1..k : r[i].kind = "stanza" /\ r[i].n = m + i
  <2>1. r \in Seq(ClientElem)
    BY <1>1, SentTypes DEF SentFrom
  <2>2. DOMAIN r = 1..k /\ \A i \in 1..k : r[i].kind = "stanza" /\ r[i].n = m + i
    BY <1>1 DEF SentFrom, Elem
  <2>3. Len(r) = k
    BY <2>1, <2>2, LenProperties
  <2> QED BY <2>1, <2>2, <2>3
<1>3. /\ c \o r \in Seq(ClientElem) /\ Len(c) \in Nat /\ Len(c \o r) = Len(c) + k
  <2>1. c \o r \in Seq(ClientElem)
    BY <1>2
  <2> QED BY <1>2, <2>1, ConcatAt
<1> QED BY <1>1, <1>2, <1>3

\* k stanzas from m on.
IsSent(r, m, k) == /\ r \in Seq(ClientElem) /\ Len(r) = k
                   /\ \A j \in 1..k : r[j].kind = "stanza" /\ r[j].n = m + j

LEMMA SentCounts ==
    ASSUME NEW c \in Seq(ClientElem), NEW m \in Nat, NEW k \in Nat, NEW i \in 0..k,
           NEW r, IsSent(r, m, k)
    PROVE  /\ Count(c \o r, Len(c) + i) = Count(c, Len(c)) + i
           /\ Carried(c \o r, Len(c) + i) = Carried(c, Len(c)) \cup (m + 1)..(m + i)
<1>1. /\ Count(c \o r, Len(c) + i) = Count(c, Len(c)) + i
      /\ Carried(c \o r, Len(c) + i) = Carried(c, Len(c)) \cup {r[j].n : j \in 1..i}
  <2>1. /\ r \in Seq(ClientElem) /\ i \in 0..Len(r)
        /\ \A j \in 1..Len(r) : r[j].kind = "stanza"
    BY DEF IsSent
  <2> QED BY <2>1, CountMore
<1>2. {r[j].n : j \in 1..i} = (m + 1)..(m + i)
  <2>1. \A j \in 1..i : r[j].n = m + j /\ m + j \in (m + 1)..(m + i)
    BY DEF IsSent
  <2>2. ASSUME NEW x \in (m + 1)..(m + i) PROVE \E j \in 1..i : x = r[j].n
    <3>1. x - m \in 1..i /\ m + (x - m) = x
      OBVIOUS
    <3>2. r[x - m].n = m + (x - m)
      BY <2>1, <3>1
    <3> QED BY <3>1, <3>2
  <2>3. ASSUME NEW j \in 1..i PROVE r[j].n \in (m + 1)..(m + i)
    BY <2>1
  <2>4. PICK X : X = (m + 1)..(m + i)
    OBVIOUS
  <2>5. {r[j].n : j \in 1..i} = X
    BY <2>2, <2>3, <2>4
  <2> QED BY <2>4, <2>5
<1> QED BY <1>1, <1>2

\* Stanzas counted and queued as they are sent add as many tracked ones as they add
\* to what the server will handle, and add covered ones once it handles them.
LEMMA SendAlong ==
    ASSUME NEW q \in Seq(Queued), NEW n \in Nat, NEW m \in Nat, NEW k \in Nat, NEW a,
           NEW c \in Seq(ClientElem), NEW h \in Nat, NEW R, NEW u \in Nat,
           Tracked(a, q) \subseteq 0..m, R \subseteq 0..m, Carried(c, Len(c)) \subseteq 0..m
    PROVE  /\ TrackedAlong(a, q, c, h, R, u) =>
                /\ TrackedAlong(a, q \o QueuedFrom(n, m, k), c, h, R, u)
                /\ TrackedAlong(a, q \o QueuedFrom(n, m, k), c \o SentFrom(m, k), h, R, u)
           /\ CoveredAlong(a, q, c, h, R, u) /\ n <= h + Count(c, Len(c)) =>
                CoveredAlong(a, q \o QueuedFrom(n, m, k), c \o SentFrom(m, k), h, R, u)
<1>1. PICK p : p = q \o QueuedFrom(n, m, k)
  OBVIOUS
<1>2. PICK d : d = c \o SentFrom(m, k)
  OBVIOUS
<1>3. PICK l : l = Len(c)
  OBVIOUS
<1>4. PICK t : t = Count(c, l)
  OBVIOUS
<1>5. PICK V : V = R \cup Carried(c, l)
  OBVIOUS
<1>6. /\ l \in Nat /\ t \in Nat /\ Len(d) = l + k /\ V \subseteq 0..m
      /\ \A i \in 0..l : Count(d, i) = Count(c, i) /\ Carried(d, i) = Carried(c, i)
      /\ \A i \in 0..k : /\ Count(d, l + i) = t + i
                         /\ R \cup Carried(d, l + i) = V \cup (m + 1)..(m + i)
  <2>1. l \in 0..Len(c) /\ l \in Nat
    BY <1>3
  <2>2. t \in Nat
    BY <1>4, <2>1, CountTypes
  <2>3. /\ Len(d) = l + k
        /\ \A i \in 0..l : Count(d, i) = Count(c, i) /\ Carried(d, i) = Carried(c, i)
        /\ \A i \in 0..k : /\ Count(d, l + i) = t + i
                           /\ Carried(d, l + i) = Carried(c, l) \cup (m + 1)..(m + i)
    <3>1. Len(d) = Len(c) + k
      BY <1>2, SentMore
    <3>2. \A i \in 0..Len(c) : Count(d, i) = Count(c, i) /\ Carried(d, i) = Carried(c, i)
      BY <1>2, SentMore, CountPrefix
    <3>3. \A i \in 0..k : /\ Count(d, Len(c) + i) = Count(c, Len(c)) + i
                         /\ Carried(d, Len(c) + i) = Carried(c, Len(c)) \cup (m + 1)..(m + i)
      <4>1. PICK r : r = SentFrom(m, k)
        OBVIOUS
      <4>2. d = c \o r
        BY <1>2, <4>1
      <4>3. IsSent(r, m, k)
        <5>1. r \in Seq(ClientElem) /\ Len(r) = k
          BY <4>1, SentMore
        <5>2. \A j \in 1..k : r[j].kind = "stanza" /\ r[j].n = m + j
          BY <4>1 DEF SentFrom, Elem
        <5> QED BY <5>1, <5>2 DEF IsSent
      <4> QED BY <4>2, <4>3, SentCounts
    <3> QED BY <1>3, <1>4, <3>1, <3>2, <3>3
  <2>4. V \subseteq 0..m
    BY <1>3, <1>5
  <2>5. \A i \in 0..k : R \cup Carried(d, l + i) = V \cup (m + 1)..(m + i)
    BY <1>5, <2>3
  <2> QED BY <2>1, <2>2, <2>3, <2>4, <2>5
<1>7. \A j \in 0..Len(d) : j \in 0..l \/ \E i \in 0..k : j = l + i
  <2> SUFFICES ASSUME NEW j \in 0..(l + k), j \notin 0..l PROVE \E i \in 0..k : j = l + i
    BY <1>6
  <2>1. j - l \in 0..k /\ j = l + (j - l)
    BY <1>6
  <2> QED BY <2>1
<1>8. Tracked(a, p) = Tracked(a, q) \cup (m + 1)..(m + k)
  BY <1>1, QueuedMore
<1>9. IsFiniteSet(Tracked(a, p))
  <2>1. Tracked(a, p) \subseteq 0..(m + k)
    BY <1>8
  <2> QED BY <2>1, SentFinite
<1>10. ASSUME NEW D, D \subseteq Tracked(a, p), NEW C, C \subseteq D, C \subseteq Tracked(a, q),
              NEW i \in 0..k, (m + 1)..(m + i) \subseteq D
       PROVE  /\ Cardinality(C \cap V) + i <= Cardinality(D \cap (V \cup (m + 1)..(m + i)))
              /\ Cardinality(C \cap V) \in Nat
              /\ Cardinality(D \cap (V \cup (m + 1)..(m + i))) \in Nat
  <2>1. PICK T : T = D \cap (V \cup (m + 1)..(m + i))
    OBVIOUS
  <2>2. PICK S : S = C \cap V
    OBVIOUS
  <2>3. /\ T \subseteq Tracked(a, p) /\ S \subseteq T /\ (m + 1)..(m + i) \subseteq T
        /\ S \subseteq 0..m
    BY <2>1, <2>2, <1>6, <1>10
  <2>4. S \cap (m + 1)..(m + i) = {}
    BY <2>3
  <2>5. IsFiniteSet(T) /\ Cardinality(S) \in Nat /\ Cardinality(T) \in Nat
    <3>1. IsFiniteSet(T)
      BY <1>9, <2>3, CardSubset
    <3> QED BY <3>1, <2>3, CardSubset
  <2>6. Cardinality(S) + i <= Cardinality(T)
    <3>1. i \in Nat
      OBVIOUS
    <3>2. IsFiniteSet(T) /\ S \subseteq T /\ (m + 1)..(m + i) \subseteq T
      BY <2>3, <2>5
    <3> QED BY <2>4, <3>1, <3>2, CardGain
  <2> QED BY <2>1, <2>2, <2>5, <2>6
<1>11. ASSUME NEW D, D \subseteq Tracked(a, p), NEW C, C \subseteq D, NEW W
       PROVE  /\ Cardinality(C \cap W) <= Cardinality(D \cap W)
              /\ Cardinality(C \cap W) \in Nat /\ Cardinality(D \cap W) \in Nat
  <2>1. D \cap W \subseteq Tracked(a, p) /\ C \cap W \subseteq D \cap W
    BY <1>11
  <2>2. IsFiniteSet(D \cap W)
    BY <1>9, <2>1, CardSubset
  <2> QED BY <2>1, <2>2, CardSubset
<1>12. ASSUME TrackedAlong(a, q, c, h, R, u) PROVE TrackedAlong(a, p, c, h, R, u)
  <2> SUFFICES ASSUME NEW j \in 0..Len(c)
               PROVE  h + Count(c, j) <= u + Cardinality(Tracked(a, p) \cap (R \cup Carried(c, j)))
    BY DEF TrackedAlong
  <2>1. PICK x : x = h + Count(c, j)
    OBVIOUS
  <2>2. x <= u + Cardinality(Tracked(a, q) \cap (R \cup Carried(c, j))) /\ x \in Nat
    <3>1. Count(c, j) \in Nat
      BY CountTypes
    <3>2. h + Count(c, j) <= u + Cardinality(Tracked(a, q) \cap (R \cup Carried(c, j)))
      BY <1>12 DEF TrackedAlong
    <3> QED BY <2>1, <3>1, <3>2
  <2>3. Tracked(a, q) \subseteq Tracked(a, p)
    BY <1>8
  <2>4. /\ Cardinality(Tracked(a, q) \cap (R \cup Carried(c, j)))
             <= Cardinality(Tracked(a, p) \cap (R \cup Carried(c, j)))
        /\ Cardinality(Tracked(a, q) \cap (R \cup Carried(c, j))) \in Nat
        /\ Cardinality(Tracked(a, p) \cap (R \cup Carried(c, j))) \in Nat
    BY <1>11, <2>3
  <2> QED BY <2>1, <2>2, <2>4
<1>13. ASSUME TrackedAlong(a, q, c, h, R, u) PROVE TrackedAlong(a, p, d, h, R, u)
  <2> SUFFICES ASSUME NEW j \in 0..Len(d)
               PROVE  h + Count(d, j) <= u + Cardinality(Tracked(a, p) \cap (R \cup Carried(d, j)))
    BY DEF TrackedAlong
  <2>1. ASSUME j \in 0..l
        PROVE  h + Count(d, j) <= u + Cardinality(Tracked(a, p) \cap (R \cup Carried(d, j)))
    <3>1. h + Count(c, j) <= u + Cardinality(Tracked(a, p) \cap (R \cup Carried(c, j)))
      <4>1. j \in 0..Len(c) /\ TrackedAlong(a, p, c, h, R, u)
        BY <1>3, <1>12, <1>13, <2>1
      <4> QED BY <4>1 DEF TrackedAlong
    <3>2. Count(d, j) = Count(c, j) /\ Carried(d, j) = Carried(c, j)
      BY <1>6, <2>1
    <3> QED BY <3>1, <3>2
  <2>2. ASSUME NEW i \in 0..k, j = l + i
        PROVE  h + Count(d, j) <= u + Cardinality(Tracked(a, p) \cap (R \cup Carried(d, j)))
    <3>1. h + t <= u + Cardinality(Tracked(a, q) \cap V)
      <4>1. l \in 0..Len(c)
        BY <1>3, <1>6
      <4>2. h + Count(c, l) <= u + Cardinality(Tracked(a, q) \cap (R \cup Carried(c, l)))
        BY <1>13, <4>1 DEF TrackedAlong
      <4> QED BY <1>4, <1>5, <4>2
    <3>2. /\ (m + 1)..(m + i) \subseteq Tracked(a, p) /\ Tracked(a, q) \subseteq Tracked(a, p)
      <4>1. (m + 1)..(m + i) \subseteq (m + 1)..(m + k)
        OBVIOUS
      <4> QED BY <1>8, <4>1
    <3>3. /\ Cardinality(Tracked(a, q) \cap V) + i
                <= Cardinality(Tracked(a, p) \cap (V \cup (m + 1)..(m + i)))
          /\ Cardinality(Tracked(a, q) \cap V) \in Nat
          /\ Cardinality(Tracked(a, p) \cap (V \cup (m + 1)..(m + i))) \in Nat
      BY <1>10, <3>2
    <3>4. Count(d, j) = t + i /\ R \cup Carried(d, j) = V \cup (m + 1)..(m + i)
      BY <1>6, <2>2
    <3>5. h + (t + i) <= u + Cardinality(Tracked(a, p) \cap (V \cup (m + 1)..(m + i)))
      BY <1>6, <3>1, <3>3
    <3> QED BY <3>4, <3>5
  <2> QED BY <1>7, <2>1, <2>2
<1>14. ASSUME CoveredAlong(a, q, c, h, R, u), n <= h + t PROVE CoveredAlong(a, p, d, h, R, u)
  <2> SUFFICES ASSUME NEW j \in 0..Len(d)
               PROVE  h + Count(d, j) <=
                        u + Cardinality(Covered(a, p, h + Count(d, j)) \cap (R \cup Carried(d, j)))
    BY DEF CoveredAlong
  <2>1. ASSUME j \in 0..l
        PROVE  h + Count(d, j) <=
                 u + Cardinality(Covered(a, p, h + Count(d, j)) \cap (R \cup Carried(d, j)))
    <3>1. PICK x : x = h + Count(c, j)
      OBVIOUS
    <3>2. j \in 0..Len(c)
      BY <2>1, <1>3
    <3>3. x <= u + Cardinality(Covered(a, q, x) \cap (R \cup Carried(c, j))) /\ x \in Nat
      <4>1. Count(c, j) \in Nat
        BY <3>2, CountTypes
      <4>2. h + Count(c, j) <=
                u + Cardinality(Covered(a, q, h + Count(c, j)) \cap (R \cup Carried(c, j)))
        BY <1>14, <3>2 DEF CoveredAlong
      <4> QED BY <3>1, <4>1, <4>2
    <3>4. Covered(a, q, x) \subseteq Covered(a, p, x) /\ Covered(a, p, x) \subseteq Tracked(a, p)
      BY <1>1, QueuedMore, CoveredTracked
    <3>5. /\ Cardinality(Covered(a, q, x) \cap (R \cup Carried(c, j)))
               <= Cardinality(Covered(a, p, x) \cap (R \cup Carried(c, j)))
          /\ Cardinality(Covered(a, q, x) \cap (R \cup Carried(c, j))) \in Nat
          /\ Cardinality(Covered(a, p, x) \cap (R \cup Carried(c, j))) \in Nat
      BY <1>11, <3>4
    <3>6. x <= u + Cardinality(Covered(a, p, x) \cap (R \cup Carried(c, j)))
      BY <3>3, <3>5
    <3> QED BY <3>1, <3>6, <1>6, <2>1
  <2>2. ASSUME NEW i \in 0..k, j = l + i
        PROVE  h + Count(d, j) <=
                 u + Cardinality(Covered(a, p, h + Count(d, j)) \cap (R \cup Carried(d, j)))
    <3>1. PICK x : x = h + (t + i)
      OBVIOUS
    <3>2. x \in Nat /\ n + i <= x /\ h + t <= x /\ i \in Nat /\ i <= k /\ h + t \in Nat
      BY <1>6, <1>14, <3>1
    <3>3. h + t <= u + Cardinality(Covered(a, q, h + t) \cap V)
      <4>1. l \in 0..Len(c)
        BY <1>3, <1>6
      <4>2. h + Count(c, l) <=
                u + Cardinality(Covered(a, q, h + Count(c, l)) \cap (R \cup Carried(c, l)))
        BY <1>14, <4>1 DEF CoveredAlong
      <4> QED BY <1>4, <1>5, <4>2
    <3>4. /\ (m + 1)..(m + i) \subseteq Covered(a, p, x)
          /\ Covered(a, q, x) \subseteq Covered(a, p, x) /\ Covered(a, p, x) \subseteq Tracked(a, p)
          /\ Covered(a, q, h + t) \subseteq Tracked(a, q)
      BY <1>1, <3>2, QueuedMore, CoveredTracked
    <3>5. Covered(a, q, h + t) \subseteq Covered(a, q, x)
      <4>1. \A z \in DOMAIN q : q[z].seq <= h + t => q[z].seq <= x
        <5> SUFFICES ASSUME NEW z \in DOMAIN q, q[z].seq <= h + t PROVE q[z].seq <= x
          OBVIOUS
        <5>1. q[z] \in Queued
          OBVIOUS
        <5> QED BY <5>1, <3>2 DEF Queued
      <4> QED BY <4>1 DEF Covered
    <3>6. PICK C : C = Covered(a, q, h + t)
      OBVIOUS
    <3>7. PICK D : D = Covered(a, p, x)
      OBVIOUS
    <3>8. /\ Cardinality(C \cap V) + i <= Cardinality(D \cap (V \cup (m + 1)..(m + i)))
          /\ Cardinality(C \cap V) \in Nat
          /\ Cardinality(D \cap (V \cup (m + 1)..(m + i))) \in Nat
      <4>1. /\ D \subseteq Tracked(a, p) /\ C \subseteq D /\ C \subseteq Tracked(a, q)
            /\ (m + 1)..(m + i) \subseteq D
        BY <3>4, <3>5, <3>6, <3>7
      <4> QED BY <4>1, <1>10
    <3>9. x <= u + Cardinality(D \cap (V \cup (m + 1)..(m + i)))
      BY <1>6, <3>1, <3>3, <3>6, <3>8
    <3>10. Count(d, j) = t + i /\ R \cup Carried(d, j) = V \cup (m + 1)..(m + i)
      BY <1>6, <2>2
    <3> QED BY <3>1, <3>7, <3>9, <3>10
  <2> QED BY <1>7, <2>1, <2>2
<1> QED BY <1>1, <1>2, <1>3, <1>4, <1>12, <1>13, <1>14

LEMMA CardCover ==
    ASSUME NEW A, IsFiniteSet(A), NEW B, IsFiniteSet(B), NEW S, S \subseteq A \cup B
    PROVE  /\ Cardinality(S) <= Cardinality(A) + Cardinality(B)
           /\ Cardinality(S) \in Nat /\ Cardinality(A) \in Nat /\ Cardinality(B) \in Nat
<1>1. /\ IsFiniteSet(A \cup B)
      /\ Cardinality(A \cup B) = Cardinality(A) + Cardinality(B) - Cardinality(A \cap B)
  BY FS_Union
<1>2. A \cap B \subseteq A
  OBVIOUS
<1>3. Cardinality(A \cap B) \in Nat /\ Cardinality(A) \in Nat /\ Cardinality(B) \in Nat
  BY <1>2, CardSubset, FS_CardinalityType
<1>4. /\ Cardinality(S) <= Cardinality(A \cup B) /\ Cardinality(S) \in Nat
      /\ Cardinality(A \cup B) \in Nat
  BY <1>1, CardSubset
<1> QED BY <1>1, <1>3, <1>4

\* The queue q, the end of what n counts, waits for a stream; its <resumed/> reports x,
\* p is left, b is taken for received, and r is sent again.
Resumes(q, n, x, a, c, h, R, u, p, b, r) ==
    /\ q \in Seq(Queued) /\ n \in Nat /\ x \in Nat /\ c \in Seq(ClientElem) /\ h \in Nat /\ u \in Nat
    /\ AlignedTo(q, n) /\ IsFiniteSet(a) /\ IsFiniteSet(Tracked(a, q))
    /\ x <= h /\ n <= h + Len(q) /\ TrackedAlong(a, q, c, h, R, u)
    /\ p = Prune(q, x) /\ b = a \cup PrunedMsgs(q, x)
    /\ r = [i \in 1..Len(p) |-> Elem("stanza", p[i].msg, 0)]

\* A resumed stream sends all that is left in the queue again, uncounted: with that
\* many more stanzas to miss, the tracked ones the server had, or is about to have,
\* out of turn are made up for.
LEMMA ResumeAlong ==
    ASSUME NEW q, NEW n, NEW x, NEW a, NEW c, NEW h, NEW R, NEW u, NEW p, NEW b, NEW r,
           Resumes(q, n, x, a, c, h, R, u, p, b, r)
    PROVE  /\ CoveredAlong(b, p, c \o r, h, R, u + Len(p))
           /\ n <= h + Count(c \o r, Len(c \o r)) /\ n <= h + Len(p)
<1>0. /\ q \in Seq(Queued) /\ n \in Nat /\ x \in Nat /\ c \in Seq(ClientElem) /\ h \in Nat /\ u \in Nat
      /\ AlignedTo(q, n) /\ IsFiniteSet(a) /\ IsFiniteSet(Tracked(a, q))
      /\ x <= h /\ n <= h + Len(q) /\ TrackedAlong(a, q, c, h, R, u)
      /\ p = Prune(q, x) /\ b = a \cup PrunedMsgs(q, x)
      /\ r = [i \in 1..Len(p) |-> Elem("stanza", p[i].msg, 0)]
  BY DEF Resumes
<1> USE <1>0
<1>1. PICK L : L = Len(p)
  OBVIOUS
<1>2. PICK l : l = Len(c)
  OBVIOUS
<1>3. PICK t : t = Count(c, l)
  OBVIOUS
<1>4. PICK d : d = c \o r
  OBVIOUS
<1>5. PICK T : T = Tracked(a, q)
  OBVIOUS
<1>6. PICK k : k = Confirmed(q, x)
  OBVIOUS
<1>7. /\ p \in Seq(Queued) /\ DOMAIN p = 1..L /\ L \in Nat
      /\ k \in Nat /\ Len(q) \in Nat /\ L = Len(q) - k /\ \A i \in 1..L : p[i] = q[k + i]
  <2>1. k \in 0..Len(q) /\ Len(q) \in Nat
    BY <1>6, ConfirmedRange
  <2>2. p \in Seq(Queued) /\ Len(p) = Len(q) - k /\ \A i \in 1..Len(p) : p[i] = q[k + i]
    BY <1>6, PruneProperties
  <2> QED BY <1>1, <2>1, <2>2
<1>8. n <= h + L
  <2>1. n <= x + Len(p) \/ p = q
    BY PruneTracked
  <2> QED BY <1>1, <1>7, <2>1
<1>9. \A i \in 1..L : p[i].seq \in Nat /\ p[i].msg \in Nat /\ p[i].seq + L = n + i
  <2> SUFFICES ASSUME NEW i \in 1..L
               PROVE  p[i].seq \in Nat /\ p[i].msg \in Nat /\ p[i].seq + L = n + i
    OBVIOUS
  <2>1. k + i \in DOMAIN q
    BY <1>7
  <2>2. q[k + i] \in Queued /\ q[k + i].seq + Len(q) = n + (k + i)
    BY <2>1 DEF AlignedTo
  <2>3. p[i] = q[k + i]
    BY <1>7
  <2>4. \A z \in Nat : z + Len(q) = n + (k + i) => z + L = n + i
    BY <1>7
  <2> QED BY <2>2, <2>3, <2>4 DEF Queued
<1>10. T = Tracked(b, p)
  BY <1>5, PruneTracked
<1> DEFINE P(i) == {p[j].msg : j \in 1..i}
<1>11. /\ r \in Seq(ClientElem) /\ Len(r) = L /\ \A i \in 1..L : r[i].kind = "stanza"
       /\ \A i \in 0..L : {r[j].n : j \in 1..i} = P(i)
  <2>1. r \in Seq(ClientElem)
    BY <1>7, RetransmittedType
  <2>2. DOMAIN r = 1..L /\ \A i \in 1..L : r[i].kind = "stanza" /\ r[i].n = p[i].msg
    BY <1>1 DEF Elem
  <2>3. Len(r) = L
    BY <1>7, <2>1, <2>2, LenProperties
  <2>4. ASSUME NEW i \in 0..L PROVE {r[j].n : j \in 1..i} = P(i)
    <3>1. \A j \in 1..i : r[j].n = p[j].msg
      <4>1. 1..i \subseteq 1..L
        BY <1>7
      <4> QED BY <2>2, <4>1
    <3> QED BY <3>1
  <2> QED BY <2>1, <2>2, <2>3, <2>4
<1>12. /\ l \in Nat /\ t \in Nat /\ Len(d) = l + L /\ l \in 0..Len(c)
       /\ \A i \in 0..l : Count(d, i) = Count(c, i) /\ Carried(d, i) = Carried(c, i)
       /\ \A i \in 0..L : /\ Count(d, l + i) = t + i
                          /\ Carried(d, l + i) = Carried(c, l) \cup P(i)
  <2>1. l \in Nat /\ l \in 0..Len(c)
    BY <1>2
  <2>2. t \in Nat
    BY <1>3, <2>1, CountTypes
  <2>3. Len(d) = l + L
    <3>1. r \in Seq(ClientElem) /\ Len(r) = L
      BY <1>11
    <3>2. Len(c \o r) = Len(c) + Len(r)
      BY <3>1, ConcatAt
    <3> QED BY <1>2, <1>4, <3>1, <3>2
  <2>4. \A i \in 0..l : Count(d, i) = Count(c, i) /\ Carried(d, i) = Carried(c, i)
    BY <1>2, <1>4, <1>11, CountPrefix
  <2>5. ASSUME NEW i \in 0..L
        PROVE  Count(d, l + i) = t + i /\ Carried(d, l + i) = Carried(c, l) \cup P(i)
    <3>1. i \in 0..Len(r) /\ r \in Seq(ClientElem) /\ \A j \in 1..Len(r) : r[j].kind = "stanza"
      BY <1>11
    <3>2. /\ Count(c \o r, Len(c) + i) = Count(c, Len(c)) + i
          /\ Carried(c \o r, Len(c) + i) = Carried(c, Len(c)) \cup {r[j].n : j \in 1..i}
      BY <3>1, CountMore
    <3>3. {r[j].n : j \in 1..i} = P(i)
      BY <1>11
    <3> HIDE DEF P
    <3> QED BY <1>2, <1>3, <1>4, <3>2, <3>3
  <2> HIDE DEF P
  <2> QED BY <2>1, <2>2, <2>3, <2>4, <2>5
<1>13. n <= h + Count(d, Len(d))
  <2>1. Count(d, l + L) = t + L
    <3>1. L \in 0..L
      BY <1>7
    <3> QED BY <1>12, <3>1
  <2> QED BY <1>7, <1>8, <1>12, <2>1
<1>14. ASSUME NEW i \in 0..L, NEW C, C \subseteq T, b \subseteq C, P(i) \subseteq C, NEW W
       PROVE  /\ Cardinality(T \cap W) + i <= Cardinality(C \cap (W \cup P(i))) + L
              /\ Cardinality(T \cap W) \in Nat /\ Cardinality(C \cap (W \cup P(i))) \in Nat
  <2> DEFINE I == (i + 1)..L
             O == {p[j].msg : j \in I}
  <2>1. IsFiniteSet(I) /\ Cardinality(I) = L - i
    <3>1. i + 1 \in Int /\ L \in Int
      BY <1>7
    <3>2. IsFiniteSet(I) /\ Cardinality(I) = IF i + 1 > L THEN 0 ELSE L - (i + 1) + 1
      BY <3>1, FS_Interval
    <3> HIDE DEF I
    <3> QED BY <1>7, <3>2
  <2>2. IsFiniteSet(O) /\ Cardinality(O) <= L - i
    <3> DEFINE f == [j \in I |-> p[j].msg]
    <3>1. f = [j \in I |-> f[j]] /\ O = {f[j] : j \in I}
      OBVIOUS
    <3> HIDE DEF f, O, I
    <3> QED BY <2>1, <3>1, CardImage
  <2>3. T = b \cup P(i) \cup O
    <3>1. \A j \in 1..L : j \in 1..i \/ j \in I
      BY <1>7
    <3>2. 1..i \subseteq 1..L /\ I \subseteq 1..L
      BY <1>7
    <3>3. T = b \cup {p[j].msg : j \in 1..L}
      BY <1>7, <1>10 DEF Tracked
    <3> HIDE DEF I
    <3> QED BY <3>1, <3>2, <3>3
  <2> HIDE DEF O, P
  <2>4. PICK D : D = C \cap (W \cup P(i))
    OBVIOUS
  <2>5. PICK S : S = T \cap W
    OBVIOUS
  <2>6. S \subseteq D \cup O /\ D \subseteq T
    BY <1>14, <2>3, <2>4, <2>5
  <2>7. IsFiniteSet(D)
    BY <1>5, <2>6, CardSubset
  <2>8. /\ Cardinality(S) <= Cardinality(D) + Cardinality(O)
        /\ Cardinality(S) \in Nat /\ Cardinality(D) \in Nat /\ Cardinality(O) \in Nat
    BY <2>2, <2>6, <2>7, CardCover
  <2>9. Cardinality(S) + i <= Cardinality(D) + L
    BY <1>7, <2>2, <2>8
  <2> QED BY <2>4, <2>5, <2>8, <2>9
<1>15. \A y : b \subseteq Covered(b, p, y) /\ Covered(b, p, y) \subseteq T
  BY <1>10, CoveredTracked
<1>16. SUFFICES ASSUME NEW j \in 0..Len(d)
                PROVE  h + Count(d, j) <= (u + L) +
                         Cardinality(Covered(b, p, h + Count(d, j)) \cap (R \cup Carried(d, j)))
  BY <1>1, <1>4, <1>8, <1>13 DEF CoveredAlong
<1>17. CASE j \in 0..l
  <2>1. PICK y : y = h + Count(c, j)
    OBVIOUS
  <2>2. PICK W : W = R \cup Carried(c, j)
    OBVIOUS
  <2>3. y <= u + Cardinality(T \cap W) /\ y \in Nat
    <3>1. j \in 0..Len(c)
      BY <1>2, <1>17
    <3>2. Count(c, j) \in Nat
      BY <3>1, CountTypes
    <3>3. h + Count(c, j) <= u + Cardinality(Tracked(a, q) \cap (R \cup Carried(c, j)))
      BY <3>1 DEF TrackedAlong
    <3> QED BY <1>5, <2>1, <2>2, <3>2, <3>3
  <2>4. PICK C : C = Covered(b, p, y)
    OBVIOUS
  <2>5. 0 \in 0..L /\ P(0) = {}
    BY <1>7
  <2>6. C \subseteq T /\ b \subseteq C /\ P(0) \subseteq C
    BY <1>15, <2>4, <2>5
  <2>7. W \cup P(0) = W
    BY <2>5
  <2> HIDE DEF P
  <2>8. /\ Cardinality(T \cap W) + 0 <= Cardinality(C \cap (W \cup P(0))) + L
        /\ Cardinality(T \cap W) \in Nat /\ Cardinality(C \cap (W \cup P(0))) \in Nat
    BY <1>14, <2>5, <2>6
  <2>9. y <= (u + L) + Cardinality(C \cap W)
    <3> DEFINE A == Cardinality(T \cap W)
               B == Cardinality(C \cap W)
    <3>1. y <= u + A /\ y \in Nat /\ A + 0 <= B + L /\ A \in Nat /\ B \in Nat
      BY <2>3, <2>7, <2>8
    <3> HIDE DEF A, B
    <3>2. y <= (u + L) + B
      BY <1>7, <3>1
    <3> QED BY <3>2 DEF B
  <2>10. Count(d, j) = Count(c, j) /\ Carried(d, j) = Carried(c, j)
    BY <1>12, <1>17
  <2> QED BY <2>1, <2>2, <2>4, <2>9, <2>10
<1>18. ASSUME NEW i \in 0..L, j = l + i
       PROVE  h + Count(d, j) <= (u + L) +
                Cardinality(Covered(b, p, h + Count(d, j)) \cap (R \cup Carried(d, j)))
  <2>1. PICK y : y = h + (t + i)
    OBVIOUS
  <2>2. PICK W : W = R \cup Carried(c, l)
    OBVIOUS
  <2>3. h + t <= u + Cardinality(T \cap W)
    <3>1. h + Count(c, l) <= u + Cardinality(Tracked(a, q) \cap (R \cup Carried(c, l)))
      BY <1>12 DEF TrackedAlong
    <3> QED BY <1>3, <1>5, <2>2, <3>1
  <2>4. PICK C : C = Covered(b, p, y)
    OBVIOUS
  <2>5. P(i) \subseteq C
    <3> SUFFICES ASSUME NEW z \in 1..i PROVE p[z].msg \in C
      OBVIOUS
    <3>1. z \in 1..L /\ z \in Nat /\ z <= i
      BY <1>7
    <3>2. p[z].seq <= y
      <4>1. p[z].seq \in Nat /\ p[z].seq + L = n + z
        BY <1>9, <3>1
      <4>2. PICK w : w = p[z].seq
        OBVIOUS
      <4>3. /\ n \in Nat /\ h \in Nat /\ L \in Nat /\ t \in Nat /\ i \in Nat /\ z \in Nat /\ w \in Nat
            /\ n <= h + L /\ w + L = n + z /\ z <= i
        BY <1>7, <1>8, <1>12, <3>1, <4>1, <4>2
      <4>4. w <= h + (t + i)
        BY ONLY <4>3
      <4> QED BY <2>1, <4>2, <4>4
    <3> QED BY <1>7, <2>4, <3>1, <3>2 DEF Covered
  <2>6. C \subseteq T /\ b \subseteq C
    BY <1>15, <2>4
  <2> HIDE DEF P
  <2>7. /\ Cardinality(T \cap W) + i <= Cardinality(C \cap (W \cup P(i))) + L
        /\ Cardinality(T \cap W) \in Nat /\ Cardinality(C \cap (W \cup P(i))) \in Nat
    BY <1>14, <2>5, <2>6
  <2>8. y <= (u + L) + Cardinality(C \cap (W \cup P(i)))
    <3> DEFINE A == Cardinality(T \cap W)
               B == Cardinality(C \cap (W \cup P(i)))
    <3>1. h + t <= u + A /\ A + i <= B + L /\ A \in Nat /\ B \in Nat
      BY <2>3, <2>7
    <3> HIDE DEF A, B
    <3>2. h + (t + i) <= (u + L) + B
      BY <1>7, <1>12, <3>1
    <3> QED BY <2>1, <3>2 DEF B
  <2>9. Count(d, j) = t + i /\ R \cup Carried(d, j) = W \cup P(i)
    BY <1>12, <1>18, <2>2
  <2> QED BY <2>1, <2>4, <2>8, <2>9
<1>19. j \in 0..l \/ \E i \in 0..L : j = l + i
  <2> SUFFICES ASSUME j \notin 0..l PROVE \E i \in 0..L : j = l + i
    OBVIOUS
  <2>1. j - l \in 0..L /\ j = l + (j - l)
    BY <1>7, <1>12
  <2> QED BY <2>1
<1> QED BY <1>17, <1>18, <1>19

-------------------------------------------------------------------------------
\* The invariant.

\* A stream that is opening a session, and one that runs under SM.
Opening     == link = "up" /\ Negotiating /\ smId = NoId
Established == link = "up" /\ smEnabled /\ ~ Negotiating

\* The server counts from its answer on, and only for a client that counts or will.
CountsTogether ==
    /\ link # "up" => c2s = <<>> /\ s2c = <<>> /\ ~ counting
    /\ counting => /\ ~ InFlight(c2s, Asks) /\ ~ InFlight(s2c, {"failed"})
                   /\ smEnabled \/ InFlight(s2c, {"enabled"})
    /\ InFlight(s2c, {"enabled"}) \/ InFlight(s2c, {"resumed"}) => counting
    /\ Established => counting
    /\ smId # NoId => smEnabled
    /\ InFlight(c2s, {"enable"}) \/ InFlight(s2c, {"enabled"}) => smId = NoId

\* An h on its way is no more than the server has handled, and none precedes the
\* answer to <enable/> or <resume/>.
ReportsHandled ==
    /\ \A i \in DOMAIN s2c :
          s2c[i].kind \in {"a", "resumed"} => counting /\ s2c[i].n <= handled
    /\ \A i, j \in DOMAIN s2c : i < j /\ s2c[i].kind = "a" => s2c[j].kind \notin Answers

\* Nothing is known, queued or under way that was not sent.
OnlySent ==
    /\ received \subseteq 0..msgs /\ Tracked(acked, outq) \subseteq 0..msgs
    /\ \A i \in DOMAIN c2s : c2s[i].kind = "stanza" => c2s[i].n <= msgs

\* While a session opens nothing is taken for received, and all that was sent is uncounted.
OpeningRun ==
    Opening =>
        acked = {} /\ (IF counting THEN handled ELSE 0) + Count(c2s, Len(c2s)) <= uncounted

\* hOut counts what was taken for received and what is queued; what the server has
\* not handled of it is still queued.
QueueKept ==
    smId # NoId \/ Established =>
        Aligned /\ Cardinality(acked) + Len(outq) <= hOut /\ hOut <= handled + Len(outq)

\* Of what the server handled, or will have, all but the uncounted transmissions were
\* tracked stanzas while the session waits to be resumed ...
ResumableRun ==
    smId # NoId /\ ~ Established => TrackedAlong(acked, outq, c2s, handled, received, uncounted)

\* ... and stanzas its h then stands for, once the stream is established.
EstablishedRun ==
    Established =>
        /\ hOut <= handled + Count(c2s, Len(c2s))
        /\ CoveredAlong(acked, outq, c2s, handled, received, uncounted)

Runs    == OpeningRun /\ QueueKept /\ ResumableRun /\ EstablishedRun /\ LossBounded
LossInv == NegotiationInv /\ CountsTogether /\ ReportsHandled /\ OnlySent /\ Runs

-------------------------------------------------------------------------------
\* Who counts, and what is reported.

LEMMA LossTypes ==
    ASSUME TypeOK
    PROVE  /\ c2s \in Seq(ClientElem) /\ s2c \in Seq(ServerElem) /\ outq \in Seq(Queued)
           /\ hIn \in Nat /\ hOut \in Nat /\ handled \in Nat /\ uncounted \in Nat /\ msgs \in Nat
           /\ received \in SUBSET Nat /\ acked \in SUBSET Nat /\ smId \in Nat
           /\ smEnabled \in BOOLEAN /\ smAvailable \in BOOLEAN /\ counting \in BOOLEAN
  BY DEF TypeOK, ClientTypes, StreamTypes, ServerTypes, HistoryTypes

\* What keeps the requests and the answers keeps what is being negotiated.
LEMMA NegotiatingSame ==
    ASSUME Keeps(c2s, c2s', Asks), Keeps(s2c, s2c', Answers)
    PROVE  /\ Negotiating' <=> Negotiating
           /\ (InFlight(c2s, Asks))' <=> InFlight(c2s, Asks)
           /\ (InFlight(s2c, Answers))' <=> InFlight(s2c, Answers)
<1>1. (InFlight(c2s, Asks))' <=> InFlight(c2s, Asks)
  BY DEF Keeps, InFlight
<1>2. (InFlight(s2c, Answers))' <=> InFlight(s2c, Answers)
  BY DEF Keeps, InFlight
<1>3. Negotiating <=> InFlight(c2s, Asks) \/ InFlight(s2c, Answers)
  BY DEF Negotiating, Asks, Answers
<1>4. Negotiating' <=> (InFlight(c2s, Asks))' \/ (InFlight(s2c, Answers))'
  BY DEF Negotiating, Asks, Answers
<1> QED BY <1>1, <1>2, <1>3, <1>4

LEMMA CountsQuiet ==
    ASSUME NegotiationInv, CountsTogether,
           Keeps(c2s, c2s', Asks), Keeps(s2c, s2c', Answers),
           UNCHANGED <<link, smEnabled, smId, counting>>,
           link # "up" => c2s' = <<>> /\ s2c' = <<>>
    PROVE  CountsTogether'
<1>1. /\ Negotiating' <=> Negotiating
      /\ (InFlight(c2s, Asks))' <=> InFlight(c2s, Asks)
      /\ (InFlight(s2c, Answers))' <=> InFlight(s2c, Answers)
  BY NegotiatingSame
<1>2. (InFlight(c2s, {"enable"}))' => InFlight(c2s, {"enable"})
  BY DEF Keeps, InFlight, Asks
<1>3. /\ (InFlight(s2c, {"enabled"}))' => InFlight(s2c, {"enabled"})
      /\ (InFlight(s2c, {"resumed"}))' => InFlight(s2c, {"resumed"})
      /\ (InFlight(s2c, {"failed"}))' => InFlight(s2c, {"failed"})
  BY DEF Keeps, InFlight, Answers
<1>4. InFlight(s2c, {"enabled"}) => (InFlight(s2c, {"enabled"}))'
  <2> SUFFICES ASSUME NEW i \in DOMAIN s2c, s2c[i].kind = "enabled"
               PROVE  \E j \in DOMAIN s2c' : s2c'[j].kind = "enabled"
    BY DEF InFlight
  <2>1. InFlight(s2c, Answers)
    BY DEF InFlight, Answers
  <2>2. PICK j \in DOMAIN s2c' : s2c'[j].kind \in Answers
    BY <1>1, <2>1 DEF InFlight
  <2>3. PICK l \in DOMAIN s2c : s2c[l] = s2c'[j]
    BY <2>2 DEF Keeps
  <2>4. l = i
    BY <2>2, <2>3 DEF NegotiationInv, OneNegotiation, AtMostOne, Answers
  <2> QED BY <2>3, <2>4
<1>5. Established' <=> Established
  BY <1>1 DEF Established
<1> QED BY <1>1, <1>2, <1>3, <1>4, <1>5 DEF CountsTogether

\* An answer taken in, or none under way: counting holds exactly when SM runs.
LEMMA CountsSettled ==
    ASSUME ~ InFlight(c2s', Asks), ~ InFlight(s2c', Answers), link' = "up",
           counting' <=> smEnabled', smId' # NoId => smEnabled'
    PROVE  CountsTogether'
<1>1. /\ ~ (InFlight(s2c, {"enabled"}))' /\ ~ (InFlight(s2c, {"resumed"}))'
      /\ ~ (InFlight(s2c, {"failed"}))' /\ ~ (InFlight(c2s, {"enable"}))'
  BY DEF InFlight, Asks, Answers
<1> QED BY <1>1 DEF CountsTogether, Established

\* Nothing of a stream remains.
LEMMA CountsGone ==
    ASSUME CountsTogether, c2s' = <<>>, s2c' = <<>>, link' # "up", ~ counting',
           smEnabled' = smEnabled, smId' \in {smId, NoId}
    PROVE  CountsTogether' /\ ReportsHandled'
<1>1. \A kinds : ~ InFlight(c2s', kinds) /\ ~ InFlight(s2c', kinds)
  BY DEF InFlight
<1> QED BY <1>1 DEF CountsTogether, Established, ReportsHandled

LEMMA ReportsAppend ==
    ASSUME ReportsHandled, s2c \in Seq(ServerElem), NEW r \in Seq(ServerElem), s2c' = s2c \o r,
           InFlight(s2c, {"a", "resumed"}) => handled <= handled' /\ counting',
           \A i \in DOMAIN s2c : s2c[i].n \in Nat, handled \in Nat, handled' \in Nat,
           \A i \in DOMAIN r : r[i].kind \in {"a", "resumed"} => counting' /\ r[i].n <= handled',
           InFlight(r, Answers) => ~ InFlight(s2c, {"a"}) /\ ~ InFlight(r, {"a"})
    PROVE  ReportsHandled'
<1>1. /\ Len(s2c) \in Nat /\ Len(r) \in Nat
      /\ DOMAIN s2c = 1..Len(s2c) /\ DOMAIN r = 1..Len(r)
      /\ DOMAIN s2c' = 1..(Len(s2c) + Len(r))
      /\ \A i \in 1..Len(s2c) : s2c'[i] = s2c[i]
      /\ \A i \in (Len(s2c) + 1)..(Len(s2c) + Len(r)) : s2c'[i] = r[i - Len(s2c)]
  <2>1. PICK p : p = s2c \o r
    OBVIOUS
  <2>2. /\ Len(s2c) \in Nat /\ Len(r) \in Nat
        /\ DOMAIN s2c = 1..Len(s2c) /\ DOMAIN r = 1..Len(r)
        /\ DOMAIN p = 1..(Len(s2c) + Len(r))
        /\ \A i \in 1..Len(s2c) : p[i] = s2c[i]
        /\ \A i \in (Len(s2c) + 1)..(Len(s2c) + Len(r)) : p[i] = r[i - Len(s2c)]
    BY <2>1, ConcatAt
  <2> QED BY <2>1, <2>2
<1>2. \A i \in DOMAIN s2c' : \/ i \in DOMAIN s2c /\ s2c'[i] = s2c[i]
                             \/ i - Len(s2c) \in DOMAIN r /\ s2c'[i] = r[i - Len(s2c)] /\ i > Len(s2c)
  BY <1>1
<1>3. ASSUME NEW i \in DOMAIN s2c', s2c'[i].kind \in {"a", "resumed"}
      PROVE  counting' /\ s2c'[i].n <= handled'
  <2>1. CASE i \in DOMAIN s2c /\ s2c'[i] = s2c[i]
    <3>1. s2c[i].n <= handled /\ handled <= handled' /\ counting'
      BY <1>3, <2>1 DEF ReportsHandled, InFlight
    <3> QED BY <2>1, <3>1
  <2>2. CASE i - Len(s2c) \in DOMAIN r /\ s2c'[i] = r[i - Len(s2c)]
    BY <1>3, <2>2
  <2> QED BY <1>2, <2>1, <2>2
<1>4. ASSUME NEW i \in DOMAIN s2c', NEW j \in DOMAIN s2c', i < j, s2c'[i].kind = "a"
      PROVE  s2c'[j].kind \notin Answers
  <2>1. CASE j \in DOMAIN s2c /\ s2c'[j] = s2c[j]
    <3>1. i \in DOMAIN s2c /\ s2c'[i] = s2c[i]
      BY <1>1, <1>4, <2>1
    <3> QED BY <1>4, <2>1, <3>1 DEF ReportsHandled
  <2>2. CASE j - Len(s2c) \in DOMAIN r /\ s2c'[j] = r[j - Len(s2c)]
    <3>1. InFlight(s2c, {"a"}) \/ InFlight(r, {"a"})
      BY <1>2, <1>4 DEF InFlight
    <3> QED BY <2>2, <3>1 DEF InFlight
  <2> QED BY <1>2, <2>1, <2>2
<1> QED BY <1>3, <1>4 DEF ReportsHandled

LEMMA ReportsTail ==
    ASSUME ReportsHandled, s2c \in Seq(ServerElem), s2c # <<>>, s2c' = Tail(s2c),
           UNCHANGED <<handled, counting>>
    PROVE  ReportsHandled'
<1>1. \A i \in DOMAIN s2c' : i \in Int /\ i + 1 \in DOMAIN s2c /\ s2c'[i] = s2c[i + 1]
  OBVIOUS
<1>2. \A i, j \in DOMAIN s2c' : i < j => i + 1 < j + 1
  BY <1>1
<1> QED BY <1>1, <1>2 DEF ReportsHandled

LEMMA ReportsSame ==
    ASSUME ReportsHandled, s2c' = s2c, handled <= handled', counting' = counting,
           handled \in Nat, handled' \in Nat, \A i \in DOMAIN s2c : s2c[i].n \in Nat
    PROVE  ReportsHandled'
  BY DEF ReportsHandled

LEMMA ServerElemTypes ==
    ASSUME NEW q \in Seq(ServerElem)
    PROVE  \A i \in DOMAIN q : q[i] \in ServerElem /\ q[i].n \in Nat
<1>1. \A i \in DOMAIN q : q[i] \in ServerElem
  OBVIOUS
<1> QED BY <1>1 DEF ServerElem

\* One element behind the others.
LEMMA ReportsOne ==
    ASSUME ReportsHandled, s2c \in Seq(ServerElem), NEW e \in ServerElem, s2c' = Append(s2c, e),
           InFlight(s2c, {"a", "resumed"}) => handled <= handled' /\ counting',
           handled \in Nat, handled' \in Nat,
           e.kind \in {"a", "resumed"} => counting' /\ e.n <= handled',
           e.kind \in Answers => ~ InFlight(s2c, {"a"})
    PROVE  ReportsHandled'
<1>1. PICK r : r = <<e>>
  OBVIOUS
<1>2. r \in Seq(ServerElem) /\ s2c' = s2c \o r
  BY <1>1
<1>3. DOMAIN r = {1} /\ r[1] = e
  BY <1>1
<1>4. \A i \in DOMAIN s2c : s2c[i].n \in Nat
  BY ServerElemTypes
<1>5. \A i \in DOMAIN r : r[i].kind \in {"a", "resumed"} => counting' /\ r[i].n <= handled'
  BY <1>3
<1>6. InFlight(r, Answers) => ~ InFlight(s2c, {"a"}) /\ ~ InFlight(r, {"a"})
  BY <1>3 DEF InFlight, Answers
<1> QED BY <1>2, <1>4, <1>5, <1>6, ReportsAppend

LEMMA ControlQuiet ==
    ASSUME NegotiationInv, CountsTogether, ReportsHandled, TypeOK',
           \/ OnAck \/ OnRequest \/ OnStanza \/ AckTimerTick \/ SrvStanza \/ SrvRequest
           \/ SrvAck \/ SrvSend \/ SrvSendOutside \/ SrvAsk \/ SrvForget \/ UserSend
    PROVE  CountsTogether' /\ ReportsHandled'
<1>0. /\ s2c \in Seq(ServerElem) /\ s2c' \in Seq(ServerElem)
      /\ handled \in Nat /\ handled' \in Nat /\ \A i \in DOMAIN s2c : s2c[i].n \in Nat
  BY ServerElemTypes DEF NegotiationInv, TypeOK, StreamTypes, ServerTypes
<1>1. CountsTogether'
  <2>1. Keeps(c2s, c2s', Asks) /\ Keeps(s2c, s2c', Answers)
    BY QuietKeeps, UserSendKeeps
  <2>2. UNCHANGED <<link, smEnabled, smId, counting>>
    BY DEF OnAck, OnRequest, OnStanza, AckTimerTick, SrvStanza, SrvRequest, SrvAck, SrvSend,
           SrvSendOutside, SrvAsk, SrvForget, UserSend, client, server
  <2>3. link = "up" \/ (c2s' = c2s /\ s2c' = s2c)
    BY DEF OnAck, OnRequest, OnStanza, AckTimerTick, SrvStanza, SrvRequest, SrvAck, SrvSend,
           SrvSendOutside, SrvAsk, SrvForget, UserSend, Receive, ServerReceive, Send
  <2>4. link # "up" => c2s' = <<>> /\ s2c' = <<>>
    BY <2>3 DEF CountsTogether
  <2> QED BY <2>1, <2>2, <2>4, CountsQuiet
<1>2. CASE OnAck \/ OnRequest \/ OnStanza
  <2>1. s2c # <<>> /\ s2c' = Tail(s2c) /\ UNCHANGED <<handled, counting>>
    BY <1>2 DEF OnAck, OnRequest, OnStanza, Receive, server
  <2> QED BY <1>0, <1>1, <2>1, ReportsTail
<1>3. CASE s2c' = s2c /\ (AckTimerTick \/ SrvStanza \/ SrvRequest \/ SrvAck \/ SrvForget \/ UserSend)
  <2>1. counting' = counting
    BY <1>3 DEF AckTimerTick, SrvStanza, SrvRequest, SrvAck, SrvForget, UserSend, server
  <2>2. handled' \in {handled, handled + 1}
    BY <1>3 DEF AckTimerTick, SrvStanza, SrvRequest, SrvAck, SrvForget, UserSend, server
  <2>3. handled <= handled'
    BY <1>0, <2>2
  <2> QED BY <1>0, <1>1, <1>3, <2>1, <2>3, ReportsSame
<1>4. ASSUME NEW e, s2c' = Append(s2c, e), UNCHANGED <<handled, counting>>,
             e.kind \in {"a", "r", "stanza"}, e.kind = "a" => counting /\ e.n <= handled
      PROVE  ReportsHandled'
  <2>1. e \in ServerElem
    <3>1. Len(s2c) + 1 \in DOMAIN s2c' /\ s2c'[Len(s2c) + 1] = e
      BY <1>0, <1>4
    <3> QED BY <1>0, <3>1
  <2>2. e.kind \notin Answers
    BY <1>4 DEF Answers
  <2>3. InFlight(s2c, {"a", "resumed"}) => handled <= handled' /\ counting'
    BY <1>0, <1>4 DEF InFlight, ReportsHandled
  <2>4. e.kind \in {"a", "resumed"} => counting' /\ e.n <= handled'
    BY <1>4
  <2> QED BY <1>0, <1>4, <2>1, <2>2, <2>3, <2>4, ReportsOne
<1>5. \A kind, n, id : Elem(kind, n, id).kind = kind /\ Elem(kind, n, id).n = n
  BY DEF Elem
<1>6. CASE SrvRequest /\ counting
  <2>1. s2c' = Append(s2c, Elem("a", handled, 0)) /\ UNCHANGED <<handled, counting>>
    BY <1>6 DEF SrvRequest, server
  <2> QED BY <1>0, <1>1, <1>4, <1>5, <1>6, <2>1
<1>7. CASE SrvSend
  <2>1. s2c' = Append(s2c, Elem("stanza", sent'[Session], Session)) /\ UNCHANGED <<handled, counting>>
    BY <1>7 DEF SrvSend
  <2> QED BY <1>1, <1>4, <1>5, <2>1
<1>8. CASE SrvSendOutside
  <2>1. s2c' = Append(s2c, Elem("stanza", 0, 0)) /\ UNCHANGED <<handled, counting>>
    BY <1>8 DEF SrvSendOutside, server
  <2> QED BY <1>1, <1>4, <1>5, <2>1
<1>9. CASE SrvAsk
  <2>1. s2c' = Append(s2c, Elem("r", 0, 0)) /\ UNCHANGED <<handled, counting>>
    BY <1>9 DEF SrvAsk, server
  <2> QED BY <1>1, <1>4, <1>5, <2>1
<1>10. AckTimerTick \/ SrvStanza \/ SrvAck \/ SrvForget \/ UserSend \/ (SrvRequest /\ ~counting)
         => s2c' = s2c
  BY DEF AckTimerTick, SrvStanza, SrvAck, SrvForget, UserSend, SrvRequest
<1> QED BY <1>2, <1>3, <1>6, <1>7, <1>8, <1>9, <1>10

\* The client takes in an answer; nothing is negotiated any more.
LEMMA ControlAnswered ==
    ASSUME NegotiationInv, CountsTogether, ReportsHandled, OnEnabled \/ OnResumed \/ OnFailed
    PROVE  /\ CountsTogether' /\ ReportsHandled' /\ ~ Negotiating' /\ Negotiating /\ link = "up"
           /\ OnEnabled => counting /\ smId = NoId
           /\ OnResumed => counting /\ smId # NoId /\ smEnabled /\ Head(s2c).n <= handled
<1>0. s2c \in Seq(ServerElem) /\ s2c # <<>> /\ s2c' = Tail(s2c)
  BY DEF OnEnabled, OnResumed, OnFailed, Receive, NegotiationInv, TypeOK, StreamTypes
<1>1. UNCHANGED <<handled, counting>> /\ link' = link
  BY DEF OnEnabled, OnResumed, OnFailed, server
<1>2. /\ ~ InFlight(c2s, Asks) /\ ~ InFlight(s2c', Answers) /\ link = "up"
      /\ InFlight(s2c, Answers)
      /\ OnEnabled => InFlight(s2c, {"enabled"})
      /\ OnResumed => InFlight(s2c, {"resumed"})
      /\ OnFailed  => InFlight(s2c, {"failed"})
  <2>1. CASE OnEnabled
    <3>1. Receive("enabled") /\ ~ OnResumed /\ ~ OnFailed
      BY <2>1 DEF OnEnabled, OnResumed, OnFailed, Receive
    <3> QED BY <3>1, AnswerTaken DEF Answers, InFlight
  <2>2. CASE OnResumed
    <3>1. Receive("resumed") /\ ~ OnEnabled /\ ~ OnFailed
      BY <2>2 DEF OnEnabled, OnResumed, OnFailed, Receive
    <3> QED BY <3>1, AnswerTaken DEF Answers, InFlight
  <2>3. CASE OnFailed
    <3>1. Receive("failed") /\ ~ OnResumed /\ ~ OnEnabled
      BY <2>3 DEF OnEnabled, OnResumed, OnFailed, Receive
    <3> QED BY <3>1, AnswerTaken DEF Answers, InFlight
  <2> QED BY <2>1, <2>2, <2>3
<1>3. ~ InFlight(c2s', Asks)
  <2>1. CASE OnResumed
    <3>1. NegotiationInv'
      BY <2>1, NegotiationResumed
    <3>2. smAvailable' /\ TypeOK'
      BY <2>1, <3>1, AnswerTaken DEF OnResumed, Answers, NegotiationInv
    <3> DEFINE r == [i \in 1..Len(outq') |-> Elem("stanza", outq'[i].msg, 0)]
    <3>3. c2s \in Seq(ClientElem) /\ outq' \in Seq(Queued)
      BY <3>2 DEF NegotiationInv, TypeOK, StreamTypes, ClientTypes
    <3>4. r \in Seq(ClientElem) /\ c2s' = c2s \o r
      BY <2>1, <3>3, RetransmittedType DEF OnResumed
    <3>5. \A i \in DOMAIN r : r[i].kind = "stanza"
      BY DEF Elem
    <3> HIDE DEF r
    <3>6. ~ InFlight(r, Asks)
      BY <3>5 DEF InFlight, Asks
    <3>7. Keeps(c2s, c2s', Asks)
      BY <3>3, <3>4, <3>6, ConcatKeeps
    <3> QED BY <1>2, <3>7 DEF Keeps, InFlight
  <2>2. CASE OnEnabled \/ OnFailed
    BY <1>2, <2>2 DEF OnEnabled, OnFailed
  <2> QED BY <2>1, <2>2
<1>4. ReportsHandled'
  BY <1>0, <1>1, ReportsTail
<1>5. ~ Negotiating' /\ Negotiating
  <2>1. Negotiating' <=> InFlight(c2s', Asks) \/ InFlight(s2c', Answers)
    BY DEF Negotiating, Asks, Answers
  <2>2. Negotiating <=> InFlight(c2s, Asks) \/ InFlight(s2c, Answers)
    BY DEF Negotiating, Asks, Answers
  <2> QED BY <1>2, <1>3, <2>1, <2>2
<1>6. OnEnabled => counting /\ smId = NoId
  BY <1>2 DEF CountsTogether
<1>7. OnResumed => counting /\ smId # NoId /\ smEnabled
  BY <1>2 DEF CountsTogether, NegotiationInv, ResumeHoldsId
<1>8. OnResumed => Head(s2c).n <= handled
  <2>1. 1 \in DOMAIN s2c /\ s2c[1] = Head(s2c)
    BY <1>0
  <2> QED BY <2>1 DEF ReportsHandled, OnResumed, Receive
<1>9. counting' <=> smEnabled'
  <2>1. OnFailed => ~ counting
    BY <1>2 DEF CountsTogether
  <2>2. OnFailed => smEnabled' = FALSE
    BY DEF OnFailed
  <2>3. OnEnabled => smEnabled' = TRUE
    BY DEF OnEnabled
  <2>4. OnResumed => smEnabled' = smEnabled
    BY DEF OnResumed
  <2> QED BY <1>1, <1>6, <1>7, <2>1, <2>2, <2>3, <2>4
<1>10. smId' # NoId => smEnabled'
  <2>2. OnFailed => smId' = NoId
    BY DEF OnFailed
  <2>3. OnEnabled => smEnabled' = TRUE
    BY DEF OnEnabled
  <2>4. OnResumed => smEnabled' = smEnabled
    BY DEF OnResumed
  <2> QED BY <1>7, <2>2, <2>3, <2>4
<1>11. CountsTogether'
  BY <1>1, <1>2, <1>3, <1>9, <1>10, CountsSettled
<1> QED BY <1>2, <1>4, <1>5, <1>6, <1>7, <1>8, <1>11

\* The server answers; the answer is the only one.
LEMMA CountsAnswering ==
    ASSUME NegotiationInv', CountsTogether, ~ InFlight(c2s', Asks), link' = "up",
           smId' = smId, smEnabled' = smEnabled,
           NEW j \in DOMAIN s2c', s2c'[j].kind \in Answers,
           \/ s2c'[j].kind = "failed" /\ ~ counting'
           \/ s2c'[j].kind = "enabled" /\ counting' /\ smId = NoId
           \/ s2c'[j].kind = "resumed" /\ counting' /\ smId # NoId
    PROVE  CountsTogether' /\ Negotiating'
<1>1. \A i \in DOMAIN s2c' : s2c'[i].kind \in Answers => i = j
  BY DEF NegotiationInv, OneNegotiation, AtMostOne
<1>2. /\ (InFlight(s2c, {"failed"}))'  => s2c'[j].kind = "failed"
      /\ (InFlight(s2c, {"enabled"}))' => s2c'[j].kind = "enabled"
      /\ (InFlight(s2c, {"resumed"}))' => s2c'[j].kind = "resumed"
      /\ s2c'[j].kind = "enabled" => (InFlight(s2c, {"enabled"}))'
  BY <1>1 DEF InFlight, Answers
<1>3. ~ (InFlight(c2s, {"enable"}))' /\ ~ (InFlight(c2s, Asks))'
  BY DEF InFlight, Asks
<1>4. Negotiating'
  BY DEF Negotiating, InFlight, Answers
<1>5. ~ Established'
  BY <1>4 DEF Established
<1>6. smId # NoId => smEnabled
  BY DEF CountsTogether
<1> QED BY <1>2, <1>3, <1>4, <1>5, <1>6 DEF CountsTogether

\* Before a request is answered nothing is reported, and nothing counted.
LEMMA Unasked ==
    ASSUME NegotiationInv, CountsTogether, ReportsHandled, NEW kind \in Asks, ServerReceive(kind)
    PROVE  /\ ~ counting /\ ~ InFlight(s2c, {"a", "resumed"}) /\ Negotiating /\ link = "up"
           /\ ~ InFlight(c2s', Asks) /\ (kind = "enable" => smId = NoId)
           /\ (kind = "resume" => smId # NoId)
<1>1. /\ ~ InFlight(c2s', Asks) /\ link = "up" /\ InFlight(c2s, {kind})
  BY AskTaken
<1>2. InFlight(c2s, Asks)
  BY <1>1 DEF InFlight
<1>3. ~ counting
  BY <1>2 DEF CountsTogether
<1>4. ~ InFlight(s2c, {"a", "resumed"})
  BY <1>3 DEF ReportsHandled, InFlight
<1>5. Negotiating
  BY <1>2 DEF Negotiating, Asks
<1>6. (kind = "enable" => smId = NoId) /\ (kind = "resume" => smId # NoId)
  BY <1>1 DEF CountsTogether, NegotiationInv, ResumeHoldsId
<1> QED BY <1>1, <1>3, <1>4, <1>5, <1>6

LEMMA ControlSrvEnable ==
    ASSUME NegotiationInv, CountsTogether, ReportsHandled,
           NEW resumable \in BOOLEAN, NEW named \in BOOLEAN, SrvEnable(resumable, named)
    PROVE  /\ CountsTogether' /\ ReportsHandled' /\ Negotiating' /\ Negotiating /\ link = "up"
           /\ ~ counting /\ counting' /\ handled' = 0 /\ smId = NoId
<1>1. /\ ~ counting /\ ~ InFlight(s2c, {"a", "resumed"}) /\ Negotiating /\ link = "up"
      /\ ~ InFlight(c2s', Asks) /\ smId = NoId
  BY Unasked DEF SrvEnable, Asks
<1>2. NegotiationInv'
  BY NegotiationSrvEnable
<1>3. PICK e : s2c' = Append(s2c, e) /\ e.kind = "enabled"
  BY DEF SrvEnable, Elem
<1>4. s2c \in Seq(ServerElem) /\ s2c' \in Seq(ServerElem) /\ handled \in Nat /\ handled' \in Nat
  BY <1>2 DEF NegotiationInv, TypeOK, StreamTypes, ServerTypes
<1>5. Len(s2c) + 1 \in DOMAIN s2c' /\ s2c'[Len(s2c) + 1] = e
  BY <1>3, <1>4
<1>6. e \in ServerElem
  BY <1>4, <1>5
<1>7. counting' /\ handled' = 0 /\ link' = link /\ smId' = smId /\ smEnabled' = smEnabled
  BY DEF SrvEnable, client
<1>8. CountsTogether' /\ Negotiating'
  <2>1. s2c'[Len(s2c) + 1].kind \in Answers
    BY <1>3, <1>5 DEF Answers
  <2>2. s2c'[Len(s2c) + 1].kind = "enabled" /\ counting' /\ smId = NoId
    BY <1>1, <1>3, <1>5, <1>7
  <2> QED BY <1>1, <1>2, <1>5, <1>7, <2>1, <2>2, CountsAnswering
<1>9. ReportsHandled'
  <2>1. e.kind \in {"a", "resumed"} => counting' /\ e.n <= handled'
    BY <1>3
  <2>2. ~ InFlight(s2c, {"a"})
    BY <1>1 DEF InFlight
  <2> QED BY <1>1, <1>3, <1>4, <1>6, <2>1, <2>2, ReportsOne
<1> QED BY <1>1, <1>7, <1>8, <1>9

LEMMA ControlSrvRefuse ==
    ASSUME NegotiationInv, CountsTogether, ReportsHandled, SrvRefuse
    PROVE  /\ CountsTogether' /\ ReportsHandled' /\ Negotiating' /\ Negotiating /\ link = "up"
           /\ ~ counting /\ ~ counting'
<1>1. /\ ~ counting /\ ~ InFlight(s2c, {"a", "resumed"}) /\ Negotiating /\ link = "up"
      /\ ~ InFlight(c2s', Asks)
  BY Unasked DEF SrvRefuse, Asks
<1>2. NegotiationInv'
  BY NegotiationSrvRefuse
<1>3. PICK e : s2c' = Append(s2c, e) /\ e.kind = "failed"
  BY DEF SrvRefuse, Elem
<1>4. s2c \in Seq(ServerElem) /\ s2c' \in Seq(ServerElem) /\ handled \in Nat /\ handled' \in Nat
  BY <1>2 DEF NegotiationInv, TypeOK, StreamTypes, ServerTypes
<1>5. Len(s2c) + 1 \in DOMAIN s2c' /\ s2c'[Len(s2c) + 1] = e
  BY <1>3, <1>4
<1>6. e \in ServerElem
  BY <1>4, <1>5
<1>7. counting' = counting /\ link' = link /\ smId' = smId /\ smEnabled' = smEnabled
  BY DEF SrvRefuse, client
<1>8. CountsTogether' /\ Negotiating'
  <2>1. s2c'[Len(s2c) + 1].kind \in Answers
    BY <1>3, <1>5 DEF Answers
  <2>2. s2c'[Len(s2c) + 1].kind = "failed" /\ ~ counting'
    BY <1>1, <1>3, <1>5, <1>7
  <2> QED BY <1>1, <1>2, <1>5, <1>7, <2>1, <2>2, CountsAnswering
<1>9. ReportsHandled'
  <2>1. e.kind \in {"a", "resumed"} => counting' /\ e.n <= handled'
    BY <1>3
  <2>2. ~ InFlight(s2c, {"a"})
    BY <1>1 DEF InFlight
  <2> QED BY <1>1, <1>3, <1>4, <1>6, <2>1, <2>2, ReportsOne
<1> QED BY <1>1, <1>7, <1>8, <1>9

LEMMA ControlSrvResume ==
    ASSUME NegotiationInv, CountsTogether, ReportsHandled, SrvResume
    PROVE  /\ CountsTogether' /\ ReportsHandled' /\ Negotiating' /\ Negotiating /\ link = "up"
           /\ ~ counting /\ counting' /\ smId # NoId
<1>1. /\ ~ counting /\ ~ InFlight(s2c, {"a", "resumed"}) /\ Negotiating /\ link = "up"
      /\ ~ InFlight(c2s', Asks) /\ smId # NoId
  BY Unasked DEF SrvResume, Asks
<1>2. NegotiationInv' /\ TypeOK'
  BY NegotiationSrvResume DEF NegotiationInv
<1>3. s2c \in Seq(ServerElem) /\ handled \in Nat /\ handled' = handled /\ Session \in Nat
  BY DEF NegotiationInv, TypeOK, StreamTypes, ServerTypes, SrvResume, Session
<1>4. counting' /\ link' = link /\ smId' = smId /\ smEnabled' = smEnabled
  BY DEF SrvResume, client
<1> DEFINE e == Elem("resumed", handled, Session)
           k == sent[Session] - Head(c2s).n
           r == [i \in 1..k |-> Elem("stanza", Head(c2s).n + i, Session)]
<1>5. e \in ServerElem /\ e.kind = "resumed" /\ e.n = handled
  BY <1>3 DEF Elem, ServerElem
<1>6. r \in Seq(ServerElem)
  <2>1. Head(c2s).n \in Nat
    BY TypeReceive DEF SrvResume, NegotiationInv
  <2>2. k \in Nat
    <3>1. Len(sent) \in 1..Len(sent) /\ sent \in Seq(Nat)
      <4>1. sent \in Seq(Nat) /\ sent # <<>>
        BY DEF SrvResume, NegotiationInv, TypeOK, ServerTypes
      <4> QED BY <4>1, EmptySeq
    <3>2. sent[Session] \in Nat /\ Head(c2s).n <= sent[Session]
      BY <3>1, ElementOfSeq DEF Session, SrvResume
    <3> QED BY <2>1, <3>2
  <2> HIDE DEF k
  <2> QED BY <2>1, <2>2, <1>3, SentTypes
<1>7. \A i \in DOMAIN r : r[i].kind = "stanza"
  BY DEF Elem
<1>8. s2c' = (s2c \o <<e>>) \o r
  BY DEF SrvResume
<1> HIDE DEF e, r
<1>9. s2c' = s2c \o (<<e>> \o r) /\ <<e>> \o r \in Seq(ServerElem)
  <2>1. <<e>> \in Seq(ServerElem)
    BY <1>5
  <2> QED BY <1>3, <1>6, <1>8, <2>1, ConcatAssociative
<1>10. PICK p : p = <<e>> \o r
  OBVIOUS
<1>11. p \in Seq(ServerElem) /\ s2c' = s2c \o p
  BY <1>9, <1>10
<1>12. /\ 1 \in DOMAIN p /\ p[1] = e
       /\ \A i \in DOMAIN p : i # 1 => p[i].kind = "stanza"
  <2>1. <<e>> \in Seq(ServerElem) /\ Len(<<e>>) = 1 /\ <<e>>[1] = e
    BY <1>5
  <2>2. /\ Len(r) \in Nat /\ DOMAIN p = 1..(1 + Len(r)) /\ DOMAIN r = 1..Len(r)
        /\ \A i \in 1..1 : p[i] = <<e>>[i]
        /\ \A i \in (1 + 1)..(1 + Len(r)) : p[i] = r[i - 1]
    BY <1>6, <1>10, <2>1, ConcatAt
  <2>3. 1 \in 1..1 /\ 1 \in DOMAIN p
    BY <2>2
  <2>4. \A i \in DOMAIN p : i # 1 => i \in (1 + 1)..(1 + Len(r)) /\ i - 1 \in DOMAIN r
    BY <2>2
  <2> QED BY <1>7, <2>1, <2>2, <2>3, <2>4
<1>13. Len(s2c) + 1 \in DOMAIN s2c' /\ s2c'[Len(s2c) + 1] = e
  BY <1>3, <1>11, <1>12
<1>14. CountsTogether' /\ Negotiating'
  <2>1. s2c'[Len(s2c) + 1].kind \in Answers
    BY <1>5, <1>13 DEF Answers
  <2>2. s2c'[Len(s2c) + 1].kind = "resumed" /\ counting' /\ smId # NoId
    BY <1>1, <1>4, <1>5, <1>13
  <2> QED BY <1>1, <1>2, <1>4, <1>13, <2>1, <2>2, CountsAnswering
<1>15. ReportsHandled'
  <2>1. \A i \in DOMAIN p : p[i].kind \in {"a", "resumed"} => counting' /\ p[i].n <= handled'
    BY <1>3, <1>4, <1>5, <1>12
  <2>2. ~ InFlight(s2c, {"a"}) /\ ~ InFlight(p, {"a"})
    BY <1>1, <1>5, <1>12 DEF InFlight
  <2>3. \A i \in DOMAIN s2c : s2c[i].n \in Nat
    BY <1>3, ServerElemTypes
  <2>4. handled' \in Nat /\ (InFlight(s2c, {"a", "resumed"}) => handled <= handled' /\ counting')
    BY <1>1, <1>3
  <2> QED BY <1>3, <1>11, <2>1, <2>2, <2>3, <2>4, ReportsAppend
<1> QED BY <1>1, <1>4, <1>14, <1>15

LEMMA ControlConnected ==
    ASSUME NegotiationInv, CountsTogether, ReportsHandled, Connected
    PROVE  /\ CountsTogether' /\ ReportsHandled' /\ ~ counting' /\ link' = "up"
           /\ Negotiating' <=> smAvailable
<1>1. c2s = <<>> /\ s2c = <<>> /\ ~ counting /\ s2c' = s2c /\ link' = "up"
      /\ UNCHANGED <<smEnabled, smAvailable, smId, counting, handled>>
  BY DEF Connected, CountsTogether, server
<1>2. \A kinds : ~ InFlight(c2s, kinds) /\ ~ InFlight(s2c, kinds) /\ ~ InFlight(s2c', kinds)
  BY <1>1 DEF InFlight
<1>3. hIn \in Nat /\ smId \in Nat /\ smAvailable \in BOOLEAN
  BY DEF NegotiationInv, TypeOK, ClientTypes
<1> DEFINE e == IF smId # NoId THEN Elem("resume", hIn, smId) ELSE Elem("enable", 0, 0)
           first == IF smAvailable THEN <<e>> ELSE <<>>
<1>4. e \in ClientElem /\ e.kind \in Asks /\ (e.kind = "enable" => smId = NoId)
  BY <1>3 DEF Elem, ClientElem, Asks
<1>5. Send(Burst, first)
  <2>1. CASE ~ smAvailable
    BY <2>1 DEF Connected
  <2>2. CASE smAvailable /\ smId # NoId
    BY <2>2 DEF Connected
  <2>3. CASE smAvailable /\ smId = NoId
    BY <2>3 DEF Connected
  <2> QED BY <2>1, <2>2, <2>3, <1>3
<1>6. first \in {<<>>, <<e>>} /\ (first = <<e>> <=> smAvailable)
  <2>1. <<e>> # <<>>
    OBVIOUS
  <2> QED BY <2>1
<1> HIDE DEF e, first
<1>7. /\ \A i \in DOMAIN c2s' : c2s'[i].kind \in Asks => first = <<e>> /\ c2s'[i] = e
      /\ first = <<e>> => InFlight(c2s', Asks)
  BY <1>1, <1>2, <1>4, <1>5, <1>6, ConnectedAsks
<1>8. Negotiating' <=> smAvailable
  <2>1. Negotiating' <=> InFlight(c2s', Asks) \/ InFlight(s2c', Answers)
    BY DEF Negotiating, Asks, Answers
  <2>2. InFlight(c2s', Asks) <=> smAvailable
    BY <1>6, <1>7 DEF InFlight
  <2> QED BY <1>2, <2>1, <2>2
<1>9. CountsTogether'
  <2>1. /\ ~ (InFlight(s2c, {"enabled"}))' /\ ~ (InFlight(s2c, {"resumed"}))'
        /\ ~ (InFlight(s2c, {"failed"}))'
    BY <1>2 DEF InFlight
  <2>2. (InFlight(c2s, {"enable"}))' => smId = NoId
    BY <1>4, <1>7 DEF InFlight, Asks
  <2>3. ~ Established'
    BY <1>1, <1>8 DEF Established, NegotiationInv, NegotiatesWhenAvailable
  <2>4. smId # NoId => smEnabled
    BY DEF CountsTogether
  <2> QED BY <1>1, <2>1, <2>2, <2>3, <2>4 DEF CountsTogether
<1>10. ReportsHandled'
  BY <1>1 DEF ReportsHandled
<1> QED BY <1>1, <1>8, <1>9, <1>10

-------------------------------------------------------------------------------
\* Nothing is known that was not sent.

\* Finite, and within what was sent.
LEMMA OnlySentSets ==
    ASSUME TypeOK, OnlySent
    PROVE  /\ IsFiniteSet(acked) /\ IsFiniteSet(Tracked(acked, outq)) /\ acked \subseteq 0..msgs
           /\ \A k \in 0..Len(c2s) : Carried(c2s, k) \subseteq 0..msgs
<1>1. /\ c2s \in Seq(ClientElem) /\ msgs \in Nat /\ Len(c2s) \in Nat
      /\ DOMAIN c2s = 1..Len(c2s)
  BY LossTypes
<1>2. acked \subseteq 0..msgs
  BY DEF OnlySent, Tracked
<1>3. IsFiniteSet(acked) /\ IsFiniteSet(Tracked(acked, outq))
  BY <1>1, <1>2, SentFinite DEF OnlySent
<1>4. ASSUME NEW k \in 0..Len(c2s) PROVE Carried(c2s, k) \subseteq 0..msgs
  <2>1. \A i \in 1..k : i \in DOMAIN c2s
    BY <1>1
  <2>2. \A i \in DOMAIN c2s : c2s[i] \in ClientElem
    BY <1>1
  <2>3. \A i \in Places(c2s, k) : c2s[i].n \in Nat /\ c2s[i].n <= msgs
    BY <2>1, <2>2 DEF Places, OnlySent, ClientElem
  <2> QED BY <1>1, <2>3 DEF Carried
<1> QED BY <1>2, <1>3, <1>4

\* What a step may do: receive what was on the channel, move or send stanzas on.
LEMMA OnlySentStep ==
    ASSUME TypeOK, OnlySent, msgs' \in Nat, msgs <= msgs',
           received' \subseteq received \cup Carried(c2s, Len(c2s)),
           Tracked(acked', outq') \subseteq Tracked(acked, outq) \cup (msgs + 1)..msgs',
           \A i \in DOMAIN c2s' : c2s'[i].kind = "stanza" =>
               \/ \E j \in DOMAIN c2s : c2s[j] = c2s'[i]
               \/ c2s'[i].n \in (msgs + 1)..msgs'
               \/ c2s'[i].n \in Tracked(acked, outq)
    PROVE  OnlySent'
<1>1. c2s \in Seq(ClientElem) /\ msgs \in Nat /\ Len(c2s) \in 0..Len(c2s)
  BY LossTypes
<1>2. Carried(c2s, Len(c2s)) \subseteq 0..msgs
  BY <1>1, OnlySentSets
<1>3. 0..msgs \subseteq 0..msgs' /\ (msgs + 1)..msgs' \subseteq 0..msgs'
  BY <1>1
<1>4. received' \subseteq 0..msgs' /\ Tracked(acked', outq') \subseteq 0..msgs'
  BY <1>2, <1>3 DEF OnlySent
<1>5. ASSUME NEW i \in DOMAIN c2s', c2s'[i].kind = "stanza" PROVE c2s'[i].n <= msgs'
  <2>1. CASE \E j \in DOMAIN c2s : c2s[j] = c2s'[i]
    <3>1. PICK j \in DOMAIN c2s : c2s[j] = c2s'[i]
      BY <2>1
    <3>2. c2s[j] \in ClientElem
      BY <1>1
    <3>3. c2s[j].n \in Nat /\ c2s[j].n <= msgs
      BY <1>5, <3>1, <3>2 DEF OnlySent, ClientElem
    <3> QED BY <1>1, <3>1, <3>3
  <2>2. CASE c2s'[i].n \in (msgs + 1)..msgs'
    BY <2>2, <1>1
  <2>3. CASE c2s'[i].n \in Tracked(acked, outq)
    <3>1. c2s'[i].n \in 0..msgs'
      BY <2>3, <1>3 DEF OnlySent
    <3> QED BY <3>1
  <2> QED BY <1>5, <2>1, <2>2, <2>3
<1>6. Tracked(acked, outq)' \subseteq 0..msgs'
  BY <1>4 DEF Tracked
<1> QED BY <1>4, <1>5, <1>6 DEF OnlySent

\* Elements that are no stanzas come and go.
QuietChannel ==
    \/ c2s' = c2s
    \/ \E e \in ClientElem : e.kind # "stanza" /\ c2s' = Append(c2s, e)
    \/ c2s # <<>> /\ Head(c2s).kind # "stanza" /\ c2s' = Tail(c2s)

LEMMA QuietChannelRuns ==
    ASSUME TypeOK, QuietChannel
    PROVE  /\ Follows(c2s', handled, received, c2s, handled, received)
           /\ Count(c2s', Len(c2s')) = Count(c2s, Len(c2s))
           /\ \A i \in DOMAIN c2s' : c2s'[i].kind = "stanza" => \E j \in DOMAIN c2s : c2s[j] = c2s'[i]
<1>1. c2s \in Seq(ClientElem) /\ handled \in Nat
  BY LossTypes
<1>2. PICK d : d = c2s'
  OBVIOUS
<1>3. CASE c2s' = c2s
  BY <1>3, SameRun
<1>4. CASE \E e \in ClientElem : e.kind # "stanza" /\ c2s' = Append(c2s, e)
  <2>1. PICK e \in ClientElem : e.kind # "stanza" /\ d = Append(c2s, e)
    BY <1>2, <1>4
  <2>2. /\ Follows(d, handled, received, c2s, handled, received)
        /\ Count(d, Len(d)) = Count(c2s, Len(c2s))
    BY <1>1, <2>1, QuietAppend
  <2>3. Keeps(c2s, d, {"stanza"})
    BY <1>1, <2>1, AppendKeeps
  <2> QED BY <1>2, <2>2, <2>3 DEF Keeps
<1>5. CASE c2s # <<>> /\ Head(c2s).kind # "stanza" /\ c2s' = Tail(c2s)
  <2>2. /\ Follows(d, handled, received, c2s, handled, received)
        /\ Count(d, Len(d)) = Count(c2s, Len(c2s))
    BY <1>1, <1>2, <1>5, QuietTail
  <2>3. Keeps(c2s, d, {"stanza"})
    BY <1>1, <1>2, <1>5, TailKeeps
  <2> QED BY <1>2, <2>2, <2>3 DEF Keeps
<1> QED BY <1>3, <1>4, <1>5 DEF QuietChannel

\* Steps that move no stanza towards the server, and take none for received.
LEMMA RunsQuiet ==
    ASSUME TypeOK, TypeOK', OnlySent, Runs, QuietChannel,
           UNCHANGED <<link, smEnabled, smId, hOut, outq, acked, uncounted, handled, received, msgs>>,
           Negotiating' <=> Negotiating, counting' = counting \/ smId # NoId
    PROVE  Runs' /\ OnlySent'
<1>1. /\ Follows(c2s', handled, received, c2s, handled, received)
      /\ Count(c2s', Len(c2s')) = Count(c2s, Len(c2s))
      /\ \A i \in DOMAIN c2s' : c2s'[i].kind = "stanza" => \E j \in DOMAIN c2s : c2s[j] = c2s'[i]
  BY QuietChannelRuns
<1>2. /\ c2s \in Seq(ClientElem) /\ c2s' \in Seq(ClientElem) /\ handled \in Nat
      /\ uncounted \in Nat /\ msgs \in Nat /\ IsFiniteSet(Tracked(acked, outq))
  BY LossTypes, OnlySentSets DEF TypeOK, StreamTypes
<1>3. PICK d : d = c2s'
  OBVIOUS
<1>4. Trails(d, handled, received, c2s, handled, received)
  BY <1>1, <1>2, <1>3, FollowsTrails
<1>5. (Opening' <=> Opening) /\ (Established' <=> Established)
  BY DEF Opening, Established
<1>6. OpeningRun'
  BY <1>1, <1>5 DEF Runs, OpeningRun, Opening
<1>7. QueueKept'
  BY <1>5 DEF Runs, QueueKept, Aligned
<1>8. ResumableRun'
  <2> SUFFICES ASSUME smId # NoId, ~ Established
               PROVE  TrackedAlong(acked, outq, d, handled, received, uncounted)
    BY <1>3, <1>5 DEF ResumableRun
  <2>1. TrackedAlong(acked, outq, c2s, handled, received, uncounted)
    BY DEF Runs, ResumableRun
  <2> QED BY <1>2, <1>3, <1>4, <2>1, TrailsTracked
<1>9. EstablishedRun'
  <2> SUFFICES ASSUME Established
               PROVE  /\ hOut <= handled + Count(d, Len(d))
                      /\ CoveredAlong(acked, outq, d, handled, received, uncounted)
    BY <1>3, <1>5 DEF EstablishedRun
  <2>1. /\ hOut <= handled + Count(c2s, Len(c2s))
        /\ CoveredAlong(acked, outq, c2s, handled, received, uncounted)
    BY DEF Runs, EstablishedRun
  <2>2. CoveredAlong(acked, outq, d, handled, received, uncounted)
    BY <1>1, <1>2, <1>3, <2>1, FollowsCovered
  <2> QED BY <1>1, <1>3, <2>1, <2>2
<1>10. LossBounded'
  BY DEF Runs, LossBounded
<1>11. OnlySent'
  BY <1>1, <1>2, OnlySentStep
<1> QED BY <1>6, <1>7, <1>8, <1>9, <1>10, <1>11 DEF Runs

\* The actions of this kind.
LEMMA LossQuiet ==
    ASSUME LossInv,
           \/ OnRequest \/ OnStanza \/ AckTimerTick \/ SrvRequest \/ SrvAck \/ SrvSend
           \/ SrvSendOutside \/ SrvAsk \/ SrvForget
    PROVE  LossInv'
<1>1. TypeOK /\ TypeOK' /\ NegotiationInv'
  <2>1. TypeOK'
    BY TypeNext DEF LossInv, NegotiationInv, Next, ClientReceive, ServerHandle
  <2> QED BY <2>1, NegotiationQuiet DEF LossInv, NegotiationInv
<1>2. CountsTogether' /\ ReportsHandled'
  BY <1>1, ControlQuiet DEF LossInv
<1>3. Negotiating' <=> Negotiating
  BY <1>1, QuietKeeps, NegotiatingSame DEF LossInv
<1>4. QuietChannel
  <2>1. hIn \in Nat
    BY <1>1, LossTypes
  <2>2. /\ Elem("a", hIn, 0) \in ClientElem /\ Elem("a", hIn, 0).kind # "stanza"
        /\ Elem("r", 0, 0) \in ClientElem /\ Elem("r", 0, 0).kind # "stanza"
    BY <2>1 DEF Elem, ClientElem
  <2>3. CASE OnRequest
    BY <2>2, <2>3 DEF OnRequest, QuietChannel
  <2>4. CASE AckTimerTick
    BY <2>2, <2>4 DEF AckTimerTick, QuietChannel
  <2>5. CASE SrvRequest
    BY <2>5 DEF SrvRequest, ServerReceive, QuietChannel
  <2>6. CASE SrvAck
    BY <2>6 DEF SrvAck, ServerReceive, QuietChannel
  <2>7. CASE OnStanza \/ SrvSend \/ SrvSendOutside \/ SrvAsk \/ SrvForget
    BY <2>7 DEF OnStanza, SrvSend, SrvSendOutside, SrvAsk, SrvForget, QuietChannel
  <2> QED BY <2>3, <2>4, <2>5, <2>6, <2>7
<1>5. /\ UNCHANGED <<link, smEnabled, smId, hOut, outq, acked, uncounted, handled, received, msgs>>
      /\ counting' = counting
  BY DEF OnRequest, OnStanza, AckTimerTick, SrvRequest, SrvAck, SrvSend, SrvSendOutside, SrvAsk,
         SrvForget, client, server, history
<1> QED BY <1>1, <1>2, <1>3, <1>4, <1>5, RunsQuiet DEF LossInv

LEMMA LossSrvAnswer == LossInv /\ (SrvResume \/ SrvRefuse) => LossInv'
<1> SUFFICES ASSUME LossInv, SrvResume \/ SrvRefuse PROVE LossInv'
  OBVIOUS
<1>1. TypeOK /\ TypeOK' /\ NegotiationInv'
  BY NegotiationSrvResume, NegotiationSrvRefuse DEF LossInv, NegotiationInv
<1>2. /\ CountsTogether' /\ ReportsHandled' /\ Negotiating' /\ Negotiating
      /\ counting' = counting \/ smId # NoId
  BY <1>1, ControlSrvResume, ControlSrvRefuse, LossTypes DEF LossInv, TypeOK, ServerTypes
<1>3. QuietChannel
  BY DEF SrvResume, SrvRefuse, ServerReceive, QuietChannel
<1>4. UNCHANGED <<link, smEnabled, smId, hOut, outq, acked, uncounted, handled, received, msgs>>
  BY DEF SrvResume, SrvRefuse, client, history
<1> QED BY <1>1, <1>2, <1>3, <1>4, RunsQuiet DEF LossInv

\* The session opens: what was counted before is forgotten, what is on its way is not.
LEMMA LossSrvEnable ==
    ASSUME LossInv, NEW resumable \in BOOLEAN, NEW named \in BOOLEAN, SrvEnable(resumable, named)
    PROVE  LossInv'
<1>1. TypeOK /\ NegotiationInv' /\ TypeOK'
  BY NegotiationSrvEnable DEF LossInv, NegotiationInv
<1>2. /\ CountsTogether' /\ ReportsHandled' /\ Negotiating' /\ Negotiating /\ link = "up"
      /\ ~ counting /\ counting' /\ handled' = 0 /\ smId = NoId
  BY <1>1, ControlSrvEnable DEF LossInv
<1>3. QuietChannel
  BY DEF SrvEnable, ServerReceive, QuietChannel
<1>4. UNCHANGED <<link, smEnabled, smId, hOut, outq, acked, uncounted, received, msgs>>
  BY DEF SrvEnable, client
<1>5. /\ Count(c2s', Len(c2s')) = Count(c2s, Len(c2s))
      /\ \A i \in DOMAIN c2s' : c2s'[i].kind = "stanza" => \E j \in DOMAIN c2s : c2s[j] = c2s'[i]
  BY <1>1, <1>3, QuietChannelRuns
<1>6. OnlySent'
  BY <1>1, <1>4, <1>5, LossTypes, OnlySentStep DEF LossInv
<1>7. Runs'
  <2>1. Opening /\ ~ Established' /\ smId' = NoId
    BY <1>2, <1>4 DEF Opening, Established
  <2>2. acked = {} /\ 0 + Count(c2s, Len(c2s)) <= uncounted
    BY <1>2, <2>1 DEF LossInv, Runs, OpeningRun
  <2>3. OpeningRun'
    BY <1>2, <1>4, <1>5, <2>2 DEF OpeningRun
  <2>4. QueueKept' /\ ResumableRun' /\ EstablishedRun'
    BY <2>1 DEF QueueKept, ResumableRun, EstablishedRun
  <2>5. LossBounded'
    BY <1>4 DEF LossInv, Runs, LossBounded
  <2> QED BY <2>3, <2>4, <2>5 DEF Runs
<1> QED BY <1>1, <1>2, <1>6, <1>7 DEF LossInv

\* Receiving more loses less.
LEMMA LossFewer ==
    ASSUME NEW a, IsFiniteSet(a), NEW R, NEW S, R \subseteq S, NEW u \in Nat,
           Cardinality(a \ R) <= u
    PROVE  Cardinality(a \ S) <= u
<1>1. a \ S \subseteq a \ R /\ IsFiniteSet(a \ R)
  BY CardSubset
<1>2. PICK x, y : x = Cardinality(a \ S) /\ y = Cardinality(a \ R)
  OBVIOUS
<1>3. x \in Nat /\ y \in Nat /\ x <= y
  BY <1>1, <1>2, CardSubset
<1> QED BY <1>2, <1>3

\* The server handles a stanza.
LEMMA LossSrvStanza == LossInv /\ SrvStanza => LossInv'
<1> SUFFICES ASSUME LossInv, SrvStanza PROVE LossInv'
  OBVIOUS
<1>1. TypeOK /\ TypeOK' /\ NegotiationInv'
  BY TypeSrvStanza, NegotiationQuiet DEF LossInv, NegotiationInv
<1>2. CountsTogether' /\ ReportsHandled'
  BY <1>1, ControlQuiet DEF LossInv
<1>3. Negotiating' <=> Negotiating
  BY <1>1, QuietKeeps, NegotiatingSame DEF LossInv
<1>4. /\ UNCHANGED <<link, smEnabled, smId, hOut, outq, acked, uncounted, msgs, counting>>
      /\ c2s # <<>> /\ Head(c2s).kind = "stanza" /\ c2s' = Tail(c2s)
      /\ received' = received \cup {Head(c2s).n}
      /\ handled' = IF counting THEN handled + 1 ELSE handled
  BY DEF SrvStanza, ServerReceive, client
<1>5. /\ c2s \in Seq(ClientElem) /\ c2s' \in Seq(ClientElem) /\ handled \in Nat
      /\ handled' \in Nat /\ counting \in BOOLEAN /\ hOut \in Nat
      /\ uncounted \in Nat /\ msgs \in Nat /\ IsFiniteSet(Tracked(acked, outq)) /\ IsFiniteSet(acked)
  BY <1>1, LossTypes, OnlySentSets DEF LossInv, TypeOK, StreamTypes, ServerTypes
<1>6. PICK d, g, S : d = c2s' /\ g = handled' /\ S = received'
  OBVIOUS
<1>7. /\ counting => Follows(d, g, S, c2s, handled, received)
      /\ Trails(d, handled, S, c2s, handled, received)
      /\ Count(c2s, Len(c2s)) = Count(d, Len(d)) + 1
  BY <1>4, <1>5, <1>6, TakenStanza
<1>8. Count(d, Len(d)) \in Nat /\ Count(c2s, Len(c2s)) \in Nat
  <2>1. Len(d) \in 0..Len(d) /\ Len(c2s) \in 0..Len(c2s)
    BY <1>5, <1>6
  <2> QED BY <1>5, <1>6, <2>1, CountTypes
<1>9. (Opening' <=> Opening) /\ (Established' <=> Established)
  BY <1>3, <1>4 DEF Opening, Established
<1>10. OpeningRun'
  <2> SUFFICES ASSUME Opening
               PROVE  acked = {} /\ (IF counting THEN g ELSE 0) + Count(d, Len(d)) <= uncounted
    BY <1>4, <1>6, <1>9 DEF OpeningRun
  <2>1. acked = {} /\ (IF counting THEN handled ELSE 0) + Count(c2s, Len(c2s)) <= uncounted
    BY DEF LossInv, Runs, OpeningRun
  <2>2. PICK x, y : x = Count(c2s, Len(c2s)) /\ y = Count(d, Len(d))
    OBVIOUS
  <2>3. x \in Nat /\ y \in Nat /\ x = y + 1 /\ (IF counting THEN handled ELSE 0) + x <= uncounted
    BY <1>7, <1>8, <2>1, <2>2
  <2>4. (IF counting THEN g ELSE 0) + y <= uncounted
    BY <1>4, <1>5, <1>6, <2>3
  <2> QED BY <2>1, <2>2, <2>4
<1>11. QueueKept'
  <2> SUFFICES ASSUME smId # NoId \/ Established
               PROVE  Aligned /\ Cardinality(acked) + Len(outq) <= hOut /\ hOut <= g + Len(outq)
    BY <1>4, <1>6, <1>9 DEF QueueKept, Aligned
  <2>1. Aligned /\ Cardinality(acked) + Len(outq) <= hOut /\ hOut <= handled + Len(outq)
    BY DEF LossInv, Runs, QueueKept
  <2>2. Len(outq) \in Nat
    BY <1>1, LossTypes
  <2>3. hOut <= g + Len(outq)
    BY <1>4, <1>5, <1>6, <2>1, <2>2
  <2> QED BY <2>1, <2>3
<1>12. ResumableRun'
  <2> SUFFICES ASSUME smId # NoId, ~ Established
               PROVE  TrackedAlong(acked, outq, d, g, S, uncounted)
    BY <1>4, <1>6, <1>9 DEF ResumableRun
  <2>1. TrackedAlong(acked, outq, c2s, handled, received, uncounted)
    BY DEF LossInv, Runs, ResumableRun
  <2>2. Trails(d, g, S, c2s, handled, received)
    <3>1. CASE counting
      BY <1>5, <1>6, <1>7, <3>1, FollowsTrails
    <3>2. CASE ~ counting
      BY <1>4, <1>6, <1>7, <3>2
    <3> QED BY <3>1, <3>2
  <2> QED BY <1>5, <1>6, <2>1, <2>2, TrailsTracked
<1>13. EstablishedRun'
  <2> SUFFICES ASSUME Established
               PROVE  /\ hOut <= g + Count(d, Len(d))
                      /\ CoveredAlong(acked, outq, d, g, S, uncounted)
    BY <1>4, <1>6, <1>9 DEF EstablishedRun
  <2>1. /\ hOut <= handled + Count(c2s, Len(c2s))
        /\ CoveredAlong(acked, outq, c2s, handled, received, uncounted)
    BY DEF LossInv, Runs, EstablishedRun
  <2>2. counting
    BY DEF LossInv, CountsTogether
  <2>3. CoveredAlong(acked, outq, d, g, S, uncounted)
    BY <1>5, <1>6, <1>7, <2>1, <2>2, FollowsCovered
  <2>4. PICK x, y : x = Count(c2s, Len(c2s)) /\ y = Count(d, Len(d))
    OBVIOUS
  <2>5. x \in Nat /\ y \in Nat /\ x = y + 1 /\ hOut <= handled + x /\ g = handled + 1
    BY <1>4, <1>6, <1>7, <1>8, <2>1, <2>2, <2>4
  <2>6. hOut <= g + y
    BY <1>5, <2>5
  <2> QED BY <2>3, <2>4, <2>6
<1>14. LossBounded'
  <2>1. Cardinality(acked \ received) <= uncounted
    BY DEF LossInv, Runs, LossBounded
  <2>2. Cardinality(acked \ S) <= uncounted
    BY <1>4, <1>5, <1>6, <2>1, LossFewer
  <2> QED BY <1>4, <1>6, <2>2 DEF LossBounded
<1>15. OnlySent'
  <2>1. /\ Len(c2s) \in Nat /\ Len(c2s) # 0 /\ DOMAIN c2s = 1..Len(c2s) /\ Head(c2s) = c2s[1]
        /\ \A i \in DOMAIN d : i + 1 \in DOMAIN c2s /\ d[i] = c2s[i + 1]
    BY <1>4, <1>5, <1>6, EmptySeq
  <2>2. Head(c2s).n \in Carried(c2s, Len(c2s))
    <3>1. 1 \in 1..Len(c2s)
      BY <2>1
    <3> QED BY <3>1, <1>4, <2>1 DEF Carried, Places
  <2>3. received' \subseteq received \cup Carried(c2s, Len(c2s))
    BY <1>4, <2>2
  <2>4. \A i \in DOMAIN c2s' : \E j \in DOMAIN c2s : c2s[j] = c2s'[i]
    BY <1>6, <2>1
  <2>5. Tracked(acked', outq') \subseteq Tracked(acked, outq) \cup (msgs + 1)..msgs' /\ msgs' \in Nat
        /\ msgs <= msgs'
    BY <1>4, <1>5
  <2> QED BY <1>1, <2>3, <2>4, <2>5, OnlySentStep DEF LossInv
<1> QED BY <1>1, <1>2, <1>10, <1>11, <1>12, <1>13, <1>14, <1>15 DEF LossInv, Runs

\* An <a/> is read on an established stream only, and its h is one the server reached.
LEMMA AckReported ==
    ASSUME NegotiationInv, CountsTogether, ReportsHandled, OnAck
    PROVE  Established /\ counting /\ Head(s2c).n <= handled
<1>1. s2c \in Seq(ServerElem) /\ s2c # <<>> /\ Head(s2c).kind = "a" /\ link = "up"
  BY DEF OnAck, Receive, NegotiationInv, TypeOK, StreamTypes
<1>2. /\ Len(s2c) \in Nat /\ Len(s2c) # 0 /\ DOMAIN s2c = 1..Len(s2c) /\ Head(s2c) = s2c[1]
  BY <1>1, EmptySeq
<1>3. 1 \in DOMAIN s2c /\ \A i \in DOMAIN s2c : i = 1 \/ 1 < i
  BY <1>2
<1>4. counting /\ Head(s2c).n <= handled
  BY <1>1, <1>2, <1>3 DEF ReportsHandled
<1>5. ~ InFlight(s2c, Answers)
  <2> SUFFICES ASSUME NEW i \in DOMAIN s2c, s2c[i].kind \in Answers PROVE FALSE
    BY DEF InFlight
  <2>1. CASE i = 1
    BY <1>1, <1>2, <2>1 DEF Answers
  <2>2. CASE 1 < i
    BY <1>1, <1>2, <1>3, <2>2 DEF ReportsHandled
  <2> QED BY <1>3, <2>1, <2>2
<1>6. ~ InFlight(c2s, Asks) /\ smEnabled
  <2>1. ~ InFlight(s2c, {"enabled"})
    BY <1>5 DEF InFlight, Answers
  <2> QED BY <1>4, <2>1 DEF CountsTogether
<1>7. ~ Negotiating
  BY <1>5, <1>6 DEF Negotiating, Asks, Answers
<1> QED BY <1>1, <1>4, <1>6, <1>7 DEF Established

\* An established stream loses no more than was not counted.
LEMMA EstablishedLoss ==
    ASSUME NEW a, IsFiniteSet(a), NEW q \in Seq(Queued), IsFiniteSet(Tracked(a, q)),
           NEW n \in Nat, AlignedTo(q, n), Cardinality(a) + Len(q) <= n,
           NEW c \in Seq(ClientElem), NEW h \in Nat, n <= h + Len(q),
           NEW R, NEW u \in Nat, CoveredAlong(a, q, c, h, R, u)
    PROVE  Cardinality(a \ R) <= u
<1>1. Len(c) \in Nat /\ 0 \in 0..Len(c)
  OBVIOUS
<1>2. Count(c, 0) = 0 /\ Carried(c, 0) = {}
  BY <1>1, CountTypes
<1>3. h + Count(c, 0) <= u + Cardinality(Covered(a, q, h + Count(c, 0)) \cap (R \cup Carried(c, 0)))
  BY <1>1 DEF CoveredAlong
<1>4. h + 0 <= u + Cardinality(Covered(a, q, h + 0) \cap (R \cup {}))
  BY <1>2, <1>3
<1>5. h + 0 = h /\ R \cup {} = R
  OBVIOUS
<1>6. h <= u + Cardinality(Covered(a, q, h) \cap R)
  BY <1>4, <1>5
<1> QED BY <1>6, LossFrom

LEMMA LossAck == LossInv /\ OnAck => LossInv'
<1> SUFFICES ASSUME LossInv, OnAck PROVE LossInv'
  OBVIOUS
<1>1. TypeOK /\ TypeOK' /\ NegotiationInv'
  BY TypePrune, NegotiationQuiet DEF LossInv, NegotiationInv
<1>2. CountsTogether' /\ ReportsHandled'
  BY <1>1, ControlQuiet DEF LossInv
<1>3. Negotiating' <=> Negotiating
  BY <1>1, QuietKeeps, NegotiatingSame DEF LossInv
<1>4. Established /\ counting /\ Head(s2c).n <= handled
  BY AckReported DEF LossInv
<1>5. PICK x : x = Head(s2c).n
  OBVIOUS
<1>6. /\ UNCHANGED <<link, smEnabled, smId, hOut, uncounted, msgs, handled, received, c2s>>
      /\ outq' = Prune(outq, x) /\ acked' = acked \cup PrunedMsgs(outq, x)
  BY <1>5 DEF OnAck, server
<1>7. x \in Nat /\ x <= handled
  BY <1>1, <1>4, <1>5, TypeReceive DEF OnAck
<1>8. /\ c2s \in Seq(ClientElem) /\ handled \in Nat /\ hOut \in Nat /\ outq \in Seq(Queued)
      /\ uncounted \in Nat /\ msgs \in Nat /\ IsFiniteSet(Tracked(acked, outq)) /\ IsFiniteSet(acked)
      /\ outq' \in Seq(Queued) /\ Len(outq) \in Nat
  BY <1>1, LossTypes, OnlySentSets DEF LossInv, TypeOK, ClientTypes
<1>9. PICK q, a : q = outq' /\ a = acked'
  OBVIOUS
<1>10. /\ Tracked(a, q) = Tracked(acked, outq)
       /\ \A y \in Nat : x <= y => Covered(a, q, y) = Covered(acked, outq, y)
       /\ IsFiniteSet(a)
       /\ Cardinality(a) + Len(q) <= Cardinality(acked) + Len(outq)
       /\ AlignedTo(outq, hOut) => hOut <= x + Len(q) \/ q = outq
  <2>1. q = Prune(outq, x) /\ a = acked \cup PrunedMsgs(outq, x)
    BY <1>6, <1>9
  <2>2. /\ Tracked(acked \cup PrunedMsgs(outq, x), Prune(outq, x)) = Tracked(acked, outq)
        /\ \A y \in Nat : x <= y =>
             Covered(acked \cup PrunedMsgs(outq, x), Prune(outq, x), y) = Covered(acked, outq, y)
        /\ IsFiniteSet(acked \cup PrunedMsgs(outq, x))
        /\ Cardinality(acked \cup PrunedMsgs(outq, x)) + Len(Prune(outq, x))
             <= Cardinality(acked) + Len(outq)
        /\ \A n \in Nat :
             AlignedTo(outq, n) => n <= x + Len(Prune(outq, x)) \/ Prune(outq, x) = outq
    BY <1>7, <1>8, PruneTracked
  <2> QED BY <1>8, <2>1, <2>2
<1>11. Aligned /\ Cardinality(acked) + Len(outq) <= hOut /\ hOut <= handled + Len(outq)
  BY <1>4 DEF LossInv, Runs, QueueKept
<1>12. Aligned'
  BY <1>1, <1>6, <1>7, <1>11, PruneAligned
<1>13. AlignedTo(q, hOut) /\ AlignedTo(outq, hOut)
  BY <1>6, <1>9, <1>11, <1>12 DEF Aligned, AlignedTo
<1>14. q \in Seq(Queued) /\ Len(q) \in Nat
  BY <1>8, <1>9
<1>15. Cardinality(a) + Len(q) <= hOut
  <2>1. PICK k, l : k = Cardinality(a) /\ l = Cardinality(acked)
    OBVIOUS
  <2>2. k \in Nat /\ l \in Nat
    BY <1>8, <1>10, <2>1, CardSubset
  <2>3. k + Len(q) <= l + Len(outq) /\ l + Len(outq) <= hOut
    BY <1>10, <1>11, <2>1
  <2>4. k + Len(q) <= hOut
    BY <1>8, <1>14, <2>2, <2>3
  <2> QED BY <2>1, <2>4
<1>16. hOut <= handled + Len(q)
  BY <1>7, <1>8, <1>10, <1>11, <1>13, <1>14
<1>17. CoveredAlong(a, q, c2s, handled, received, uncounted)
  <2>1. CoveredAlong(acked, outq, c2s, handled, received, uncounted)
    BY <1>4 DEF LossInv, Runs, EstablishedRun
  <2>2. ASSUME NEW k \in 0..Len(c2s)
        PROVE  handled + Count(c2s, k) <= uncounted
                 + Cardinality(Covered(a, q, handled + Count(c2s, k)) \cap (received \cup Carried(c2s, k)))
    <3>1. PICK y : y = handled + Count(c2s, k)
      OBVIOUS
    <3>2. Count(c2s, k) \in Nat
      BY <1>8, CountTypes
    <3>3. y \in Nat /\ x <= y
      BY <1>7, <1>8, <3>1, <3>2
    <3>4. Covered(a, q, y) = Covered(acked, outq, y)
      BY <1>10, <3>3
    <3> QED BY <2>1, <3>1, <3>4 DEF CoveredAlong
  <2> QED BY <2>2 DEF CoveredAlong
<1>18. Established' /\ ~ Opening'
  BY <1>3, <1>4, <1>6 DEF Established, Opening
<1>19. OpeningRun' /\ ResumableRun'
  BY <1>18 DEF OpeningRun, ResumableRun
<1>20. QueueKept'
  BY <1>6, <1>9, <1>12, <1>15, <1>16 DEF QueueKept
<1>21. EstablishedRun'
  BY <1>4, <1>6, <1>9, <1>17 DEF LossInv, Runs, EstablishedRun
<1>22. LossBounded'
  <2>1. Cardinality(a \ received) <= uncounted
    BY <1>8, <1>10, <1>13, <1>14, <1>15, <1>16, <1>17, EstablishedLoss
  <2> QED BY <1>6, <1>9, <2>1 DEF LossBounded
<1>23. OnlySent'
  <2>1. Tracked(acked', outq') = Tracked(acked, outq)
    BY <1>9, <1>10
  <2>2. msgs' \in Nat /\ msgs <= msgs' /\ received' = received /\ c2s' = c2s
    BY <1>6, <1>8
  <2> QED BY <1>1, <2>1, <2>2, OnlySentStep DEF LossInv
<1> QED BY <1>1, <1>2, <1>19, <1>20, <1>21, <1>22, <1>23 DEF LossInv, Runs

-------------------------------------------------------------------------------
\* Streams that are dialled, and that end.

LEMMA LossGone ==
    ASSUME LossInv, NegotiationInv', c2s' = <<>>, s2c' = <<>>, link' # "up", ~ counting',
           UNCHANGED <<smEnabled, outq, acked, received, uncounted, msgs, handled>>,
           smId' = NoId \/ UNCHANGED <<smId, hOut>>
    PROVE  LossInv'
<1>1. TypeOK /\ TypeOK'
  BY DEF LossInv, NegotiationInv
<1>2. CountsTogether' /\ ReportsHandled'
  BY CountsGone DEF LossInv
<1>3. ~ Opening' /\ ~ Established'
  BY DEF Opening, Established
<1>4. /\ c2s \in Seq(ClientElem) /\ handled \in Nat /\ uncounted \in Nat /\ msgs \in Nat
      /\ IsFiniteSet(Tracked(acked, outq))
  BY <1>1, LossTypes, OnlySentSets DEF LossInv
<1>5. 0 \in 0..Len(c2s) /\ Count(c2s, 0) = 0 /\ Carried(c2s, 0) = {}
  BY <1>4, CountTypes
<1>6. PICK d : d = <<>>
  OBVIOUS
<1>7. Len(d) = 0 /\ 0..Len(d) = {0} /\ Count(d, 0) = 0 /\ Carried(d, 0) = {}
  <2>1. d \in Seq(ClientElem) /\ Len(d) = 0
    BY <1>6
  <2>2. 0 \in 0..Len(d) /\ 0..Len(d) = {0}
    BY <2>1
  <2>3. Count(d, 0) = 0 /\ Carried(d, 0) = {}
    BY <2>1, <2>2, CountTypes
  <2> QED BY <2>1, <2>2, <2>3
<1>8. ResumableRun'
  <2> SUFFICES ASSUME smId' = smId, smId # NoId
               PROVE  TrackedAlong(acked, outq, d, handled, received, uncounted)
    BY <1>6 DEF ResumableRun
  <2>1. handled <= uncounted + Cardinality(Tracked(acked, outq) \cap received)
    <3>1. CASE Established
      <4>1. CoveredAlong(acked, outq, c2s, handled, received, uncounted)
        BY <3>1 DEF LossInv, Runs, EstablishedRun
      <4>2. handled + 0 <= uncounted + Cardinality(Covered(acked, outq, handled + 0) \cap (received \cup {}))
        BY <1>5, <4>1 DEF CoveredAlong
      <4>3. handled <= uncounted + Cardinality(Covered(acked, outq, handled) \cap received)
        <5>1. handled + 0 = handled /\ received \cup {} = received
          BY <1>4
        <5> QED BY <4>2, <5>1
      <4>4. Covered(acked, outq, handled) \cap received \subseteq Tracked(acked, outq) \cap received
        BY CoveredTracked
      <4>5. PICK x, y : /\ x = Cardinality(Covered(acked, outq, handled) \cap received)
                        /\ y = Cardinality(Tracked(acked, outq) \cap received)
        OBVIOUS
      <4>6. IsFiniteSet(Tracked(acked, outq) \cap received)
        BY <1>4, CardSubset
      <4>7. x \in Nat /\ y \in Nat /\ x <= y
        BY <4>4, <4>5, <4>6, CardSubset
      <4>8. handled <= uncounted + x
        BY <4>3, <4>5
      <4>9. handled <= uncounted + y
        BY <1>4, <4>7, <4>8
      <4> QED BY <4>5, <4>9
    <3>2. CASE ~ Established
      <4>1. TrackedAlong(acked, outq, c2s, handled, received, uncounted)
        BY <3>2 DEF LossInv, Runs, ResumableRun
      <4>2. handled + 0 <= uncounted + Cardinality(Tracked(acked, outq) \cap (received \cup {}))
        BY <1>5, <4>1 DEF TrackedAlong
      <4>3. handled + 0 = handled /\ received \cup {} = received
        BY <1>4
      <4> QED BY <4>2, <4>3
    <3> QED BY <3>1, <3>2
  <2>2. handled + 0 <= uncounted + Cardinality(Tracked(acked, outq) \cap (received \cup {}))
    <3>1. handled + 0 = handled /\ received \cup {} = received
      BY <1>4
    <3> QED BY <2>1, <3>1
  <2> QED BY <1>7, <2>2 DEF TrackedAlong
<1>9. QueueKept'
  BY <1>3 DEF LossInv, Runs, QueueKept, Aligned
<1>10. OpeningRun' /\ EstablishedRun'
  BY <1>3 DEF OpeningRun, EstablishedRun
<1>11. LossBounded'
  BY DEF LossInv, Runs, LossBounded
<1>12. OnlySent'
  BY <1>1, <1>4, OnlySentStep DEF LossInv
<1> QED BY <1>2, <1>8, <1>9, <1>10, <1>11, <1>12 DEF LossInv, Runs

LEMMA LossDial ==
    ASSUME LossInv, NEW ok \in BOOLEAN, ManualConnect(ok) \/ AutoReconnect(ok)
    PROVE  LossInv'
<1>1. NegotiationInv'
  BY NegotiationDial DEF LossInv
<1>2. c2s' = <<>> /\ s2c' = <<>> /\ link' # "up" /\ ~ counting'
  BY DEF ManualConnect, AutoReconnect, Dial
<1>3. UNCHANGED <<smEnabled, outq, acked, received, uncounted, msgs, handled, smId, hOut>>
  BY DEF ManualConnect, AutoReconnect, client, history
<1> QED BY <1>1, <1>2, <1>3, LossGone

LEMMA LossEnds == LossInv /\ (LinkLost \/ CleanClose \/ UserDisconnect) => LossInv'
<1> SUFFICES ASSUME LossInv, LinkLost \/ CleanClose \/ UserDisconnect PROVE LossInv'
  OBVIOUS
<1>1. NegotiationInv'
  BY NegotiationEnds DEF LossInv
<1>2. c2s' = <<>> /\ s2c' = <<>> /\ link' # "up" /\ ~ counting'
  BY DEF LinkLost, CleanClose, UserDisconnect, Ends
<1>3. UNCHANGED <<smEnabled, outq, acked, received, uncounted, msgs, handled>>
  BY DEF LinkLost, CleanClose, UserDisconnect, client, history
<1>4. smId' = NoId \/ UNCHANGED <<smId, hOut>>
  BY DEF LinkLost, CleanClose, UserDisconnect, client
<1> QED BY <1>1, <1>2, <1>3, <1>4, LossGone

-------------------------------------------------------------------------------
\* Answers taken in.

\* The session is open: the counters start afresh, ahead of them what was sent before.
LEMMA LossEnabled == LossInv /\ OnEnabled => LossInv'
<1> SUFFICES ASSUME LossInv, OnEnabled PROVE LossInv'
  OBVIOUS
<1>1. TypeOK /\ TypeOK' /\ NegotiationInv'
  BY NegotiationEnabled DEF LossInv, NegotiationInv
<1>2. /\ CountsTogether' /\ ReportsHandled' /\ ~ Negotiating' /\ Negotiating /\ link = "up"
      /\ counting /\ smId = NoId
  BY ControlAnswered DEF LossInv
<1>3. /\ UNCHANGED <<link, c2s, handled, received, acked, uncounted, msgs>>
      /\ smEnabled' = TRUE /\ hOut' = 0 /\ outq' = <<>>
  BY DEF OnEnabled, server, history
<1>4. /\ c2s \in Seq(ClientElem) /\ handled \in Nat /\ uncounted \in Nat /\ msgs \in Nat
      /\ Len(c2s) \in 0..Len(c2s)
  BY <1>1, LossTypes
<1>5. acked = {} /\ handled + Count(c2s, Len(c2s)) <= uncounted
  <2>1. Opening
    BY <1>2 DEF Opening
  <2> QED BY <1>2, <2>1 DEF LossInv, Runs, OpeningRun
<1>6. Established' /\ ~ Opening'
  BY <1>2, <1>3 DEF Established, Opening
<1>7. PICK q : q = outq'
  OBVIOUS
<1>8. q = <<>> /\ Len(q) = 0 /\ DOMAIN q = {}
  BY <1>3, <1>7
<1>9. QueueKept'
  <2>1. Aligned'
    BY <1>7, <1>8 DEF Aligned
  <2>2. Cardinality(acked) = 0
    BY <1>5, FS_EmptySet
  <2>3. Cardinality(acked) + Len(q) <= 0 /\ 0 <= handled + Len(q)
    BY <1>4, <1>8, <2>2
  <2> QED BY <1>3, <1>7, <2>1, <2>3 DEF QueueKept
<1>10. EstablishedRun'
  <2>1. Count(c2s, Len(c2s)) \in Nat
    BY <1>4, CountTypes
  <2>2. 0 <= handled + Count(c2s, Len(c2s))
    BY <1>4, <2>1
  <2>3. CoveredAlong(acked, q, c2s, handled, received, uncounted)
    <3> SUFFICES ASSUME NEW k \in 0..Len(c2s)
                 PROVE  handled + Count(c2s, k) <= uncounted
                          + Cardinality(Covered(acked, q, handled + Count(c2s, k))
                                          \cap (received \cup Carried(c2s, k)))
      BY DEF CoveredAlong
    <3>1. Covered(acked, q, handled + Count(c2s, k)) = {}
      BY <1>5, <1>8 DEF Covered
    <3>2. Cardinality(Covered(acked, q, handled + Count(c2s, k)) \cap (received \cup Carried(c2s, k))) = 0
      <4>1. {} \cap (received \cup Carried(c2s, k)) = {}
        OBVIOUS
      <4> QED BY <3>1, <4>1, FS_EmptySet
    <3>3. Count(c2s, k) <= Count(c2s, Len(c2s)) /\ Count(c2s, k) \in Nat
      BY <1>4, CountLast
    <3>4. handled + Count(c2s, k) <= uncounted
      <4>1. PICK x, y : x = Count(c2s, k) /\ y = Count(c2s, Len(c2s))
        OBVIOUS
      <4>2. x \in Nat /\ y \in Nat /\ x <= y /\ handled + y <= uncounted
        BY <1>5, <2>1, <3>3, <4>1
      <4>3. handled + x <= uncounted
        BY <1>4, <4>2
      <4> QED BY <4>1, <4>3
    <3> QED BY <1>4, <3>2, <3>4
  <2> QED BY <1>3, <1>7, <2>2, <2>3 DEF EstablishedRun
<1>11. OpeningRun' /\ ResumableRun'
  BY <1>6 DEF OpeningRun, ResumableRun
<1>12. LossBounded'
  BY <1>3 DEF LossInv, Runs, LossBounded
<1>13. OnlySent'
  <2>1. Tracked(acked', q) \subseteq Tracked(acked, outq)
    BY <1>3, <1>8 DEF Tracked
  <2> QED BY <1>1, <1>3, <1>4, <1>7, <2>1, OnlySentStep DEF LossInv
<1> QED BY <1>1, <1>2, <1>9, <1>10, <1>11, <1>12, <1>13 DEF LossInv, Runs

LEMMA LossFailed == LossInv /\ OnFailed => LossInv'
<1> SUFFICES ASSUME LossInv, OnFailed PROVE LossInv'
  OBVIOUS
<1>1. TypeOK /\ NegotiationInv'
  BY NegotiationFailed DEF LossInv, NegotiationInv
<1>2. CountsTogether' /\ ReportsHandled' /\ ~ Negotiating'
  BY ControlAnswered DEF LossInv
<1>3. /\ UNCHANGED <<link, c2s, handled, received, acked, uncounted, msgs>>
      /\ smEnabled' = FALSE /\ smId' = NoId /\ outq' = <<>>
  BY DEF OnFailed, server
<1>4. ~ Established' /\ ~ Opening'
  BY <1>2, <1>3 DEF Established, Opening
<1>5. OpeningRun' /\ QueueKept' /\ ResumableRun' /\ EstablishedRun'
  BY <1>3, <1>4 DEF OpeningRun, QueueKept, ResumableRun, EstablishedRun
<1>6. LossBounded'
  BY <1>3 DEF LossInv, Runs, LossBounded
<1>7. OnlySent'
  <2>1. PICK q : q = outq'
    OBVIOUS
  <2>2. DOMAIN q = {}
    BY <1>3, <2>1
  <2>3. Tracked(acked', q) \subseteq Tracked(acked, outq)
    BY <1>3, <2>2 DEF Tracked
  <2>4. msgs \in Nat
    BY <1>1, LossTypes
  <2> QED BY <1>1, <1>3, <2>1, <2>3, <2>4, OnlySentStep DEF LossInv
<1> QED BY <1>1, <1>2, <1>5, <1>6, <1>7 DEF LossInv, Runs

\* The session goes on: the h of <resumed/> prunes, and what is left is sent again.
LEMMA LossResumed == LossInv /\ OnResumed => LossInv'
<1> SUFFICES ASSUME LossInv, OnResumed PROVE LossInv'
  OBVIOUS
<1>1. TypeOK /\ TypeOK' /\ NegotiationInv'
  BY NegotiationResumed DEF LossInv, NegotiationInv
<1>2. /\ CountsTogether' /\ ReportsHandled' /\ ~ Negotiating' /\ Negotiating /\ link = "up"
      /\ counting /\ smId # NoId /\ smEnabled /\ Head(s2c).n <= handled
  BY ControlAnswered DEF LossInv
<1>3. PICK x : x = Head(s2c).n
  OBVIOUS
<1>4. PICK p, b, r : /\ p = outq' /\ b = acked'
                     /\ r = [i \in 1..Len(p) |-> Elem("stanza", p[i].msg, 0)]
  OBVIOUS
<1>5. /\ UNCHANGED <<link, smEnabled, smId, hOut, handled, received, msgs>>
      /\ p = Prune(outq, x) /\ b = acked \cup PrunedMsgs(outq, x)
      /\ c2s' = c2s \o r /\ uncounted' = uncounted + Len(p)
  BY <1>3, <1>4 DEF OnResumed, server
<1>6. x \in Nat /\ x <= handled
  BY <1>1, <1>2, <1>3, TypeReceive DEF OnResumed
<1>7. /\ c2s \in Seq(ClientElem) /\ handled \in Nat /\ hOut \in Nat /\ outq \in Seq(Queued)
      /\ uncounted \in Nat /\ msgs \in Nat /\ IsFiniteSet(Tracked(acked, outq)) /\ IsFiniteSet(acked)
      /\ p \in Seq(Queued) /\ Len(outq) \in Nat /\ Len(p) \in Nat
  BY <1>1, <1>4, LossTypes, OnlySentSets DEF LossInv, TypeOK, ClientTypes
<1>8. /\ Tracked(b, p) = Tracked(acked, outq) /\ IsFiniteSet(b)
      /\ Cardinality(b) + Len(p) <= Cardinality(acked) + Len(outq)
  <2>1. /\ Tracked(acked \cup PrunedMsgs(outq, x), Prune(outq, x)) = Tracked(acked, outq)
        /\ IsFiniteSet(acked \cup PrunedMsgs(outq, x))
        /\ Cardinality(acked \cup PrunedMsgs(outq, x)) + Len(Prune(outq, x))
             <= Cardinality(acked) + Len(outq)
    BY <1>6, <1>7, PruneTracked
  <2> QED BY <1>5, <2>1
<1>9. Aligned /\ Cardinality(acked) + Len(outq) <= hOut /\ hOut <= handled + Len(outq)
  BY <1>2 DEF LossInv, Runs, QueueKept
<1>10. Aligned'
  BY <1>1, <1>4, <1>5, <1>6, <1>9, PruneAligned
<1>11. AlignedTo(p, hOut) /\ AlignedTo(outq, hOut)
  BY <1>4, <1>5, <1>9, <1>10 DEF Aligned, AlignedTo
<1>12. TrackedAlong(acked, outq, c2s, handled, received, uncounted)
  <2>1. ~ Established
    BY <1>2 DEF Established
  <2> QED BY <1>2, <2>1 DEF LossInv, Runs, ResumableRun
<1>13. /\ CoveredAlong(b, p, c2s \o r, handled, received, uncounted + Len(p))
       /\ hOut <= handled + Count(c2s \o r, Len(c2s \o r)) /\ hOut <= handled + Len(p)
  <2>1. p = Prune(outq, x) /\ b = acked \cup PrunedMsgs(outq, x)
    BY <1>5
  <2>2. r = [i \in 1..Len(p) |-> Elem("stanza", p[i].msg, 0)]
    BY <1>4
  <2>3. AlignedTo(outq, hOut) /\ x <= handled /\ hOut <= handled + Len(outq)
    BY <1>6, <1>9, <1>11
  <2>4. Resumes(outq, hOut, x, acked, c2s, handled, received, uncounted, p, b, r)
    BY <1>6, <1>7, <1>12, <2>1, <2>2, <2>3 DEF Resumes
  <2> QED BY <2>4, ResumeAlong
<1>14. Cardinality(b) + Len(p) <= hOut
  <2>1. PICK k, l : k = Cardinality(b) /\ l = Cardinality(acked)
    OBVIOUS
  <2>2. k \in Nat /\ l \in Nat
    BY <1>7, <1>8, <2>1, CardSubset
  <2>3. k + Len(p) <= l + Len(outq) /\ l + Len(outq) <= hOut
    BY <1>8, <1>9, <2>1
  <2>4. k + Len(p) <= hOut
    BY <1>7, <2>2, <2>3
  <2> QED BY <2>1, <2>4
<1>15. r \in Seq(ClientElem) /\ c2s \o r \in Seq(ClientElem)
  <2>1. r \in Seq(ClientElem)
    BY <1>4, <1>7, RetransmittedType
  <2> QED BY <1>7, <2>1
<1>16. Established' /\ ~ Opening'
  BY <1>2, <1>5 DEF Established, Opening
<1>17. OpeningRun' /\ ResumableRun'
  BY <1>16 DEF OpeningRun, ResumableRun
<1>18. QueueKept'
  BY <1>4, <1>5, <1>10, <1>13, <1>14 DEF QueueKept
<1>19. EstablishedRun'
  BY <1>4, <1>5, <1>13 DEF EstablishedRun
<1>20. LossBounded'
  <2>1. uncounted + Len(p) \in Nat
    BY <1>7
  <2>2. Cardinality(b \ received) <= uncounted + Len(p)
    <3>1. IsFiniteSet(Tracked(b, p))
      BY <1>7, <1>8
    <3>2. PICK c, u : c = c2s \o r /\ u = uncounted + Len(p)
      OBVIOUS
    <3> QED BY <1>7, <1>8, <1>11, <1>13, <1>14, <1>15, <2>1, <3>1, <3>2, EstablishedLoss
  <2> QED BY <1>4, <1>5, <2>2 DEF LossBounded
<1>21. OnlySent'
  <2>1. /\ Len(c2s) \in Nat /\ Len(r) \in Nat /\ DOMAIN c2s = 1..Len(c2s) /\ DOMAIN r = 1..Len(r)
        /\ DOMAIN (c2s \o r) = 1..(Len(c2s) + Len(r))
        /\ \A i \in 1..Len(c2s) : (c2s \o r)[i] = c2s[i]
        /\ \A i \in (Len(c2s) + 1)..(Len(c2s) + Len(r)) : (c2s \o r)[i] = r[i - Len(c2s)]
    BY <1>7, <1>15, ConcatAt
  <2>2. PICK d : d = c2s \o r
    OBVIOUS
  <2>3. \A i \in DOMAIN d : \/ \E j \in DOMAIN c2s : c2s[j] = d[i]
                            \/ \E j \in DOMAIN r : r[j] = d[i]
    <3> TAKE i \in DOMAIN d
    <3>1. CASE i \in 1..Len(c2s)
      BY <2>1, <2>2, <3>1
    <3>2. CASE i \notin 1..Len(c2s)
      <4>1. i \in (Len(c2s) + 1)..(Len(c2s) + Len(r)) /\ i - Len(c2s) \in DOMAIN r
        BY <2>1, <2>2, <3>2
      <4> QED BY <2>1, <2>2, <4>1
    <3> QED BY <3>1, <3>2
  <2>4. \A j \in DOMAIN r : r[j].n \in Tracked(acked, outq)
    <3>1. DOMAIN p = 1..Len(p) /\ DOMAIN r = 1..Len(p)
      BY <1>4, <1>7
    <3>2. \A j \in DOMAIN r : j \in DOMAIN p /\ r[j].n = p[j].msg
      BY <1>4, <3>1 DEF Elem
    <3>3. \A j \in DOMAIN p : p[j].msg \in Tracked(b, p)
      BY DEF Tracked
    <3> QED BY <1>8, <3>2, <3>3
  <2>5. \A i \in DOMAIN d : \/ \E j \in DOMAIN c2s : c2s[j] = d[i]
                            \/ d[i].n \in Tracked(acked, outq)
    BY <2>3, <2>4
  <2>6. Tracked(acked', outq') = Tracked(acked, outq)
    BY <1>4, <1>8
  <2>7. msgs' = msgs /\ msgs' \in Nat /\ msgs <= msgs' /\ received' = received /\ c2s' = d
    BY <1>5, <1>7, <2>2
  <2>8. \A i \in DOMAIN c2s' : c2s'[i].kind = "stanza" =>
               \/ \E j \in DOMAIN c2s : c2s[j] = c2s'[i]
               \/ c2s'[i].n \in Tracked(acked, outq)
    BY <2>5, <2>7
  <2> QED BY <1>1, <2>6, <2>7, <2>8, OnlySentStep DEF LossInv
<1> QED BY <1>1, <1>2, <1>17, <1>18, <1>19, <1>20, <1>21 DEF LossInv, Runs

-------------------------------------------------------------------------------
\* Stanzas sent.

LEMMA SendFacts ==
    ASSUME NEW k \in Nat, NEW first, Send(k, first)
    PROVE  /\ msgs' = msgs + k
           /\ link' = "up" => c2s' = (c2s \o first) \o SentFrom(msgs, k)
           /\ link' # "up" => c2s' = c2s
           /\ smEnabled => hOut' = hOut + k /\ outq' = outq \o QueuedFrom(hOut, msgs, k)
           /\ ~ smEnabled => hOut' = hOut /\ outq' = outq
  BY DEF Send, SentFrom, QueuedFrom

LEMMA SendOnlySent ==
    ASSUME TypeOK, OnlySent, NEW k \in Nat, NEW first \in Seq(ClientElem), Send(k, first),
           ~ InFlight(first, {"stanza"}), received' = received, acked' \subseteq acked
    PROVE  OnlySent'
<1>1. /\ c2s \in Seq(ClientElem) /\ outq \in Seq(Queued) /\ msgs \in Nat /\ hOut \in Nat
      /\ smEnabled \in BOOLEAN
  BY LossTypes
<1>2. /\ msgs' = msgs + k
      /\ link' = "up" => c2s' = (c2s \o first) \o SentFrom(msgs, k)
      /\ link' # "up" => c2s' = c2s
      /\ smEnabled => outq' = outq \o QueuedFrom(hOut, msgs, k)
      /\ ~ smEnabled => outq' = outq
  BY SendFacts
<1>3. Tracked(acked', outq') \subseteq Tracked(acked, outq) \cup (msgs + 1)..msgs'
  <2>1. PICK a, q : a = acked' /\ q = outq'
    OBVIOUS
  <2>2. Tracked(a, outq) \subseteq Tracked(acked, outq)
    BY <2>1 DEF Tracked
  <2>3. CASE smEnabled
    <3>1. q = outq \o QueuedFrom(hOut, msgs, k)
      BY <1>2, <2>1, <2>3
    <3>2. Tracked(a, outq \o QueuedFrom(hOut, msgs, k)) = Tracked(a, outq) \cup (msgs + 1)..(msgs + k)
      BY <1>1, QueuedMore
    <3>3. Tracked(a, q) \subseteq Tracked(acked, outq) \cup (msgs + 1)..msgs'
      BY <1>2, <2>2, <3>1, <3>2
    <3> QED BY <2>1, <3>3
  <2>4. CASE ~ smEnabled
    <3>1. q = outq
      BY <1>2, <2>1, <2>4
    <3> QED BY <2>1, <2>2, <3>1
  <2> QED BY <2>3, <2>4
<1>4. \A i \in DOMAIN c2s' : c2s'[i].kind = "stanza" =>
           \/ \E j \in DOMAIN c2s : c2s[j] = c2s'[i]
           \/ c2s'[i].n \in (msgs + 1)..msgs'
  <2>1. CASE link' # "up"
    BY <1>2, <2>1
  <2>2. CASE link' = "up"
    <3>1. PICK c, r, d : c = c2s \o first /\ r = SentFrom(msgs, k) /\ d = c \o r
      OBVIOUS
    <3>2. c \in Seq(ClientElem)
      BY <1>1, <3>1
    <3>3. r \in Seq(ClientElem) /\ Len(r) = k /\ \A i \in 1..k : r[i].n = msgs + i
      <4>1. c2s \in Seq(ClientElem) /\ msgs \in Nat
        BY <1>1
      <4>2. PICK c0, m : c0 = c2s /\ m = msgs
        OBVIOUS
      <4>3. /\ SentFrom(m, k) \in Seq(ClientElem) /\ Len(SentFrom(m, k)) = k
            /\ \A i \in 1..k : SentFrom(m, k)[i].kind = "stanza" /\ SentFrom(m, k)[i].n = m + i
            /\ c0 \o SentFrom(m, k) \in Seq(ClientElem)
            /\ Len(c0) \in Nat /\ Len(c0 \o SentFrom(m, k)) = Len(c0) + k
        <5>1. c0 \in Seq(ClientElem) /\ m \in Nat
          BY <4>1, <4>2
        <5> QED BY <5>1, SentMore
      <4> QED BY <3>1, <4>2, <4>3
    <3>4. Keeps(c2s, c, {"stanza"})
      BY <1>1, <3>1, ConcatKeeps
    <3>5. /\ Len(c) \in Nat /\ DOMAIN c = 1..Len(c) /\ DOMAIN d = 1..(Len(c) + k)
          /\ \A i \in 1..Len(c) : d[i] = c[i]
          /\ \A i \in (Len(c) + 1)..(Len(c) + k) : d[i] = r[i - Len(c)]
      <4>1. /\ Len(c) \in Nat /\ DOMAIN c = 1..Len(c) /\ DOMAIN (c \o r) = 1..(Len(c) + Len(r))
            /\ \A i \in 1..Len(c) : (c \o r)[i] = c[i]
            /\ \A i \in (Len(c) + 1)..(Len(c) + Len(r)) : (c \o r)[i] = r[i - Len(c)]
        <5>1. r \in Seq(ClientElem)
          BY <3>3
        <5> QED BY <3>2, <5>1, ConcatAt
      <4> QED BY <3>1, <3>3, <4>1
    <3>6. ASSUME NEW i \in DOMAIN d, d[i].kind = "stanza"
          PROVE  (\E j \in DOMAIN c2s : c2s[j] = d[i]) \/ d[i].n \in (msgs + 1)..(msgs + k)
      <4>1. CASE i \in 1..Len(c)
        <5>1. i \in DOMAIN c /\ d[i] = c[i]
          BY <3>5, <4>1
        <5> QED BY <3>4, <3>6, <5>1 DEF Keeps
      <4>2. CASE i \notin 1..Len(c)
        <5>1. i \in (Len(c) + 1)..(Len(c) + k) /\ i - Len(c) \in 1..k
          BY <3>5, <4>2
        <5>2. d[i].n = msgs + (i - Len(c))
          BY <3>3, <3>5, <5>1
        <5>3. msgs + (i - Len(c)) \in (msgs + 1)..(msgs + k)
          BY <1>1, <5>1
        <5> QED BY <5>2, <5>3
      <4> QED BY <4>1, <4>2
    <3>7. c2s' = d
      BY <1>2, <2>2, <3>1
    <3> QED BY <1>2, <3>6, <3>7
  <2> QED BY <2>1, <2>2
<1>5. msgs' \in Nat /\ msgs <= msgs'
  BY <1>1, <1>2
<1> QED BY <1>3, <1>4, <1>5, OnlySentStep

\* What send() counts it queues.
LEMMA SendQueueKept ==
    ASSUME TypeOK, NEW k \in Nat, NEW first, Send(k, first), smEnabled,
           acked' = acked, handled' = handled, IsFiniteSet(acked),
           Aligned /\ Cardinality(acked) + Len(outq) <= hOut /\ hOut <= handled + Len(outq)
    PROVE  QueueKept'
<1>1. outq \in Seq(Queued) /\ hOut \in Nat /\ handled \in Nat /\ msgs \in Nat /\ Len(outq) \in Nat
  BY LossTypes
<1>2. hOut' = hOut + k /\ outq' = outq \o QueuedFrom(hOut, msgs, k)
  BY SendFacts
<1>3. Len(outq') = Len(outq) + k
  <2>1. Len(outq \o QueuedFrom(hOut, msgs, k)) = Len(outq) + k
    BY <1>1, QueuedMore
  <2> QED BY <1>2, <2>1
<1>4. Aligned'
  BY SendAligned
<1>5. PICK x : x = Cardinality(acked)
  OBVIOUS
<1>6. x \in Nat
  BY <1>5, CardSubset
<1>7. x + (Len(outq) + k) <= hOut + k /\ hOut + k <= handled + (Len(outq) + k)
  BY <1>1, <1>5, <1>6
<1> QED BY <1>2, <1>3, <1>4, <1>5, <1>7 DEF QueueKept

LEMMA SentAll ==
    ASSUME NEW c \in Seq(ClientElem), NEW m \in Nat, NEW k \in Nat
    PROVE  /\ Count(c \o SentFrom(m, k), Len(c \o SentFrom(m, k))) = Count(c, Len(c)) + k
           /\ c \o SentFrom(m, k) \in Seq(ClientElem)
<1>1. /\ SentFrom(m, k) \in Seq(ClientElem) /\ Len(SentFrom(m, k)) = k
      /\ \A i \in 1..k : SentFrom(m, k)[i].kind = "stanza" /\ SentFrom(m, k)[i].n = m + i
      /\ c \o SentFrom(m, k) \in Seq(ClientElem)
      /\ Len(c) \in Nat /\ Len(c \o SentFrom(m, k)) = Len(c) + k
  BY SentMore
<1>2. IsSent(SentFrom(m, k), m, k)
  BY <1>1 DEF IsSent
<1>3. k \in 0..k
  OBVIOUS
<1>4. Count(c \o SentFrom(m, k), Len(c) + k) = Count(c, Len(c)) + k
  BY <1>2, <1>3, SentCounts
<1> QED BY <1>1, <1>4

\* The tracked stanzas and those under way were sent, wherever they are.
LEMMA SendRun ==
    ASSUME TypeOK, OnlySent, NEW k \in Nat, NEW c \in Seq(ClientElem), NEW q,
           q = outq \o QueuedFrom(hOut, msgs, k), Carried(c, Len(c)) \subseteq 0..msgs
    PROVE  /\ TrackedAlong(acked, outq, c, handled, received, uncounted) =>
                /\ TrackedAlong(acked, q, c, handled, received, uncounted)
                /\ TrackedAlong(acked, q, c \o SentFrom(msgs, k), handled, received, uncounted)
           /\ CoveredAlong(acked, outq, c, handled, received, uncounted)
                /\ hOut <= handled + Count(c, Len(c)) =>
                CoveredAlong(acked, q, c \o SentFrom(msgs, k), handled, received, uncounted)
<1>1. /\ outq \in Seq(Queued) /\ hOut \in Nat /\ msgs \in Nat /\ handled \in Nat /\ uncounted \in Nat
  BY LossTypes
<1>2. Tracked(acked, outq) \subseteq 0..msgs /\ received \subseteq 0..msgs
  BY DEF OnlySent
<1> QED BY <1>1, <1>2, SendAlong

LEMMA LossUserSend == LossInv /\ UserSend => LossInv'
<1> SUFFICES ASSUME LossInv, UserSend PROVE LossInv'
  OBVIOUS
<1>1. TypeOK /\ TypeOK' /\ NegotiationInv'
  BY TypeUserSend, NegotiationUserSend DEF LossInv, NegotiationInv
<1>2. CountsTogether' /\ ReportsHandled'
  BY <1>1, ControlQuiet DEF LossInv
<1>3. Negotiating' <=> Negotiating
  BY UserSendKeeps, NegotiatingSame DEF LossInv
<1>4. /\ UNCHANGED <<link, smEnabled, smId, acked, received, handled, counting>>
      /\ uncounted' = IF Opening THEN uncounted + 1 ELSE uncounted
      /\ Send(1, <<>>)
  BY DEF UserSend, server, Opening
<1>5. /\ c2s \in Seq(ClientElem) /\ outq \in Seq(Queued) /\ msgs \in Nat /\ hOut \in Nat
      /\ handled \in Nat /\ uncounted \in Nat /\ Len(c2s) \in 0..Len(c2s) /\ <<>> \in Seq(ClientElem)
      /\ IsFiniteSet(acked) /\ Carried(c2s, Len(c2s)) \subseteq 0..msgs
  <2>1. c2s \in Seq(ClientElem) /\ Len(c2s) \in 0..Len(c2s) /\ <<>> \in Seq(ClientElem)
    BY <1>1, LossTypes
  <2> QED BY <1>1, <2>1, LossTypes, OnlySentSets DEF LossInv
<1>6. /\ link = "up" => c2s' = c2s \o SentFrom(msgs, 1)
      /\ link # "up" => c2s' = c2s
      /\ smEnabled => hOut' = hOut + 1 /\ outq' = outq \o QueuedFrom(hOut, msgs, 1)
  <2>1. 1 \in Nat /\ c2s \o <<>> = c2s
    BY <1>5
  <2> QED BY <1>4, <2>1, SendFacts
<1>7. PICK d, q, t : d = c2s' /\ q = outq' /\ t = Count(c2s, Len(c2s))
  OBVIOUS
<1>8. t \in Nat /\ (link = "up" => Count(d, Len(d)) = t + 1)
  <2>1. t \in Nat
    BY <1>5, <1>7, CountTypes
  <2>2. Count(c2s \o SentFrom(msgs, 1), Len(c2s \o SentFrom(msgs, 1))) = Count(c2s, Len(c2s)) + 1
    BY <1>5, SentAll
  <2> QED BY <1>6, <1>7, <2>1, <2>2
<1>9. (Opening' <=> Opening) /\ (Established' <=> Established)
  BY <1>3, <1>4 DEF Opening, Established
<1>10. smId # NoId \/ Established => smEnabled
  BY DEF LossInv, CountsTogether, Established
<1>11. OpeningRun'
  <2> SUFFICES ASSUME Opening
               PROVE  acked = {} /\ (IF counting THEN handled ELSE 0) + Count(d, Len(d)) <= uncounted + 1
    BY <1>4, <1>7, <1>9 DEF OpeningRun
  <2>1. acked = {} /\ (IF counting THEN handled ELSE 0) + t <= uncounted
    BY <1>7 DEF LossInv, Runs, OpeningRun
  <2>2. Count(d, Len(d)) = t + 1
    BY <1>8 DEF Opening
  <2>3. (IF counting THEN handled ELSE 0) + (t + 1) <= uncounted + 1
    BY <1>5, <1>8, <2>1
  <2> QED BY <2>1, <2>2, <2>3
<1>12. QueueKept'
  <2>1. CASE smId # NoId \/ Established
    <3>1. Aligned /\ Cardinality(acked) + Len(outq) <= hOut /\ hOut <= handled + Len(outq)
      BY <2>1 DEF LossInv, Runs, QueueKept
    <3> QED BY <1>1, <1>4, <1>5, <1>10, <2>1, <3>1, SendQueueKept
  <2>2. CASE ~ (smId # NoId \/ Established)
    BY <1>4, <1>9, <2>2 DEF QueueKept
  <2> QED BY <2>1, <2>2
<1>13. ResumableRun'
  <2> SUFFICES ASSUME smId # NoId, ~ Established
               PROVE  TrackedAlong(acked, q, d, handled, received, uncounted)
    BY <1>4, <1>7, <1>9 DEF ResumableRun, Opening
  <2>1. TrackedAlong(acked, outq, c2s, handled, received, uncounted)
    BY DEF LossInv, Runs, ResumableRun
  <2>2. q = outq \o QueuedFrom(hOut, msgs, 1)
    BY <1>6, <1>7, <1>10
  <2>3. /\ TrackedAlong(acked, q, c2s, handled, received, uncounted)
        /\ TrackedAlong(acked, q, c2s \o SentFrom(msgs, 1), handled, received, uncounted)
    BY <1>1, <1>5, <2>1, <2>2, SendRun DEF LossInv
  <2> QED BY <1>6, <1>7, <2>3
<1>14. EstablishedRun'
  <2> SUFFICES ASSUME Established
               PROVE  /\ hOut + 1 <= handled + Count(d, Len(d))
                      /\ CoveredAlong(acked, q, d, handled, received, uncounted)
    BY <1>4, <1>6, <1>7, <1>9, <1>10 DEF EstablishedRun, Opening, Established
  <2>1. link = "up"
    BY DEF Established
  <2>2. /\ hOut <= handled + Count(c2s, Len(c2s))
        /\ CoveredAlong(acked, outq, c2s, handled, received, uncounted)
    BY DEF LossInv, Runs, EstablishedRun
  <2>3. q = outq \o QueuedFrom(hOut, msgs, 1)
    BY <1>6, <1>7, <1>10
  <2>4. CoveredAlong(acked, q, c2s \o SentFrom(msgs, 1), handled, received, uncounted)
    BY <1>1, <1>5, <2>2, <2>3, SendRun DEF LossInv
  <2>5. hOut + 1 <= handled + (t + 1)
    BY <1>5, <1>7, <1>8, <2>2
  <2> QED BY <1>6, <1>7, <1>8, <2>1, <2>4, <2>5
<1>15. LossBounded'
  <2>1. PICK l : l = Cardinality(acked \ received)
    OBVIOUS
  <2>2. l \in Nat
    BY <1>5, <2>1, CardSubset
  <2>3. l <= uncounted
    BY <2>1 DEF LossInv, Runs, LossBounded
  <2>4. l <= uncounted'
    BY <1>4, <1>5, <2>2, <2>3
  <2> QED BY <1>4, <2>1, <2>4 DEF LossBounded
<1>16. OnlySent'
  <2>1. ~ InFlight(<<>>, {"stanza"})
    BY DEF InFlight
  <2> QED BY <1>1, <1>4, <1>5, <2>1, SendOnlySent DEF LossInv
<1> QED BY <1>1, <1>2, <1>11, <1>12, <1>13, <1>14, <1>15, <1>16 DEF LossInv, Runs

\* A stream is up: it asks to resume, or to open a session, or does not negotiate.
LEMMA LossConnected == LossInv /\ Connected => LossInv'
<1> SUFFICES ASSUME LossInv, Connected PROVE LossInv'
  OBVIOUS
<1>1. TypeOK /\ TypeOK' /\ NegotiationInv'
  BY TypeConnected, NegotiationConnected DEF LossInv, NegotiationInv
<1>2. /\ CountsTogether' /\ ReportsHandled' /\ ~ counting' /\ link' = "up"
      /\ Negotiating' <=> smAvailable
  BY ControlConnected DEF LossInv
<1>3. UNCHANGED <<smEnabled, smId, received, handled>> /\ c2s = <<>> /\ link = "connecting"
  BY DEF Connected, server, LossInv, CountsTogether
<1>4. /\ c2s \in Seq(ClientElem) /\ outq \in Seq(Queued) /\ msgs \in Nat /\ hOut \in Nat /\ hIn \in Nat
      /\ handled \in Nat /\ uncounted \in Nat /\ smId \in Nat /\ smAvailable \in BOOLEAN
      /\ IsFiniteSet(acked) /\ Burst \in Nat
  BY <1>1, LossTypes, OnlySentSets, BurstAssumption DEF LossInv
<1>5. smEnabled => smAvailable
  BY DEF LossInv, NegotiationInv, NegotiatesWhenAvailable
<1>6. smId # NoId => smEnabled
  BY DEF LossInv, CountsTogether
<1>7. Established' <=> smEnabled /\ ~ smAvailable
  BY <1>2, <1>3 DEF Established
<1>8. ~ Established'
  BY <1>5, <1>7
<1>9. EstablishedRun'
  BY <1>8 DEF EstablishedRun
<1>10. Count(c2s, Len(c2s)) = 0
  <2>1. Len(c2s) = 0 /\ 0 \in 0..Len(c2s)
    BY <1>3, <1>4
  <2>2. Count(c2s, 0) = 0
    BY <1>4, <2>1, CountTypes
  <2> QED BY <2>1, <2>2
<1>11. CASE ~ smAvailable
  <2>1. Send(Burst, <<>>) /\ UNCHANGED <<uncounted, acked>>
    BY <1>11 DEF Connected
  <2>2. smId = NoId /\ ~ Opening'
    BY <1>2, <1>5, <1>6, <1>11 DEF Opening
  <2>3. OpeningRun' /\ QueueKept' /\ ResumableRun'
    BY <1>3, <1>8, <2>2 DEF OpeningRun, QueueKept, ResumableRun
  <2>4. LossBounded'
    BY <1>3, <2>1 DEF LossInv, Runs, LossBounded
  <2>5. OnlySent'
    <3>1. <<>> \in Seq(ClientElem) /\ ~ InFlight(<<>>, {"stanza"})
      BY DEF InFlight
    <3> QED BY <1>1, <1>3, <1>4, <2>1, <3>1, SendOnlySent DEF LossInv
  <2> QED BY <1>1, <1>2, <1>9, <2>3, <2>4, <2>5 DEF LossInv, Runs
<1>12. ASSUME NEW e \in ClientElem, e.kind # "stanza", Send(Burst, <<e>>),
              acked' \subseteq acked
       PROVE  /\ OnlySent' /\ Count(c2s', Len(c2s')) = Burst
              /\ c2s' = Append(c2s, e) \o SentFrom(msgs, Burst) /\ Append(c2s, e) \in Seq(ClientElem)
              /\ Carried(Append(c2s, e), Len(Append(c2s, e))) \subseteq 0..msgs
              /\ Follows(Append(c2s, e), handled, received, c2s, handled, received)
  <2>1. <<e>> \in Seq(ClientElem) /\ ~ InFlight(<<e>>, {"stanza"})
    <3>1. DOMAIN <<e>> = {1} /\ <<e>>[1] = e
      OBVIOUS
    <3> QED BY <1>12, <3>1 DEF InFlight
  <2>2. OnlySent'
    BY <1>1, <1>3, <1>4, <1>12, <2>1, SendOnlySent DEF LossInv
  <2>3. c2s' = (c2s \o <<e>>) \o SentFrom(msgs, Burst)
    BY <1>2, <1>4, <1>12, SendFacts
  <2>4. c2s \o <<e>> = Append(c2s, e) /\ Append(c2s, e) \in Seq(ClientElem)
    BY <1>4
  <2>5. /\ Follows(Append(c2s, e), handled, received, c2s, handled, received)
        /\ Count(Append(c2s, e), Len(Append(c2s, e))) = Count(c2s, Len(c2s))
    BY <1>4, <1>12, QuietAppend
  <2>6. PICK c, d : c = Append(c2s, e) /\ d = c2s'
    OBVIOUS
  <2>7. Count(d, Len(d)) = Burst
    <3>1. Count(c \o SentFrom(msgs, Burst), Len(c \o SentFrom(msgs, Burst))) = Count(c, Len(c)) + Burst
      BY <1>4, <2>4, <2>6, SentAll
    <3>2. d = c \o SentFrom(msgs, Burst) /\ Count(c, Len(c)) = 0
      BY <1>10, <2>3, <2>4, <2>5, <2>6
    <3> QED BY <1>4, <3>1, <3>2
  <2>8. Carried(c, Len(c)) = {}
    <3>1. c = <<e>> /\ Len(c) = 1
      BY <1>3, <2>4, <2>6
    <3>2. Places(c, 1) = {}
      <4>1. c[1] = e
        BY <3>1
      <4>2. \A i \in 1..1 : c[i].kind # "stanza"
        BY <1>12, <4>1
      <4> QED BY <4>2 DEF Places
    <3> QED BY <3>1, <3>2 DEF Carried
  <2> QED BY <2>2, <2>3, <2>4, <2>5, <2>6, <2>7, <2>8
<1>13. CASE smAvailable /\ smId # NoId
  <2>1. Send(Burst, <<Elem("resume", hIn, smId)>>) /\ UNCHANGED <<uncounted, acked>>
    BY <1>13 DEF Connected
  <2>2. PICK e \in ClientElem : e = Elem("resume", hIn, smId) /\ e.kind # "stanza"
    <3>1. Elem("resume", hIn, smId) \in ClientElem /\ Elem("resume", hIn, smId).kind # "stanza"
      BY <1>4 DEF Elem, ClientElem
    <3> QED BY <3>1
  <2>3. /\ OnlySent'
        /\ c2s' = Append(c2s, e) \o SentFrom(msgs, Burst) /\ Append(c2s, e) \in Seq(ClientElem)
        /\ Carried(Append(c2s, e), Len(Append(c2s, e))) \subseteq 0..msgs
        /\ Follows(Append(c2s, e), handled, received, c2s, handled, received)
    BY <1>12, <2>1, <2>2
  <2>4. /\ smEnabled /\ ~ Opening' /\ ~ Established
    BY <1>3, <1>6, <1>13 DEF Opening, Established
  <2>5. OpeningRun'
    BY <2>4 DEF OpeningRun
  <2>6. QueueKept'
    <3>1. Aligned /\ Cardinality(acked) + Len(outq) <= hOut /\ hOut <= handled + Len(outq)
      BY <1>13 DEF LossInv, Runs, QueueKept
    <3> QED BY <1>1, <1>3, <1>4, <2>1, <2>4, <3>1, SendQueueKept
  <2>7. ResumableRun'
    <3>1. TrackedAlong(acked, outq, c2s, handled, received, uncounted)
      BY <1>13, <2>4 DEF LossInv, Runs, ResumableRun
    <3>2. PICK c, q, d : c = Append(c2s, e) /\ q = outq' /\ d = c2s'
      OBVIOUS
    <3>3. Trails(c, handled, received, c2s, handled, received)
      BY <1>4, <2>3, <3>2, FollowsTrails
    <3>4. IsFiniteSet(Tracked(acked, outq))
      BY <1>1, OnlySentSets DEF LossInv
    <3>5. TrackedAlong(acked, outq, c, handled, received, uncounted)
      BY <1>4, <2>3, <3>1, <3>2, <3>3, <3>4, TrailsTracked
    <3>6. q = outq \o QueuedFrom(hOut, msgs, Burst)
      BY <1>4, <2>1, <2>4, <3>2, SendFacts
    <3>7. TrackedAlong(acked, q, c \o SentFrom(msgs, Burst), handled, received, uncounted)
      BY <1>1, <1>4, <2>3, <3>2, <3>5, <3>6, SendRun DEF LossInv
    <3>8. TrackedAlong(acked, q, d, handled, received, uncounted)
      BY <2>3, <3>2, <3>7
    <3> QED BY <1>3, <2>1, <3>2, <3>8 DEF ResumableRun
  <2>8. LossBounded'
    BY <1>3, <2>1 DEF LossInv, Runs, LossBounded
  <2> QED BY <1>1, <1>2, <1>9, <2>3, <2>5, <2>6, <2>7, <2>8 DEF LossInv, Runs
<1>14. CASE smAvailable /\ smId = NoId
  <2>1. Send(Burst, <<Elem("enable", 0, 0)>>) /\ uncounted' = Burst /\ acked' = {}
    BY <1>14 DEF Connected
  <2>2. PICK e \in ClientElem : e = Elem("enable", 0, 0) /\ e.kind # "stanza"
    <3>1. Elem("enable", 0, 0) \in ClientElem /\ Elem("enable", 0, 0).kind # "stanza"
      BY DEF Elem, ClientElem
    <3> QED BY <3>1
  <2>3. OnlySent' /\ Count(c2s', Len(c2s')) = Burst
    BY <1>12, <2>1, <2>2
  <2>4. OpeningRun'
    <3>1. PICK t : t = Count(c2s', Len(c2s'))
      OBVIOUS
    <3>2. (IF counting' THEN handled ELSE 0) + t <= Burst
      BY <1>2, <1>4, <2>3, <3>1
    <3> QED BY <1>3, <2>1, <3>1, <3>2 DEF OpeningRun
  <2>5. QueueKept' /\ ResumableRun'
    BY <1>3, <1>8, <1>14 DEF QueueKept, ResumableRun
  <2>6. LossBounded'
    <3>1. Cardinality({}) = 0 /\ {} \ received = {}
      BY FS_EmptySet
    <3>2. Cardinality({} \ received) <= Burst
      BY <1>4, <3>1
    <3> QED BY <1>3, <2>1, <3>2 DEF LossBounded
  <2> QED BY <1>1, <1>2, <1>9, <2>3, <2>4, <2>5, <2>6 DEF LossInv, Runs
<1> QED BY <1>4, <1>11, <1>13, <1>14

-------------------------------------------------------------------------------
LEMMA LossInit == Init => LossInv
<1> SUFFICES ASSUME Init PROVE LossInv
  OBVIOUS
<1>1. NegotiationInv
  BY NegotiationInit
<1>2. /\ c2s = <<>> /\ s2c = <<>> /\ link = "down" /\ ~ counting /\ smId = NoId /\ ~ smEnabled
      /\ outq = <<>> /\ acked = {} /\ received = {} /\ msgs = 0 /\ uncounted = 0
  BY DEF Init
<1>3. DOMAIN c2s = {} /\ DOMAIN s2c = {} /\ DOMAIN outq = {}
  BY <1>2
<1>4. CountsTogether /\ ReportsHandled
  BY <1>2, <1>3 DEF CountsTogether, ReportsHandled, Established, InFlight
<1>5. OnlySent
  BY <1>2, <1>3 DEF OnlySent, Tracked
<1>6. OpeningRun /\ QueueKept /\ ResumableRun /\ EstablishedRun
  BY <1>2 DEF OpeningRun, QueueKept, ResumableRun, EstablishedRun, Opening, Established
<1>7. LossBounded
  <2>1. acked \ received = {}
    BY <1>2
  <2>2. Cardinality(acked \ received) = 0
    BY <2>1, FS_EmptySet
  <2> QED BY <1>2, <2>2 DEF LossBounded
<1> QED BY <1>1, <1>4, <1>5, <1>6, <1>7 DEF LossInv, Runs

LEMMA LossNext == LossInv /\ [Next]_vars => LossInv'
<1> SUFFICES ASSUME LossInv, [Next]_vars PROVE LossInv'
  OBVIOUS
<1>1. ASSUME NEW ok \in BOOLEAN, ManualConnect(ok) \/ AutoReconnect(ok) PROVE LossInv'
  BY <1>1, LossDial
<1>2. CASE Connected \/ UserSend
  BY <1>2, LossConnected, LossUserSend
<1>3. CASE OnEnabled \/ OnResumed \/ OnFailed \/ OnAck
  BY <1>3, LossEnabled, LossResumed, LossFailed, LossAck
<1>4. CASE SrvEnabling
  BY <1>4, LossSrvEnable DEF SrvEnabling
<1>5. CASE SrvResume \/ SrvRefuse \/ SrvStanza
  BY <1>5, LossSrvAnswer, LossSrvStanza
<1>6. CASE OnRequest \/ OnStanza \/ AckTimerTick \/ SrvRequest \/ SrvAck \/ SrvSend
           \/ SrvSendOutside \/ SrvAsk \/ SrvForget
  BY <1>6, LossQuiet
<1>7. CASE LinkLost \/ CleanClose \/ UserDisconnect
  BY <1>7, LossEnds
<1>8. CASE UNCHANGED vars
  <2>1. UNCHANGED <<link, smEnabled, smId, hOut, outq, c2s, s2c, counting, handled, acked, received,
                    uncounted, msgs>>
    BY <1>8 DEF vars, client, server, history
  <2>2. NegotiationInv' /\ TypeOK /\ TypeOK'
    BY NegotiationNext DEF LossInv, NegotiationInv
  <2>3. (Negotiating' <=> Negotiating) /\ QuietChannel
    BY <2>1 DEF Negotiating, InFlight, QuietChannel
  <2>4. Runs' /\ OnlySent'
    BY <2>1, <2>2, <2>3, RunsQuiet DEF LossInv
  <2>5. CountsTogether' /\ ReportsHandled'
    BY <2>1, <2>3 DEF LossInv, CountsTogether, ReportsHandled, Established, InFlight
  <2> QED BY <2>2, <2>4, <2>5 DEF LossInv
<1> QED BY <1>1, <1>2, <1>3, <1>4, <1>5, <1>6, <1>7, <1>8 DEF Next, ClientReceive, ServerHandle

\* However streams break, close, resume or are refused, the client takes no more
\* stanzas for received that the server never handled than it sent without counting
\* them: what conn_handler sends before <enabled/> and what a resumption sends again.
THEOREM LossBoundedCorrect == Spec => []LossBounded
<1>1. LossInv => LossBounded
  BY DEF LossInv, Runs
<1> QED BY <1>1, LossInit, LossNext, PTL DEF Spec
===============================================================================
