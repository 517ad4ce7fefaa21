--------------------------- MODULE HistorySync_proofs ---------------------------
(***************************************************************************)
(* Theorems about HistorySync, for every value of its constants: the       *)
(* cursor never passes a message that was not shown, a settled catch-up    *)
(* misses none, and, from a server that delivers nothing again to a new    *)
(* process, none stands twice in its buffer.                               *)
(*                                                                         *)
(* The first two rest on the order of the stream: before a <fin/> that     *)
(* names a message as its last come the results up to it.  The third rests *)
(* on what is known of a message that the server pushed on this stream, or *)
(* will push again: it stands in its buffer under its tag, or neither      *)
(* there nor in the cache.                                                 *)
(***************************************************************************)
EXTENDS HistorySync, SequenceTheorems, FiniteSetTheorems, TLAPS

-------------------------------------------------------------------------------
\* What is said on a channel, and the inductive invariant.

Conversations == Peers \cup {Everyone}
Query == [with : Conversations, nr : Nat, start : Nat, end : Nat]

ClientMsg == [query : Query, after : 0..MaxMsgs]
ServerMsg ==
    [kind : {"live", "late", "result"}, n : Msgs]
    \cup [kind : {"fin"}, with : Conversations, nr : Nat, last : 0..MaxMsgs, complete : BOOLEAN]
    \cup [kind : {"refused"}, with : Conversations, nr : Nat]

HistoryTypes ==
    /\ up \in BOOLEAN
    /\ channels \subseteq Peers /\ pmOpen \subseteq Peers /\ IsFiniteSet(pmOpen)
    /\ queries \subseteq Query /\ IsFiniteSet(queries)
    /\ lastTs \in [Peers -> Int] /\ cursor \in 0..MaxMsgs
    /\ purged \in Nat /\ horizon \in Nat /\ refusals \in Nat
    /\ archive \in Seq(Peers) /\ Len(archive) <= MaxMsgs
    /\ c2s \in Seq(ClientMsg) /\ s2c \in Seq(ServerMsg)
    /\ pushed \subseteq DOMAIN archive /\ held \subseteq DOMAIN archive
    /\ shown \subseteq DOMAIN archive /\ cache \subseteq shown
    /\ lines \in [Msgs -> Nat] /\ tagged \subseteq Msgs

\* A line stands in the buffer of its conversation, and was shown there.
Stands(n) == n \in shown /\ archive[n] \in channels
LinesInv  == /\ \A n \in Msgs : lines[n] > 0 => Stands(n)
             /\ \A n \in tagged : lines[n] > 0

\* q has something of S; before each A of q comes an S; before none.
Has(q, S)         == \E i \in DOMAIN q : q[i] \in S
Preceded(q, A, S) == \A i \in DOMAIN q : q[i] \in A => \E j \in DOMAIN q : j < i /\ q[j] \in S
Ahead(q, A, S)    == \A i \in DOMAIN q : q[i] \in A => \A j \in DOMAIN q : j < i => q[j] \notin S

\* Messages of the server: what brings n, what pushes it, what brings it as it is
\* sent, and its result.
Brings(n)  == [kind : {"live", "late", "result"}, n : {n}]
Pushes(n)  == [kind : {"live", "late"}, n : {n}]
Lives(n)   == [kind : {"live"}, n : {n}]
Result(n)  == [kind : {"result"}, n : {n}]

\* The <fin/> of a global page that reaches n, and of one that is not the last.
Reaching(n) == {m \in ServerMsg : m.kind = "fin" /\ m.with = Everyone /\ m.last >= n}
Going       == {m \in ServerMsg : m.kind = "fin" /\ m.with = Everyone /\ MorePages(m)}

\* Global queries: all, those that start after n, and those that leave out
\* something younger than h.
Globals   == {a \in ClientMsg : a.query.with = Everyone}
Passing(n) == {a \in Globals : a.after >= n}
Partial(q, h) == q.with = Everyone /\ (q.start > h + 1 \/ q.end # NoEnd)
Lacking(h) == {a \in ClientMsg : Partial(a.query, h)}

\* Nothing is left to fetch of n.
Covered(n) == n \in shown \/ n <= horizon \/ n <= purged

\* What is on its way is archived.  What the server starts after is covered, and a
\* <fin/> finds covered what it reaches, as do the queries that are kept.
ArrivalInv == \A n \in Msgs : Has(s2c, Brings(n)) => n \in DOMAIN archive
QueryInv   == /\ \A q \in queries : ~ Partial(q, horizon)
              /\ ~ Has(c2s, Lacking(horizon))
              /\ \A n \in Msgs : Has(c2s, Passing(n)) => Covered(n)
CursorInv  == \A n \in Msgs : /\ n <= cursor => Covered(n)
                              /\ Covered(n) \/ Preceded(s2c, Reaching(n), Result(n))

\* The catch-up has a query on its way, or a page with another to come, or all of
\* the archive is covered or on its way.
OnItsWay(n) == Covered(n) \/ Has(s2c, Brings(n))
CatchupInv  == up /\ refusals = 0 => \/ Has(c2s, Globals) \/ Has(s2c, Going)
                                     \/ \A n \in DOMAIN archive : OnItsWay(n)

\* What a message that is pushed finds: its tag, or no trace of it.
Absent(n)  == lines[n] = 0 /\ n \notin cache
PushedInv  == /\ \A n \in pushed \cup held : n \in tagged \/ Absent(n)
              /\ \A n \in Msgs : Has(s2c, Pushes(n)) => n \in pushed
              /\ \A n \in Msgs : Has(s2c, Lives(n)) => Absent(n)
              /\ \A n \in Msgs : Ahead(s2c, Lives(n), Brings(n))

HistoryInv == HistoryTypes /\ LinesInv /\ ArrivalInv /\ QueryInv /\ CursorInv /\ CatchupInv
OnceInv    == PushedInv /\ NoDuplicates

-------------------------------------------------------------------------------
\* Sequences.

LEMMA Concatenated ==
    ASSUME NEW X, NEW q \in Seq(X), NEW p \in Seq(X), NEW A, NEW S
    PROVE  /\ q \o p \in Seq(X)
           /\ Has(q \o p, S) <=> Has(q, S) \/ Has(p, S)
           /\ Preceded(q, A, S) /\ Preceded(p, A, S) => Preceded(q \o p, A, S)
           /\ Preceded(q, A, S) /\ Has(q, S) => Preceded(q \o p, A, S)
           /\ Ahead(q, A, S) /\ ~ Has(p, A) => Ahead(q \o p, A, S)
           /\ Ahead(q, A, S) /\ Ahead(p, A, S) /\ ~ Has(q, S) => Ahead(q \o p, A, S)
<1>1. /\ Len(q) \in Nat /\ Len(p) \in Nat
      /\ DOMAIN q = 1..Len(q) /\ DOMAIN p = 1..Len(p)
  OBVIOUS
<1>2. PICK s : s = q \o p
  OBVIOUS
<1>3. s \in Seq(X) /\ DOMAIN s = 1..(Len(q) + Len(p))
  BY <1>2
<1>4. \A i \in DOMAIN q : s[i] = q[i] /\ i \in DOMAIN s
  BY <1>1, <1>2, <1>3, ConcatProperties
<1>5. \A i \in DOMAIN p : s[Len(q) + i] = p[i] /\ Len(q) + i \in DOMAIN s
  BY <1>1, <1>2, <1>3, ConcatProperties
<1>6. \A j \in DOMAIN s : j \in DOMAIN q \/ (j - Len(q) \in DOMAIN p /\ s[j] = p[j - Len(q)])
  <2> SUFFICES ASSUME NEW j \in DOMAIN s, j \notin DOMAIN q
               PROVE  j - Len(q) \in DOMAIN p /\ s[j] = p[j - Len(q)]
    OBVIOUS
  <2>1. j - Len(q) \in 1..Len(p) /\ Len(q) + (j - Len(q)) = j
    BY <1>1, <1>3
  <2> QED BY <1>1, <1>5, <2>1
<1>7. Has(s, S) <=> Has(q, S) \/ Has(p, S)
  BY <1>4, <1>5, <1>6 DEF Has
<1>9. ASSUME Preceded(q, A, S), Preceded(p, A, S) \/ Has(q, S) PROVE Preceded(s, A, S)
  <2> SUFFICES ASSUME NEW i \in DOMAIN s, s[i] \in A
               PROVE  \E j \in DOMAIN s : j < i /\ s[j] \in S
    BY DEF Preceded
  <2>1. CASE i \in DOMAIN q
    <3>1. PICK j \in DOMAIN q : j < i /\ q[j] \in S
      BY <1>4, <1>9, <2>1 DEF Preceded
    <3> QED BY <1>4, <3>1
  <2>2. CASE i \notin DOMAIN q
    <3>1. i - Len(q) \in DOMAIN p /\ s[i] = p[i - Len(q)] /\ i \in Nat /\ i > Len(q)
      BY <1>1, <1>3, <1>6, <2>2
    <3>2. CASE Has(q, S)
      <4>1. PICK j \in DOMAIN q : q[j] \in S
        BY <3>2 DEF Has
      <4> QED BY <1>1, <1>4, <3>1, <4>1
    <3>3. CASE Preceded(p, A, S)
      <4>1. PICK j \in DOMAIN p : j < i - Len(q) /\ p[j] \in S
        BY <3>1, <3>3 DEF Preceded
      <4>2. Len(q) + j \in DOMAIN s /\ s[Len(q) + j] \in S /\ Len(q) + j < i
        BY <1>1, <1>5, <3>1, <4>1
      <4> QED BY <4>2
    <3> QED BY <1>9, <3>2, <3>3
  <2> QED BY <2>1, <2>2
<1>10. ASSUME Ahead(q, A, S), ~ Has(p, A) \/ (Ahead(p, A, S) /\ ~ Has(q, S)) PROVE Ahead(s, A, S)
  <2> SUFFICES ASSUME NEW i \in DOMAIN s, s[i] \in A, NEW j \in DOMAIN s, j < i
               PROVE  s[j] \notin S
    BY DEF Ahead
  <2>1. CASE i \in DOMAIN q
    <3>1. j \in DOMAIN q
      BY <1>1, <1>3, <2>1
    <3> QED BY <1>4, <1>10, <2>1, <3>1 DEF Ahead
  <2>2. CASE i \notin DOMAIN q
    <3>1. i - Len(q) \in DOMAIN p /\ p[i - Len(q)] \in A
      BY <1>6, <2>2
    <3>2. Ahead(p, A, S) /\ ~ Has(q, S)
      BY <1>10, <3>1 DEF Has
    <3>3. CASE j \in DOMAIN q
      BY <1>4, <3>2, <3>3 DEF Has
    <3>4. CASE j \notin DOMAIN q
      <4>1. j - Len(q) \in DOMAIN p /\ s[j] = p[j - Len(q)] /\ j - Len(q) < i - Len(q)
        BY <1>1, <1>3, <1>6, <3>4
      <4> QED BY <3>1, <3>2, <4>1 DEF Ahead
    <3> QED BY <3>3, <3>4
  <2> QED BY <2>1, <2>2
<1> QED BY <1>2, <1>3, <1>7, <1>9, <1>10

LEMMA Consumed ==
    ASSUME NEW X, NEW q \in Seq(X), q # <<>>, NEW A, NEW S
    PROVE  /\ Head(q) \in X /\ Tail(q) \in Seq(X)
           /\ Has(q, S) <=> Head(q) \in S \/ Has(Tail(q), S)
           /\ Preceded(q, A, S) =>
                Head(q) \notin A /\ (Head(q) \in S \/ Preceded(Tail(q), A, S))
           /\ Ahead(q, A, S) => Ahead(Tail(q), A, S) /\ (Head(q) \in S => ~ Has(Tail(q), A))
<1>1. Len(q) \in Nat \ {0} /\ DOMAIN q = 1..Len(q)
  OBVIOUS
<1>2. PICK s : s = Tail(q)
  OBVIOUS
<1>3. PICK x : x = Head(q)
  OBVIOUS
<1>4. x \in X /\ x = q[1] /\ 1 \in DOMAIN q /\ s \in Seq(X) /\ DOMAIN s = 1..(Len(q) - 1)
  BY <1>1, <1>2, <1>3
<1>5. \A i \in DOMAIN s : s[i] = q[i + 1] /\ i + 1 \in DOMAIN q /\ 1 < i + 1
  BY <1>1, <1>2, <1>4
<1>6. \A i \in DOMAIN q : i = 1 \/ (i - 1 \in DOMAIN s /\ s[i - 1] = q[i] /\ 1 < i)
  <2> SUFFICES ASSUME NEW i \in DOMAIN q, i # 1
               PROVE  i - 1 \in DOMAIN s /\ s[i - 1] = q[i] /\ 1 < i
    OBVIOUS
  <2>1. i - 1 \in DOMAIN s /\ (i - 1) + 1 = i /\ 1 < i
    BY <1>1, <1>4
  <2> QED BY <1>5, <2>1
<1>7. Has(q, S) <=> x \in S \/ Has(s, S)
  BY <1>4, <1>5, <1>6 DEF Has
<1>9. ASSUME Preceded(q, A, S) PROVE x \notin A /\ (x \in S \/ Preceded(s, A, S))
  <2>1. x \notin A
    <3> SUFFICES ASSUME x \in A PROVE FALSE
      OBVIOUS
    <3>1. PICK j \in DOMAIN q : j < 1
      BY <1>4, <1>9 DEF Preceded
    <3> QED BY <1>1, <3>1
  <2>2. ASSUME x \notin S, NEW i \in DOMAIN s, s[i] \in A
        PROVE  \E j \in DOMAIN s : j < i /\ s[j] \in S
    <3>1. PICK j \in DOMAIN q : j < i + 1 /\ q[j] \in S
      BY <1>5, <1>9, <2>2 DEF Preceded
    <3>2. j # 1
      BY <1>4, <2>2, <3>1
    <3>3. j - 1 \in DOMAIN s /\ s[j - 1] = q[j] /\ j - 1 < i
      BY <1>1, <1>4, <1>6, <3>1, <3>2
    <3> QED BY <3>1, <3>3
  <2> QED BY <2>1, <2>2 DEF Preceded
<1>10. ASSUME Ahead(q, A, S) PROVE Ahead(s, A, S) /\ (x \in S => ~ Has(s, A))
  <2>1. ASSUME NEW i \in DOMAIN s, s[i] \in A, NEW j \in DOMAIN s, j < i PROVE s[j] \notin S
    <3>1. j + 1 < i + 1
      BY <1>4, <2>1
    <3> QED BY <1>5, <1>10, <2>1, <3>1 DEF Ahead
  <2>2. ASSUME x \in S, NEW i \in DOMAIN s PROVE s[i] \notin A
    BY <1>4, <1>5, <1>10, <2>2 DEF Ahead
  <2> QED BY <2>1, <2>2 DEF Ahead, Has
<1> QED BY <1>2, <1>3, <1>4, <1>7, <1>9, <1>10

\* A sequence of one element, and of none.
LEMMA Single ==
    ASSUME NEW x, NEW A, NEW S
    PROVE  /\ Has(<<x>>, S) <=> x \in S
           /\ Ahead(<<x>>, A, S) /\ (x \notin A => Preceded(<<x>>, A, S))
           /\ ~ Has(<<>>, S) /\ Preceded(<<>>, A, S) /\ Ahead(<<>>, A, S)
<1>1. DOMAIN <<x>> = {1} /\ <<x>>[1] = x /\ DOMAIN <<>> = {}
  OBVIOUS
<1>2. ~ (1 < 1)
  OBVIOUS
<1> QED BY <1>1, <1>2 DEF Has, Preceded, Ahead

\* Appending is concatenating.
LEMMA Appended ==
    ASSUME NEW X, NEW q \in Seq(X), NEW x \in X
    PROVE  Append(q, x) = q \o <<x>> /\ <<x>> \in Seq(X)
OBVIOUS

\* Less of A; nothing of A is nothing to be preceded, and nothing ahead of others.
LEMMA FewerOf ==
    ASSUME NEW q, NEW A, NEW B \in SUBSET A, NEW S
    PROVE  /\ Has(q, B) => Has(q, A)
           /\ Preceded(q, A, S) => Preceded(q, B, S)
           /\ ~ Has(q, A) => Preceded(q, A, S) /\ Ahead(q, A, S)
BY DEF Has, Preceded, Ahead

\* As many different elements of a finite set as it has are all of it.
LEMMA Exhausted ==
    ASSUME NEW S, IsFiniteSet(S), NEW f \in [1..Cardinality(S) -> S],
           \A i, j \in 1..Cardinality(S) : i # j => f[i] # f[j],
           NEW x \in S, \A i \in 1..Cardinality(S) : f[i] # x
    PROVE  FALSE
<1>1. PICK n : n = Cardinality(S)
  OBVIOUS
<1>2. n \in Nat /\ IsFiniteSet(S \ {x}) /\ Cardinality(S \ {x}) = n - 1
  BY <1>1, FS_CardinalityType, FS_RemoveElement
<1>3. f \in [1..n -> S \ {x}]
  BY <1>1
<1>4. IsFiniteSet(1..n) /\ Cardinality(1..n) = n
  BY <1>1, <1>2, FS_Interval
<1>5. Cardinality(S \ {x}) < Cardinality(1..n)
  BY <1>2, <1>4
<1>6. \E i, j \in 1..n : i # j /\ f[i] = f[j]
  BY <1>2, <1>3, <1>4, <1>5, FS_PigeonHole
<1> QED BY <1>1, <1>6

\* SetToSeq lists all of a finite set, and no more.
LEMMA Listing ==
    ASSUME NEW S, IsFiniteSet(S)
    PROVE  /\ SetToSeq(S) \in Seq(S)
           /\ \A x \in S : Has(SetToSeq(S), {x})
<1>1. Cardinality(S) \in Nat /\ ExistsBijection(1..Cardinality(S), S)
  BY FS_CardinalityType
<1>2. PICK n : n = Cardinality(S)
  OBVIOUS
<1>3. \E f \in [1..n -> S] : IsInjective(f)
  <2>1. PICK f : f \in Bijection(1..n, S)
    BY <1>1, <1>2 DEF ExistsBijection
  <2>2. f \in [1..n -> S] /\ IsInjective(f)
    BY <2>1 DEF Bijection, Injection
  <2> QED BY <2>2
<1>4. PICK f : f = SetToSeq(S)
  OBVIOUS
<1>5. f \in [1..n -> S] /\ IsInjective(f)
  BY <1>2, <1>3, <1>4 DEF SetToSeq
<1>6. f \in Seq(S) /\ DOMAIN f = 1..n
  BY <1>1, <1>2, <1>5, SeqDef
<1>7. ASSUME NEW x \in S, \A i \in DOMAIN f : f[i] # x PROVE FALSE
  <2>1. /\ f \in [1..Cardinality(S) -> S]
        /\ \A i, j \in 1..Cardinality(S) : i # j => f[i] # f[j]
        /\ \A i \in 1..Cardinality(S) : f[i] # x
    BY <1>2, <1>5, <1>6, <1>7 DEF IsInjective
  <2> QED BY <2>1, Exhausted
<1> QED BY <1>2, <1>4, <1>5, <1>6, <1>7 DEF Has

\* So does a listing in order, and a smaller number comes before.
LEMMA Ordered ==
    ASSUME NEW S \in SUBSET Nat, IsFiniteSet(S), NEW s \in InOrder(S)
    PROVE  /\ s \in Seq(S) /\ Len(s) = Cardinality(S) /\ Cardinality(S) \in Nat
           /\ \A n \in S : \E i \in DOMAIN s : s[i] = n
           /\ \A i, j \in DOMAIN s : s[i] <= s[j] => i <= j
<1>1. Cardinality(S) \in Nat
  BY FS_CardinalityType
<1>2. PICK n : n = Cardinality(S)
  OBVIOUS
<1>3. s \in [1..n -> S] /\ \A i, j \in DOMAIN s : i < j => s[i] < s[j]
  BY <1>2 DEF InOrder
<1>4. DOMAIN s = 1..n /\ n \in Nat /\ \A i \in DOMAIN s : s[i] \in Nat
  BY <1>1, <1>2, <1>3
<1>5. s \in Seq(S) /\ Len(s) = n
  BY <1>3, <1>4, SeqDef
<1>6. \A i, j \in DOMAIN s : s[i] <= s[j] => i <= j
  <2> SUFFICES ASSUME NEW i \in DOMAIN s, NEW j \in DOMAIN s, s[i] <= s[j], ~ (i <= j)
               PROVE  FALSE
    OBVIOUS
  <2>1. j < i /\ s[i] \in Nat /\ s[j] \in Nat
    BY <1>4
  <2>2. s[j] < s[i]
    BY <1>3, <2>1
  <2> QED BY <2>1, <2>2
<1>7. \A i, j \in DOMAIN s : i # j => s[i] # s[j]
  <2> SUFFICES ASSUME NEW i \in DOMAIN s, NEW j \in DOMAIN s, s[i] = s[j] PROVE i = j
    OBVIOUS
  <2>1. s[i] \in Nat /\ s[j] \in Nat /\ s[i] <= s[j] /\ s[j] <= s[i]
    BY <1>4
  <2>2. i <= j /\ j <= i
    BY <1>6, <2>1
  <2> QED BY <1>4, <2>2
<1>8. ASSUME NEW m \in S, \A i \in DOMAIN s : s[i] # m PROVE FALSE
  <2>1. /\ s \in [1..Cardinality(S) -> S]
        /\ \A i, j \in 1..Cardinality(S) : i # j => s[i] # s[j]
        /\ \A i \in 1..Cardinality(S) : s[i] # m
    BY <1>2, <1>3, <1>4, <1>7, <1>8
  <2> QED BY <2>1, Exhausted
<1> QED BY <1>1, <1>2, <1>5, <1>6, <1>8

-------------------------------------------------------------------------------
\* Asking, and opening conversations.

LEMMA Numbers ==
    ASSUME HistoryTypes
    PROVE  /\ Msgs = 1..MaxMsgs /\ MaxMsgs \in Nat /\ NoEnd \in Nat /\ \A n \in Msgs : n < NoEnd
           /\ Now \in Nat /\ Past \in Nat /\ DOMAIN archive = 1..Len(archive)
           /\ Len(archive) \in 0..MaxMsgs /\ DOMAIN archive \subseteq Msgs
           /\ \A n \in DOMAIN archive : archive[n] \in Peers
BY SizesAssumption, BoundsAssumption DEF HistoryTypes, Msgs, NoEnd, Now, Past

\* Of one id more than there are queries, one is free.
LEMMA FreshNumber ==
    ASSUME HistoryTypes, NEW p
    PROVE  Fresh(p) \in Nat
<1>1. PICK n : n = Cardinality(queries)
  OBVIOUS
<1>2. n \in Nat /\ IsFiniteSet(queries)
  BY <1>1, FS_CardinalityType DEF HistoryTypes
<1>3. \E i \in 1..(n + 1) : \A q \in queries : q.with = p => q.nr # i
  <2> SUFFICES ASSUME \A i \in 1..(n + 1) : \E q \in queries : q.with = p /\ q.nr = i
               PROVE  FALSE
    OBVIOUS
  <2>1. PICK f : f = [i \in 1..(n + 1) |-> CHOOSE q \in queries : q.with = p /\ q.nr = i]
    OBVIOUS
  <2>2. \A i \in 1..(n + 1) : f[i] \in queries /\ f[i].nr = i
    BY <2>1
  <2>3. f \in [1..(n + 1) -> queries]
    BY <2>1, <2>2
  <2>4. n + 1 \in Nat /\ IsFiniteSet(1..(n + 1)) /\ Cardinality(1..(n + 1)) = n + 1
    BY <1>2, FS_Interval
  <2>5. Cardinality(queries) < Cardinality(1..(n + 1))
    BY <1>1, <1>2, <2>4
  <2>6. \E i, j \in 1..(n + 1) : i # j /\ f[i] = f[j]
    BY <1>2, <2>3, <2>4, <2>5, FS_PigeonHole
  <2> QED BY <2>2, <2>6
<1>4. Fresh(p) \in 1..(n + 1)
  BY <1>1, <1>3 DEF Fresh
<1> QED BY <1>2, <1>4

LEMMA FetchTypes ==
    ASSUME HistoryTypes, NEW S \in SUBSET Peers, IsFiniteSet(S), NEW ts \in [Peers -> Int]
    PROVE  /\ Fetches(S, ts) \subseteq Query /\ IsFiniteSet(Fetches(S, ts))
           /\ \A q \in Fetches(S, ts) : q.with # Everyone
<1>1. ASSUME NEW p \in Peers PROVE Fetch(p, ts[p]) \in Query /\ Fetch(p, ts[p]).with = p
  <2>1. ts[p] \in Int /\ Past \in Nat /\ Now \in Nat /\ Fresh(p) \in Nat
    BY Numbers, FreshNumber
  <2>2. PICK t \in Nat : t = IF ts[p] > 0 THEN ts[p] ELSE Past
    BY <2>1
  <2>3. Fetch(p, ts[p]) = [with |-> p, nr |-> Fresh(p), start |-> t, end |-> Now]
    BY <2>2 DEF Fetch
  <2> QED BY <2>1, <2>3 DEF Query, Conversations
<1>2. PICK A \in SUBSET S : A = {r \in S : \A q \in queries : q.with # r}
  OBVIOUS
<1>3. Fetches(S, ts) = {Fetch(p, ts[p]) : p \in A}
  BY <1>2 DEF Fetches
<1>4. PICK f : f = [p \in A |-> Fetch(p, ts[p])]
  OBVIOUS
<1>5. f \in Surjection(A, Fetches(S, ts))
  <2>1. f \in [A -> Fetches(S, ts)]
    BY <1>3, <1>4
  <2>2. \A x \in Fetches(S, ts) : \E p \in A : f[p] = x
    BY <1>3, <1>4
  <2> QED BY <2>1, <2>2 DEF Surjection
<1>6. IsFiniteSet(A)
  BY FS_Subset
<1>7. IsFiniteSet(Fetches(S, ts))
  BY <1>5, <1>6, FS_Surjection
<1>8. \A p \in A : Fetch(p, ts[p]) \in Query /\ Fetch(p, ts[p]).with # Everyone
  BY <1>1, PeersAssumption
<1> QED BY <1>3, <1>7, <1>8

\* Queries that are asked one after the other.
LEMMA Asking ==
    ASSUME NEW S \in SUBSET Query, IsFiniteSet(S), NEW a \in 0..MaxMsgs
    PROVE  /\ SetToSeq({Ask(q, a) : q \in S}) \in Seq(ClientMsg)
           /\ \A T : Has(SetToSeq({Ask(q, a) : q \in S}), T) <=> \E q \in S : Ask(q, a) \in T
<1>1. PICK A : A = {Ask(q, a) : q \in S}
  OBVIOUS
<1>2. \A q \in S : Ask(q, a) \in ClientMsg
  BY DEF Ask, ClientMsg
<1>3. IsFiniteSet(A)
  <2>1. PICK f : f = [q \in S |-> Ask(q, a)]
    OBVIOUS
  <2>2. f \in Surjection(S, A)
    BY <1>1, <2>1 DEF Surjection
  <2> QED BY <2>2, FS_Surjection
<1>4. SetToSeq(A) \in Seq(A) /\ \A x \in A : Has(SetToSeq(A), {x})
  BY <1>3, Listing
<1>5. SetToSeq(A) \in Seq(ClientMsg)
  BY <1>1, <1>2, <1>4, SeqMonotonic
<1>6. ASSUME NEW T PROVE Has(SetToSeq(A), T) <=> \E q \in S : Ask(q, a) \in T
  <2>1. ASSUME Has(SetToSeq(A), T) PROVE \E q \in S : Ask(q, a) \in T
    <3>1. PICK i \in DOMAIN SetToSeq(A) : SetToSeq(A)[i] \in T
      BY <2>1 DEF Has
    <3>2. SetToSeq(A)[i] \in A
      BY <1>4, <3>1
    <3> QED BY <1>1, <3>1, <3>2
  <2>2. ASSUME NEW q \in S, Ask(q, a) \in T PROVE Has(SetToSeq(A), T)
    <3>1. Has(SetToSeq(A), {Ask(q, a)})
      BY <1>1, <1>4
    <3> QED BY <2>2, <3>1 DEF Has
  <2> QED BY <2>1, <2>2
<1> QED BY <1>1, <1>5, <1>6

\* What opening conversations does to the queries and the channel to the server.
Opens(S, more) ==
    /\ channels' = channels \cup S
    /\ queries' \subseteq Query /\ IsFiniteSet(queries') /\ c2s' \in Seq(ClientMsg)
    /\ lastTs' \in [Peers -> Int] /\ pmOpen' \subseteq Peers /\ IsFiniteSet(pmOpen')
    /\ \A q \in queries' : q \in queries \cup more \/ q.with # Everyone
    /\ \A T : Has(c2s, T) \/ (\E q \in more : Ask(q, cursor) \in T) => Has(c2s', T)
    /\ \A T \in SUBSET Globals :
          Has(c2s', T) => Has(c2s, T) \/ \E q \in more : Ask(q, cursor) \in T

LEMMA Opening ==
    ASSUME HistoryTypes, NEW S \in SUBSET Peers, IsFiniteSet(S), NEW ts \in [Peers -> Int],
           NEW more \in SUBSET Query, IsFiniteSet(more), Open(S, ts, more)
    PROVE  Opens(S, more)
<1>1. PICK F : F = Fetches(S, ts)
  OBVIOUS
<1>2. F \subseteq Query /\ IsFiniteSet(F) /\ \A q \in F : q.with # Everyone
  BY <1>1, FetchTypes
<1>3. PICK g : g = SetToSeq({Ask(q, cursor) : q \in more})
  OBVIOUS
<1>4. PICK h : h = SetToSeq({Ask(q, 0) : q \in F})
  OBVIOUS
<1>5. /\ channels' = channels \cup S /\ queries' = queries \cup F \cup more
      /\ c2s' = c2s \o g \o h
      /\ lastTs' = [p \in Peers |-> IF p \in S THEN Closed ELSE lastTs[p]]
      /\ pmOpen' = pmOpen \ S
  BY <1>1, <1>3, <1>4 DEF Open
<1>6. /\ queries \subseteq Query /\ IsFiniteSet(queries) /\ c2s \in Seq(ClientMsg)
      /\ lastTs \in [Peers -> Int] /\ pmOpen \subseteq Peers /\ IsFiniteSet(pmOpen)
      /\ cursor \in 0..MaxMsgs
  BY DEF HistoryTypes
<1>7. /\ g \in Seq(ClientMsg) /\ \A T : Has(g, T) <=> \E q \in more : Ask(q, cursor) \in T
  BY <1>3, <1>6, Asking
<1>8. /\ h \in Seq(ClientMsg) /\ \A T : Has(h, T) <=> \E q \in F : Ask(q, 0) \in T
  <2>1. 0 \in 0..MaxMsgs
    BY BoundsAssumption
  <2> QED BY <1>2, <1>4, <2>1, Asking
<1>9. c2s \o g \in Seq(ClientMsg) /\ \A T : Has(c2s \o g, T) <=> Has(c2s, T) \/ Has(g, T)
  BY <1>6, <1>7, Concatenated
<1>10. c2s' \in Seq(ClientMsg) /\ \A T : Has(c2s', T) <=> Has(c2s, T) \/ Has(g, T) \/ Has(h, T)
  BY <1>5, <1>8, <1>9, Concatenated
<1>11. IsFiniteSet(queries') /\ IsFiniteSet(pmOpen')
  BY <1>2, <1>5, <1>6, FS_Union, FS_Difference
<1>12. lastTs' \in [Peers -> Int]
  <2>1. Closed \in Int
    BY DEF Closed
  <2> QED BY <1>5, <1>6, <2>1
<1>13. \A T \in SUBSET Globals : ~ Has(h, T)
  <2> SUFFICES ASSUME NEW T \in SUBSET Globals, Has(h, T) PROVE FALSE
    OBVIOUS
  <2>1. PICK q \in F : Ask(q, 0) \in T
    BY <1>8
  <2>2. Ask(q, 0).query.with = Everyone
    BY <2>1 DEF Globals
  <2> QED BY <1>2, <2>2 DEF Ask
<1>14. \A T : Has(c2s, T) \/ (\E q \in more : Ask(q, cursor) \in T) => Has(c2s', T)
  BY <1>7, <1>10
<1>15. \A T \in SUBSET Globals : Has(c2s', T) => Has(c2s, T) \/ \E q \in more : Ask(q, cursor) \in T
  BY <1>7, <1>10, <1>13
<1>16. queries' \subseteq Query /\ \A q \in queries' : q \in queries \cup more \/ q.with # Everyone
  BY <1>2, <1>5, <1>6
<1> QED BY <1>5, <1>6, <1>10, <1>11, <1>12, <1>14, <1>15, <1>16 DEF Opens

-------------------------------------------------------------------------------
\* What most actions have in common: a message is shown or not, an answer is taken,
\* a query is sent.

Grows == shown \subseteq shown' /\ horizon' \in Nat /\ horizon' >= horizon
         /\ purged' \in Nat /\ purged' >= purged

LEMMA CoveredGrows ==
    ASSUME HistoryTypes, Grows
    PROVE  \A n \in Msgs : Covered(n) => Covered(n)'
<1> SUFFICES ASSUME NEW n \in Msgs, Covered(n) PROVE Covered(n)'
  OBVIOUS
<1>1. n \in Nat
  BY Numbers
<1>2. horizon \in Nat /\ purged \in Nat
  BY DEF HistoryTypes
<1>3. shown \subseteq shown' /\ horizon' \in Nat /\ horizon' >= horizon
      /\ purged' \in Nat /\ purged' >= purged
  BY DEF Grows
<1> QED BY ONLY Covered(n), <1>1, <1>2, <1>3 DEF Covered

\* Lines of conversations that have a buffer.
LEMMA Showing ==
    ASSUME HistoryTypes, LinesInv, NEW old \in SUBSET DOMAIN archive,
           NEW new \in SUBSET DOMAIN archive, Show(old, new), archive' = archive,
           channels \subseteq channels', \A n \in old \cup new : archive[n] \in channels'
    PROVE  /\ LinesInv' /\ lines' \in [Msgs -> Nat] /\ tagged' \subseteq Msgs
           /\ shown' = shown \cup old \cup new /\ shown' \subseteq DOMAIN archive
           /\ \A n \in Msgs \ (old \cup new) : lines'[n] = lines[n]
           /\ \A n \in old : n \notin new => lines'[n] = lines[n] + 1
           /\ \A n \in new : n \notin old => lines'[n] = lines[n] + 1
           /\ tagged' = tagged \cup new
<1>1. /\ lines' = [n \in Msgs |-> lines[n] + (IF n \in old THEN 1 ELSE 0)
                                           + (IF n \in new THEN 1 ELSE 0)]
      /\ tagged' = tagged \cup new
      /\ shown' = shown \cup old \cup new
  BY DEF Show
<1>2. /\ lines \in [Msgs -> Nat] /\ tagged \subseteq Msgs /\ shown \subseteq DOMAIN archive
      /\ DOMAIN archive \subseteq Msgs
  BY Numbers DEF HistoryTypes
<1>3. /\ \A n \in Msgs : lines[n] > 0 => n \in shown /\ archive[n] \in channels
      /\ \A n \in tagged : lines[n] > 0
  BY DEF LinesInv, Stands
<1>4. \A n \in Msgs : /\ lines'[n] \in Nat
                      /\ n \notin old /\ n \notin new => lines'[n] = lines[n]
                      /\ n \in old /\ n \notin new => lines'[n] = lines[n] + 1
                      /\ n \in new /\ n \notin old => lines'[n] = lines[n] + 1
                      /\ n \in old \cup new => lines'[n] > 0
                      /\ lines'[n] >= lines[n]
  BY <1>1, <1>2
<1>5. lines' \in [Msgs -> Nat]
  BY <1>1, <1>4
<1>6. ASSUME NEW n \in Msgs, lines'[n] > 0 PROVE n \in shown' /\ archive'[n] \in channels'
  <2>1. CASE n \in old \cup new
    BY <1>1, <2>1
  <2>2. CASE n \notin old \cup new
    BY <1>1, <1>3, <1>4, <1>6, <2>2
  <2> QED BY <2>1, <2>2
<1>7. ASSUME NEW n \in tagged' PROVE lines'[n] > 0
  <2>1. n \in Msgs /\ lines'[n] \in Nat /\ lines[n] \in Nat
    BY <1>1, <1>2, <1>4
  <2> QED BY <1>1, <1>3, <1>4, <2>1
<1>8. LinesInv'
  BY <1>6, <1>7 DEF LinesInv, Stands
<1> QED BY <1>1, <1>2, <1>4, <1>5, <1>8

\* The first of the answers is taken, and what it brings is shown.
LEMMA Taking ==
    ASSUME HistoryTypes, Grows, s2c # <<>>, s2c' = Tail(s2c), archive' = archive,
           \A n \in Msgs : Head(s2c) \in Brings(n) => n \in shown'
    PROVE  /\ Head(s2c) \in ServerMsg /\ s2c' \in Seq(ServerMsg)
           /\ ArrivalInv => ArrivalInv'
           /\ \A n \in Msgs : Covered(n) \/ Preceded(s2c, Reaching(n), Result(n)) =>
                 /\ Head(s2c) \in Reaching(n) => Covered(n)
                 /\ Covered(n)' \/ Preceded(s2c', Reaching(n), Result(n))
           /\ \A n \in Msgs : OnItsWay(n) => OnItsWay(n)'
           /\ Has(s2c, Going) => Head(s2c) \in Going \/ Has(s2c', Going)
<1>1. s2c \in Seq(ServerMsg)
  BY DEF HistoryTypes
<1>2. PICK x : x = Head(s2c)
  OBVIOUS
<1>3. PICK t : t = Tail(s2c)
  OBVIOUS
<1>4. /\ x \in ServerMsg /\ t \in Seq(ServerMsg)
      /\ \A S : Has(s2c, S) <=> x \in S \/ Has(t, S)
      /\ \A A, S : Preceded(s2c, A, S) => x \notin A /\ (x \in S \/ Preceded(t, A, S))
  BY <1>1, <1>2, <1>3, Consumed
<1>5. ASSUME NEW n \in Msgs, x \in Brings(n) PROVE Covered(n)'
  BY <1>2, <1>5 DEF Covered
<1>6. \A n \in Msgs : Result(n) \subseteq Brings(n)
  BY DEF Result, Brings
<1>7. ArrivalInv => ArrivalInv'
  BY <1>3, <1>4 DEF ArrivalInv
<1>8. ASSUME NEW n \in Msgs, Covered(n) \/ Preceded(s2c, Reaching(n), Result(n))
      PROVE  /\ x \in Reaching(n) => Covered(n)
             /\ Covered(n)' \/ Preceded(t, Reaching(n), Result(n))
  BY <1>4, <1>5, <1>6, <1>8, CoveredGrows
<1>9. ASSUME NEW n \in Msgs, OnItsWay(n) PROVE Covered(n)' \/ Has(t, Brings(n))
  BY <1>4, <1>5, <1>9, CoveredGrows DEF OnItsWay
<1> QED BY <1>2, <1>3, <1>4, <1>7, <1>8, <1>9 DEF OnItsWay

\* The queries of N are sent: they leave out nothing, and start after what is covered.
LEMMA Sending ==
    ASSUME HistoryTypes, QueryInv, Grows, NEW N \in SUBSET ClientMsg,
           \A a \in N : ~ Partial(a.query, horizon') /\ \A n \in Msgs : n <= a.after => Covered(n)',
           \A q \in queries' : q \in queries \/ ~ Partial(q, horizon'), queries' \subseteq Query,
           \A T \in SUBSET Globals : Has(c2s', T) => Has(c2s, T) \/ \E a \in N : a \in T
    PROVE  QueryInv'
<1>1. horizon \in Nat /\ horizon' \in Nat /\ horizon' >= horizon
  BY DEF HistoryTypes, Grows
<1>2. \A q \in Query : ~ Partial(q, horizon) => ~ Partial(q, horizon')
  BY <1>1 DEF Partial, Query
<1>3. queries \subseteq Query
  BY DEF HistoryTypes
<1>4. \A q \in queries' : ~ Partial(q, horizon')
  BY <1>2, <1>3 DEF QueryInv
<1>5. Lacking(horizon') \subseteq Lacking(horizon)
  <2>1. \A a \in ClientMsg : a.query \in Query
    BY DEF ClientMsg
  <2> QED BY <1>2, <2>1 DEF Lacking
<1>6. Lacking(horizon') \in SUBSET Globals
  BY DEF Lacking, Globals, Partial
<1>7. ~ Has(c2s', Lacking(horizon'))
  <2>1. ~ Has(c2s, Lacking(horizon'))
    BY <1>5, FewerOf DEF QueryInv
  <2>2. \A a \in N : a \notin Lacking(horizon')
    BY DEF Lacking
  <2> QED BY <1>6, <2>1, <2>2
<1>8. ASSUME NEW n \in Msgs, Has(c2s', Passing(n)) PROVE Covered(n)'
  <2>1. Passing(n) \in SUBSET Globals
    BY DEF Passing
  <2>2. CASE Has(c2s, Passing(n))
    BY <2>2, CoveredGrows DEF QueryInv
  <2>3. CASE \E a \in N : a \in Passing(n)
    <3>1. PICK a \in N : a \in Passing(n)
      BY <2>3
    <3>2. a.after >= n /\ a.after \in Nat /\ n \in Nat
      BY <3>1, Numbers DEF Passing, ClientMsg
    <3> QED BY <3>1, <3>2
  <2> QED BY <1>8, <2>1, <2>2, <2>3
<1> QED BY <1>4, <1>7, <1>8 DEF QueryInv

\* Opening conversations alone asks nothing of the whole archive.
LEMMA Unasked ==
    ASSUME HistoryTypes, QueryInv, Grows, NEW S, Opens(S, {})
    PROVE  QueryInv'
<1>1. /\ \A q \in queries' : q \in queries \/ ~ Partial(q, horizon')
      /\ \A T \in SUBSET Globals : Has(c2s', T) => Has(c2s, T) \/ \E a \in {} : a \in T
      /\ queries' \subseteq Query
  BY DEF Opens, Partial
<1>2. {} \in SUBSET ClientMsg
  OBVIOUS
<1> QED BY <1>1, <1>2, Sending

-------------------------------------------------------------------------------
\* A message from the server.

LEMMA Arriving ==
    ASSUME HistoryInv, NEW kind \in {"live", "late", "result"}, Receive(kind)
    PROVE  /\ Head(s2c).n \in DOMAIN archive /\ archive[Head(s2c).n] \in Peers
           /\ Head(s2c) = [kind |-> kind, n |-> Head(s2c).n]
           /\ \A m \in Msgs : Head(s2c) \in Brings(m) => m = Head(s2c).n
           /\ Head(s2c) \notin Going
<1>1. PICK x : x = Head(s2c)
  OBVIOUS
<1>2. s2c \in Seq(ServerMsg) /\ s2c # <<>> /\ x.kind = kind
  BY <1>1 DEF HistoryInv, HistoryTypes, Receive
<1>3. x \in ServerMsg /\ \A S : x \in S => Has(s2c, S)
  BY <1>1, <1>2, Consumed
<1>4. x \in [kind : {"live", "late", "result"}, n : Msgs]
  BY <1>2, <1>3 DEF ServerMsg
<1>5. x = [kind |-> kind, n |-> x.n] /\ x.n \in Msgs
  BY <1>2, <1>4
<1>6. x.n \in DOMAIN archive
  <2>1. x \in Brings(x.n)
    BY <1>5 DEF Brings
  <2> QED BY <1>3, <1>5, <2>1 DEF HistoryInv, ArrivalInv
<1>7. \A m \in Msgs : x \in Brings(m) => m = x.n
  BY DEF Brings
<1>8. x \notin Going
  BY <1>2 DEF Going
<1> QED BY <1>1, <1>5, <1>6, <1>7, <1>8, Numbers DEF HistoryInv

\* It is shown, or was, and its conversation may be opened for it.
LEMMA Printing ==
    ASSUME HistoryInv, NEW kind \in {"live", "late", "result"}, Receive(kind),
           NEW S \in SUBSET Peers, Opens(S, {}),
           NEW old \in SUBSET DOMAIN archive, NEW new \in SUBSET DOMAIN archive, Show(old, new),
           \A n \in old \cup new : archive[n] \in channels',
           cache' \subseteq shown', Head(s2c).n \in shown',
           UNCHANGED <<up, cursor, server, horizon, refusals>>
    PROVE  HistoryInv'
<1>1. HistoryTypes /\ LinesInv /\ ArrivalInv /\ QueryInv /\ CursorInv /\ CatchupInv
  BY DEF HistoryInv
<1>2. /\ up' = up /\ cursor' = cursor /\ archive' = archive /\ purged' = purged
      /\ pushed' = pushed /\ held' = held /\ horizon' = horizon /\ refusals' = refusals
      /\ s2c # <<>> /\ s2c' = Tail(s2c) /\ channels \subseteq channels'
  BY DEF server, Receive, Opens
<1>3. /\ LinesInv' /\ lines' \in [Msgs -> Nat] /\ tagged' \subseteq Msgs
      /\ shown' = shown \cup old \cup new /\ shown' \subseteq DOMAIN archive
  BY <1>1, <1>2, Showing
<1>4. Grows
  BY <1>1, <1>2, <1>3 DEF Grows, HistoryTypes
<1>5. \A n \in Msgs : Head(s2c) \in Brings(n) => n \in shown'
  BY Arriving
<1>6. /\ Head(s2c) \in ServerMsg /\ s2c' \in Seq(ServerMsg)
      /\ ArrivalInv => ArrivalInv'
      /\ \A n \in Msgs : Covered(n) \/ Preceded(s2c, Reaching(n), Result(n)) =>
            /\ Head(s2c) \in Reaching(n) => Covered(n)
            /\ Covered(n)' \/ Preceded(s2c', Reaching(n), Result(n))
      /\ \A n \in Msgs : OnItsWay(n) => OnItsWay(n)'
      /\ Has(s2c, Going) => Head(s2c) \in Going \/ Has(s2c', Going)
  BY <1>1, <1>2, <1>4, <1>5, Taking
<1>7. HistoryTypes'
  BY <1>1, <1>2, <1>3, <1>6 DEF HistoryTypes, Opens
<1>8. QueryInv'
  BY <1>1, <1>4, Unasked
<1>9. CursorInv'
  BY <1>1, <1>2, <1>4, <1>6, CoveredGrows DEF CursorInv
<1>10. CatchupInv'
  <2>1. Has(c2s, Globals) => Has(c2s', Globals)
    BY DEF Opens
  <2>2. Head(s2c) \notin Going
    BY Arriving
  <2> QED BY <1>1, <1>2, <1>6, <2>1, <2>2, Numbers DEF CatchupInv
<1> QED BY <1>1, <1>3, <1>6, <1>7, <1>8, <1>9, <1>10 DEF HistoryInv

\* What the cache shows of conversations that are opened.
LEMMA Loading ==
    ASSUME HistoryTypes, NEW S, NEW ts
    PROVE  /\ Loaded(S, ts) \subseteq cache /\ Loaded(S, ts) \in SUBSET DOMAIN archive
           /\ \A n \in Loaded(S, ts) : archive[n] \in S
           /\ Kept(S) \subseteq cache
           /\ \A n \in DOMAIN archive : archive[n] \in S => n \notin Kept(S)
BY DEF HistoryTypes, Loaded, Kept, Of

LEMMA Opened ==
    ASSUME HistoryTypes, NEW S \in SUBSET Peers, IsFiniteSet(S), NEW ts \in [Peers -> Int],
           Open(S, ts, {})
    PROVE  Opens(S, {})
<1>1. {} \in SUBSET Query /\ IsFiniteSet({})
  BY FS_EmptySet
<1> QED BY <1>1, Opening

\* A message opens at most its own conversation.
LEMMA OneOpened ==
    ASSUME NEW p \in Peers
    PROVE  /\ {p} \ channels \in SUBSET Peers /\ IsFiniteSet({p} \ channels)
           /\ {p} \in SUBSET Peers /\ IsFiniteSet({p})
<1>1. IsFiniteSet({p}) /\ {p} \ channels \subseteq {p}
  BY FS_Singleton
<1> QED BY <1>1, FS_Subset

LEMMA OnLiveStep ==
    ASSUME HistoryInv, OnLive
    PROVE  HistoryInv'
<1>1. PICK n : n = Head(s2c).n
  OBVIOUS
<1>2. PICK S : S = {archive[n]} \ channels
  OBVIOUS
<1>3. /\ Receive("live") /\ Open(S, lastTs, {}) /\ Show(Loaded(S, lastTs), {n})
      /\ cache' = Kept(S) /\ UNCHANGED <<up, cursor, server, horizon, refusals>>
  BY <1>1, <1>2 DEF OnLive, used
<1>4. n \in DOMAIN archive /\ archive[n] \in Peers
  BY <1>1, <1>3, Arriving
<1>5. HistoryTypes /\ lastTs \in [Peers -> Int] /\ cache \subseteq shown
  BY DEF HistoryInv, HistoryTypes
<1>6. S \in SUBSET Peers /\ Opens(S, {}) /\ channels' = channels \cup {archive[n]}
  <2>1. S \in SUBSET Peers /\ IsFiniteSet(S)
    BY <1>2, <1>4, OneOpened
  <2>2. Opens(S, {})
    BY <1>3, <1>5, <2>1, Opened
  <2> QED BY <1>2, <2>1, <2>2 DEF Opens
<1>7. /\ Loaded(S, lastTs) \in SUBSET DOMAIN archive /\ {n} \in SUBSET DOMAIN archive
      /\ \A m \in Loaded(S, lastTs) \cup {n} : archive[m] \in channels'
      /\ cache' \subseteq shown' /\ n \in shown'
  <2>1. shown' = shown \cup Loaded(S, lastTs) \cup {n}
    BY <1>3 DEF Show
  <2> QED BY <1>2, <1>3, <1>4, <1>5, <1>6, <2>1, Loading
<1> QED BY <1>1, <1>3, <1>6, <1>7, Printing

LEMMA OnLateStep ==
    ASSUME HistoryInv, OnLate
    PROVE  HistoryInv'
<1>1. PICK n : n = Head(s2c).n
  OBVIOUS
<1>2. PICK S : S = {archive[n]} \ channels
  OBVIOUS
<1>3. PICK new : new = IF Redelivered(n) THEN {} ELSE {n}
  OBVIOUS
<1>4. /\ Receive("late") /\ Open(S, lastTs, {}) /\ Show(Loaded(S, lastTs), new)
      /\ cache' = Kept(S) /\ UNCHANGED <<up, cursor, server, horizon, refusals>>
  BY <1>1, <1>2, <1>3 DEF OnLate, used
<1>5. n \in DOMAIN archive /\ archive[n] \in Peers
  BY <1>1, <1>4, Arriving
<1>6. /\ HistoryTypes /\ lastTs \in [Peers -> Int] /\ cache \subseteq shown
      /\ tagged \subseteq Msgs /\ lines \in [Msgs -> Nat]
  BY DEF HistoryInv, HistoryTypes
<1>7. S \in SUBSET Peers /\ Opens(S, {}) /\ channels' = channels \cup {archive[n]}
  <2>1. S \in SUBSET Peers /\ IsFiniteSet(S)
    BY <1>2, <1>5, OneOpened
  <2>2. Opens(S, {})
    BY <1>4, <1>6, <2>1, Opened
  <2> QED BY <1>2, <2>1, <2>2 DEF Opens
<1>8. n \in shown \cup new
  <2>1. CASE n \in tagged
    BY <1>6, <2>1 DEF HistoryInv, LinesInv, Stands
  <2>2. CASE n \notin tagged
    BY <1>3, <2>2 DEF Redelivered
  <2> QED BY <2>1, <2>2
<1>9. /\ Loaded(S, lastTs) \in SUBSET DOMAIN archive /\ new \in SUBSET DOMAIN archive
      /\ \A m \in Loaded(S, lastTs) \cup new : archive[m] \in channels'
      /\ cache' \subseteq shown' /\ n \in shown'
  <2>1. shown' = shown \cup Loaded(S, lastTs) \cup new
    BY <1>4 DEF Show
  <2> QED BY <1>2, <1>3, <1>4, <1>5, <1>6, <1>7, <1>8, <2>1, Loading
<1> QED BY <1>1, <1>4, <1>7, <1>9, Printing

LEMMA OnResultStep ==
    ASSUME HistoryInv, OnResult
    PROVE  HistoryInv'
<1>1. PICK n : n = Head(s2c).n
  OBVIOUS
<1>2. PICK new : new = IF Known(n, {}) THEN {} ELSE {n}
  OBVIOUS
<1>3. /\ Receive("result") /\ archive[n] \in channels /\ cache' = cache \cup {n} /\ Show({}, new)
      /\ UNCHANGED <<up, cursor, server, horizon, refusals>>
      /\ UNCHANGED <<channels, queries, lastTs, pmOpen, c2s>>
  BY <1>1, <1>2 DEF OnResult, used
<1>4. n \in DOMAIN archive /\ archive[n] \in Peers /\ n \in Msgs
  BY <1>1, <1>3, Arriving, Numbers DEF HistoryInv
<1>5. HistoryTypes /\ cache \subseteq shown
  BY DEF HistoryInv, HistoryTypes
<1>6. Opens({}, {})
  BY <1>3, <1>5 DEF Opens, HistoryTypes
<1>7. n \in shown \cup new
  <2>1. CASE lines[n] > 0
    BY <1>4, <2>1 DEF HistoryInv, LinesInv, Stands
  <2>2. CASE ~ (lines[n] > 0)
    BY <1>2, <2>2 DEF Known
  <2> QED BY <2>1, <2>2
<1>8. /\ new \in SUBSET DOMAIN archive /\ \A m \in {} \cup new : archive[m] \in channels'
      /\ cache' \subseteq shown' /\ n \in shown'
  <2>1. shown' = shown \cup {} \cup new
    BY <1>3 DEF Show
  <2> QED BY <1>2, <1>3, <1>4, <1>5, <1>7, <2>1
<1>9. {} \in SUBSET Peers /\ {} \in SUBSET DOMAIN archive
  OBVIOUS
<1> QED BY <1>1, <1>3, <1>6, <1>8, <1>9, Printing

LEMMA OnDiscoveryStep ==
    ASSUME HistoryInv, OnDiscovery
    PROVE  HistoryInv'
<1>1. PICK n : n = Head(s2c).n
  OBVIOUS
<1>2. PICK S : S = {archive[n]}
  OBVIOUS
<1>3. PICK old : old = Loaded(S, lastTs)
  OBVIOUS
<1>4. PICK new : new = IF Known(n, old) THEN {} ELSE {n}
  OBVIOUS
<1>5. /\ Receive("result") /\ Open(S, lastTs, {}) /\ Show(old, new)
      /\ cache' = Kept(S) \cup {n} /\ UNCHANGED <<up, cursor, server, horizon, refusals>>
  BY <1>1, <1>2, <1>3, <1>4 DEF OnDiscovery, used
<1>6. n \in DOMAIN archive /\ archive[n] \in Peers /\ n \in Msgs
  BY <1>1, <1>5, Arriving, Numbers DEF HistoryInv
<1>7. HistoryTypes /\ lastTs \in [Peers -> Int] /\ cache \subseteq shown
  BY DEF HistoryInv, HistoryTypes
<1>8. S \in SUBSET Peers /\ Opens(S, {}) /\ channels' = channels \cup {archive[n]}
  <2>1. S \in SUBSET Peers /\ IsFiniteSet(S)
    BY <1>2, <1>6, OneOpened
  <2>2. Opens(S, {})
    BY <1>5, <1>7, <2>1, Opened
  <2> QED BY <1>2, <2>1, <2>2 DEF Opens
<1>9. n \in shown \cup old \cup new
  <2>1. CASE lines[n] > 0
    BY <1>6, <2>1 DEF HistoryInv, LinesInv, Stands
  <2>2. CASE ~ (lines[n] > 0)
    BY <1>4, <2>2 DEF Known
  <2> QED BY <2>1, <2>2
<1>10. /\ old \in SUBSET DOMAIN archive /\ new \in SUBSET DOMAIN archive
       /\ \A m \in old \cup new : archive[m] \in channels'
       /\ cache' \subseteq shown' /\ n \in shown'
  <2>1. shown' = shown \cup old \cup new
    BY <1>5 DEF Show
  <2> QED BY <1>2, <1>3, <1>4, <1>5, <1>6, <1>7, <1>8, <1>9, <2>1, Loading
<1> QED BY <1>1, <1>5, <1>8, <1>10, Printing

LEMMA OnReplayToClosedStep ==
    ASSUME HistoryInv, OnReplayToClosed
    PROVE  HistoryInv'
<1>1. PICK n : n = Head(s2c).n
  OBVIOUS
<1>2. PICK S : S = {archive[n]}
  OBVIOUS
<1>3. /\ Receive("result") /\ Open(S, lastTs, {}) /\ Show({}, {n})
      /\ cache' = Kept(S) /\ UNCHANGED <<up, cursor, server, horizon, refusals>>
  BY <1>1, <1>2 DEF OnReplayToClosed, used
<1>4. n \in DOMAIN archive /\ archive[n] \in Peers
  BY <1>1, <1>3, Arriving
<1>5. HistoryTypes /\ lastTs \in [Peers -> Int] /\ cache \subseteq shown
  BY DEF HistoryInv, HistoryTypes
<1>6. S \in SUBSET Peers /\ Opens(S, {}) /\ channels' = channels \cup {archive[n]}
  <2>1. S \in SUBSET Peers /\ IsFiniteSet(S)
    BY <1>2, <1>4, OneOpened
  <2>2. Opens(S, {})
    BY <1>3, <1>5, <2>1, Opened
  <2> QED BY <1>2, <2>1, <2>2 DEF Opens
<1>7. /\ {n} \in SUBSET DOMAIN archive /\ {} \in SUBSET DOMAIN archive
      /\ \A m \in {} \cup {n} : archive[m] \in channels'
      /\ cache' \subseteq shown' /\ n \in shown'
  <2>1. shown' = shown \cup {} \cup {n}
    BY <1>3 DEF Show
  <2> QED BY <1>2, <1>3, <1>4, <1>5, <1>6, <2>1, Loading
<1> QED BY <1>1, <1>3, <1>6, <1>7, Printing

-------------------------------------------------------------------------------
\* The user, and the answers to queries.

LEMMA Resting ==
    ASSUME HistoryTypes, Grows, s2c' = s2c, archive' = archive
    PROVE  /\ ArrivalInv => ArrivalInv'
           /\ \A n \in Msgs : Covered(n) \/ Preceded(s2c, Reaching(n), Result(n)) =>
                 Covered(n)' \/ Preceded(s2c', Reaching(n), Result(n))
           /\ \A n \in Msgs : OnItsWay(n) => OnItsWay(n)'
BY CoveredGrows DEF ArrivalInv, OnItsWay

LEMMA UserOpenStep ==
    ASSUME HistoryInv, NEW p \in Peers, UserOpen(p)
    PROVE  HistoryInv'
<1>1. HistoryTypes /\ LinesInv /\ ArrivalInv /\ QueryInv /\ CursorInv /\ CatchupInv
  BY DEF HistoryInv
<1>2. PICK ts : ts = [lastTs EXCEPT ![p] = Unknown]
  OBVIOUS
<1>3. ts \in [Peers -> Int] /\ {p} \in SUBSET Peers /\ IsFiniteSet({p})
  <2>1. ts \in [Peers -> Int]
    BY <1>1, <1>2 DEF HistoryTypes, Unknown
  <2> QED BY <2>1, OneOpened
<1>4. /\ Open({p}, ts, {}) /\ cache' = Kept({p}) /\ up' = up /\ cursor' = cursor
      /\ lines' = lines /\ tagged' = tagged /\ s2c' = s2c /\ archive' = archive
      /\ purged' = purged /\ pushed' = pushed /\ held' = held /\ shown' = shown
      /\ horizon' = horizon /\ refusals' = refusals
  BY <1>2 DEF UserOpen, server
<1>5. Opens({p}, {})
  BY <1>1, <1>3, <1>4, Opened
<1>6. Grows
  BY <1>1, <1>4 DEF Grows, HistoryTypes
<1>7. /\ ArrivalInv'
      /\ \A n \in Msgs : Covered(n) \/ Preceded(s2c, Reaching(n), Result(n)) =>
            Covered(n)' \/ Preceded(s2c', Reaching(n), Result(n))
      /\ \A n \in Msgs : OnItsWay(n) => OnItsWay(n)'
  BY <1>1, <1>4, <1>6, Resting
<1>8. HistoryTypes'
  BY <1>1, <1>4, <1>5, Loading DEF HistoryTypes, Opens
<1>9. LinesInv'
  BY <1>1, <1>4, <1>5 DEF LinesInv, Stands, Opens
<1>10. QueryInv'
  BY <1>1, <1>5, <1>6, Unasked
<1>11. CursorInv'
  BY <1>1, <1>4, <1>6, <1>7, CoveredGrows DEF CursorInv
<1>12. CatchupInv'
  <2>1. Has(c2s, Globals) => Has(c2s', Globals)
    BY <1>5 DEF Opens
  <2> QED BY <1>1, <1>4, <1>7, <2>1, Numbers DEF CatchupInv
<1> QED BY <1>7, <1>8, <1>9, <1>10, <1>11, <1>12 DEF HistoryInv

LEMMA UserCloseStep ==
    ASSUME HistoryInv, NEW p \in Peers, UserClose(p)
    PROVE  HistoryInv'
<1>1. HistoryTypes /\ LinesInv /\ ArrivalInv /\ QueryInv /\ CursorInv /\ CatchupInv
  BY DEF HistoryInv
<1>2. /\ channels' = channels \ {p} /\ cache' = Kept({p}) /\ pmOpen' = pmOpen \ {p}
      /\ lines' = [n \in Msgs |-> IF n \in Of({p}) THEN 0 ELSE lines[n]]
      /\ tagged' = tagged \ Of({p}) /\ lastTs' = [lastTs EXCEPT ![p] = Closed]
      /\ up' = up /\ cursor' = cursor /\ queries' = queries /\ c2s' = c2s
      /\ s2c' = s2c /\ archive' = archive
      /\ purged' = purged /\ pushed' = pushed /\ held' = held /\ shown' = shown
      /\ horizon' = horizon /\ refusals' = refusals
  BY DEF UserClose, server
<1>3. Grows
  BY <1>1, <1>2 DEF Grows, HistoryTypes
<1>4. /\ ArrivalInv'
      /\ \A n \in Msgs : Covered(n) \/ Preceded(s2c, Reaching(n), Result(n)) =>
            Covered(n)' \/ Preceded(s2c', Reaching(n), Result(n))
      /\ \A n \in Msgs : OnItsWay(n) => OnItsWay(n)'
  BY <1>1, <1>2, <1>3, Resting
<1>5. HistoryTypes'
  <2>1. IsFiniteSet(pmOpen')
    BY <1>1, <1>2, FS_Difference DEF HistoryTypes
  <2>2. lastTs' \in [Peers -> Int]
    BY <1>1, <1>2 DEF HistoryTypes, Closed
  <2>3. lines' \in [Msgs -> Nat]
    BY <1>1, <1>2 DEF HistoryTypes
  <2> QED BY <1>1, <1>2, <2>1, <2>2, <2>3, Loading DEF HistoryTypes
<1>6. LinesInv'
  <2>1. lines \in [Msgs -> Nat] /\ shown \subseteq DOMAIN archive /\ tagged \subseteq Msgs
    BY <1>1 DEF HistoryTypes
  <2>2. ASSUME NEW n \in Msgs, lines'[n] > 0 PROVE n \in shown' /\ archive'[n] \in channels'
    <3>1. n \notin Of({p}) /\ lines[n] > 0
      BY <1>2, <2>2
    <3>2. n \in shown /\ archive[n] \in channels
      BY <1>1, <3>1 DEF LinesInv, Stands
    <3>3. archive[n] # p
      BY <2>1, <3>1, <3>2 DEF Of
    <3> QED BY <1>2, <3>2, <3>3
  <2>3. ASSUME NEW n \in tagged' PROVE lines'[n] > 0
    BY <1>1, <1>2, <2>1 DEF LinesInv
  <2> QED BY <2>2, <2>3 DEF LinesInv, Stands
<1>7. QueryInv'
  BY <1>1, <1>2, <1>3, CoveredGrows DEF QueryInv
<1>8. CursorInv'
  BY <1>1, <1>2, <1>3, <1>4, CoveredGrows DEF CursorInv
<1>9. CatchupInv'
  BY <1>1, <1>2, <1>4, Numbers DEF CatchupInv
<1> QED BY <1>4, <1>5, <1>6, <1>7, <1>8, <1>9 DEF HistoryInv

\* The answer to a query is taken; the queries of N are sent.
LEMMA Answering ==
    ASSUME HistoryInv, s2c # <<>>, s2c' = Tail(s2c), Head(s2c).kind \in {"fin", "refused"},
           UNCHANGED <<up, channels, lines, tagged, cache, server, history, refusals>>,
           queries' \subseteq Query, IsFiniteSet(queries'), c2s' \in Seq(ClientMsg),
           lastTs' \in [Peers -> Int], pmOpen' \subseteq Peers, IsFiniteSet(pmOpen'),
           cursor' \in 0..MaxMsgs, \A n \in Msgs : n <= cursor' => Covered(n),
           NEW N \in SUBSET ClientMsg,
           \A a \in N : ~ Partial(a.query, horizon) /\ \A n \in Msgs : n <= a.after => Covered(n),
           \A q \in queries' : q \in queries \/ ~ Partial(q, horizon),
           \A T \in SUBSET Globals : Has(c2s', T) => Has(c2s, T) \/ \E a \in N : a \in T,
           Has(c2s, Globals) => Has(c2s', Globals), Head(s2c) \in Going => Has(c2s', Globals)
    PROVE  HistoryInv'
<1>1. HistoryTypes /\ LinesInv /\ ArrivalInv /\ QueryInv /\ CursorInv /\ CatchupInv
  BY DEF HistoryInv
<1>2. /\ up' = up /\ channels' = channels /\ lines' = lines /\ tagged' = tagged
      /\ cache' = cache /\ archive' = archive /\ purged' = purged /\ pushed' = pushed
      /\ held' = held /\ shown' = shown /\ horizon' = horizon /\ refusals' = refusals
  BY DEF server, history
<1>3. Grows
  BY <1>1, <1>2 DEF Grows, HistoryTypes
<1>4. \A n \in Msgs : Head(s2c) \in Brings(n) => n \in shown'
  BY DEF Brings
<1>5. /\ s2c' \in Seq(ServerMsg) /\ ArrivalInv'
      /\ \A n \in Msgs : Covered(n) \/ Preceded(s2c, Reaching(n), Result(n)) =>
            Covered(n)' \/ Preceded(s2c', Reaching(n), Result(n))
      /\ \A n \in Msgs : OnItsWay(n) => OnItsWay(n)'
      /\ Has(s2c, Going) => Head(s2c) \in Going \/ Has(s2c', Going)
  BY <1>1, <1>2, <1>3, <1>4, Taking
<1>6. HistoryTypes'
  BY <1>1, <1>2, <1>5 DEF HistoryTypes
<1>7. LinesInv'
  BY <1>1, <1>2 DEF LinesInv, Stands
<1>8. \A n \in Msgs : Covered(n)' <=> Covered(n)
  BY <1>2 DEF Covered
<1>9. QueryInv'
  <2>1. \A a \in N : ~ Partial(a.query, horizon') /\ \A n \in Msgs : n <= a.after => Covered(n)'
    BY <1>2, <1>8
  <2>2. \A q \in queries' : q \in queries \/ ~ Partial(q, horizon')
    BY <1>2
  <2> QED BY <1>1, <1>3, <2>1, <2>2, Sending
<1>10. CursorInv'
  BY <1>1, <1>5, <1>8 DEF CursorInv
<1>11. CatchupInv'
  BY <1>1, <1>2, <1>5, Numbers DEF CatchupInv
<1> QED BY <1>5, <1>6, <1>7, <1>9, <1>10, <1>11 DEF HistoryInv

\* A <fin/>, and the query it answers.
LEMMA Finishing ==
    ASSUME HistoryInv, Receive("fin"), NEW q \in Answered(Head(s2c))
    PROVE  /\ s2c # <<>> /\ s2c' = Tail(s2c) /\ Head(s2c).kind \in {"fin", "refused"}
           /\ Head(s2c).last \in 0..MaxMsgs
           /\ q \in queries /\ q \in Query /\ q.with = Head(s2c).with
           /\ ~ Partial(q, horizon)
           /\ Head(s2c).with = Everyone =>
                 /\ Head(s2c) \in Going <=> MorePages(Head(s2c))
                 /\ \A n \in Msgs : n <= Head(s2c).last => Covered(n)
           /\ Head(s2c).with # Everyone => Head(s2c) \notin Going
<1>1. PICK x : x = Head(s2c)
  OBVIOUS
<1>2. s2c \in Seq(ServerMsg) /\ s2c # <<>> /\ x.kind = "fin" /\ s2c' = Tail(s2c)
  BY <1>1 DEF HistoryInv, HistoryTypes, Receive
<1>3. x \in ServerMsg /\ \A A, S : Preceded(s2c, A, S) => x \notin A
  BY <1>1, <1>2, Consumed
<1>4. x.last \in 0..MaxMsgs
  BY <1>2, <1>3 DEF ServerMsg
<1>5. q \in queries /\ q \in Query /\ q.with = x.with /\ ~ Partial(q, horizon)
  BY <1>1 DEF Answered, HistoryInv, HistoryTypes, QueryInv
<1>6. ASSUME x.with = Everyone, NEW n \in Msgs, n <= x.last PROVE Covered(n)
  <2>1. x.last >= n
    BY <1>4, <1>6, BoundsAssumption DEF Msgs
  <2>2. x \in Reaching(n)
    BY <1>2, <1>3, <1>6, <2>1 DEF Reaching
  <2> QED BY <1>3, <2>2 DEF HistoryInv, CursorInv
<1>7. (x.with = Everyone => (x \in Going <=> MorePages(x))) /\ (x.with # Everyone => x \notin Going)
  BY <1>2, <1>3 DEF Going
<1> QED BY <1>1, <1>2, <1>4, <1>5, <1>6, <1>7

LEMMA Queries ==
    ASSUME HistoryTypes, NEW R \in SUBSET queries
    PROVE  IsFiniteSet(R) /\ R \subseteq Query
BY FS_Subset DEF HistoryTypes

\* A query appended to the channel.
LEMMA AskAppended ==
    ASSUME HistoryTypes, NEW q \in Query, NEW last \in 0..MaxMsgs
    PROVE  /\ Ask(q, last) \in ClientMsg /\ Append(c2s, Ask(q, last)) \in Seq(ClientMsg)
           /\ \A T : Has(Append(c2s, Ask(q, last)), T) <=> Has(c2s, T) \/ Ask(q, last) \in T
<1>1. PICK a : a = Ask(q, last)
  OBVIOUS
<1>2. a \in ClientMsg /\ c2s \in Seq(ClientMsg)
  BY <1>1 DEF Ask, ClientMsg, HistoryTypes
<1>3. Append(c2s, a) = c2s \o <<a>> /\ <<a>> \in Seq(ClientMsg)
  BY <1>2, Appended
<1>4. \A T : Has(<<a>>, T) <=> a \in T
  BY Single
<1>5. /\ c2s \o <<a>> \in Seq(ClientMsg)
      /\ \A T : Has(c2s \o <<a>>, T) <=> Has(c2s, T) \/ Has(<<a>>, T)
  BY <1>2, <1>3, Concatenated
<1> QED BY <1>1, <1>2, <1>3, <1>4, <1>5

LEMMA OnFinStep ==
    ASSUME HistoryInv, OnFin
    PROVE  HistoryInv'
<1>1. PICK m : m = Head(s2c)
  OBVIOUS
<1>2. PICK q \in Answered(m) :
         \/ /\ q.with \in channels /\ MorePages(m)
            /\ c2s' = Append(c2s, Ask(q, m.last))
            /\ UNCHANGED <<lastTs, pmOpen, queries>>
         \/ /\ q.with \in channels /\ ~MorePages(m)
            /\ lastTs' = [lastTs EXCEPT ![q.with] = Now]
            /\ pmOpen' = pmOpen \cup {q.with}
            /\ queries' = queries \ {q}
            /\ UNCHANGED c2s
         \/ /\ q.with \notin channels
            /\ queries' = IF m.last = 0 THEN queries \ {q} ELSE queries
            /\ UNCHANGED <<lastTs, pmOpen, c2s>>
  BY <1>1 DEF OnFin
<1>3. /\ Receive("fin") /\ m.with # Everyone /\ cursor' = cursor
      /\ UNCHANGED <<up, channels, lines, tagged, cache, server, history, refusals>>
  BY <1>1 DEF OnFin, history, used
<1>4. /\ s2c # <<>> /\ s2c' = Tail(s2c) /\ m.kind \in {"fin", "refused"} /\ m.last \in 0..MaxMsgs
      /\ q \in queries /\ q \in Query /\ q.with = m.with /\ ~ Partial(q, horizon) /\ m \notin Going
  BY <1>1, <1>2, <1>3, Finishing
<1>5. HistoryTypes /\ \A n \in Msgs : n <= cursor => Covered(n)
  BY DEF HistoryInv, CursorInv
<1>6. /\ queries \subseteq Query /\ IsFiniteSet(queries) /\ c2s \in Seq(ClientMsg)
      /\ lastTs \in [Peers -> Int] /\ pmOpen \subseteq Peers /\ IsFiniteSet(pmOpen)
      /\ cursor \in 0..MaxMsgs
  BY <1>5 DEF HistoryTypes
<1>7. q.with \in Peers
  BY <1>3, <1>4 DEF Query, Conversations
<1>8. \/ queries' = queries
      \/ queries' = queries \ {q}
  BY <1>2
<1>9. queries' \subseteq queries /\ queries' \subseteq Query /\ IsFiniteSet(queries')
  BY <1>5, <1>8, Queries
<1>10. lastTs' \in [Peers -> Int]
  BY <1>2, <1>5, <1>6, Numbers
<1>11. pmOpen' \subseteq Peers /\ IsFiniteSet(pmOpen')
  <2>1. IsFiniteSet(pmOpen \cup {q.with})
    BY <1>6, FS_AddElement
  <2> QED BY <1>2, <1>6, <1>7, <2>1
<1>12. /\ c2s' \in Seq(ClientMsg)
       /\ \A T : Has(c2s, T) => Has(c2s', T)
       /\ \A T \in SUBSET Globals : Has(c2s', T) => Has(c2s, T)
  <2>1. CASE c2s' = c2s
    BY <1>6, <2>1
  <2>2. CASE c2s' = Append(c2s, Ask(q, m.last))
    <3>1. /\ c2s' \in Seq(ClientMsg)
          /\ \A T : Has(c2s', T) <=> Has(c2s, T) \/ Ask(q, m.last) \in T
      BY <1>4, <1>5, <2>2, AskAppended
    <3>2. Ask(q, m.last) \notin Globals
      BY <1>3, <1>4 DEF Ask, Globals
    <3> QED BY <3>1, <3>2
  <2> QED BY <1>2, <2>1, <2>2
<1>13. /\ {} \in SUBSET ClientMsg /\ \A x \in queries' : x \in queries \/ ~ Partial(x, horizon)
       /\ \A T \in SUBSET Globals : Has(c2s', T) => Has(c2s, T) \/ \E a \in {} : a \in T
  BY <1>9, <1>12
<1>14. cursor' \in 0..MaxMsgs /\ \A n \in Msgs : n <= cursor' => Covered(n)
  BY <1>3, <1>5, <1>6
<1> QED BY <1>1, <1>3, <1>4, <1>9, <1>10, <1>11, <1>12, <1>13, <1>14, Answering

LEMMA OnGlobalFinStep ==
    ASSUME HistoryInv, OnGlobalFin
    PROVE  HistoryInv'
<1>1. PICK m : m = Head(s2c)
  OBVIOUS
<1>2. PICK q \in Answered(m) :
         /\ cursor' = IF m.last # 0 THEN m.last ELSE cursor
         /\ \/ /\ MorePages(m)
               /\ LET next == [q EXCEPT !.nr = Fresh(Everyone)]
                  IN  /\ queries' = (queries \ {q}) \cup {next}
                      /\ c2s' = Append(c2s, Ask(next, m.last))
            \/ /\ ~MorePages(m)
               /\ queries' = queries \ {q}
               /\ UNCHANGED c2s
  BY <1>1 DEF OnGlobalFin
<1>3. /\ Receive("fin") /\ m.with = Everyone
      /\ UNCHANGED <<up, channels, lines, tagged, cache, server, history, refusals>>
      /\ lastTs' = lastTs /\ pmOpen' = pmOpen
  BY <1>1 DEF OnGlobalFin, used
<1>4. /\ s2c # <<>> /\ s2c' = Tail(s2c) /\ m.kind \in {"fin", "refused"} /\ m.last \in 0..MaxMsgs
      /\ q \in queries /\ q \in Query /\ q.with = Everyone /\ ~ Partial(q, horizon)
      /\ m \in Going <=> MorePages(m)
      /\ \A n \in Msgs : n <= m.last => Covered(n)
  BY <1>1, <1>2, <1>3, Finishing
<1>5. HistoryTypes /\ \A n \in Msgs : n <= cursor => Covered(n)
  BY DEF HistoryInv, CursorInv
<1>6. /\ queries \subseteq Query /\ IsFiniteSet(queries) /\ c2s \in Seq(ClientMsg)
      /\ lastTs \in [Peers -> Int] /\ pmOpen \subseteq Peers /\ IsFiniteSet(pmOpen)
      /\ cursor \in 0..MaxMsgs
  BY <1>5 DEF HistoryTypes
<1>7. cursor' \in 0..MaxMsgs /\ \A n \in Msgs : n <= cursor' => Covered(n)
  BY <1>2, <1>4, <1>5, <1>6
<1>8. IsFiniteSet(queries \ {q}) /\ queries \ {q} \subseteq Query
  BY <1>5, Queries
<1>9. CASE MorePages(m)
  <2>1. PICK next : next = [q EXCEPT !.nr = Fresh(Everyone)]
    OBVIOUS
  <2>2. queries' = (queries \ {q}) \cup {next} /\ c2s' = Append(c2s, Ask(next, m.last))
    BY <1>2, <1>9, <2>1
  <2>3. next \in Query /\ next.with = Everyone /\ ~ Partial(next, horizon)
    <3>1. Fresh(Everyone) \in Nat
      BY <1>5, FreshNumber
    <3> QED BY <1>4, <2>1, <3>1 DEF Query, Partial
  <2>4. /\ Ask(next, m.last) \in ClientMsg /\ c2s' \in Seq(ClientMsg)
        /\ \A T : Has(c2s', T) <=> Has(c2s, T) \/ Ask(next, m.last) \in T
    BY <1>4, <1>5, <2>2, <2>3, AskAppended
  <2>5. PICK N : N = {Ask(next, m.last)}
    OBVIOUS
  <2>6. /\ N \in SUBSET ClientMsg
        /\ \A a \in N : ~ Partial(a.query, horizon) /\ \A n \in Msgs : n <= a.after => Covered(n)
        /\ \A T \in SUBSET Globals : Has(c2s', T) => Has(c2s, T) \/ \E a \in N : a \in T
    BY <1>4, <2>3, <2>4, <2>5 DEF Ask
  <2>7. Has(c2s', Globals)
    <3>1. Ask(next, m.last) \in Globals
      BY <2>3, <2>4 DEF Ask, Globals
    <3> QED BY <2>4, <3>1
  <2>8. queries' \subseteq Query /\ IsFiniteSet(queries')
    BY <1>8, <2>2, <2>3, FS_AddElement
  <2>9. \A x \in queries' : x \in queries \/ ~ Partial(x, horizon)
    BY <2>2, <2>3
  <2> QED BY <1>1, <1>3, <1>4, <1>6, <1>7, <2>4, <2>6, <2>7, <2>8, <2>9, Answering
<1>10. CASE ~ MorePages(m)
  <2>1. queries' = queries \ {q} /\ c2s' = c2s /\ m \notin Going
    BY <1>2, <1>4, <1>10
  <2>2. /\ {} \in SUBSET ClientMsg /\ \A x \in queries' : x \in queries \/ ~ Partial(x, horizon)
        /\ \A T \in SUBSET Globals : Has(c2s', T) => Has(c2s, T) \/ \E a \in {} : a \in T
    BY <2>1
  <2> QED BY <1>1, <1>3, <1>4, <1>6, <1>7, <1>8, <2>1, <2>2, Answering
<1> QED BY <1>9, <1>10

LEMMA OnRefusedStep ==
    ASSUME HistoryInv, OnRefused
    PROVE  HistoryInv'
<1>1. HistoryTypes /\ \A n \in Msgs : n <= cursor => Covered(n)
  BY DEF HistoryInv, CursorInv
<1>2. /\ s2c # <<>> /\ s2c' = Tail(s2c) /\ Head(s2c).kind = "refused"
      /\ queries' = queries \ Answered(Head(s2c))
      /\ UNCHANGED <<up, channels, lines, tagged, cache, server, history, refusals>>
      /\ lastTs' = lastTs /\ pmOpen' = pmOpen /\ cursor' = cursor /\ c2s' = c2s
  BY DEF OnRefused, Receive, disk, used, HistoryInv, HistoryTypes
<1>3. queries' \subseteq queries /\ queries' \subseteq Query /\ IsFiniteSet(queries')
  BY <1>1, <1>2, Queries
<1>4. /\ lastTs' \in [Peers -> Int] /\ pmOpen' \subseteq Peers /\ IsFiniteSet(pmOpen')
      /\ cursor' \in 0..MaxMsgs /\ c2s' \in Seq(ClientMsg)
      /\ \A n \in Msgs : n <= cursor' => Covered(n)
  BY <1>1, <1>2 DEF HistoryTypes
<1>5. Head(s2c) \notin Going /\ Head(s2c).kind \in {"fin", "refused"}
  BY <1>2 DEF Going
<1>6. /\ {} \in SUBSET ClientMsg /\ \A x \in queries' : x \in queries \/ ~ Partial(x, horizon)
      /\ \A T \in SUBSET Globals : Has(c2s', T) => Has(c2s, T) \/ \E a \in {} : a \in T
  BY <1>2, <1>3
<1> QED BY <1>2, <1>3, <1>4, <1>5, <1>6, Answering

-------------------------------------------------------------------------------
\* Streams begin and end.

\* Deliveries again, in order, are what is held and nothing else.
LEMMA Again ==
    ASSUME HistoryTypes, NEW again \in InOrder(held), NEW q,
           q = [i \in DOMAIN again |-> [kind |-> "late", n |-> again[i]]]
    PROVE  /\ q \in Seq(ServerMsg)
           /\ \A n \in Msgs : ~ Has(q, Reaching(n)) /\ ~ Has(q, Lives(n))
           /\ \A n \in Msgs : Has(q, Brings(n)) => n \in held
<1>1. held \in SUBSET Nat /\ held \subseteq Msgs /\ IsFiniteSet(held)
  <2>1. Msgs = 1..MaxMsgs /\ MaxMsgs \in Nat /\ held \subseteq Msgs
    BY Numbers DEF HistoryTypes
  <2>2. IsFiniteSet(1..MaxMsgs)
    BY <2>1, FS_Interval
  <2>3. IsFiniteSet(held)
    BY <2>1, <2>2, FS_Subset
  <2> QED BY <2>1, <2>3
<1>2. again \in Seq(held)
  BY <1>1, Ordered
<1>3. /\ DOMAIN again = 1..Len(again) /\ Len(again) \in Nat
      /\ \A i \in DOMAIN again : again[i] \in held
  BY <1>2
<1>4. DOMAIN q = 1..Len(again) /\ \A i \in DOMAIN q : q[i] = [kind |-> "late", n |-> again[i]]
  BY <1>3
<1>5. \A i \in DOMAIN q : q[i] \in ServerMsg
  <2> TAKE i \in DOMAIN q
  <2>1. again[i] \in Msgs
    BY <1>1, <1>3, <1>4
  <2> QED BY <1>4, <2>1 DEF ServerMsg
<1>6. q \in [1..Len(again) -> ServerMsg]
  BY <1>3, <1>4, <1>5
<1>7. q \in Seq(ServerMsg)
  BY <1>3, <1>6, SeqDef
<1>8. \A n \in Msgs : ~ Has(q, Reaching(n)) /\ ~ Has(q, Lives(n))
  BY <1>4 DEF Has, Reaching, Lives
<1>9. \A n \in Msgs : Has(q, Brings(n)) => n \in held
  BY <1>3, <1>4 DEF Has, Brings
<1> QED BY <1>7, <1>8, <1>9

\* A catch-up without a cursor reaches back to the horizon.
LEMMA CatchupStart ==
    ASSUME HistoryTypes, NEW g, NEW h,
           g = [with |-> Everyone, nr |-> Fresh(Everyone),
                start |-> IF cursor = 0 THEN Past ELSE 0, end |-> NoEnd],
           h = IF cursor = 0 /\ Past > horizon + 1 THEN Past - 1 ELSE horizon
    PROVE  g \in Query /\ ~ Partial(g, h) /\ h \in Nat /\ h >= horizon
<1>1. Past \in Nat /\ NoEnd \in Nat /\ Fresh(Everyone) \in Nat /\ horizon \in Nat
  BY Numbers, FreshNumber DEF HistoryTypes
<1>2. g.with = Everyone /\ g.nr \in Nat /\ g.start \in Nat /\ g.end = NoEnd
  BY <1>1
<1>3. g \in Query
  BY <1>1, <1>2 DEF Query, Conversations
<1>4. h \in Nat /\ h >= horizon /\ g.start <= h + 1
  <2>1. CASE cursor = 0 /\ Past > horizon + 1
    <3>1. h = Past - 1 /\ g.start = Past
      BY <2>1
    <3> QED BY <1>1, <2>1, <3>1
  <2>2. CASE cursor = 0 /\ ~ (Past > horizon + 1)
    <3>1. h = horizon /\ g.start = Past
      BY <2>2
    <3> QED BY <1>1, <2>2, <3>1
  <2>3. CASE cursor # 0
    <3>1. h = horizon /\ g.start = 0
      BY <2>3
    <3> QED BY <1>1, <3>1
  <2> QED BY <2>1, <2>2, <2>3
<1> QED BY <1>1, <1>2, <1>3, <1>4 DEF Partial

LEMMA ConnectStep ==
    ASSUME HistoryInv, Connect
    PROVE  HistoryInv'
<1>1. HistoryTypes /\ LinesInv /\ ArrivalInv /\ QueryInv /\ CursorInv /\ CatchupInv
  BY DEF HistoryInv
<1>2. PICK S : S = pmOpen \ channels
  OBVIOUS
<1>3. PICK g : g = [with |-> Everyone, nr |-> Fresh(Everyone),
                    start |-> IF cursor = 0 THEN Past ELSE 0, end |-> NoEnd]
  OBVIOUS
<1>4. /\ up' = TRUE /\ Open(S, lastTs, {g}) /\ Show(Loaded(S, lastTs), {})
      /\ cache' = Kept(S) /\ pushed' = held /\ held' = {}
      /\ horizon' = IF cursor = 0 /\ Past > horizon + 1 THEN Past - 1 ELSE horizon
      /\ cursor' = cursor /\ archive' = archive /\ purged' = purged /\ refusals' = refusals
  BY <1>2, <1>3 DEF Connect, used
<1>5. PICK again \in InOrder(held) :
         s2c' = [i \in DOMAIN again |-> [kind |-> "late", n |-> again[i]]]
  BY DEF Connect
<1>6. g \in Query /\ ~ Partial(g, horizon') /\ horizon' \in Nat /\ horizon' >= horizon
  BY <1>1, <1>3, <1>4, CatchupStart
<1>7. S \in SUBSET Peers /\ IsFiniteSet(S)
  <2>1. pmOpen \subseteq Peers /\ IsFiniteSet(pmOpen) /\ S \subseteq pmOpen
    BY <1>1, <1>2 DEF HistoryTypes
  <2> QED BY <2>1, FS_Subset
<1>8. Opens(S, {g})
  <2>1. {g} \in SUBSET Query /\ IsFiniteSet({g}) /\ lastTs \in [Peers -> Int]
    BY <1>1, <1>6, FS_Singleton DEF HistoryTypes
  <2> QED BY <1>1, <1>4, <1>7, <2>1, Opening
<1>9. /\ LinesInv' /\ lines' \in [Msgs -> Nat] /\ tagged' \subseteq Msgs
      /\ shown' = shown \cup Loaded(S, lastTs) \cup {} /\ shown' \subseteq DOMAIN archive
  <2>1. /\ Loaded(S, lastTs) \in SUBSET DOMAIN archive /\ {} \in SUBSET DOMAIN archive
        /\ channels \subseteq channels'
        /\ \A n \in Loaded(S, lastTs) \cup {} : archive[n] \in channels'
    BY <1>1, <1>8, Loading DEF Opens
  <2> QED BY <1>1, <1>4, <2>1, Showing
<1>10. Grows
  BY <1>1, <1>4, <1>6, <1>9 DEF Grows, HistoryTypes
<1>11. /\ s2c' \in Seq(ServerMsg) /\ \A n \in Msgs : ~ Has(s2c', Reaching(n))
       /\ \A n \in Msgs : Has(s2c', Brings(n)) => n \in held
  BY <1>1, <1>5, Again
<1>12. HistoryTypes'
  BY <1>1, <1>4, <1>6, <1>7, <1>8, <1>9, <1>11, Loading DEF HistoryTypes, Opens
<1>13. ArrivalInv'
  BY <1>1, <1>4, <1>11 DEF ArrivalInv, HistoryTypes
<1>14. Ask(g, cursor) \in ClientMsg /\ Ask(g, cursor) \in Globals
  BY <1>1, <1>3, <1>6 DEF Ask, ClientMsg, Globals, HistoryTypes
<1>15. QueryInv'
  <2>1. PICK N : N = {Ask(g, cursor)}
    OBVIOUS
  <2>2. ASSUME NEW n \in Msgs, n <= cursor PROVE Covered(n)'
    BY <1>1, <1>10, <2>2, CoveredGrows DEF CursorInv
  <2>3. /\ N \in SUBSET ClientMsg
        /\ \A a \in N : ~ Partial(a.query, horizon') /\ \A n \in Msgs : n <= a.after => Covered(n)'
    BY <1>6, <1>14, <2>1, <2>2 DEF Ask
  <2>4. /\ \A q \in queries' : q \in queries \/ ~ Partial(q, horizon')
        /\ queries' \subseteq Query
        /\ \A T \in SUBSET Globals : Has(c2s', T) => Has(c2s, T) \/ \E a \in N : a \in T
    <3>1. \A q \in queries' : q \in queries \/ q = g \/ q.with # Everyone
      BY <1>8 DEF Opens
    <3> QED BY <1>6, <1>8, <2>1, <3>1 DEF Opens, Partial
  <2> QED BY <1>1, <1>10, <2>3, <2>4, Sending
<1>16. CursorInv'
  BY <1>1, <1>4, <1>10, <1>11, CoveredGrows, FewerOf DEF CursorInv
<1>17. CatchupInv'
  <2>1. Has(c2s', Globals)
    BY <1>8, <1>14 DEF Opens
  <2> QED BY <2>1 DEF CatchupInv
<1> QED BY <1>9, <1>12, <1>13, <1>15, <1>16, <1>17 DEF HistoryInv

\* A stream ends: what was on its way is gone, and may come again.
LEMMA Ending ==
    ASSUME HistoryInv, StreamEnds, queries' \subseteq queries, held' \subseteq DOMAIN archive,
           UNCHANGED <<disk, archive, purged, history, refusals>>
    PROVE  /\ ArrivalInv' /\ QueryInv' /\ CursorInv' /\ CatchupInv'
           /\ channels' \subseteq Peers /\ lines' \in [Msgs -> Nat] /\ tagged' \subseteq Msgs =>
                 HistoryTypes'
<1>1. HistoryTypes /\ ArrivalInv /\ QueryInv /\ CursorInv
  BY DEF HistoryInv
<1>2. /\ up' = FALSE /\ c2s' = <<>> /\ s2c' = <<>> /\ pushed' = {} /\ cursor' = cursor
      /\ lastTs' = lastTs /\ pmOpen' = pmOpen /\ cache' = cache
      /\ archive' = archive /\ purged' = purged /\ shown' = shown /\ horizon' = horizon
      /\ refusals' = refusals
  BY DEF StreamEnds, disk, history
<1>3. \A S : ~ Has(c2s', S) /\ ~ Has(s2c', S)
  BY <1>2, Single
<1>4. \A n \in Msgs : Covered(n)' <=> Covered(n)
  BY <1>2 DEF Covered
<1>5. ArrivalInv' /\ QueryInv'
  BY <1>1, <1>2, <1>3 DEF ArrivalInv, QueryInv
<1>6. CursorInv'
  BY <1>1, <1>2, <1>3, <1>4, FewerOf DEF CursorInv
<1>7. CatchupInv'
  BY <1>2 DEF CatchupInv
<1>8. ASSUME channels' \subseteq Peers, lines' \in [Msgs -> Nat], tagged' \subseteq Msgs
      PROVE  HistoryTypes'
  <2>1. queries' \subseteq Query /\ IsFiniteSet(queries')
    BY <1>1, Queries
  <2>2. c2s' \in Seq(ClientMsg) /\ s2c' \in Seq(ServerMsg)
    BY <1>2
  <2> QED BY <1>1, <1>2, <1>8, <2>1, <2>2 DEF HistoryTypes
<1> QED BY <1>5, <1>6, <1>7, <1>8

LEMMA DropStep ==
    ASSUME HistoryInv, Drop
    PROVE  HistoryInv'
<1>1. HistoryTypes /\ LinesInv
  BY DEF HistoryInv
<1>2. /\ StreamEnds /\ held' \in {{}} \cup Unacked
      /\ channels' = channels /\ lines' = lines /\ tagged' = tagged /\ queries' = queries
      /\ UNCHANGED <<disk, archive, purged, history, refusals>>
  BY DEF Drop, memory
<1>3. held' \subseteq DOMAIN archive
  BY <1>1, <1>2 DEF Unacked, HistoryTypes
<1>4. LinesInv'
  BY <1>1, <1>2 DEF LinesInv, Stands, history
<1> QED BY <1>1, <1>2, <1>3, <1>4, Ending DEF HistoryInv, HistoryTypes

LEMMA RestartStep ==
    ASSUME HistoryInv, Restart
    PROVE  HistoryInv'
<1>1. HistoryTypes
  BY DEF HistoryInv
<1>2. /\ StreamEnds
      /\ \E h \in IF up THEN {{}} \cup Unacked ELSE {held} :
            held' = {n \in h : Redelivery \/ n \notin shown}
      /\ channels' = {} /\ lines' = [n \in Msgs |-> 0] /\ tagged' = {} /\ queries' = {}
      /\ UNCHANGED <<disk, archive, purged, history, refusals>>
  BY DEF Restart
<1>3. held' \subseteq DOMAIN archive
  BY <1>1, <1>2 DEF Unacked, HistoryTypes
<1>4. /\ channels' \subseteq Peers /\ lines' \in [Msgs -> Nat] /\ tagged' \subseteq Msgs
      /\ queries' \subseteq queries
  BY <1>2
<1>5. LinesInv'
  BY <1>2 DEF LinesInv
<1> QED BY <1>2, <1>3, <1>4, <1>5, Ending DEF HistoryInv

-------------------------------------------------------------------------------
\* The server.

\* A message of the server after what is on its way.
LEMMA Delivering ==
    ASSUME HistoryTypes, NEW p \in Seq(ServerMsg), s2c' = s2c \o p, shown' = shown,
           horizon' = horizon, purged' = purged
    PROVE  /\ s2c' \in Seq(ServerMsg)
           /\ \A S : Has(s2c', S) <=> Has(s2c, S) \/ Has(p, S)
           /\ \A n \in Msgs : (Covered(n)' <=> Covered(n)) /\ (OnItsWay(n) => OnItsWay(n)')
           /\ \A n \in Msgs : Preceded(s2c, Reaching(n), Result(n))
                            /\ Preceded(p, Reaching(n), Result(n))
                 => Preceded(s2c', Reaching(n), Result(n))
<1>1. s2c \in Seq(ServerMsg)
  BY DEF HistoryTypes
<1>2. PICK t : t = s2c \o p
  OBVIOUS
<1>3. /\ t \in Seq(ServerMsg) /\ \A S : Has(t, S) <=> Has(s2c, S) \/ Has(p, S)
      /\ \A A, S : Preceded(s2c, A, S) /\ Preceded(p, A, S) => Preceded(t, A, S)
  BY <1>1, <1>2, Concatenated
<1>4. s2c' = t
  BY <1>2
<1>5. \A n \in Msgs : Covered(n)' <=> Covered(n)
  BY DEF Covered
<1> QED BY <1>3, <1>4, <1>5 DEF OnItsWay

LEMMA SrvMessageStep ==
    ASSUME HistoryInv, NEW p \in Peers, SrvMessage(p)
    PROVE  HistoryInv'
<1>1. HistoryTypes /\ LinesInv /\ ArrivalInv /\ QueryInv /\ CursorInv /\ CatchupInv
  BY DEF HistoryInv
<1>2. PICK k : k = Len(archive) + 1
  OBVIOUS
<1>3. PICK x : x = [kind |-> "live", n |-> k]
  OBVIOUS
<1>4. /\ archive \in Seq(Peers) /\ Len(archive) < MaxMsgs /\ k \in Msgs /\ x \in ServerMsg
      /\ archive' = Append(archive, p) /\ Len(archive') = k
  <2>1. archive \in Seq(Peers) /\ Len(archive) < MaxMsgs /\ archive' = Append(archive, p)
    BY <1>1 DEF SrvMessage, HistoryTypes
  <2>2. k \in Msgs /\ Len(archive') = k
    BY <1>2, <2>1, Numbers, <1>1
  <2> QED BY <1>3, <2>1, <2>2 DEF ServerMsg
<1>5. /\ archive' \in Seq(Peers) /\ DOMAIN archive' = 1..k /\ DOMAIN archive = 1..(k - 1)
      /\ \A n \in DOMAIN archive : archive'[n] = archive[n]
  BY <1>2, <1>4, AppendProperties
<1>6. /\ s2c' = IF up THEN Append(s2c, x) ELSE s2c
      /\ pushed' = IF up THEN pushed \cup {k} ELSE pushed
      /\ held' \in IF up THEN {held} ELSE {held, held \cup {k}}
      /\ up' = up /\ channels' = channels /\ lines' = lines /\ tagged' = tagged
      /\ queries' = queries /\ lastTs' = lastTs /\ cache' = cache /\ pmOpen' = pmOpen
      /\ cursor' = cursor /\ c2s' = c2s /\ purged' = purged /\ shown' = shown
      /\ horizon' = horizon /\ refusals' = refusals
  BY <1>3, <1>4 DEF SrvMessage, memory, disk, history, used
<1>7. PICK q \in Seq(ServerMsg) : s2c' = s2c \o q /\ q = IF up THEN <<x>> ELSE <<>>
  <2>1. s2c \in Seq(ServerMsg)
    BY <1>1 DEF HistoryTypes
  <2>2. Append(s2c, x) = s2c \o <<x>> /\ <<x>> \in Seq(ServerMsg)
    BY <1>4, <2>1, Appended
  <2>3. s2c \o <<>> = s2c /\ <<>> \in Seq(ServerMsg)
    BY <2>1, ConcatEmptySeq
  <2> QED BY <1>6, <2>2, <2>3
<1>8. /\ s2c' \in Seq(ServerMsg)
      /\ \A S : Has(s2c', S) <=> Has(s2c, S) \/ Has(q, S)
      /\ \A n \in Msgs : (Covered(n)' <=> Covered(n)) /\ (OnItsWay(n) => OnItsWay(n)')
      /\ \A n \in Msgs : Preceded(s2c, Reaching(n), Result(n))
                       /\ Preceded(q, Reaching(n), Result(n))
            => Preceded(s2c', Reaching(n), Result(n))
  BY <1>1, <1>6, <1>7, Delivering
<1>9. /\ \A S : Has(q, S) <=> up /\ x \in S
      /\ \A n \in Msgs : Preceded(q, Reaching(n), Result(n))
  <2>1. \A n \in Msgs : x \notin Reaching(n)
    BY <1>3 DEF Reaching
  <2> QED BY <1>7, <2>1, Single
<1>10. HistoryTypes'
  <2>1. /\ DOMAIN archive \subseteq DOMAIN archive' /\ k \in DOMAIN archive'
        /\ Len(archive') <= MaxMsgs
    BY <1>1, <1>2, <1>4, <1>5, Numbers
  <2> QED BY <1>1, <1>5, <1>6, <1>8, <2>1 DEF HistoryTypes
<1>11. LinesInv'
  BY <1>1, <1>5, <1>6 DEF LinesInv, Stands, HistoryTypes
<1>12. ArrivalInv'
  <2> SUFFICES ASSUME NEW n \in Msgs, Has(s2c', Brings(n)) PROVE n \in DOMAIN archive'
    BY DEF ArrivalInv
  <2>1. Has(s2c, Brings(n)) \/ x \in Brings(n)
    BY <1>8, <1>9
  <2>2. x \in Brings(n) => n = k
    BY <1>3 DEF Brings
  <2>3. DOMAIN archive \subseteq DOMAIN archive' /\ k \in DOMAIN archive'
    BY <1>2, <1>4, <1>5
  <2> QED BY <1>1, <2>1, <2>2, <2>3 DEF ArrivalInv
<1>13. QueryInv'
  BY <1>1, <1>6, <1>8 DEF QueryInv
<1>14. CursorInv'
  BY <1>1, <1>6, <1>8, <1>9 DEF CursorInv
<1>15. CatchupInv'
  <2> SUFFICES ASSUME up, refusals = 0
               PROVE  \/ Has(c2s', Globals) \/ Has(s2c', Going)
                      \/ \A n \in DOMAIN archive' : OnItsWay(n)'
    BY <1>6 DEF CatchupInv
  <2>1. CASE Has(c2s, Globals) \/ Has(s2c, Going)
    BY <1>6, <1>8, <2>1
  <2>2. CASE \A n \in DOMAIN archive : OnItsWay(n)
    <3>1. ASSUME NEW n \in DOMAIN archive' PROVE OnItsWay(n)'
      <4>1. CASE n \in DOMAIN archive
        BY <1>1, <1>8, <2>2, <4>1, Numbers
      <4>2. CASE n = k
        <5>1. x \in Brings(n)
          BY <1>3, <4>2 DEF Brings
        <5>2. Has(s2c', Brings(n))
          BY <1>8, <1>9, <5>1
        <5> QED BY <5>2 DEF OnItsWay
      <4> QED BY <1>2, <1>4, <1>5, <4>1, <4>2
    <3> QED BY <3>1
  <2> QED BY <1>1, <2>1, <2>2 DEF CatchupInv
<1> QED BY <1>10, <1>11, <1>12, <1>13, <1>14, <1>15 DEF HistoryInv

LEMMA SrvPurgeStep ==
    ASSUME HistoryInv, SrvPurge
    PROVE  HistoryInv'
<1>1. HistoryTypes /\ LinesInv /\ ArrivalInv /\ QueryInv /\ CursorInv /\ CatchupInv
  BY DEF HistoryInv
<1>2. /\ purged' = purged + 1 /\ channels' = channels /\ cache' = cache /\ pmOpen' = pmOpen
      /\ lines' = lines /\ tagged' = tagged /\ lastTs' = lastTs
      /\ up' = up /\ cursor' = cursor /\ queries' = queries /\ c2s' = c2s
      /\ s2c' = s2c /\ archive' = archive /\ pushed' = pushed /\ held' = held /\ shown' = shown
      /\ horizon' = horizon /\ refusals' = refusals
  BY DEF SrvPurge, memory, disk, history, used
<1>3. Grows
  BY <1>1, <1>2 DEF Grows, HistoryTypes
<1>4. /\ ArrivalInv'
      /\ \A n \in Msgs : Covered(n) \/ Preceded(s2c, Reaching(n), Result(n)) =>
            Covered(n)' \/ Preceded(s2c', Reaching(n), Result(n))
      /\ \A n \in Msgs : OnItsWay(n) => OnItsWay(n)'
  BY <1>1, <1>2, <1>3, Resting
<1>5. HistoryTypes' /\ LinesInv'
  BY <1>1, <1>2 DEF HistoryTypes, LinesInv, Stands
<1>6. QueryInv'
  BY <1>1, <1>2, <1>3, CoveredGrows DEF QueryInv
<1>7. CursorInv'
  BY <1>1, <1>2, <1>3, <1>4, CoveredGrows DEF CursorInv
<1>8. CatchupInv'
  BY <1>1, <1>2, <1>4, Numbers DEF CatchupInv
<1> QED BY <1>4, <1>5, <1>6, <1>7, <1>8 DEF HistoryInv

\* A page holds what was found first, in order.
LEMMA Paging ==
    ASSUME HistoryTypes, NEW q \in Query, NEW after \in 0..MaxMsgs,
           NEW found \in InOrder(Matches(q, after))
    PROVE  /\ Matches(q, after) \subseteq DOMAIN archive
           /\ Page(found) \in Seq(Matches(q, after)) /\ found \in Seq(Matches(q, after))
           /\ Len(Page(found)) <= Len(found) /\ (Page(found) = <<>> => found = <<>>)
           /\ \A i \in DOMAIN Page(found) : i \in DOMAIN found /\ Page(found)[i] = found[i]
           /\ \A n \in Matches(q, after) :
                 (\/ Len(Page(found)) = Len(found)
                  \/ Page(found) # <<>> /\ n <= Page(found)[Len(Page(found))])
                    => \E i \in DOMAIN Page(found) : Page(found)[i] = n
<1>1. PICK M : M = Matches(q, after)
  OBVIOUS
<1>0. PICK page : page = Page(found)
  OBVIOUS
<1>2. PICK k : k = IF Len(found) < PageSize THEN Len(found) ELSE PageSize
  OBVIOUS
<1>3. M \subseteq DOMAIN archive /\ M \in SUBSET Nat /\ IsFiniteSet(M)
  <2>1. DOMAIN archive = 1..Len(archive) /\ Len(archive) \in Nat /\ purged \in Nat
    BY Numbers DEF HistoryTypes
  <2>2. M \subseteq 1..Len(archive)
    BY <1>1, <2>1 DEF Matches
  <2>3. IsFiniteSet(1..Len(archive))
    BY <2>1, FS_Interval
  <2>4. IsFiniteSet(M)
    BY <2>2, <2>3, FS_Subset
  <2> QED BY <2>1, <2>2, <2>4
<1>4. /\ found \in Seq(M) /\ \A n \in M : \E i \in DOMAIN found : found[i] = n
      /\ \A i, j \in DOMAIN found : found[i] <= found[j] => i <= j
  BY <1>1, <1>3, Ordered
<1>5. /\ Len(found) \in Nat /\ DOMAIN found = 1..Len(found) /\ PageSize \in Nat \ {0}
      /\ k \in 0..Len(found) /\ (k = 0 => Len(found) = 0)
  BY <1>2, <1>4, SizesAssumption
<1>6. page \in Seq(M) /\ Len(page) = k /\ \A i \in 1..k : page[i] = found[i]
  <2>1. page = SubSeq(found, 1, k)
    BY <1>0, <1>2 DEF Page
  <2>2. 1 \in 1..(Len(found) + 1) /\ k \in 0..Len(found)
    BY <1>5
  <2>3. \A i \in 1..k : found[i] \in M
    BY <1>4, <1>5
  <2> QED BY <1>4, <1>5, <2>1, <2>2, <2>3, SubSeqProperties
<1>7. DOMAIN page = 1..k /\ DOMAIN page \subseteq DOMAIN found
  BY <1>5, <1>6
<1>8. ASSUME NEW n \in M, k = Len(found) \/ (page # <<>> /\ n <= page[k])
      PROVE  \E i \in DOMAIN page : page[i] = n
  <2>1. PICK i \in DOMAIN found : found[i] = n
    BY <1>4
  <2>2. i <= k
    <3>1. CASE k = Len(found)
      BY <1>5, <3>1
    <3>2. CASE page # <<>> /\ n <= page[k]
      <4>1. k # 0
        BY <1>6, <3>2
      <4>2. k \in DOMAIN found /\ found[i] <= found[k]
        BY <1>5, <1>6, <2>1, <3>2, <4>1
      <4> QED BY <1>4, <2>1, <4>2
    <3> QED BY <1>8, <3>1, <3>2
  <2> QED BY <1>5, <1>6, <1>7, <2>1, <2>2
<1>9. page = <<>> => found = <<>>
  BY <1>4, <1>5, <1>6
<1>10. /\ M \subseteq DOMAIN archive /\ page \in Seq(M) /\ found \in Seq(M)
       /\ Len(page) <= Len(found) /\ (page = <<>> => found = <<>>)
       /\ \A i \in DOMAIN page : i \in DOMAIN found /\ page[i] = found[i]
  BY <1>3, <1>4, <1>5, <1>6, <1>7, <1>9
<1>11. \A n \in M : (Len(page) = Len(found) \/ (page # <<>> /\ n <= page[Len(page)]))
                        => \E i \in DOMAIN page : page[i] = n
  BY <1>6, <1>8
<1> QED BY ONLY <1>0, <1>1, <1>10, <1>11

\* The messages of an answer.
LEMMA Answers ==
    ASSUME HistoryTypes, NEW q \in Query, NEW after \in 0..MaxMsgs,
           NEW found \in InOrder(Matches(q, after))
    PROVE  /\ Results(Page(found)) \in Seq(ServerMsg) /\ Fin(q, Page(found), found) \in ServerMsg
           /\ \A n \in Msgs : /\ Has(Results(Page(found)), Brings(n)) => n \in DOMAIN archive
                              /\ ~ Has(Results(Page(found)), Reaching(n))
                              /\ ~ Has(Results(Page(found)), Pushes(n))
                              /\ Fin(q, Page(found), found) \notin Brings(n)
                              /\ \A i \in DOMAIN Page(found) :
                                    Page(found)[i] = n => Has(Results(Page(found)), Result(n))
<1>0. PICK page : page = Page(found)
  OBVIOUS
<1>1. /\ Matches(q, after) \subseteq DOMAIN archive /\ page \in Seq(Matches(q, after))
      /\ found \in Seq(Matches(q, after))
  BY <1>0, Paging
<1>2. PICK r : r = Results(page)
  OBVIOUS
<1>3. /\ DOMAIN page = 1..Len(page) /\ Len(page) \in Nat /\ Len(found) \in Nat
      /\ \A i \in DOMAIN page : page[i] \in DOMAIN archive /\ page[i] \in Msgs
  BY <1>1, Numbers
<1>4. DOMAIN r = 1..Len(page) /\ \A i \in DOMAIN page : r[i] = [kind |-> "result", n |-> page[i]]
  BY <1>2, <1>3 DEF Results
<1>5. r \in Seq(ServerMsg)
  <2>1. \A i \in 1..Len(page) : r[i] \in ServerMsg
    BY <1>3, <1>4 DEF ServerMsg
  <2>2. r = [i \in 1..Len(page) |-> [kind |-> "result", n |-> page[i]]]
    BY <1>2, <1>3 DEF Results
  <2>3. r \in [1..Len(page) -> ServerMsg]
    BY <1>3, <1>4, <2>1, <2>2
  <2> QED BY <1>3, <2>3, SeqDef
<1>6. Fin(q, page, found) \in ServerMsg
  <2>1. PICK last : last = IF page = <<>> THEN 0 ELSE page[Len(page)]
    OBVIOUS
  <2>2. last \in 0..MaxMsgs
    <3>1. CASE page = <<>>
      BY <2>1, <3>1, BoundsAssumption
    <3>2. CASE page # <<>>
      <4>1. Len(page) \in DOMAIN page
        BY <1>1, <1>3, <3>2
      <4> QED BY <1>3, <2>1, <3>2, <4>1, Numbers
    <3> QED BY <3>1, <3>2
  <2>3. PICK b \in BOOLEAN : b = (Len(page) = Len(found))
    OBVIOUS
  <2>4. q.with \in Conversations /\ q.nr \in Nat
    BY DEF Query
  <2>5. Fin(q, page, found) = [kind |-> "fin", with |-> q.with, nr |-> q.nr,
                               last |-> last, complete |-> b]
    BY <2>1, <2>3 DEF Fin
  <2> QED BY <2>2, <2>4, <2>5 DEF ServerMsg
<1>7. ASSUME NEW n \in Msgs
      PROVE  /\ Has(r, Brings(n)) => n \in DOMAIN archive
             /\ ~ Has(r, Reaching(n)) /\ ~ Has(r, Pushes(n))
             /\ Fin(q, page, found) \notin Brings(n)
             /\ \A i \in DOMAIN page : page[i] = n => Has(r, Result(n))
  <2>1. Has(r, Brings(n)) => n \in DOMAIN archive
    BY <1>3, <1>4 DEF Has, Brings
  <2>2. ~ Has(r, Reaching(n)) /\ ~ Has(r, Pushes(n))
    BY <1>3, <1>4 DEF Has, Reaching, Pushes
  <2>3. Fin(q, page, found) \notin Brings(n)
    BY DEF Fin, Brings
  <2>4. \A i \in DOMAIN page : page[i] = n => Has(r, Result(n))
    BY <1>3, <1>4 DEF Has, Result
  <2> QED BY <2>1, <2>2, <2>3, <2>4
<1> QED BY <1>0, <1>2, <1>5, <1>6, <1>7

\* A global query that leaves nothing out finds what is not covered, up to the last
\* of its page; all of it when there is no other page.
LEMMA GlobalAnswer ==
    ASSUME HistoryTypes, NEW q \in Query, NEW after \in 0..MaxMsgs,
           q.with = Everyone, ~ Partial(q, horizon),
           \A n \in Msgs : n <= after => Covered(n),
           NEW found \in InOrder(Matches(q, after))
    PROVE  /\ \A n \in Msgs : Fin(q, Page(found), found) \in Reaching(n) =>
                 Covered(n) \/ \E i \in DOMAIN Page(found) : Page(found)[i] = n
           /\ \/ Fin(q, Page(found), found) \in Going
              \/ \A n \in DOMAIN archive :
                    Covered(n) \/ \E i \in DOMAIN Page(found) : Page(found)[i] = n
<1>0. PICK page : page = Page(found)
  OBVIOUS
<1>1. /\ Matches(q, after) \subseteq DOMAIN archive /\ page \in Seq(Matches(q, after))
      /\ found \in Seq(Matches(q, after)) /\ Len(page) <= Len(found)
      /\ page = <<>> => found = <<>>
      /\ \A n \in Matches(q, after) :
                 Len(page) = Len(found) \/ (page # <<>> /\ n <= page[Len(page)])
                    => \E i \in DOMAIN page : page[i] = n
  BY <1>0, Paging
<1>2. /\ purged \in Nat /\ horizon \in Nat /\ q.start \in Nat /\ q.end = NoEnd
      /\ ~ (q.start > horizon + 1) /\ after \in Nat
  BY DEF HistoryTypes, Query, Partial
<1>3. ASSUME NEW n \in DOMAIN archive, ~ Covered(n) PROVE n \in Matches(q, after)
  <2>1. /\ n \in Msgs /\ n \in 1..Len(archive) /\ n < NoEnd /\ NoEnd \in Nat
        /\ Len(archive) \in Nat
    BY Numbers
  <2>2. ~ (n <= after) /\ ~ (n <= horizon) /\ ~ (n <= purged)
    BY <1>3, <2>1 DEF Covered
  <2>3. n \in Nat
    BY <2>1
  <2>4. n \in purged + 1 .. Len(archive) /\ n > after /\ n >= q.start /\ n < q.end
    BY <1>2, <2>1, <2>2, <2>3
  <2> QED BY <2>4 DEF Matches
<1>4. PICK m : m = Fin(q, page, found)
  OBVIOUS
<1>5. /\ m.kind = "fin" /\ m.with = Everyone
      /\ m.last = IF page = <<>> THEN 0 ELSE page[Len(page)]
      /\ m.complete = (Len(page) = Len(found))
  BY <1>4 DEF Fin
<1>6. ASSUME NEW n \in Msgs, m \in Reaching(n), ~ Covered(n)
      PROVE  \E i \in DOMAIN page : page[i] = n
  <2>1. m.last >= n /\ n \in 1..MaxMsgs
    BY <1>6, Numbers DEF Reaching
  <2>2. page # <<>> /\ page[Len(page)] >= n
    BY <1>5, <2>1
  <2>3. Len(page) \in DOMAIN page
    BY <1>1, <2>2
  <2>4. page[Len(page)] \in DOMAIN archive
    BY <1>1, <2>3
  <2>5. n \in DOMAIN archive /\ n <= page[Len(page)]
    BY <2>1, <2>2, <2>4, Numbers
  <2> QED BY <1>1, <1>3, <1>6, <2>2, <2>5
<1>7. ASSUME m \notin Going, NEW n \in DOMAIN archive, ~ Covered(n)
      PROVE  \E i \in DOMAIN page : page[i] = n
  <2>1. m \in ServerMsg
    BY <1>0, <1>4, Answers
  <2>2. m.last = 0 \/ m.complete
    BY <1>5, <1>7, <2>1 DEF Going, MorePages
  <2>3. Len(page) = Len(found)
    <3>1. CASE page = <<>>
      BY <1>1, <3>1
    <3>2. CASE page # <<>>
      <4>1. Len(page) \in DOMAIN page
        BY <1>1, <3>2
      <4>2. page[Len(page)] \in 1..Len(archive)
        BY <1>1, <4>1, Numbers
      <4>3. m.last # 0
        BY <1>5, <3>2, <4>2
      <4> QED BY <1>5, <2>2, <4>3
    <3> QED BY <3>1, <3>2
  <2> QED BY <1>1, <1>3, <1>7, <2>3
<1> QED BY <1>0, <1>4, <1>6, <1>7

\* The first of the queries is served with the messages p.
LEMMA Serving ==
    ASSUME HistoryInv, c2s # <<>>, c2s' = Tail(c2s), NEW p \in Seq(ServerMsg), s2c' = s2c \o p,
           UNCHANGED <<up, memory, disk, server, history>>, refusals' \in Nat,
           \A n \in Msgs : /\ Has(p, Brings(n)) => n \in DOMAIN archive
                           /\ Covered(n) \/ Preceded(p, Reaching(n), Result(n)),
           refusals' = 0 => /\ refusals = 0
                            /\ \/ Head(c2s) \notin Globals \/ Has(p, Going)
                               \/ \A n \in DOMAIN archive : Covered(n) \/ Has(p, Brings(n))
    PROVE  HistoryInv'
<1>1. HistoryTypes /\ LinesInv /\ ArrivalInv /\ QueryInv /\ CursorInv /\ CatchupInv
  BY DEF HistoryInv
<1>2. /\ up' = up /\ channels' = channels /\ lines' = lines /\ tagged' = tagged
      /\ queries' = queries /\ lastTs' = lastTs /\ cache' = cache /\ pmOpen' = pmOpen
      /\ cursor' = cursor /\ archive' = archive /\ purged' = purged /\ pushed' = pushed
      /\ held' = held /\ shown' = shown /\ horizon' = horizon
  BY DEF memory, disk, server, history
<1>3. PICK t : t = Tail(c2s)
  OBVIOUS
<1>4. t \in Seq(ClientMsg) /\ \A T : Has(c2s, T) <=> Head(c2s) \in T \/ Has(t, T)
  <2>1. c2s \in Seq(ClientMsg)
    BY <1>1 DEF HistoryTypes
  <2> QED BY <1>3, <2>1, Consumed
<1>5. c2s' = t
  BY <1>3
<1>6. /\ s2c' \in Seq(ServerMsg)
      /\ \A S : Has(s2c', S) <=> Has(s2c, S) \/ Has(p, S)
      /\ \A n \in Msgs : (Covered(n)' <=> Covered(n)) /\ (OnItsWay(n) => OnItsWay(n)')
      /\ \A n \in Msgs : Preceded(s2c, Reaching(n), Result(n))
                       /\ Preceded(p, Reaching(n), Result(n))
            => Preceded(s2c', Reaching(n), Result(n))
  BY <1>1, <1>2, Delivering
<1>7. HistoryTypes'
  BY <1>1, <1>2, <1>4, <1>5, <1>6 DEF HistoryTypes
<1>8. LinesInv'
  BY <1>1, <1>2 DEF LinesInv, Stands
<1>9. ArrivalInv'
  BY <1>1, <1>2, <1>6 DEF ArrivalInv
<1>10. QueryInv'
  BY <1>1, <1>2, <1>4, <1>5, <1>6 DEF QueryInv
<1>11. CursorInv'
  BY <1>1, <1>2, <1>6 DEF CursorInv
<1>12. CatchupInv'
  <2> SUFFICES ASSUME up, refusals' = 0
               PROVE  \/ Has(c2s', Globals) \/ Has(s2c', Going)
                      \/ \A n \in DOMAIN archive' : OnItsWay(n)'
    BY <1>2 DEF CatchupInv
  <2>1. CASE Has(c2s, Globals)
    <3>1. CASE \A n \in DOMAIN archive : Covered(n) \/ Has(p, Brings(n))
      <4>1. \A n \in DOMAIN archive : n \in Msgs
        BY <1>1, Numbers
      <4> QED BY <1>2, <1>6, <3>1, <4>1 DEF OnItsWay
    <3> QED BY <1>4, <1>5, <1>6, <2>1, <3>1
  <2>2. CASE Has(s2c, Going)
    BY <1>6, <2>2
  <2>3. CASE \A n \in DOMAIN archive : OnItsWay(n)
    BY <1>1, <1>2, <1>6, <2>3, Numbers
  <2> QED BY <1>1, <2>1, <2>2, <2>3 DEF CatchupInv
<1> QED BY <1>7, <1>8, <1>9, <1>10, <1>11, <1>12 DEF HistoryInv

LEMMA SrvAnswerStep ==
    ASSUME HistoryInv, SrvAnswer
    PROVE  HistoryInv'
<1>1. HistoryTypes /\ QueryInv
  BY DEF HistoryInv
<1>2. PICK a : a = Head(c2s)
  OBVIOUS
<1>3. PICK q : q = a.query
  OBVIOUS
<1>4. /\ c2s # <<>> /\ c2s' = Tail(c2s)
      /\ UNCHANGED <<up, memory, disk, server, history>> /\ refusals' = refusals
      /\ \E found \in InOrder(Matches(q, a.after)) :
            s2c' = s2c \o Results(Page(found)) \o <<Fin(q, Page(found), found)>>
  BY <1>2, <1>3 DEF SrvAnswer, used
<1>5. PICK found \in InOrder(Matches(q, a.after)) :
         s2c' = s2c \o Results(Page(found)) \o <<Fin(q, Page(found), found)>>
  BY <1>4
<1>6. a \in ClientMsg /\ \A T : a \in T => Has(c2s, T)
  <2>1. c2s \in Seq(ClientMsg)
    BY <1>1 DEF HistoryTypes
  <2> QED BY <1>2, <1>4, <2>1, Consumed
<1>7. q \in Query /\ a.after \in 0..MaxMsgs
  BY <1>3, <1>6 DEF ClientMsg
<1>8. ~ Partial(q, horizon)
  BY <1>1, <1>3, <1>6 DEF QueryInv, Lacking
<1>9. ASSUME q.with = Everyone, NEW n \in Msgs, n <= a.after PROVE Covered(n)
  <2>1. a \in Passing(n)
    BY <1>3, <1>6, <1>7, <1>9, <1>1, Numbers DEF Passing, Globals
  <2> QED BY <1>1, <1>6, <2>1 DEF QueryInv
<1>10. PICK r : r = Results(Page(found))
  OBVIOUS
<1>11. PICK m : m = Fin(q, Page(found), found)
  OBVIOUS
<1>12. /\ r \in Seq(ServerMsg) /\ m \in ServerMsg
       /\ \A n \in Msgs : /\ Has(r, Brings(n)) => n \in DOMAIN archive
                          /\ ~ Has(r, Reaching(n))
                          /\ m \notin Brings(n)
                          /\ \A i \in DOMAIN Page(found) :
                                Page(found)[i] = n => Has(r, Result(n))
  BY <1>1, <1>7, <1>10, <1>11, Answers
<1>13. PICK p \in Seq(ServerMsg) : p = r \o <<m>>
  <2>1. <<m>> \in Seq(ServerMsg)
    BY <1>12
  <2> QED BY <1>12, <2>1, ConcatProperties
<1>14. s2c' = s2c \o p
  <2>1. s2c \in Seq(ServerMsg) /\ <<m>> \in Seq(ServerMsg)
    BY <1>1, <1>12 DEF HistoryTypes
  <2>2. s2c' = s2c \o r \o <<m>>
    BY <1>5, <1>10, <1>11
  <2> QED BY <1>12, <1>13, <2>1, <2>2, ConcatAssociative
<1>15. /\ \A S : Has(p, S) <=> Has(r, S) \/ m \in S
       /\ \A A, S : (~ Has(r, A) /\ (m \notin A \/ Has(r, S))) => Preceded(p, A, S)
  <2>1. <<m>> \in Seq(ServerMsg)
    BY <1>12
  <2>2. ASSUME NEW S PROVE Has(p, S) <=> Has(r, S) \/ m \in S
    <3>1. Has(<<m>>, S) <=> m \in S
      BY Single
    <3> QED BY <1>12, <1>13, <2>1, <3>1, Concatenated
  <2>3. ASSUME NEW A, NEW S, ~ Has(r, A), m \notin A \/ Has(r, S) PROVE Preceded(p, A, S)
    <3>1. Preceded(r, A, S)
      BY <2>3 DEF Has, Preceded
    <3>2. m \notin A => Preceded(<<m>>, A, S)
      BY Single
    <3> QED BY <1>12, <1>13, <2>1, <2>3, <3>1, <3>2, Concatenated
  <2> QED BY <2>2, <2>3
<1>16. ASSUME NEW n \in Msgs
       PROVE  /\ Has(p, Brings(n)) => n \in DOMAIN archive
              /\ Covered(n) \/ Preceded(p, Reaching(n), Result(n))
  <2>1. CASE m \notin Reaching(n)
    BY <1>12, <1>15, <2>1
  <2>2. CASE m \in Reaching(n)
    <3>1. q.with = Everyone
      BY <1>11, <2>2 DEF Fin, Reaching
    <3>2. Covered(n) \/ \E i \in DOMAIN Page(found) : Page(found)[i] = n
      BY <1>1, <1>7, <1>8, <1>9, <1>11, <2>2, <3>1, GlobalAnswer
    <3> QED BY <1>12, <1>15, <3>2
  <2> QED BY <1>12, <1>15, <2>1, <2>2
<1>17. \/ Head(c2s) \notin Globals \/ Has(p, Going)
       \/ \A n \in DOMAIN archive : Covered(n) \/ Has(p, Brings(n))
  <2> SUFFICES ASSUME a \in Globals
               PROVE  \/ Has(p, Going)
                      \/ \A n \in DOMAIN archive : Covered(n) \/ Has(p, Brings(n))
    BY <1>2
  <2>1. q.with = Everyone
    BY <1>3 DEF Globals
  <2>2. \/ m \in Going
        \/ \A n \in DOMAIN archive :
              Covered(n) \/ \E i \in DOMAIN Page(found) : Page(found)[i] = n
    BY <1>1, <1>7, <1>8, <1>9, <1>11, <2>1, GlobalAnswer
  <2>3. \A n \in Msgs : Has(r, Result(n)) => Has(r, Brings(n))
    <3>1. \A n : Result(n) \in SUBSET Brings(n)
      BY DEF Result, Brings
    <3> QED BY <3>1, FewerOf
  <2>4. DOMAIN archive \subseteq Msgs
    BY <1>1, Numbers
  <2> QED BY <1>12, <1>15, <2>2, <2>3, <2>4
<1>18. refusals' \in Nat /\ (refusals' = 0 => refusals = 0)
  BY <1>1, <1>4 DEF HistoryTypes
<1> QED BY <1>4, <1>14, <1>16, <1>17, <1>18, Serving

\* A query that is refused.
LEMMA Refusing ==
    ASSUME HistoryInv, c2s # <<>>, c2s' = Tail(c2s), Refuse(Head(c2s)),
           refusals' = refusals + 1, UNCHANGED <<up, memory, disk, server, history>>
    PROVE  HistoryInv'
<1>1. HistoryTypes
  BY DEF HistoryInv
<1>2. PICK a : a = Head(c2s)
  OBVIOUS
<1>3. a \in ClientMsg /\ c2s \in Seq(ClientMsg) /\ s2c \in Seq(ServerMsg)
  BY <1>1, <1>2 DEF HistoryTypes
<1>4. PICK m : m = [kind |-> "refused", with |-> a.query.with, nr |-> a.query.nr]
  OBVIOUS
<1>5. m \in ServerMsg
  <2>1. a.query.with \in Conversations /\ a.query.nr \in Nat
    BY <1>3 DEF ClientMsg, Query
  <2> QED BY <1>4, <2>1 DEF ServerMsg
<1>6. PICK p \in Seq(ServerMsg) : p = <<m>>
  <2>1. <<m>> \in Seq(ServerMsg)
    BY <1>5
  <2> QED BY <2>1
<1>7. s2c' = s2c \o p
  BY <1>2, <1>3, <1>4, <1>5, <1>6, Appended DEF Refuse
<1>8. ASSUME NEW n \in Msgs
      PROVE  ~ Has(p, Brings(n)) /\ Preceded(p, Reaching(n), Result(n))
  <2>1. m \notin Brings(n) /\ m \notin Reaching(n)
    BY <1>4 DEF Brings, Reaching
  <2> QED BY <1>6, <2>1, Single
<1>9. refusals' \in Nat /\ refusals' # 0
  BY <1>1 DEF HistoryTypes
<1> QED BY <1>7, <1>8, <1>9, Serving

LEMMA SrvNotFoundStep ==
    ASSUME HistoryInv, SrvNotFound
    PROVE  HistoryInv'
BY Refusing DEF SrvNotFound

LEMMA SrvRefuseStep ==
    ASSUME HistoryInv, SrvRefuse
    PROVE  HistoryInv'
BY Refusing DEF SrvRefuse

-------------------------------------------------------------------------------
\* The cursor and the catch-up.

LEMMA HistoryInit ==
    ASSUME Init
    PROVE  HistoryInv
<1>1. \A S : ~ Has(c2s, S) /\ ~ Has(s2c, S)
  BY Single DEF Init
<1>2. HistoryTypes
  <2>1. MaxMsgs \in Nat /\ 0 \in 0..MaxMsgs
    BY BoundsAssumption
  <2>2. IsFiniteSet({})
    BY FS_EmptySet
  <2>3. archive = <<>> /\ archive \in Seq(Peers) /\ Len(archive) = 0
    BY DEF Init
  <2>4. c2s \in Seq(ClientMsg) /\ s2c \in Seq(ServerMsg)
    BY DEF Init
  <2>5. lastTs \in [Peers -> Int] /\ lines \in [Msgs -> Nat]
    BY DEF Init, Unknown
  <2>6. /\ up = FALSE /\ channels = {} /\ pmOpen = {} /\ queries = {} /\ cursor = 0
        /\ purged = 0 /\ horizon = 0 /\ refusals = 0 /\ pushed = {} /\ held = {}
        /\ shown = {} /\ cache = {} /\ tagged = {}
    BY DEF Init
  <2>7. IsFiniteSet(queries) /\ IsFiniteSet(pmOpen)
    BY <2>2, <2>6
  <2>8. /\ up \in BOOLEAN /\ channels \subseteq Peers /\ pmOpen \subseteq Peers
        /\ queries \subseteq Query /\ cursor \in 0..MaxMsgs /\ purged \in Nat
        /\ horizon \in Nat /\ refusals \in Nat
    BY ONLY <2>1, <2>6
  <2>10. Len(archive) <= MaxMsgs
    BY <2>1, <2>3
  <2>9. /\ pushed \subseteq DOMAIN archive /\ held \subseteq DOMAIN archive
        /\ shown \subseteq DOMAIN archive /\ cache \subseteq shown /\ tagged \subseteq Msgs
    BY ONLY <2>6
  <2> QED BY ONLY <2>3, <2>4, <2>5, <2>7, <2>8, <2>9, <2>10 DEF HistoryTypes
<1>3. LinesInv
  BY DEF Init, LinesInv
<1>4. ArrivalInv /\ QueryInv
  BY <1>1 DEF Init, ArrivalInv, QueryInv
<1>5. CursorInv
  <2>1. ASSUME NEW n \in Msgs PROVE ~ (n <= cursor)
    BY <2>1, BoundsAssumption DEF Init, Msgs
  <2>2. \A n \in Msgs : Preceded(s2c, Reaching(n), Result(n))
    BY <1>1, FewerOf
  <2> QED BY <2>1, <2>2 DEF CursorInv
<1>6. CatchupInv
  BY DEF Init, CatchupInv
<1> QED BY <1>2, <1>3, <1>4, <1>5, <1>6 DEF HistoryInv

LEMMA HistoryStep ==
    ASSUME HistoryInv, [Next]_vars
    PROVE  HistoryInv'
<1>1. CASE Connect
  BY <1>1, ConnectStep
<1>2. CASE \E p \in Peers : UserOpen(p) \/ UserClose(p) \/ SrvMessage(p)
  BY <1>2, UserOpenStep, UserCloseStep, SrvMessageStep
<1>3. CASE ClientReceive
  BY <1>3, OnLiveStep, OnLateStep, OnResultStep, OnDiscoveryStep, OnReplayToClosedStep,
     OnFinStep, OnGlobalFinStep, OnRefusedStep DEF ClientReceive
<1>4. CASE ServerHandle
  BY <1>4, SrvAnswerStep, SrvNotFoundStep, SrvRefuseStep DEF ServerHandle
<1>5. CASE Drop \/ Restart \/ SrvPurge
  BY <1>5, DropStep, RestartStep, SrvPurgeStep
<1>6. CASE UNCHANGED vars
  <2>1. /\ up' = up /\ channels' = channels /\ lines' = lines /\ tagged' = tagged
        /\ queries' = queries /\ lastTs' = lastTs /\ cache' = cache /\ pmOpen' = pmOpen
        /\ cursor' = cursor /\ c2s' = c2s /\ s2c' = s2c /\ archive' = archive
        /\ purged' = purged /\ pushed' = pushed /\ held' = held /\ shown' = shown
        /\ horizon' = horizon /\ refusals' = refusals
    BY <1>6 DEF vars, memory, disk, server, history, used
  <2>2. HistoryTypes' /\ LinesInv'
    BY <2>1 DEF HistoryInv, HistoryTypes, LinesInv, Stands
  <2>3. ArrivalInv' /\ QueryInv' /\ CursorInv' /\ CatchupInv'
    BY <2>1 DEF HistoryInv, ArrivalInv, QueryInv, CursorInv, CatchupInv, OnItsWay, Covered
  <2> QED BY <2>2, <2>3 DEF HistoryInv
<1> QED BY <1>1, <1>2, <1>3, <1>4, <1>5, <1>6 DEF Next

LEMMA HistoryAlways == Spec => []HistoryInv
<1> QED BY HistoryInit, HistoryStep, PTL DEF Spec

\* Whatever the kept cursor has passed was shown, is older than the first catch-up
\* reaches, or is forgotten by the archive: a crash between any two steps loses no
\* message for the next catch-up.
THEOREM CursorCoversCorrect == Spec => []CursorCovers
<1>1. HistoryInv => CursorCovers
  <2> SUFFICES ASSUME HistoryInv, NEW n \in 1..cursor PROVE Covered(n)
    BY DEF CursorCovers, Covered
  <2>1. cursor \in 0..MaxMsgs /\ MaxMsgs \in Nat
    BY BoundsAssumption DEF HistoryInv, HistoryTypes
  <2>2. n \in Msgs /\ n <= cursor
    BY <2>1 DEF Msgs
  <2> QED BY <2>2 DEF HistoryInv, CursorInv
<1> QED BY <1>1, HistoryAlways, PTL

\* When nothing is in flight and the catch-up is over, no message the archive has is
\* missing, unless the server refused a query.
THEOREM CaughtUpCorrect == Spec => []CaughtUp
<1>1. HistoryInv => CaughtUp
  <2> SUFFICES ASSUME HistoryInv, up, c2s = <<>>, s2c = <<>>, refusals = 0,
                      NEW n \in purged + 1 .. Len(archive)
               PROVE  n \in shown \/ n <= horizon
    BY DEF CaughtUp, Settled
  <2>1. HistoryTypes /\ CatchupInv
    BY DEF HistoryInv
  <2>2. \A S : ~ Has(c2s, S) /\ ~ Has(s2c, S)
    BY Single
  <2>3. n \in DOMAIN archive /\ purged \in Nat /\ n \in Nat /\ ~ (n <= purged)
    BY <2>1, Numbers DEF HistoryTypes
  <2> QED BY <2>1, <2>2, <2>3 DEF CatchupInv, OnItsWay, Covered
<1> QED BY <1>1, HistoryAlways, PTL

-------------------------------------------------------------------------------
\* No message twice.

\* A message keeps its line and its tag, or is shown from the cache for the first
\* time, or leaves its buffer and the cache.
Settles(n) ==
    \/ lines'[n] = lines[n] /\ (n \in tagged => n \in tagged') /\ (n \in cache' => n \in cache)
    \/ n \in cache /\ lines[n] = 0 /\ lines'[n] = 1
    \/ lines'[n] = 0 /\ n \notin cache'

LEMMA Absence ==
    ASSUME HistoryInv, NEW n \in Msgs
    PROVE  /\ n \notin DOMAIN archive => Absent(n) /\ ~ Has(s2c, Brings(n))
           /\ n \notin shown => n \notin cache
           /\ archive[n] \notin channels => lines[n] = 0
           /\ lines[n] \in Nat /\ (n \in tagged => lines[n] > 0)
<1>1. /\ shown \subseteq DOMAIN archive /\ cache \subseteq shown /\ lines[n] \in Nat
      /\ lines[n] > 0 => n \in shown /\ archive[n] \in channels
      /\ n \in tagged => lines[n] > 0
  BY DEF HistoryInv, HistoryTypes, LinesInv, Stands
<1>2. n \notin DOMAIN archive => ~ Has(s2c, Brings(n))
  BY DEF HistoryInv, ArrivalInv
<1> QED BY <1>1, <1>2 DEF Absent

\* Nothing more is pushed; all messages but those of N settle, and those stand once.
LEMMA Settling ==
    ASSUME HistoryInv, OnceInv, NEW N \in SUBSET Msgs,
           \A n \in Msgs \ N : Settles(n),
           \A n \in N : lines'[n] <= 1 /\ ~ Has(s2c', Lives(n)),
           \A n \in N : n \in pushed \cup held => n \in tagged' \/ Absent(n)',
           pushed' \cup held' \subseteq pushed \cup held,
           \A n \in Msgs : /\ Has(s2c', Pushes(n)) => n \in pushed'
                           /\ Has(s2c', Lives(n)) => Has(s2c, Lives(n))
                           /\ Ahead(s2c', Lives(n), Brings(n))
    PROVE  OnceInv'
<1>1. /\ \A n \in pushed \cup held : n \in tagged \/ Absent(n)
      /\ \A n \in Msgs : Has(s2c, Lives(n)) => Absent(n)
      /\ \A n \in Msgs : lines[n] <= 1
  BY DEF OnceInv, PushedInv, NoDuplicates
<1>2. pushed \cup held \subseteq Msgs
  <2>1. pushed \subseteq DOMAIN archive /\ held \subseteq DOMAIN archive
    BY DEF HistoryInv, HistoryTypes
  <2>2. DOMAIN archive \subseteq Msgs
    BY Numbers DEF HistoryInv
  <2> QED BY <2>1, <2>2
<1>3. ASSUME NEW n \in Msgs \ N
      PROVE  /\ n \in tagged \/ Absent(n) => n \in tagged' \/ Absent(n)'
             /\ Absent(n) => Absent(n)'
             /\ lines'[n] <= 1
  <2>1. lines[n] \in Nat /\ (n \in tagged => lines[n] > 0) /\ lines[n] <= 1
    BY <1>1, Absence
  <2> QED BY <2>1 DEF Settles, Absent
<1>4. \A n \in pushed' \cup held' : n \in tagged' \/ Absent(n)'
  BY <1>1, <1>2, <1>3
<1>5. \A n \in Msgs : Has(s2c', Lives(n)) => Absent(n)'
  BY <1>1, <1>3
<1>6. \A n \in Msgs : lines'[n] <= 1
  BY <1>3
<1> QED BY <1>4, <1>5, <1>6 DEF OnceInv, PushedInv, NoDuplicates

\* What the channel still pushes once its first message is taken.
LEMMA Rest ==
    ASSUME HistoryTypes, OnceInv, s2c # <<>>, s2c' = Tail(s2c), UNCHANGED server
    PROVE  /\ pushed' \cup held' \subseteq pushed \cup held
           /\ \A n \in Msgs : /\ Has(s2c', Pushes(n)) => n \in pushed'
                              /\ Has(s2c', Lives(n)) => Has(s2c, Lives(n))
                              /\ Ahead(s2c', Lives(n), Brings(n))
                              /\ Head(s2c) \in Brings(n) => ~ Has(s2c', Lives(n))
                              /\ Head(s2c) \in Pushes(n) => n \in pushed
                              /\ Head(s2c) \in Lives(n) => Absent(n)
<1>1. s2c \in Seq(ServerMsg)
  BY DEF HistoryTypes
<1>2. PICK t : t = Tail(s2c)
  OBVIOUS
<1>3. /\ \A S : Has(s2c, S) <=> Head(s2c) \in S \/ Has(t, S)
      /\ \A A, S : Ahead(s2c, A, S) => Ahead(t, A, S) /\ (Head(s2c) \in S => ~ Has(t, A))
  BY <1>1, <1>2, Consumed
<1>4. /\ \A n \in Msgs : Has(s2c, Pushes(n)) => n \in pushed
      /\ \A n \in Msgs : Has(s2c, Lives(n)) => Absent(n)
      /\ \A n \in Msgs : Ahead(s2c, Lives(n), Brings(n))
  BY DEF OnceInv, PushedInv
<1>5. pushed' = pushed /\ held' = held /\ s2c' = t
  BY <1>2 DEF server
<1> QED BY <1>3, <1>4, <1>5

\* What Show does to messages of the cache whose conversation is not open yet, and to
\* others.
LEMMA FirstShown ==
    ASSUME HistoryInv, NEW old \in SUBSET cache, NEW new \in SUBSET Msgs, Show(old, new),
           \A n \in old : archive[n] \notin channels
    PROVE  /\ \A n \in Msgs \ new : (n \in cache' => n \in cache) => Settles(n)
           /\ \A n \in new \ old : lines'[n] = lines[n] + 1
           /\ \A n \in old \ new : lines[n] = 0 /\ lines'[n] = 1
           /\ \A n \in Msgs \ (old \cup new) : lines'[n] = lines[n]
           /\ tagged' = tagged \cup new
<1>1. /\ lines' = [n \in Msgs |-> lines[n] + (IF n \in old THEN 1 ELSE 0)
                                           + (IF n \in new THEN 1 ELSE 0)]
      /\ tagged' = tagged \cup new
  BY DEF Show
<1>2. lines \in [Msgs -> Nat] /\ old \subseteq Msgs
  BY Numbers DEF HistoryInv, HistoryTypes
<1>3. \A n \in old : lines[n] = 0
  BY <1>2, Absence
<1>4. /\ \A n \in new \ old : lines'[n] = lines[n] + 1
      /\ \A n \in old \ new : lines'[n] = 1
      /\ \A n \in Msgs \ (old \cup new) : lines'[n] = lines[n]
  BY <1>1, <1>2, <1>3
<1>5. ASSUME NEW n \in Msgs \ new, n \in cache' => n \in cache PROVE Settles(n)
  BY <1>1, <1>3, <1>4, <1>5 DEF Settles
<1> QED BY <1>1, <1>3, <1>4, <1>5

\* A message that was pushed is shown: what the cache shows beside it is something else.
LEMMA PushedOnce ==
    ASSUME HistoryInv, OnceInv, NEW kind \in {"live", "late"}, Receive(kind), UNCHANGED server,
           NEW S, S = {archive[Head(s2c).n]} \ channels, Show(Loaded(S, lastTs), {Head(s2c).n}),
           Absent(Head(s2c).n), cache' = Kept(S)
    PROVE  OnceInv'
<1>1. PICK n : n = Head(s2c).n
  OBVIOUS
<1>2. PICK old : old = Loaded(S, lastTs)
  OBVIOUS
<1>3. /\ HistoryTypes /\ s2c # <<>> /\ s2c' = Tail(s2c) /\ Absent(n)
      /\ n \in DOMAIN archive /\ n \in Msgs /\ Head(s2c) \in Brings(n)
  <2>1. n \in DOMAIN archive /\ Head(s2c) = [kind |-> kind, n |-> n]
    BY <1>1, Arriving
  <2> QED BY <1>1, <2>1, Numbers DEF HistoryInv, Receive, Brings
<1>4. old \in SUBSET cache /\ cache' \subseteq cache /\ \A m \in old : archive[m] \notin channels
  BY <1>2, <1>3, Loading
<1>5. n \notin old /\ lines[n] = 0
  BY <1>3, <1>4 DEF Absent
<1>6. /\ \A m \in Msgs \ {n} : Settles(m)
      /\ lines'[n] = 1 /\ n \in tagged'
  <2>1. Show(old, {n}) /\ {n} \in SUBSET Msgs
    BY <1>1, <1>2, <1>3
  <2>2. /\ \A m \in Msgs \ {n} : Settles(m)
        /\ \A m \in {n} \ old : lines'[m] = lines[m] + 1
        /\ tagged' = tagged \cup {n}
    BY <1>4, <2>1, FirstShown
  <2> QED BY <1>5, <2>2
<1>7. /\ pushed' \cup held' \subseteq pushed \cup held
      /\ \A m \in Msgs : /\ Has(s2c', Pushes(m)) => m \in pushed'
                         /\ Has(s2c', Lives(m)) => Has(s2c, Lives(m))
                         /\ Ahead(s2c', Lives(m), Brings(m))
      /\ ~ Has(s2c', Lives(n))
  BY <1>3, Rest
<1>8. PICK N \in SUBSET Msgs : N = {n}
  BY <1>3
<1>9. /\ \A m \in Msgs \ N : Settles(m)
      /\ \A m \in N : lines'[m] <= 1 /\ ~ Has(s2c', Lives(m)) /\ m \in tagged'
  BY <1>6, <1>7, <1>8
<1> QED BY <1>7, <1>9, Settling

LEMMA OnLiveOnce ==
    ASSUME HistoryInv, OnceInv, OnLive
    PROVE  OnceInv'
<1>1. PICK S : S = {archive[Head(s2c).n]} \ channels
  OBVIOUS
<1>2. /\ Receive("live") /\ Show(Loaded(S, lastTs), {Head(s2c).n}) /\ cache' = Kept(S)
      /\ UNCHANGED server
  BY <1>1 DEF OnLive
<1>3. Absent(Head(s2c).n)
  <2>1. PICK n : n = Head(s2c).n
    OBVIOUS
  <2>2. n \in DOMAIN archive /\ Head(s2c) = [kind |-> "live", n |-> n]
    BY <1>2, <2>1, Arriving
  <2>3. n \in Msgs /\ HistoryTypes /\ Head(s2c) \in Lives(n) /\ s2c # <<>> /\ s2c' = Tail(s2c)
    BY <1>2, <2>2, Numbers DEF HistoryInv, Lives, Receive
  <2> QED BY <1>2, <2>1, <2>3, Rest
<1> QED BY <1>1, <1>2, <1>3, PushedOnce

LEMMA OnLateOnce ==
    ASSUME HistoryInv, OnceInv, OnLate
    PROVE  OnceInv'
<1>1. PICK n : n = Head(s2c).n
  OBVIOUS
<1>2. PICK S : S = {archive[n]} \ channels
  OBVIOUS
<1>3. /\ Receive("late") /\ Show(Loaded(S, lastTs), IF Redelivered(n) THEN {} ELSE {n})
      /\ cache' = Kept(S) /\ UNCHANGED server
  BY <1>1, <1>2 DEF OnLate
<1>4. /\ HistoryTypes /\ s2c # <<>> /\ s2c' = Tail(s2c)
      /\ n \in DOMAIN archive /\ n \in Msgs /\ n \in pushed
  <2>1. n \in DOMAIN archive /\ Head(s2c) = [kind |-> "late", n |-> n]
    BY <1>1, <1>3, Arriving
  <2>2. n \in Msgs /\ HistoryTypes /\ Head(s2c) \in Pushes(n) /\ s2c # <<>> /\ s2c' = Tail(s2c)
    BY <1>3, <2>1, Numbers DEF HistoryInv, Pushes, Receive
  <2> QED BY <1>3, <2>1, <2>2, Rest
<1>5. n \in tagged \/ Absent(n)
  BY <1>4 DEF OnceInv, PushedInv
<1>6. CASE n \in tagged
  <2>1. S = {} /\ Loaded(S, lastTs) = {}
    <3>1. archive[n] \in channels
      BY <1>4, <1>6, Absence
    <3> QED BY <1>2, <1>4, <3>1, Loading
  <2>2. Show({}, {}) /\ cache' \subseteq cache
    BY <1>3, <1>4, <1>6, <2>1, Loading DEF Redelivered
  <2>3. \A m \in Msgs \ {} : Settles(m)
    <3>1. {} \in SUBSET cache /\ {} \in SUBSET Msgs
      OBVIOUS
    <3> QED BY <2>2, <3>1, FirstShown
  <2>4. /\ pushed' \cup held' \subseteq pushed \cup held
        /\ \A m \in Msgs : /\ Has(s2c', Pushes(m)) => m \in pushed'
                           /\ Has(s2c', Lives(m)) => Has(s2c, Lives(m))
                           /\ Ahead(s2c', Lives(m), Brings(m))
    BY <1>3, <1>4, Rest
  <2>5. {} \in SUBSET Msgs
    OBVIOUS
  <2> QED BY <2>3, <2>4, <2>5, Settling
<1>7. CASE n \notin tagged
  <2>1. Absent(Head(s2c).n) /\ Show(Loaded(S, lastTs), {Head(s2c).n})
    BY <1>1, <1>3, <1>5, <1>7 DEF Redelivered
  <2> QED BY <1>1, <1>2, <1>3, <2>1, PushedOnce
<1> QED BY <1>6, <1>7

\* A result, shown or not: something else settles, and it stands once.
LEMMA ResultOnce ==
    ASSUME HistoryInv, OnceInv, Receive("result"), UNCHANGED server,
           NEW old \in SUBSET cache, NEW new \in SUBSET {Head(s2c).n}, Show(old, new),
           \A m \in old : archive[m] \notin channels,
           cache' \subseteq cache \cup {Head(s2c).n},
           new = IF lines[Head(s2c).n] > 0 \/ Head(s2c).n \in old THEN {} ELSE {Head(s2c).n}
    PROVE  OnceInv'
<1>1. PICK n : n = Head(s2c).n
  OBVIOUS
<1>2. /\ HistoryTypes /\ s2c # <<>> /\ s2c' = Tail(s2c)
      /\ n \in DOMAIN archive /\ n \in Msgs /\ Head(s2c) \in Brings(n)
  <2>1. n \in DOMAIN archive /\ Head(s2c) = [kind |-> "result", n |-> n]
    BY <1>1, Arriving
  <2> QED BY <1>1, <2>1, Numbers DEF HistoryInv, Receive, Brings
<1>3. /\ \A m \in Msgs \ new : (m \in cache' => m \in cache) => Settles(m)
      /\ \A m \in new \ old : lines'[m] = lines[m] + 1
      /\ \A m \in old \ new : lines[m] = 0 /\ lines'[m] = 1
      /\ \A m \in Msgs \ (old \cup new) : lines'[m] = lines[m]
      /\ tagged' = tagged \cup new
  <2>1. new \in SUBSET Msgs
    BY <1>1, <1>2
  <2> QED BY <2>1, FirstShown
<1>4. \A m \in Msgs \ {n} : Settles(m)
  BY <1>1, <1>3
<1>5. lines[n] \in Nat /\ lines[n] <= 1 /\ (n \in tagged => lines[n] > 0)
  BY <1>2, Absence DEF OnceInv, NoDuplicates
<1>6. lines'[n] <= 1 /\ (n \in pushed \cup held => n \in tagged' \/ Absent(n)')
  <2>1. n \in pushed \cup held => n \in tagged \/ (lines[n] = 0 /\ n \notin cache)
    BY DEF OnceInv, PushedInv, Absent
  <2>2. CASE n \in old
    <3>1. new = {} /\ lines[n] = 0 /\ lines'[n] = 1
      BY <1>1, <1>3, <2>2
    <3> QED BY <1>5, <2>1, <2>2, <3>1
  <2>3. CASE n \notin old /\ lines[n] > 0
    <3>1. lines'[n] = lines[n]
      BY <1>1, <1>2, <1>3, <2>3
    <3> QED BY <1>3, <1>5, <2>1, <2>3, <3>1
  <2>4. CASE n \notin old /\ ~ (lines[n] > 0)
    <3>1. new = {n}
      BY <1>1, <2>4
    <3>2. lines'[n] = lines[n] + 1 /\ n \in tagged'
      BY <1>3, <2>4, <3>1
    <3> QED BY <1>5, <2>4, <3>2
  <2> QED BY <2>2, <2>3, <2>4
<1>7. /\ pushed' \cup held' \subseteq pushed \cup held
      /\ \A m \in Msgs : /\ Has(s2c', Pushes(m)) => m \in pushed'
                         /\ Has(s2c', Lives(m)) => Has(s2c, Lives(m))
                         /\ Ahead(s2c', Lives(m), Brings(m))
      /\ ~ Has(s2c', Lives(n))
  BY <1>2, Rest
<1>8. {n} \in SUBSET Msgs
  BY <1>2
<1> QED BY <1>4, <1>6, <1>7, <1>8, Settling

LEMMA OnResultOnce ==
    ASSUME HistoryInv, OnceInv, OnResult
    PROVE  OnceInv'
<1>1. PICK n : n = Head(s2c).n
  OBVIOUS
<1>2. PICK new : new = IF lines[n] > 0 \/ n \in {} THEN {} ELSE {n}
  OBVIOUS
<1>3. /\ Receive("result") /\ UNCHANGED server /\ Show({}, new)
      /\ cache' = cache \cup {n}
  BY <1>1, <1>2 DEF OnResult, Known
<1>4. {} \in SUBSET cache /\ new \in SUBSET {n}
  BY <1>2
<1> QED BY <1>1, <1>2, <1>3, <1>4, ResultOnce

LEMMA OnDiscoveryOnce ==
    ASSUME HistoryInv, OnceInv, OnDiscovery
    PROVE  OnceInv'
<1>1. PICK n : n = Head(s2c).n
  OBVIOUS
<1>2. PICK old : old = Loaded({archive[n]}, lastTs)
  OBVIOUS
<1>3. PICK new : new = IF lines[n] > 0 \/ n \in old THEN {} ELSE {n}
  OBVIOUS
<1>4. /\ Receive("result") /\ UNCHANGED server /\ Show(old, new)
      /\ archive[n] \notin channels /\ cache' = Kept({archive[n]}) \cup {n}
  BY <1>1, <1>2, <1>3 DEF OnDiscovery, Known
<1>5. /\ old \in SUBSET cache /\ \A m \in old : archive[m] \notin channels
      /\ cache' \subseteq cache \cup {n}
  BY <1>2, <1>4, Loading DEF HistoryInv
<1>6. new \in SUBSET {n}
  BY <1>3
<1> QED BY <1>1, <1>3, <1>4, <1>5, <1>6, ResultOnce

LEMMA OnReplayToClosedOnce ==
    ASSUME HistoryInv, OnceInv, OnReplayToClosed
    PROVE  OnceInv'
<1>1. PICK n : n = Head(s2c).n
  OBVIOUS
<1>2. PICK new : new = IF lines[n] > 0 \/ n \in {} THEN {} ELSE {n}
  OBVIOUS
<1>3. /\ Receive("result") /\ UNCHANGED server /\ Show({}, {n})
      /\ archive[n] \notin channels /\ cache' = Kept({archive[n]})
  BY <1>1 DEF OnReplayToClosed
<1>4. n \in Msgs
  BY <1>1, <1>3, Arriving, Numbers DEF HistoryInv
<1>5. new = {n}
  <2>1. lines[n] = 0
    BY <1>3, <1>4, Absence
  <2> QED BY <1>2, <2>1
<1>6. {} \in SUBSET cache /\ new \in SUBSET {n} /\ cache' \subseteq cache \cup {n}
  BY <1>3, <1>5, Loading DEF HistoryInv
<1>7. Show({}, new)
  BY <1>3, <1>5
<1> QED BY <1>1, <1>2, <1>3, <1>6, <1>7, ResultOnce

\* Where the channel and the server's side stay as they are.
LEMMA Quiet ==
    ASSUME OnceInv, s2c' = s2c, UNCHANGED server
    PROVE  /\ pushed' \cup held' \subseteq pushed \cup held
           /\ \A n \in Msgs : /\ Has(s2c', Pushes(n)) => n \in pushed'
                              /\ Has(s2c', Lives(n)) => Has(s2c, Lives(n))
                              /\ Ahead(s2c', Lives(n), Brings(n))
BY DEF OnceInv, PushedInv, server

\* Where all messages settle.
LEMMA AllSettle ==
    ASSUME HistoryInv, OnceInv, \A n \in Msgs : Settles(n),
           pushed' \cup held' \subseteq pushed \cup held,
           \A n \in Msgs : /\ Has(s2c', Pushes(n)) => n \in pushed'
                           /\ Has(s2c', Lives(n)) => Has(s2c, Lives(n))
                           /\ Ahead(s2c', Lives(n), Brings(n))
    PROVE  OnceInv'
<1>1. {} \in SUBSET Msgs /\ \A n \in Msgs \ {} : Settles(n)
  OBVIOUS
<1> QED BY <1>1, Settling

LEMMA UserOnce ==
    ASSUME HistoryInv, OnceInv, NEW p \in Peers, UserOpen(p) \/ UserClose(p)
    PROVE  OnceInv'
<1>1. HistoryTypes
  BY DEF HistoryInv
<1>2. s2c' = s2c /\ UNCHANGED server
  BY DEF UserOpen, UserClose
<1>3. \A n \in Msgs : Settles(n)
  <2>1. CASE UserOpen(p)
    <3>1. lines' = lines /\ tagged' = tagged /\ cache' = Kept({p})
      BY <2>1 DEF UserOpen
    <3> QED BY <1>1, <3>1, Loading DEF Settles
  <2>2. CASE UserClose(p)
    <3>1. /\ lines' = [n \in Msgs |-> IF n \in Of({p}) THEN 0 ELSE lines[n]]
          /\ tagged' = tagged \ Of({p}) /\ cache' = cache \ Of({p})
      BY <2>2 DEF UserClose, Kept
    <3> QED BY <3>1 DEF Settles
  <2> QED BY <2>1, <2>2
<1> QED BY <1>2, <1>3, Quiet, AllSettle

LEMMA AnsweredOnce ==
    ASSUME HistoryInv, OnceInv, OnFin \/ OnGlobalFin \/ OnRefused
    PROVE  OnceInv'
<1>1. HistoryTypes
  BY DEF HistoryInv
<1>2. /\ s2c # <<>> /\ s2c' = Tail(s2c) /\ lines' = lines /\ tagged' = tagged
      /\ cache' = cache /\ UNCHANGED server
  BY DEF OnFin, OnGlobalFin, OnRefused, Receive, disk
<1>3. \A n \in Msgs : Settles(n)
  BY <1>2 DEF Settles
<1> QED BY <1>1, <1>2, <1>3, Rest, AllSettle

\* Messages of the server that push nothing.
LEMMA ServingOnce ==
    ASSUME HistoryInv, OnceInv, NEW p \in Seq(ServerMsg), s2c' = s2c \o p,
           \A n \in Msgs : ~ Has(p, Pushes(n)),
           UNCHANGED <<memory, disk, server>>
    PROVE  OnceInv'
<1>1. s2c \in Seq(ServerMsg)
  BY DEF HistoryInv, HistoryTypes
<1>2. PICK t : t = s2c \o p
  OBVIOUS
<1>3. /\ \A S : Has(t, S) <=> Has(s2c, S) \/ Has(p, S)
      /\ \A A, S : Ahead(s2c, A, S) /\ ~ Has(p, A) => Ahead(t, A, S)
  BY <1>1, <1>2, Concatenated
<1>4. \A n \in Msgs : ~ Has(p, Lives(n))
  <2>1. \A n : Lives(n) \in SUBSET Pushes(n)
    BY DEF Lives, Pushes
  <2> QED BY <2>1, FewerOf
<1>5. /\ s2c' = t /\ pushed' = pushed /\ held' = held /\ lines' = lines
      /\ tagged' = tagged /\ cache' = cache
  BY <1>2 DEF memory, disk, server
<1>6. \A n \in Msgs : Settles(n)
  BY <1>5 DEF Settles
<1>7. \A n \in Msgs : /\ Has(t, Pushes(n)) => n \in pushed
                      /\ Has(t, Lives(n)) => Has(s2c, Lives(n))
                      /\ Ahead(t, Lives(n), Brings(n))
  BY <1>3, <1>4 DEF OnceInv, PushedInv
<1> QED BY <1>5, <1>6, <1>7, AllSettle

LEMMA ServerOnce ==
    ASSUME HistoryInv, OnceInv, ServerHandle
    PROVE  OnceInv'
<1>1. /\ HistoryTypes /\ c2s # <<>> /\ UNCHANGED <<memory, disk, server>>
      /\ s2c \in Seq(ServerMsg) /\ c2s \in Seq(ClientMsg)
  BY DEF ServerHandle, SrvAnswer, SrvNotFound, SrvRefuse, HistoryInv, HistoryTypes
<1>2. PICK a \in ClientMsg : a = Head(c2s)
  BY <1>1
<1>3. a.query \in Query /\ a.after \in 0..MaxMsgs
  BY DEF ClientMsg
<1>4. CASE SrvAnswer
  <2>1. PICK found \in InOrder(Matches(a.query, a.after)) :
           s2c' = s2c \o Results(Page(found)) \o <<Fin(a.query, Page(found), found)>>
    BY <1>2, <1>4 DEF SrvAnswer
  <2>2. PICK r : r = Results(Page(found))
    OBVIOUS
  <2>3. PICK m : m = Fin(a.query, Page(found), found)
    OBVIOUS
  <2>4. /\ r \in Seq(ServerMsg) /\ m \in ServerMsg
        /\ \A n \in Msgs : ~ Has(r, Pushes(n)) /\ m \notin Pushes(n)
    <3>1. \A n : Pushes(n) \subseteq Brings(n)
      BY DEF Pushes, Brings
    <3> QED BY <1>1, <1>3, <2>2, <2>3, <3>1, Answers
  <2>5. <<m>> \in Seq(ServerMsg)
    BY <2>4
  <2>6. PICK p \in Seq(ServerMsg) : p = r \o <<m>>
    BY <2>4, <2>5, ConcatProperties
  <2>7. s2c' = s2c \o p
    <3>1. s2c' = s2c \o r \o <<m>>
      BY <2>1, <2>2, <2>3
    <3> QED BY <1>1, <2>4, <2>5, <2>6, <3>1, ConcatAssociative
  <2>8. ASSUME NEW n \in Msgs PROVE ~ Has(p, Pushes(n))
    <3>1. ~ Has(<<m>>, Pushes(n))
      BY <2>4, Single
    <3> QED BY <2>4, <2>5, <2>6, <3>1, Concatenated
  <2> QED BY <1>1, <2>7, <2>8, ServingOnce
<1>5. CASE SrvNotFound \/ SrvRefuse
  <2>1. PICK m : m = [kind |-> "refused", with |-> a.query.with, nr |-> a.query.nr]
    OBVIOUS
  <2>2. m \in ServerMsg
    <3>1. a.query.with \in Conversations /\ a.query.nr \in Nat
      BY <1>3 DEF Query
    <3> QED BY <2>1, <3>1 DEF ServerMsg
  <2>3. <<m>> \in Seq(ServerMsg)
    BY <2>2
  <2>4. PICK p \in Seq(ServerMsg) : p = <<m>>
    BY <2>3
  <2>5. s2c' = s2c \o p
    <3>1. s2c' = Append(s2c, m)
      BY <1>2, <1>5, <2>1 DEF SrvNotFound, SrvRefuse, Refuse
    <3> QED BY <1>1, <2>2, <2>4, <3>1, Appended
  <2>6. ASSUME NEW n \in Msgs PROVE ~ Has(p, Pushes(n))
    <3>1. m \notin Pushes(n)
      BY <2>1 DEF Pushes
    <3> QED BY <2>4, <3>1, Single
  <2> QED BY <1>1, <2>5, <2>6, ServingOnce
<1> QED BY <1>4, <1>5 DEF ServerHandle

LEMMA SrvMessageOnce ==
    ASSUME HistoryInv, OnceInv, NEW p \in Peers, SrvMessage(p)
    PROVE  OnceInv'
<1>1. PICK k : k = Len(archive) + 1
  OBVIOUS
<1>2. PICK x : x = [kind |-> "live", n |-> k]
  OBVIOUS
<1>3. /\ k \in Msgs /\ k \notin DOMAIN archive /\ x \in ServerMsg /\ s2c \in Seq(ServerMsg)
      /\ Len(archive') = k
  <2>1. /\ archive \in Seq(Peers) /\ Len(archive) < MaxMsgs /\ archive' = Append(archive, p)
        /\ s2c \in Seq(ServerMsg)
    BY DEF SrvMessage, HistoryInv, HistoryTypes
  <2>2. k \in Msgs /\ k \notin DOMAIN archive
    BY <1>1, <2>1, Numbers DEF HistoryInv
  <2> QED BY <1>1, <1>2, <2>1, <2>2 DEF ServerMsg
<1>4. /\ s2c' = IF up THEN Append(s2c, x) ELSE s2c
      /\ pushed' = IF up THEN pushed \cup {k} ELSE pushed
      /\ held' \subseteq held \cup (IF up THEN {} ELSE {k})
      /\ lines' = lines /\ tagged' = tagged /\ cache' = cache
  BY <1>2, <1>3 DEF SrvMessage, memory, disk
<1>5. Absent(k) /\ ~ Has(s2c, Brings(k))
  BY <1>3, Absence
<1>6. \A n \in Msgs : (x \in Lives(n) => n = k) /\ (x \in Pushes(n) => n = k)
  BY <1>2 DEF Lives, Pushes
<1>7. \A n \in pushed' \cup held' : n \in tagged' \/ Absent(n)'
  BY <1>4, <1>5 DEF OnceInv, PushedInv, Absent
<1>8. CASE up
  <2>1. PICK q \in Seq(ServerMsg) : q = <<x>>
    <3>1. <<x>> \in Seq(ServerMsg)
      BY <1>3
    <3> QED BY <3>1
  <2>2. PICK t : t = s2c \o q
    OBVIOUS
  <2>3. s2c' = t
    BY <1>3, <1>4, <1>8, <2>1, <2>2, Appended
  <2>4. \A S, A : (Has(q, S) <=> x \in S) /\ Ahead(q, A, S)
    BY <2>1, Single
  <2>5. /\ \A S : Has(t, S) <=> Has(s2c, S) \/ x \in S
        /\ \A A, S : Ahead(s2c, A, S) /\ (x \notin A \/ ~ Has(s2c, S)) => Ahead(t, A, S)
    BY <1>3, <2>2, <2>4, Concatenated
  <2>6. \A n \in Msgs : Has(t, Pushes(n)) => n \in pushed'
    BY <1>4, <1>6, <1>8, <2>5 DEF OnceInv, PushedInv
  <2>7. \A n \in Msgs : Has(t, Lives(n)) => Absent(n)'
    BY <1>4, <1>5, <1>6, <2>5 DEF OnceInv, PushedInv, Absent
  <2>8. \A n \in Msgs : Ahead(t, Lives(n), Brings(n))
    BY <1>5, <1>6, <2>5 DEF OnceInv, PushedInv
  <2> QED BY <1>4, <1>7, <2>3, <2>6, <2>7, <2>8 DEF OnceInv, PushedInv, NoDuplicates
<1>9. CASE ~ up
  <2>1. s2c' = s2c /\ pushed' = pushed
    BY <1>4, <1>9
  <2> QED BY <1>4, <1>7, <2>1 DEF OnceInv, PushedInv, NoDuplicates, Absent
<1> QED BY <1>8, <1>9

LEMMA ConnectOnce ==
    ASSUME HistoryInv, OnceInv, Connect
    PROVE  OnceInv'
<1>1. HistoryTypes
  BY DEF HistoryInv
<1>2. PICK S : S = pmOpen \ channels
  OBVIOUS
<1>3. /\ Show(Loaded(S, lastTs), {}) /\ cache' = Kept(S) /\ pushed' = held /\ held' = {}
  BY <1>2 DEF Connect
<1>4. PICK again \in InOrder(held) :
         s2c' = [i \in DOMAIN again |-> [kind |-> "late", n |-> again[i]]]
  BY DEF Connect
<1>5. \A n \in Msgs : ~ Has(s2c', Lives(n)) /\ (Has(s2c', Brings(n)) => n \in held)
  BY <1>1, <1>4, Again
<1>6. \A n \in Msgs : Settles(n)
  <2>1. /\ Loaded(S, lastTs) \in SUBSET cache /\ {} \in SUBSET Msgs /\ cache' \subseteq cache
        /\ \A n \in Loaded(S, lastTs) : archive[n] \notin channels
    BY <1>1, <1>2, <1>3, Loading
  <2>2. \A n \in Msgs \ {} : (n \in cache' => n \in cache) => Settles(n)
    BY <1>3, <2>1, FirstShown
  <2> QED BY <2>1, <2>2
<1>7. \A n \in Msgs : Has(s2c', Pushes(n)) => n \in pushed'
  <2>1. \A n : Pushes(n) \in SUBSET Brings(n)
    BY DEF Pushes, Brings
  <2> QED BY <1>3, <1>5, <2>1, FewerOf
<1>8. \A n \in Msgs : Ahead(s2c', Lives(n), Brings(n))
  BY <1>5, FewerOf
<1>9. pushed' \cup held' \subseteq pushed \cup held
  BY <1>3
<1> QED BY <1>5, <1>6, <1>7, <1>8, <1>9, AllSettle

LEMMA DropOnce ==
    ASSUME HistoryInv, OnceInv, Drop
    PROVE  OnceInv'
<1>1. /\ s2c' = <<>> /\ pushed' = {} /\ held' \in {{}} \cup Unacked
      /\ lines' = lines /\ tagged' = tagged /\ cache' = cache
  BY DEF Drop, StreamEnds, memory, disk
<1>2. \A n \in Msgs : Settles(n)
  BY <1>1 DEF Settles
<1>3. pushed' \cup held' \subseteq pushed \cup held
  BY <1>1 DEF Unacked
<1>4. \A S : ~ Has(s2c', S)
  BY <1>1, Single
<1>5. \A n \in Msgs : Ahead(s2c', Lives(n), Brings(n))
  BY <1>4, FewerOf
<1> QED BY <1>2, <1>3, <1>4, <1>5, AllSettle

\* What comes again to a new process was not shown: it is not in the cache either.
LEMMA RestartOnce ==
    ASSUME ~ Redelivery, HistoryInv, OnceInv, Restart
    PROVE  OnceInv'
<1>1. /\ s2c' = <<>> /\ pushed' = {} /\ \A n \in held' : n \notin shown
      /\ lines' = [n \in Msgs |-> 0] /\ tagged' = {} /\ cache' = cache
      /\ held' \subseteq pushed \cup held
  BY DEF Restart, StreamEnds, disk, Unacked
<1>2. pushed \cup held \subseteq Msgs
  <2>1. pushed \subseteq DOMAIN archive /\ held \subseteq DOMAIN archive
    BY DEF HistoryInv, HistoryTypes
  <2> QED BY <2>1, Numbers DEF HistoryInv
<1>3. \A n \in pushed' \cup held' : Absent(n)'
  BY <1>1, <1>2, Absence DEF Absent
<1>4. \A S : ~ Has(s2c', S)
  BY <1>1, Single
<1>5. \A n \in Msgs : Ahead(s2c', Lives(n), Brings(n))
  BY <1>4, FewerOf
<1> QED BY <1>1, <1>3, <1>4, <1>5 DEF OnceInv, PushedInv, NoDuplicates

LEMMA OnceInit ==
    ASSUME Init
    PROVE  OnceInv
<1>1. \A S : ~ Has(s2c, S)
  BY Single DEF Init
<1>2. \A n \in Msgs : Ahead(s2c, Lives(n), Brings(n))
  BY <1>1, FewerOf
<1> QED BY <1>1, <1>2 DEF Init, OnceInv, PushedInv, NoDuplicates

LEMMA OnceStep ==
    ASSUME ~ Redelivery, HistoryInv, OnceInv, [Next]_vars
    PROVE  OnceInv'
<1>1. CASE Connect \/ Drop \/ Restart
  BY <1>1, ConnectOnce, DropOnce, RestartOnce
<1>2. CASE \E p \in Peers : UserOpen(p) \/ UserClose(p) \/ SrvMessage(p)
  BY <1>2, UserOnce, SrvMessageOnce
<1>3. CASE ClientReceive
  BY <1>3, OnLiveOnce, OnLateOnce, OnResultOnce, OnDiscoveryOnce, OnReplayToClosedOnce,
     AnsweredOnce DEF ClientReceive
<1>4. CASE ServerHandle
  BY <1>4, ServerOnce
<1>5. CASE SrvPurge \/ UNCHANGED vars
  <2>1. /\ s2c' = s2c /\ pushed' = pushed /\ held' = held /\ lines' = lines
        /\ tagged' = tagged /\ cache' = cache
    BY <1>5 DEF SrvPurge, vars, memory, disk, server
  <2> QED BY <2>1 DEF OnceInv, PushedInv, NoDuplicates, Absent
<1> QED BY <1>1, <1>2, <1>3, <1>4, <1>5 DEF Next

\* No buffer shows a message twice, whether it came as it was sent, again with a delay,
\* from the archive by either query, or from the cache, as long as the server delivers
\* nothing to a new process that the last one had shown: such a message bears a <delay/>
\* and is looked for under a tag that lines from the cache do not have.
THEOREM NoDuplicatesCorrect == ~ Redelivery => (Spec => []NoDuplicates)
<1> SUFFICES ASSUME ~ Redelivery PROVE Spec => []NoDuplicates
  OBVIOUS
<1>1. Init => HistoryInv /\ OnceInv
  BY HistoryInit, OnceInit
<1>2. (HistoryInv /\ OnceInv) /\ [Next]_vars => (HistoryInv /\ OnceInv)'
  BY HistoryStep, OnceStep
<1>3. HistoryInv /\ OnceInv => NoDuplicates
  BY DEF OnceInv
<1> QED BY <1>1, <1>2, <1>3, PTL DEF Spec
===============================================================================
