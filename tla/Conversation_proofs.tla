-------------------------- MODULE Conversation_proofs --------------------------
(***************************************************************************)
(* The invariants of Conversation, for any number of stanzas, lost links   *)
(* and restarts and any limit of the cache.                                *)
(***************************************************************************)
EXTENDS Conversation, SequenceTheorems, FiniteSetTheorems, NaturalsInduction, WellFoundedInduction,
        TLAPS

-------------------------------------------------------------------------------
\* The last of some places in a buffer exists.
LEMMA LastOf ==
    ASSUME NEW k \in Nat, NEW T, T \subseteq 1..k, T # {}
    PROVE  Max(T) \in T /\ \A y \in T : y <= Max(T)
<1> DEFINE S == {k - x : x \in T}
<1>1. S \subseteq Nat /\ S # {}
    <2>1. \A x \in T : k - x \in Nat
        OBVIOUS
    <2>2. PICK x \in T : TRUE
        OBVIOUS
    <2>3. k - x \in S
        OBVIOUS
    <2> QED BY <2>1, <2>3
<1> HIDE DEF S
<1>2. PICK s \in S : \A y \in S : ~ (<<y, s>> \in OpToRel(<, Nat))
    BY <1>1, NatLessThanWellFounded, WFMin
<1>3. \A y \in S : s <= y
    <2> SUFFICES ASSUME NEW y \in S PROVE s <= y
        OBVIOUS
    <2>1. s \in Nat /\ y \in Nat
        BY <1>1
    <2>2. ~(y < s)
        BY <1>2, <2>1 DEF OpToRel
    <2> QED BY <2>1, <2>2
<1>4. PICK x \in T : s = k - x
    BY DEF S
<1>5. \A y \in T : y <= x
    <2> SUFFICES ASSUME NEW y \in T PROVE y <= x
        OBVIOUS
    <2>1. k - y \in S
        BY DEF S
    <2>2. k - x <= k - y
        BY <1>3, <1>4, <2>1
    <2> QED BY <2>2
<1>6. \E m \in T : \A y \in T : m >= y
    BY <1>5
<1> QED BY <1>6 DEF Max

\* What the searches of the buffer find.
LastMatch(ls, ref) == LET T == {i \in 1..Len(ls) : Matches(ls[i], ref)}
                      IN  IF T # {} THEN Max(T) ELSE 0
LastSame(ls, s)    == LET T == {i \in 1..Len(ls) : SameSender(ls[i], s)}
                      IN  IF T # {} THEN Max(T) ELSE 0

LEMMA NewestMatch ==
    ASSUME NEW ls, Len(ls) \in Nat, NEW ref
    PROVE  LET i == LastMatch(ls, ref)
           IN  \/ i = 0 /\ \A j \in 1..Len(ls) : ~Matches(ls[j], ref)
               \/ /\ i \in 1..Len(ls) /\ Matches(ls[i], ref)
                  /\ \A j \in 1..Len(ls) : Matches(ls[j], ref) => j <= i
<1> DEFINE T == {i \in 1..Len(ls) : Matches(ls[i], ref)}
<1>1. LastMatch(ls, ref) = IF T # {} THEN Max(T) ELSE 0
    BY DEF LastMatch
<1>2. T # {} => Max(T) \in T /\ \A y \in T : y <= Max(T)
    BY LastOf
<1> QED BY <1>1, <1>2

LEMMA NewestSame ==
    ASSUME NEW ls, Len(ls) \in Nat, NEW s
    PROVE  LET i == LastSame(ls, s)
           IN  \/ i = 0 /\ \A j \in 1..Len(ls) : ~SameSender(ls[j], s)
               \/ i \in 1..Len(ls) /\ SameSender(ls[i], s)
<1> DEFINE T == {i \in 1..Len(ls) : SameSender(ls[i], s)}
<1>1. LastSame(ls, s) = IF T # {} THEN Max(T) ELSE 0
    BY DEF LastSame
<1>2. T # {} => Max(T) \in T
    BY LastOf
<1> QED BY <1>1, <1>2

-------------------------------------------------------------------------------
(* Who wrote what.  A line fits an archive and what was handled of it: its   *)
(* text is of its message's author, a line that names its author shows a     *)
(* text and has ids, and a tombstone has its retraction among what was       *)
(* handled.                                                                  *)

Stanzas == [kind : {"text", "correct", "retract", "moderate"},
            from : {"here", "elsewhere", "contact", "third", "room"},
            ref  : [of : Nat, by : {"own", "sid"}], body : BOOLEAN]
LineTypes == [of : Nat, ids : SUBSET {"own", "sid"},
              nick : {"me", "contact", "third", "room", NoName}, self : BOOLEAN, text : Nat]

\* A stanza at place n of an archive names a message before it, in a room by the
\* archive's id if it retracts; only the room moderates.
Fair(s, n, ar, room) ==
    /\ s.kind = "moderate" <=> s.from = "room"
    /\ s.kind = "text" => s.body
    /\ s.kind # "text" => s.ref.of \in 1..(n - 1) /\ ar[s.ref.of].kind = "text"
    /\ s.kind = "moderate" => room
    /\ room /\ s.kind \in {"retract", "moderate"} => s.ref.by = "sid"
FairArchive(ar, room) == ar \in Seq(Stanzas) /\ \A n \in 1..Len(ar) : Fair(ar[n], n, ar, room)

TombstoneFor(m, ar, hd) ==
    \E n \in hd : /\ ar[n].kind \in {"retract", "moderate"} /\ ar[n].ref.of = m
                  /\ Name(ar[n].from) \in {Name(ar[m].from), "room"}

FitsOne(l, ar, hd, room) ==
    /\ l.of \in 1..Len(ar) /\ l.text \in 0..Len(ar)
    /\ l.text # Gone => Name(ar[l.text].from) = Name(ar[l.of].from)
    /\ l.ids = {} => l.text = Gone /\ TombstoneFor(l.of, ar, hd)
    /\ l.self => l.ids # {} /\ ar[l.of].kind = "text" /\ (room => "sid" \in l.ids)
    /\ l.nick # NoName =>
          /\ l.nick = Name(ar[l.of].from) /\ ar[l.of].kind = "text" /\ l.text # Gone /\ l.ids # {}
          /\ room => "sid" \in l.ids
    /\ l.nick = NoName /\ room => l.ids \subseteq {"own"} /\ ~l.self
Fits(ls, ar, hd, room) == ls \in Seq(LineTypes) /\ \A i \in 1..Len(ls) : FitsOne(ls[i], ar, hd, room)

Written ==
    /\ style.room \in BOOLEAN /\ (style.room => style.stamped)
    /\ FairArchive(archive, style.room)
    /\ heard \subseteq 1..Len(archive) /\ cache \subseteq 1..Len(archive) /\ at \in 0..Len(archive)
    /\ upto \in 0..Len(archive)

AuthorInv == Written /\ Fits(lines, archive, heard, style.room)

LEMMA NameOf ==
    ASSUME NEW s \in Stanzas
    PROVE  /\ Name(s.from) \in {"me", "contact", "third", "room"} /\ Name(s.from) # NoName
           /\ s.kind \in {"text", "correct", "retract", "moderate"} /\ s.body \in BOOLEAN
           /\ s.ref.of \in Nat /\ s.ref.by \in {"own", "sid"}
BY DEF Stanzas, Name, Mine, NoName

\* What is written and handled later leaves a line fitting.
LEMMA FitsLater ==
    ASSUME NEW ar, NEW ar2, NEW hd, NEW hd2, NEW room, NEW ls, Fits(ls, ar, hd, room),
           Len(ar) \in Nat, Len(ar2) \in Nat, Len(ar) <= Len(ar2), hd \subseteq 1..Len(ar),
           \A n \in 1..Len(ar) : ar2[n] = ar[n], hd \subseteq hd2
    PROVE  Fits(ls, ar2, hd2, room)
<1> SUFFICES ASSUME NEW i \in 1..Len(ls) PROVE FitsOne(ls[i], ar2, hd2, room)
    BY DEF Fits
<1>1. FitsOne(ls[i], ar, hd, room)
    BY DEF Fits
<1> DEFINE l == ls[i]
<1> HIDE DEF l
<1>2. FitsOne(l, ar, hd, room)
    BY <1>1 DEF l
<1>3. l.of \in 1..Len(ar) /\ ar2[l.of] = ar[l.of]
    BY <1>2 DEF FitsOne
<1>4. l.text # Gone => ar2[l.text] = ar[l.text]
    BY <1>2 DEF FitsOne, Gone
<1>5. TombstoneFor(l.of, ar, hd) => TombstoneFor(l.of, ar2, hd2)
    BY <1>3 DEF TombstoneFor
<1>6. FitsOne(l, ar2, hd2, room)
    BY <1>2, <1>3, <1>4, <1>5 DEF FitsOne
<1> QED BY <1>6 DEF l

\* A line more.
LEMMA FitsAppend ==
    ASSUME NEW ar, NEW hd, NEW room, NEW ls, NEW l \in LineTypes, Fits(ls, ar, hd, room),
           FitsOne(l, ar, hd, room)
    PROVE  Fits(Append(ls, l), ar, hd, room)
<1>1. /\ Append(ls, l) \in Seq(LineTypes) /\ Len(Append(ls, l)) = Len(ls) + 1 /\ Len(ls) \in Nat
      /\ \A i \in 1..Len(ls) : Append(ls, l)[i] = ls[i]
      /\ Append(ls, l)[Len(ls) + 1] = l
    BY DEF Fits
<1> DEFINE new == Append(ls, l)
<1> HIDE DEF new
<1>2. \A i \in 1..Len(new) : i \in 1..Len(ls) \/ i = Len(ls) + 1
    BY <1>1 DEF new
<1>3. \A i \in 1..Len(new) : FitsOne(new[i], ar, hd, room)
    BY <1>1, <1>2 DEF new, Fits
<1> QED BY <1>1, <1>3 DEF new, Fits

\* A line in the place of another.
LEMMA FitsExcept ==
    ASSUME NEW ar, NEW hd, NEW room, NEW ls, NEW l \in LineTypes, Fits(ls, ar, hd, room),
           FitsOne(l, ar, hd, room), NEW k \in 1..Len(ls)
    PROVE  /\ Fits([ls EXCEPT ![k] = l], ar, hd, room)
           /\ Len([ls EXCEPT ![k] = l]) = Len(ls)
           /\ \A i \in 1..Len(ls) : [ls EXCEPT ![k] = l][i] = IF i = k THEN l ELSE ls[i]
<1>1. ls \in Seq(LineTypes)
    BY DEF Fits
<1>2. /\ [ls EXCEPT ![k] = l] \in Seq(LineTypes) /\ Len([ls EXCEPT ![k] = l]) = Len(ls)
      /\ \A i \in 1..Len(ls) : [ls EXCEPT ![k] = l][i] = IF i = k THEN l ELSE ls[i]
    BY <1>1, ExceptSeq
<1>3. \A i \in 1..Len(ls) : FitsOne([ls EXCEPT ![k] = l][i], ar, hd, room)
    BY <1>2 DEF Fits
<1> QED BY <1>2, <1>3 DEF Fits

\* What a correction does to the buffer: nothing, or a line of that id and sender gets a text.
Edited(l, old, n) ==
    /\ l \in LineTypes /\ l.text = n
    /\ l.of = old.of /\ l.ids = old.ids /\ l.nick = old.nick /\ l.self = old.self
CorrectedTo(ls, new, n, s) ==
    \/ new = ls /\ \A j \in 1..Len(ls) : ~SameSender(ls[j], s)
    \/ \E k \in 1..Len(ls) : \E l : SameSender(ls[k], s) /\ new = [ls EXCEPT ![k] = l] /\ Edited(l, ls[k], n)

LEMMA CorrectedIs ==
    ASSUME NEW ls \in Seq(LineTypes), NEW n \in Nat, NEW s
    PROVE  CorrectedTo(ls, Corrected(ls, n, s), n, s)
<1> DEFINE i == LastSame(ls, s)
<1>1. \/ i = 0 /\ \A j \in 1..Len(ls) : ~SameSender(ls[j], s)
      \/ i \in 1..Len(ls) /\ SameSender(ls[i], s)
    BY NewestSame
<1>2. Corrected(ls, n, s) = IF i = 0 THEN ls ELSE [ls EXCEPT ![i].text = n]
    BY DEF Corrected, Newest, SelectLastInSeq, LastSame
<1> HIDE DEF i
<1>3. CASE i \in 1..Len(ls) /\ SameSender(ls[i], s)
    <2> DEFINE l == [ls[i] EXCEPT !.text = n]
    <2>1. ls[i] \in LineTypes
        BY <1>3
    <2>2. /\ l \in LineTypes /\ l.text = n
          /\ l.of = ls[i].of /\ l.ids = ls[i].ids /\ l.nick = ls[i].nick /\ l.self = ls[i].self
        BY <2>1 DEF LineTypes
    <2>3. Corrected(ls, n, s) = [ls EXCEPT ![i] = l]
        BY <1>2, <1>3
    <2>4. Edited(l, ls[i], n)
        BY <2>2 DEF Edited
    <2> HIDE DEF l
    <2> QED BY <1>3, <2>3, <2>4 DEF CorrectedTo
<1> QED BY <1>1, <1>2, <1>3 DEF CorrectedTo

\* What a retraction does: the newest line of that id becomes a tombstone, if it is of the sender.
LEMMA RetractedIs ==
    ASSUME NEW ls \in Seq(LineTypes), NEW s
    PROVE  \/ Retracted(ls, s) = ls /\ \A j \in 1..Len(ls) : ~Matches(ls[j], s.ref)
           \/ \E k \in 1..Len(ls) :
                 /\ Matches(ls[k], s.ref) /\ \A j \in 1..Len(ls) : Matches(ls[j], s.ref) => j <= k
                 /\ \/ Retracted(ls, s) = ls /\ ls[k].nick # Name(s.from)
                    \/ /\ Retracted(ls, s) = [ls EXCEPT ![k] = Tombstone(ls[k])]
                       /\ ls[k].nick = Name(s.from)
<1> DEFINE i == LastMatch(ls, s.ref)
<1>1. \/ i = 0 /\ \A j \in 1..Len(ls) : ~Matches(ls[j], s.ref)
      \/ /\ i \in 1..Len(ls) /\ Matches(ls[i], s.ref)
         /\ \A j \in 1..Len(ls) : Matches(ls[j], s.ref) => j <= i
    BY NewestMatch
<1>2. Retracted(ls, s) = IF i = 0 \/ ls[i].nick # Name(s.from) THEN ls
                         ELSE [ls EXCEPT ![i] = Tombstone(ls[i])]
    BY DEF Retracted, Newest, SelectLastInSeq, LastMatch
<1> HIDE DEF i
<1> QED BY <1>1, <1>2

LEMMA ModeratedIs ==
    ASSUME NEW ls \in Seq(LineTypes), NEW s
    PROVE  \/ Moderated(ls, s) = ls /\ \A j \in 1..Len(ls) : ~Matches(ls[j], s.ref)
           \/ \E k \in 1..Len(ls) :
                 /\ Matches(ls[k], s.ref) /\ \A j \in 1..Len(ls) : Matches(ls[j], s.ref) => j <= k
                 /\ Moderated(ls, s) = [ls EXCEPT ![k] = Tombstone(ls[k])]
<1> DEFINE i == LastMatch(ls, s.ref)
<1>1. \/ i = 0 /\ \A j \in 1..Len(ls) : ~Matches(ls[j], s.ref)
      \/ /\ i \in 1..Len(ls) /\ Matches(ls[i], s.ref)
         /\ \A j \in 1..Len(ls) : Matches(ls[j], s.ref) => j <= i
    BY NewestMatch
<1>2. Moderated(ls, s) = IF i = 0 THEN ls ELSE [ls EXCEPT ![i] = Tombstone(ls[i])]
    BY DEF Moderated, Newest, SelectLastInSeq, LastMatch
<1> HIDE DEF i
<1>3. CASE i = 0
    BY <1>1, <1>2, <1>3
<1>4. CASE i # 0
    BY <1>1, <1>2, <1>4
<1> QED BY <1>3, <1>4

LEMMA TombstoneIs ==
    ASSUME NEW l \in LineTypes
    PROVE  /\ Tombstone(l) \in LineTypes /\ Tombstone(l).of = l.of /\ Tombstone(l).ids = {}
           /\ Tombstone(l).nick = NoName /\ Tombstone(l).text = Gone /\ Tombstone(l).self = FALSE
BY DEF Tombstone, Line, LineTypes, Gone

\* Each of them leaves a buffer that fits.
LEMMA CorrectedFits ==
    ASSUME NEW ar, NEW hd, NEW room, NEW ls, Fits(ls, ar, hd, room), FairArchive(ar, room),
           NEW n \in 1..Len(ar), ar[n].kind = "correct"
    PROVE  Fits(Corrected(ls, n, ar[n]), ar, hd, room)
<1>1. ls \in Seq(LineTypes) /\ ar[n] \in Stanzas /\ n \in Nat
    BY DEF Fits, FairArchive
<1>2. ASSUME NEW k \in 1..Len(ls), NEW l, SameSender(ls[k], ar[n]), Edited(l, ls[k], n)
      PROVE  Fits([ls EXCEPT ![k] = l], ar, hd, room)
    <2>0. /\ l \in LineTypes /\ l.text = n
          /\ l.of = ls[k].of /\ l.ids = ls[k].ids /\ l.nick = ls[k].nick /\ l.self = ls[k].self
        BY <1>2 DEF Edited
    <2>1. FitsOne(ls[k], ar, hd, room)
        BY DEF Fits
    <2>2. l.nick = Name(ar[n].from) /\ l.nick # NoName /\ n # Gone
        BY <1>1, <1>2, <2>0, NameOf DEF SameSender, Gone
    <2>3. l.nick = Name(ar[l.of].from) /\ l.ids # {} /\ l.of \in 1..Len(ar)
        BY <2>0, <2>1, <2>2 DEF FitsOne
    <2>4. FitsOne(l, ar, hd, room)
        BY <1>1, <2>0, <2>1, <2>2, <2>3 DEF FitsOne
    <2> QED BY <2>0, <2>4, FitsExcept
<1>3. CorrectedTo(ls, Corrected(ls, n, ar[n]), n, ar[n])
    BY <1>1, CorrectedIs
<1> QED BY <1>2, <1>3 DEF CorrectedTo

LEMMA BuriedFits ==
    ASSUME NEW ar, NEW hd, NEW room, NEW ls, Fits(ls, ar, hd, room), FairArchive(ar, room),
           NEW n \in 1..Len(ar), n \in hd, ar[n].kind \in {"retract", "moderate"},
           NEW k \in 1..Len(ls), Matches(ls[k], ar[n].ref),
           ar[n].kind = "retract" => ls[k].nick = Name(ar[n].from)
    PROVE  Fits([ls EXCEPT ![k] = Tombstone(ls[k])], ar, hd, room)
<1>1. ls[k] \in LineTypes /\ ar[n] \in Stanzas
    BY DEF Fits, FairArchive
<1> DEFINE t == Tombstone(ls[k])
<1>2. t \in LineTypes /\ t.of = ls[k].of /\ t.ids = {} /\ t.nick = NoName /\ t.text = Gone /\ t.self = FALSE
    BY <1>1, TombstoneIs
<1> HIDE DEF t
<1>3. FitsOne(ls[k], ar, hd, room) /\ ls[k].of = ar[n].ref.of
    BY DEF Fits, Matches
<1>4. Name(ar[n].from) \in {Name(ar[t.of].from), "room"}
    <2>1. CASE ar[n].kind = "retract"
        BY <1>1, <1>2, <1>3, <2>1, NameOf DEF FitsOne
    <2>2. CASE ar[n].kind = "moderate"
        BY <2>2 DEF FairArchive, Fair, Name, Mine
    <2> QED BY <2>1, <2>2
<1>5. TombstoneFor(t.of, ar, hd)
    BY <1>2, <1>3, <1>4 DEF TombstoneFor
<1>6. FitsOne(t, ar, hd, room)
    BY <1>2, <1>3, <1>5 DEF FitsOne, Gone
<1> QED BY <1>2, <1>6, FitsExcept DEF t

LEMMA RetractedFits ==
    ASSUME NEW ar, NEW hd, NEW room, NEW ls, Fits(ls, ar, hd, room), FairArchive(ar, room),
           NEW n \in 1..Len(ar), n \in hd, ar[n].kind = "retract"
    PROVE  Fits(Retracted(ls, ar[n]), ar, hd, room)
<1>1. ls \in Seq(LineTypes)
    BY DEF Fits
<1>2. \A k \in 1..Len(ls) : Matches(ls[k], ar[n].ref) /\ ls[k].nick = Name(ar[n].from) =>
          Fits([ls EXCEPT ![k] = Tombstone(ls[k])], ar, hd, room)
    BY BuriedFits
<1> QED BY <1>1, <1>2, RetractedIs

LEMMA ModeratedFits ==
    ASSUME NEW ar, NEW hd, NEW room, NEW ls, Fits(ls, ar, hd, room), FairArchive(ar, room),
           NEW n \in 1..Len(ar), n \in hd, ar[n].kind = "moderate"
    PROVE  Fits(Moderated(ls, ar[n]), ar, hd, room)
<1>1. ls \in Seq(LineTypes)
    BY DEF Fits
<1> QED BY <1>1, ModeratedIs, BuriedFits

\* A line of a stanza, as it is printed.
PrintedLine(n, ids, s) == Line(n, ids, Name(s.from), s.from \in Mine, n)

LEMMA PrintedFits ==
    ASSUME NEW ar, NEW hd, NEW room, NEW ls, Fits(ls, ar, hd, room), FairArchive(ar, room),
           NEW n \in 1..Len(ar), ar[n].kind = "text", NEW ids \in SUBSET {"own", "sid"}, ids # {},
           room => "sid" \in ids
    PROVE  /\ PrintedLine(n, ids, ar[n]) \in LineTypes
           /\ Fits(Append(ls, PrintedLine(n, ids, ar[n])), ar, hd, room)
<1> DEFINE l == PrintedLine(n, ids, ar[n])
<1>1. ar[n] \in Stanzas /\ n \in Nat
    BY DEF FairArchive
<1>2. Name(ar[n].from) \in {"me", "contact", "third", "room"} /\ Name(ar[n].from) # NoName
    BY <1>1, NameOf
<1>3. /\ l \in LineTypes /\ l.of = n /\ l.ids = ids /\ l.nick = Name(ar[n].from)
      /\ l.self = (ar[n].from \in Mine) /\ l.text = n
    BY <1>1, <1>2 DEF PrintedLine, Line, LineTypes
<1> HIDE DEF l
<1>4. n # Gone /\ n \in 0..Len(ar) /\ Len(ar) \in Nat
    BY DEF Gone, FairArchive
<1>5. FitsOne(l, ar, hd, room)
    BY <1>2, <1>3, <1>4 DEF FitsOne
<1> QED BY <1>3, <1>5, FitsAppend DEF l

LEMMA TagIdsAre ==
    ASSUME style.room => style.stamped, NEW s, NEW how
    PROVE  /\ TagIds(s, how) \in SUBSET {"own", "sid"} /\ TagIds(s, how) # {}
           /\ style.room => "sid" \in TagIds(s, how)
BY DEF TagIds

\* One stanza more in the archive.
LEMMA ArchiveGrows ==
    ASSUME NEW ar, NEW room, FairArchive(ar, room), NEW s \in Stanzas,
           Fair(s, Len(ar) + 1, ar, room)
    PROVE  /\ FairArchive(Append(ar, s), room)
           /\ Len(Append(ar, s)) = Len(ar) + 1 /\ Len(ar) \in Nat
           /\ \A n \in 1..Len(ar) : Append(ar, s)[n] = ar[n]
           /\ Append(ar, s)[Len(ar) + 1] = s
<1>1. /\ Append(ar, s) \in Seq(Stanzas) /\ Len(Append(ar, s)) = Len(ar) + 1 /\ Len(ar) \in Nat
      /\ \A n \in 1..Len(ar) : Append(ar, s)[n] = ar[n]
      /\ Append(ar, s)[Len(ar) + 1] = s
    BY DEF FairArchive
<1> DEFINE new == Append(ar, s)
<1> HIDE DEF new
<1>2. ASSUME NEW n \in 1..Len(new) PROVE Fair(new[n], n, new, room)
    <2>1. CASE n \in 1..Len(ar)
        <3>1. Fair(ar[n], n, ar, room) /\ new[n] = ar[n]
            BY <1>1, <2>1 DEF FairArchive, new
        <3>2. ar[n].kind # "text" => ar[n].ref.of \in 1..Len(ar) /\ new[ar[n].ref.of] = ar[ar[n].ref.of]
            BY <1>1, <2>1, <3>1 DEF Fair, new
        <3> QED BY <3>1, <3>2 DEF Fair
    <2>2. CASE n = Len(ar) + 1
        <3>1. new[n] = s
            BY <1>1, <2>2 DEF new
        <3>2. s.kind # "text" => s.ref.of \in 1..Len(ar) /\ new[s.ref.of] = ar[s.ref.of]
            BY <1>1 DEF Fair, new
        <3> QED BY <2>2, <3>1, <3>2 DEF Fair
    <2> QED BY <1>1, <1>2, <2>1, <2>2 DEF new
<1> QED BY <1>1, <1>2 DEF new, FairArchive

\* message_handler, for a stanza of the archive.
LEMMA HandlerKeeps ==
    ASSUME style.room => style.stamped, Fits(lines, archive', heard, style.room),
           FairArchive(archive', style.room), NEW n \in 1..Len(archive'), NEW how,
           heard \subseteq 1..Len(archive'), MessageHandler(n, archive'[n], how)
    PROVE  heard' \subseteq 1..Len(archive') /\ Fits(lines', archive', heard', style.room)
<1>1. CASE UNCHANGED <<lines, heard>>
    BY <1>1
<1>2. CASE lines' = Shown(lines, n, archive'[n], how) /\ heard' = heard \cup {n}
    <2>1. Len(archive') \in Nat /\ archive'[n] \in Stanzas
        BY DEF FairArchive
    <2>2. Fits(lines, archive', heard', style.room)
        <3>1. heard \subseteq heard' /\ Len(archive') <= Len(archive')
            BY <1>2, <2>1
        <3> QED BY <2>1, <3>1, FitsLater
    <2>0. heard' \subseteq 1..Len(archive')
        BY <1>2
    <2>3. CASE archive'[n].kind = "correct"
        BY <1>2, <2>2, <2>3, <2>0, CorrectedFits DEF Shown
    <2>4. CASE archive'[n].kind = "retract"
        BY <1>2, <2>2, <2>4, <2>0, RetractedFits DEF Shown
    <2>5. CASE archive'[n].kind = "moderate"
        BY <1>2, <2>2, <2>5, <2>0, ModeratedFits DEF Shown
    <2>6. CASE archive'[n].kind = "text"
        <3> DEFINE ids == TagIds(archive'[n], how)
        <3>1. ids \in SUBSET {"own", "sid"} /\ ids # {} /\ (style.room => "sid" \in ids)
            BY TagIdsAre
        <3>2. lines' = Append(lines, PrintedLine(n, ids, archive'[n]))
            BY <1>2, <2>6 DEF Shown, Printed, PrintedLine
        <3> HIDE DEF ids
        <3> QED BY <2>2, <2>6, <2>0, <3>1, <3>2, PrintedFits
    <2>7. archive'[n].kind \in {"text", "correct", "retract", "moderate"}
        BY <2>1, NameOf
    <2> QED BY <2>3, <2>4, <2>5, <2>6, <2>7, <2>0
<1> QED BY <1>1, <1>2 DEF MessageHandler

LEMMA ArrivesKeeps ==
    ASSUME AuthorInv, NEW s \in Stanzas, Fair(s, Len(archive) + 1, archive, style.room),
           Arrives(s), UNCHANGED <<style, cache, fetch>>
    PROVE  AuthorInv'
<1>1. archive' = Append(archive, s)
    BY DEF Arrives
<1>2. /\ FairArchive(archive', style.room) /\ Len(archive') = Len(archive) + 1 /\ Len(archive) \in Nat
      /\ \A n \in 1..Len(archive) : archive'[n] = archive[n]
      /\ archive'[Len(archive) + 1] = s
    BY <1>1, ArchiveGrows DEF AuthorInv, Written
<1>3. heard \subseteq 1..Len(archive') /\ cache \subseteq 1..Len(archive') /\ at' \in 0..Len(archive')
      /\ upto' \in 0..Len(archive')
    BY <1>2 DEF AuthorInv, Written, fetch
<1>4. Fits(lines, archive', heard, style.room)
    <2>1. Fits(lines, archive, heard, style.room) /\ heard \subseteq 1..Len(archive)
        BY DEF AuthorInv, Written
    <2>2. Len(archive) <= Len(archive') /\ Len(archive') \in Nat
        BY <1>2
    <2> QED BY <1>2, <2>1, <2>2, FitsLater
<1>5. heard' \subseteq 1..Len(archive') /\ Fits(lines', archive', heard', style.room)
    <2>1. CASE UNCHANGED <<lines, heard>>
        BY <1>3, <1>4, <2>1
    <2>2. CASE MessageHandler(Len(archive) + 1, s, "live")
        <3>1. Len(archive) + 1 \in 1..Len(archive')
            BY <1>2
        <3> QED BY <1>2, <1>3, <1>4, <2>2, <3>1, HandlerKeeps DEF AuthorInv, Written
    <2> QED BY <2>1, <2>2 DEF Arrives
<1> QED BY <1>2, <1>3, <1>5 DEF AuthorInv, Written

\* What is sent: a text, or something about a message of the archive.
LEMMA StanzaFair ==
    ASSUME AuthorInv, NEW from \in {"here", "elsewhere", "contact", "third"},
           NEW kind \in {"text", "correct", "retract"}, NEW m \in Nat, NEW by \in {"own", "sid"},
           kind # "text" => m \in Texts,
           style.room /\ kind = "retract" => by = "sid"
    PROVE  LET s == Stanza(kind, from, Ref(m, by), TRUE)
           IN  s \in Stanzas /\ Fair(s, Len(archive) + 1, archive, style.room)
<1> DEFINE s == Stanza(kind, from, Ref(m, by), TRUE)
<1>1. /\ s \in Stanzas /\ s.kind = kind /\ s.from = from /\ s.ref.of = m /\ s.ref.by = by /\ s.body
    BY DEF Stanza, Ref, Stanzas
<1> HIDE DEF s
<1>2. kind # "text" => m \in 1..Len(archive) /\ archive[m].kind = "text"
    BY DEF Texts, AuthorInv, Written, FairArchive
<1>3. Len(archive) \in Nat
    BY DEF AuthorInv, Written, FairArchive
<1>4. Fair(s, Len(archive) + 1, archive, style.room)
    BY <1>1, <1>2, <1>3 DEF Fair
<1> QED BY <1>1, <1>4 DEF s

-------------------------------------------------------------------------------
\* The actions.

LEMMA AuthorOthersWrite ==
    ASSUME AuthorInv, OthersWrite
    PROVE  AuthorInv'
<1>0. UNCHANGED <<style, cache, fetch>>
    BY DEF OthersWrite
<1>1. PICK from \in Others, kind \in {"text", "correct", "retract"}, m \in Nat, by \in {"own", "sid"} :
          /\ Arrives(Stanza(kind, from, Ref(m, by), TRUE))
          /\ kind # "text" => m \in Texts
          /\ style.room /\ kind = "retract" => by = "sid"
    <2>1. PICK from \in Others :
             \/ Arrives(Stanza("text", from, NoRef, TRUE))
             \/ \E kind \in {"correct", "retract"}, m \in Texts :
                   Arrives(Stanza(kind, from, Ref(m, Naming(kind)), TRUE))
        BY DEF OthersWrite
    <2>2. CASE Arrives(Stanza("text", from, NoRef, TRUE))
        BY <2>2 DEF NoRef
    <2>3. ASSUME NEW kind \in {"correct", "retract"}, NEW m \in Texts,
                 Arrives(Stanza(kind, from, Ref(m, Naming(kind)), TRUE))
          PROVE  \E b \in {"own", "sid"} :
                    /\ Arrives(Stanza(kind, from, Ref(m, b), TRUE))
                    /\ style.room /\ kind = "retract" => b = "sid"
        BY <2>3 DEF Naming
    <2>4. Texts \subseteq Nat
        BY DEF Texts, AuthorInv, Written, FairArchive
    <2> QED BY <2>1, <2>2, <2>3, <2>4
<1>2. PICK s : s = Stanza(kind, from, Ref(m, by), TRUE)
    OBVIOUS
<1>3. from \in {"here", "elsewhere", "contact", "third"}
    BY DEF Others
<1>4. s \in Stanzas /\ Fair(s, Len(archive) + 1, archive, style.room)
    BY <1>1, <1>2, <1>3, StanzaFair
<1> QED BY <1>0, <1>1, <1>2, <1>4, ArrivesKeeps

LEMMA AuthorRoomModerates ==
    ASSUME AuthorInv, RoomModerates
    PROVE  AuthorInv'
<1>1. PICK m \in Texts, body \in BOOLEAN : Arrives(Stanza("moderate", "room", Ref(m, "sid"), body))
    BY DEF RoomModerates
<1>2. PICK s : s = Stanza("moderate", "room", Ref(m, "sid"), body)
    OBVIOUS
<1>3. m \in 1..Len(archive) /\ archive[m].kind = "text" /\ Len(archive) \in Nat
    BY DEF Texts, AuthorInv, Written, FairArchive
<1>4. s \in Stanzas /\ Fair(s, Len(archive) + 1, archive, style.room)
    BY <1>2, <1>3 DEF Stanza, Ref, Stanzas, Fair, RoomModerates
<1> QED BY <1>1, <1>2, <1>4, ArrivesKeeps DEF RoomModerates

\* The lines the user's commands name.
LEMMA OwnLineIs ==
    ASSUME AuthorInv, NEW i \in OwnLines
    PROVE  /\ Resolved(lines[i]).of \in Texts /\ Resolved(lines[i]).by \in {"own", "sid"}
           /\ Resolved(lines[i]) = Ref(Resolved(lines[i]).of, Resolved(lines[i]).by)
           /\ style.room => Resolved(lines[i]).by = "sid"
<1>1. i \in 1..Len(lines) /\ lines[i].self
    BY DEF OwnLines, AuthorInv, Fits
<1>2. FitsOne(lines[i], archive, heard, style.room)
    BY <1>1 DEF AuthorInv, Fits
<1>3. lines[i].of \in Texts
    BY <1>1, <1>2 DEF FitsOne, Texts, AuthorInv, Written, FairArchive
<1> QED BY <1>1, <1>2, <1>3 DEF FitsOne, Resolved, Ref

LEMMA AuthorSends ==
    ASSUME AuthorInv, NEW kind \in {"correct", "retract"}, UNCHANGED <<style, cache, fetch>>,
           \E i \in OwnLines : Arrives(Stanza(kind, "here", Resolved(lines[i]), TRUE))
    PROVE  AuthorInv'
<1>1. PICK i \in OwnLines : Arrives(Stanza(kind, "here", Resolved(lines[i]), TRUE))
    OBVIOUS
<1>2. PICK m \in Texts, by \in {"own", "sid"} : Resolved(lines[i]) = Ref(m, by) /\ (style.room => by = "sid")
    BY OwnLineIs
<1>3. PICK s : s = Stanza(kind, "here", Ref(m, by), TRUE)
    OBVIOUS
<1>4. s \in Stanzas /\ Fair(s, Len(archive) + 1, archive, style.room)
    <2>1. m \in Nat
        BY DEF Texts, AuthorInv, Written, FairArchive
    <2> QED BY <1>2, <1>3, <2>1, StanzaFair
<1> QED BY <1>1, <1>2, <1>3, <1>4, ArrivesKeeps

LEMMA AuthorReply ==
    ASSUME AuthorInv, Reply
    PROVE  AuthorInv'
<1>1. PICK i \in DOMAIN lines : Arrives(Stanza("text", "here", Resolved(lines[i]), TRUE))
    <2> DEFINE T == {i \in 1..Len(lines) : ~lines[i].self /\ lines[i].ids # {}}
    <2>1. Newest(lines, LAMBDA l : ~l.self /\ l.ids # {}) = IF T # {} THEN Max(T) ELSE 0
        BY DEF Newest, SelectLastInSeq
    <2>2. Len(lines) \in Nat /\ DOMAIN lines = 1..Len(lines)
        BY DEF AuthorInv, Fits
    <2>3. T # {} => Max(T) \in T
        BY <2>2, LastOf
    <2>4. PICK k : /\ k = IF T # {} THEN Max(T) ELSE 0
                   /\ k # 0 /\ Arrives(Stanza("text", "here", Resolved(lines[k]), TRUE))
        BY <2>1 DEF Reply
    <2> QED BY <2>2, <2>3, <2>4
<1>2. PICK m \in Nat, by \in {"own", "sid"} : Resolved(lines[i]) = Ref(m, by)
    <2>1. lines[i] \in LineTypes
        BY DEF AuthorInv, Fits
    <2>2. lines[i].of \in Nat
        BY <2>1 DEF LineTypes
    <2> QED BY <2>2 DEF Resolved
<1>3. PICK s : s = Stanza("text", "here", Ref(m, by), TRUE)
    OBVIOUS
<1>4. s \in Stanzas /\ Fair(s, Len(archive) + 1, archive, style.room)
    BY <1>3, StanzaFair
<1> QED BY <1>1, <1>2, <1>3, <1>4, ArrivesKeeps DEF Reply

LEMMA AuthorWrite ==
    ASSUME AuthorInv, Write
    PROVE  AuthorInv'
<1> DEFINE n == Len(archive) + 1
<1>1. PICK s : s = Stanza("text", "here", NoRef, TRUE)
    OBVIOUS
<1>2. /\ s \in Stanzas /\ Fair(s, n, archive, style.room) /\ s.kind = "text" /\ s.from = "here"
    BY <1>1, StanzaFair DEF NoRef, Stanza
<1>3. CASE style.room
    BY <1>1, <1>2, <1>3, ArrivesKeeps DEF Write
<1>4. CASE ~style.room
    <2>1. /\ archive' = Append(archive, s) /\ UNCHANGED <<style, cache, at, upto, heard>>
          /\ lines' = Append(lines, Line(n, {"own"}, NoName, TRUE, n))
        BY <1>1, <1>4 DEF Write, fetch
    <2>2. /\ FairArchive(archive', style.room) /\ Len(archive') = Len(archive) + 1 /\ Len(archive) \in Nat
          /\ \A i \in 1..Len(archive) : archive'[i] = archive[i]
          /\ archive'[n] = s
        BY <1>2, <2>1, ArchiveGrows DEF AuthorInv, Written
    <2>3. heard \subseteq 1..Len(archive') /\ cache \subseteq 1..Len(archive') /\ at \in 0..Len(archive')
          /\ upto \in 0..Len(archive')
        BY <2>2 DEF AuthorInv, Written
    <2>4. Fits(lines, archive', heard, style.room)
        <3>1. Fits(lines, archive, heard, style.room) /\ heard \subseteq 1..Len(archive)
            BY DEF AuthorInv, Written
        <3>2. Len(archive) <= Len(archive') /\ Len(archive') \in Nat
            BY <2>2
        <3> QED BY <2>2, <3>1, <3>2, FitsLater
    <2> DEFINE l == Line(n, {"own"}, NoName, TRUE, n)
    <2>5. /\ l \in LineTypes /\ l.of = n /\ l.ids = {"own"} /\ l.nick = NoName /\ l.self /\ l.text = n
        BY <2>2 DEF Line, LineTypes
    <2> HIDE DEF l
    <2>6. n \in 1..Len(archive') /\ n \in 0..Len(archive') /\ n # Gone
        BY <2>2 DEF Gone
    <2>7. FitsOne(l, archive', heard, style.room)
        BY <1>2, <1>4, <2>2, <2>5, <2>6 DEF FitsOne
    <2>8. Fits(lines', archive', heard, style.room)
        BY <2>1, <2>4, <2>5, <2>7, FitsAppend DEF l
    <2> QED BY <2>1, <2>2, <2>3, <2>8 DEF AuthorInv, Written
<1> QED BY <1>3, <1>4

\* What the cache gives.
LEMMA LoadedIs ==
    ASSUME cache \subseteq 1..Len(archive), Len(archive) \in Nat, NEW more \in Loaded
    PROVE  /\ Cardinality(Kept) \in Nat /\ Len(more) = Cardinality(Kept)
           /\ more \in Seq(LineTypes)
           /\ \A i \in 1..Len(more) : \E n \in Kept :
                 /\ more[i].of = n /\ more[i].ids = {"own"} /\ more[i].nick = NoName
                 /\ ~more[i].self /\ more[i].text \in {Gone, n}
           /\ \A i, j \in 1..Len(more) : i < j => more[i].of < more[j].of
<1>1. Kept \subseteq Nat /\ IsFiniteSet(Kept)
    <2>1. IsFiniteSet(1..Len(archive))
        BY FS_Interval
    <2>2. Kept \subseteq 1..Len(archive)
        BY DEF Kept
    <2>3. IsFiniteSet(Kept)
        BY <2>1, <2>2, FS_Subset
    <2>4. Kept \subseteq Nat
        BY <2>2
    <2> QED BY <2>3, <2>4
<1>2. Cardinality(Kept) \in Nat
    BY <1>1, FS_CardinalityType
<1> DEFINE K == Cardinality(Kept)
<1> HIDE DEF K
<1>3. PICK f : /\ f \in [1..K -> Kept] /\ (\A i, j \in DOMAIN f : i < j => f[i] < f[j])
               /\ more = [i \in DOMAIN f |-> CachedLine(f[i])]
    BY DEF Loaded, InOrder, K
<1>4. K \in Nat
    BY <1>2 DEF K
<1>5. \A n \in Kept : /\ CachedLine(n) \in LineTypes /\ CachedLine(n).of = n /\ CachedLine(n).ids = {"own"}
                      /\ CachedLine(n).nick = NoName /\ ~CachedLine(n).self
                      /\ CachedLine(n).text \in {Gone, n}
    BY <1>1 DEF CachedLine, Line, LineTypes, Gone
<1>6. more = [i \in 1..K |-> CachedLine(f[i])] /\ \A i \in 1..K : f[i] \in Kept
    BY <1>3
<1>7. more \in Seq(LineTypes) /\ Len(more) = K
    BY <1>4, <1>5, <1>6
<1>8. \A i \in 1..K : more[i] = CachedLine(f[i])
    BY <1>6
<1>9. \A i, j \in 1..Len(more) : i < j => more[i].of < more[j].of
    BY <1>3, <1>5, <1>6, <1>7, <1>8
<1> QED BY <1>2, <1>5, <1>6, <1>7, <1>8, <1>9 DEF K

LEMMA FitsConcat ==
    ASSUME NEW ar, NEW hd, NEW room, NEW ls, NEW more, Fits(ls, ar, hd, room), Fits(more, ar, hd, room)
    PROVE  /\ Fits(ls \o more, ar, hd, room) /\ Len(ls) \in Nat /\ Len(more) \in Nat
           /\ Len(ls \o more) = Len(ls) + Len(more)
           /\ \A i \in 1..Len(ls) : (ls \o more)[i] = ls[i]
           /\ \A i \in 1..Len(more) : (ls \o more)[Len(ls) + i] = more[i]
<1> DEFINE new == ls \o more
<1>1. /\ new \in Seq(LineTypes) /\ Len(ls) \in Nat /\ Len(more) \in Nat
      /\ Len(new) = Len(ls) + Len(more)
      /\ \A i \in 1..Len(new) : new[i] = IF i <= Len(ls) THEN ls[i] ELSE more[i - Len(ls)]
    BY ConcatProperties DEF Fits
<1> HIDE DEF new
<1>2. /\ \A i \in 1..Len(ls) : new[i] = ls[i]
      /\ \A i \in 1..Len(more) : new[Len(ls) + i] = more[i]
    BY <1>1
<1>3. \A i \in 1..Len(new) : i \in 1..Len(ls) \/ (i - Len(ls) \in 1..Len(more) /\ new[i] = more[i - Len(ls)])
    BY <1>1
<1>4. \A i \in 1..Len(new) : FitsOne(new[i], ar, hd, room)
    BY <1>2, <1>3 DEF Fits
<1> QED BY <1>1, <1>2, <1>4 DEF Fits, new

LEMMA LoadedFits ==
    ASSUME AuthorInv, NEW more \in Loaded
    PROVE  Fits(more, archive, heard, style.room)
<1>0. cache \subseteq 1..Len(archive) /\ Len(archive) \in Nat
    BY DEF AuthorInv, Written, FairArchive
<1>1. /\ more \in Seq(LineTypes)
      /\ \A i \in 1..Len(more) : \E n \in Kept :
            /\ more[i].of = n /\ more[i].ids = {"own"} /\ more[i].nick = NoName
            /\ ~more[i].self /\ more[i].text \in {Gone, n}
    BY <1>0, LoadedIs
<1>2. ASSUME NEW l, NEW n \in Kept,
             l.of = n, l.ids = {"own"}, l.nick = NoName, ~l.self, l.text \in {Gone, n}
      PROVE  FitsOne(l, archive, heard, style.room)
    BY <1>0, <1>2 DEF FitsOne, Kept, Gone
<1> QED BY <1>1, <1>2 DEF Fits

LEMMA AuthorConnect ==
    ASSUME AuthorInv, Connect
    PROVE  AuthorInv'
<1>1. UNCHANGED <<style, archive, upto, heard>> /\ cache' \subseteq cache
    BY DEF Connect
<1>2. at' \in 0..Len(archive)
    <2>1. Len(archive) \in Nat
        BY DEF AuthorInv, Written, FairArchive
    <2>2. PICK k \in 1..(IF back > 0 THEN back ELSE IF cursor > 0 THEN cursor ELSE 1) :
              at' = IF k > Len(archive) THEN 0 ELSE k
        BY DEF Connect
    <2>3. k \in Int /\ k >= 1
        BY <2>2
    <2> QED BY <2>1, <2>2, <2>3
<1>3. Fits(lines', archive, heard, style.room)
    <2>1. PICK more \in Loaded : lines' = lines \o more \/ lines' = lines
        BY DEF Connect
    <2>2. Fits(lines, archive, heard, style.room) /\ Fits(more, archive, heard, style.room)
        BY LoadedFits DEF AuthorInv
    <2>3. Fits(lines \o more, archive, heard, style.room)
        BY <2>2, FitsConcat
    <2> QED BY <2>1, <2>2, <2>3
<1> QED BY <1>1, <1>2, <1>3 DEF AuthorInv, Written

LEMMA AuthorJoinRoom ==
    ASSUME AuthorInv, JoinRoom
    PROVE  AuthorInv'
<1>1. UNCHANGED <<style, archive, heard, cache>>
    BY DEF JoinRoom
<1>2. Len(archive) \in Nat /\ at \in 0..Len(archive)
    BY DEF AuthorInv, Written, FairArchive
<1>3. at' \in 0..Len(archive) /\ upto' \in 0..Len(archive)
    <2>1. \/ at' = at /\ upto' = upto
          \/ /\ upto' = Len(archive)
             /\ \E k \in 1..(Len(archive) + 1) : ~(k > Len(archive)) /\ at' = k
        BY DEF JoinRoom
    <2>2. upto \in 0..Len(archive)
        BY DEF AuthorInv, Written
    <2> QED BY <1>2, <2>1, <2>2
<1>4. Fits(lines', archive, heard, style.room)
    <2>1. lines' = lines \/ \E more \in Loaded : lines' = lines \o more
        BY DEF JoinRoom
    <2>2. ASSUME NEW more \in Loaded PROVE Fits(lines \o more, archive, heard, style.room)
        <3>1. Fits(lines, archive, heard, style.room) /\ Fits(more, archive, heard, style.room)
            BY LoadedFits DEF AuthorInv
        <3> QED BY <3>1, FitsConcat
    <2>3. Fits(lines, archive, heard, style.room)
        BY DEF AuthorInv
    <2> QED BY <2>1, <2>2, <2>3
<1> QED BY <1>1, <1>3, <1>4 DEF AuthorInv, Written

LEMMA AuthorOnResult ==
    ASSUME AuthorInv, OnResult
    PROVE  AuthorInv'
<1>1. UNCHANGED <<style, archive>> /\ up /\ at > 0 /\ OnArchived(at, archive[at]) /\ CatchupStep
    BY DEF OnResult
<1>2. Len(archive) \in Nat /\ at \in 1..Len(archive)
    BY <1>1 DEF AuthorInv, Written, FairArchive
<1>3. at' \in 0..Len(archive) /\ upto' \in 0..Len(archive)
    <2>1. upto \in 0..Len(archive)
        BY DEF AuthorInv, Written
    <2>2. style.room /\ at < upto => at < Len(archive)
        BY <1>2, <2>1
    <2> QED BY <1>1, <1>2, <2>1, <2>2 DEF CatchupStep
<1>4. cache' \subseteq 1..Len(archive)
    BY <1>1, <1>2 DEF OnArchived, AuthorInv, Written
<1>5. heard' \subseteq 1..Len(archive) /\ Fits(lines', archive', heard', style.room)
    <2>1. CASE UNCHANGED <<lines, heard>>
        BY <1>1, <2>1 DEF AuthorInv, Written
    <2>2. CASE MessageHandler(at, archive[at], "archive")
        <3>1. PICK n : n = at
            OBVIOUS
        <3>2. n \in 1..Len(archive') /\ MessageHandler(n, archive'[n], "archive")
            BY <1>1, <1>2, <2>2, <3>1
        <3>3. /\ style.room => style.stamped
              /\ Fits(lines, archive', heard, style.room) /\ FairArchive(archive', style.room)
              /\ heard \subseteq 1..Len(archive')
            BY <1>1 DEF AuthorInv, Written
        <3> QED BY <1>1, <3>2, <3>3, HandlerKeeps
    <2> QED BY <1>1, <2>1, <2>2 DEF OnArchived
<1> QED BY <1>1, <1>3, <1>4, <1>5 DEF AuthorInv, Written

LEMMA AuthorEnds ==
    ASSUME AuthorInv, Lose \/ Restart \/ UNCHANGED vars
    PROVE  AuthorInv'
<1>1. CASE Lose \/ UNCHANGED vars
    <2>1. UNCHANGED <<style, archive, heard, cache, lines>> /\ at' \in {0, at}
          /\ upto' \in {0, upto}
        BY <1>1 DEF Lose, vars, store, fetch
    <2> QED BY <2>1 DEF AuthorInv, Written, FairArchive
<1>2. CASE Restart
    <2>1. UNCHANGED <<style, archive>> /\ heard' = {} /\ cache' \subseteq cache /\ lines' = <<>> /\ at' = 0 /\ upto' = 0
        BY <1>2 DEF Restart
    <2>2. Fits(<<>>, archive, {}, style.room)
        BY EmptySeq DEF Fits
    <2>3. Len(archive) \in Nat
        BY DEF AuthorInv, Written, FairArchive
    <2> QED BY <2>1, <2>2, <2>3 DEF AuthorInv, Written
<1> QED BY <1>1, <1>2

LEMMA AuthorInit == Init => AuthorInv
<1> SUFFICES ASSUME Init PROVE AuthorInv
    OBVIOUS
<1>1. Fits(<<>>, <<>>, {}, style.room)
    BY EmptySeq DEF Fits
<1>2. FairArchive(<<>>, style.room) /\ Len(<<>>) = 0
    BY EmptySeq DEF FairArchive
<1> QED BY <1>1, <1>2 DEF Init, AuthorInv, Written

LEMMA AuthorNext == AuthorInv /\ [Next]_vars => AuthorInv'
<1> SUFFICES ASSUME AuthorInv, [Next]_vars PROVE AuthorInv'
    OBVIOUS
<1>1. CASE Edit
    BY <1>1, AuthorSends DEF Edit
<1>2. CASE Retract
    BY <1>2, AuthorSends DEF Retract
<1> QED BY <1>1, <1>2, AuthorOthersWrite, AuthorRoomModerates, AuthorReply, AuthorWrite,
           AuthorConnect, AuthorJoinRoom, AuthorOnResult, AuthorEnds DEF Next

\* A line shows only what the author of its message wrote, and becomes a tombstone only by
\* its author or the room: for any number of stanzas, in any order, live, repeated from the
\* archive or loaded from the cache.
THEOREM AuthorOnlyCorrect == Spec => []AuthorOnly
<1>1. AuthorInv => AuthorOnly
    <2> SUFFICES ASSUME AuthorInv, NEW i \in DOMAIN lines
                 PROVE  LET l == lines[i]
                        IN  IF l.text # Gone
                            THEN Name(archive[l.text].from) = Name(archive[l.of].from)
                            ELSE l.ids = {} => TombstoneFor(l.of, archive, heard)
        BY DEF AuthorOnly, TombstoneFor
    <2>1. FitsOne(lines[i], archive, heard, style.room)
        BY DEF AuthorInv, Fits
    <2> QED BY <2>1 DEF FitsOne
<1> QED BY <1>1, AuthorInit, AuthorNext, PTL DEF Spec

-------------------------------------------------------------------------------
(* What is in effect.  A line that names its author shows the author's       *)
(* newest correction among the stanzas that are covered, and none of them    *)
(* retracts it, unless amendments of its message are excepted (X).  For a    *)
(* contact covered is what the catch-up has passed: it goes through the      *)
(* archive in order from a place before which all was in effect.             *)

Shows(l) == l.ids # {}

Amends(l, n, kind, ar) ==
    ar[n].kind = kind /\ Matches(l, ar[n].ref) /\ Name(ar[n].from) = Name(ar[l.of].from)
Ends(l, n, ar) ==
    Amends(l, n, "retract", ar) \/ (ar[n].kind = "moderate" /\ Matches(l, ar[n].ref))

InEffect(l, n, ar) == (Amends(l, n, "correct", ar) => n <= l.text) /\ ~Ends(l, n, ar)
TextOf(l, hd, ar) == l.text = l.of \/ (l.text \in hd /\ Amends(l, l.text, "correct", ar))
Sound(l, X, ar) == l.nick # NoName /\ \A n \in X : ar[n].ref.of # l.of
Eff(ls, hd, ar, C, X) ==
    \A i \in 1..Len(ls) : Sound(ls[i], X, ar) =>
        TextOf(ls[i], hd, ar) /\ \A n \in hd \cap C : InEffect(ls[i], n, ar)

\* No two lines of a message can be told apart by an id; a room's buffer may hold
\* cached copies besides.
One(ls, room) ==
    \A i, j \in 1..Len(ls) :
        ls[i].of = ls[j].of /\ Shows(ls[i]) /\ Shows(ls[j]) =>
            i = j \/ (room /\ (ls[i].nick = NoName \/ ls[j].nick = NoName))

\* What handling stanza n makes of the lines that name their author, and that it
\* leaves alone those that do not.
Handled(ls, new, n, ar) ==
    /\ \A j \in 1..Len(new) : new[j].nick # NoName =>
          \/ /\ j \in 1..Len(ls) /\ ls[j].nick # NoName
             /\ ls[j].of = new[j].of /\ ls[j].ids = new[j].ids
             /\ new[j].text = ls[j].text \/ (new[j].text = n /\ Amends(new[j], n, "correct", ar))
             /\ Amends(new[j], n, "correct", ar) => new[j].text = n
             /\ ~Ends(new[j], n, ar)
          \/ ar[n].kind = "text" /\ new[j].of = n /\ new[j].text = n
    /\ \A j \in 1..Len(new) : new[j].nick = NoName /\ Shows(new[j]) =>
          j \in 1..Len(ls) /\ ls[j] = new[j]
    /\ \A j \in 1..Len(ls) : ls[j].nick = NoName /\ Shows(ls[j]) =>
          j \in 1..Len(new) /\ new[j] = ls[j]

LEMMA CorrectedHandled ==
    ASSUME NEW ar, NEW hd, NEW room, NEW ls, Fits(ls, ar, hd, room), FairArchive(ar, room),
           NEW n \in 1..Len(ar), ar[n].kind = "correct", One(ls, room)
    PROVE  /\ Handled(ls, Corrected(ls, n, ar[n]), n, ar)
           /\ One(Corrected(ls, n, ar[n]), room)
<1>1. ls \in Seq(LineTypes) /\ ar[n] \in Stanzas /\ n \in Nat
    BY DEF Fits, FairArchive
<1>0. PICK new : new = Corrected(ls, n, ar[n])
    OBVIOUS
<1> SUFFICES Handled(ls, new, n, ar) /\ One(new, room)
    BY <1>0
<1>2. \A j \in 1..Len(ls) : ls[j].nick # NoName => ls[j].nick = Name(ar[ls[j].of].from) /\ Shows(ls[j])
    BY DEF Fits, FitsOne, Shows
<1>3. \A l : ~Ends(l, n, ar)
    BY DEF Ends, Amends
<1>4. CASE new = ls /\ \A j \in 1..Len(ls) : ~SameSender(ls[j], ar[n])
    <2>1. \A j \in 1..Len(ls) : ls[j].nick # NoName => ~Amends(ls[j], n, "correct", ar)
        BY <1>2, <1>4 DEF Amends, SameSender
    <2> QED BY <1>3, <1>4, <2>1 DEF Handled
<1>5. ASSUME NEW k \in 1..Len(ls), NEW l, SameSender(ls[k], ar[n]),
             new = [ls EXCEPT ![k] = l], Edited(l, ls[k], n)
      PROVE  Handled(ls, new, n, ar) /\ One(new, room)
    <2>0. /\ l \in LineTypes /\ l.text = n
          /\ l.of = ls[k].of /\ l.ids = ls[k].ids /\ l.nick = ls[k].nick
        BY <1>5 DEF Edited
    <2>1. Len(new) = Len(ls) /\ \A i \in 1..Len(ls) : new[i] = IF i = k THEN l ELSE ls[i]
        BY <1>1, <1>5, <2>0, ExceptSeq
    <2>2. \A i \in 1..Len(ls) : new[i].of = ls[i].of /\ new[i].ids = ls[i].ids /\ new[i].nick = ls[i].nick
        BY <2>0, <2>1
    <2>3. One(new, room)
        BY <2>1, <2>2 DEF One, Shows
    <2>4. ls[k].nick # NoName /\ Matches(ls[k], ar[n].ref) /\ Shows(ls[k])
        BY <1>1, <1>5, NameOf DEF SameSender, Matches, Shows
    <2>5. ASSUME NEW j \in 1..Len(ls), ls[j].nick # NoName, Amends(ls[j], n, "correct", ar)
          PROVE  j = k
        BY <1>2, <2>4, <2>5 DEF One, Amends, Matches
    <2>6. Amends(l, n, "correct", ar)
        <3>1. Name(ar[n].from) = Name(ar[l.of].from)
            BY <1>2, <1>5, <2>0, <2>4 DEF SameSender
        <3> QED BY <2>0, <2>4, <3>1 DEF Amends, Matches
    <2>7. \A j \in 1..Len(new) : j # k => new[j] = ls[j]
        BY <2>1
    <2>8. new[k] = l
        BY <2>1
    <2> QED BY <1>3, <2>0, <2>1, <2>3, <2>4, <2>5, <2>6, <2>7, <2>8 DEF Handled
<1>6. CorrectedTo(ls, new, n, ar[n])
    BY <1>0, <1>1, CorrectedIs
<1> QED BY <1>4, <1>5, <1>6 DEF CorrectedTo

\* A stanza that ends a line finds it: it is the only line with the id it names.
LEMMA EndedIsFound ==
    ASSUME NEW ar, NEW hd, NEW room, NEW ls, Fits(ls, ar, hd, room), FairArchive(ar, room),
           NEW n \in 1..Len(ar), ar[n].kind \in {"retract", "moderate"}, One(ls, room),
           NEW k \in 1..Len(ls), Matches(ls[k], ar[n].ref),
           NEW j \in 1..Len(ls), ls[j].nick # NoName, Ends(ls[j], n, ar)
    PROVE  j = k
<1>1. Matches(ls[j], ar[n].ref)
    BY DEF Ends, Amends
<1>2. room => ar[n].ref.by = "sid"
    BY DEF FairArchive, Fair
<1>3. FitsOne(ls[k], ar, hd, room)
    BY DEF Fits
<1>4. room => ls[k].nick # NoName
    BY <1>2, <1>3 DEF FitsOne, Matches
<1>5. Shows(ls[k]) /\ Shows(ls[j]) /\ ls[j].of = ls[k].of
    BY <1>1 DEF Matches, Shows
<1> QED BY <1>4, <1>5 DEF One

LEMMA BuriedHandled ==
    ASSUME NEW ar, NEW hd, NEW room, NEW ls, Fits(ls, ar, hd, room), FairArchive(ar, room),
           NEW n \in 1..Len(ar), ar[n].kind \in {"retract", "moderate"}, One(ls, room),
           NEW k \in 1..Len(ls), Matches(ls[k], ar[n].ref), ls[k].nick # NoName
    PROVE  /\ Handled(ls, [ls EXCEPT ![k] = Tombstone(ls[k])], n, ar)
           /\ One([ls EXCEPT ![k] = Tombstone(ls[k])], room)
<1>1. ls \in Seq(LineTypes) /\ ls[k] \in LineTypes
    BY DEF Fits
<1> DEFINE t == Tombstone(ls[k])
           new == [ls EXCEPT ![k] = t]
<1>2. t \in LineTypes /\ t.of = ls[k].of /\ t.ids = {} /\ t.nick = NoName
    BY <1>1, TombstoneIs
<1> HIDE DEF t
<1>3. Len(new) = Len(ls) /\ \A i \in 1..Len(ls) : new[i] = IF i = k THEN t ELSE ls[i]
    BY <1>1, <1>2, ExceptSeq
<1> HIDE DEF new
<1>4. \A j \in 1..Len(ls) : j # k => new[j] = ls[j]
    BY <1>3
<1>5. new[k] = t
    BY <1>3
<1>6. One(new, room)
    BY <1>2, <1>3, <1>4, <1>5 DEF One, Shows
<1>7. \A l : ~Amends(l, n, "correct", ar)
    BY DEF Amends
<1>8. \A j \in 1..Len(ls) : ls[j].nick # NoName /\ j # k => ~Ends(ls[j], n, ar)
    BY EndedIsFound
<1>9. Handled(ls, new, n, ar)
    BY <1>2, <1>3, <1>4, <1>5, <1>7, <1>8 DEF Handled, Shows
<1> QED BY <1>6, <1>9 DEF new, t

LEMMA NotBuriedHandled ==
    ASSUME NEW ar, NEW room, NEW ls, NEW n \in 1..Len(ar),
           ar[n].kind \in {"retract", "moderate"}, One(ls, room),
           \A j \in 1..Len(ls) : ls[j].nick # NoName => ~Ends(ls[j], n, ar)
    PROVE  Handled(ls, ls, n, ar)
<1>1. \A l : ~Amends(l, n, "correct", ar)
    BY DEF Amends
<1> QED BY <1>1 DEF Handled

LEMMA RetractedHandled ==
    ASSUME NEW ar, NEW hd, NEW room, NEW ls, Fits(ls, ar, hd, room), FairArchive(ar, room),
           NEW n \in 1..Len(ar), ar[n].kind = "retract", One(ls, room)
    PROVE  Handled(ls, Retracted(ls, ar[n]), n, ar) /\ One(Retracted(ls, ar[n]), room)
<1> DEFINE new == Retracted(ls, ar[n])
<1> SUFFICES Handled(ls, new, n, ar) /\ One(new, room)
    OBVIOUS
<1>1. ls \in Seq(LineTypes) /\ ar[n] \in Stanzas
    BY DEF Fits, FairArchive
<1>2. \/ new = ls /\ \A j \in 1..Len(ls) : ~Matches(ls[j], ar[n].ref)
      \/ \E k \in 1..Len(ls) :
            /\ Matches(ls[k], ar[n].ref)
            /\ \/ new = ls /\ ls[k].nick # Name(ar[n].from)
               \/ new = [ls EXCEPT ![k] = Tombstone(ls[k])] /\ ls[k].nick = Name(ar[n].from)
    BY <1>1, RetractedIs
<1> HIDE DEF new
<1>3. CASE new = ls /\ \A j \in 1..Len(ls) : ~Matches(ls[j], ar[n].ref)
    <2>1. \A j \in 1..Len(ls) : ~Ends(ls[j], n, ar)
        BY <1>3 DEF Ends, Amends
    <2> QED BY <1>3, <2>1, NotBuriedHandled
<1>4. ASSUME NEW k \in 1..Len(ls), Matches(ls[k], ar[n].ref), new = ls, ls[k].nick # Name(ar[n].from)
      PROVE  Handled(ls, new, n, ar) /\ One(new, room)
    <2>1. ASSUME NEW j \in 1..Len(ls), ls[j].nick # NoName, Ends(ls[j], n, ar) PROVE FALSE
        <3>1. j = k
            BY <1>4, <2>1, EndedIsFound
        <3>2. Name(ar[n].from) = Name(ar[ls[j].of].from)
            BY <2>1 DEF Ends, Amends
        <3>3. FitsOne(ls[j], ar, hd, room)
            BY DEF Fits
        <3> QED BY <1>4, <2>1, <3>1, <3>2, <3>3 DEF FitsOne
    <2> QED BY <1>4, <2>1, NotBuriedHandled
<1>5. ASSUME NEW k \in 1..Len(ls), Matches(ls[k], ar[n].ref),
             new = [ls EXCEPT ![k] = Tombstone(ls[k])], ls[k].nick = Name(ar[n].from)
      PROVE  Handled(ls, new, n, ar) /\ One(new, room)
    <2>1. ls[k].nick # NoName
        BY <1>1, <1>5, NameOf
    <2> QED BY <1>5, <2>1, BuriedHandled
<1>6. CASE \E k \in 1..Len(ls) :
            /\ Matches(ls[k], ar[n].ref)
            /\ \/ new = ls /\ ls[k].nick # Name(ar[n].from)
               \/ new = [ls EXCEPT ![k] = Tombstone(ls[k])] /\ ls[k].nick = Name(ar[n].from)
    <2>1. PICK k \in 1..Len(ls) :
            /\ Matches(ls[k], ar[n].ref)
            /\ \/ new = ls /\ ls[k].nick # Name(ar[n].from)
               \/ new = [ls EXCEPT ![k] = Tombstone(ls[k])] /\ ls[k].nick = Name(ar[n].from)
        BY <1>6
    <2> QED BY <1>4, <1>5, <2>1
<1> QED BY <1>2, <1>3, <1>6

LEMMA ModeratedHandled ==
    ASSUME NEW ar, NEW hd, NEW room, NEW ls, Fits(ls, ar, hd, room), FairArchive(ar, room),
           NEW n \in 1..Len(ar), ar[n].kind = "moderate", One(ls, room)
    PROVE  Handled(ls, Moderated(ls, ar[n]), n, ar) /\ One(Moderated(ls, ar[n]), room)
<1> DEFINE new == Moderated(ls, ar[n])
<1> SUFFICES Handled(ls, new, n, ar) /\ One(new, room)
    OBVIOUS
<1>1. ls \in Seq(LineTypes)
    BY DEF Fits
<1>2. \/ new = ls /\ \A j \in 1..Len(ls) : ~Matches(ls[j], ar[n].ref)
      \/ \E k \in 1..Len(ls) :
            Matches(ls[k], ar[n].ref) /\ new = [ls EXCEPT ![k] = Tombstone(ls[k])]
    BY <1>1, ModeratedIs
<1> HIDE DEF new
<1>3. CASE new = ls /\ \A j \in 1..Len(ls) : ~Matches(ls[j], ar[n].ref)
    <2>1. \A j \in 1..Len(ls) : ~Ends(ls[j], n, ar)
        BY <1>3 DEF Ends, Amends
    <2> QED BY <1>3, <2>1, NotBuriedHandled
<1>4. ASSUME NEW k \in 1..Len(ls), Matches(ls[k], ar[n].ref),
             new = [ls EXCEPT ![k] = Tombstone(ls[k])]
      PROVE  Handled(ls, new, n, ar) /\ One(new, room)
    <2>1. room /\ ar[n].ref.by = "sid"
        BY DEF FairArchive, Fair
    <2>2. FitsOne(ls[k], ar, hd, room)
        BY DEF Fits
    <2>3. ls[k].nick # NoName
        BY <1>4, <2>1, <2>2 DEF FitsOne, Matches
    <2> QED BY <1>4, <2>3, BuriedHandled
<1>5. CASE \E k \in 1..Len(ls) :
            Matches(ls[k], ar[n].ref) /\ new = [ls EXCEPT ![k] = Tombstone(ls[k])]
    <2>1. PICK k \in 1..Len(ls) :
            Matches(ls[k], ar[n].ref) /\ new = [ls EXCEPT ![k] = Tombstone(ls[k])]
        BY <1>5
    <2> QED BY <1>4, <2>1
<1> QED BY <1>2, <1>3, <1>5

LEMMA PrintedHandled ==
    ASSUME NEW ar, NEW hd, NEW room, NEW ls, Fits(ls, ar, hd, room), FairArchive(ar, room),
           NEW n \in 1..Len(ar), ar[n].kind = "text", NEW ids \in SUBSET {"own", "sid"}, ids # {},
           room => "sid" \in ids, One(ls, room),
           \A i \in 1..Len(ls) : ls[i].of = n => ~Shows(ls[i])
    PROVE  /\ Handled(ls, Append(ls, PrintedLine(n, ids, ar[n])), n, ar)
           /\ One(Append(ls, PrintedLine(n, ids, ar[n])), room)
<1> DEFINE l == PrintedLine(n, ids, ar[n])
           new == Append(ls, l)
<1>0. ls \in Seq(LineTypes) /\ ar[n] \in Stanzas /\ n \in Nat
    BY DEF Fits, FairArchive
<1>1. l \in LineTypes /\ ls \in Seq(LineTypes) /\ ar[n] \in Stanzas
    BY <1>0, NameOf DEF PrintedLine, Line, LineTypes
<1>2. l.of = n /\ l.text = n /\ l.nick # NoName
    BY <1>1, NameOf DEF PrintedLine, Line
<1> HIDE DEF l
<1>3. /\ Len(new) = Len(ls) + 1 /\ Len(ls) \in Nat
      /\ \A i \in 1..Len(ls) : new[i] = ls[i]
      /\ new[Len(ls) + 1] = l
    BY <1>1
<1> HIDE DEF new
<1>4. \A i \in 1..Len(new) : i \in 1..Len(ls) \/ i = Len(ls) + 1
    BY <1>3
<1>5. One(new, room)
    BY <1>2, <1>3, <1>4 DEF One
<1>6. \A x : ~Amends(x, n, "correct", ar) /\ ~Ends(x, n, ar)
    BY DEF Amends, Ends
<1>7. Handled(ls, new, n, ar)
    BY <1>2, <1>3, <1>4, <1>6 DEF Handled
<1> QED BY <1>5, <1>7 DEF new, l

LEMMA ShownHandled ==
    ASSUME NEW ar, NEW hd, NEW room, NEW ls, Fits(ls, ar, hd, room), FairArchive(ar, room),
           room = style.room, room => style.stamped,
           NEW n \in 1..Len(ar), NEW how, One(ls, room),
           \A i \in 1..Len(ls) : ls[i].of = n => ~Shows(ls[i])
    PROVE  /\ Handled(ls, Shown(ls, n, ar[n], how), n, ar)
           /\ One(Shown(ls, n, ar[n], how), room)
<1>1. ar[n] \in Stanzas
    BY DEF FairArchive
<1>2. CASE ar[n].kind = "correct"
    BY <1>2, CorrectedHandled DEF Shown
<1>3. CASE ar[n].kind = "retract"
    BY <1>3, RetractedHandled DEF Shown
<1>4. CASE ar[n].kind = "moderate"
    BY <1>4, ModeratedHandled DEF Shown
<1>5. CASE ar[n].kind = "text"
    <2> DEFINE ids == TagIds(ar[n], how)
    <2>1. ids \in SUBSET {"own", "sid"} /\ ids # {} /\ (room => "sid" \in ids)
        BY TagIdsAre
    <2>2. Shown(ls, n, ar[n], how) = Append(ls, PrintedLine(n, ids, ar[n]))
        BY <1>5 DEF Shown, Printed, PrintedLine
    <2> HIDE DEF ids
    <2>3. /\ Handled(ls, Append(ls, PrintedLine(n, ids, ar[n])), n, ar)
          /\ One(Append(ls, PrintedLine(n, ids, ar[n])), room)
        BY <1>5, <2>1, PrintedHandled
    <2> QED BY <2>2, <2>3
<1> QED BY <1>1, <1>2, <1>3, <1>4, <1>5, NameOf

\* Handling a stanza puts it into effect, if those of the covered that follow it do not
\* amend what it writes or amends, or are excepted.
LEMMA EffHandled ==
    ASSUME NEW ar, NEW hd, NEW room, NEW ls, NEW new, NEW C, NEW X, NEW n \in 1..Len(ar),
           FairArchive(ar, room), hd \subseteq 1..Len(ar),
           Eff(ls, hd, ar, C, X), Handled(ls, new, n, ar),
           \A c \in hd \cap C : c <= n \/ c \in X \/ ar[c].kind = "text" \/ ar[c].ref.of > n
    PROVE  Eff(new, hd \cup {n}, ar, C \cup {n}, X)
<1> SUFFICES ASSUME NEW j \in 1..Len(new), Sound(new[j], X, ar)
             PROVE  /\ TextOf(new[j], hd \cup {n}, ar)
                    /\ \A m \in (hd \cup {n}) \cap (C \cup {n}) : InEffect(new[j], m, ar)
    BY DEF Eff
<1> DEFINE x == new[j]
<1>0. n \in Nat /\ x.nick # NoName /\ \A m \in X : ar[m].ref.of # x.of
    BY DEF FairArchive, Sound
<1>1. \/ /\ j \in 1..Len(ls) /\ ls[j].nick # NoName
         /\ ls[j].of = x.of /\ ls[j].ids = x.ids
         /\ x.text = ls[j].text \/ (x.text = n /\ Amends(x, n, "correct", ar))
         /\ Amends(x, n, "correct", ar) => x.text = n
         /\ ~Ends(x, n, ar)
      \/ ar[n].kind = "text" /\ x.of = n /\ x.text = n
    BY <1>0 DEF Handled
<1> HIDE DEF x
<1>2. CASE /\ j \in 1..Len(ls) /\ ls[j].nick # NoName
           /\ ls[j].of = x.of /\ ls[j].ids = x.ids
           /\ x.text = ls[j].text \/ (x.text = n /\ Amends(x, n, "correct", ar))
           /\ Amends(x, n, "correct", ar) => x.text = n
           /\ ~Ends(x, n, ar)
    <2>1. TextOf(ls[j], hd, ar) /\ \A m \in hd \cap C : InEffect(ls[j], m, ar)
        BY <1>0, <1>2 DEF Eff, Sound
    <2>2. \A m, kind : Amends(x, m, kind, ar) <=> Amends(ls[j], m, kind, ar)
        BY <1>2 DEF Amends, Matches
    <2>3. \A m : Ends(x, m, ar) <=> Ends(ls[j], m, ar)
        BY <1>2, <2>2 DEF Ends, Matches
    <2>4. TextOf(x, hd \cup {n}, ar)
        BY <1>2, <2>1, <2>2 DEF TextOf
    <2>5. InEffect(x, n, ar)
        BY <1>0, <1>2 DEF InEffect
    <2>6. ASSUME NEW m \in hd \cap C PROVE InEffect(x, m, ar)
        <3>1. CASE x.text = ls[j].text
            BY <2>1, <2>2, <2>3, <3>1 DEF InEffect
        <3>2. CASE x.text = n /\ Amends(x, n, "correct", ar)
            <4>1. m \in 1..Len(ar) /\ m \in Nat /\ ~Ends(x, m, ar)
                BY <2>1, <2>3 DEF InEffect
            <4>2. x.of < n /\ x.of \in Nat
                BY <3>2 DEF FairArchive, Fair, Amends, Matches
            <4>3. Amends(x, m, "correct", ar) => ar[m].ref.of = x.of /\ ar[m].kind # "text"
                BY DEF Amends, Matches
            <4>4. Amends(x, m, "correct", ar) => m <= n
                BY <1>0, <4>1, <4>2, <4>3
            <4> QED BY <3>2, <4>1, <4>4 DEF InEffect
        <3> QED BY <1>2, <3>1, <3>2
    <2> QED BY <2>4, <2>5, <2>6 DEF x
<1>3. CASE ar[n].kind = "text" /\ x.of = n /\ x.text = n
    <2>1. TextOf(x, hd \cup {n}, ar)
        BY <1>3 DEF TextOf
    <2>2. ASSUME NEW m \in (hd \cup {n}) \cap (C \cup {n}) PROVE InEffect(x, m, ar)
        <3>1. m \in 1..Len(ar) /\ m \in Nat
            BY <1>0
        <3>2. Fair(ar[m], m, ar, room)
            BY <3>1 DEF FairArchive
        <3>3. ar[m].kind # "text" => ~Matches(x, ar[m].ref)
            <4>1. CASE m <= n
                BY <1>0, <1>3, <3>1, <3>2, <4>1 DEF Fair, Matches
            <4>2. CASE m \in X \/ ar[m].kind = "text" \/ ar[m].ref.of > n
                BY <1>0, <1>3, <4>2 DEF Matches
            <4> QED BY <1>0, <3>1, <4>1, <4>2
        <3>4. ~Amends(x, m, "correct", ar) /\ ~Ends(x, m, ar)
            BY <3>3 DEF Amends, Ends
        <3> QED BY <3>4 DEF InEffect
    <2> QED BY <2>1, <2>2 DEF x
<1> QED BY <1>1, <1>2, <1>3

\* It is no news to an archive that grew, with more excepted, of fewer stanzas, and to more
\* lines without an author.
LEMMA EffLater ==
    ASSUME NEW ar, NEW ar2, NEW hd, NEW room, NEW ls, NEW C, NEW X, Eff(ls, hd, ar, C, X),
           Fits(ls, ar, hd, room), hd \subseteq 1..Len(ar), X \subseteq 1..Len(ar),
           \A n \in 1..Len(ar) : ar2[n] = ar[n]
    PROVE  Eff(ls, hd, ar2, C, X)
<1> SUFFICES ASSUME NEW i \in 1..Len(ls), Sound(ls[i], X, ar2)
             PROVE  TextOf(ls[i], hd, ar2) /\ \A n \in hd \cap C : InEffect(ls[i], n, ar2)
    BY DEF Eff
<1>1. ls[i].of \in 1..Len(ar)
    BY DEF Fits, FitsOne
<1>2. \A m \in hd : \A kind : Amends(ls[i], m, kind, ar) <=> Amends(ls[i], m, kind, ar2)
    BY <1>1 DEF Amends
<1>3. \A m \in hd : Ends(ls[i], m, ar) <=> Ends(ls[i], m, ar2)
    BY <1>1, <1>2 DEF Ends
<1>4. Sound(ls[i], X, ar)
    BY DEF Sound
<1>5. TextOf(ls[i], hd, ar) /\ \A n \in hd \cap C : InEffect(ls[i], n, ar)
    BY <1>4 DEF Eff
<1> QED BY <1>2, <1>3, <1>5 DEF TextOf, InEffect

LEMMA EffExcepts ==
    ASSUME NEW ar, NEW hd, NEW ls, NEW C, NEW X, NEW Y, Eff(ls, hd, ar, C, X), X \subseteq Y
    PROVE  Eff(ls, hd, ar, C, Y)
BY DEF Eff, Sound

LEMMA EffLess ==
    ASSUME NEW ar, NEW hd, NEW ls, NEW new, NEW C, NEW D, NEW X, Eff(ls, hd, ar, C, X),
           hd \cap D \subseteq C,
           \A j \in 1..Len(new) : new[j].nick # NoName => j \in 1..Len(ls) /\ ls[j] = new[j]
    PROVE  Eff(new, hd, ar, D, X)
BY DEF Eff, Sound

LEMMA EffAlso ==
    ASSUME NEW ar, NEW hd, NEW ls, NEW C, NEW X, NEW n, Eff(ls, hd, ar, C, X),
           n \in hd => \A j \in 1..Len(ls) : ls[j].nick # NoName => InEffect(ls[j], n, ar)
    PROVE  Eff(ls, hd, ar, C \cup {n}, X)
BY DEF Eff, Sound

-------------------------------------------------------------------------------
(* The stanzas in effect.  For a contact: those before where the catch-up    *)
(* is, if one runs; before where it began, if it did not end; else all.  In  *)
(* a room all, save the amendments that crossed its fetch: what it handled   *)
(* out of the archive comes in order, and what came live while it ran comes  *)
(* after all of that.                                                        *)

CoveredOf(room, u, a, b) ==
    IF room THEN Nat
    ELSE IF u THEN (IF a = 0 THEN Nat ELSE 0..(a - 1))
              ELSE (IF b = 0 THEN Nat ELSE 0..(b - 1))
Covered == CoveredOf(style.room, up, at, back)

Phase ==
    /\ up \in BOOLEAN
    /\ fresh => ~up /\ lines = <<>> /\ heard = {}
    /\ back \in 0..Len(archive) /\ cursor \in 0..(Len(archive) + 1)
    /\ ~style.room /\ up /\ at = 0 => back = 0
    /\ ~style.room /\ up /\ at > 0 => back \in 1..at
    /\ ~up => at = 0

\* A stanza came before a place of the fetch, or after its end and about no line of it,
\* unless it crossed it.
After(c, ar, a, u, X) == c < a \/ (c > u /\ (c \in X \/ ar[c].kind = "text" \/ ar[c].ref.of > u))
RoomOrder ==
    /\ crossed \subseteq 1..Len(archive)
    /\ ~style.room => crossed = {}
    /\ style.room /\ at > 0 => at <= upto /\ \A c \in heard : After(c, archive, at, upto, crossed)

\* A contact's lines out of the cache were loaded before anything was handled.
ContactCache(ls, hd, ar) ==
    \A i \in 1..Len(ls) : Shows(ls[i]) /\ ar[ls[i].of].kind # "text" => ls[i].of \notin hd

Bodies(hd, ar) == \A n \in hd : ar[n].body

EffectInv ==
    /\ AuthorInv /\ Phase
    /\ Bodies(heard, archive)
    /\ One(lines, style.room)
    /\ Eff(lines, heard, archive, Covered, crossed)
    /\ RoomOrder
    /\ ~style.room => ContactCache(lines, heard, archive)

LEMMA SettledFromEffect == EffectInv => Settled
<1> SUFFICES ASSUME EffectInv, up, at = 0, NEW i \in 1..Len(lines), lines[i].nick # NoName,
                    ~Crossed(lines[i])
             PROVE  lines[i].text = Reference(lines[i])
    BY DEF Settled, EffectInv, AuthorInv, Fits
<1> DEFINE l == lines[i]
<1>1. TextOf(l, heard, archive) /\ \A n \in heard : InEffect(l, n, archive)
    <2>1. Covered = Nat /\ heard \subseteq Nat
        BY DEF Covered, CoveredOf, EffectInv, AuthorInv, Written
    <2>2. Sound(l, crossed, archive)
        BY DEF Sound, Crossed
    <2> QED BY <2>1, <2>2 DEF EffectInv, Eff
<1>2. l.of \in 1..Len(archive) /\ l.text \in Nat
    BY DEF EffectInv, AuthorInv, Fits, FitsOne
<1>3. heard \subseteq 1..Len(archive) /\ FairArchive(archive, style.room)
    BY DEF EffectInv, AuthorInv, Written
<1> HIDE DEF l
<1>4. Amendments(l, "retract") \cup Moderations(l) = {}
    BY <1>1 DEF Amendments, Moderations, InEffect, Ends, Amends
<1> DEFINE c == Amendments(l, "correct")
<1>5. \A n : n \in c <=> n \in heard /\ Amends(l, n, "correct", archive)
    BY DEF Amendments, Amends
<1> HIDE DEF c
<1>6. Reference(l) = IF c = {} THEN l.of ELSE CHOOSE n \in c : \A k \in c : k <= n
    BY <1>4 DEF Reference, c
<1>7. CASE c = {}
    BY <1>1, <1>5, <1>6, <1>7 DEF TextOf, l
<1>8. CASE c # {}
    <2>1. \A n \in c : n \in Nat /\ n <= l.text
        <3>1. heard \subseteq Nat
            BY <1>3
        <3> QED BY <1>1, <1>5, <3>1 DEF InEffect
    <2>2. l.text \in c
        <3>1. PICK n \in c : TRUE
            BY <1>8
        <3>2. n \in 1..Len(archive) /\ archive[n].kind = "correct" /\ archive[n].ref.of = l.of
            BY <1>3, <1>5 DEF Amends, Matches
        <3>3. l.of < n
            BY <1>3, <3>2 DEF FairArchive, Fair
        <3>4. n <= l.text
            BY <2>1
        <3>5. l.text # l.of
            BY <1>2, <3>2, <3>3, <3>4
        <3> QED BY <1>1, <1>5, <3>5 DEF TextOf
    <2>3. \A n \in c : (\A k \in c : k <= n) => n = l.text
        BY <1>2, <2>1, <2>2
    <2>4. (CHOOSE n \in c : \A k \in c : k <= n) = l.text
        BY <2>1, <2>2, <2>3
    <2> QED BY <1>6, <1>8, <2>4 DEF l
<1> QED BY <1>7, <1>8

LEMMA EffectInit == Init => EffectInv
<1> SUFFICES ASSUME Init PROVE EffectInv
    OBVIOUS
<1>1. lines = <<>> /\ Len(lines) = 0 /\ Len(archive) = 0 /\ heard = {} /\ cache = {}
    BY EmptySeq DEF Init
<1>2. AuthorInv
    BY AuthorInit
<1>3. Phase
    <2>1. up = FALSE /\ at = 0 /\ back = 0 /\ cursor = 0
        BY DEF Init
    <2>2. up \in BOOLEAN /\ ~up
        BY <2>1
    <2>3. back \in 0..Len(archive) /\ cursor \in 0..(Len(archive) + 1)
        BY <1>1, <2>1
    <2> QED BY <1>1, <2>1, <2>2, <2>3 DEF Phase
<1>4. Bodies(heard, archive) /\ One(lines, style.room) /\ ContactCache(lines, heard, archive)
    BY <1>1 DEF Bodies, One, ContactCache
<1>5. Eff(lines, heard, archive, Covered, crossed)
    BY <1>1 DEF Eff
<1>6. RoomOrder
    BY <1>1 DEF Init, RoomOrder
<1> QED BY <1>2, <1>3, <1>4, <1>5, <1>6 DEF EffectInv

LEMMA AppendOne ==
    ASSUME NEW T, NEW ar \in Seq(T), NEW s
    PROVE  /\ Len(Append(ar, s)) = Len(ar) + 1 /\ Len(ar) \in Nat
           /\ \A n \in 1..Len(ar) : Append(ar, s)[n] = ar[n]
           /\ Append(ar, s)[Len(ar) + 1] = s
<1>1. ar \in Seq(T \cup {s})
    OBVIOUS
<1> QED BY <1>1, AppendProperties

\* The message_handler of a stanza with a body.
LEMMA Handles ==
    ASSUME NEW ar, NEW n \in 1..Len(ar), NEW how, MessageHandler(n, ar[n], how), ar[n].body,
           Fits(lines, ar, heard, style.room), FairArchive(ar, style.room), style.room => style.stamped,
           One(lines, style.room), \A i \in 1..Len(lines) : lines[i].of = n => ~Shows(lines[i])
    PROVE  /\ heard' = heard \cup {n}
           /\ \E new : lines' = new /\ Handled(lines, new, n, ar) /\ One(new, style.room)
BY ShownHandled DEF MessageHandler

\* What an archive that grew leaves as it was.
LEMMA EffectGrows ==
    ASSUME EffectInv, NEW ar, NEW s, ar = Append(archive, s)
    PROVE  /\ Len(ar) = Len(archive) + 1 /\ Len(archive) \in Nat /\ ar[Len(archive) + 1] = s
           /\ \A n \in 1..Len(archive) : ar[n] = archive[n]
           /\ Bodies(heard, ar)
           /\ Eff(lines, heard, ar, Covered, crossed)
           /\ \A n \in heard : After(n, archive, at, upto, crossed) => After(n, ar, at, upto, crossed)
           /\ ContactCache(lines, heard, archive) => ContactCache(lines, heard, ar)
<1>1. archive \in Seq(Stanzas) /\ heard \subseteq 1..Len(archive) /\ cache \subseteq 1..Len(archive)
    BY DEF EffectInv, AuthorInv, Written, FairArchive
<1>2. /\ Len(ar) = Len(archive) + 1 /\ Len(archive) \in Nat /\ ar[Len(archive) + 1] = s
      /\ \A n \in 1..Len(archive) : ar[n] = archive[n]
    BY <1>1, AppendOne
<1>3. Bodies(heard, ar)
    BY <1>1, <1>2 DEF EffectInv, Bodies
<1>4. Eff(lines, heard, ar, Covered, crossed)
    BY <1>1, <1>2, EffLater DEF EffectInv, AuthorInv, RoomOrder
<1>5. \A n \in heard : After(n, archive, at, upto, crossed) => After(n, ar, at, upto, crossed)
    BY <1>1, <1>2 DEF After
<1>7. ContactCache(lines, heard, archive) => ContactCache(lines, heard, ar)
    <2>1. \A i \in 1..Len(lines) : lines[i].of \in 1..Len(archive)
        BY DEF EffectInv, AuthorInv, Fits, FitsOne
    <2> QED BY <1>2, <2>1 DEF ContactCache
<1> QED BY <1>2, <1>3, <1>4, <1>5, <1>7

LEMMA EffectArrives ==
    ASSUME EffectInv, AuthorInv', NEW s, Arrives(s),
           UNCHANGED <<style, up, fresh, cache, cursor, fetch>>
    PROVE  EffectInv'
<1> USE DEF fetch
<1>0. /\ archive' = Append(archive, s)
      /\ UNCHANGED <<lines, heard>> \/ (up /\ MessageHandler(Len(archive) + 1, s, "live"))
    BY DEF Arrives
<1>1. PICK ar : ar = archive'
    OBVIOUS
<1>2. /\ Len(ar) = Len(archive) + 1 /\ Len(archive) \in Nat /\ ar[Len(archive) + 1] = s
      /\ \A n \in 1..Len(archive) : ar[n] = archive[n]
      /\ Bodies(heard, ar)
      /\ Eff(lines, heard, ar, Covered, crossed)
      /\ \A n \in heard : After(n, archive, at, upto, crossed) => After(n, ar, at, upto, crossed)
      /\ ContactCache(lines, heard, archive) => ContactCache(lines, heard, ar)
    BY <1>0, <1>1, EffectGrows
<1>3. heard \subseteq 1..Len(archive) /\ cache \subseteq 1..Len(archive)
    BY DEF EffectInv, AuthorInv, Written
<1>7. /\ crossed \subseteq crossed' /\ crossed' \subseteq crossed \cup {Len(archive) + 1}
      /\ ~style.room => crossed' = crossed
      /\ style.room /\ at > 0 /\ s.kind # "text" /\ s.body /\ s.ref.of <= upto => Len(archive) + 1 \in crossed'
    BY DEF Arrives
<1>8. Covered' = Covered
    BY DEF Covered
<1>9. crossed' \subseteq 1..Len(ar) /\ (~style.room => crossed' = {})
    <2>1. crossed \subseteq 1..Len(archive) /\ (~style.room => crossed = {})
        BY DEF EffectInv, RoomOrder
    <2> QED BY <1>2, <1>7, <2>1
<1>10. style.room /\ at > 0 => at <= upto /\ \A n \in heard : After(n, ar, at, upto, crossed')
    <2>1. style.room /\ at > 0 => at <= upto /\ \A n \in heard : After(n, ar, at, upto, crossed)
        BY <1>2 DEF EffectInv, RoomOrder
    <2> QED BY <1>7, <2>1 DEF After
<1>11. Eff(lines, heard, ar, Covered, crossed')
    BY <1>2, <1>7, EffExcepts
<1>4. CASE UNCHANGED <<lines, heard>>
    <2>1. Phase'
        BY <1>1, <1>2, <1>4 DEF EffectInv, Phase
    <2>2. Eff(lines', heard', archive', Covered', crossed')
        BY <1>1, <1>4, <1>8, <1>11
    <2>3. Bodies(heard', archive') /\ One(lines', style'.room)
        BY <1>1, <1>2, <1>4 DEF EffectInv
    <2>4. RoomOrder'
        BY <1>1, <1>4, <1>9, <1>10 DEF RoomOrder
    <2>5. ~style.room => ContactCache(lines', heard', archive')
        BY <1>1, <1>2, <1>4 DEF EffectInv
    <2> QED BY <2>1, <2>2, <2>3, <2>4, <2>5 DEF EffectInv
<1>5. CASE up /\ MessageHandler(Len(archive) + 1, s, "live") /\ s.body
    <2>1. PICK n : n = Len(archive) + 1
        OBVIOUS
    <2>2. n \in 1..Len(ar) /\ s = ar[n] /\ \A k \in 1..Len(archive) : k < n
        BY <1>2, <2>1
    <2>3. Fits(lines, ar, heard, style.room)
        <3>1. Fits(lines, archive, heard, style.room)
            BY DEF EffectInv, AuthorInv
        <3>2. Len(ar) \in Nat /\ Len(archive) <= Len(ar)
            BY <1>2
        <3> QED BY <1>2, <1>3, <3>1, <3>2, FitsLater
    <2>4. FairArchive(ar, style.room) /\ (style.room => style.stamped)
        BY <1>1 DEF AuthorInv, Written
    <2>5. \A i \in 1..Len(lines) : lines[i].of \in 1..Len(archive)
        BY DEF EffectInv, AuthorInv, Fits, FitsOne
    <2>6. PICK new : lines' = new /\ Handled(lines, new, n, ar) /\ One(new, style.room) /\ heard' = heard \cup {n}
        <3>1. MessageHandler(n, ar[n], "live") /\ ar[n].body
            BY <1>5, <2>1, <2>2
        <3>2. \A i \in 1..Len(lines) : lines[i].of # n
            BY <2>1, <2>5, <1>2
        <3>3. One(lines, style.room)
            BY DEF EffectInv
        <3> QED BY <2>2, <2>3, <2>4, <3>1, <3>2, <3>3, Handles
    <2>7. Eff(new, heard', archive', Covered \cup {n}, crossed')
        <3>1. heard \subseteq 1..Len(ar) /\ \A c \in heard : c <= n
            BY <1>2, <1>3, <2>2
        <3> QED BY <1>1, <1>11, <2>2, <2>4, <2>6, <3>1, EffHandled
    <2>8. Eff(lines', heard', archive', Covered', crossed')
        BY <1>8, <2>6, <2>7 DEF Eff
    <2>9. Phase'
        BY <1>1, <1>2, <1>5 DEF EffectInv, Phase
    <2>10. Bodies(heard', archive') /\ One(lines', style'.room)
        BY <1>1, <1>2, <1>5, <2>2, <2>6 DEF EffectInv, Bodies
    <2>11. RoomOrder'
        <3>1. ASSUME style.room, at > 0 PROVE After(n, ar, at, upto, crossed')
            <4>1. upto \in Nat /\ n > upto
                BY <1>2, <2>1 DEF EffectInv, AuthorInv, Written
            <4>2. s.kind # "text" => s.ref.of \in Nat
                BY <2>2, <2>4 DEF FairArchive, Fair
            <4> QED BY <1>5, <1>7, <2>1, <2>2, <3>1, <4>1, <4>2 DEF After
        <3> QED BY <1>1, <1>9, <1>10, <2>6, <3>1 DEF RoomOrder
    <2>12. ASSUME ~style.room PROVE ContactCache(lines', heard', archive')
        <3> SUFFICES ASSUME NEW i \in 1..Len(new), Shows(new[i]), ar[new[i].of].kind # "text"
                     PROVE  new[i].of \notin heard \cup {n}
            BY <1>1, <2>6 DEF ContactCache
        <3>1. FitsOne(new[i], ar, heard', style.room)
            BY <1>1, <2>6 DEF AuthorInv, Fits
        <3>2. new[i].nick = NoName
            BY <3>1 DEF FitsOne
        <3>3. i \in 1..Len(lines) /\ lines[i] = new[i]
            BY <2>6, <3>2 DEF Handled
        <3>4. ContactCache(lines, heard, ar)
            BY <1>2, <2>12 DEF EffectInv
        <3> QED BY <2>2, <2>5, <3>3, <3>4 DEF ContactCache
    <2> QED BY <2>8, <2>9, <2>10, <2>11, <2>12 DEF EffectInv
<1>6. MessageHandler(Len(archive) + 1, s, "live") /\ ~s.body => UNCHANGED <<lines, heard>>
    BY DEF MessageHandler
<1> QED BY <1>0, <1>4, <1>5, <1>6

\* A message to a contact is shown at once.
LEMMA EffectShown ==
    ASSUME EffectInv, AuthorInv', Write, ~style.room
    PROVE  EffectInv'
<1>1. PICK ar : ar = archive'
    OBVIOUS
<1>2. PICK s : s = Stanza("text", "here", NoRef, TRUE)
    OBVIOUS
<1>3. PICK n : n = Len(archive) + 1
    OBVIOUS
<1>4. PICK l : l = Line(n, {"own"}, NoName, TRUE, n)
    OBVIOUS
<1>5. /\ ar = Append(archive, s) /\ lines' = Append(lines, l) /\ up
      /\ UNCHANGED <<style, up, fresh, cache, cursor, at, upto, back, heard, crossed>>
    BY <1>1, <1>2, <1>3, <1>4 DEF Write, fetch
<1>6. /\ Len(ar) = n /\ Len(archive) \in Nat /\ ar[n] = s
      /\ \A k \in 1..Len(archive) : ar[k] = archive[k]
      /\ Bodies(heard, ar)
      /\ Eff(lines, heard, ar, Covered, crossed)
      /\ ContactCache(lines, heard, ar)
    <2>1. ContactCache(lines, heard, archive)
        BY DEF EffectInv
    <2> QED BY <1>3, <1>5, <2>1, EffectGrows
<1>7. s.kind = "text" /\ l.of = n /\ l.nick = NoName
    BY <1>2, <1>4 DEF Stanza, Line
<1>8. PICK new : new = lines'
    OBVIOUS
<1>9. /\ Len(new) = Len(lines) + 1 /\ Len(lines) \in Nat
      /\ \A i \in 1..Len(lines) : new[i] = lines[i] /\ lines[i].of \in 1..Len(archive)
      /\ new[Len(lines) + 1] = l
    <2>1. lines \in Seq(LineTypes) /\ \A i \in 1..Len(lines) : lines[i].of \in 1..Len(archive)
        BY DEF EffectInv, AuthorInv, Fits, FitsOne
    <2> QED BY <1>5, <1>8, <2>1, AppendOne
<1>10. \A i \in 1..Len(new) : i \in 1..Len(lines) \/ (i = Len(lines) + 1 /\ new[i] = l)
    BY <1>9
<1>11. \A i \in 1..Len(lines) : lines[i].of # n
    BY <1>3, <1>6, <1>9
<1>12. Phase'
    BY <1>1, <1>3, <1>5, <1>6 DEF EffectInv, Phase
<1>13. One(new, style.room)
    BY <1>7, <1>9, <1>10, <1>11 DEF EffectInv, One
<1>14. Eff(new, heard, ar, Covered, crossed)
    BY <1>6, <1>7, <1>9, <1>10 DEF Eff, Sound
<1>15. ContactCache(new, heard, ar)
    BY <1>6, <1>7, <1>9, <1>10 DEF ContactCache
<1>16. RoomOrder'
    <2>1. crossed = {}
        BY DEF EffectInv, RoomOrder
    <2> QED BY <1>5, <2>1 DEF RoomOrder
<1> QED BY <1>1, <1>5, <1>6, <1>8, <1>12, <1>13, <1>14, <1>15, <1>16 DEF EffectInv, Covered

LEMMA EffectSends ==
    ASSUME EffectInv, AuthorInv', OthersWrite \/ RoomModerates \/ Write \/ Edit \/ Retract \/ Reply
    PROVE  EffectInv'
<1>1. CASE Write /\ ~style.room
    BY <1>1, EffectShown
<1>2. CASE OthersWrite
    <2>1. PICK s : Arrives(s)
        BY <1>2 DEF OthersWrite
    <2> QED BY <1>2, <2>1, EffectArrives DEF OthersWrite
<1>3. CASE RoomModerates
    <2>1. PICK s : Arrives(s)
        BY <1>3 DEF RoomModerates
    <2> QED BY <1>3, <2>1, EffectArrives DEF RoomModerates
<1>4. CASE Write /\ style.room
    BY <1>4, EffectArrives DEF Write
<1>5. CASE Edit
    <2>1. PICK s : Arrives(s)
        BY <1>5 DEF Edit
    <2> QED BY <1>5, <2>1, EffectArrives DEF Edit
<1>6. CASE Retract
    <2>1. PICK s : Arrives(s)
        BY <1>6 DEF Retract
    <2> QED BY <1>6, <2>1, EffectArrives DEF Retract
<1>7. CASE Reply
    <2>1. PICK s : Arrives(s)
        BY <1>7 DEF Reply
    <2> QED BY <1>7, <2>1, EffectArrives DEF Reply
<1> QED BY <1>1, <1>2, <1>3, <1>4, <1>5, <1>6, <1>7

LEMMA EffectLose ==
    ASSUME EffectInv, AuthorInv', Lose \/ UNCHANGED vars
    PROVE  EffectInv'
<1>1. CASE UNCHANGED vars
    BY <1>1 DEF vars, store, fetch, EffectInv, Phase, Covered, RoomOrder
<1>2. CASE Lose
    <2>1. /\ up /\ up' = FALSE /\ at' = 0
          /\ UNCHANGED <<style, archive, fresh, lines, cache, cursor, back, heard, crossed>>
        BY <1>2 DEF Lose, store
    <2>2. at \in Nat /\ back \in Nat /\ cursor \in Nat /\ Len(archive) \in Nat
        BY DEF EffectInv, AuthorInv, Written, Phase, FairArchive
    <2>3. Phase'
        BY <2>1, <2>2 DEF EffectInv, Phase
    <2>4. CoveredOf(style.room, up', at', back') \subseteq CoveredOf(style.room, up, at, back)
        BY <2>1, <2>2 DEF EffectInv, Phase, CoveredOf
    <2>5. Eff(lines', heard', archive', Covered', crossed')
        BY <2>1, <2>4 DEF EffectInv, Covered, Eff
    <2>6. RoomOrder'
        BY <2>1 DEF EffectInv, RoomOrder
    <2> QED BY <2>1, <2>3, <2>5, <2>6 DEF EffectInv
<1> QED BY <1>1, <1>2

LEMMA EffectRestart ==
    ASSUME EffectInv, AuthorInv', Restart
    PROVE  EffectInv'
<1>1. /\ up' = FALSE /\ at' = 0 /\ fresh' = TRUE /\ lines' = <<>> /\ heard' = {} /\ crossed' = {}
      /\ UNCHANGED <<style, archive>>
      /\ UNCHANGED <<cache, cursor>> \/ (~style.room /\ cache' = {} /\ cursor' = 0)
      /\ back' = IF cursor' = 0 THEN 0 ELSE back
    BY DEF Restart
<1>2. at \in Nat /\ back \in 0..Len(archive) /\ cursor \in Nat /\ Len(archive) \in Nat
    BY DEF EffectInv, AuthorInv, Written, Phase, FairArchive
<1>3. Phase'
    <2>1. cursor \in 0..(Len(archive) + 1)
        BY DEF EffectInv, Phase
    <2>2. back' \in {0, back} /\ cursor' \in {0, cursor}
        BY <1>1
    <2>3. back' \in 0..Len(archive) /\ cursor' \in 0..(Len(archive) + 1)
        BY <1>2, <2>1, <2>2
    <2> QED BY <1>1, <2>3 DEF Phase
<1>4. Len(lines') = 0
    BY <1>1, EmptySeq
<1>5. Eff(lines', heard', archive', Covered', crossed') /\ One(lines', style'.room) /\ Bodies(heard', archive')
      /\ ContactCache(lines', heard', archive')
    BY <1>1, <1>4 DEF Eff, One, Bodies, ContactCache
<1>6. RoomOrder'
    BY <1>1 DEF RoomOrder
<1> QED BY <1>1, <1>3, <1>5, <1>6 DEF EffectInv

\* The buffer with the cache behind it.
LEMMA WithLoaded ==
    ASSUME AuthorInv, NEW more \in Loaded, NEW new, new = lines \o more
    PROVE  /\ Len(lines) \in Nat /\ Len(more) \in Nat /\ Len(new) = Len(lines) + Len(more)
           /\ \A j \in 1..Len(lines) : j \in 1..Len(new) /\ new[j] = lines[j]
           /\ \A j \in 1..Len(new) :
                 \/ j \in 1..Len(lines) /\ new[j] = lines[j]
                 \/ new[j].nick = NoName
           /\ lines = <<>> =>
                 \A i, j \in 1..Len(new) : i < j => new[i].of < new[j].of
<1>0. cache \subseteq 1..Len(archive) /\ Len(archive) \in Nat
    BY DEF AuthorInv, Written, FairArchive
<1>1. /\ Len(lines) \in Nat /\ Len(more) \in Nat /\ Len(new) = Len(lines) + Len(more)
      /\ \A i \in 1..Len(lines) : new[i] = lines[i]
      /\ \A i \in 1..Len(more) : new[Len(lines) + i] = more[i]
    BY LoadedFits, FitsConcat DEF AuthorInv
<1>3. /\ \A i \in 1..Len(more) : more[i].nick = NoName
      /\ \A i, j \in 1..Len(more) : i < j => more[i].of < more[j].of
    BY <1>0, LoadedIs
<1>5. \A j \in 1..Len(lines) : j \in 1..Len(new) /\ new[j] = lines[j]
    BY <1>1
<1>6. ASSUME NEW j \in 1..Len(new), j \notin 1..Len(lines)
      PROVE  new[j].nick = NoName
    <2>1. PICK i \in 1..Len(more) : j = Len(lines) + i
        <3>1. j - Len(lines) \in 1..Len(more) /\ j = Len(lines) + (j - Len(lines))
            BY <1>1, <1>6
        <3> QED BY <3>1
    <2>2. new[j] = more[i]
        BY <1>1, <2>1
    <2> QED BY <1>3, <2>2
<1>8. ASSUME lines = <<>> PROVE \A i, j \in 1..Len(new) : i < j => new[i].of < new[j].of
    <2>1. Len(lines) = 0
        BY <1>8, EmptySeq
    <2>2. Len(new) = Len(more) /\ \A i \in 1..Len(more) : new[i] = more[i]
        <3>1. \A i \in 1..Len(more) : 0 + i = i
            BY <1>1
        <3> QED BY <1>1, <2>1, <3>1
    <2> QED BY <1>3, <2>2
<1> QED BY <1>1, <1>5, <1>6, <1>8

\* A buffer with the cache behind it has no line of an author more, and no two of a message.
LEMMA LoadsKeep ==
    ASSUME EffectInv, NEW new,
           new = lines \/ \E more \in Loaded : new = lines \o more /\ lines = <<>>,
           AuthorInv', lines' = new, UNCHANGED <<style, archive>>
    PROVE  /\ \A j \in 1..Len(new) : new[j].nick # NoName => j \in 1..Len(lines) /\ new[j] = lines[j]
           /\ One(new, style.room)
<1>1. CASE new = lines
    BY <1>1 DEF EffectInv
<1>2. ASSUME NEW more \in Loaded, new = lines \o more, lines = <<>>
      PROVE  /\ \A j \in 1..Len(new) : new[j].nick # NoName => j \in 1..Len(lines) /\ new[j] = lines[j]
             /\ One(new, style.room)
    <2>1. /\ \A j \in 1..Len(new) : new[j].nick = NoName \/ (j \in 1..Len(lines) /\ new[j] = lines[j])
          /\ \A i, j \in 1..Len(new) : i < j => new[i].of < new[j].of
        BY <1>2, WithLoaded DEF EffectInv
    <2>2. \A i \in 1..Len(new) : new[i].of \in Nat
        BY DEF AuthorInv, Fits, FitsOne
    <2>3. \A i, j \in 1..Len(new) : i < j \/ j < i \/ i = j
        OBVIOUS
    <2> QED BY <2>1, <2>2, <2>3 DEF One
<1> QED BY <1>1, <1>2

LEMMA EffectConnect ==
    ASSUME EffectInv, AuthorInv', Connect
    PROVE  EffectInv'
<1>1. /\ ~style.room /\ ~up /\ up' = TRUE /\ fresh' = FALSE
      /\ UNCHANGED <<style, archive, heard, crossed>>
    BY DEF Connect
<1>2. PICK k \in 1..(IF back > 0 THEN back ELSE IF cursor > 0 THEN cursor ELSE 1) :
          IF k > Len(archive)
          THEN at' = 0 /\ back' = 0 /\ cursor' = k
          ELSE at' = k /\ back' = k /\ cursor' = cursor
    BY DEF Connect
<1>3. /\ at = 0 /\ back \in 0..Len(archive) /\ cursor \in 0..(Len(archive) + 1) /\ Len(archive) \in Nat
      /\ k \in Nat /\ k >= 1
    BY <1>1, <1>2 DEF EffectInv, AuthorInv, Written, Phase, FairArchive
<1>4. \/ k > Len(archive) /\ back = 0 /\ at' = 0 /\ back' = 0 /\ cursor' = k /\ k <= Len(archive) + 1
      \/ /\ k \in 1..Len(archive) /\ at' = k /\ back' = k /\ cursor' = cursor
         /\ back > 0 => k <= back
    BY <1>2, <1>3
<1>5. Phase'
    BY <1>1, <1>3, <1>4 DEF Phase
<1>6. CoveredOf(style.room, up', at', back') \subseteq CoveredOf(style.room, up, at, back)
    BY <1>1, <1>3, <1>4 DEF CoveredOf
<1>7. PICK new : new = lines'
    OBVIOUS
<1>8. /\ \A j \in 1..Len(new) : new[j].nick # NoName => j \in 1..Len(lines) /\ new[j] = lines[j]
      /\ One(new, style.room) /\ (~fresh => new = lines)
    <2>1. new = lines \/ (fresh /\ \E more \in Loaded : new = lines \o more)
        BY <1>7 DEF Connect
    <2>2. fresh => lines = <<>>
        BY DEF EffectInv, Phase
    <2> QED BY <1>1, <1>7, <2>1, <2>2, LoadsKeep
<1>9. Eff(new, heard, archive, Covered', crossed)
    <2>1. Covered' \subseteq Covered
        BY <1>1, <1>6 DEF Covered
    <2>2. Eff(lines, heard, archive, Covered, crossed) /\ heard \cap Covered' \subseteq Covered
        BY <2>1 DEF EffectInv
    <2> QED BY <1>8, <2>2, EffLess
<1>10. ContactCache(new, heard, archive)
    <2>1. CASE fresh
        <3>1. heard = {}
            BY <2>1 DEF EffectInv, Phase
        <3> QED BY <3>1 DEF ContactCache
    <2>2. CASE ~fresh
        BY <1>1, <1>8, <2>2 DEF EffectInv
    <2> QED BY <2>1, <2>2
<1>11. RoomOrder'
    BY <1>1 DEF EffectInv, RoomOrder
<1>12. Bodies(heard, archive)
    BY DEF EffectInv
<1> QED BY <1>1, <1>5, <1>7, <1>8, <1>9, <1>10, <1>11, <1>12 DEF EffectInv

LEMMA EffectJoinRoom ==
    ASSUME EffectInv, AuthorInv', JoinRoom
    PROVE  EffectInv'
<1>1. /\ style.room /\ ~up /\ up' = TRUE /\ fresh' = FALSE
      /\ UNCHANGED <<style, archive, back, heard, crossed>>
    BY DEF JoinRoom
<1>2. Len(archive) \in Nat /\ at = 0 /\ cursor \in 0..(Len(archive) + 1) /\ back \in 0..Len(archive)
    BY <1>1 DEF EffectInv, AuthorInv, Written, Phase, FairArchive
<1>3. \/ ~fresh /\ UNCHANGED <<lines, at, upto, cursor>>
      \/ /\ fresh /\ \E more \in Loaded : lines' = lines \/ lines' = lines \o more
         /\ \E k \in 1..(Len(archive) + 1) :
               IF k > Len(archive)
               THEN cursor' = k /\ UNCHANGED <<at, upto>>
               ELSE at' = k /\ upto' = Len(archive) /\ cursor' = cursor
    BY DEF JoinRoom
<1>4. cursor' \in 0..(Len(archive) + 1) /\ (at' = 0 \/ (fresh /\ at' <= upto'))
    <2>1. CASE ~fresh /\ UNCHANGED <<lines, at, upto, cursor>>
        BY <1>2, <2>1
    <2>2. ASSUME fresh, NEW k \in 1..(Len(archive) + 1),
                 IF k > Len(archive)
                 THEN cursor' = k /\ UNCHANGED <<at, upto>>
                 ELSE at' = k /\ upto' = Len(archive) /\ cursor' = cursor
          PROVE  cursor' \in 0..(Len(archive) + 1) /\ (at' = 0 \/ (fresh /\ at' <= upto'))
        BY <1>2, <2>2
    <2> QED BY <1>3, <2>1, <2>2
<1>5. Phase'
    BY <1>1, <1>2, <1>4 DEF Phase
<1>6. PICK new : new = lines'
    OBVIOUS
<1>7. /\ \A j \in 1..Len(new) : new[j].nick # NoName => j \in 1..Len(lines) /\ new[j] = lines[j]
      /\ One(new, style.room)
    <2>1. fresh => lines = <<>>
        BY DEF EffectInv, Phase
    <2>2. new = lines \/ \E more \in Loaded : new = lines \o more /\ lines = <<>>
        BY <1>3, <1>6, <2>1
    <2> QED BY <1>1, <1>6, <2>2, LoadsKeep
<1>8. Eff(new, heard, archive, Covered', crossed)
    <2>1. Covered' = Covered
        BY <1>1 DEF Covered, CoveredOf
    <2>2. Eff(lines, heard, archive, Covered, crossed) /\ heard \cap Covered' \subseteq Covered
        BY <2>1 DEF EffectInv
    <2> QED BY <1>7, <2>2, EffLess
<1>9. RoomOrder'
    <2>1. fresh => heard = {}
        BY DEF EffectInv, Phase
    <2>2. crossed \subseteq 1..Len(archive)
        BY DEF EffectInv, RoomOrder
    <2>3. at' > 0 => at' <= upto' /\ heard = {}
        BY <1>4, <2>1
    <2> QED BY <1>1, <2>2, <2>3 DEF RoomOrder
<1>10. Bodies(heard, archive)
    BY DEF EffectInv
<1> QED BY <1>1, <1>5, <1>6, <1>7, <1>8, <1>9, <1>10 DEF EffectInv

\* A result that was handled and is dropped again is in effect: a contact's buffer has no
\* line of it but a text's; a room's fetch returns nothing that was handled.
LEMMA DroppedInEffect ==
    ASSUME EffectInv, at > 0, at \in heard, AlreadyDisplayed(at),
           NEW j \in 1..Len(lines), lines[j].nick # NoName
    PROVE  InEffect(lines[j], at, archive)
<1>1. at \in 1..Len(archive) /\ heard \subseteq 1..Len(archive)
    BY DEF EffectInv, AuthorInv, Written
<1>2. CASE archive[at].kind = "text"
    BY <1>2 DEF InEffect, Ends, Amends
<1>3. CASE archive[at].kind # "text"
    <2>1. PICK i \in 1..Len(lines) : lines[i].of = at /\ Shows(lines[i])
        BY DEF AlreadyDisplayed, Shows, EffectInv, AuthorInv, Fits
    <2>2. style.room
        BY <1>3, <2>1 DEF EffectInv, ContactCache
    <2>3. at <= upto /\ After(at, archive, at, upto, crossed) /\ upto \in Nat
        BY <2>2 DEF EffectInv, RoomOrder, AuthorInv, Written
    <2> QED BY <1>1, <2>3 DEF After
<1> QED BY <1>2, <1>3

LEMMA EffectOnResult ==
    ASSUME EffectInv, AuthorInv', OnResult
    PROVE  EffectInv'
<1>1. PICK n : n = at
    OBVIOUS
<1>2. /\ up /\ n > 0 /\ OnArchived(n, archive[n]) /\ CatchupStep
      /\ UNCHANGED <<style, archive, up, fresh, crossed>>
    BY <1>1 DEF OnResult
<1>3. /\ n \in 1..Len(archive) /\ n \in Nat /\ Len(archive) \in Nat
      /\ ~style.room => back \in 1..n
      /\ back \in 0..Len(archive) /\ cursor \in 0..(Len(archive) + 1) /\ upto \in 0..Len(archive)
      /\ heard \subseteq 1..Len(archive) /\ cache \subseteq 1..Len(archive)
    BY <1>1, <1>2 DEF EffectInv, AuthorInv, Written, Phase, FairArchive
<1>4. \/ /\ at' = n + 1 /\ UNCHANGED <<upto, back, cursor>>
         /\ n < Len(archive) /\ (style.room => n < upto)
      \/ /\ at' = 0 /\ back' = 0 /\ cursor' = Len(archive) + 1
         /\ ~style.room => n = Len(archive)
    BY <1>1, <1>2, <1>3 DEF CatchupStep
<1> DEFINE Drops == UNCHANGED <<lines, heard>> /\ (AlreadyDisplayed(n) \/ ~archive[n].body)
           Takes == /\ archive[n].body /\ ~AlreadyDisplayed(n)
                    /\ heard' = heard \cup {n} /\ Handled(lines, lines', n, archive)
                    /\ One(lines', style.room)
<1>6. Drops \/ Takes
    <2>1. CASE AlreadyDisplayed(n)
        BY <1>2, <2>1 DEF OnArchived
    <2>2. CASE ~AlreadyDisplayed(n) /\ ~archive[n].body
        BY <1>2, <2>2 DEF OnArchived, MessageHandler
    <2>3. CASE ~AlreadyDisplayed(n) /\ archive[n].body
        <3>1. \A i \in 1..Len(lines) : lines[i].of = n => ~Shows(lines[i])
            BY <2>3 DEF AlreadyDisplayed, Shows, EffectInv, AuthorInv, Fits
        <3>2. PICK ar : ar = archive
            OBVIOUS
        <3>3. MessageHandler(n, ar[n], "archive")
            BY <1>2, <2>3, <3>2 DEF OnArchived
        <3>4. /\ Fits(lines, ar, heard, style.room) /\ FairArchive(ar, style.room)
              /\ style.room => style.stamped
              /\ One(lines, style.room)
            BY <3>2 DEF EffectInv, AuthorInv, Written
        <3>5. /\ heard' = heard \cup {n}
              /\ \E new : lines' = new /\ Handled(lines, new, n, ar) /\ One(new, style.room)
            BY <1>3, <2>3, <3>1, <3>2, <3>3, <3>4, Handles
        <3> QED BY <2>3, <3>2, <3>5
    <2> QED BY <2>1, <2>2, <2>3
<1> HIDE DEF Drops, Takes
<1>5. style.room => \A c \in heard : c <= n \/ c \in crossed \/ archive[c].kind = "text" \/ archive[c].ref.of > n
    <2> SUFFICES ASSUME style.room, NEW c \in heard
                 PROVE  c <= n \/ c \in crossed \/ archive[c].kind = "text" \/ archive[c].ref.of > n
        OBVIOUS
    <2>1. After(c, archive, n, upto, crossed) /\ n <= upto
        BY <1>1, <1>2 DEF EffectInv, RoomOrder
    <2>2. archive[c].kind # "text" => archive[c].ref.of \in Nat
        <3>1. FairArchive(archive, style.room) /\ c \in 1..Len(archive)
            BY <1>3 DEF EffectInv, AuthorInv, Written
        <3> QED BY <3>1 DEF FairArchive, Fair
    <2>3. c \in Nat /\ upto \in Nat
        BY <1>3
    <2>4. CASE c < n
        BY <1>3, <2>3, <2>4
    <2>5. CASE archive[c].kind # "text" /\ archive[c].ref.of > upto
        <3>1. archive[c].ref.of > n
            BY <1>3, <2>1, <2>2, <2>3, <2>5
        <3> QED BY <3>1
    <2> QED BY <2>1, <2>4, <2>5 DEF After
<1>7. ASSUME NEW C, Eff(lines, heard, archive, C, crossed), ~style.room => \A c \in heard \cap C : c <= n
      PROVE  Eff(lines', heard', archive, C \cup {n}, crossed)
    <2>1. CASE Drops
        <3>1. n \in heard => AlreadyDisplayed(n)
            BY <2>1 DEF Drops, EffectInv, Bodies
        <3>2. n \in heard => \A j \in 1..Len(lines) : lines[j].nick # NoName => InEffect(lines[j], n, archive)
            BY <1>1, <1>2, <3>1, DroppedInEffect
        <3>3. Eff(lines, heard, archive, C \cup {n}, crossed)
            BY <1>7, <3>2, EffAlso
        <3> QED BY <2>1, <3>3 DEF Drops
    <2>2. CASE Takes
        <3>1. FairArchive(archive, style.room)
            BY DEF EffectInv, AuthorInv, Written
        <3>2. PICK new : new = lines'
            OBVIOUS
        <3>3. \A c \in heard \cap C :
                  c <= n \/ c \in crossed \/ archive[c].kind = "text" \/ archive[c].ref.of > n
            BY <1>5, <1>7
        <3>4. Eff(new, heard \cup {n}, archive, C \cup {n}, crossed)
            BY <1>3, <1>7, <2>2, <3>1, <3>2, <3>3, EffHandled DEF Takes
        <3> QED BY <2>2, <3>2, <3>4 DEF Takes
    <2> QED BY <1>6, <2>1, <2>2
<1>8. Phase'
    BY <1>2, <1>3, <1>4 DEF EffectInv, Phase
<1>9. heard' \subseteq heard \cup {n} /\ Bodies(heard', archive) /\ One(lines', style.room)
    BY <1>6 DEF Drops, Takes, EffectInv, Bodies
<1>10. Eff(lines', heard', archive, Covered', crossed')
    <2>1. Eff(lines, heard, archive, Covered, crossed)
        BY DEF EffectInv
    <2>2. ~style.room => Covered = 0..(n - 1)
        BY <1>1, <1>2, <1>3 DEF Covered, CoveredOf
    <2>3. ~style.room => \A c \in heard \cap Covered : c <= n
        BY <1>3, <2>2
    <2>4. Eff(lines', heard', archive, Covered \cup {n}, crossed)
        BY <1>7, <2>1, <2>3
    <2>5. heard' \cap Covered' \subseteq Covered \cup {n}
        <3>1. CASE style.room
            <4>1. Covered = Nat
                BY <3>1 DEF Covered, CoveredOf
            <4>2. heard' \subseteq Nat
                BY <1>3, <1>9
            <4> QED BY <4>1, <4>2
        <3>2. CASE ~style.room /\ at' = n + 1
            <4>1. Covered' = 0..n
                BY <1>2, <1>3, <3>2 DEF Covered, CoveredOf
            <4>2. 0..n \subseteq (0..(n - 1)) \cup {n}
                BY <1>3
            <4> QED BY <2>2, <3>2, <4>1, <4>2
        <3>3. CASE ~style.room /\ n = Len(archive)
            <4>1. heard' \subseteq (0..(n - 1)) \cup {n}
                BY <1>3, <1>9, <3>3
            <4> QED BY <2>2, <3>3, <4>1
        <3> QED BY <1>4, <3>1, <3>2, <3>3
    <2> QED BY <1>2, <2>4, <2>5 DEF Eff
<1>12. \A i \in 1..Len(lines') : lines'[i].nick = NoName /\ Shows(lines'[i]) =>
            i \in 1..Len(lines) /\ lines[i] = lines'[i]
    BY <1>6 DEF Drops, Takes, Handled
<1>13. RoomOrder'
    <2>1. /\ crossed \subseteq 1..Len(archive) /\ (~style.room => crossed = {})
          /\ style.room => n <= upto /\ \A c \in heard : After(c, archive, n, upto, crossed)
        BY <1>1, <1>2 DEF EffectInv, RoomOrder
    <2>2. ASSUME style.room, at' > 0 PROVE at' <= upto' /\ \A c \in heard' : After(c, archive, at', upto', crossed)
        <3>1. at' = n + 1 /\ upto' = upto /\ n < upto
            BY <1>3, <1>4, <2>2
        <3>2. ASSUME NEW c \in heard' PROVE After(c, archive, at', upto', crossed)
            <4>1. c \in Nat /\ (c = n \/ After(c, archive, n, upto, crossed))
                BY <1>3, <1>9, <2>1, <2>2
            <4> QED BY <1>3, <3>1, <4>1 DEF After
        <3> QED BY <1>3, <3>1, <3>2
    <2> QED BY <1>2, <2>1, <2>2 DEF RoomOrder
<1>14. ASSUME ~style.room PROVE ContactCache(lines', heard', archive)
    <2>1. ContactCache(lines, heard, archive)
        BY <1>14 DEF EffectInv
    <2>2. CASE Drops
        BY <2>1, <2>2 DEF Drops
    <2>3. CASE Takes
        <3> SUFFICES ASSUME NEW i \in 1..Len(lines'), Shows(lines'[i]),
                            archive[lines'[i].of].kind # "text"
                     PROVE  lines'[i].of \notin heard \cup {n}
            BY <2>3 DEF ContactCache, Takes
        <3>1. FitsOne(lines'[i], archive, heard', style.room)
            BY <1>2 DEF AuthorInv, Fits
        <3>2. i \in 1..Len(lines) /\ lines[i] = lines'[i]
            BY <1>12, <3>1 DEF FitsOne
        <3>3. lines[i].of # n
            BY <2>3, <3>2 DEF Takes, AlreadyDisplayed, Shows, EffectInv, AuthorInv, Fits
        <3> QED BY <2>1, <3>2, <3>3 DEF ContactCache
    <2> QED BY <1>6, <2>2, <2>3
<1> QED BY <1>2, <1>8, <1>9, <1>10, <1>13, <1>14 DEF EffectInv

LEMMA EffectNext == EffectInv /\ [Next]_vars => EffectInv'
<1> SUFFICES ASSUME EffectInv, [Next]_vars PROVE EffectInv'
    OBVIOUS
<1>1. AuthorInv'
    BY AuthorNext DEF EffectInv
<1> QED BY <1>1, EffectSends, EffectConnect, EffectJoinRoom, EffectOnResult, EffectLose, EffectRestart DEF Next

\* Once the catch-up has ended every line that names its author shows the author's last
\* version, and nothing that was retracted or moderated, save what in a room crossed its
\* fetch: for any number of stanzas, lost links, restarts and repeated catch-ups, and any
\* limit of the cache.
THEOREM SettledCorrect == Spec => []Settled
BY EffectInit, EffectNext, SettledFromEffect, PTL DEF Spec

-------------------------------------------------------------------------------
(* What the cache does not show again.  Every retraction that was handled is *)
(* in it, by the id it names; a contact names its messages by their own id,  *)
(* which is the one the cache has of them.                                   *)

ByOwnId(s, room) == ~room /\ s.kind = "retract" /\ s.from = "contact" => s.ref = Ref(s.ref.of, "own")

RetractedInv ==
    /\ AuthorInv
    /\ ever \subseteq 1..Len(archive)
    /\ \A n \in 1..Len(archive) : ByOwnId(archive[n], style.room)
    /\ \A n \in ever : archive[n].kind = "retract" => archive[n].ref \in retracted

LEMMA HandlerCaches ==
    ASSUME NEW ar, NEW n \in 1..Len(ar), NEW how,
           MessageHandler(n, ar[n], how) \/ UNCHANGED <<retracted, ever>>,
           ever \subseteq 1..Len(ar),
           \A k \in ever : ar[k].kind = "retract" => ar[k].ref \in retracted
    PROVE  /\ ever' \subseteq 1..Len(ar)
           /\ \A k \in ever' : ar[k].kind = "retract" => ar[k].ref \in retracted'
BY DEF MessageHandler, CacheRetracted

LEMMA RetractedArrives ==
    ASSUME RetractedInv, AuthorInv', NEW s, Arrives(s), ByOwnId(s, style.room), UNCHANGED style
    PROVE  RetractedInv'
<1>1. PICK ar : ar = archive'
    OBVIOUS
<1>2. PICK n : n = Len(archive) + 1
    OBVIOUS
<1>3. /\ ar = Append(archive, s)
      /\ MessageHandler(n, s, "live") \/ UNCHANGED <<retracted, ever>>
    BY <1>1, <1>2 DEF Arrives
<1>4. archive \in Seq(Stanzas)
    BY DEF RetractedInv, AuthorInv, Written, FairArchive
<1>5. /\ Len(ar) = Len(archive) + 1 /\ Len(archive) \in Nat
      /\ \A k \in 1..Len(archive) : ar[k] = archive[k]
      /\ ar[n] = s /\ n \in 1..Len(ar)
    BY <1>2, <1>3, <1>4, AppendOne
<1>6. ever \subseteq 1..Len(ar) /\ \A k \in ever : ar[k].kind = "retract" => ar[k].ref \in retracted
    <2>1. ever \subseteq 1..Len(archive)
        BY DEF RetractedInv
    <2>2. ever \subseteq 1..Len(ar)
        BY <1>5, <2>1
    <2>3. \A k \in ever : ar[k] = archive[k]
        BY <1>5, <2>1
    <2> QED BY <2>2, <2>3 DEF RetractedInv
<1>7. /\ ever' \subseteq 1..Len(ar)
      /\ \A k \in ever' : ar[k].kind = "retract" => ar[k].ref \in retracted'
    BY <1>3, <1>5, <1>6, HandlerCaches
<1>8. \A k \in 1..Len(ar) : k \in 1..Len(archive) \/ k = n
    BY <1>2, <1>5
<1>9. \A k \in 1..Len(ar) : ByOwnId(ar[k], style.room)
    BY <1>5, <1>8 DEF RetractedInv
<1> QED BY <1>1, <1>7, <1>9 DEF RetractedInv

LEMMA RetractedSends ==
    ASSUME RetractedInv, AuthorInv', OthersWrite \/ RoomModerates \/ Write \/ Edit \/ Retract \/ Reply
    PROVE  RetractedInv'
<1>1. CASE OthersWrite
    <2>1. PICK from \in Others :
             \/ Arrives(Stanza("text", from, NoRef, TRUE))
             \/ \E kind \in {"correct", "retract"}, m \in Texts :
                   Arrives(Stanza(kind, from, Ref(m, Naming(kind)), TRUE))
        BY <1>1 DEF OthersWrite
    <2>2. CASE Arrives(Stanza("text", from, NoRef, TRUE))
        <3>1. ByOwnId(Stanza("text", from, NoRef, TRUE), style.room)
            BY DEF ByOwnId, Stanza
        <3> QED BY <1>1, <2>2, <3>1, RetractedArrives DEF OthersWrite
    <2>3. CASE \E kind \in {"correct", "retract"}, m \in Texts :
                   Arrives(Stanza(kind, from, Ref(m, Naming(kind)), TRUE))
        <3>1. PICK kind \in {"correct", "retract"}, m \in Texts :
                   Arrives(Stanza(kind, from, Ref(m, Naming(kind)), TRUE))
            BY <2>3
        <3>2. ByOwnId(Stanza(kind, from, Ref(m, Naming(kind)), TRUE), style.room)
            BY DEF ByOwnId, Stanza, Ref, Naming
        <3> QED BY <1>1, <3>1, <3>2, RetractedArrives DEF OthersWrite
    <2> QED BY <2>1, <2>2, <2>3
<1>2. CASE RoomModerates
    <2>1. PICK s : Arrives(s) /\ s.kind = "moderate"
        BY <1>2 DEF RoomModerates, Stanza
    <2> QED BY <1>2, <2>1, RetractedArrives DEF RoomModerates, ByOwnId
<1>3. ASSUME NEW s, Arrives(s), s.from = "here", UNCHANGED style PROVE RetractedInv'
    BY <1>3, RetractedArrives DEF ByOwnId
<1>4. CASE Edit
    BY <1>3, <1>4 DEF Edit, Stanza
<1>5. CASE Retract
    BY <1>3, <1>5 DEF Retract, Stanza
<1>6. CASE Reply
    BY <1>3, <1>6 DEF Reply, Stanza
<1>7. CASE Write /\ style.room
    BY <1>3, <1>7 DEF Write, Stanza
<1>8. CASE Write /\ ~style.room
    <2>1. PICK ar : ar = archive'
        OBVIOUS
    <2>2. PICK s : s = Stanza("text", "here", NoRef, TRUE)
        OBVIOUS
    <2>3. ar = Append(archive, s) /\ UNCHANGED <<style, retracted, ever>>
        BY <1>8, <2>1, <2>2 DEF Write
    <2>4. archive \in Seq(Stanzas)
        BY DEF RetractedInv, AuthorInv, Written, FairArchive
    <2>5. /\ Len(ar) = Len(archive) + 1 /\ Len(archive) \in Nat
          /\ \A k \in 1..Len(archive) : ar[k] = archive[k]
          /\ ar[Len(archive) + 1] = s
        BY <2>3, <2>4, AppendOne
    <2>6. s.kind = "text"
        BY <2>2 DEF Stanza
    <2>7. \A k \in 1..Len(ar) : k \in 1..Len(archive) \/ k = Len(archive) + 1
        BY <2>5
    <2>8. \A k \in 1..Len(ar) : ByOwnId(ar[k], style.room)
        BY <2>5, <2>6, <2>7 DEF RetractedInv, ByOwnId
    <2>9. ever \subseteq 1..Len(ar) /\ \A k \in ever : ar[k].kind = "retract" => ar[k].ref \in retracted
        BY <2>5 DEF RetractedInv
    <2> QED BY <2>1, <2>3, <2>8, <2>9 DEF RetractedInv
<1> QED BY <1>1, <1>2, <1>4, <1>5, <1>6, <1>7, <1>8

LEMMA RetractedNext == RetractedInv /\ [Next]_vars => RetractedInv'
<1> SUFFICES ASSUME RetractedInv, [Next]_vars PROVE RetractedInv'
    OBVIOUS
<1>1. AuthorInv'
    BY AuthorNext DEF RetractedInv
<1>2. CASE OnResult
    <2>1. PICK n : n = at
        OBVIOUS
    <2>2. PICK ar : ar = archive
        OBVIOUS
    <2>3. n \in 1..Len(ar)
        BY <1>2, <2>1, <2>2 DEF OnResult, RetractedInv, AuthorInv, Written, FairArchive
    <2>4. MessageHandler(n, ar[n], "archive") \/ UNCHANGED <<retracted, ever>>
        BY <1>2, <2>1, <2>2 DEF OnResult, OnArchived
    <2>5. ever \subseteq 1..Len(ar) /\ \A k \in ever : ar[k].kind = "retract" => ar[k].ref \in retracted
        BY <2>2 DEF RetractedInv
    <2>6. /\ ever' \subseteq 1..Len(ar)
          /\ \A k \in ever' : ar[k].kind = "retract" => ar[k].ref \in retracted'
        BY <2>3, <2>4, <2>5, HandlerCaches
    <2>7. UNCHANGED <<style, archive>>
        BY <1>2 DEF OnResult
    <2> QED BY <1>1, <2>2, <2>6, <2>7 DEF RetractedInv
<1>3. CASE Connect \/ JoinRoom \/ Lose \/ Restart \/ UNCHANGED vars
    <2>1. UNCHANGED <<style, archive, retracted, ever>>
        BY <1>3 DEF Connect, JoinRoom, Lose, Restart, vars, store
    <2> QED BY <1>1, <2>1 DEF RetractedInv
<1> QED BY <1>1, <1>2, <1>3, RetractedSends DEF Next

\* What a contact retracted is not read again from the cache when its buffer is opened,
\* whatever links, crashes and ends of the program come between.
THEOREM DeletedOnReloadCorrect == Spec => DeletedOnReload
<1> DEFINE Deletes ==
        Connect =>
            \A i \in DOMAIN lines', n \in ever :
                (/\ archive[n].kind = "retract" /\ archive[n].from = "contact"
                 /\ archive[n].ref.of = lines'[i].of
                 /\ i > Len(lines)) => lines'[i].text = Gone
<1>1. Init => RetractedInv
    <2> SUFFICES ASSUME Init PROVE RetractedInv
        OBVIOUS
    <2>1. Len(archive) = 0 /\ ever = {} /\ AuthorInv
        BY EmptySeq, AuthorInit DEF Init
    <2> QED BY <2>1 DEF RetractedInv
<1>2. RetractedInv /\ [Next]_vars => [Deletes]_vars
    <2> SUFFICES ASSUME RetractedInv, Connect, NEW i \in DOMAIN lines', NEW n \in ever,
                        archive[n].kind = "retract", archive[n].from = "contact",
                        archive[n].ref.of = lines'[i].of, i > Len(lines)
                 PROVE  lines'[i].text = Gone
        OBVIOUS
    <2>0. ~style.room
        BY DEF Connect
    <2>1. PICK more \in Loaded : lines' = lines \o more \/ lines' = lines
        BY DEF Connect
    <2>2. lines \in Seq(LineTypes)
        BY DEF RetractedInv, AuthorInv, Fits
    <2>3. cache \subseteq 1..Len(archive) /\ Len(archive) \in Nat
        BY DEF RetractedInv, AuthorInv, Written, FairArchive
    <2>4. lines' = lines \o more
        <3>1. lines' # lines
            BY <2>2
        <3> QED BY <2>1, <3>1
    <2>5. more \in Seq(LineTypes)
        BY <2>3, LoadedIs
    <2>6. i - Len(lines) \in 1..Len(more) /\ lines'[i] = more[i - Len(lines)]
        BY <2>2, <2>4, <2>5, ConcatProperties
    <2>7. PICK k \in Kept : more[i - Len(lines)] = CachedLine(k)
        <3>1. PICK f : more = [j \in DOMAIN f |-> CachedLine(f[j])] /\ f \in [1..Cardinality(Kept) -> Kept]
            BY DEF Loaded, InOrder
        <3>2. DOMAIN more = 1..Len(more)
            BY <2>5
        <3> QED BY <2>6, <3>1, <3>2
    <2>8. archive[n].ref = Ref(k, "own") /\ archive[n].ref \in retracted
        BY <2>0, <2>6, <2>7 DEF RetractedInv, ByOwnId, CachedLine, Line
    <2> QED BY <2>6, <2>7, <2>8 DEF CachedLine, Line, Gone
<1>3. DeletedOnReload <=> [][Deletes]_vars
    BY DEF DeletedOnReload
<1> HIDE DEF Deletes
<1>4. RetractedInv /\ [Next]_vars => RetractedInv' /\ [Deletes]_vars
    BY <1>2, RetractedNext
<1> QED BY <1>1, <1>3, <1>4, PTL DEF Spec
================================================================================
