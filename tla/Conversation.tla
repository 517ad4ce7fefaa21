----------------------------- MODULE Conversation -----------------------------
(***************************************************************************)
(* What the buffer of one conversation shows: messages, corrections,       *)
(* retractions and moderation, as they arrive live, as carbons, out of the *)
(* archive, over lost links and restarts with the message cache            *)
(* (message_handler.inl, command/history.inl, account/lmdb_cache.inl).     *)
(*                                                                         *)
(* A stanza is its place in the server's archive.  A text is the stanza    *)
(* that wrote it.  A contact's catch-up covers what was missed, and is     *)
(* repeated if a lost link ended it (HistorySync); a room is caught up     *)
(* with once, when its buffer is new.  The user's own sendings arrive.     *)
(***************************************************************************)
EXTENDS Integers, Sequences, FiniteSets, SequencesExt

CONSTANTS
    MaxStanzas, MaxTrouble,   \* bounds: the archive; lost links and restarts together
    CacheLimit                \* mam_cache_load_messages: 100 in the code

ASSUME BoundsAssumption == {MaxStanzas, MaxTrouble, CacheLimit} \subseteq Nat

VARIABLES
    style,      \* a room or a contact; if its clients add origin-ids; if the server
                \* stamps what it delivers with a stanza-id
    archive,    \* the stanzas of the conversation, as the server has them
    up,         \* connected, and in the room
    fresh,      \* the buffer was not opened since the start of the program; in a room: joining
    lines,      \* the buffer
    cache,      \* LMDB: the messages
    retracted,  \* LMDB: the retractions, by the id they name
    cursor,     \* LMDB: when the last fetch ended; 0: never fetched
    at,         \* the archived stanza the catch-up is at; 0: none runs
    upto,       \* a room's fetch ends with the stanza that was the last when it was asked for
    back,       \* where a contact's catch-up that did not end began; 0: it ended
    heard, ever,   \* history: stanzas with a body that were handled, since the start of
                \* the program and at all
    crossed,    \* history: those that a room sent while its fetch of what they name ran
    trouble     \* for the bound

store == <<cache, retracted, cursor>>
fetch == <<at, upto, back>>
vars  == <<style, archive, up, fresh, lines, store, fetch, heard, ever, crossed, trouble>>

\* Senders: the user, here or elsewhere, the contact, in a room a third and the room
\* itself.  A message is named by the id of its sender, "own", or of the archive, "sid".
Ref(m, kind) == [of |-> m, by |-> kind]
NoRef == Ref(0, "own")

Mine == {"here", "elsewhere"}
Name(s) == IF s \in Mine THEN "me" ELSE s
NoName == "none"
Gone   == 0

Init ==
    /\ style \in {t \in [room : BOOLEAN, origin : BOOLEAN, stamped : BOOLEAN] :
                     t.room => t.stamped}
    /\ archive = <<>> /\ up = FALSE /\ fresh = TRUE /\ lines = <<>>
    /\ cache = {} /\ retracted = {} /\ cursor = 0
    /\ at = 0 /\ upto = 0 /\ back = 0
    /\ heard = {} /\ ever = {} /\ crossed = {} /\ trouble = 0

-------------------------------------------------------------------------------
\* Lines and their tags.

\* A line: the message it is of, the ids in its tags, nick_, self_msg, the text.
Line(m, ids, nick, self, text) ==
    [of |-> m, ids |-> ids, nick |-> nick, self |-> self, text |-> text]

\* id_matches_any: id_, stanza_id_ or origin_id_.
Matches(line, ref) == line.of = ref.of /\ ref.by \in line.ids

\* The newest of the lines where P holds; 0: none.
Newest(ls, P(_)) == SelectLastInSeq(ls, P)

\* Which ids the tags of a message get: the stanza-id if there is one, else the
\* origin-id or the id; then the origin-id.  An archived copy always has the first.
TagIds(s, how) ==
    LET sid    == how # "live" \/ style.stamped
        origin == IF s.from = "here" THEN s.ref = NoRef ELSE style.origin
    IN  (IF sid THEN {"sid"} ELSE {}) \cup (IF origin \/ ~sid THEN {"own"} ELSE {})

Printed(ls, n, s, how) ==
    Append(ls, Line(n, TagIds(s, how), Name(s.from), s.from \in Mine, n))

-------------------------------------------------------------------------------
\* message_handler, for the stanza s at place n, a buffer ls.

\* The correction applies to the newest line of that id and of that sender.
\* Mutant: of any sender.
AnySender(line, s) == Matches(line, s.ref)
SameSender(line, s) == Matches(line, s.ref) /\ line.nick = Name(s.from)
Corrected(ls, n, s) ==
    LET i == Newest(ls, LAMBDA l : SameSender(l, s))
    IN  IF i = 0 THEN ls ELSE [ls EXCEPT ![i].text = n]

\* The tombstone replaces all the tags.  Mutant: they stay.
TaggedTombstone(line) == [line EXCEPT !.text = Gone]
Tombstone(line) == Line(line.of, {}, NoName, FALSE, Gone)

\* The newest line of that id, if it is of that sender.
Retracted(ls, s) ==
    LET i == Newest(ls, LAMBDA l : Matches(l, s.ref))
    IN  IF i = 0 \/ ls[i].nick # Name(s.from) THEN ls ELSE [ls EXCEPT ![i] = Tombstone(@)]

\* Only the room itself moderates.
Moderated(ls, s) ==
    LET i == Newest(ls, LAMBDA l : Matches(l, s.ref))
    IN  IF i = 0 THEN ls ELSE [ls EXCEPT ![i] = Tombstone(@)]

Shown(ls, n, s, how) ==
    CASE s.kind = "correct"  -> Corrected(ls, n, s)
      [] s.kind = "retract"  -> Retracted(ls, s)
      [] s.kind = "moderate" -> Moderated(ls, s)
      [] OTHER -> Printed(ls, n, s, how)

\* The cache hears of a retraction whether or not it is the author's.
\* Mutant: it hears of moderations only.
CacheModerated(s) == retracted \cup (IF s.kind = "moderate" THEN {s.ref} ELSE {})
CacheRetracted(s) == retracted \cup (IF s.kind \in {"retract", "moderate"} THEN {s.ref} ELSE {})

\* A stanza without a body ends in the branch of the control stanzas.
MessageHandler(n, s, how) ==
    IF s.body
    THEN /\ lines' = Shown(lines, n, s, how)
         /\ retracted' = CacheRetracted(s)
         /\ heard' = heard \cup {n} /\ ever' = ever \cup {n}
    ELSE UNCHANGED <<lines, retracted, heard, ever>>

\* What the archive returns goes to the cache, then it is dropped if a line has
\* its archive id, or its own id in any tag.
AlreadyDisplayed(n) == \E i \in DOMAIN lines : lines[i].of = n /\ lines[i].ids # {}
OnArchived(n, s) ==
    /\ cache' = IF s.body THEN cache \cup {n} ELSE cache
    /\ IF AlreadyDisplayed(n) THEN UNCHANGED <<lines, retracted, heard, ever>>
                              ELSE MessageHandler(n, s, "archive")

\* mam_cache_load_messages: the first CacheLimit by their stamp, in that order.
Kept == {n \in cache : Cardinality({k \in cache : k < n}) < CacheLimit}
InOrder(S) == {f \in [1..Cardinality(S) -> S] : \A i, j \in DOMAIN f : i < j => f[i] < f[j]}
CachedLine(n) ==
    Line(n, {"own"}, NoName, FALSE, IF Ref(n, "own") \in retracted THEN Gone ELSE n)
Loaded == {[i \in DOMAIN f |-> CachedLine(f[i])] : f \in InOrder(Kept)}

-------------------------------------------------------------------------------
\* Sending.

\* The stanza reaches the archive, and this client if it is connected: from the
\* room's reflection, the contact or a carbon.  A client's own message to a contact
\* does not come back.
Arrives(s) ==
    LET n == Len(archive) + 1
    IN  /\ Len(archive) < MaxStanzas
        /\ archive' = Append(archive, s)
        /\ IF ~up \/ (s.from = "here" /\ ~style.room)
           THEN UNCHANGED <<lines, retracted, heard, ever>>
           ELSE MessageHandler(n, s, "live")
        /\ crossed' = IF style.room /\ at > 0 /\ s.kind # "text" /\ s.body /\ s.ref.of <= upto
                      THEN crossed \cup {n} ELSE crossed

Stanza(kind, from, ref, body) == [kind |-> kind, from |-> from, ref |-> ref, body |-> body]
Texts == {n \in DOMAIN archive : archive[n].kind = "text"}

Others == IF style.room THEN {"contact", "third"} ELSE {"contact", "elsewhere"}

\* Other clients name the message by its own id; in a room a retraction names it
\* by the id the room gave.  Whose message it is is not up to this client.
Naming(kind) == IF style.room /\ kind # "correct" THEN "sid" ELSE "own"
OthersWrite ==
    /\ \E from \in Others :
          \/ Arrives(Stanza("text", from, NoRef, TRUE))
          \/ \E kind \in {"correct", "retract"}, m \in Texts :
                Arrives(Stanza(kind, from, Ref(m, Naming(kind)), TRUE))
    /\ UNCHANGED <<style, up, fresh, cache, cursor, fetch, trouble>>

\* Rooms send moderations with and without a body.
RoomModerates ==
    /\ style.room
    /\ \E m \in Texts, body \in BOOLEAN :
          Arrives(Stanza("moderate", "room", Ref(m, "sid"), body))
    /\ UNCHANGED <<style, up, fresh, cache, cursor, fetch, trouble>>

\* channel::send_message: only a message to a contact is shown at once, and
\* without a nick_ tag.
Write ==
    /\ up /\ Len(archive) < MaxStanzas
    /\ LET n == Len(archive) + 1
           s == Stanza("text", "here", NoRef, TRUE)
       IN  IF style.room
           THEN Arrives(s)
           ELSE /\ archive' = Append(archive, s)
                /\ lines' = Append(lines, Line(n, {"own"}, NoName, TRUE, n))
                /\ UNCHANGED <<retracted, heard, ever, crossed>>
    /\ UNCHANGED <<style, up, fresh, cache, cursor, fetch, trouble>>

\* collect_own_messages: own lines that are not retracted and have an id;
\* resolve_msg_id and collect_buffer_messages give the stanza-id where there is one.
OwnLines == {i \in DOMAIN lines : lines[i].self /\ lines[i].ids # {} /\ lines[i].text # Gone}
Resolved(line) == Ref(line.of, IF "sid" \in line.ids THEN "sid" ELSE "own")

\* /edit and /edit-to.
Edit ==
    /\ up
    /\ \E i \in OwnLines : Arrives(Stanza("correct", "here", Resolved(lines[i]), TRUE))
    /\ UNCHANGED <<style, up, fresh, cache, cursor, fetch, trouble>>

\* /retract.
Retract ==
    /\ up
    /\ \E i \in OwnLines : Arrives(Stanza("retract", "here", Resolved(lines[i]), TRUE))
    /\ UNCHANGED <<style, up, fresh, cache, cursor, fetch, trouble>>

\* /reply and /reply-to: to the newest line of somebody else.  It is not shown
\* before it comes back, and its origin-id is not its id.
Reply ==
    /\ up
    /\ LET i == Newest(lines, LAMBDA l : ~l.self /\ l.ids # {})
       IN  i # 0 /\ Arrives(Stanza("text", "here", Resolved(lines[i]), TRUE))
    /\ UNCHANGED <<style, up, fresh, cache, cursor, fetch, trouble>>

-------------------------------------------------------------------------------
\* The link, the catch-up and restarts.

\* A contact: the global catch-up goes on where the last one was.  When the buffer is
\* opened its cache is loaded, and then cleared.
Connect ==
    /\ ~style.room /\ ~up /\ up' = TRUE /\ fresh' = FALSE
    /\ \E k \in 1..(IF back > 0 THEN back ELSE IF cursor > 0 THEN cursor ELSE 1) :
          IF k > Len(archive)
          THEN at' = 0 /\ back' = 0 /\ cursor' = k
          ELSE at' = k /\ back' = k /\ cursor' = cursor
    /\ \E more \in Loaded :
          lines' = IF cursor > 0 /\ fresh THEN lines \o more ELSE lines
    /\ cache' = IF fresh THEN {} ELSE cache
    /\ UNCHANGED <<style, archive, retracted, upto, heard, ever, crossed, trouble>>

\* A room: only a new channel is joining when the presence with status 110 comes.  Its
\* cache is loaded, and what was sent since the last fetch, or in a week, is asked for up
\* to now.  A room that is joined again has nothing of this.
JoinRoom ==
    /\ style.room /\ ~up /\ up' = TRUE /\ fresh' = FALSE
    /\ IF fresh
       THEN \E k \in 1..(Len(archive) + 1), more \in Loaded :
               /\ lines' = IF cursor > 0 THEN lines \o more ELSE lines
               /\ IF k > Len(archive)
                  THEN cursor' = k /\ UNCHANGED <<at, upto>>
                  ELSE at' = k /\ upto' = Len(archive) /\ cursor' = cursor
       ELSE UNCHANGED <<lines, at, upto, cursor>>
    /\ UNCHANGED <<style, archive, cache, retracted, back, heard, ever, crossed, trouble>>

\* The next archived stanza; after the last one the fetch is complete, as of now.
CatchupStep ==
    IF at < (IF style.room THEN upto ELSE Len(archive))
    THEN at' = at + 1 /\ UNCHANGED <<upto, back, cursor>>
    ELSE at' = 0 /\ upto' = 0 /\ back' = 0 /\ cursor' = Len(archive) + 1

OnResult ==
    /\ up /\ at > 0
    /\ OnArchived(at, archive[at])
    /\ CatchupStep
    /\ UNCHANGED <<style, archive, up, fresh, crossed, trouble>>

\* The link, or the stay in the room.
Lose ==
    /\ up /\ trouble < MaxTrouble /\ trouble' = trouble + 1
    /\ up' = FALSE /\ at' = 0 /\ upto' = 0
    /\ UNCHANGED <<style, archive, fresh, lines, store, back, heard, ever, crossed>>

\* A crash; or the end of the program or of the buffer, where ~channel clears the cache
\* of a contact.
Restart ==
    /\ trouble < MaxTrouble /\ trouble' = trouble + 1
    /\ up' = FALSE /\ at' = 0 /\ upto' = 0 /\ fresh' = TRUE
    /\ lines' = <<>> /\ heard' = {} /\ crossed' = {}
    /\ \E crash \in BOOLEAN :
          IF crash \/ style.room
          THEN UNCHANGED <<cache, cursor>>
          ELSE cache' = {} /\ cursor' = 0
    /\ back' = IF cursor' = 0 THEN 0 ELSE back
    /\ UNCHANGED <<style, archive, retracted, ever>>

Next == \/ OthersWrite \/ RoomModerates \/ Write \/ Edit \/ Retract \/ Reply
        \/ Connect \/ JoinRoom \/ OnResult \/ Lose \/ Restart

Spec == Init /\ [][Next]_vars

-------------------------------------------------------------------------------
\* Properties.

\* What the author of a line's message wrote about it, as far as it was handled
\* and names an id the line has.
Amendments(line, kind) ==
    {n \in heard : LET s == archive[n]
                   IN  /\ s.kind = kind /\ Matches(line, s.ref)
                       /\ Name(s.from) = Name(archive[line.of].from)}
Moderations(line) == {n \in heard : archive[n].kind = "moderate" /\ Matches(line, archive[n].ref)}

Reference(line) ==
    IF Amendments(line, "retract") \cup Moderations(line) # {} THEN Gone
    ELSE LET c == Amendments(line, "correct")
         IN  IF c = {} THEN line.of ELSE CHOOSE n \in c : \A k \in c : k <= n

\* Amendments of a line's message that came live while the room's fetch of it ran: the
\* one fetch ends before them and nothing repeats them, so they may have come too early
\* for the line, or an older correction after them.
Crossed(line) == \E n \in crossed : archive[n].ref.of = line.of

\* Once the catch-up has ended every line that names its author shows the author's
\* last version, and a retracted or moderated message is shown by no such line,
\* whatever mix of live messages, carbons and archive results brought them, and
\* however often: message_handler is run for each.  In a room an amendment must not
\* have crossed the fetch.
Settled ==
    up /\ at = 0 =>
        \A i \in DOMAIN lines :
            lines[i].nick # NoName /\ ~Crossed(lines[i]) => lines[i].text = Reference(lines[i])

\* A line shows only what the author of its message wrote, and a line that was
\* shown becomes a tombstone only by its author or the room (XEP-0308, 3; XEP-0424, 5).
AuthorOnly ==
    \A i \in DOMAIN lines :
        LET l == lines[i]
        IN  IF l.text # Gone
            THEN Name(archive[l.text].from) = Name(archive[l.of].from)
            ELSE l.ids = {} =>
                   \E n \in heard : /\ archive[n].kind \in {"retract", "moderate"}
                                    /\ archive[n].ref.of = l.of
                                    /\ Name(archive[n].from) \in {Name(archive[l.of].from), "room"}

\* What a contact retracted is not read again from the cache when its buffer is
\* opened (mam_cache_retract_message, mam_cache_is_retracted).
DeletedOnReload ==
    [][Connect =>
        \A i \in DOMAIN lines', n \in ever :
            (/\ archive[n].kind = "retract" /\ archive[n].from = "contact"
             /\ archive[n].ref.of = lines'[i].of
             /\ i > Len(lines)) => lines'[i].text = Gone]_vars

===============================================================================
