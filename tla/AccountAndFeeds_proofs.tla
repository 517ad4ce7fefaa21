----------------------- MODULE AccountAndFeeds_proofs -----------------------
(***************************************************************************)
(* Two components side by side, which share no name and no state.          *)
(*                                                                         *)
(* What an account tells the server of its user, and the resources it      *)
(* connects under, for any number of streams and failures.                 *)
(*                                                                         *)
(* Then the three invariants of Feeds, for every set of nodes and every    *)
(* bound.  OpenIsRemembered is inductive.  PrintedOnce and SeenWasShown    *)
(* rest on one fact, that of entries the marks on disk are exactly those   *)
(* ever printed: whoever prints one marks it, whoever marks has printed,   *)
(* and neither a lost stream nor a restart comes between.  Of the          *)
(* descriptions of a node only half of it holds: a page leaves them        *)
(* unmarked.                                                               *)
(***************************************************************************)
EXTENDS AccountLifecycle, Feeds, FiniteSetTheorems, TLAPS

USE BoundsAssumption

-------------------------------------------------------------------------------
(* Client state.  Each report is the exclusive or of what was told and what *)
(* the flags say is due, so it is right only while both agree.              *)

ReportTypes ==
    /\ csiActive \in BOOLEAN /\ idleSent \in BOOLEAN
    /\ told \in [active : BOOLEAN, idle : BOOLEAN]

ReportInv == ReportTypes /\ CsiAgrees /\ IdleIsRevocable

LEMMA ReportInit == Init => ReportInv
<1> SUFFICES ASSUME Init PROVE ReportInv
    OBVIOUS
<1>1. ReportTypes
    BY DEF Init, ReportTypes
<1>2. conn # "up"
    BY DEF Init
<1> QED BY <1>1, <1>2 DEF ReportInv, CsiAgrees, IdleIsRevocable

\* connect() reports nothing and leaves no stream up that was not.
LEMMA ConnectReports ==
    ASSUME ReportInv, NEW ok \in BOOLEAN, Connect(ok), UNCHANGED session
    PROVE  ReportInv'
BY DEF ReportInv, ReportTypes, CsiAgrees, IdleIsRevocable, Connect, session

LEMMA ReportNext == ReportInv /\ [Next]_vars => ReportInv'
<1> SUFFICES ASSUME ReportInv, [Next]_vars PROVE ReportInv'
    OBVIOUS
<1> USE DEF ReportInv, ReportTypes, CsiAgrees, IdleIsRevocable
<1>1. ASSUME NEW ok \in BOOLEAN, ManualConnect(ok) PROVE ReportInv'
    BY <1>1, ConnectReports DEF ManualConnect
<1>2. ASSUME NEW ok \in BOOLEAN, Reconnect(ok) PROVE ReportInv'
    BY <1>2, ConnectReports DEF Reconnect
<1>3. CASE Connected
    BY <1>3 DEF Connected
<1>4. ASSUME NEW conflict \in BOOLEAN, StreamEnded(conflict) PROVE ReportInv'
    BY <1>4 DEF StreamEnded
<1>5. CASE UserDisconnect
    BY <1>5 DEF UserDisconnect
<1>6. CASE GoIdle
    BY <1>6 DEF GoIdle
<1>7. CASE IdleTimer
    BY <1>7 DEF IdleTimer
<1>8. CASE Activity
    BY <1>8 DEF Activity
<1>9. CASE UNCHANGED vars
    BY <1>9 DEF vars, session
<1> QED BY <1>1, <1>2, <1>3, <1>4, <1>5, <1>6, <1>7, <1>8, <1>9 DEF Next

LEMMA ReportCorrect == Spec => []ReportInv
BY ReportInit, ReportNext, PTL DEF Spec

\* On every stream csi_active is what the server was told last, whatever the
\* order of timers, key presses, failures and commands.
THEOREM CsiAgreesCorrect == Spec => []CsiAgrees
<1>1. ReportInv => CsiAgrees
    BY DEF ReportInv
<1> QED BY <1>1, ReportCorrect, PTL

\* While contacts see the user idle, xep0319_idle_sent is set, so that his next
\* key press revokes it.
THEOREM IdleIsRevocableCorrect == Spec => []IdleIsRevocable
<1>1. ReportInv => IdleIsRevocable
    BY DEF ReportInv
<1> QED BY <1>1, ReportCorrect, PTL

-------------------------------------------------------------------------------
(* Conflicts.  A resource that met a conflict is given up at once, so the   *)
(* one in use is never among them; and a new one can be found, for there    *)
(* are no more conflicts than streams that ended.                           *)

ResourceTypes ==
    /\ drops \in Nat /\ resource \in Nat
    /\ kicked \subseteq Nat \ {0} /\ IsFiniteSet(kicked)
    /\ Cardinality(kicked) <= drops

ResourceInv ==
    /\ ResourceTypes
    /\ resource \notin kicked
    /\ Alive => resource # 0

\* Among drops + 2 resources one is neither in use nor met a conflict.
LEMMA FreshExists ==
    ASSUME ResourceTypes
    PROVE  Fresh \in 1..(drops + 2) /\ Fresh \notin kicked
<1> DEFINE Used == kicked \cup {resource}
<1>1. IsFiniteSet(Used) /\ Cardinality(Used) <= drops + 1
    <2>1. Cardinality(kicked) \in Nat
        BY FS_CardinalityType DEF ResourceTypes
    <2>2. IsFiniteSet(Used)
          /\ (Cardinality(Used) = Cardinality(kicked) \/ Cardinality(Used) = Cardinality(kicked) + 1)
        BY FS_AddElement DEF ResourceTypes
    <2> QED BY <2>1, <2>2 DEF ResourceTypes
<1>2. IsFiniteSet(1..(drops + 2)) /\ Cardinality(1..(drops + 2)) = drops + 2
    <2>1. drops + 2 \in Int /\ 1 \in Int /\ 1 <= drops + 2
        BY DEF ResourceTypes
    <2> QED BY <2>1, FS_Interval DEF ResourceTypes
<1>3. ~ (1..(drops + 2) \subseteq Used)
    <2> SUFFICES ASSUME 1..(drops + 2) \subseteq Used PROVE FALSE
        OBVIOUS
    <2>1. Cardinality(1..(drops + 2)) <= Cardinality(Used)
        BY <1>1, FS_Subset
    <2>2. Cardinality(Used) \in Nat
        BY <1>1, FS_CardinalityType
    <2> QED BY <1>1, <1>2, <2>1, <2>2 DEF ResourceTypes
<1>4. \E r \in 1..(drops + 2) : r \notin kicked /\ r # resource
    BY <1>3
<1> QED BY <1>4 DEF Fresh

LEMMA ResourceInit == Init => ResourceInv
BY FS_EmptySet DEF Init, ResourceInv, ResourceTypes, Alive

LEMMA ConnectResources ==
    ASSUME ResourceInv, NEW ok \in BOOLEAN, Connect(ok), UNCHANGED kicked,
           drops' \in {drops, drops + 1}, ok \/ drops' = drops + 1
    PROVE  ResourceInv'
<1>1. Fresh \in Nat \ {0} /\ Fresh \notin kicked
    BY FreshExists DEF ResourceInv, ResourceTypes
<1>2. ResourceTypes'
    <2>1. Cardinality(kicked) \in Nat
        BY FS_CardinalityType DEF ResourceInv, ResourceTypes
    <2> QED BY <1>1, <2>1 DEF ResourceInv, ResourceTypes, Connect
<1>3. resource' \notin kicked'
    BY <1>1 DEF ResourceInv, Connect
<1>4. resource' # 0
    BY <1>1 DEF Connect
<1> QED BY <1>2, <1>3, <1>4 DEF ResourceInv

\* The user's idling and the reports change neither streams nor resources.
LEMMA OthersKeepResources ==
    ASSUME ResourceInv, UNCHANGED <<conn, resource, kicked, drops>>
    PROVE  ResourceInv'
BY DEF ResourceInv, ResourceTypes, Alive

LEMMA ResourceNext == ResourceInv /\ [Next]_vars => ResourceInv'
<1> SUFFICES ASSUME ResourceInv, [Next]_vars PROVE ResourceInv'
    OBVIOUS
<1>1. ASSUME NEW ok \in BOOLEAN, ManualConnect(ok) PROVE ResourceInv'
    BY <1>1, ConnectResources DEF ManualConnect
<1>2. ASSUME NEW ok \in BOOLEAN, Reconnect(ok) PROVE ResourceInv'
    BY <1>2, ConnectResources DEF Reconnect
<1>3. CASE Connected
    BY <1>3 DEF Connected, ResourceInv, ResourceTypes, Alive
<1>4. ASSUME NEW conflict \in BOOLEAN, StreamEnded(conflict) PROVE ResourceInv'
    <2>1. conflict => resource # 0
        BY <1>4 DEF StreamEnded, ResourceInv
    <2>2. ~Alive'
        BY <1>4 DEF StreamEnded, Alive
    <2>3. CASE conflict
        <3>1. IsFiniteSet(kicked') /\ Cardinality(kicked') = Cardinality(kicked) + 1
            BY <1>4, <2>3, FS_AddElement DEF StreamEnded, ResourceInv, ResourceTypes
        <3>2. Cardinality(kicked) \in Nat
            BY FS_CardinalityType DEF ResourceInv, ResourceTypes
        <3>3. kicked' \subseteq Nat \ {0} /\ resource' = 0
            BY <1>4, <2>1, <2>3 DEF StreamEnded, ResourceInv, ResourceTypes
        <3> QED BY <1>4, <2>2, <3>1, <3>2, <3>3 DEF StreamEnded, ResourceInv, ResourceTypes
    <2>4. CASE ~conflict
        <3>1. Cardinality(kicked) \in Nat
            BY FS_CardinalityType DEF ResourceInv, ResourceTypes
        <3> QED BY <1>4, <2>2, <2>4, <3>1 DEF StreamEnded, ResourceInv, ResourceTypes
    <2> QED BY <2>3, <2>4
<1>5. CASE UserDisconnect
    <2>1. Cardinality(kicked) \in Nat
        BY FS_CardinalityType DEF ResourceInv, ResourceTypes
    <2>2. Alive' => Alive
        BY <1>5 DEF UserDisconnect, Alive
    <2> QED BY <1>5, <2>1, <2>2 DEF UserDisconnect, ResourceInv, ResourceTypes
<1>6. CASE GoIdle
    BY <1>6, OthersKeepResources DEF GoIdle
<1>7. CASE IdleTimer
    BY <1>7, OthersKeepResources DEF IdleTimer
<1>8. CASE Activity
    BY <1>8, OthersKeepResources DEF Activity
<1>9. CASE UNCHANGED vars
    BY <1>9, OthersKeepResources DEF vars
<1> QED BY <1>1, <1>2, <1>3, <1>4, <1>5, <1>6, <1>7, <1>8, <1>9 DEF Next

\* However many conflicts there were, no stream is opened under a resource that
\* met one: the kick-reconnect-kick storm of connect_lifecycle.inl cannot happen.
THEOREM ConflictEscapedCorrect == Spec => []ConflictEscaped
<1>1. ResourceInv => ConflictEscaped
    BY DEF ResourceInv, ConflictEscaped
<1> QED BY <1>1, ResourceInit, ResourceNext, PTL DEF Spec

-------------------------------------------------------------------------------
\* Feeds.

ShownIsMarked == Entries(shown) \subseteq seen
Marks         == ShownIsMarked /\ SeenWasShown /\ PrintedOnce

FeedsInv == OpenIsRemembered /\ Marks

-------------------------------------------------------------------------------
\* Steps that leave the marks and what was printed alone.
LEMMA MarksStay ==
    Marks /\ UNCHANGED <<seen, payload, shown, repeats>> => Marks'
BY DEF Marks, ShownIsMarked, SeenWasShown, PrintedOnce, Entries, Readable

\* Steps that touch neither buffers nor marks keep everything.
LEMMA QuietKeeps ==
    FeedsInv /\ UNCHANGED <<up, chans, registry, seen, payload, shown, repeats>> => FeedsInv'
BY MarksStay DEF FeedsInv, OpenIsRemembered

\* feed_open_register keeps buffers and registry together while the stream is open.
LEMMA OpenedKeeps ==
    ASSUME OpenIsRemembered, up, up' = up, NEW feeds, Opened(feeds)
    PROVE  OpenIsRemembered'
BY DEF OpenIsRemembered, Opened

\* What is announced was not marked, so it was not printed; both become true of it.
LEMMA AnnounceKeeps ==
    ASSUME Marks, NEW items, items \cap seen = {}, Announce(items), UNCHANGED payload
    PROVE  Marks'
<1>1. ShownIsMarked'
  BY DEF Marks, ShownIsMarked, Announce, Printed, Entries, Readable
<1>2. SeenWasShown'
  BY DEF Marks, SeenWasShown, Announce, Printed, Readable
<1>3. Entries(items) \cap shown = {}
  BY DEF Marks, ShownIsMarked, Entries
<1>4. PrintedOnce'
  BY <1>3 DEF Marks, PrintedOnce, Announce, Entries, Readable
<1> QED BY <1>1, <1>2, <1>4 DEF Marks

\* A page is no repeat; of what it prints the entries are marked, and only they.
LEMMA PrintPageKeeps ==
    ASSUME Marks, NEW items, PrintPage(items), UNCHANGED payload
    PROVE  Marks'
<1>1. ShownIsMarked' /\ SeenWasShown'
  BY DEF Marks, ShownIsMarked, SeenWasShown, PrintPage, Printed, Entries, Readable
<1>2. PrintedOnce'
  BY DEF Marks, PrintedOnce, PrintPage, Entries
<1> QED BY <1>1, <1>2 DEF Marks

\* A push, an archive's result, a page, an echo or an answer to a query.
LEMMA ReceiveKeeps == FeedsInv /\ Receive => FeedsInv'
<1> SUFFICES ASSUME FeedsInv, Receive PROVE FeedsInv'
  OBVIOUS
<1>0. OpenIsRemembered /\ Marks /\ up /\ UNCHANGED <<up, payload>>
  BY DEF FeedsInv, Receive, server
<1> DEFINE m == Head(inbox)
<1>1. CASE OnPush(m)
  <2>1. OpenIsRemembered'
    BY <1>0, <1>1, OpenedKeeps DEF OnPush
  <2>2. CASE UNCHANGED <<seen, shown, repeats>>
    BY <1>0, <2>1, <2>2, MarksStay DEF FeedsInv
  <2>3. CASE <<m.feed, m.item>> \notin seen /\ Announce({<<m.feed, m.item>>})
    BY <1>0, <2>1, <2>3, AnnounceKeeps, {<<m.feed, m.item>>} \cap seen = {} DEF FeedsInv
  <2> QED BY <1>1, <2>2, <2>3 DEF OnPush, FetchPushed
<1>2. CASE OnRetract(m)
  <2>1. OpenIsRemembered'
    BY <1>0, <1>2, OpenedKeeps DEF OnRetract
  <2> QED BY <1>0, <1>2, <2>1, MarksStay DEF OnRetract, history, FeedsInv
<1>3. CASE OnArchived(m)
  <2>1. OpenIsRemembered'
    BY <1>0, <1>3, OpenedKeeps DEF OnArchived
  <2>2. Marks'
    BY <1>0, <1>3, AnnounceKeeps, (Entries({<<m.feed, m.item>>}) \ seen) \cap seen = {}
    DEF OnArchived
  <2> QED BY <2>1, <2>2 DEF FeedsInv
<1>4. CASE OnPage(m)
  <2>1. OpenIsRemembered'
    BY <1>0, <1>4, OpenedKeeps DEF OnPage, OpenedByPage
  <2>2. CASE m.stale
    BY <1>0, <1>4, <2>1, <2>2, MarksStay DEF OnPage, FeedsInv
  <2>3. CASE ~m.stale
    BY <1>0, <1>4, <2>1, <2>3, PrintPageKeeps DEF OnPage, FeedsInv
  <2> QED BY <2>2, <2>3
<1>5. CASE OnList(m)
  <2>1. OpenIsRemembered'
    BY <1>0, <1>5, OpenedKeeps DEF OnList
  <2> QED BY <1>0, <1>5, <2>1, MarksStay DEF OnList, history, FeedsInv
<1>6. CASE OnPublished(m)
  BY <1>0, <1>6, QuietKeeps DEF OnPublished, memory, disk, history, FeedsInv
<1>7. CASE OnFeatures(m) \/ OnNoInfo(m)
  BY <1>0, <1>7, QuietKeeps DEF OnFeatures, OnNoInfo, disk, FeedsInv
<1> QED BY <1>1, <1>2, <1>3, <1>4, <1>5, <1>6, <1>7 DEF Receive

\* What the user does: opening and closing a buffer writes the registry as well.
LEMMA UserKeeps == FeedsInv /\ User => FeedsInv'
<1> SUFFICES ASSUME FeedsInv, User PROVE FeedsInv'
  OBVIOUS
<1>0. UNCHANGED <<up, seen, payload, shown, repeats>>
  BY DEF User, Overview, Fetch, Comments, Subscribe, Post, Reply, Retract, Close, Command, server, history
<1>1. ASSUME NEW f, up, chans' = chans \cup {f}, registry' = registry \cup {f}
      PROVE  OpenIsRemembered'
  BY <1>0, <1>1 DEF FeedsInv, OpenIsRemembered
<1>2. ASSUME NEW f, Close(f) PROVE OpenIsRemembered'
  BY <1>0, <1>2 DEF FeedsInv, OpenIsRemembered, Close
<1>3. CASE UNCHANGED <<chans, registry>>
  BY <1>0, <1>3, QuietKeeps
<1>4. UNCHANGED <<chans, registry>> \/ OpenIsRemembered'
  BY <1>1, <1>2 DEF User, Overview, Fetch, Comments, Subscribe, Post, Reply, Retract, Command
<1> QED BY <1>0, <1>3, <1>4, MarksStay DEF FeedsInv

LEMMA FeedsStart == FeedsInit => FeedsInv
BY DEF FeedsInit, FeedsInv, OpenIsRemembered, Marks, ShownIsMarked, SeenWasShown, PrintedOnce,
       Entries, Readable

LEMMA FeedsStep == FeedsInv /\ [FeedsNext]_feedsVars => FeedsInv'
<1> SUFFICES ASSUME FeedsInv, [FeedsNext]_feedsVars PROVE FeedsInv'
  OBVIOUS
<1>1. CASE Serve \/ Refuse \/ \E f \in Feeds : OthersPublish(f) \/ OthersRetract(f)
  BY <1>1, QuietKeeps
  DEF Serve, Refuse, OthersPublish, OthersRetract, memory, disk, server, history
<1>2. CASE Receive
  BY <1>2, ReceiveKeeps
<1>3. CASE OnConnect
  BY <1>3, MarksStay DEF OnConnect, server, history, FeedsInv, OpenIsRemembered
<1>4. CASE Drop
  BY <1>4, MarksStay DEF Drop, memory, disk, server, FeedsInv, OpenIsRemembered
<1>5. CASE Restart
  BY <1>5, MarksStay DEF Restart, disk, server, FeedsInv, OpenIsRemembered
<1>6. CASE User
  BY <1>6, UserKeeps
<1>7. CASE UNCHANGED feedsVars
  BY <1>7, QuietKeeps DEF feedsVars, memory, disk, server, history
<1> QED BY <1>1, <1>2, <1>3, <1>4, <1>5, <1>6, <1>7 DEF FeedsNext

\* No entry is announced twice, in one session of the program or over many: a push or an
\* archive result is printed only unmarked, and every place that prints an entry marks it.
THEOREM PrintedOnceCorrect == FeedsSpec => []PrintedOnce
<1>1. FeedsInv => PrintedOnce
  BY DEF FeedsInv, Marks
<1> QED BY <1>1, FeedsStart, FeedsStep, PTL DEF FeedsSpec

\* Nothing is left out as seen that was never shown, though a stream may end between
\* the notice of an item and the answer that brings it.
THEOREM SeenWasShownCorrect == FeedsSpec => []SeenWasShown
<1>1. FeedsInv => SeenWasShown
  BY DEF FeedsInv, Marks
<1> QED BY <1>1, FeedsStart, FeedsStep, PTL DEF FeedsSpec

\* A restart brings back the feeds that are open, however late pushes and answers open
\* buffers again that the user closed.
THEOREM OpenIsRememberedCorrect == FeedsSpec => []OpenIsRemembered
<1>1. FeedsInv => OpenIsRemembered
  BY DEF FeedsInv
<1> QED BY <1>1, FeedsStart, FeedsStep, PTL DEF FeedsSpec

==============================================================================
