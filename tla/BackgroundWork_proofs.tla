------------------------- MODULE BackgroundWork_proofs -------------------------
(***************************************************************************)
(* The invariants of BackgroundWork, for any number of jobs and failures.  *)
(***************************************************************************)
EXTENDS BackgroundWork, SequenceTheorems, TLAPS

USE BackgroundAssumption

-------------------------------------------------------------------------------
(* Downloads.  A stable id whose file was announced is recorded, so nothing  *)
(* is downloaded under it again; while a file is downloaded nothing with the *)
(* same link is, so no second download for the id is under way.  A message   *)
(* that the server stamps comes under no other id.                           *)

Comes(k) == k[2] \in {"stamped", ids[k[1]]}

RecordedOnce ==
    /\ urlOf \in [Messages -> FileUrls] /\ ids \in [Messages -> Kinds]
    /\ announced \in [StableIds -> Nat]
    /\ \A d \in downloads :
          d.id \in StableIds /\ Comes(d.id) /\ d.url = urlOf[d.id[1]] /\ d.id \notin records
    /\ \A d, e \in downloads : d.url = e.url => d = e
    /\ \A k \in records : k[2] # "none"
    /\ \A k \in StableIds :
          /\ k[2] # "none" => announced[k] = IF k \in records THEN 1 ELSE 0
          /\ announced[k] # 0 => Comes(k)

DownloadType(d) == d = [url |-> d.url, id |-> d.id, state |-> d.state]

DownloadInv == RecordedOnce /\ \A d \in downloads : DownloadType(d)

LEMMA QuietKeepsDownloads ==
    DownloadInv /\ UNCHANGED <<urlOf, ids, announced, downloads, records>> => DownloadInv'
BY DEF DownloadInv, RecordedOnce, DownloadType, Comes

LEMMA FileSeenKeeps ==
    ASSUME DownloadInv, NEW m \in Messages, NEW how \in {"live", "archive"}, FileSeen(m, how)
    PROVE  DownloadInv'
<1> DEFINE k == StableId(m, how)
           d == [url |-> urlOf[m], id |-> k, state |-> "running"]
<1>0. UNCHANGED <<urlOf, ids, announced, records>>
    BY DEF FileSeen
<1>1. CASE UNCHANGED downloads
    BY <1>0, <1>1, QuietKeepsDownloads
<1>2. CASE ToDownload(m, how) /\ downloads' = downloads \cup {d}
    <2>1. k \in StableIds /\ Comes(k) /\ k[1] = m
        BY DEF StableId, StableIds, Kinds, Comes, DownloadInv, RecordedOnce
    <2>2. d.url = urlOf[k[1]] /\ d.id = k /\ DownloadType(d)
        BY <2>1 DEF DownloadType
    <2>3. k \notin records /\ \A e \in downloads : e.url # d.url
        BY <1>2 DEF ToDownload
    <2> HIDE DEF d, k
    <2> QED BY <1>0, <1>2, <2>1, <2>2, <2>3 DEF DownloadInv, RecordedOnce, DownloadType, Comes
<1> QED BY <1>1, <1>2 DEF FileSeen

LEMMA EsfsWorkerKeeps ==
    ASSUME DownloadInv, EsfsWorker
    PROVE  DownloadInv'
<1>1. PICK d \in downloads, s \in {"ok", "failed"} :
          downloads' = (downloads \ {d}) \cup {[d EXCEPT !.state = s]}
    BY DEF EsfsWorker
<1> DEFINE e == [d EXCEPT !.state = s]
<1>2. e.url = d.url /\ e.id = d.id /\ DownloadType(e)
    BY DEF DownloadInv, DownloadType
<1>3. UNCHANGED <<urlOf, ids, announced, records>> /\ downloads' = (downloads \ {d}) \cup {e}
    BY <1>1 DEF EsfsWorker
<1> HIDE DEF e
<1> QED BY <1>2, <1>3 DEF DownloadInv, RecordedOnce, DownloadType, Comes

LEMMA EsfsDownloadCbKeeps ==
    ASSUME DownloadInv, EsfsDownloadCb
    PROVE  DownloadInv'
<1>1. PICK d \in downloads :
          /\ downloads' = downloads \ {d}
          /\ IF d.state = "ok"
             THEN /\ announced' = [announced EXCEPT ![d.id] = @ + 1]
                  /\ records' = IF d.id[2] = "none" THEN records ELSE records \cup {d.id}
             ELSE UNCHANGED <<announced, records>>
    BY DEF EsfsDownloadCb
<1>2. UNCHANGED <<urlOf, ids>>
    BY DEF EsfsDownloadCb
<1>3. CASE d.state # "ok"
    BY <1>1, <1>2, <1>3 DEF DownloadInv, RecordedOnce, DownloadType, Comes
<1>4. CASE d.state = "ok"
    <2>1. /\ d.id \in StableIds /\ Comes(d.id) /\ d.id \notin records
          /\ d.id[2] # "none" => announced[d.id] = 0
        BY DEF DownloadInv, RecordedOnce
    <2>2. announced' \in [StableIds -> Nat] /\ \A k \in records' : k[2] # "none"
        BY <1>1, <1>4, <2>1 DEF DownloadInv, RecordedOnce
    <2>3. ASSUME NEW k \in StableIds
          PROVE  /\ k[2] # "none" => announced'[k] = IF k \in records' THEN 1 ELSE 0
                 /\ announced'[k] # 0 => Comes(k)
        <3>1. CASE k = d.id
            BY <1>1, <1>4, <2>1, <3>1 DEF DownloadInv, RecordedOnce
        <3>2. CASE k # d.id
            BY <1>1, <1>4, <3>2 DEF DownloadInv, RecordedOnce
        <3> QED BY <3>1, <3>2
    <2>4. ASSUME NEW e \in downloads'
          PROVE  e \in downloads /\ e.id # d.id /\ e.id \notin records'
        <3>1. e \in downloads /\ e # d
            BY <1>1
        <3>2. e.id # d.id
            BY <3>1 DEF DownloadInv, RecordedOnce
        <3> QED BY <1>1, <1>4, <3>1, <3>2 DEF DownloadInv, RecordedOnce
    <2> QED BY <1>1, <1>2, <2>2, <2>3, <2>4 DEF DownloadInv, RecordedOnce, DownloadType, Comes
<1> QED BY <1>3, <1>4

LEMMA DownloadInit == Init => DownloadInv
BY DEF Init, DownloadInv, RecordedOnce

LEMMA DownloadNext == DownloadInv /\ [Next]_vars => DownloadInv'
<1> SUFFICES ASSUME DownloadInv, [Next]_vars PROVE DownloadInv'
    OBVIOUS
<1>1. ASSUME NEW m \in Messages, NEW how \in {"live", "archive"}, FileSeen(m, how)
      PROVE  DownloadInv'
    BY <1>1, FileSeenKeeps
<1>2. CASE EsfsWorker
    BY <1>2, EsfsWorkerKeeps
<1>3. CASE EsfsDownloadCb
    BY <1>3, EsfsDownloadCbKeeps
<1>4. CASE Restart
    BY <1>4 DEF Restart, DownloadInv, RecordedOnce, Comes
<1>5. CASE UNCHANGED vars
    BY <1>5, QuietKeepsDownloads DEF vars, files
<1>6. CASE \/ \E u \in Urls, silent \in BOOLEAN : LinkSeen(u, silent)
           \/ \E u \in Urls : OgWorker(u) \/ OgFetchCb(u)
           \/ Close \/ \E f \in Files : Upload(f)
           \/ \E p \in Posts : Post(p)
           \/ \E id \in asked : SlotGiven(id) \/ SlotRefused(id)
           \/ UploadWorker \/ UploadFdCb \/ StreamLost \/ Reconnect
    BY <1>6, QuietKeepsDownloads
    DEF LinkSeen, OgWorker, OgFetchCb, Close, Upload, Post, SlotGiven, SlotRefused, UploadWorker,
        UploadFdCb, StreamLost, Reconnect, files
<1> QED BY <1>1, <1>2, <1>3, <1>4, <1>5, <1>6 DEF Next

\* A file is announced once under each id its message comes with: once, if the server
\* stamps the message, however often it comes back, the conversation is closed and the
\* program restarted, and whoever shares its link; else twice at most.
THEOREM AnnouncedOnceCorrect == Spec => []AnnouncedOnce
<1>1. DownloadInv => AnnouncedOnce
    <2> SUFFICES ASSUME DownloadInv, NEW m \in Messages, ids[m] \in {"stamped", "own"}
                 PROVE  Times(m) <= IF ids[m] = "stamped" THEN 1 ELSE 2
        BY DEF AnnouncedOnce
    <2> DEFINE a == <<m, "stamped">>
               o == <<m, "own">>
               n == <<m, "none">>
    <2>1. {a, o, n} \subseteq StableIds
        BY DEF StableIds, Kinds
    <2>2. announced[a] \in {0, 1} /\ announced[o] \in {0, 1}
        BY <2>1 DEF DownloadInv, RecordedOnce
    <2>3. announced[n] = 0
        BY <2>1 DEF DownloadInv, RecordedOnce, Comes
    <2>4. ids[m] = "stamped" => announced[o] = 0
        BY <2>1 DEF DownloadInv, RecordedOnce, Comes
    <2> QED BY <2>2, <2>3, <2>4 DEF Times
<1> QED BY <1>1, DownloadInit, DownloadNext, PTL DEF Spec

-------------------------------------------------------------------------------
(* Posts.  A slot id is new when it is asked for, and from then on at one    *)
(* place only: requested, uploading, stored.  So an url names the file it    *)
(* was asked for, and a post has the urls of its own files.                  *)

UploadIds    == {u.id : u \in uploads}
UploadType(u) == u = [id |-> u.id, file |-> u.file, state |-> u.state, feed |-> u.feed]
StoredAs(id, f) == id \in DOMAIN stored /\ stored[id] = f

Numbers ==
    /\ fresh \in Nat
    /\ \A id \in DOMAIN reqs \cup DOMAIN waiting \cup asked \cup UploadIds \cup DOMAIN stored :
          id \in Nat /\ id < fresh

OnePlace ==
    /\ \A u \in uploads : UploadType(u) /\ u.id \notin DOMAIN reqs
    /\ \A u, v \in uploads : u.id = v.id => u = v
    /\ \A id \in DOMAIN stored : id \notin DOMAIN reqs
    /\ \A u \in uploads : u.state = "running" => u.id \notin DOMAIN stored
    /\ \A u \in uploads : u.state = "ok" => StoredAs(u.id, u.file)

\* The urls a post has are those of its first files; the next one is on its way.
Whole(p, urls) == urls \in Seq(Nat) /\ \A i \in 1..Len(urls) : StoredAs(urls[i], Embed(p, i))
NextFile(w) == Embed(w.post, Len(w.urls) + 1)

WaitsFor(id, w) ==
    /\ w = [post |-> w.post, urls |-> w.urls]
    /\ Whole(w.post, w.urls) /\ Len(w.urls) < Embeds
    /\ id \in DOMAIN reqs => reqs[id] = NextFile(w)
    /\ \A u \in uploads : u.id = id => u.file = NextFile(w)
    /\ w.post \in taken \ drafts
    /\ \A e \in published : e.post # w.post

Waits ==
    /\ \A id \in DOMAIN waiting : WaitsFor(id, waiting[id])
    /\ \A id, o \in DOMAIN waiting : waiting[o].post = waiting[id].post => o = id

Given ==
    /\ drafts \subseteq taken
    /\ \A e \in published : e.post \in taken /\ e.post \notin drafts
    /\ \A e \in published : Whole(e.post, e.urls) /\ Len(e.urls) = Embeds
    /\ \A e, o \in published : e.post = o.post => e = o
    /\ \A s \in shared : StoredAs(s.url, s.file)

PostInv == Numbers /\ OnePlace /\ Waits /\ Given

jobs == <<reqs, waiting, asked, uploads, stored, published, drafts, shared, taken, fresh>>

LEMMA QuietKeepsPosts == PostInv /\ UNCHANGED jobs => PostInv'
BY DEF PostInv, jobs, Numbers, OnePlace, Waits, WaitsFor, Given, Whole, NextFile, StoredAs, UploadIds,
       UploadType

\* What is stored stays, and so do the urls that rest on it.
Grows == \A id \in DOMAIN stored : id \in DOMAIN stored' /\ stored'[id] = stored[id]

LEMMA GrowsKeeps ==
    ASSUME Grows
    PROVE  /\ \A id, f : StoredAs(id, f) => StoredAs(id, f)'
           /\ \A p, urls : Whole(p, urls) => Whole(p, urls)'
BY DEF Grows, StoredAs, Whole, Embed

LEMMA GrownKeepsGiven ==
    ASSUME Given, Grows, UNCHANGED <<drafts, taken, published, shared>>
    PROVE  Given'
<1>1. /\ \A id, f : StoredAs(id, f) => StoredAs(id, f)'
      /\ \A p, urls : Whole(p, urls) => Whole(p, urls)'
    BY GrowsKeeps
<1>2. \A e \in published : Whole(e.post, e.urls)'
    BY <1>1 DEF Given
<1>3. \A s \in shared : StoredAs(s.url, s.file)'
    BY <1>1 DEF Given
<1> QED BY <1>2, <1>3 DEF Given, Whole, StoredAs

\* A post that waits goes on waiting: for the request that is there, or for the
\* upload of it.
LEMMA WaitsOn ==
    ASSUME NEW id, NEW w, WaitsFor(id, w), Grows,
           id \in DOMAIN reqs' => id \in DOMAIN reqs /\ reqs'[id] = reqs[id],
           \A u \in uploads' : u.id = id =>
              \/ \E v \in uploads : v.id = id /\ v.file = u.file
              \/ id \in DOMAIN reqs /\ u.file = reqs[id],
           w.post \in taken' \ drafts', \A e \in published' : e.post # w.post
    PROVE  WaitsFor(id, w)'
<1>1. Whole(w.post, w.urls)'
    BY GrowsKeeps DEF WaitsFor
<1>2. w = [post |-> w.post, urls |-> w.urls] /\ Len(w.urls) < Embeds
    BY DEF WaitsFor
<1>3. id \in DOMAIN reqs' => reqs'[id] = NextFile(w)
    BY DEF WaitsFor
<1>4. \A u \in uploads' : u.id = id => u.file = NextFile(w)
    BY DEF WaitsFor
<1> QED BY <1>1, <1>2, <1>3, <1>4 DEF WaitsFor

LEMMA WaitsPrimed ==
    ASSUME \A id \in DOMAIN waiting' : \A x : x = waiting'[id] => WaitsFor(id, x)',
           \A id, o \in DOMAIN waiting' : waiting'[o].post = waiting'[id].post => o = id
    PROVE  Waits'
<1>1. \A id \in DOMAIN waiting' : WaitsFor(id, waiting[id])'
    <2> SUFFICES ASSUME NEW id \in DOMAIN waiting' PROVE WaitsFor(id, waiting[id])'
        OBVIOUS
    <2>1. PICK x : x = waiting'[id]
        OBVIOUS
    <2>2. WaitsFor(id, x)'
        BY <2>1
    <2> QED BY <2>1, <2>2 DEF WaitsFor, Whole, StoredAs, NextFile
<1> QED BY <1>1 DEF Waits

\* Those posts that stay as they are go on waiting.
LEMMA OthersWait ==
    ASSUME Waits, Grows, NEW D, D \subseteq DOMAIN waiting,
           \A id \in D : waiting'[id] = waiting[id],
           \A id \in D : id \in DOMAIN reqs' => id \in DOMAIN reqs /\ reqs'[id] = reqs[id],
           \A id \in D : \A u \in uploads' : u.id = id =>
              \/ \E v \in uploads : v.id = id /\ v.file = u.file
              \/ id \in DOMAIN reqs /\ u.file = reqs[id],
           taken \subseteq taken',
           \A id \in D : waiting[id].post \notin drafts' \ drafts,
           \A id \in D : \A e \in published' \ published : e.post # waiting[id].post
    PROVE  \A id \in D : \A x : x = waiting'[id] => WaitsFor(id, x)'
<1> SUFFICES ASSUME NEW id \in D, NEW x, x = waiting'[id] PROVE WaitsFor(id, x)'
    OBVIOUS
<1>1. WaitsFor(id, x) /\ x = waiting[id]
    BY DEF Waits
<1>2. x.post \in taken' \ drafts' /\ \A e \in published' : e.post # x.post
    BY <1>1 DEF WaitsFor
<1> QED BY <1>1, <1>2, WaitsOn

LEMMA SameWait ==
    ASSUME Waits, Grows, waiting' = waiting,
           \A id \in DOMAIN waiting :
              id \in DOMAIN reqs' => id \in DOMAIN reqs /\ reqs'[id] = reqs[id],
           \A id \in DOMAIN waiting : \A u \in uploads' : u.id = id =>
              \/ \E v \in uploads : v.id = id /\ v.file = u.file
              \/ id \in DOMAIN reqs /\ u.file = reqs[id],
           taken \subseteq taken',
           \A id \in DOMAIN waiting : waiting[id].post \notin drafts' \ drafts,
           published' = published
    PROVE  Waits'
<1>1. \A id \in DOMAIN waiting : \A x : x = waiting'[id] => WaitsFor(id, x)'
    BY OthersWait
<1>2. \A id, o \in DOMAIN waiting : waiting[o].post = waiting[id].post => o = id
    BY DEF Waits
<1> QED BY <1>1, <1>2, WaitsPrimed

\* A request takes a number nobody has.
LEMMA RequestIs ==
    ASSUME PostInv, NEW f, Request(fresh, f)
    PROVE  /\ fresh \in Nat /\ fresh' = fresh + 1
           /\ fresh \notin DOMAIN reqs \cup DOMAIN waiting \cup asked \cup UploadIds \cup DOMAIN stored
           /\ DOMAIN reqs' = DOMAIN reqs \cup {fresh}
           /\ \A id \in DOMAIN reqs : reqs'[id] = reqs[id]
           /\ reqs'[fresh] = f /\ asked' \subseteq asked \cup {fresh}
<1>1. fresh \in Nat /\ fresh' = fresh + 1
    BY DEF PostInv, Numbers, Request
<1>2. fresh \notin DOMAIN reqs \cup DOMAIN waiting \cup asked \cup UploadIds \cup DOMAIN stored
    BY <1>1 DEF PostInv, Numbers
<1>3. reqs' = With(reqs, fresh, f) /\ asked' \subseteq asked \cup {fresh}
    BY DEF Request
<1>4. /\ DOMAIN reqs' = DOMAIN reqs \cup {fresh}
      /\ \A id \in DOMAIN reqs : reqs'[id] = reqs[id]
      /\ reqs'[fresh] = f
    BY <1>2, <1>3 DEF With
<1> QED BY <1>1, <1>2, <1>3, <1>4

LEMMA UploadKeeps ==
    ASSUME PostInv, NEW f \in Files, Upload(f)
    PROVE  PostInv'
<1>1. /\ fresh \in Nat /\ fresh' = fresh + 1
      /\ fresh \notin DOMAIN reqs \cup DOMAIN waiting \cup asked \cup UploadIds \cup DOMAIN stored
      /\ DOMAIN reqs' = DOMAIN reqs \cup {fresh}
      /\ \A id \in DOMAIN reqs : reqs'[id] = reqs[id]
      /\ asked' \subseteq asked \cup {fresh}
    <2>1. Request(fresh, f)
        BY DEF Upload
    <2> QED BY <2>1, RequestIs
<1>2. /\ UNCHANGED <<waiting, uploads, stored, published, drafts, shared>>
      /\ taken' = taken \cup {f}
    BY DEF Upload
<1>3. Numbers'
    BY <1>1, <1>2 DEF PostInv, Numbers, UploadIds
<1>4. OnePlace'
    BY <1>1, <1>2 DEF PostInv, OnePlace, UploadIds, UploadType, StoredAs
<1>5. Waits'
    <2>1. \A id \in DOMAIN waiting : id # fresh
        BY <1>1
    <2> QED BY <1>1, <1>2, <2>1, SameWait DEF PostInv, Grows
<1>6. Given'
    BY <1>2 DEF PostInv, Given, Whole, StoredAs
<1> QED BY <1>3, <1>4, <1>5, <1>6 DEF PostInv

LEMMA PostKeeps ==
    ASSUME PostInv, NEW p \in Posts, Post(p)
    PROVE  PostInv'
<1>0. UNCHANGED <<uploads, stored, published, shared>> /\ p \notin taken
    BY DEF Post
<1>t. CASE taken' = taken
    <2>1. UNCHANGED jobs \/ taken' = taken \cup {p}
        BY DEF Post, jobs
    <2> QED BY <1>0, <1>t, <2>1, QuietKeepsPosts
<1> SUFFICES ASSUME taken' # taken PROVE PostInv'
    BY <1>t
<1>n. taken' = taken \cup {p}
    BY DEF Post
<1>1. CASE drafts' = drafts \cup {p} /\ UNCHANGED <<reqs, waiting, asked, fresh>>
    <2>1. Numbers' /\ OnePlace'
        BY <1>0, <1>n, <1>1 DEF PostInv, Numbers, OnePlace, UploadIds, UploadType, StoredAs
    <2>2. Waits'
        <3>1. \A id \in DOMAIN waiting : waiting[id].post \in taken
            BY DEF PostInv, Waits, WaitsFor
        <3> QED BY <1>0, <1>n, <1>1, <3>1, SameWait DEF PostInv, Grows
    <2>3. Given'
        BY <1>0, <1>n, <1>1 DEF PostInv, Given, Whole, StoredAs
    <2> QED BY <2>1, <2>2, <2>3 DEF PostInv
<1>2. CASE /\ Request(fresh, Embed(p, 1)) /\ UNCHANGED drafts
           /\ waiting' = With(waiting, fresh, [post |-> p, urls |-> <<>>])
    <2>1. /\ fresh \in Nat /\ fresh' = fresh + 1
          /\ fresh \notin DOMAIN reqs \cup DOMAIN waiting \cup asked \cup UploadIds \cup DOMAIN stored
          /\ DOMAIN reqs' = DOMAIN reqs \cup {fresh}
          /\ \A id \in DOMAIN reqs : reqs'[id] = reqs[id]
          /\ reqs'[fresh] = Embed(p, 1) /\ asked' \subseteq asked \cup {fresh}
        BY <1>2, RequestIs
    <2> DEFINE w == [post |-> p, urls |-> <<>>]
    <2>2. /\ DOMAIN waiting' = DOMAIN waiting \cup {fresh}
          /\ \A id \in DOMAIN waiting : waiting'[id] = waiting[id]
          /\ waiting'[fresh] = w
        <3>1. waiting' = With(waiting, fresh, w)
            BY <1>2
        <3> HIDE DEF w
        <3> QED BY <2>1, <3>1 DEF With
    <2>3. /\ w = [post |-> w.post, urls |-> w.urls] /\ w.post = p
          /\ Whole(p, w.urls) /\ Len(w.urls) < Embeds /\ NextFile(w) = Embed(p, 1)
        <3>1. w.urls = <<>> /\ w.post = p /\ Len(<<>>) = 0 /\ <<>> \in Seq(Nat)
            BY EmptySeq
        <3>2. 0 < Embeds /\ Embeds \in Nat
            BY DEF BackgroundAssumption
        <3> QED BY <3>1, <3>2 DEF Whole, NextFile
    <2> HIDE DEF w
    <2>4. Numbers'
        BY <1>0, <1>n, <2>1, <2>2 DEF PostInv, Numbers, UploadIds
    <2>5. OnePlace'
        BY <1>0, <1>n, <2>1 DEF PostInv, OnePlace, UploadIds, UploadType, StoredAs
    <2>6. Waits'
        <3>1. \A id \in DOMAIN waiting : waiting[id].post # p
            BY <1>0 DEF PostInv, Waits, WaitsFor
        <3>2. \A id \in DOMAIN waiting : \A x : x = waiting'[id] => WaitsFor(id, x)'
            <4>1. \A id \in DOMAIN waiting : id # fresh
                BY <2>1
            <4> QED BY <1>0, <1>n, <1>2, <2>1, <2>2, <4>1, OthersWait DEF PostInv, Grows
        <3>3. ASSUME NEW k, k = fresh PROVE WaitsFor(k, w)'
            <4>1. w.post \in taken' \ drafts' /\ \A e \in published' : e.post # w.post
                BY <1>0, <1>n, <1>2, <2>3 DEF PostInv, Given
            <4>2. \A u \in uploads : u.id # k
                BY <2>1, <3>3 DEF UploadIds
            <4>3. \A u \in uploads' : u.id # k
                BY <1>0, <1>n, <4>2
            <4>4. k \in DOMAIN reqs' => reqs'[k] = NextFile(w)
                BY <2>1, <2>3, <3>3
            <4>5. Whole(w.post, w.urls)' /\ w = [post |-> w.post, urls |-> w.urls] /\ Len(w.urls) < Embeds
                BY <2>3, GrowsKeeps, <1>0 DEF Grows
            <4> QED BY <4>1, <4>3, <4>4, <4>5 DEF WaitsFor
        <3>4. \A id \in DOMAIN waiting' : \A x : x = waiting'[id] => WaitsFor(id, x)'
            <4> SUFFICES ASSUME NEW id \in DOMAIN waiting', NEW x, x = waiting'[id]
                         PROVE  WaitsFor(id, x)'
                OBVIOUS
            <4>1. CASE id \in DOMAIN waiting
                BY <3>2, <4>1
            <4>2. CASE id = fresh
                <5>1. x = w
                    BY <2>2, <4>2
                <5> QED BY <3>3, <4>2, <5>1
            <4> QED BY <2>2, <4>1, <4>2
        <3>5. \A id, o \in DOMAIN waiting' : waiting'[o].post = waiting'[id].post => o = id
            BY <2>2, <2>3, <3>1 DEF PostInv, Waits
        <3> QED BY <3>4, <3>5, WaitsPrimed
    <2>7. Given'
        BY <1>0, <1>n, <1>2 DEF PostInv, Given, Whole, StoredAs
    <2> QED BY <2>4, <2>5, <2>6, <2>7 DEF PostInv
<1> QED BY <1>1, <1>2 DEF Post

LEMMA SlotGivenKeeps ==
    ASSUME PostInv, NEW id \in asked, SlotGiven(id)
    PROVE  PostInv'
<1>0. UNCHANGED <<waiting, stored, published, drafts, shared, taken, fresh>> /\ asked' = asked \ {id}
    BY DEF SlotGiven
<1>1. CASE UNCHANGED <<uploads, reqs>>
    <2>1. Numbers' /\ OnePlace'
        BY <1>0, <1>1 DEF PostInv, Numbers, OnePlace, UploadIds, UploadType, StoredAs
    <2>2. Waits'
        BY <1>0, <1>1, SameWait DEF PostInv, Grows
    <2>3. Given'
        BY <1>0, GrownKeepsGiven DEF PostInv, Grows
    <2> QED BY <2>1, <2>2, <2>3 DEF PostInv
<1>2. CASE id \in DOMAIN reqs
    <2> DEFINE u == [id |-> id, file |-> reqs[id], state |-> "running", feed |-> id \in DOMAIN waiting]
    <2>1. uploads' = uploads \cup {u} /\ reqs' = Without(reqs, id)
        BY <1>2 DEF SlotGiven
    <2>2. u.id = id /\ u.file = reqs[id] /\ u.state = "running" /\ UploadType(u)
        BY DEF UploadType
    <2> HIDE DEF u
    <2>3. DOMAIN reqs' = DOMAIN reqs \ {id} /\ \A o \in DOMAIN reqs' : reqs'[o] = reqs[o]
        BY <2>1 DEF Without, Restrict
    <2>4. Numbers'
        BY <1>0, <1>2, <2>1, <2>2, <2>3 DEF PostInv, Numbers, UploadIds
    <2>5. \A v \in uploads : v.id # id
        BY <1>2 DEF PostInv, OnePlace
    <2>6. id \notin DOMAIN stored
        BY <1>2 DEF PostInv, OnePlace
    <2>7. OnePlace'
        <3>1. \A v \in uploads' : UploadType(v) /\ v.id \notin DOMAIN reqs'
            BY <2>1, <2>2, <2>3 DEF PostInv, OnePlace
        <3>2. \A v, o \in uploads' : v.id = o.id => v = o
            BY <2>1, <2>2, <2>5 DEF PostInv, OnePlace
        <3>3. \A o \in DOMAIN stored' : o \notin DOMAIN reqs'
            BY <1>0, <2>3 DEF PostInv, OnePlace
        <3>4. \A v \in uploads' : v.state = "running" => v.id \notin DOMAIN stored'
            BY <1>0, <2>1, <2>2, <2>6 DEF PostInv, OnePlace
        <3>5. \A v \in uploads' : v.state = "ok" => StoredAs(v.id, v.file)'
            BY <1>0, <2>1, <2>2 DEF PostInv, OnePlace, StoredAs
        <3> QED BY <3>1, <3>2, <3>3, <3>4, <3>5 DEF OnePlace, UploadType, StoredAs
    <2>8. Waits'
        <3>1. \A o \in DOMAIN waiting : \A v \in uploads' : v.id = o =>
                  \/ \E x \in uploads : x.id = o /\ x.file = v.file
                  \/ o \in DOMAIN reqs /\ v.file = reqs[o]
            BY <1>2, <2>1, <2>2
        <3>2. \A o \in DOMAIN waiting :
                  o \in DOMAIN reqs' => o \in DOMAIN reqs /\ reqs'[o] = reqs[o]
            BY <2>3
        <3> QED BY <1>0, <3>1, <3>2, SameWait DEF PostInv, Grows
    <2>9. Given'
        BY <1>0, GrownKeepsGiven DEF PostInv, Grows
    <2> QED BY <2>4, <2>7, <2>8, <2>9 DEF PostInv
<1> QED BY <1>1, <1>2 DEF SlotGiven

LEMMA SlotRefusedKeeps ==
    ASSUME PostInv, NEW id \in asked, SlotRefused(id)
    PROVE  PostInv'
<1>0. /\ UNCHANGED <<waiting, stored, uploads, published, drafts, shared, taken, fresh>>
      /\ asked' = asked \ {id}
    BY DEF SlotRefused
<1>1. DOMAIN reqs' \subseteq DOMAIN reqs /\ \A o \in DOMAIN reqs' : reqs'[o] = reqs[o]
    BY DEF SlotRefused, Without, Restrict
<1>2. Numbers'
    BY <1>0, <1>1 DEF PostInv, Numbers, UploadIds
<1>3. OnePlace'
    BY <1>0, <1>1 DEF PostInv, OnePlace, UploadType, StoredAs
<1>4. Waits'
    BY <1>0, <1>1, SameWait DEF PostInv, Grows
<1>5. Given'
    BY <1>0, GrownKeepsGiven DEF PostInv, Grows
<1> QED BY <1>2, <1>3, <1>4, <1>5 DEF PostInv

LEMMA UploadWorkerKeeps ==
    ASSUME PostInv, UploadWorker
    PROVE  PostInv'
<1>0. UNCHANGED <<reqs, waiting, asked, published, drafts, shared, taken, fresh>>
    BY DEF UploadWorker
<1>1. PICK u \in uploads, s \in {"ok", "failed"} :
          /\ u.state = "running" /\ uploads' = (uploads \ {u}) \cup {[u EXCEPT !.state = s]}
          /\ stored' = Put(u, s)
    BY DEF UploadWorker
<1> DEFINE v == [u EXCEPT !.state = s]
<1>2. v.id = u.id /\ v.file = u.file /\ v.state = s /\ UploadType(v)
    BY DEF PostInv, OnePlace, UploadType
<1>3. uploads' = (uploads \ {u}) \cup {v}
    BY <1>1
<1> HIDE DEF v
<1>4. u.id \notin DOMAIN stored
    BY <1>1 DEF PostInv, OnePlace
<1>5. /\ DOMAIN stored' = IF s = "ok" THEN DOMAIN stored \cup {u.id} ELSE DOMAIN stored
      /\ \A id \in DOMAIN stored : stored'[id] = stored[id]
      /\ s = "ok" => stored'[u.id] = u.file
    BY <1>1, <1>4 DEF Put, With
<1>6. Grows
    BY <1>5 DEF Grows
<1>7. Numbers'
    BY <1>0, <1>2, <1>3, <1>5 DEF PostInv, Numbers, UploadIds
<1>8. OnePlace'
    <2>1. \A x \in uploads' : UploadType(x) /\ x.id \notin DOMAIN reqs'
        BY <1>0, <1>2, <1>3 DEF PostInv, OnePlace
    <2>2. \A x, y \in uploads' : x.id = y.id => x = y
        BY <1>2, <1>3 DEF PostInv, OnePlace
    <2>3. \A id \in DOMAIN stored' : id \notin DOMAIN reqs'
        BY <1>0, <1>5 DEF PostInv, OnePlace
    <2>4. \A x \in uploads' : x.state = "running" => x.id \notin DOMAIN stored'
        <3>1. \A x \in uploads \ {u} : x.id # u.id
            BY DEF PostInv, OnePlace
        <3> QED BY <1>2, <1>3, <1>5, <3>1 DEF PostInv, OnePlace
    <2>5. \A x \in uploads' : x.state = "ok" => StoredAs(x.id, x.file)'
        <3>1. \A x \in uploads : x.state = "ok" => StoredAs(x.id, x.file)'
            BY <1>6 DEF PostInv, OnePlace, StoredAs, Grows
        <3>2. v.state = "ok" => StoredAs(v.id, v.file)'
            BY <1>2, <1>5 DEF StoredAs
        <3> QED BY <1>3, <3>1, <3>2
    <2> QED BY <2>1, <2>2, <2>3, <2>4, <2>5 DEF OnePlace, UploadType, StoredAs
<1>9. Waits'
    <2>1. \A id \in DOMAIN waiting : \A x \in uploads' : x.id = id =>
              \E y \in uploads : y.id = id /\ y.file = x.file
        BY <1>2, <1>3
    <2> QED BY <1>0, <1>6, <2>1, SameWait DEF PostInv
<1>10. Given'
    BY <1>0, <1>6, GrownKeepsGiven DEF PostInv
<1> QED BY <1>7, <1>8, <1>9, <1>10 DEF PostInv

LEMMA StreamLostKeeps ==
    ASSUME PostInv, StreamLost
    PROVE  PostInv'
<1>0. /\ UNCHANGED <<reqs, waiting, published, drafts, shared, taken, fresh>>
      /\ uploads' = {} /\ asked' \subseteq asked
    BY DEF StreamLost
<1>1. /\ DOMAIN stored' \subseteq DOMAIN stored \cup UploadIds
      /\ Grows
    <2>1. PICK finished \in SUBSET {u \in uploads : u.state = "running"} :
              stored' = [id \in DOMAIN stored \cup {u.id : u \in finished} |->
                          IF id \in DOMAIN stored THEN stored[id]
                          ELSE (CHOOSE u \in finished : u.id = id).file]
        BY DEF StreamLost
    <2> QED BY <2>1 DEF Grows, UploadIds
<1>2. Numbers'
    BY <1>0, <1>1 DEF PostInv, Numbers, UploadIds
<1>3. OnePlace'
    <2>1. \A id \in UploadIds : id \notin DOMAIN reqs
        BY DEF PostInv, OnePlace, UploadIds
    <2> QED BY <1>0, <1>1, <2>1 DEF PostInv, OnePlace
<1>4. Waits'
    BY <1>0, <1>1, SameWait DEF PostInv
<1>5. Given'
    BY <1>0, <1>1, GrownKeepsGiven DEF PostInv
<1> QED BY <1>2, <1>3, <1>4, <1>5 DEF PostInv

LEMMA RestartKeeps ==
    ASSUME PostInv, Restart
    PROVE  PostInv'
<1>0. /\ UNCHANGED <<stored, published, drafts, shared, taken, fresh>>
      /\ reqs' = <<>> /\ waiting' = <<>> /\ asked' = {} /\ uploads' = {}
    BY DEF Restart
<1>1. DOMAIN reqs' = {} /\ DOMAIN waiting' = {}
    BY <1>0
<1>2. Numbers' /\ OnePlace' /\ Waits'
    BY <1>0, <1>1 DEF PostInv, Numbers, OnePlace, UploadIds, Waits
<1>3. Given'
    BY <1>0, GrownKeepsGiven DEF PostInv, Grows
<1> QED BY <1>2, <1>3 DEF PostInv

LEMMA UploadFdCbKeeps ==
    ASSUME PostInv, UploadFdCb
    PROVE  PostInv'
<1>0. UNCHANGED <<stored, taken>>
    BY DEF UploadFdCb
<1>1. PICK u \in uploads :
          /\ u.state # "running" /\ uploads' = uploads \ {u}
          /\ IF ~u.feed THEN FileUploaded(u)
             ELSE /\ UNCHANGED shared
                  /\ IF u.id \in DOMAIN waiting THEN EmbedUploaded(u)
                     ELSE UNCHANGED <<reqs, waiting, asked, fresh, published, drafts>>
    BY DEF UploadFdCb, PostOf
<1>2. Grows /\ \A p, urls : Whole(p, urls) => Whole(p, urls)'
    BY <1>0, GrowsKeeps DEF Grows
<1>3. \A v \in uploads' : v \in uploads
    BY <1>1
<1>4. CASE UNCHANGED <<reqs, waiting, asked, fresh, published, drafts>>
    <2>1. Numbers' /\ OnePlace'
        BY <1>0, <1>3, <1>4 DEF PostInv, Numbers, OnePlace, UploadIds, UploadType, StoredAs
    <2>2. Waits'
        BY <1>0, <1>2, <1>3, <1>4, SameWait DEF PostInv
    <2>3. Given'
        <3>1. CASE UNCHANGED shared
            BY <1>0, <1>2, <1>4, <3>1, GrownKeepsGiven DEF PostInv
        <3>2. CASE u.state = "ok" /\ shared' = shared \cup {[file |-> u.file, url |-> u.id]}
            <4>1. StoredAs(u.id, u.file)
                BY <3>2 DEF PostInv, OnePlace
            <4>2. \A s \in shared' : StoredAs(s.url, s.file)
                BY <3>2, <4>1 DEF PostInv, Given
            <4>3. \A s \in shared' : StoredAs(s.url, s.file)'
                BY <1>0, <4>2 DEF StoredAs
            <4>4. \A e \in published : Whole(e.post, e.urls)'
                BY <1>2 DEF PostInv, Given
            <4> QED BY <1>0, <1>4, <4>3, <4>4 DEF PostInv, Given, Whole, StoredAs
        <3> QED BY <1>1, <3>1, <3>2 DEF FileUploaded
    <2> QED BY <2>1, <2>2, <2>3 DEF PostInv
<1>5. CASE UNCHANGED shared /\ u.id \in DOMAIN waiting /\ EmbedUploaded(u)
    <2>w. PICK w : w = waiting[u.id]
        OBVIOUS
    <2>u. PICK urls : urls = Append(w.urls, u.id)
        OBVIOUS
    <2> DEFINE rest == Without(waiting, u.id)
    <2>1. /\ w = [post |-> w.post, urls |-> w.urls] /\ Whole(w.post, w.urls) /\ Len(w.urls) < Embeds
          /\ u.file = NextFile(w) /\ w.post \in taken \ drafts /\ \A e \in published : e.post # w.post
          /\ \A o \in DOMAIN waiting : o # u.id => waiting[o].post # w.post
        BY <1>5, <2>w DEF PostInv, Waits, WaitsFor
    <2>2. DOMAIN rest = DOMAIN waiting \ {u.id} /\ \A o \in DOMAIN rest : rest[o] = waiting[o]
        BY DEF Without, Restrict
    <2>3. u.id \in Nat /\ u.id < fresh /\ fresh \in Nat
        BY DEF PostInv, Numbers, UploadIds
    <2>4. u.state = "ok" => Whole(w.post, urls) /\ Len(urls) = Len(w.urls) + 1 /\ Len(urls) \in Nat
        <3> SUFFICES ASSUME u.state = "ok"
                     PROVE  Whole(w.post, urls) /\ Len(urls) = Len(w.urls) + 1 /\ Len(urls) \in Nat
            OBVIOUS
        <3>1. /\ w.urls \in Seq(Nat) /\ urls \in Seq(Nat) /\ Len(urls) = Len(w.urls) + 1
              /\ \A i \in 1..Len(w.urls) : urls[i] = w.urls[i]
              /\ urls[Len(urls)] = u.id /\ Len(w.urls) \in Nat
            BY <2>1, <2>3, <2>u DEF Whole
        <3>2. StoredAs(u.id, Embed(w.post, Len(urls)))
            BY <2>1, <3>1 DEF PostInv, OnePlace, NextFile
        <3>3. \A i \in 1..Len(urls) : StoredAs(urls[i], Embed(w.post, i))
            <4> SUFFICES ASSUME NEW i \in 1..Len(urls) PROVE StoredAs(urls[i], Embed(w.post, i))
                OBVIOUS
            <4>1. CASE i \in 1..Len(w.urls)
                BY <2>1, <3>1, <4>1 DEF Whole
            <4>2. CASE i = Len(urls)
                BY <3>1, <3>2, <4>2
            <4> QED BY <3>1, <4>1, <4>2
        <3> QED BY <3>1, <3>3 DEF Whole
    <2>5. /\ \A o \in DOMAIN rest : waiting[o].post # w.post
          /\ DOMAIN rest \subseteq DOMAIN waiting
          /\ \A o, x \in DOMAIN rest : waiting[x].post = waiting[o].post => o = x
        BY <2>1, <2>2 DEF PostInv, Waits
    <2> HIDE DEF rest
    <2>6. CASE u.state = "failed" /\ drafts' = drafts \cup {w.post} /\ waiting' = rest
               /\ UNCHANGED <<reqs, asked, fresh, published>>
        <3>1. Numbers' /\ OnePlace'
            BY <1>0, <1>3, <2>2, <2>6 DEF PostInv, Numbers, OnePlace, UploadIds, UploadType, StoredAs
        <3>2. Waits'
            <4>1. \A o \in DOMAIN rest : \A x : x = waiting'[o] => WaitsFor(o, x)'
                BY <1>0, <1>2, <1>3, <2>2, <2>5, <2>6, OthersWait DEF PostInv
            <4>2. \A o, x \in DOMAIN waiting' : waiting'[x].post = waiting'[o].post => x = o
                BY <2>2, <2>5, <2>6
            <4> QED BY <2>6, <4>1, <4>2, WaitsPrimed
        <3>3. Given'
            <4>1. /\ \A e \in published : Whole(e.post, e.urls)'
                  /\ \A s \in shared : StoredAs(s.url, s.file)'
                BY <1>0, <1>2 DEF PostInv, Given, StoredAs
            <4> QED BY <1>0, <1>5, <2>1, <2>6, <4>1 DEF PostInv, Given, Whole, StoredAs
        <3> QED BY <3>1, <3>2, <3>3 DEF PostInv
    <2>7. CASE /\ u.state = "ok" /\ Len(urls) < Embeds /\ Request(fresh, Embed(w.post, Len(urls) + 1))
               /\ waiting' = With(rest, fresh, [w EXCEPT !.urls = urls])
               /\ UNCHANGED <<published, drafts>>
        <3> DEFINE more == [w EXCEPT !.urls = urls]
        <3>1. /\ fresh \in Nat /\ fresh' = fresh + 1
              /\ fresh \notin DOMAIN reqs \cup DOMAIN waiting \cup asked \cup UploadIds \cup DOMAIN stored
              /\ DOMAIN reqs' = DOMAIN reqs \cup {fresh}
              /\ \A id \in DOMAIN reqs : reqs'[id] = reqs[id]
              /\ reqs'[fresh] = Embed(w.post, Len(urls) + 1) /\ asked' \subseteq asked \cup {fresh}
            BY <2>7, RequestIs
        <3>2. /\ more = [post |-> more.post, urls |-> more.urls]
              /\ more.post = w.post /\ more.urls = urls
            BY <2>1
        <3>3. waiting' = With(rest, fresh, more)
            BY <2>7
        <3> HIDE DEF more
        <3>4. /\ DOMAIN waiting' = DOMAIN rest \cup {fresh}
              /\ \A o \in DOMAIN rest : waiting'[o] = waiting[o]
              /\ waiting'[fresh] = more
            BY <2>2, <3>1, <3>3 DEF With
        <3>5. Numbers'
            BY <1>0, <1>3, <2>5, <3>1, <3>4 DEF PostInv, Numbers, UploadIds
        <3>6. OnePlace'
            BY <1>0, <1>3, <3>1 DEF PostInv, OnePlace, UploadIds, UploadType, StoredAs
        <3>7. Waits'
            <4>1. \A o \in DOMAIN rest : \A x : x = waiting'[o] => WaitsFor(o, x)'
                <5>1. \A o \in DOMAIN rest : o # fresh
                    BY <2>5, <3>1
                <5>2. \A o \in DOMAIN rest : o \in DOMAIN reqs' => o \in DOMAIN reqs /\ reqs'[o] = reqs[o]
                    BY <3>1, <5>1
                <5> QED BY <1>0, <1>2, <1>3, <2>5, <2>7, <3>4, <5>2, OthersWait DEF PostInv
            <4>2. ASSUME NEW k, k = fresh PROVE WaitsFor(k, more)'
                <5>1. \A v \in uploads' : v.id # k
                    BY <1>3, <3>1, <4>2 DEF UploadIds
                <5>2. k \in DOMAIN reqs' => reqs'[k] = NextFile(more)
                    BY <3>1, <3>2, <4>2 DEF NextFile
                <5>3. Whole(more.post, more.urls)' /\ Len(more.urls) < Embeds
                    BY <1>2, <2>4, <2>7, <3>2
                <5>4. more.post \in taken' \ drafts' /\ \A e \in published' : e.post # more.post
                    BY <1>0, <2>1, <2>7, <3>2
                <5> QED BY <3>2, <5>1, <5>2, <5>3, <5>4 DEF WaitsFor
            <4>3. \A o \in DOMAIN waiting' : \A x : x = waiting'[o] => WaitsFor(o, x)'
                <5> SUFFICES ASSUME NEW o \in DOMAIN waiting', NEW x, x = waiting'[o]
                             PROVE  WaitsFor(o, x)'
                    OBVIOUS
                <5>1. CASE o \in DOMAIN rest
                    BY <4>1, <5>1
                <5>2. CASE o = fresh
                    <6>1. x = more
                        BY <3>4, <5>2
                    <6> QED BY <4>2, <5>2, <6>1
                <5> QED BY <3>4, <5>1, <5>2
            <4>4. \A o, x \in DOMAIN waiting' : waiting'[x].post = waiting'[o].post => x = o
                BY <2>5, <3>2, <3>4
            <4> QED BY <4>3, <4>4, WaitsPrimed
        <3>8. Given'
            BY <1>0, <1>2, <1>5, <2>7, GrownKeepsGiven DEF PostInv
        <3> QED BY <3>5, <3>6, <3>7, <3>8 DEF PostInv
    <2>8. CASE /\ u.state = "ok" /\ Len(urls) >= Embeds
               /\ published' = published \cup {[post |-> w.post, urls |-> urls]} /\ waiting' = rest
               /\ UNCHANGED <<reqs, asked, fresh, drafts>>
        <3> DEFINE e == [post |-> w.post, urls |-> urls]
        <3>1. e.post = w.post /\ e.urls = urls /\ published' = published \cup {e}
            BY <2>8
        <3> HIDE DEF e
        <3>2. Numbers' /\ OnePlace'
            BY <1>0, <1>3, <2>2, <2>8 DEF PostInv, Numbers, OnePlace, UploadIds, UploadType, StoredAs
        <3>3. Waits'
            <4>1. \A o \in DOMAIN rest : \A x : x = waiting'[o] => WaitsFor(o, x)'
                <5>1. \A o \in DOMAIN rest : \A x \in published' \ published : x.post # waiting[o].post
                    BY <2>5, <3>1
                <5> QED BY <1>0, <1>2, <1>3, <2>2, <2>5, <2>8, <5>1, OthersWait DEF PostInv
            <4>2. \A o, x \in DOMAIN waiting' : waiting'[x].post = waiting'[o].post => x = o
                BY <2>2, <2>5, <2>8
            <4> QED BY <2>8, <4>1, <4>2, WaitsPrimed
        <3>4. Given'
            <4>1. Len(urls) = Embeds
                <5>1. Len(w.urls) \in Nat
                    BY <2>1 DEF Whole
                <5> QED BY <2>1, <2>4, <2>8, <5>1 DEF BackgroundAssumption
            <4>2. \A x \in published' : Whole(x.post, x.urls)' /\ Len(x.urls) = Embeds
                <5>1. Whole(w.post, urls)'
                    BY <1>2, <2>4, <2>8
                <5>2. \A x \in published : Whole(x.post, x.urls)' /\ Len(x.urls) = Embeds
                    BY <1>2 DEF PostInv, Given
                <5> QED BY <3>1, <4>1, <5>1, <5>2
            <4>3. \A x \in published' : x.post \in taken' /\ x.post \notin drafts'
                BY <1>0, <2>1, <2>8, <3>1 DEF PostInv, Given
            <4>4. \A x, o \in published' : x.post = o.post => x = o
                BY <2>1, <3>1 DEF PostInv, Given
            <4>5. drafts' \subseteq taken' /\ \A s \in shared' : StoredAs(s.url, s.file)'
                BY <1>0, <1>5, <2>8 DEF PostInv, Given, StoredAs
            <4> QED BY <4>2, <4>3, <4>4, <4>5 DEF Given, Whole, StoredAs
        <3> QED BY <3>2, <3>3, <3>4 DEF PostInv
    <2> QED BY <1>5, <2>w, <2>u, <2>6, <2>7, <2>8 DEF EmbedUploaded, PostOf, rest
<1> QED BY <1>1, <1>4, <1>5 DEF FileUploaded

LEMMA PostInit == Init => PostInv
BY DEF Init, PostInv, Numbers, OnePlace, UploadIds, Waits, Given

LEMMA PostNext == PostInv /\ [Next]_vars => PostInv'
<1> SUFFICES ASSUME PostInv, [Next]_vars PROVE PostInv'
    OBVIOUS
<1>1. ASSUME NEW f \in Files, Upload(f) PROVE PostInv'
    BY <1>1, UploadKeeps
<1>2. ASSUME NEW p \in Posts, Post(p) PROVE PostInv'
    BY <1>2, PostKeeps
<1>3. ASSUME NEW id \in asked, SlotGiven(id) \/ SlotRefused(id) PROVE PostInv'
    BY <1>3, SlotGivenKeeps, SlotRefusedKeeps
<1>4. CASE UploadWorker
    BY <1>4, UploadWorkerKeeps
<1>5. CASE UploadFdCb
    BY <1>5, UploadFdCbKeeps
<1>6. CASE StreamLost
    BY <1>6, StreamLostKeeps
<1>7. CASE Restart
    BY <1>7, RestartKeeps
<1>8. CASE \/ \E u \in Urls, silent \in BOOLEAN : LinkSeen(u, silent)
           \/ \E u \in Urls : OgWorker(u) \/ OgFetchCb(u)
           \/ \E m \in Messages, how \in {"live", "archive"} : FileSeen(m, how)
           \/ EsfsWorker \/ EsfsDownloadCb \/ Close \/ Reconnect \/ UNCHANGED vars
    <2>1. UNCHANGED jobs
        BY <1>8 DEF LinkSeen, OgWorker, OgFetchCb, FileSeen, EsfsWorker, EsfsDownloadCb, Close,
                    Reconnect, vars, sending, jobs
    <2> QED BY <2>1, QuietKeepsPosts
<1> QED BY <1>1, <1>2, <1>3, <1>4, <1>5, <1>6, <1>7, <1>8 DEF Next

\* A post that went out has each of its files where the url says, in order, once, and is
\* no draft as well; and a link that was shared is to the file it was shared for.  So it
\* is for any number of posts, embeds and uploads side by side, lost streams and restarts.
THEOREM PostCompleteCorrect == Spec => []PostComplete
<1>1. PostInv => PostComplete
    <2> SUFFICES ASSUME PostInv PROVE PostComplete
        OBVIOUS
    <2>1. \A e \in published : \A i \in 1..Len(e.urls) : StoredAs(e.urls[i], Embed(e.post, i))
        BY DEF PostInv, Given, Whole
    <2>2. \A e, o \in published : o.post = e.post => o = e
        BY DEF PostInv, Given
    <2>3. \A s \in shared : StoredAs(s.url, s.file)
        BY DEF PostInv, Given
    <2>4. \A e \in published : e.post \notin drafts /\ Len(e.urls) = Embeds
        BY DEF PostInv, Given
    <2> QED BY <2>1, <2>2, <2>3, <2>4 DEF PostComplete, StoredAs
<1> QED BY <1>1, PostInit, PostNext, PTL DEF Spec
================================================================================
