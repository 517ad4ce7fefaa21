---------------------------- MODULE BackgroundWork -----------------------------
(***************************************************************************)
(* The work the plugin gives to threads: link previews (XEP-0511),         *)
(* downloads of encrypted files (XEP-0448), file uploads (XEP-0363) and    *)
(* the feed posts that wait for the uploads of their embeds                *)
(* (helpers.cpp, iq_handler.inl, callbacks.inl, muc_admin.inl, rooms.inl). *)
(*                                                                         *)
(* A job is a thread, a pipe and a hook on its reading end: the thread     *)
(* works alone, writes one byte, and the main thread finishes the job in a *)
(* callback.  Everything but the steps called ...Worker is on the main     *)
(* thread; between a worker's step and its callback anything may happen.   *)
(*                                                                         *)
(* A restart is the end of the plugin (/reload, quit): the LMDB records,   *)
(* the drafts and what others got survive it.                              *)
(***************************************************************************)
EXTENDS Naturals, Sequences, FiniteSets, SequencesExt, Functions

CONSTANTS
    Urls,                  \* links that are previewed
    Messages, FileUrls,    \* messages that share an encrypted file; where the files are
    Posts, Embeds,         \* feed posts; how many files each embeds
    Files,                 \* files given to /upload, the name of the file being its channel's
    Slots,                 \* OG_MAX_CONCURRENT
    MaxAsked, MaxTrouble   \* bounds: jobs asked for; failures, lost streams and restarts

ASSUME BackgroundAssumption ==
    {Embeds, Slots} \subseteq Nat \ {0} /\ {MaxAsked, MaxTrouble} \subseteq Nat

VARIABLES
    connected,
    fetches, queue,        \* g_og_fetches, g_og_pending
    cache,                 \* og_previews of the LMDB environment
    urlOf,                 \* the messages' files: two may share one
    ids,                   \* what identifies a message when it comes live: the id the archive
                           \* has it under ("stamped"), its sender's ("own"), or nothing
    downloads,             \* g_esfs_downloads
    records,               \* esfs_downloads of the LMDB environment, by stable id
    displayed,             \* the lines in the conversation's buffer, by stable id
    announced,             \* history: how often a file was announced saved, by stable id
    reqs,                  \* upload_requests: slot id -> file
    waiting,               \* pending_feed_posts: slot id -> the post and its get_urls
    asked,                 \* slot ids on the way to the upload service or back
    uploads,               \* pending_uploads
    stored,                \* what the upload service holds: slot id -> file
    published, drafts,     \* posts with their urls; posts saved as drafts
    shared,                \* files shared in their channel, with the url
    taken,                 \* history: the posts and files the user gave
    fresh,                 \* the next slot id (a uuid)
    starved,               \* history: a preview found no pipe
    count, trouble         \* for the bounds

previews == <<fetches, queue, cache, starved>>
files    == <<urlOf, ids, downloads, records, displayed, announced>>
sending  == <<reqs, waiting, asked, uploads, stored, published, drafts, shared, taken, fresh>>
vars == <<connected, previews, files, sending, count, trouble>>

States  == {"running", "ok", "failed"}      \* of a thread
Embed(p, i) == <<p, i>>                     \* the i-th file of a post

Kinds     == {"stamped", "own", "none"}
StableIds == Messages \X Kinds

Init ==
    /\ connected = TRUE /\ fetches = {} /\ queue = <<>> /\ cache = {} /\ starved = FALSE
    /\ urlOf \in [Messages -> FileUrls] /\ ids \in [Messages -> Kinds]
    /\ downloads = {} /\ records = {} /\ displayed = {} /\ announced = [k \in StableIds |-> 0]
    /\ reqs = <<>> /\ waiting = <<>> /\ asked = {} /\ uploads = {} /\ stored = <<>>
    /\ published = {} /\ drafts = {} /\ shared = {} /\ taken = {} /\ fresh = 1
    /\ count = 0 /\ trouble = 0

Ask     == count < MaxAsked /\ count' = count + 1
Fails   == trouble < MaxTrouble /\ trouble' = trouble + 1
With(f, id, v) == [i \in DOMAIN f \cup {id} |-> IF i = id THEN v ELSE f[i]]
Without(f, id) == Restrict(f, DOMAIN f \ {id})

-------------------------------------------------------------------------------
\* Link previews.

InFlight == {f.url : f \in fetches}
Pending  == {e.url : e \in ToSet(queue)}

\* og_launch_one beside the fetches `others`: without a pipe the entry is gone.
OgLaunchOne(e, others) ==
    \/ /\ fetches' = others \cup {[url |-> e.url, silent |-> e.silent, state |-> "running"]}
       /\ UNCHANGED <<starved, trouble>>
    \/ Fails /\ starved' = TRUE /\ fetches' = others

\* og_start_fetch.
OgStartFetch(e) ==
    IF e.url \in InFlight \cup Pending
    THEN UNCHANGED <<fetches, queue, starved, trouble>>
    ELSE IF Cardinality(fetches) < Slots
    THEN OgLaunchOne(e, fetches) /\ UNCHANGED queue
    ELSE queue' = Append(queue, e) /\ UNCHANGED <<fetches, starved, trouble>>

\* A live message with a link (shown whether or not it is cached), or /links, which asks
\* only for what the cache lacks.  A replay of the archive fetches nothing.
LinkSeen(u, silent) ==
    /\ Ask /\ (silent => u \notin cache)
    /\ OgStartFetch([url |-> u, silent |-> silent])
    /\ UNCHANGED <<connected, cache, files, sending>>

\* curl gives up after 10 seconds; a page may have no title.
OgWorker(u) ==
    \E f \in fetches, s \in {"ok", "failed"} :
        /\ f.url = u /\ f.state = "running"
        /\ fetches' = (fetches \ {f}) \cup {[f EXCEPT !.state = s]}
        /\ UNCHANGED <<connected, queue, cache, starved, files, sending, count, trouble>>

\* What a callback does with the queue.  Mutant: the next one is left to the next link.
LeaveQueue(others) == fetches' = others /\ UNCHANGED <<queue, starved, trouble>>
DrainQueue(others) ==
    IF queue = <<>> THEN fetches' = others /\ UNCHANGED <<queue, starved, trouble>>
    ELSE OgLaunchOne(Head(queue), others) /\ queue' = Tail(queue)

OgFetchCb(u) ==
    \E f \in fetches :
        /\ f.url = u /\ f.state # "running"
        /\ cache' = IF f.state = "ok" THEN cache \cup {u} ELSE cache
        /\ DrainQueue(fetches \ {f})
        /\ UNCHANGED <<connected, files, sending, count>>

-------------------------------------------------------------------------------
\* Encrypted files in the conversation.

\* stanza-id, else origin-id, else id: the archive's copy is given its id there.
StableId(m, how) == <<m, IF how = "archive" THEN "stamped" ELSE ids[m]>>

\* A copy out of the archive is a duplicate of a line with either of its ids.
AlreadyDisplayed(m, how) ==
    \E k \in displayed : k[1] = m /\ (how = "archive" => k[2] # "none")

\* Is the download to be started?  Mutant: the record is not looked at.
DespiteRecord(m, how) == urlOf[m] \notin {d.url : d \in downloads}
ToDownload(m, how) ==
    StableId(m, how) \notin records /\ urlOf[m] \notin {d.url : d \in downloads}

\* The message comes.
FileSeen(m, how) ==
    /\ Ask /\ ~AlreadyDisplayed(m, how)
    /\ displayed' = displayed \cup {StableId(m, how)}
    /\ IF ToDownload(m, how)
       THEN \/ /\ downloads' = downloads \cup {[url |-> urlOf[m], id |-> StableId(m, how),
                                                state |-> "running"]}
               /\ UNCHANGED trouble
            \/ Fails /\ UNCHANGED downloads                     \* no pipe
       ELSE UNCHANGED <<downloads, trouble>>
    /\ UNCHANGED <<connected, previews, urlOf, ids, records, announced, sending>>

\* Download, decryption and writing to disk.
EsfsWorker ==
    \E d \in downloads, s \in {"ok", "failed"} :
        /\ d.state = "running"
        /\ downloads' = (downloads \ {d}) \cup {[d EXCEPT !.state = s]}
        /\ UNCHANGED <<connected, previews, urlOf, ids, records, displayed, announced, sending,
                       count, trouble>>

\* Without a stable id nothing is recorded.
EsfsDownloadCb ==
    \E d \in downloads :
        /\ d.state # "running" /\ downloads' = downloads \ {d}
        /\ IF d.state = "ok"
           THEN /\ announced' = [announced EXCEPT ![d.id] = @ + 1]
                /\ records' = IF d.id[2] = "none" THEN records ELSE records \cup {d.id}
           ELSE UNCHANGED <<announced, records>>
        /\ UNCHANGED <<connected, previews, urlOf, ids, displayed, sending, count, trouble>>

\* The conversation is closed: its lines are gone, the archive will be asked again.
Close ==
    /\ displayed # {} /\ displayed' = {}
    /\ UNCHANGED <<connected, previews, urlOf, ids, downloads, records, announced, sending,
                   count, trouble>>

-------------------------------------------------------------------------------
\* Uploads.  id is the id of the slot request, and stands for the get_url of the answer.

\* The request is sent (lost when the stream is, as when a transfer ends without one).
Request(id, f) ==
    /\ reqs' = With(reqs, id, f)
    /\ asked' = IF connected THEN asked \cup {id} ELSE asked
    /\ fresh' = fresh + 1

\* /upload, of a file that is there, when the upload service was discovered.
Upload(f) ==
    /\ Ask /\ connected /\ f \notin taken /\ taken' = taken \cup {f}
    /\ Request(fresh, f)
    /\ UNCHANGED <<connected, previews, files, waiting, uploads, stored, published, drafts,
                   shared, trouble>>

\* /feed post with embeds: not taken while no upload service was discovered, a draft at
\* once when a file is not there, else the first slot.
Post(p) ==
    /\ Ask /\ connected /\ p \notin taken
    /\ \/ UNCHANGED <<taken, drafts, reqs, waiting, asked, fresh, trouble>>
       \/ /\ taken' = taken \cup {p} /\ Request(fresh, Embed(p, 1))
          /\ waiting' = With(waiting, fresh, [post |-> p, urls |-> <<>>])
          /\ UNCHANGED <<drafts, trouble>>
       \/ /\ Fails /\ taken' = taken \cup {p} /\ drafts' = drafts \cup {p}
          /\ UNCHANGED <<reqs, waiting, asked, fresh>>
    /\ UNCHANGED <<connected, previews, files, uploads, stored, published, shared>>

\* <slot/> with both urls, for a file that still opens: the thread starts.
SlotGiven(id) ==
    /\ connected /\ id \in asked /\ asked' = asked \ {id}
    /\ IF id \in DOMAIN reqs
       THEN /\ uploads' = uploads \cup {[id |-> id, file |-> reqs[id], state |-> "running",
                                         feed |-> id \in DOMAIN waiting]}
            /\ reqs' = Without(reqs, id)
       ELSE UNCHANGED <<uploads, reqs>>                         \* unknown request id
    /\ UNCHANGED <<connected, previews, files, waiting, stored, published, drafts, shared,
                   taken, fresh, count, trouble>>

\* An error, a slot without a url, a file that went away, no pipe: the request is erased,
\* and nothing else.  A result that is no slot does not even erase the request.
SlotRefused(id) ==
    /\ Fails /\ connected /\ id \in asked /\ asked' = asked \ {id}
    /\ reqs' \in {Without(reqs, id), reqs}
    /\ UNCHANGED <<connected, previews, files, waiting, uploads, stored, published, drafts,
                   shared, taken, fresh, count>>

\* The file is read, hashed and PUT: 201 or anything else.
Put(u, s) == IF s = "ok" THEN With(stored, u.id, u.file) ELSE stored

UploadWorker ==
    \E u \in uploads, s \in {"ok", "failed"} :
        /\ u.state = "running" /\ (s = "failed" => trouble < MaxTrouble)
        /\ trouble' = IF s = "failed" THEN trouble + 1 ELSE trouble
        /\ uploads' = (uploads \ {u}) \cup {[u EXCEPT !.state = s]}
        /\ stored' = Put(u, s)
        /\ UNCHANGED <<connected, previews, files, reqs, waiting, asked, published, drafts,
                       shared, taken, fresh, count>>

\* The key in pending_feed_posts of the post an upload belongs to.
\* Mutant: the post that waits longest.
OldestPost(u) == CHOOSE id \in DOMAIN waiting : \A o \in DOMAIN waiting : id <= o
PostOf(u) == u.id

\* upload_fd_cb of an embed: a draft, the next slot under a new key, or the entry.
EmbedUploaded(u) ==
    LET w    == waiting[PostOf(u)]
        urls == Append(w.urls, u.id)
        rest == Without(waiting, PostOf(u))
    IN  \/ /\ u.state = "failed" /\ drafts' = drafts \cup {w.post} /\ waiting' = rest
           /\ UNCHANGED <<reqs, asked, fresh, published>>
        \/ /\ u.state = "ok" /\ Len(urls) < Embeds
           /\ Request(fresh, Embed(w.post, Len(urls) + 1))
           /\ waiting' = With(rest, fresh, [w EXCEPT !.urls = urls])
           /\ UNCHANGED <<published, drafts>>
        \/ /\ u.state = "ok" /\ Len(urls) >= Embeds
           /\ published' = published \cup {[post |-> w.post, urls |-> urls]}
           /\ waiting' = rest
           /\ UNCHANGED <<reqs, asked, fresh, drafts>>

\* upload_fd_cb of a file: the link is sent if the channel is still there.
FileUploaded(u) ==
    /\ \/ u.state = "ok" /\ shared' = shared \cup {[file |-> u.file, url |-> u.id]}
       \/ UNCHANGED shared
    /\ UNCHANGED <<reqs, waiting, asked, fresh, published, drafts>>

UploadFdCb ==
    \E u \in uploads :
        /\ u.state # "running" /\ uploads' = uploads \ {u}
        /\ IF ~u.feed THEN FileUploaded(u)
           ELSE /\ UNCHANGED shared
                /\ IF PostOf(u) \in DOMAIN waiting THEN EmbedUploaded(u)
                   ELSE UNCHANGED <<reqs, waiting, asked, fresh, published, drafts>>
        /\ UNCHANGED <<connected, previews, files, stored, taken, count, trouble>>

-------------------------------------------------------------------------------
\* The stream and the program.

\* account::disconnect joins the threads, so what runs finishes, and forgets their results.
StreamLost ==
    /\ Fails /\ connected /\ connected' = FALSE
    /\ \E finished \in SUBSET {u \in uploads : u.state = "running"} :
           stored' = [id \in DOMAIN stored \cup {u.id : u \in finished} |->
                         IF id \in DOMAIN stored THEN stored[id]
                         ELSE (CHOOSE u \in finished : u.id = id).file]
    /\ uploads' = {}
    /\ asked' \in SUBSET asked                \* the rest was answered, or will be on resumption
    /\ UNCHANGED <<previews, files, reqs, waiting, published, drafts, shared, taken, fresh,
                   count>>

Reconnect ==
    /\ ~connected /\ connected' = TRUE
    /\ UNCHANGED <<previews, files, sending, count, trouble>>

Restart ==
    /\ Fails
    /\ fetches' = {} /\ queue' = <<>> /\ downloads' = {} /\ displayed' = {}
    /\ reqs' = <<>> /\ waiting' = <<>> /\ asked' = {} /\ uploads' = {}
    /\ connected' = FALSE
    /\ UNCHANGED <<cache, starved, urlOf, ids, records, announced, stored, published, drafts,
                   shared, taken, fresh, count>>

-------------------------------------------------------------------------------
Next ==
    \/ \E u \in Urls, silent \in BOOLEAN : LinkSeen(u, silent)
    \/ \E u \in Urls : OgWorker(u) \/ OgFetchCb(u)
    \/ \E m \in Messages, how \in {"live", "archive"} : FileSeen(m, how)
    \/ EsfsWorker \/ EsfsDownloadCb \/ Close
    \/ \E f \in Files : Upload(f)
    \/ \E p \in Posts : Post(p)
    \/ \E id \in asked : SlotGiven(id) \/ SlotRefused(id)
    \/ UploadWorker \/ UploadFdCb
    \/ StreamLost \/ Reconnect \/ Restart

Spec == Init /\ [][Next]_vars

\* A preview's thread ends (curl's time limit) and the main loop runs the hooks.
PreviewFairness == \A u \in Urls : WF_vars(OgWorker(u)) /\ WF_vars(OgFetchCb(u))
FairSpec == Spec /\ PreviewFairness

-------------------------------------------------------------------------------
\* Nobody waits for a slot that is free: a preview asked for is fetched in the end, unless
\* the system had no pipe for one (then its turn is lost with it).
PreviewsConclude ==
    \A u \in Urls :
        u \in InFlight \cup Pending ~> (u \notin InFlight \cup Pending \/ starved)

Times(m) == announced[<<m, "stamped">>] + announced[<<m, "own">>] + announced[<<m, "none">>]

\* The file of a message that the server stamps is saved and announced once, however often
\* the message comes: live, again from the archive while the download runs, after the
\* conversation was closed or the program restarted, or beside another message with the
\* same file.  One that came with its sender's id only is announced once more at most, out
\* of the archive, where it has another.
AnnouncedOnce ==
    \A m \in Messages :
        /\ ids[m] = "stamped" => Times(m) <= 1
        /\ ids[m] = "own"     => Times(m) <= 2

\* A post goes out whole, and to nobody's surprise: each embed's url is where that very
\* file was stored, in order, whatever uploads of other posts and files ran meanwhile; and
\* what went out was not saved as a draft as well, nor published twice.
PostComplete ==
    /\ \A e \in published :
           /\ e.post \notin drafts
           /\ Len(e.urls) = Embeds
           /\ \A i \in 1..Len(e.urls) :
                  e.urls[i] \in DOMAIN stored /\ stored[e.urls[i]] = Embed(e.post, i)
           /\ \A o \in published : o.post = e.post => o = e
    /\ \A s \in shared : s.url \in DOMAIN stored /\ stored[s.url] = s.file

================================================================================
