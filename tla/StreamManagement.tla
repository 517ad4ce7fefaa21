--------------------------- MODULE StreamManagement ---------------------------
(***************************************************************************)
(* XEP-0198 stream management as the client implements it                  *)
(* (connection.cpp, connection/stream_management.inl, the SM parts of      *)
(* connection/connect_lifecycle.inl and account.cpp), against a conforming *)
(* server, over streams that may break at any moment.                      *)
(*                                                                         *)
(* Client stanzas are numbered in the order send() is called; server       *)
(* stanzas by their place in their session, 0 when they belong to none.    *)
(* sm_last_ack is written and never read: it is left out.                  *)
(***************************************************************************)
EXTENDS Naturals, Sequences, FiniteSets

CONSTANTS
    Burst,        \* stanzas conn_handler sends right after <enable/> or <resume/>
    EarlyPush,    \* the server may route stanzas to a bound stream before SM starts
    MaxUser,      \* bound: stanzas the user sends
    MaxSrv,       \* bound: stanzas the server sends in one session, and outside any
    MaxDrops      \* bound: streams that end, for whatever reason

ASSUME BurstAssumption == Burst \in Nat
ASSUME EarlyPushAssumption == EarlyPush \in BOOLEAN
ASSUME BoundsAssumption == MaxUser \in Nat /\ MaxSrv \in Nat /\ MaxDrops \in Nat

VARIABLES
    link,         \* libstrophe's connection: "down", "connecting" or "up"
    armed,        \* account.reconnect_start > 0
    smEnabled, smAvailable, smId, hIn, hOut,
    outq,         \* sm_outqueue: records [seq, msg]
    ackTimers,    \* timers calling sm_ack_timer_cb: the one sm_ack_timer_hook names, and
                  \* "lost" ones that it named once and nobody unhooks
    c2s, s2c,     \* what is in flight on the current stream, in order
    live,         \* the server can resume the last session it enabled
    counting,     \* the server runs the current stream under SM
    handled,      \* client stanzas the server handled in the last session
    sent,         \* sent[s]: stanzas the server sent in its s-th session
    peerAck,      \* last h the client acknowledged in the last session
    msgs,         \* stanzas passed to send() so far
    userSent, outside, drops,   \* user stanzas, server stanzas outside sessions, streams
                  \* ended: for the bounds
    received,     \* history: client stanzas the server handled
    acked,        \* history: stanzas an h removed from outq since <enable/>
    uncounted,    \* history: transmissions since <enable/> that hOut does not count
    logs,         \* history: logs[s]: stanzas of session s in the order handled
    over          \* history: sessions whose end the client has been told of

client  == <<smEnabled, smAvailable, smId, hIn, hOut, outq>>
server  == <<live, counting, handled, sent, peerAck>>
history == <<received, acked, uncounted, logs, over>>
used    == <<userSent, outside, drops>>
vars    == <<link, armed, client, ackTimers, c2s, s2c, server, msgs, used, history>>

NoId == 0                              \* the empty sm_id
Session == Len(sent)                   \* the server's last session

Elem(kind, n, id) == [kind |-> kind, n |-> n, id |-> id]
ClientElem == [kind : {"enable", "resume", "stanza", "r", "a"}, n : Nat, id : Nat]
ServerElem == [kind : {"enabled", "resumed", "failed", "stanza", "r", "a"}, n : Nat, id : Nat]
Queued == [seq : Nat, msg : Nat]

InFlight(chan, kinds) == \E i \in DOMAIN chan : chan[i].kind \in kinds

\* The current stream's <enable/> or <resume/> is not answered yet.
Negotiating == \/ InFlight(c2s, {"enable", "resume"})
               \/ InFlight(s2c, {"enabled", "resumed", "failed"})

Init ==
    /\ link = "down" /\ armed = FALSE
    /\ smEnabled = FALSE /\ smAvailable = TRUE /\ smId = NoId
    /\ hIn = 0 /\ hOut = 0 /\ outq = <<>> /\ ackTimers = {}
    /\ c2s = <<>> /\ s2c = <<>>
    /\ live = FALSE /\ counting = FALSE /\ handled = 0 /\ sent = <<>> /\ peerAck = 0
    /\ msgs = 0 /\ userSent = 0 /\ outside = 0 /\ drops = 0
    /\ received = {} /\ acked = {} /\ uncounted = 0 /\ logs = <<>>
    /\ over = {}

-------------------------------------------------------------------------------
\* Dialling.

\* connection.connect(): libstrophe may refuse at once, otherwise it dials.
Dial(ok) ==
    /\ link' = IF ok THEN "connecting" ELSE "down"
    /\ c2s' = <<>> /\ s2c' = <<>> /\ counting' = FALSE

\* /account connect: connect(true).  It checks nothing: over a live stream
\* reset() first closes that one, and no hook is removed.
ManualConnect(ok) ==
    /\ link # "down" => drops < MaxDrops
    /\ drops' = IF link = "down" THEN drops ELSE drops + 1
    /\ smAvailable' = TRUE
    /\ Dial(ok)
    /\ live' \in IF link = "down" THEN {live} ELSE {live, FALSE}
    /\ UNCHANGED <<armed, smEnabled, smId, hIn, hOut, outq, ackTimers,
                   handled, sent, peerAck, msgs, userSent, outside, history>>

\* timer_cb: reconnect_start is cleared before connect(false) is tried.
AutoReconnect(ok) ==
    /\ armed /\ link = "down"
    /\ armed' = FALSE
    /\ Dial(ok)
    /\ UNCHANGED <<client, ackTimers, live, handled, sent, peerAck, msgs, used, history>>

\* The h of <resume/> and <a/>.  Its mutants report one stanza too few or too many.
ReportedBehind == hIn - 1
ReportedH == hIn

\* send() of the next k stanzas, after the elements first.  libstrophe discards
\* what is sent before the stream is up; the counter and the queue do not.
Send(k, first) ==
    /\ msgs' = msgs + k
    /\ c2s' = IF link' = "up"
              THEN c2s \o first \o [i \in 1..k |-> Elem("stanza", msgs + i, 0)]
              ELSE c2s
    /\ IF smEnabled
       THEN /\ hOut' = hOut + k
            /\ outq' = outq \o [i \in 1..k |-> [seq |-> hOut + i, msg |-> msgs + i]]
       ELSE UNCHANGED <<hOut, outq>>

\* conn_handler(connect): <resume/> or <enable/> when SM is available, then at
\* once the initial presence and queries, whatever the server will answer.
Connected ==
    /\ link = "connecting"
    /\ link' = "up"
    /\ Send(Burst, CASE ~smAvailable -> <<>>
                     [] smAvailable /\ smId # NoId -> <<Elem("resume", ReportedH, smId)>>
                     [] smAvailable /\ smId = NoId -> <<Elem("enable", 0, 0)>>)
    /\ IF smAvailable /\ smId = NoId
       THEN uncounted' = Burst /\ acked' = {}
       ELSE UNCHANGED <<uncounted, acked>>
    /\ UNCHANGED <<armed, smEnabled, smAvailable, smId, hIn, ackTimers, s2c, server,
                   used, received, logs, over>>

\* The user, or a handler, sends a stanza; is_connected holds while dialling.
UserSend ==
    /\ link # "down" /\ userSent < MaxUser
    /\ userSent' = userSent + 1 /\ link' = link
    /\ Send(1, <<>>)
    /\ uncounted' = IF link = "up" /\ Negotiating /\ smId = NoId THEN uncounted + 1 ELSE uncounted
    /\ UNCHANGED <<armed, smEnabled, smAvailable, smId, hIn, ackTimers, s2c, server,
                   outside, drops, received, acked, logs, over>>

-------------------------------------------------------------------------------
\* sm_handler, and the counting iq, message and presence handlers.

\* while (!outq.empty() && outq.front().first <= h) outq.pop_front();
\* Its mutant stops one stanza late.
ConfirmedLate(q, h) ==
    CHOOSE k \in 0..Len(q) :
        /\ \A i \in 1..k : q[i].seq <= h + 1
        /\ k < Len(q) => q[k + 1].seq > h + 1
Confirmed(q, h) ==
    CHOOSE k \in 0..Len(q) :
        /\ \A i \in 1..k : q[i].seq <= h
        /\ k < Len(q) => q[k + 1].seq > h
Prune(q, h) == SubSeq(q, Confirmed(q, h) + 1, Len(q))
PrunedMsgs(q, h) == {q[i].msg : i \in 1..Confirmed(q, h)}

\* The handlers are registered with the stream.  Mutant: only once SM is enabled.
ReceiveWhenEnabled(kind) ==
    /\ smEnabled /\ link = "up" /\ s2c # <<>> /\ Head(s2c).kind = kind
    /\ s2c' = Tail(s2c)
Receive(kind) ==
    /\ link = "up" /\ s2c # <<>> /\ Head(s2c).kind = kind
    /\ s2c' = Tail(s2c)

\* The hook is overwritten.
Hooked == IF "named" \in ackTimers THEN {"named", "lost"} ELSE ackTimers \cup {"named"}

\* <enabled/>: counters and queue start afresh; the id is taken when there is
\* one, whether or not the server offered to resume; the ack timer is hooked.
\* Mutant: nothing starts afresh.
OnEnabledKeeping ==
    /\ Receive("enabled")
    /\ smEnabled' = TRUE
    /\ smId' = IF Head(s2c).id # NoId THEN Head(s2c).id ELSE smId
    /\ ackTimers' = Hooked
    /\ UNCHANGED <<link, armed, smAvailable, hIn, hOut, outq, c2s, server, msgs, used, history>>
OnEnabled ==
    /\ Receive("enabled")
    /\ smEnabled' = TRUE /\ hIn' = 0 /\ hOut' = 0 /\ outq' = <<>>
    /\ smId' = IF Head(s2c).id # NoId THEN Head(s2c).id ELSE smId
    /\ ackTimers' = Hooked
    /\ UNCHANGED <<link, armed, smAvailable, c2s, server, msgs, used, history>>

\* <resumed h/>: prune, then retransmit what is left through m_conn.send(),
\* which does not count.  No ack timer is hooked.
OnResumed ==
    /\ Receive("resumed")
    /\ outq' = Prune(outq, Head(s2c).n)
    /\ acked' = acked \cup PrunedMsgs(outq, Head(s2c).n)
    /\ c2s' = c2s \o [i \in 1..Len(outq') |-> Elem("stanza", outq'[i].msg, 0)]
    /\ uncounted' = uncounted + Len(outq')
    /\ UNCHANGED <<link, armed, smEnabled, smAvailable, smId, hIn, hOut, ackTimers, server,
                   msgs, used, received, logs, over>>

\* <failed/>: forget everything and do not ask again until a manual connect.
OnFailed ==
    /\ Receive("failed")
    /\ smEnabled' = FALSE /\ smAvailable' = FALSE /\ smId' = NoId
    /\ hIn' = 0 /\ hOut' = 0 /\ outq' = <<>>
    /\ over' = over \cup {smId}
    /\ UNCHANGED <<link, armed, ackTimers, c2s, server, msgs, used, received, acked, uncounted, logs>>

OnAck ==
    /\ Receive("a")
    /\ outq' = Prune(outq, Head(s2c).n)
    /\ acked' = acked \cup PrunedMsgs(outq, Head(s2c).n)
    /\ UNCHANGED <<link, armed, smEnabled, smAvailable, smId, hIn, hOut, ackTimers, c2s, server,
                   msgs, used, received, uncounted, logs, over>>

OnRequest ==
    /\ Receive("r")
    /\ c2s' = Append(c2s, Elem("a", ReportedH, 0))
    /\ UNCHANGED <<link, armed, client, ackTimers, server, msgs, used, history>>

\* Any iq, message or presence: counted whenever sm_enabled holds.  Mutant: only
\* on the stream that enabled it.
CountedOnce == IF smEnabled /\ ackTimers # {} THEN hIn + 1 ELSE hIn
Counted == IF smEnabled THEN hIn + 1 ELSE hIn

OnStanza ==
    /\ Receive("stanza")
    /\ hIn' = Counted
    /\ logs' = IF Head(s2c).id = 0 THEN logs
               ELSE [logs EXCEPT ![Head(s2c).id] = Append(@, Head(s2c).n)]
    /\ UNCHANGED <<link, armed, smEnabled, smAvailable, smId, hOut, outq, ackTimers, c2s, server,
                   msgs, used, received, acked, uncounted, over>>

\* sm_ack_timer_cb.  Bound: one <r/> at a time is in flight.  Mutant: it asks only
\* in a session that can be resumed.
AckTimerTickResumable ==
    /\ link = "up" /\ ackTimers # {} /\ smEnabled /\ smId # NoId
    /\ ~InFlight(c2s, {"r"}) /\ ~InFlight(s2c, {"a"})
    /\ c2s' = Append(c2s, Elem("r", 0, 0))
    /\ UNCHANGED <<link, armed, client, ackTimers, s2c, server, msgs, used, history>>
AckTimerTick ==
    /\ link = "up" /\ ackTimers # {} /\ smEnabled
    /\ ~InFlight(c2s, {"r"}) /\ ~InFlight(s2c, {"a"})
    /\ c2s' = Append(c2s, Elem("r", 0, 0))
    /\ UNCHANGED <<link, armed, client, ackTimers, s2c, server, msgs, used, history>>

-------------------------------------------------------------------------------
\* Streams that end.  account.disconnect(n) removes the ack timer and arms the
\* reconnect timer iff n = 1; sm_enabled and sm_outqueue are never touched.

Ends == /\ link # "down" /\ drops < MaxDrops
        /\ drops' = drops + 1
        /\ link' = "down" /\ c2s' = <<>> /\ s2c' = <<>> /\ counting' = FALSE
        /\ ackTimers' = ackTimers \ {"named"}

\* conn_handler(disconnect or fail, error # 0): nothing of the SM state changes.
LinkLost ==
    /\ Ends
    /\ armed' = TRUE
    /\ UNCHANGED <<client, live, handled, sent, peerAck, msgs, userSent, outside, history>>

\* conn_handler(disconnect, error = 0): the server closed the stream, and with
\* an established stream its session.  Mutant: the id is kept.
CleanCloseKeepsId ==
    /\ Ends
    /\ s2c = <<>>
    /\ armed' = TRUE
    /\ hIn' = 0 /\ hOut' = 0
    /\ live' = IF link = "up" THEN FALSE ELSE live
    /\ over' = over \cup {smId}
    /\ UNCHANGED <<smEnabled, smAvailable, smId, outq, handled, sent, peerAck, msgs, userSent,
                   outside, received, acked, uncounted, logs>>
CleanClose ==
    /\ Ends
    /\ s2c = <<>>
    /\ armed' = TRUE
    /\ smId' = NoId /\ hIn' = 0 /\ hOut' = 0
    /\ live' = IF link = "up" THEN FALSE ELSE live
    /\ over' = over \cup {smId}
    /\ UNCHANGED <<smEnabled, smAvailable, outq, handled, sent, peerAck, msgs, userSent, outside,
                   received, acked, uncounted, logs>>

\* /account disconnect, or the account buffer closed: disconnect(0).  timer_cb
\* stops processing the account, so conn_handler hears of no event; the server
\* sees a closing tag or a broken connection.
UserDisconnect ==
    /\ Ends
    /\ armed' = FALSE
    /\ live' \in {live, FALSE}
    /\ UNCHANGED <<client, handled, sent, peerAck, msgs, userSent, outside, history>>

-------------------------------------------------------------------------------
\* The server (external: a conforming XEP-0198 implementation).

ServerReceive(kind) ==
    /\ link = "up" /\ c2s # <<>> /\ Head(c2s).kind = kind
    /\ c2s' = Tail(c2s)

\* It opens a session, resumable or not; the id may come without resume='true'.
SrvEnable(resumable, named) ==
    /\ ServerReceive("enable")
    /\ resumable => named
    /\ live' = resumable /\ counting' = TRUE /\ handled' = 0 /\ peerAck' = 0
    /\ sent' = Append(sent, 0)
    /\ logs' = Append(logs, <<>>)
    /\ s2c' = Append(s2c, Elem("enabled", 0, IF named THEN Session + 1 ELSE NoId))
    /\ UNCHANGED <<link, armed, client, ackTimers, msgs, used, received, acked, uncounted, over>>

\* It resumes its last session: <resumed h/>, then what the client's h lacks.
SrvResume ==
    /\ ServerReceive("resume")
    /\ live /\ Head(c2s).id = Session /\ Head(c2s).n <= sent[Session]
    /\ counting' = TRUE
    /\ peerAck' = Head(c2s).n
    /\ s2c' = s2c \o <<Elem("resumed", handled, Session)>>
                  \o [i \in 1..(sent[Session] - Head(c2s).n) |->
                         Elem("stanza", Head(c2s).n + i, Session)]
    /\ UNCHANGED <<link, armed, client, ackTimers, live, handled, sent, msgs, used, history>>

\* It may always refuse, and a refused <resume/> may find the session gone.
SrvRefuse ==
    /\ ServerReceive("enable") \/ ServerReceive("resume")
    /\ s2c' = Append(s2c, Elem("failed", 0, 0))
    /\ live' \in {live, FALSE}
    /\ UNCHANGED <<link, armed, client, ackTimers, counting, handled, sent, peerAck,
                   msgs, used, history>>

SrvStanza ==
    /\ ServerReceive("stanza")
    /\ received' = received \cup {Head(c2s).n}
    /\ handled' = IF counting THEN handled + 1 ELSE handled
    /\ UNCHANGED <<link, armed, client, ackTimers, s2c, live, counting, sent, peerAck, msgs, used,
                   acked, uncounted, logs, over>>

SrvRequest ==
    /\ ServerReceive("r")
    /\ s2c' = IF counting THEN Append(s2c, Elem("a", handled, 0)) ELSE s2c
    /\ UNCHANGED <<link, armed, client, ackTimers, server, msgs, used, history>>

\* The client's <a h/>: the server drops its stanzas up to h.
SrvAck ==
    /\ ServerReceive("a")
    /\ peerAck' = IF counting THEN Head(c2s).n ELSE peerAck
    /\ UNCHANGED <<link, armed, client, ackTimers, s2c, live, counting, handled, sent, msgs, used,
                   history>>

SrvSend ==
    /\ link = "up" /\ counting /\ sent[Session] < MaxSrv
    /\ sent' = [sent EXCEPT ![Session] = @ + 1]
    /\ s2c' = Append(s2c, Elem("stanza", sent'[Session], Session))
    /\ UNCHANGED <<link, armed, client, ackTimers, c2s, live, counting, handled, peerAck, msgs, used,
                   history>>

SrvSendOutside ==
    /\ link = "up" /\ ~counting /\ outside < MaxSrv
    /\ EarlyPush \/ ~Negotiating
    /\ outside' = outside + 1
    /\ s2c' = Append(s2c, Elem("stanza", 0, 0))
    /\ UNCHANGED <<link, armed, client, ackTimers, c2s, server, msgs, userSent, drops, history>>

\* Bound: one request of the server at a time is in flight.
SrvAsk ==
    /\ link = "up" /\ counting /\ ~InFlight(s2c, {"r"}) /\ ~InFlight(c2s, {"a"})
    /\ s2c' = Append(s2c, Elem("r", 0, 0))
    /\ UNCHANGED <<link, armed, client, ackTimers, c2s, server, msgs, used, history>>

\* The resumption timeout expires while no stream serves the session.
SrvForget ==
    /\ live /\ ~counting
    /\ live' = FALSE
    /\ UNCHANGED <<link, armed, client, ackTimers, c2s, s2c, counting, handled, sent, peerAck,
                   msgs, used, history>>

-------------------------------------------------------------------------------
ClientReceive == \/ OnEnabled \/ OnResumed \/ OnFailed \/ OnAck \/ OnRequest \/ OnStanza
SrvEnabling == \E resumable, named \in BOOLEAN : SrvEnable(resumable, named)
ServerHandle == \/ SrvEnabling \/ SrvResume \/ SrvRefuse
                \/ SrvStanza \/ SrvRequest \/ SrvAck

Next == \/ \E ok \in BOOLEAN : ManualConnect(ok) \/ AutoReconnect(ok)
        \/ Connected \/ UserSend \/ AckTimerTick
        \/ ClientReceive \/ ServerHandle
        \/ LinkLost \/ CleanClose \/ UserDisconnect
        \/ SrvSend \/ SrvSendOutside \/ SrvAsk \/ SrvForget

Spec == Init /\ [][Next]_vars

\* timer_cb runs xmpp_run_once every second and the ack timer every thirty;
\* the server reads its streams.  Streams may break, and nobody has to act.
FairSpec == /\ Spec
            /\ WF_vars(ClientReceive) /\ WF_vars(ServerHandle) /\ WF_vars(AckTimerTick)

-------------------------------------------------------------------------------
\* What is expected of it.

ClientTypes ==
    /\ smEnabled \in BOOLEAN /\ smAvailable \in BOOLEAN /\ smId \in Nat
    /\ hIn \in Nat /\ hOut \in Nat /\ outq \in Seq(Queued)

StreamTypes ==
    /\ link \in {"down", "connecting", "up"} /\ armed \in BOOLEAN
    /\ ackTimers \subseteq {"named", "lost"}
    /\ c2s \in Seq(ClientElem) /\ s2c \in Seq(ServerElem)

ServerTypes ==
    /\ live \in BOOLEAN /\ counting \in BOOLEAN /\ handled \in Nat /\ peerAck \in Nat
    /\ sent \in Seq(Nat)
    /\ live \/ counting => sent # <<>>

HistoryTypes ==
    /\ msgs \in Nat /\ userSent \in Nat /\ outside \in Nat /\ drops \in Nat
    /\ received \in SUBSET Nat /\ acked \in SUBSET Nat /\ uncounted \in Nat
    /\ logs \in Seq(Seq(Nat)) /\ Len(logs) = Len(sent)
    /\ over \in SUBSET Nat

TypeOK == ClientTypes /\ StreamTypes /\ ServerTypes /\ HistoryTypes

\* Within a session every server stanza is handled exactly once and in order,
\* across any number of drops and resumptions: the h of <resume/> is neither
\* behind (a duplicate) nor ahead (a loss).
InboundExactlyOnce ==
    \A s \in DOMAIN logs : \A i \in DOMAIN logs[s] : logs[s][i] = i

\* On an established stream under SM the queue is the tail of what hOut counts,
\* so "front.first <= h" removes exactly the stanzas h stands for.
QueueAligned ==
    link = "up" /\ smEnabled /\ ~Negotiating =>
        \A i \in DOMAIN outq : outq[i].seq + Len(outq) = hOut + i

\* It prunes too much, yet never more than the transmissions hOut missed.
LossBounded == Cardinality(acked \ received) <= uncounted

\* No session is resumed whose end the client has been told of, by <failed/>
\* or by a cleanly closed stream.
ResumeIsOpen ==
    \A i \in DOMAIN c2s : c2s[i].kind = "resume" => c2s[i].id \notin over

\* Each session of the server is delivered to the client in order, without
\* loss or duplication: the detailed protocol implements SessionDelivery.
Delivery == INSTANCE SessionDelivery WITH got <- logs
DeliverySpec == Delivery!Spec

\* <enable/> and <resume/> are answered and the answer is taken in, unless the
\* stream ends first.
NegotiationConcludes == (link = "up" /\ Negotiating) ~> ~(link = "up" /\ Negotiating)

\* While the ack timer runs, the retransmission queue drains.
TimedQueueDrains ==
    (link = "up" /\ smEnabled /\ ackTimers # {}) ~> (outq = <<>> \/ link # "up")

===============================================================================
