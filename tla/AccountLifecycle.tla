--------------------------- MODULE AccountLifecycle ---------------------------
(***************************************************************************)
(* One account: connecting, losing the stream, backing off and trying      *)
(* again, and what the server is told of the user's presence meanwhile     *)
(* (account.cpp, account/callbacks.inl, connection/connect_lifecycle.inl,  *)
(* command/account.inl, buffer.cpp).                                       *)
(*                                                                         *)
(* "told" is what the current stream carried last: stanzas keep their      *)
(* order, so it is what the server will believe.  Times are abstracted to  *)
(* whether they have passed: any moment may be late enough.                *)
(***************************************************************************)
EXTENDS Naturals

CONSTANTS
    MaxDrops,     \* bound: streams that end, or are refused
    MaxIdle       \* bound: times the user goes idle

ASSUME BoundsAssumption == MaxDrops \in Nat /\ MaxIdle \in Nat

VARIABLES
    conn,          \* libstrophe: "down", "connecting", "up", or "closing" after xmpp_disconnect
    isConnected, disconnected,
    armed,         \* reconnect_start > 0
    delay, retry,  \* reconnect_delay, current_retry
    resource,      \* the configured resource, numbered; 0 is the empty one
    hooked,        \* idle_timer_hook and csi_activity_hooks are set
    idle,          \* time(nullptr) - last_activity > 300
    csiActive, idleSent,
    told,          \* what this stream said last: [active, idle]
    wanted,        \* history: a stream was lost and the user did not disconnect since
    kicked,        \* history: resources that met <conflict/>
    drops, idles   \* for the bounds

session == <<hooked, idle, csiActive, idleSent, told>>
backoff == <<delay, retry>>
vars == <<conn, isConnected, disconnected, armed, backoff, resource, session, wanted, kicked,
          drops, idles>>

Alive == conn \in {"connecting", "up"}       \* xmpp_conn_is_connecting or _is_connected

Init ==
    /\ conn = "down" /\ isConnected = FALSE /\ disconnected = FALSE
    /\ armed = FALSE /\ delay = 0 /\ retry = 0
    /\ resource \in {0, 1}
    /\ hooked = FALSE /\ idle = FALSE /\ csiActive = TRUE /\ idleSent = FALSE
    /\ told = [active |-> TRUE, idle |-> FALSE]
    /\ wanted = FALSE /\ kicked = {} /\ drops = 0 /\ idles = 0

\* rand_string(8): a resource nobody used.  Mutant: always the same.
FixedResource == 1
Fresh == CHOOSE r \in 1..(drops + 2) : r \notin kicked /\ r # resource

\* account::connect(): reset(), then connection.connect(), which gives an account
\* without resource a random one and which libstrophe may refuse.
Connect(ok) ==
    /\ resource' = IF resource = 0 THEN Fresh ELSE resource
    /\ conn' = IF ok THEN "connecting" ELSE IF conn = "up" THEN "closing" ELSE conn
    /\ isConnected' = ok

\* /account connect.  A connected account only gets a message and connects again.
ManualConnect(ok) ==
    /\ drops < MaxDrops /\ drops' = drops + 1
    /\ Connect(ok)
    /\ UNCHANGED <<disconnected, armed, backoff, session, wanted, kicked, idles>>

\* timer_cb, for an account whose connection it does not process.
Reconnect(ok) ==
    /\ ~(isConnected /\ Alive) /\ ~disconnected /\ armed
    /\ ok \/ drops < MaxDrops
    /\ drops' = IF ok THEN drops ELSE drops + 1
    /\ armed' = FALSE
    /\ Connect(ok)
    /\ UNCHANGED <<disconnected, backoff, session, wanted, kicked, idles>>

\* Mutant: csi_active is left as it was.
ConnectedKeepsCsi ==
    /\ isConnected /\ conn = "connecting"
    /\ conn' = "up" /\ disconnected' = FALSE
    /\ hooked' = TRUE /\ idle' = FALSE
    /\ told' = [active |-> TRUE, idle |-> FALSE]
    /\ UNCHANGED <<isConnected, armed, backoff, resource, csiActive, idleSent, wanted, kicked,
                   drops, idles>>

\* conn_handler(connect): initial presence, CSI <active/>, hooks.  The flag
\* xep0319_idle_sent is left as the last stream had it.
Connected ==
    /\ isConnected /\ conn = "connecting"
    /\ conn' = "up" /\ disconnected' = FALSE
    /\ hooked' = TRUE /\ idle' = FALSE /\ csiActive' = TRUE
    /\ told' = [active |-> TRUE, idle |-> FALSE]
    /\ UNCHANGED <<isConnected, armed, backoff, resource, idleSent, wanted, kicked, drops, idles>>

\* The exponential backoff.
Backoff == IF delay = 0 THEN 5 ELSE IF delay * 2 > 120 THEN 120 ELSE delay * 2

\* account::disconnect(reconnect).  Mutant: it forgets why it was called.
DisconnectForGood(reconnect) ==
    /\ hooked' = FALSE /\ isConnected' = FALSE
    /\ delay' = IF reconnect THEN Backoff ELSE 0
    /\ retry' = IF reconnect THEN retry + 1 ELSE 0
    /\ armed' = reconnect
    /\ disconnected' = TRUE
Disconnect(reconnect) ==
    /\ hooked' = FALSE
    /\ isConnected' = FALSE
    /\ delay' = IF reconnect THEN Backoff ELSE 0
    /\ retry' = IF reconnect THEN retry + 1 ELSE 0
    /\ armed' = reconnect
    /\ disconnected' = ~reconnect

\* conn_handler(disconnect or fail).  timer_cb runs xmpp_run_once, so events
\* come only to an account it processes.
StreamEnded(conflict) ==
    /\ isConnected /\ Alive
    /\ conflict => conn = "up"
    /\ drops < MaxDrops /\ drops' = drops + 1
    /\ conn' = "down"
    /\ resource' = IF conflict THEN 0 ELSE resource
    /\ Disconnect(TRUE)
    /\ wanted' = TRUE
    /\ kicked' = IF conflict THEN kicked \cup {resource} ELSE kicked
    /\ UNCHANGED <<idle, csiActive, idleSent, told, idles>>

\* /account disconnect, which checks nothing.
UserDisconnect ==
    /\ drops < MaxDrops /\ drops' = drops + 1
    /\ conn' = IF conn = "up" THEN "closing" ELSE conn
    /\ Disconnect(FALSE)
    /\ wanted' = FALSE
    /\ UNCHANGED <<resource, idle, csiActive, idleSent, told, kicked, idles>>

-------------------------------------------------------------------------------
\* idle_timer_cb and activity_cb do nothing on a connection that is not up.

GoIdle == /\ ~idle /\ idles < MaxIdle
          /\ idle' = TRUE /\ idles' = idles + 1
          /\ UNCHANGED <<conn, isConnected, disconnected, armed, backoff, resource, hooked,
                         csiActive, idleSent, told, wanted, kicked, drops>>

\* Either report is due.  Mutant: only both.
BothDue == csiActive /\ ~idleSent
IdleDue == csiActive \/ ~idleSent

\* Mutant: the idle presence is sent and not remembered.
IdleTimerForgets ==
    /\ hooked /\ conn = "up" /\ idle
    /\ IdleDue
    /\ csiActive' = FALSE
    /\ told' = [active |-> told.active /\ ~csiActive, idle |-> told.idle \/ ~idleSent]
    /\ UNCHANGED <<conn, isConnected, disconnected, armed, backoff, resource, hooked, idle,
                   idleSent, wanted, kicked, drops, idles>>

\* idle_timer_cb: <inactive/> and an idle presence, each once per transition.
IdleTimer ==
    /\ hooked /\ conn = "up" /\ idle
    /\ IdleDue
    /\ csiActive' = FALSE /\ idleSent' = TRUE
    /\ told' = [active |-> told.active /\ ~csiActive, idle |-> told.idle \/ ~idleSent]
    /\ UNCHANGED <<conn, isConnected, disconnected, armed, backoff, resource, hooked, idle,
                   wanted, kicked, drops, idles>>

\* activity_cb: <active/> and a plain presence, when the flags say they are due.
Activity ==
    /\ hooked /\ conn = "up"
    /\ idle' = FALSE /\ csiActive' = TRUE /\ idleSent' = FALSE
    /\ told' = [active |-> told.active \/ ~csiActive, idle |-> told.idle /\ ~idleSent]
    /\ UNCHANGED <<conn, isConnected, disconnected, armed, backoff, resource, hooked,
                   wanted, kicked, drops, idles>>

Next == \/ \E ok \in BOOLEAN : ManualConnect(ok) \/ Reconnect(ok)
        \/ Connected
        \/ \E conflict \in BOOLEAN : StreamEnded(conflict)
        \/ UserDisconnect \/ GoIdle \/ IdleTimer \/ Activity

Spec == Init /\ [][Next]_vars

\* timer_cb and the idle timer are periodic timers of WeeChat; a dialled
\* connection is established or fails.
FairSpec == /\ Spec
            /\ WF_vars(\E ok \in BOOLEAN : Reconnect(ok))
            /\ WF_vars(Connected) /\ WF_vars(IdleTimer)

-------------------------------------------------------------------------------
\* csi_active is what the server was told on this stream: a server that
\* believes the client inactive would hold stanzas back from an active user.
CsiAgrees == conn = "up" => csiActive = told.active

\* When contacts see the user idle, his next key press tells them otherwise.
IdleIsRevocable == conn = "up" /\ told.idle => idleSent

\* No stream is opened under a resource the server kicked us from ("avoiding
\* an infinite kick-reconnect-kick storm").
ConflictEscaped == Alive => resource \notin kicked

\* An armed reconnect timer leads to an attempt.
ReconnectTried == armed ~> (~armed \/ (isConnected /\ Alive))

\* A user who stays idle on a stream is eventually reported inactive on it.
InactiveReported == (hooked /\ conn = "up" /\ idle) ~> (~told.active \/ ~idle \/ conn # "up")
===============================================================================
