---------------------------- MODULE ChannelClient ----------------------------
(***************************************************************************)
(* One client's end of the collaboration channel:                          *)
(* client/src/network/collaboration_websocket_client.cpp, driven by        *)
(* client/src/collaboration/collaboration_panel_widget.cpp, and what the   *)
(* main window and the server do to it.                                    *)
(*                                                                         *)
(* Everything runs in the event loop of the user interface, so a slot or a *)
(* handler is a step.  QWebSocket emits `disconnected' from inside abort() *)
(* and, when the close frame can be written at once, from inside close();  *)
(* the slots of that signal are then part of the step.  The address of the *)
(* server is left out: changing it is, for the channel, a disconnect.      *)
(***************************************************************************)
EXTENDS Naturals, FiniteSets

CONSTANTS
  Token,      \* access tokens; each is handed out at most once (bound on logins)
  Project,    \* collaboration project ids
  NoToken,    \* an empty authToken_
  NoUrl,      \* an invalid lastUrl_
  MaxStops,   \* bound: ends of the server process
  MaxDrops    \* bound: connections the network breaks, handshakes it spoils

ASSUME ChannelAssumption ==
  /\ NoToken \notin Token
  /\ NoUrl \notin [project : Project, token : Token]
  /\ MaxStops \in Nat
  /\ MaxDrops \in Nat

VARIABLES
  socket,    \* QWebSocket::state(), "none" when socket_ is empty
  lastUrl,   \* lastUrl_, also what the socket was opened with last
  enabled,   \* reconnectEnabled_
  stopped,   \* userDisconnectRequested_
  timer,     \* whether reconnectTimer_ is active
  heartbeat, \* whether heartbeatTimer_ is active
  listed,    \* whether the list of members shows anybody
  label,     \* collaborationChannelStatusLabel_
  token,     \* authToken_
  project,   \* collaborationProjectId_
  peer,      \* the server's end of the open connection: "accepted", a "member"
             \* of the room, "closed", or "lost" without a word; "none" otherwise
  valid,     \* the server: g_tokens, which are only in its memory
  running,   \* the server: whether it runs and can be reached
  prompt,    \* the network: whether handshakes end within the 3 s of the timer
  wants,     \* history: whether the user asked for the channel, and not for its end, last
  issued,    \* tokens handed out so far
  stops,     \* ends of the server so far (bounded by MaxStops)
  drops      \* broken connections and handshakes so far (bounded by MaxDrops)

clientVars == <<socket, lastUrl, enabled, stopped, timer>>
panelVars  == <<heartbeat, listed, label, token, project>>
worldVars  == <<valid, running, prompt, issued, stops, drops>>
vars       == <<clientVars, panelVars, peer, wants, worldVars>>

Url == [project : Project, token : Token]

ClientTypeOK ==
  /\ socket \in {"none", "unconnected", "connecting", "connected", "closing"}
  /\ lastUrl \in Url \cup {NoUrl}
  /\ enabled \in BOOLEAN
  /\ stopped \in BOOLEAN
  /\ timer \in BOOLEAN

PanelTypeOK ==
  /\ heartbeat \in BOOLEAN
  /\ listed \in BOOLEAN
  /\ label \in {"offline", "connecting", "connected", "reconnecting", "error", "sign in first"}
  /\ token \in Token \cup {NoToken}
  /\ project \in Project

WorldTypeOK ==
  /\ peer \in {"none", "accepted", "member", "closed", "lost"}
  /\ valid \in SUBSET Token
  /\ running \in BOOLEAN
  /\ prompt \in BOOLEAN
  /\ wants \in BOOLEAN
  /\ issued \in SUBSET Token
  /\ stops \in Nat
  /\ drops \in Nat

TypeOK == ClientTypeOK /\ PanelTypeOK /\ WorldTypeOK

\* The program starts signed out: the main window's constructor forgets the
\* token of an earlier login.
Init ==
  /\ socket = "none"
  /\ lastUrl = NoUrl
  /\ enabled = FALSE
  /\ stopped = FALSE
  /\ timer = FALSE
  /\ heartbeat = FALSE
  /\ listed = FALSE
  /\ label = "offline"
  /\ token = NoToken
  /\ project \in Project
  /\ peer = "none"
  /\ running = TRUE
  /\ prompt \in BOOLEAN
  /\ wants = FALSE
  /\ issued = {}
  /\ valid = {}
  /\ stops = 0
  /\ drops = 0

-----------------------------------------------------------------------------
(***************************************************************************)
(* The signals of the WebSocket client and their slots.                    *)
(***************************************************************************)
\* updateCollaborationChannelUi.
Status(connected, reconnects) ==
  IF connected THEN "connected" ELSE IF reconnects THEN "reconnecting" ELSE "offline"

\* The panel's slot for `disconnected': no heartbeats, nobody listed.
PanelDisconnected ==
  /\ heartbeat' = FALSE
  /\ listed' = FALSE

\* scheduleReconnect, as the client's own slot for `disconnected' calls it.
\* Faulty variant: the flag of an earlier disconnect by the user is consulted
\* the wrong way round.
RescheduleStopped(active) == active \/ (enabled' /\ stopped' /\ lastUrl' # NoUrl)

Reschedule(active) == active \/ (enabled' /\ ~stopped' /\ lastUrl' # NoUrl)

\* Whether abort() has something to abort, and so emits `disconnected'.
Abortable == socket \notin {"none", "unconnected"}

\* open(), after ensureSocket() and, unless the socket is idle, abort(): from
\* the second the timer is started before the new attempt has begun.
Reopen(waiting) ==
  /\ socket' = "connecting"
  /\ peer' = "none"
  /\ IF Abortable
     THEN /\ PanelDisconnected
          /\ timer' = Reschedule(FALSE)
          /\ label' = Status(FALSE, enabled')
     ELSE /\ timer' = FALSE
          /\ label' = waiting
          /\ UNCHANGED <<heartbeat, listed>>

\* connectToServer.
\* Faulty variant: userDisconnectRequested_ stays as it is.
ForgetfulConnect(u) ==
  /\ lastUrl' = u
  /\ enabled' = TRUE
  /\ UNCHANGED stopped
  /\ Reopen("connecting")

ConnectToServer(u) ==
  /\ lastUrl' = u
  /\ enabled' = TRUE
  /\ stopped' = FALSE
  /\ Reopen("connecting")

\* disconnectFromServer, of a connected socket, and the caller's
\* updateCollaborationChannelUi.  The socket is destroyed as soon as it was
\* told to close, and the panel may or may not hear that it is closed.
\* Faulty variant: the socket is kept for the next attempt.
KeepReconnecting ==
  /\ socket' = "unconnected"
  /\ timer' = TRUE
  /\ peer' = "none"
  /\ label' = Status(FALSE, TRUE)
  /\ PanelDisconnected
  /\ UNCHANGED <<lastUrl, enabled, stopped>>

DisconnectFromServer ==
  /\ enabled' = FALSE
  /\ stopped' = TRUE
  /\ timer' = FALSE
  /\ socket' = "none"
  /\ peer' = "none"
  /\ label' = Status(FALSE, enabled')
  /\ PanelDisconnected \/ UNCHANGED <<heartbeat, listed>>
  /\ UNCHANGED lastUrl

-----------------------------------------------------------------------------
(***************************************************************************)
(* The user.                                                               *)
(***************************************************************************)
\* buildCollaborationWebSocketUrl.
ChannelUrl(p, t) == [project |-> p, token |-> t]

\* onCollaborationChannelButtonClicked, while connected; the same when the
\* address of the server is edited while connected, ...
Disconnect ==
  /\ socket = "connected"
  /\ DisconnectFromServer
  /\ wants' = FALSE
  /\ UNCHANGED <<token, project, worldVars>>

\* ... without a token: a reconnect that is under way goes on ...
ClickSignedOut ==
  /\ socket # "connected" /\ token = NoToken
  /\ label' = "sign in first"
  /\ UNCHANGED <<clientVars, heartbeat, listed, token, project, peer, wants, worldVars>>

\* ... and otherwise.
ClickConnect ==
  /\ socket # "connected" /\ token # NoToken
  /\ ConnectToServer(ChannelUrl(project, token))
  /\ wants' = TRUE
  /\ UNCHANGED <<token, project, worldVars>>

\* clearAuthSession.
SignOut ==
  /\ token # NoToken
  /\ token' = NoToken
  /\ IF socket = "connected"
     THEN DisconnectFromServer /\ wants' = FALSE
     ELSE UNCHANGED <<clientVars, heartbeat, listed, label, peer, wants>>
  /\ UNCHANGED <<project, worldVars>>

\* setAuthSession with the token of a login, the reply to which may be one of
\* several under way: the channel is left alone.
SignIn(t) ==
  /\ running
  /\ t \notin issued
  /\ token' = t
  /\ valid' = valid \cup {t}
  /\ issued' = issued \cup {t}
  /\ UNCHANGED <<clientVars, heartbeat, listed, label, project, peer, wants,
                 running, prompt, stops, drops>>

\* openProjectDirectory: the next connection is to the new project's room; the
\* one there is stays, and announces the current file (notifyCurrentFile).
OpenProject(p) ==
  /\ project' = p
  /\ listed' = (listed \/ socket = "connected")
  /\ UNCHANGED <<clientVars, heartbeat, label, token, peer, wants, worldVars>>

-----------------------------------------------------------------------------
(***************************************************************************)
(* The event loop.                                                         *)
(***************************************************************************)
\* reconnectTimer_ fires: openLastUrl.  A handshake on a prompt network ends
\* before a timer that was running when it began.
Timeout ==
  /\ timer
  /\ prompt => socket # "connecting"
  /\ IF enabled /\ ~stopped /\ lastUrl # NoUrl
     THEN /\ UNCHANGED <<lastUrl, enabled, stopped>>
          /\ Reopen(label)
     ELSE /\ timer' = FALSE
          /\ UNCHANGED <<socket, lastUrl, enabled, stopped, heartbeat, listed, label, peer>>
  /\ UNCHANGED <<token, project, wants, worldVars>>

\* The slots for `connected': the client's stops the timer, the panel's starts
\* the heartbeats and sends presence.join.
\* Faulty variant: the timer goes on.
ConnectedOnTimer ==
  /\ socket = "connecting" /\ running
  /\ socket' = "connected"
  /\ peer' = "accepted"
  /\ heartbeat' = TRUE
  /\ label' = Status(TRUE, enabled)
  /\ UNCHANGED <<lastUrl, enabled, stopped, timer, listed, token, project, wants, worldVars>>

Connected ==
  /\ socket = "connecting" /\ running
  /\ socket' = "connected"
  /\ peer' = "accepted"
  /\ timer' = FALSE
  /\ heartbeat' = TRUE
  /\ label' = Status(TRUE, enabled)
  /\ UNCHANGED <<lastUrl, enabled, stopped, listed, token, project, wants, worldVars>>

\* The end of a socket that was not asked for: `disconnected', and
\* `errorOccurred' before or after it.
SocketEnds ==
  /\ socket' = "unconnected"
  /\ peer' = "none"
  /\ UNCHANGED <<lastUrl, enabled, stopped>>
  /\ timer' = Reschedule(timer)
  /\ PanelDisconnected
  /\ label' \in {"error", Status(FALSE, enabled)}
  /\ UNCHANGED <<token, project, wants>>

Drop == drops < MaxDrops /\ drops' = drops + 1

HandshakeFails ==
  /\ socket = "connecting"
  /\ SocketEnds
  /\ IF running THEN Drop ELSE UNCHANGED drops
  /\ UNCHANGED <<valid, running, prompt, issued, stops>>

\* The close frame of the server ...
CloseFrame ==
  /\ socket = "connected" /\ peer = "closed"
  /\ socket' = "closing"
  /\ UNCHANGED <<lastUrl, enabled, stopped, timer, panelVars, peer, wants, worldVars>>

\* ... and the end of the socket after it.
SocketClosed ==
  /\ socket = "closing"
  /\ SocketEnds
  /\ UNCHANGED worldVars

\* A connection that was lost without a word is noticed when a write fails,
\* and the heartbeats are what is written for sure.
LossNoticed ==
  /\ socket = "connected" /\ peer = "lost" /\ heartbeat
  /\ SocketEnds
  /\ UNCHANGED worldVars

\* The roster, and what other members are said to do.
MembersArrive ==
  /\ socket = "connected" /\ peer = "member"
  /\ listed' = TRUE
  /\ UNCHANGED <<clientVars, heartbeat, label, token, project, peer, wants, worldVars>>

-----------------------------------------------------------------------------
(***************************************************************************)
(* The server and the network.                                             *)
(***************************************************************************)
\* handleNewConnection: a token the server knows makes a member ...
Admit ==
  /\ peer = "accepted"
  /\ lastUrl.token \in valid
  /\ peer' = "member"
  /\ UNCHANGED <<clientVars, panelVars, wants, worldVars>>

\* ... and any other ends the connection, after the handshake.
Refuse ==
  /\ peer = "accepted"
  /\ lastUrl.token \notin valid
  /\ peer' = "closed"
  /\ UNCHANGED <<clientVars, panelVars, wants, worldVars>>

NetworkDrops ==
  /\ peer \in {"accepted", "member"} /\ Drop
  /\ peer' \in {"closed", "lost"}
  /\ UNCHANGED <<clientVars, panelVars, wants, valid, running, prompt, issued, stops>>

\* The server process ends, and with it its connections and its tokens.
ServerStops ==
  /\ running /\ stops < MaxStops
  /\ running' = FALSE
  /\ stops' = stops + 1
  /\ valid' = {}
  /\ peer' = IF peer \in {"accepted", "member"} THEN "closed" ELSE peer
  /\ UNCHANGED <<clientVars, panelVars, wants, prompt, issued, drops>>

ServerStarts ==
  /\ ~running
  /\ running' = TRUE
  /\ UNCHANGED <<clientVars, panelVars, peer, wants, valid, prompt, issued, stops, drops>>

NetworkSpeedsUp ==
  /\ ~prompt
  /\ prompt' = TRUE
  /\ UNCHANGED <<clientVars, panelVars, peer, wants, valid, running, issued, stops, drops>>

-----------------------------------------------------------------------------
User ==
  \/ Disconnect
  \/ ClickSignedOut
  \/ ClickConnect
  \/ SignOut
  \/ \E t \in Token : SignIn(t)
  \/ \E p \in Project : OpenProject(p)

EventLoop ==
  \/ Timeout
  \/ Connected
  \/ HandshakeFails
  \/ CloseFrame
  \/ SocketClosed
  \/ LossNoticed
  \/ MembersArrive

World ==
  \/ Admit
  \/ Refuse
  \/ NetworkDrops
  \/ ServerStops
  \/ ServerStarts
  \/ NetworkSpeedsUp

Next == User \/ EventLoop \/ World

Spec == Init /\ [][Next]_vars

\* Timers fire, handshakes and closes come to an end, a heartbeat on a dead
\* connection fails, and the server looks at what it has accepted.
FairSpec ==
  /\ Spec
  /\ WF_vars(Timeout)
  /\ WF_vars(Connected \/ HandshakeFails)
  /\ WF_vars(CloseFrame \/ SocketClosed \/ LossNoticed)
  /\ WF_vars(Admit \/ Refuse)

-----------------------------------------------------------------------------
(***************************************************************************)
(* Correctness.                                                            *)
(***************************************************************************)
\* A user who asked for the channel and did not ask for its end is always on
\* the way back into it: whatever breaks, in whatever order the signals come,
\* there is a connection, an attempt or a timer that leads to one.
WantedIsPursued ==
  wants => timer \/ socket \in {"connecting", "connected", "closing"}

\* A disconnect by the user is final: no socket and no timer is left that
\* could bring the connection back.
DisconnectIsFinal ==
  ~wants => ~timer /\ socket = "none"

\* An open connection is kept alive by heartbeats, is shown as open, and no
\* timer of an earlier attempt is about to abort it.
ConnectedIsServed ==
  socket = "connected" => heartbeat /\ ~timer /\ label = "connected"

\* The panel never claims a connection that is gone, never claims rest while
\* attempts go on, and lists nobody while the client waits to reconnect.
StatusIsTrue ==
  /\ label = "connected" => socket \in {"connected", "closing"}
  /\ label = "offline" => ~timer /\ socket = "none"
  /\ socket = "unconnected" => ~listed /\ ~heartbeat

\* Once the server runs, knows the token and answers within the period of the
\* timer, the client gets into its room and stays there.
Reconnects ==
  <>[](wants /\ running /\ prompt /\ lastUrl \in [project : Project, token : valid])
    => <>[](peer = "member")

=============================================================================
