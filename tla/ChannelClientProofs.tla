------------------------- MODULE ChannelClientProofs -------------------------
(***************************************************************************)
(* Proofs about ChannelClient, for any number of tokens, projects, ends of *)
(* the server and broken connections.                                      *)
(*                                                                         *)
(* The argument: the two flags of the client follow the user's last word.  *)
(* So the slot of `disconnected' starts the timer exactly when the user    *)
(* wants the channel, and the timer, when it fires, opens the last URL.    *)
(***************************************************************************)
EXTENDS ChannelClient, TLAPS

\* What the client remembers of the user's last word.
FlagsFollowUser ==
  /\ wants => enabled /\ ~stopped /\ lastUrl # NoUrl /\ socket # "none"
  /\ ~wants => ~enabled

IInv ==
  /\ TypeOK
  /\ FlagsFollowUser
  /\ WantedIsPursued
  /\ DisconnectIsFinal
  /\ ConnectedIsServed
  /\ StatusIsTrue

-----------------------------------------------------------------------------
LEMMA InitInv == Init => IInv
<1> SUFFICES ASSUME Init
             PROVE  IInv
  OBVIOUS
<1>1. TypeOK
  BY ChannelAssumption DEF Init, TypeOK, ClientTypeOK, PanelTypeOK, WorldTypeOK
<1>2. FlagsFollowUser /\ WantedIsPursued /\ DisconnectIsFinal
  BY DEF Init, FlagsFollowUser, WantedIsPursued, DisconnectIsFinal
<1>3. ConnectedIsServed /\ StatusIsTrue
  BY DEF Init, ConnectedIsServed, StatusIsTrue
<1> QED
  BY <1>1, <1>2, <1>3 DEF IInv

\* The end of a socket nobody asked for: the timer runs if and only if the
\* user wants the channel.
LEMMA SocketEndsInv ==
  ASSUME IInv, SocketEnds, UNCHANGED <<valid, running, prompt, issued, stops>>,
         drops' \in Nat, socket # "none"
  PROVE  IInv'
<1> USE DEF IInv
<1>1. wants /\ enabled /\ ~stopped /\ lastUrl # NoUrl
  BY DEF DisconnectIsFinal, FlagsFollowUser
<1>2. timer' = TRUE /\ label' \in {"error", "reconnecting"} /\ ~heartbeat' /\ ~listed'
  BY <1>1 DEF SocketEnds, Reschedule, Status, PanelDisconnected, TypeOK, ClientTypeOK,
       PanelTypeOK, WorldTypeOK
<1>3. TypeOK'
  BY <1>2 DEF TypeOK, ClientTypeOK, PanelTypeOK, WorldTypeOK, SocketEnds, PanelDisconnected
<1> QED
  BY <1>1, <1>2, <1>3 DEF SocketEnds, PanelDisconnected, FlagsFollowUser, WantedIsPursued,
       DisconnectIsFinal, ConnectedIsServed, StatusIsTrue

\* A new attempt by a client whose flags say that the user wants the channel.
LEMMA ReopenInv ==
  ASSUME IInv, NEW waiting \in {"connecting", "reconnecting", "error", "sign in first"},
         Reopen(waiting), wants' = TRUE, enabled' = TRUE, stopped' = FALSE, lastUrl' \in Url,
         UNCHANGED <<token, project, worldVars>>
  PROVE  IInv'
<1> USE DEF IInv
<1>1. lastUrl' # NoUrl
  BY ChannelAssumption DEF Url
<1>2. /\ socket' = "connecting" /\ peer' = "none" /\ timer' \in BOOLEAN
      /\ label' \in {"connecting", "reconnecting", "error", "sign in first"}
      /\ heartbeat' \in BOOLEAN /\ listed' \in BOOLEAN
  BY DEF Reopen, Reschedule, Status, PanelDisconnected, TypeOK, ClientTypeOK, PanelTypeOK,
       WorldTypeOK
<1>3. TypeOK'
  BY <1>2 DEF TypeOK, ClientTypeOK, PanelTypeOK, WorldTypeOK, worldVars
<1> QED
  BY <1>1, <1>2, <1>3 DEF FlagsFollowUser, WantedIsPursued, DisconnectIsFinal,
       ConnectedIsServed, StatusIsTrue

\* A disconnect that was asked for: nothing is left, whatever the panel heard.
LEMMA DisconnectInv ==
  ASSUME IInv, DisconnectFromServer, wants' = FALSE, token' \in Token \cup {NoToken},
         UNCHANGED <<project, worldVars>>
  PROVE  IInv'
<1> USE DEF IInv
<1>1. label' = "offline" /\ heartbeat' \in BOOLEAN /\ listed' \in BOOLEAN
  BY DEF DisconnectFromServer, Status, PanelDisconnected, TypeOK, ClientTypeOK, PanelTypeOK,
       WorldTypeOK
<1>2. TypeOK'
  BY <1>1 DEF TypeOK, ClientTypeOK, PanelTypeOK, WorldTypeOK, DisconnectFromServer, worldVars
<1> QED
  BY <1>1, <1>2 DEF DisconnectFromServer, FlagsFollowUser, WantedIsPursued,
       DisconnectIsFinal, ConnectedIsServed, StatusIsTrue

\* A step that leaves the client, what the panel shows and the user's wish alone.
LEMMA SameClientInv ==
  ASSUME IInv, UNCHANGED <<clientVars, heartbeat, listed, label, wants>>, TypeOK'
  PROVE  IInv'
<1> USE DEF IInv
<1>1. /\ socket' = socket /\ lastUrl' = lastUrl /\ label' = label
      /\ (enabled' <=> enabled) /\ (stopped' <=> stopped) /\ (timer' <=> timer)
      /\ (heartbeat' <=> heartbeat) /\ (listed' <=> listed) /\ (wants' <=> wants)
  BY DEF clientVars
<1>2. FlagsFollowUser' /\ WantedIsPursued' /\ DisconnectIsFinal'
  BY <1>1 DEF FlagsFollowUser, WantedIsPursued, DisconnectIsFinal
<1>3. ConnectedIsServed' /\ StatusIsTrue'
  BY <1>1 DEF ConnectedIsServed, StatusIsTrue
<1> QED
  BY <1>2, <1>3

-----------------------------------------------------------------------------
LEMMA UserInv == IInv /\ User => IInv'
<1> SUFFICES ASSUME IInv, User
             PROVE  IInv'
  OBVIOUS
<1> USE DEF IInv
<1>1. CASE Disconnect
  BY <1>1, DisconnectInv DEF Disconnect, TypeOK, ClientTypeOK, PanelTypeOK, WorldTypeOK
<1>2. CASE ClickSignedOut
  BY <1>2 DEF ClickSignedOut, clientVars, worldVars, TypeOK, ClientTypeOK, PanelTypeOK,
       WorldTypeOK, FlagsFollowUser, WantedIsPursued, DisconnectIsFinal, ConnectedIsServed,
       StatusIsTrue
<1>3. CASE ClickConnect
  <2>1. ChannelUrl(project, token) \in Url
    BY <1>3 DEF ClickConnect, ChannelUrl, Url, TypeOK, ClientTypeOK, PanelTypeOK, WorldTypeOK
  <2> QED
    BY <1>3, <2>1, ReopenInv DEF ClickConnect, ConnectToServer
<1>4. CASE SignOut
  <2>1. CASE socket = "connected"
    BY <1>4, <2>1, DisconnectInv DEF SignOut
  <2>2. CASE socket # "connected"
    <3>1. UNCHANGED <<clientVars, heartbeat, listed, label, peer, wants, project, worldVars>>
      BY <1>4, <2>2 DEF SignOut
    <3>2. ClientTypeOK' /\ PanelTypeOK'
      BY <1>4, <3>1 DEF SignOut, clientVars, TypeOK, ClientTypeOK, PanelTypeOK
    <3>3. WorldTypeOK'
      BY <3>1 DEF worldVars, TypeOK, WorldTypeOK
    <3> QED
      BY <3>1, <3>2, <3>3, SameClientInv DEF TypeOK
  <2> QED
    BY <2>1, <2>2
<1>5. CASE \E t \in Token : SignIn(t)
  <2>1. UNCHANGED <<clientVars, heartbeat, listed, label, wants>>
    BY <1>5 DEF SignIn
  <2>2. ClientTypeOK' /\ PanelTypeOK'
    BY <1>5, <2>1 DEF SignIn, clientVars, TypeOK, ClientTypeOK, PanelTypeOK
  <2>3. WorldTypeOK'
    BY <1>5 DEF SignIn, TypeOK, WorldTypeOK
  <2> QED
    BY <2>1, <2>2, <2>3, SameClientInv DEF TypeOK
<1>6. CASE \E p \in Project : OpenProject(p)
  <2>1. /\ UNCHANGED <<clientVars, heartbeat, label, token, peer, wants, worldVars>>
        /\ project' \in Project
    BY <1>6 DEF OpenProject
  <2>2. listed' \in BOOLEAN /\ (socket = "unconnected" => (listed' <=> listed))
    BY <1>6 DEF OpenProject, TypeOK, PanelTypeOK
  <2>3. ClientTypeOK' /\ PanelTypeOK'
    BY <2>1, <2>2 DEF clientVars, TypeOK, ClientTypeOK, PanelTypeOK
  <2>4. WorldTypeOK'
    BY <2>1 DEF worldVars, TypeOK, WorldTypeOK
  <2>5. /\ socket' = socket /\ lastUrl' = lastUrl /\ label' = label
        /\ (enabled' <=> enabled) /\ (stopped' <=> stopped) /\ (timer' <=> timer)
        /\ (heartbeat' <=> heartbeat) /\ (wants' <=> wants)
    BY <2>1 DEF clientVars
  <2>6. FlagsFollowUser' /\ WantedIsPursued' /\ DisconnectIsFinal'
    BY <2>5 DEF FlagsFollowUser, WantedIsPursued, DisconnectIsFinal
  <2>7. ConnectedIsServed' /\ StatusIsTrue'
    BY <2>2, <2>5 DEF ConnectedIsServed, StatusIsTrue
  <2> QED
    BY <2>3, <2>4, <2>6, <2>7 DEF TypeOK
<1> QED
  BY <1>1, <1>2, <1>3, <1>4, <1>5, <1>6 DEF User

LEMMA EventLoopInv == IInv /\ EventLoop => IInv'
<1> SUFFICES ASSUME IInv, EventLoop
             PROVE  IInv'
  OBVIOUS
<1> USE DEF IInv
<1>1. CASE Timeout
  <2>1. wants = TRUE /\ enabled /\ ~stopped /\ lastUrl # NoUrl
    BY <1>1 DEF Timeout, DisconnectIsFinal, FlagsFollowUser, TypeOK, ClientTypeOK, PanelTypeOK,
         WorldTypeOK
  <2>2. Reopen(label) /\ UNCHANGED <<lastUrl, enabled, stopped>>
    BY <1>1, <2>1 DEF Timeout
  <2>3. label \in {"connecting", "reconnecting", "error", "sign in first"}
        \/ socket \in {"connected", "closing"}
    BY <1>1 DEF Timeout, TypeOK, ClientTypeOK, PanelTypeOK, WorldTypeOK, StatusIsTrue
  <2>4. CASE label \in {"connecting", "reconnecting", "error", "sign in first"}
    <3>1. enabled' = TRUE /\ stopped' = FALSE /\ lastUrl' \in Url /\ wants' = TRUE
      BY <1>1, <2>1, <2>2 DEF Timeout, TypeOK, ClientTypeOK, PanelTypeOK, WorldTypeOK
    <3> QED
      BY <1>1, <2>2, <2>4, <3>1, ReopenInv DEF Timeout
  <2>5. CASE socket \in {"connected", "closing"}
    <3>1. Reopen("connecting")
      BY <2>2, <2>5 DEF Reopen, Abortable
    <3>2. enabled' = TRUE /\ stopped' = FALSE /\ lastUrl' \in Url /\ wants' = TRUE
      BY <1>1, <2>1, <2>2 DEF Timeout, TypeOK, ClientTypeOK, PanelTypeOK, WorldTypeOK
    <3> QED
      BY <1>1, <3>1, <3>2, ReopenInv DEF Timeout
  <2> QED
    BY <2>3, <2>4, <2>5
<1>2. CASE Connected
  <2>1. label' = "connected"
    BY <1>2 DEF Connected, Status
  <2> QED
    BY <1>2, <2>1 DEF Connected, worldVars, TypeOK, ClientTypeOK, PanelTypeOK, WorldTypeOK,
         FlagsFollowUser, WantedIsPursued, DisconnectIsFinal, ConnectedIsServed, StatusIsTrue
<1>3. CASE HandshakeFails
  <2>1. drops' \in Nat
    <3>1. drops' = drops + 1 \/ drops' = drops
      BY <1>3 DEF HandshakeFails, Drop
    <3>2. drops \in Nat
      BY DEF TypeOK, ClientTypeOK, PanelTypeOK, WorldTypeOK
    <3> QED
      BY <3>1, <3>2
  <2> QED
    BY <1>3, <2>1, SocketEndsInv DEF HandshakeFails
<1>4. CASE CloseFrame
  BY <1>4 DEF CloseFrame, panelVars, worldVars, TypeOK, ClientTypeOK, PanelTypeOK, WorldTypeOK,
       FlagsFollowUser, WantedIsPursued, DisconnectIsFinal, ConnectedIsServed, StatusIsTrue
<1>5. CASE SocketClosed
  BY <1>5, SocketEndsInv DEF SocketClosed, worldVars, TypeOK, ClientTypeOK, PanelTypeOK, WorldTypeOK
<1>6. CASE LossNoticed
  BY <1>6, SocketEndsInv DEF LossNoticed, worldVars, TypeOK, ClientTypeOK, PanelTypeOK, WorldTypeOK
<1>7. CASE MembersArrive
  BY <1>7 DEF MembersArrive, clientVars, worldVars, TypeOK, ClientTypeOK, PanelTypeOK,
       WorldTypeOK, FlagsFollowUser, WantedIsPursued, DisconnectIsFinal, ConnectedIsServed,
       StatusIsTrue
<1> QED
  BY <1>1, <1>2, <1>3, <1>4, <1>5, <1>6, <1>7 DEF EventLoop

\* Nothing the server or the network does touches the client by itself.
LEMMA WorldInv == IInv /\ World => IInv'
<1> SUFFICES ASSUME IInv, World
             PROVE  IInv'
  OBVIOUS
<1> USE DEF IInv
<1>1. UNCHANGED <<clientVars, panelVars, wants>>
  BY DEF World, Admit, Refuse, NetworkDrops, ServerStops, ServerStarts, NetworkSpeedsUp
<1>2. ClientTypeOK' /\ PanelTypeOK'
  BY <1>1 DEF clientVars, panelVars, TypeOK, ClientTypeOK, PanelTypeOK
<1>3. WorldTypeOK'
  <2> USE DEF TypeOK, WorldTypeOK
  <2>1. CASE Admit \/ Refuse
    BY <2>1 DEF Admit, Refuse, worldVars
  <2>2. CASE NetworkDrops
    BY <2>2, ChannelAssumption DEF NetworkDrops, Drop
  <2>3. CASE ServerStops
    <3>1. peer' \in {"none", "accepted", "member", "closed", "lost"}
      BY <2>3 DEF ServerStops
    <3>2. stops' \in Nat /\ valid' = {}
      BY <2>3 DEF ServerStops
    <3>3. running' = FALSE /\ UNCHANGED <<prompt, wants, issued, drops>>
      BY <2>3, <1>1 DEF ServerStops
    <3> QED
      BY <3>1, <3>2, <3>3
  <2>4. CASE ServerStarts
    BY <2>4 DEF ServerStarts
  <2>5. CASE NetworkSpeedsUp
    BY <2>5 DEF NetworkSpeedsUp
  <2> QED
    BY <2>1, <2>2, <2>3, <2>4, <2>5 DEF World
<1> QED
  BY <1>1, <1>2, <1>3, SameClientInv DEF panelVars, TypeOK

-----------------------------------------------------------------------------
\* The invariant holds in every state of every run.
THEOREM Invariant == Spec => []IInv
<1>1. Init => IInv
  BY InitInv
<1>2. IInv /\ [Next]_vars => IInv'
  <2> SUFFICES ASSUME IInv, [Next]_vars
               PROVE  IInv'
    OBVIOUS
  <2>1. CASE UNCHANGED vars
    <3>1. UNCHANGED <<clientVars, panelVars, peer, wants, worldVars>>
      BY <2>1 DEF vars
    <3>2. ClientTypeOK' /\ PanelTypeOK'
      BY <3>1 DEF clientVars, panelVars, IInv, TypeOK, ClientTypeOK, PanelTypeOK
    <3>3. WorldTypeOK'
      BY <3>1 DEF worldVars, IInv, TypeOK, WorldTypeOK
    <3> QED
      BY <3>1, <3>2, <3>3, SameClientInv DEF panelVars, TypeOK
  <2> QED
    BY <2>1, UserInv, EventLoopInv, WorldInv DEF Next
<1> QED
  BY <1>1, <1>2, PTL DEF Spec

\* The state keeps its type (the members of CollaborationWebSocketClient and
\* of the panel).
THEOREM TypeCorrect == Spec => []TypeOK
<1>1. IInv => TypeOK
  BY DEF IInv
<1> QED
  BY <1>1, Invariant, PTL

\* A user who wants the channel is always on the way back into it
\* (scheduleReconnect and openLastUrl).
THEOREM WantedChannelIsPursued == Spec => []WantedIsPursued
<1>1. IInv => WantedIsPursued
  BY DEF IInv
<1> QED
  BY <1>1, Invariant, PTL

\* A disconnect by the user leaves no socket and no timer behind
\* (disconnectFromServer).
THEOREM DisconnectsAreFinal == Spec => []DisconnectIsFinal
<1>1. IInv => DisconnectIsFinal
  BY DEF IInv
<1> QED
  BY <1>1, Invariant, PTL

\* No timer of an earlier attempt is left to abort an open connection (the slot
\* for `connected').
THEOREM ConnectionsAreServed == Spec => []ConnectedIsServed
<1>1. IInv => ConnectedIsServed
  BY DEF IInv
<1> QED
  BY <1>1, Invariant, PTL

\* The panel tells the truth about the channel (updateCollaborationChannelUi).
THEOREM StatusIsTruthful == Spec => []StatusIsTrue
<1>1. IInv => StatusIsTrue
  BY DEF IInv
<1> QED
  BY <1>1, Invariant, PTL

=============================================================================
