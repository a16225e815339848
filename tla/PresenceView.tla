----------------------------- MODULE PresenceView -----------------------------
(***************************************************************************)
(* The list of online members a client shows, composed with the rooms of   *)
(* the server: CollaborationPanelWidget::onWebSocketMessage and the apply  *)
(* functions it calls (client/src/collaboration/collaboration_panel_       *)
(* widget.cpp), fed by the messages CollabRoom sends.                      *)
(*                                                                         *)
(* A connection keeps the order of what is sent on it, so a client reads   *)
(* its outbox, and the server what the client reported, from the front and *)
(* each at its own pace.                                                   *)
(***************************************************************************)
EXTENDS CollabRoom

CONSTANT MaxSwitches  \* bound: turns to another tab

ASSUME SwitchesAssumption == MaxSwitches \in Nat

VARIABLES
  peers,    \* remotePeers_: client id -> current file, per open connection
  localId,  \* localClientId_
  inbox,    \* presence.current_file messages on their way to the server
  switches  \* turns to another tab so far (bounded by MaxSwitches)

viewVars == <<peers, localId, inbox, switches>>
allVars  == <<serverVars, viewVars>>

NoRows == [id \in {} |-> NoFile]

InitView ==
  /\ Init
  /\ peers = [c \in Conn |-> NoRows]
  /\ localId = [c \in Conn |-> NoContext]
  /\ inbox = [c \in Conn |-> <<>>]
  /\ switches = 0

-----------------------------------------------------------------------------
\* applyRosterJson: the rows are replaced.
AfterRoster(m) ==
  [id \in {r.clientId : r \in m.members} |-> (CHOOSE r \in m.members : r.clientId = id).file]

\* QHash::insert: the row of id shows f, whether it was there or not.
WithRow(rows, id, f) ==
  [k \in DOMAIN rows \cup {id} |-> IF k = id THEN f ELSE rows[k]]

\* Faulty variant: user_joined is not applied.
IgnoreJoined(rows, me, m) == rows

\* applyUserJoined: a new row without a file; the client's own id is ignored.
AfterJoined(rows, me, m) ==
  IF m.clientId = me THEN rows ELSE WithRow(rows, m.clientId, NoFile)

\* applyUserLeft.
AfterLeft(rows, m) == [id \in DOMAIN rows \ {m.clientId} |-> rows[id]]

\* Faulty variant: only a new row takes the file.
OnlyNewRows(rows, me, m) ==
  IF m.clientId \in {me} \cup DOMAIN rows THEN rows ELSE WithRow(rows, m.clientId, m.file)

\* applyCurrentFileChanged: an unknown peer gets a row, too.
AfterFileChanged(rows, me, m) ==
  IF m.clientId = me THEN rows ELSE WithRow(rows, m.clientId, m.file)

\* onWebSocketMessage, as far as the member list is concerned.
RowsAfter(rows, me, m) ==
  CASE m.type = "presence.roster"               -> AfterRoster(m)
    [] m.type = "presence.user_joined"          -> AfterJoined(rows, me, m)
    [] m.type = "presence.user_left"            -> AfterLeft(rows, m)
    [] m.type = "presence.current_file_changed" -> AfterFileChanged(rows, me, m)
    [] OTHER                                    -> rows

\* notifyCurrentFile: the report is sent, and the client's own row set.
Report(c, me, rows, f) ==
  /\ inbox' = [inbox EXCEPT ![c] = Append(@, f)]
  /\ peers' = [peers EXCEPT ![c] = WithRow(rows, me, f)]

\* A roster also makes the main window report the file of its current tab
\* (collaborationRosterSynced).
Receive(c) ==
  /\ outbox[c] # <<>>
  /\ LET m    == Head(outbox[c])
         rows == RowsAfter(peers[c], localId[c], m)
     IN /\ localId' = [localId EXCEPT ![c] =
             IF m.type = "server.welcome" THEN m.clientId ELSE @]
        /\ \/ /\ m.type = "presence.roster"
              /\ \E f \in File \cup {NoFile} : Report(c, localId[c], rows, f)
           \/ /\ m.type # "presence.roster"
              /\ peers' = [peers EXCEPT ![c] = rows]
              /\ UNCHANGED inbox
  /\ outbox' = [outbox EXCEPT ![c] = Tail(@)]
  /\ UNCHANGED <<roomVars, redisVars, pc, text, to, received, faults, restarts, switches>>

\* The user turns to another tab (onEditorCurrentFileChanged).
SwitchTab(c) ==
  /\ ctx[c] # NoContext /\ c \in rooms[ctx[c].project]
  /\ switches < MaxSwitches
  /\ switches' = switches + 1
  /\ \E f \in File \cup {NoFile} : Report(c, localId[c], peers[c], f)
  /\ UNCHANGED <<roomVars, redisVars, pc, text, to, outbox, received, faults, localId, restarts>>

\* onCollaborationChannelButtonClicked: the client takes the id it asks for as
\* its own until the server's welcome names another one.
Connect(c, p, u, id) ==
  /\ NewConnection(c, p, u, id)
  /\ localId' = [localId EXCEPT ![c] = id]
  /\ UNCHANGED <<peers, inbox, switches>>

\* clearPresenceUi, when the connection is gone.
Disconnect(c) ==
  /\ ConnectionClosed(c)
  /\ peers' = [peers EXCEPT ![c] = NoRows]
  /\ inbox' = [inbox EXCEPT ![c] = <<>>]
  /\ UNCHANGED <<localId, switches>>

LoseServer ==
  /\ ServerRestart
  /\ peers' = [c \in Conn |-> NoRows]
  /\ inbox' = [c \in Conn |-> <<>>]
  /\ UNCHANGED <<localId, switches>>

\* The server takes the next report.
TakeReport(c) ==
  /\ inbox[c] # <<>>
  /\ CurrentFile(c, Head(inbox[c]))
  /\ inbox' = [inbox EXCEPT ![c] = Tail(@)]
  /\ UNCHANGED <<peers, localId, switches>>

RunHandler(c) == Handler(c) /\ UNCHANGED viewVars

NextView ==
  \/ \E c \in Conn :
       \/ Receive(c)
       \/ \E p \in Project, u \in User, id \in ClientId : Connect(c, p, u, id)
       \/ SwitchTab(c)
       \/ TakeReport(c)
       \/ Disconnect(c)
       \/ RunHandler(c)
  \/ LoseServer

SpecView == InitView /\ [][NextView]_allVars

\* Loops finish their callbacks and clients read what arrives.  (Whether a
\* loop ever turns to the next message is not needed.)
FairSpecView ==
  /\ SpecView
  /\ \A c \in Conn : WF_allVars(RunHandler(c)) /\ WF_allVars(Receive(c))

-----------------------------------------------------------------------------
Open(c) == ctx[c] # NoContext /\ c \in rooms[ctx[c].project]

Settled == Quiet /\ \A c \in Conn : outbox[c] = <<>> /\ inbox[c] = <<>>

\* What client c shows, and what the room says.
Shown(c)  == {<<id, peers[c][id]>> : id \in DOMAIN peers[c]}
Actual(c) == {<<ctx[d].clientId, currentFile[d]>> : d \in rooms[ctx[c].project]}

\* When every message has been handled, each client lists exactly the members
\* of its room, each with the file that member reported last.
ViewsMatchRoom == Settled => \A c \in Conn : Open(c) => Shown(c) = Actual(c)

\* The same for the ids alone: nobody online is missing, nobody gone is shown.
OnlineMembersVisible ==
  Settled => \A c \in Conn :
    Open(c) => DOMAIN peers[c] = RoomIds(ctx[c].project)

\* Two members of a room sooner or later see each other, unless one leaves.
MembersSeeEachOther ==
  \A c, d \in Conn :
    c # d /\ Open(c) /\ Open(d) /\ ctx[c].project = ctx[d].project
      ~> \/ ~Open(c) \/ ~Open(d)
         \/ ctx[c].clientId \in DOMAIN peers[d]
=============================================================================
