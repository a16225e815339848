------------------------------ MODULE LiveEdit ------------------------------
(***************************************************************************)
(* Live editing of one file: the editors of several clients                *)
(* (client/src/editor/editor_tab.cpp, editor_area_widget.cpp), the panel   *)
(* that sends and receives whole texts                                     *)
(* (client/src/collaboration/collaboration_panel_widget.cpp), and the room *)
(* that relays them (server/src/api/collaboration_ws_controller.cpp).      *)
(*                                                                         *)
(* The file has the same relative path in every project.  A text is the    *)
(* number of the edit that produced it.  A client keeps one tab, and its   *)
(* channel stays in the room it was opened for whatever project the client *)
(* shows.  What is on its way between two clients is one queue per pair:   *)
(* a sender's messages keep their order, those of two senders, whose       *)
(* handlers may run on different loops, do not.                            *)
(***************************************************************************)
EXTENDS Naturals, Sequences

CONSTANTS
  Client,      \* running clients
  Project,     \* collaboration projects, each with a copy of the file
  NoRoom,      \* the room of a client without a channel
  Closed,      \* the tab of a client that does not show the file
  Damaged,     \* a file that was truncated and not written to its end
  MaxEdits,    \* bound: edits, by whomever
  MaxSaves,    \* bound: saves, by whomever
  MaxOpens,    \* bound: projects opened after the first
  MaxConnects  \* bound: channels opened

ASSUME EditAssumption ==
  /\ NoRoom \notin Project
  /\ Closed \notin Nat /\ Damaged \notin Nat /\ Closed # Damaged
  /\ MaxEdits \in Nat /\ MaxSaves \in Nat /\ MaxOpens \in Nat /\ MaxConnects \in Nat

VARIABLES
  project,  \* the open project: workspaceRootAbsolute_, collaborationProjectId_
  url,      \* the project of the address the channel keeps to, NoRoom if it
            \* is switched off
  room,     \* the project of the open channel, NoRoom without one
  tab,      \* the text in the editor, Closed if there is no tab
  dirty,    \* dirty_
  disk,     \* the client's own copy of the file, per project
  out,      \* messages sent by a client and not yet read by the server
  pipe,     \* pipe[c][d]: messages of c relayed to d and not yet read by d
  told,     \* the edit whose text the activity list last called too large
  typed,    \* history: the edits so far
  present,  \* history: who was in the room, with a tab, when its last edit
            \* was typed, and has been ever since (nobody, if it was typed
            \* before everything sent earlier had been read)
  strayed,  \* history: whether the client was ever in the room of a project
            \* it did not show
  saves, opens, connects \* how many there were (bounded)

editVars  == <<tab, dirty, disk>>
netVars   == <<out, pipe, told>>
placeVars == <<project, url, room, strayed>>
pastVars  == <<typed, present>>
counts    == <<saves, opens, connects>>
liveVars  == <<editVars, netVars, placeVars, pastVars, counts>>

\* A message with a text of up to 16384 UTF-16 units is "short" or, with more
\* than 32768 bytes, "wide"; an "omitted" one only says that there was a text.
Size    == {"short", "wide", "omitted"}
Room    == Project \cup {NoRoom}
Text    == Nat \cup {Damaged}
EditRec == [by : Client, room : Room, project : Project]
Message == [edit : Nat, size : Size]

TypeOK ==
  /\ project \in [Client -> Project]
  /\ url \in [Client -> Room]
  /\ room \in [Client -> Room]
  /\ tab \in [Client -> Text \cup {Closed}]
  /\ dirty \in [Client -> BOOLEAN]
  /\ disk \in [Client -> [Project -> Text]]
  /\ out \in [Client -> Seq(Message)]
  /\ pipe \in [Client -> [Client -> Seq(Message)]]
  /\ told \in [Client -> Nat]
  /\ typed \in Seq(EditRec)
  /\ present \in [Project -> SUBSET Client]
  /\ strayed \in [Client -> BOOLEAN]
  /\ saves \in Nat /\ opens \in Nat /\ connects \in Nat

\* Text 0 is what all copies of the file have in common.
Init ==
  /\ project \in [Client -> Project]
  /\ url = [c \in Client |-> NoRoom]
  /\ room = [c \in Client |-> NoRoom]
  /\ tab = [c \in Client |-> Closed]
  /\ dirty = [c \in Client |-> FALSE]
  /\ disk = [c \in Client |-> [p \in Project |-> 0]]
  /\ out = [c \in Client |-> <<>>]
  /\ pipe = [c \in Client |-> [d \in Client |-> <<>>]]
  /\ told = [c \in Client |-> 0]
  /\ typed = <<>>
  /\ present = [p \in Project |-> {}]
  /\ strayed = [c \in Client |-> FALSE]
  /\ saves = 0 /\ opens = 0 /\ connects = 0

-----------------------------------------------------------------------------
Connected(c) == room[c] # NoRoom
Shown(c)     == tab[c] # Closed
Members(r)   == {c \in Client : room[c] = r}

\* Nothing that was sent to or by a member of the room is still under way.
CalmRoom(r) ==
  \A c \in Members(r) : out[c] = <<>> /\ \A d \in Client : pipe[d][c] = <<>>

\* Client c is no longer one of those who saw the last edit of its room.
Leaves(c) == present' = [p \in Project |-> present[p] \ {c}]

-----------------------------------------------------------------------------
(***************************************************************************)
(* The editor and the panel of one client.                                 *)
(***************************************************************************)
\* notifyLocalTextEdited: only over an open channel; a text that is too long
\* is left out.
Send(c, e, size) ==
  out' = IF Connected(c) THEN [out EXCEPT ![c] = Append(@, [edit |-> e, size |-> size])] ELSE out

\* textChanged: the tab is dirty, and its whole text goes to the room.
Edit(c) ==
  /\ Shown(c) /\ Len(typed) < MaxEdits
  /\ LET e == Len(typed) + 1 IN
     /\ tab' = [tab EXCEPT ![c] = e]
     /\ \E size \in Size : Send(c, e, size)
  /\ typed' = Append(typed, [by |-> c, room |-> room[c], project |-> project[c]])
  /\ dirty' = [dirty EXCEPT ![c] = TRUE]
  /\ present' = [p \in Project |->
       IF p # room[c] THEN present[p] \ {c}
       ELSE IF CalmRoom(p) THEN {d \in Members(p) : Shown(d)} ELSE {}]
  /\ UNCHANGED <<disk, pipe, told, placeVars, counts>>

\* applyRemoteText, with the editor's signals blocked: no textChanged.
\* Faulty variants: the tab stays clean; the signals are not blocked, and the
\* text goes back to the room as an edit.
ApplyQuietly(c, e) ==
  /\ tab' = [tab EXCEPT ![c] = e]
  /\ UNCHANGED <<dirty, out>>

ApplyAloud(c, e) ==
  /\ tab' = [tab EXCEPT ![c] = e]
  /\ dirty' = [dirty EXCEPT ![c] = TRUE]
  /\ Send(c, e, "short")

ApplyRemoteText(c, e) ==
  /\ tab' = [tab EXCEPT ![c] = e]
  /\ dirty' = [dirty EXCEPT ![c] = TRUE]
  /\ UNCHANGED out

\* onWebSocketMessage.  The text goes to the tab of that name in the project
\* the client shows.
Receive(c, d) ==
  /\ pipe[d][c] # <<>>
  /\ LET m == Head(pipe[d][c]) IN
     IF m.size = "omitted"
     THEN told' = [told EXCEPT ![c] = m.edit] /\ UNCHANGED <<tab, dirty, out>>
     ELSE told' = told /\ IF Shown(c) THEN ApplyRemoteText(c, m.edit) ELSE UNCHANGED <<tab, dirty, out>>
  /\ pipe' = [pipe EXCEPT ![d][c] = Tail(@)]
  /\ UNCHANGED <<disk, placeVars, pastVars, counts>>

\* openFile and loadFile.
OpenFile(c) ==
  /\ ~Shown(c)
  /\ tab' = [tab EXCEPT ![c] = disk[c][project[c]]]
  /\ dirty' = [dirty EXCEPT ![c] = FALSE]
  /\ UNCHANGED <<disk, netVars, placeVars, pastVars, counts>>

\* A tab is closed without a question, whatever it holds.
CloseTab(c) ==
  /\ Shown(c)
  /\ tab' = [tab EXCEPT ![c] = Closed]
  /\ dirty' = [dirty EXCEPT ![c] = FALSE]
  /\ Leaves(c)
  /\ UNCHANGED <<disk, netVars, placeVars, typed, counts>>

\* saveCurrentFile and save: the file is truncated before it is written, and
\* a save that fails leaves the tab as it was.  What is sent about a save holds
\* no text and is only listed by those who get it: it is left out here.
SaveFile(c) ==
  /\ Shown(c) /\ saves < MaxSaves
  /\ saves' = saves + 1
  /\ disk' = [disk EXCEPT ![c][project[c]] = tab[c]]
  /\ dirty' = [dirty EXCEPT ![c] = FALSE]
  /\ UNCHANGED <<tab, netVars, placeVars, pastVars, opens, connects>>

SaveFails(c) ==
  /\ Shown(c) /\ saves < MaxSaves
  /\ saves' = saves + 1
  /\ disk' = [disk EXCEPT ![c][project[c]] = Damaged]
  /\ UNCHANGED <<tab, dirty, netVars, placeVars, pastVars, opens, connects>>

\* openProjectDirectory: all tabs are closed, the channel stays as it is.
\* Faulty variant: the tabs stay open.
KeepTabs(c) == UNCHANGED <<tab, dirty>>

CloseAllTabs(c) ==
  /\ tab' = [tab EXCEPT ![c] = Closed]
  /\ dirty' = [dirty EXCEPT ![c] = FALSE]

OpenProject(c) ==
  /\ opens < MaxOpens
  /\ opens' = opens + 1
  /\ \E p \in Project \ {project[c]} : project' = [project EXCEPT ![c] = p]
  /\ CloseAllTabs(c)
  /\ strayed' = [strayed EXCEPT ![c] = @ \/ Connected(c)]
  /\ Leaves(c)
  /\ UNCHANGED <<disk, netVars, url, room, typed, saves, connects>>

\* The button opens a channel for the open project; the reconnect timer opens
\* the one there was.
Connect(c) ==
  /\ ~Connected(c) /\ connects < MaxConnects
  /\ connects' = connects + 1
  /\ \E r \in {project[c], url[c]} \ {NoRoom} :
       /\ url' = [url EXCEPT ![c] = r]
       /\ room' = [room EXCEPT ![c] = r]
       /\ strayed' = [strayed EXCEPT ![c] = @ \/ r # project[c]]
  /\ UNCHANGED <<editVars, netVars, project, pastVars, saves, opens>>

\* The end of a connection, by the button or because it broke: what is still
\* under way on it is lost, the last edit of the room perhaps among it.
Disconnect(c) ==
  /\ Connected(c)
  /\ room' = [room EXCEPT ![c] = NoRoom]
  /\ url' \in {url, [url EXCEPT ![c] = NoRoom]}
  /\ out' = [out EXCEPT ![c] = <<>>]
  /\ pipe' = [d \in Client |-> [pipe[d] EXCEPT ![c] = <<>>]]
  /\ IF out[c] = <<>> THEN Leaves(c) ELSE present' = [present EXCEPT ![room[c]] = {}]
  /\ UNCHANGED <<editVars, told, project, strayed, typed, counts>>

-----------------------------------------------------------------------------
(***************************************************************************)
(* The room.                                                               *)
(***************************************************************************)
\* What the server makes of a message: a wide text is left out.
\* Faulty variant: the message goes on as if nobody had to be told.
WideDropped(ms, m) == IF m.size = "wide" THEN ms ELSE Append(ms, m)

Relayed(ms, m) ==
  Append(ms, [m EXCEPT !.size = IF @ = "wide" THEN "omitted" ELSE @])

\* Those who get a message of c.
\* Faulty variant: everybody online gets it.
EverybodyElse(c) == {d \in Client : d # c /\ Connected(d)}

Receivers(c) == Members(room[c]) \ {c}

\* handleNewMessage and broadcastToRoom.
Relay(c) ==
  /\ out[c] # <<>>
  /\ out' = [out EXCEPT ![c] = Tail(@)]
  /\ pipe' = [pipe EXCEPT ![c] = [d \in Client |->
       IF d \in Receivers(c) THEN Relayed(@[d], Head(out[c])) ELSE @[d]]]
  /\ UNCHANGED <<editVars, told, placeVars, pastVars, counts>>

-----------------------------------------------------------------------------
User(c) ==
  \/ Edit(c)
  \/ OpenFile(c)
  \/ CloseTab(c)
  \/ SaveFile(c)
  \/ SaveFails(c)
  \/ OpenProject(c)
  \/ Connect(c)

Next ==
  \E c \in Client :
    \/ User(c)
    \/ Disconnect(c)
    \/ Relay(c)
    \/ \E d \in Client : Receive(c, d)

Spec == Init /\ [][Next]_liveVars

-----------------------------------------------------------------------------
(***************************************************************************)
(* Correctness.                                                            *)
(***************************************************************************)
\* A tab that is not marked as changed shows what is on disk, unless a save
\* failed and left the file damaged.
CleanMeansSaved ==
  \A c \in Client :
    Shown(c) /\ ~dirty[c] => disk[c][project[c]] \in {tab[c], Damaged}

\* Whether text t may turn up at client c in project p.
Fits(c, t, p) ==
  t \in DOMAIN typed =>
    \/ typed[t].project = p
    \/ typed[t].room \notin {NoRoom, typed[t].project}
    \/ strayed[c]

\* A text typed in one project is shown in another only if the client that
\* shows it, or the one that typed it, had its channel in the room of a
\* project it did not show.
TextsStayInProject == \A c \in Client : Fits(c, tab[c], project[c])

\* The last edit typed in a room.
LastOf(r, e) ==
  e \in DOMAIN typed /\ typed[e].room = r /\ \A f \in DOMAIN typed : f > e => typed[f].room # r

\* Those who take turns agree: if everything sent before had been read when
\* the last edit of a room was typed, and everything has been read since, then
\* all who were there either show that text or were told it was too large.
TurnTakersAgree ==
  \A p \in Project : \A e \in DOMAIN typed :
    CalmRoom(p) /\ LastOf(p, e) =>
      \A c \in present[p] : tab[c] = e \/ told[c] = e

\* The edits a queue has messages of.
Edits(queue) == {queue[i].edit : i \in DOMAIN queue}

\* A client sends what its own user typed and nothing else: a text that came
\* from the room does not go back to it.
OnlyTypedIsSent == \A c \in Client : \A e \in Edits(out[c]) : typed[e].by = c
=============================================================================
