------------------------------ MODULE LoginDialog ------------------------------
(***************************************************************************)
(* The login dialog of a client, composed with the service it talks to:    *)
(* MainWindow::showLoginDialog, signOut and the slot of authFinished       *)
(* (client/src/app/main_window.cpp), NetworkClient::submitAuth             *)
(* (client/src/network/network_client.cpp) and setAuthSession and          *)
(* clearAuthSession (client/src/collaboration/                             *)
(* collaboration_panel_widget.cpp).                                        *)
(*                                                                         *)
(* A dialog is told of every authFinished, whichever request it is about.  *)
(***************************************************************************)
EXTENDS AuthService

CONSTANTS
  Window,   \* main windows
  NoWindow  \* of a call that was not made

\* Of a window that is not signed in.
NoCall == 0

VARIABLES
  dialog,   \* closed, open, or waiting: open with its buttons disabled
  session,  \* whose token the panel has: the call that was answered with it
  owner,    \* the window a call comes from
  hasty     \* history: whether a dialog was closed while it waited

windowVars == <<dialog, session, owner, hasty>>
dialogVars == <<authVars, windowVars>>

InitDialog ==
  /\ Init
  /\ dialog = [w \in Window |-> "closed"]
  /\ session = [w \in Window |-> NoCall]
  /\ owner = [c \in Call |-> NoWindow]
  /\ hasty = [w \in Window |-> FALSE]

-----------------------------------------------------------------------------
Show(w, state) == dialog' = [dialog EXCEPT ![w] = state]

OpenDialog(w) ==
  /\ dialog[w] = "closed"
  /\ Show(w, "open")
  /\ UNCHANGED <<authVars, session, owner, hasty>>

\* Faulty variant: the buttons are not disabled.
Shown(w) == dialog[w] # "closed"

Enabled(w) == dialog[w] = "open"

\* submit: a click on one of the two buttons.
Click(w, c, kind, n, p) ==
  /\ Enabled(w)
  /\ Show(w, "waiting")
  /\ Submit(c, kind, n, p)
  /\ owner' = [owner EXCEPT ![c] = w]
  /\ UNCHANGED <<session, hasty>>

\* The dialog is closed by the user; its request goes on.
CloseDialog(w) ==
  /\ dialog[w] # "closed"
  /\ Show(w, "closed")
  /\ hasty' = [hasty EXCEPT ![w] = @ \/ dialog[w] = "waiting"]
  /\ UNCHANGED <<authVars, session, owner>>

\* signOut; a dialog that is open blocks the menu.
SignOut(w) ==
  /\ dialog[w] = "closed" /\ session[w] # NoCall
  /\ session' = [session EXCEPT ![w] = NoCall]
  /\ UNCHANGED <<authVars, dialog, owner, hasty>>

\* finishPendingAuth, if the dialog is connected.
\* Faulty variant: only a success is handled.
FinishIfOk(w, ok) ==
  IF dialog[w] = "waiting" /\ ok THEN Show(w, "closed") ELSE UNCHANGED dialog

FinishPendingAuth(w, ok) ==
  IF dialog[w] = "waiting" THEN Show(w, IF ok THEN "closed" ELSE "open") ELSE UNCHANGED dialog

\* authFinished: the slot of the main window, then that of the dialog.
AuthFinished(c) ==
  /\ Deliver(c)
  /\ session' = IF Granted(c) THEN [session EXCEPT ![owner[c]] = c] ELSE session
  /\ FinishPendingAuth(owner[c], Granted(c))
  /\ UNCHANGED <<owner, hasty>>

-----------------------------------------------------------------------------
NextDialog ==
  \/ \E w \in Window :
       \/ OpenDialog(w)
       \/ \E c \in Call, kind \in Kind, n \in Name, p \in Password : Click(w, c, kind, n, p)
       \/ CloseDialog(w)
       \/ SignOut(w)
  \/ \E c \in Call :
       \/ AuthFinished(c)
       \/ (Handle(c) \/ DatabaseFails(c) \/ LoseReply(c)) /\ UNCHANGED windowVars
  \/ ServerRestart /\ UNCHANGED windowVars

SpecDialog == InitDialog /\ [][NextDialog]_dialogVars

\* A handler that has begun goes on, and replies arrive.
FairSpecDialog ==
  /\ SpecDialog
  /\ \A c \in Call :
       WF_dialogVars(Handle(c) /\ UNCHANGED windowVars) /\ WF_dialogVars(AuthFinished(c))

-----------------------------------------------------------------------------
(***************************************************************************)
(* Correctness.                                                            *)
(***************************************************************************)
\* Users who let a dialog end are signed in with the sign-in they made last:
\* no reply to an earlier one takes its place.
SessionIsLatest ==
  \A w \in Window : ~hasty[w] /\ session[w] # NoCall =>
    \A c \in Call : owner[c] = w /\ pc[c] = "done" /\ Granted(c) =>
      c = session[w] \/ c \in before[session[w]]

\* The buttons of a dialog come back, or the dialog is closed, whether the
\* service answers, the database fails or the server restarts.
DialogsEnd == \A w \in Window : dialog[w] = "waiting" ~> dialog[w] # "waiting"
=============================================================================
