---------------------------- MODULE FileExplorer ----------------------------
(***************************************************************************)
(* The file explorer of a client                                           *)
(* (client/src/file_explorer/file_explorer_widget.cpp).                    *)
(*                                                                         *)
(* A place is a directory of a project.  The context menu and the question *)
(* for a name run event loops of their own: timers fire and projects are   *)
(* opened meanwhile.                                                       *)
(***************************************************************************)
EXTENDS Projects

CONSTANTS
  Dir,     \* directories of each project
  NoPlace  \* no current index, no place asked for

Place == Project \X Dir

ASSUME ExplorerAssumption == NoPlace \notin Place

VARIABLES
  rootPath,  \* rootPath_
  shownRoot, \* the project the tree shows
  current,   \* the place of the current index
  timers,    \* single shots pending: the place to highlight and savedRoot
  asking,    \* the nested loop: "none", "menu" or "name"
  target,    \* targetDir of the prompt that is open
  clicked,   \* history: the place the menu was opened at
  nudged,    \* history: whether a timer moved the current index under the menu
  astray,    \* history: whether a timer put the tree back to an earlier project
  entries    \* history: places of created entries, with what was asked for

explorerVars ==
  <<rootPath, shownRoot, current, timers, asking, target, clicked, nudged, astray, entries>>

Timer == [at : Place, root : Project]
Entry == [at : Place, asked : Place, excused : BOOLEAN]

ExplorerTypeOK ==
  /\ rootPath \in Project \cup {NoProject}
  /\ shownRoot \in Project \cup {NoProject}
  /\ current \in Place \cup {NoPlace}
  /\ timers \subseteq Timer
  /\ asking \in {"none", "menu", "name"}
  /\ target \in Place \cup {NoPlace}
  /\ clicked \in Place \cup {NoPlace}
  /\ nudged \in BOOLEAN /\ astray \in BOOLEAN
  /\ entries \subseteq Entry

ExplorerInit ==
  /\ rootPath = NoProject /\ shownRoot = NoProject
  /\ current = NoPlace /\ target = NoPlace /\ clicked = NoPlace
  /\ timers = {} /\ entries = {}
  /\ asking = "none"
  /\ nudged = FALSE /\ astray = FALSE

-----------------------------------------------------------------------------
\* The current index is moved, by a timer perhaps while the menu is open.
Highlight(place) ==
  /\ current' = place
  /\ nudged' = (nudged \/ (asking = "menu" /\ place # clicked))

\* setProjectRoot.  The current index stays where it is.
SetProjectRoot(p) ==
  /\ rootPath' = p
  /\ shownRoot' = p
  /\ astray' = FALSE
  /\ UNCHANGED <<current, timers, asking, target, clicked, nudged, entries>>

\* refreshAfterMutation: the tree is put to the root; the new entry, if it is
\* below the root, is made current, as soon as the model knows it and once more
\* in 200 ms.
RefreshAfterMutation(place) ==
  IF rootPath = NoProject THEN UNCHANGED <<shownRoot, astray, timers, current>>
  ELSE /\ shownRoot' = rootPath
       /\ astray' = FALSE
       /\ timers' = timers \cup {[at |-> place, root |-> rootPath]}
       /\ \/ place[1] = rootPath /\ current' = place
          \/ UNCHANGED current

\* The single shot: if the model does not know the entry yet, the tree is put
\* to the root there was 200 ms ago.
TimerFires ==
  \E t \in timers :
    /\ timers' = timers \ {t}
    /\ \/ /\ Highlight(t.at)
          /\ UNCHANGED <<shownRoot, astray>>
       \/ /\ shownRoot' = t.root
          /\ astray' = (t.root # rootPath)
          /\ Highlight(t.at) \/ UNCHANGED <<current, nudged>>
    /\ UNCHANGED <<rootPath, asking, target, clicked, entries>>

\* noteFileChangedOnDisk, for a file that the model does not know.
\* Faulty variant: whether the file is in the open project is not asked.
NoteAnyFile(place) ==
  /\ rootPath # NoProject
  /\ RefreshAfterMutation(place)
  /\ UNCHANGED <<rootPath, asking, target, clicked, nudged, entries>>

NoteFileChangedOnDisk(place) ==
  /\ rootPath # NoProject /\ place[1] = rootPath
  /\ RefreshAfterMutation(place)
  /\ UNCHANGED <<rootPath, asking, target, clicked, nudged, entries>>

\* showContextMenu: what was clicked is made current first.
\* Faulty variant: it is not.
MenuOnCurrent ==
  /\ asking = "none" /\ rootPath # NoProject
  /\ asking' = "menu"
  /\ \E d \in Dir : clicked' \in {<<shownRoot, d>>, <<rootPath, d>>}
  /\ current' = IF current = NoPlace THEN clicked' ELSE current
  /\ nudged' = FALSE
  /\ UNCHANGED <<rootPath, shownRoot, timers, target, astray, entries>>

ShowContextMenu ==
  /\ asking = "none" /\ rootPath # NoProject
  /\ asking' = "menu"
  /\ \E d \in Dir : clicked' \in {<<shownRoot, d>>, <<rootPath, d>>}
  /\ current' = clicked'
  /\ nudged' = FALSE
  /\ UNCHANGED <<rootPath, shownRoot, timers, target, astray, entries>>

\* promptCreateFile and promptCreateFolder: selectedTargetDirectory, then the
\* question for a name.
Prompt ==
  /\ asking = "menu"
  /\ asking' = "name"
  /\ target' = current
  /\ UNCHANGED <<rootPath, shownRoot, current, timers, clicked, nudged, astray, entries>>

\* The menu or the question is left, or the entry cannot be created.
Cancel ==
  /\ asking # "none"
  /\ asking' = "none"
  /\ target' = NoPlace /\ clicked' = NoPlace /\ nudged' = FALSE
  /\ UNCHANGED <<rootPath, shownRoot, current, timers, astray, entries>>

\* An entry is created in the target directory; what is made current is at
\* `highlight'.
Create(highlight) ==
  /\ asking = "name"
  /\ asking' = "none"
  /\ entries' = entries \cup {[at |-> target, asked |-> clicked, excused |-> nudged]}
  /\ RefreshAfterMutation(highlight)
  /\ target' = NoPlace /\ clicked' = NoPlace /\ nudged' = FALSE
  /\ UNCHANGED rootPath

\* createFileInDirectory: a file is at the place of its directory.
CreateFile == Create(target)

\* createFolderInDirectory: a folder is a place of its own.
CreateFolder == \E d \in Dir : Create(<<target[1], d>>)

-----------------------------------------------------------------------------
(***************************************************************************)
(* Correctness.                                                            *)
(***************************************************************************)
\* A new entry lands in the directory the menu was opened at, unless a timer
\* moved the current index while the menu was open.
EntriesLandWhereAsked == \A e \in entries : e.at = e.asked \/ e.excused
=============================================================================
