------------------------------ MODULE Workbench ------------------------------
(***************************************************************************)
(* The main window of a client around one project                          *)
(* (client/src/app/main_window.cpp): the task runner, the file explorer,   *)
(* the compile page and the open tabs, and what opening another project    *)
(* does to all of them.                                                    *)
(*                                                                         *)
(* There is one thread.  The menu of the explorer and its question for a   *)
(* name are modal: nothing else can be clicked, but processes, timers and  *)
(* the end of a pull, which opens a project, are served.                   *)
(***************************************************************************)
EXTENDS TaskRunner, FileExplorer, CompileAndRun

CONSTANT MaxClicks \* bound: what the user does, and pulls that end

ASSUME BenchAssumption == MaxClicks \in Nat

VARIABLES
  root,      \* currentWorkspaceRoot_
  tabs,      \* projects that open tabs are of, and why they may be of others
  overtaken, \* history: whether the menu or the question that is open is about
             \* a project that is not open
  clicks     \* what the user did so far (bounded)

windowVars == <<root, tabs, overtaken, clicks>>
vars == <<taskVars, explorerVars, compileVars, windowVars>>

Tab == [of : Project \cup {NoProject}, excused : BOOLEAN]

TypeOK ==
  /\ TaskTypeOK /\ ExplorerTypeOK /\ CompileTypeOK
  /\ root \in Project \cup {NoProject}
  /\ tabs \subseteq Tab
  /\ overtaken \in BOOLEAN
  /\ clicks \in Nat

Init ==
  /\ TaskInit /\ ExplorerInit /\ CompileInit
  /\ root = NoProject
  /\ tabs = {}
  /\ overtaken = FALSE
  /\ clicks = 0

-----------------------------------------------------------------------------
Click == clicks < MaxClicks /\ clicks' = clicks + 1

\* No modal loop is running.
Free == asking = "none"

\* A tab for a file of project p; for an excuse, see the callers.
OpenTab(p, excuse) == tabs' = tabs \cup {[of |-> p, excused |-> excuse]}

\* openProject and openProjectDirectory: by the user, or at the end of a pull
\* whatever dialog is open.
\* Faulty variant: the tabs stay open.
LeaveTabs == UNCHANGED tabs

CloseAllTabs == tabs' = {}

OpenProjectDirectory ==
  /\ Click
  /\ \E p \in Project :
       /\ root' = p
       /\ overtaken' = (overtaken \/ (~Free /\ p # root))
       /\ SetProjectRoot(p)
       /\ LoadTasks(p)
       /\ SetWorkspaceRoot(p)
  /\ CloseAllTabs

TaskClick ==
  /\ Free /\ Click /\ TaskClicks
  /\ UNCHANGED <<explorerVars, compileVars, root, tabs, overtaken>>

TaskEvent ==
  /\ TaskEvents
  /\ UNCHANGED <<explorerVars, compileVars, windowVars>>

\* diagnosticOpenRequested
OpenDiagnostic ==
  /\ Free /\ Click
  /\ \E p \in LinkTargets :
       OpenTab(p, ~Expected(p))
  /\ UNCHANGED <<taskVars, explorerVars, compileVars, root, overtaken>>

CompileClick ==
  /\ Free /\ Click /\ CompileClicks
  /\ UNCHANGED <<taskVars, explorerVars, root, tabs, overtaken>>

\* handleDoubleClicked.  Without a project the tree shows the whole file
\* system.
OpenFromTree ==
  /\ Free /\ Click
  /\ OpenTab(shownRoot, astray)
  /\ UNCHANGED <<taskVars, explorerVars, compileVars, root, overtaken>>

OpenMenu ==
  /\ Click /\ ShowContextMenu
  /\ overtaken' = (clicked'[1] # root)
  /\ UNCHANGED <<taskVars, compileVars, root, tabs>>

LeaveDialog ==
  /\ Cancel
  /\ overtaken' = FALSE
  /\ UNCHANGED <<taskVars, compileVars, root, tabs, clicks>>

AskForName ==
  /\ Click /\ Prompt
  /\ UNCHANGED <<taskVars, compileVars, root, tabs, overtaken>>

\* fileOpenRequested opens a new file; a new folder opens nothing.
CreateEntry ==
  /\ \/ CreateFile /\ OpenTab(target[1], overtaken \/ nudged)
     \/ CreateFolder /\ UNCHANGED tabs
  /\ overtaken' = FALSE
  /\ UNCHANGED <<taskVars, compileVars, root, clicks>>

ExplorerTimer ==
  /\ TimerFires
  /\ UNCHANGED <<taskVars, compileVars, windowVars>>

\* saveCurrentFile
SaveCurrentFile ==
  /\ Free /\ Click
  /\ \E t \in tabs :
       /\ (t.of \in Project /\ ChangeSources(t.of)) \/ UNCHANGED compileVars
       /\ (\E d \in Dir : NoteFileChangedOnDisk(<<t.of, d>>)) \/ UNCHANGED explorerVars
  /\ UNCHANGED <<taskVars, root, tabs, overtaken>>

Next ==
  \/ OpenProjectDirectory
  \/ TaskClick \/ TaskEvent \/ OpenDiagnostic
  \/ CompileClick
  \/ OpenFromTree \/ OpenMenu \/ LeaveDialog \/ AskForName \/ CreateEntry \/ ExplorerTimer
  \/ SaveCurrentFile

Spec == Init /\ [][Next]_vars

\* A process that was killed ends.
KilledEnds ==
  /\ process = "killed" /\ ProcessEnds
  /\ UNCHANGED <<explorerVars, compileVars, windowVars>>

FairSpec == Spec /\ WF_vars(KilledEnds)

-----------------------------------------------------------------------------
(***************************************************************************)
(* Correctness.                                                            *)
(***************************************************************************)
\* Every tab is of the open project, except those of a link whose path leads
\* out of the project its run was started in, and those that something left
\* over from an earlier project opened: a link of a run that was on when the
\* project was opened or came up late, a tree a timer put back, a menu or a
\* question that was open meanwhile, a current index a timer moved.
TabsAreOfProject == \A t \in tabs : t.of = root \/ t.excused
=============================================================================
