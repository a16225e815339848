--------------------------- MODULE WorkbenchProofs ---------------------------
(***************************************************************************)
(* Proofs about Workbench, for any projects, directories and number of     *)
(* clicks.                                                                 *)
(*                                                                         *)
(* The argument: each widget has an invariant of its own, which only its   *)
(* own operations can disturb: TaskInv, ExplorerInv and CompileInv.  The   *)
(* window adds that they all are at the project it shows, and what a menu  *)
(* or a question that is open is about.                                    *)
(***************************************************************************)
EXTENDS Workbench, FiniteSetTheorems, TLAPS

-----------------------------------------------------------------------------
(***************************************************************************)
(* The task runner.                                                        *)
(***************************************************************************)
\* A run that can be stopped is on, in time, and nothing else can be started.
StopIsOfLastRun ==
  /\ canRun <=> ~canStop
  /\ canStop => /\ ~canUseTerminal
                /\ process \in {"running", "killed"}
                /\ runs # <<>> /\ ~runs[Len(runs)].late

\* A stop that was asked for stands until the process has ended.
StopStands == stopRequested => canStop /\ process = "killed"

\* While a process is on, the view has no links, and a process that cannot be
\* stopped was given up; the history knows when its project was left.
ProcessIsLastRun ==
  process # "none" =>
    /\ links = {}
    /\ runs # <<>>
    /\ canStop \/ runs[Len(runs)].late
    /\ runs[Len(runs)].root = taskRoot \/ runs[Len(runs)].moved

\* The terminal can be used before the first run that came up in time, and
\* after one that did not: the buffer then has only what was given up.
BufferIsOfRun ==
  /\ canUseTerminal => \A r \in buffer : runs[r].late
  /\ ~canUseTerminal => /\ runs # <<>> /\ ~runs[Len(runs)].late
                        /\ buffer \subseteq {Len(runs)}

TaskInv ==
  /\ TaskTypeOK
  /\ StopIsOfLastRun
  /\ StopStands
  /\ ProcessIsLastRun
  /\ BufferIsOfRun
  /\ LinksAreTrue
  /\ LinksAreOfProject

\* Fields of the runs after one more of them.
LEMMA OneMoreRun ==
  ASSUME NEW s \in Seq(Run), NEW r \in Run
  PROVE  /\ Append(s, r) \in Seq(Run)
         /\ Append(s, r) # <<>>
         /\ Len(Append(s, r)) = Len(s) + 1
         /\ DOMAIN s \subseteq DOMAIN Append(s, r)
         /\ Len(s) + 1 \in DOMAIN Append(s, r)
         /\ Append(s, r)[Len(s) + 1] = r
         /\ \A i \in DOMAIN s : Append(s, r)[i] = s[i]
  OBVIOUS

\* The history of runs once the project of the last one was left.
Moved(s) == [s EXCEPT ![Len(s)].moved = TRUE]

LEMMA LastRunMoved ==
  ASSUME NEW s \in Seq(Run), s # <<>>
  PROVE  /\ Moved(s) \in Seq(Run)
         /\ Moved(s) # <<>>
         /\ Len(Moved(s)) = Len(s)
         /\ DOMAIN Moved(s) = DOMAIN s
         /\ Moved(s)[Len(s)].moved
         /\ \A i \in DOMAIN s : Moved(s)[i].late = s[i].late /\ Moved(s)[i].root = s[i].root
<1> PICK t : t = [s EXCEPT ![Len(s)].moved = TRUE]
  OBVIOUS
<1>1. Len(s) \in DOMAIN s /\ DOMAIN t = DOMAIN s /\ DOMAIN s = 1..Len(s) /\ Len(s) \in Nat
  OBVIOUS
<1>2. \A i \in DOMAIN s : t[i] \in Run /\ t[i].late = s[i].late /\ t[i].root = s[i].root
  <2> SUFFICES ASSUME NEW i \in DOMAIN s
               PROVE  t[i] \in Run /\ t[i].late = s[i].late /\ t[i].root = s[i].root
    OBVIOUS
  <2>1. s[i] \in Run
    OBVIOUS
  <2>2. CASE i = Len(s)
    BY <2>1, <2>2, <1>1 DEF Run
  <2>3. CASE i # Len(s)
    BY <2>1, <2>3, <1>1
  <2> QED
    BY <2>2, <2>3
<1>3. t[Len(s)].moved
  <2>1. s[Len(s)] \in Run
    BY <1>1
  <2> QED
    BY <1>1, <2>1 DEF Run
<1>4. t \in [1..Len(s) -> Run]
  BY <1>1, <1>2
<1>5. t \in Seq(Run) /\ Len(t) = Len(s)
  BY <1>1, <1>4
<1>6. Moved(s) = t
  BY DEF Moved
<1> QED
  BY <1>1, <1>2, <1>3, <1>5, <1>6

LEMMA TaskInitial == TaskInit => TaskInv
<1> SUFFICES ASSUME TaskInit PROVE TaskInv
  OBVIOUS
<1>1. runs = <<>> /\ DOMAIN runs = {} /\ runs \in Seq(Run)
  BY DEF TaskInit
<1>2. TaskTypeOK
  BY <1>1 DEF TaskInit, TaskTypeOK
<1>3. StopIsOfLastRun /\ StopStands /\ ProcessIsLastRun /\ BufferIsOfRun
  BY DEF TaskInit, StopIsOfLastRun, StopStands, ProcessIsLastRun, BufferIsOfRun
<1>4. LinksAreTrue /\ LinksAreOfProject
  BY DEF TaskInit, LinksAreTrue, LinksAreOfProject
<1> QED
  BY <1>2, <1>3, <1>4 DEF TaskInv

\* The four switches are Boolean.
LEMMA Switches ==
  ASSUME TaskTypeOK
  PROVE  /\ stopRequested \in BOOLEAN /\ canRun \in BOOLEAN
         /\ canStop \in BOOLEAN /\ canUseTerminal \in BOOLEAN
  BY DEF TaskTypeOK

LEMMA OutputKeepsTaskInv == TaskInv /\ Output => TaskInv'
<1> SUFFICES ASSUME TaskInv, Output PROVE TaskInv'
  OBVIOUS
<1> USE DEF TaskInv, Output
<1>1. Len(runs) \in DOMAIN runs
  BY DEF ProcessIsLastRun, TaskTypeOK
<1>2. TaskTypeOK'
  BY <1>1 DEF TaskTypeOK
<1>3. StopIsOfLastRun' /\ StopStands' /\ ProcessIsLastRun'
  BY DEF StopIsOfLastRun, StopStands, ProcessIsLastRun
<1>4. BufferIsOfRun'
  BY DEF BufferIsOfRun, ProcessIsLastRun, StopIsOfLastRun
<1>5. LinksAreTrue' /\ LinksAreOfProject'
  BY DEF LinksAreTrue, LinksAreOfProject
<1> QED
  BY <1>2, <1>3, <1>4, <1>5

LEMMA LateStartKeepsTaskInv == TaskInv /\ LateStart => TaskInv'
<1> SUFFICES ASSUME TaskInv, LateStart PROVE TaskInv'
  OBVIOUS
<1> USE DEF TaskInv, LateStart
<1>1. TaskTypeOK'
  BY DEF TaskTypeOK
<1>2. StopIsOfLastRun' /\ StopStands' /\ ProcessIsLastRun'
  BY DEF StopIsOfLastRun, StopStands, ProcessIsLastRun
<1>3. BufferIsOfRun' /\ LinksAreTrue' /\ LinksAreOfProject'
  BY DEF BufferIsOfRun, LinksAreTrue, LinksAreOfProject
<1> QED
  BY <1>1, <1>2, <1>3

\* The summary of a run links what its own output held.
LEMMA ProcessEndsKeepsTaskInv == TaskInv /\ ProcessEnds => TaskInv'
<1> SUFFICES ASSUME TaskInv, ProcessEnds PROVE TaskInv'
  OBVIOUS
<1> USE DEF TaskInv, ProcessEnds, Finished
<1>1. links = {}
  BY DEF ProcessIsLastRun
<1>2. TaskTypeOK'
  BY Switches DEF TaskTypeOK, AppendSummary
<1>3. StopIsOfLastRun' /\ StopStands' /\ ProcessIsLastRun'
  BY DEF StopIsOfLastRun, StopStands, ProcessIsLastRun
<1>4. BufferIsOfRun'
  BY DEF BufferIsOfRun
<1>5. links' # {} => links' = {buffer} /\ diagnostics' = buffer /\ buffer # {}
  BY <1>1 DEF AppendSummary
<1>6. CASE \A r \in buffer : runs[r].late
  <2>1. LinksAreTrue' /\ LinksAreOfProject'
    BY <1>5, <1>6 DEF LinksAreTrue, LinksAreOfProject
  <2> QED
    BY <1>2, <1>3, <1>4, <2>1
<1>7. CASE buffer \subseteq {Len(runs)}
  <2>1. links' # {} => buffer = {Len(runs)}
    BY <1>5, <1>7
  <2>2. Cardinality({Len(runs)}) = 1
    BY FS_Singleton
  <2>3. LinksAreTrue'
    <3> SUFFICES ASSUME NEW s \in links'
                 PROVE  s = diagnostics' /\ Cardinality(s) = 1
      BY DEF LinksAreTrue
    <3>1. s = {Len(runs)} /\ s = diagnostics'
      BY <1>5, <2>1
    <3> QED
      BY <2>2, <3>1
  <2>4. LinksAreOfProject'
    BY <1>5, <2>1 DEF LinksAreOfProject, ProcessIsLastRun
  <2> QED
    BY <1>2, <1>3, <1>4, <2>3, <2>4
<1>8. (\A r \in buffer : runs[r].late) \/ buffer \subseteq {Len(runs)}
  BY DEF BufferIsOfRun
<1> QED
  BY <1>2, <1>3, <1>4, <1>6, <1>7, <1>8

\* Without links nothing has to be shown about them.
LEMMA NoLinks == links = {} => LinksAreTrue /\ LinksAreOfProject
  BY DEF LinksAreTrue, LinksAreOfProject

LEMMA StopKeepsTaskInv == TaskInv /\ StopRunningTask => TaskInv'
<1> SUFFICES ASSUME TaskInv, StopRunningTask PROVE TaskInv'
  OBVIOUS
<1> USE DEF TaskInv, StopRunningTask
<1>1. TaskTypeOK'
  BY Switches DEF TaskTypeOK
<1>2. StopIsOfLastRun' /\ StopStands' /\ ProcessIsLastRun'
  BY DEF StopIsOfLastRun, StopStands, ProcessIsLastRun
<1>3. BufferIsOfRun' /\ LinksAreTrue' /\ LinksAreOfProject'
  BY DEF BufferIsOfRun, LinksAreTrue, LinksAreOfProject
<1> QED
  BY <1>1, <1>2, <1>3

\* What was known of the run that is still on stays true in another project.
LEMMA LoadTasksKeepsTaskInv ==
  ASSUME TaskInv, NEW p \in Project, LoadTasks(p)
  PROVE  TaskInv'
<1> USE DEF TaskInv, LoadTasks
<1>1. LinksAreTrue' /\ LinksAreOfProject'
  BY DEF LinksAreTrue, LinksAreOfProject
<1>2. CASE process = "none"
  <2>1. TaskTypeOK'
    BY <1>2 DEF TaskTypeOK
  <2>2. StopIsOfLastRun' /\ StopStands' /\ ProcessIsLastRun' /\ BufferIsOfRun'
    BY <1>2 DEF StopIsOfLastRun, StopStands, ProcessIsLastRun, BufferIsOfRun
  <2> QED
    BY <1>1, <2>1, <2>2
<1>3. CASE process # "none"
  <2>1. runs \in Seq(Run) /\ runs # <<>> /\ runs' = Moved(runs)
    BY <1>3 DEF ProcessIsLastRun, TaskTypeOK, Moved
  <2>2. /\ runs' \in Seq(Run)
        /\ runs' # <<>>
        /\ Len(runs') = Len(runs)
        /\ DOMAIN runs' = DOMAIN runs
        /\ runs'[Len(runs)].moved
        /\ \A i \in DOMAIN runs : runs'[i].late = runs[i].late
    BY <2>1, LastRunMoved
  <2>3. Len(runs) \in DOMAIN runs
    BY <2>1
  <2>4. runs'[Len(runs')].late = runs[Len(runs)].late
    BY <2>2, <2>3
  <2>5. TaskTypeOK'
    BY <2>2 DEF TaskTypeOK
  <2>6. StopIsOfLastRun' /\ StopStands'
    BY <2>2, <2>4 DEF StopIsOfLastRun, StopStands
  <2>7. ProcessIsLastRun'
    BY <2>2, <2>4 DEF ProcessIsLastRun
  <2>8. BufferIsOfRun'
    BY <2>2, <2>4 DEF BufferIsOfRun, TaskTypeOK
  <2> QED
    BY <1>1, <2>5, <2>6, <2>7, <2>8
<1> QED
  BY <1>2, <1>3

\* A process that was started is the last run, which the fields of the runs
\* before it do not notice.
LEMMA StartedRun ==
  ASSUME TaskTypeOK, NEW outcome \in {"up", "late"}, Starts(outcome)
  PROVE  /\ process = "none"
         /\ process' = IF outcome = "late" THEN "starting" ELSE "running"
         /\ runs' \in Seq(Run)
         /\ runs' # <<>>
         /\ DOMAIN runs \subseteq DOMAIN runs'
         /\ runs'[Len(runs')].root = taskRoot
         /\ runs'[Len(runs')].late <=> outcome = "late"
         /\ \A i \in DOMAIN runs : runs'[i] = runs[i]
<1> DEFINE r == [root |-> taskRoot, late |-> outcome = "late", moved |-> FALSE]
<1>1. process = "none" /\ runs' = Append(runs, r)
  BY DEF Starts
<1>2. process' = IF outcome = "late" THEN "starting" ELSE "running"
  BY DEF Starts
<1>3. r \in Run /\ r.root = taskRoot /\ (r.late <=> outcome = "late")
  BY DEF Run, TaskTypeOK
<1>4. runs \in Seq(Run)
  BY DEF TaskTypeOK
<1> HIDE DEF r
<1>5. /\ runs' \in Seq(Run) /\ runs' # <<>> /\ Len(runs') = Len(runs) + 1
      /\ DOMAIN runs \subseteq DOMAIN runs'
      /\ runs'[Len(runs) + 1] = r
      /\ \A i \in DOMAIN runs : runs'[i] = runs[i]
  BY <1>1, <1>3, <1>4, OneMoreRun
<1> QED
  BY <1>1, <1>2, <1>3, <1>5

\* The buttons after a start.
LEMMA ButtonsSet ==
  ASSUME NEW b \in BOOLEAN, SetTaskRunning(b)
  PROVE  /\ canRun' \in BOOLEAN /\ canStop' \in BOOLEAN /\ canUseTerminal' \in BOOLEAN
         /\ canStop' <=> b
         /\ canRun' <=> ~b
         /\ canUseTerminal' <=> ~b
  BY DEF SetTaskRunning

\* What a start of a process that came up in time establishes.
LEMMA UpKeepsTaskInv ==
  ASSUME TaskInv, Starts("up"), SetTaskRunning(TRUE),
         taskRoot' = taskRoot, buffer' = {}, links' = {},
         diagnostics' = {} \/ diagnostics' = diagnostics,
         stopRequested' \in BOOLEAN, ~stopRequested'
  PROVE  TaskInv'
<1>1. TaskTypeOK
  BY DEF TaskInv
<1>2. /\ process' = "running"
      /\ runs' \in Seq(Run) /\ runs' # <<>>
      /\ DOMAIN runs \subseteq DOMAIN runs'
      /\ runs'[Len(runs')].root = taskRoot
      /\ ~runs'[Len(runs')].late
  BY <1>1, StartedRun
<1>3. /\ canRun' \in BOOLEAN /\ canStop' \in BOOLEAN /\ canUseTerminal' \in BOOLEAN
      /\ canStop' /\ ~canRun' /\ ~canUseTerminal'
  BY ButtonsSet
<1>4. TaskTypeOK'
  <2>1. diagnostics' \subseteq DOMAIN runs'
    BY <1>1, <1>2 DEF TaskTypeOK
  <2> QED
    BY <1>1, <1>2, <1>3, <2>1 DEF TaskTypeOK
<1>5. StopIsOfLastRun' /\ StopStands' /\ ProcessIsLastRun' /\ BufferIsOfRun'
  BY <1>2, <1>3 DEF StopIsOfLastRun, StopStands, ProcessIsLastRun, BufferIsOfRun
<1>6. LinksAreTrue' /\ LinksAreOfProject'
  BY DEF LinksAreTrue, LinksAreOfProject
<1> QED
  BY <1>4, <1>5, <1>6 DEF TaskInv

\* Otherwise nothing can be stopped, and the history has at most one run more,
\* which was given up.
LEMMA NotUpKeepsTaskInv ==
  ASSUME TaskInv, NEW outcome \in {"late", "failed"}, Starts(outcome),
         ~canStop, canRun' \in BOOLEAN, canRun', canStop' \in BOOLEAN, ~canStop',
         canUseTerminal' \in BOOLEAN, canUseTerminal',
         taskRoot' = taskRoot, links' = {},
         diagnostics' = {} \/ diagnostics' = diagnostics,
         buffer' = {} \/ (buffer' = buffer /\ canUseTerminal),
         stopRequested' \in BOOLEAN, ~stopRequested'
  PROVE  TaskInv'
<1>1. TaskTypeOK
  BY DEF TaskInv
<1>2. LinksAreTrue' /\ LinksAreOfProject'
  BY DEF LinksAreTrue, LinksAreOfProject
<1>3. StopStands' /\ StopIsOfLastRun'
  BY DEF StopStands, StopIsOfLastRun
<1>4. buffer' = {} \/ (buffer' = buffer /\ \A r \in buffer : runs[r].late)
  BY DEF TaskInv, BufferIsOfRun
<1>5. CASE outcome = "late"
  <2>1. /\ process' = "starting"
        /\ runs' \in Seq(Run) /\ runs' # <<>>
        /\ DOMAIN runs \subseteq DOMAIN runs'
        /\ runs'[Len(runs')].root = taskRoot
        /\ runs'[Len(runs')].late
        /\ \A i \in DOMAIN runs : runs'[i] = runs[i]
    BY <1>1, <1>5, StartedRun
  <2>2. buffer \subseteq DOMAIN runs
    BY <1>1 DEF TaskTypeOK
  <2>3. \A r \in buffer' : runs'[r].late
    BY <1>4, <2>1, <2>2
  <2>4. TaskTypeOK'
    <3>1. diagnostics' \subseteq DOMAIN runs' /\ buffer' \subseteq DOMAIN runs'
      BY <1>1, <1>4, <2>1, <2>2 DEF TaskTypeOK
    <3> QED
      BY <1>1, <2>1, <3>1 DEF TaskTypeOK
  <2>5. ProcessIsLastRun' /\ BufferIsOfRun'
    BY <2>1, <2>3 DEF ProcessIsLastRun, BufferIsOfRun
  <2> QED
    BY <1>2, <1>3, <2>4, <2>5 DEF TaskInv
<1>6. CASE outcome = "failed"
  <2>1. UNCHANGED <<process, runs>>
    BY <1>6 DEF Starts
  <2>2. TaskTypeOK'
    <3>1. diagnostics' \subseteq DOMAIN runs' /\ buffer' \subseteq DOMAIN runs'
      BY <1>1, <1>4, <2>1 DEF TaskTypeOK
    <3> QED
      BY <1>1, <2>1, <3>1 DEF TaskTypeOK
  <2>3. ProcessIsLastRun'
    BY <2>1 DEF TaskInv, ProcessIsLastRun
  <2>4. BufferIsOfRun'
    BY <1>4, <2>1 DEF BufferIsOfRun
  <2> QED
    BY <1>2, <1>3, <2>2, <2>3, <2>4 DEF TaskInv
<1> QED
  BY <1>5, <1>6

LEMMA RunKeepsTaskInv == TaskInv /\ RunSelectedTask => TaskInv'
<1> SUFFICES ASSUME TaskInv, RunSelectedTask PROVE TaskInv'
  OBVIOUS
<1>1. TaskTypeOK /\ canRun /\ ~canStop /\ taskRoot' = taskRoot
  BY DEF TaskInv, StopIsOfLastRun, RunSelectedTask
<1>2. CASE taskRoot \notin Configured
  <2>1. links' = {} /\ UNCHANGED <<process, runs, buffer, diagnostics, stopRequested, canRun, canStop,
                                   canUseTerminal>>
    BY <1>2 DEF RunSelectedTask
  <2>2. TaskTypeOK'
    BY <1>1, <2>1 DEF TaskTypeOK
  <2>3. StopIsOfLastRun' /\ StopStands' /\ ProcessIsLastRun' /\ BufferIsOfRun'
    BY <1>1, <2>1 DEF TaskInv, StopIsOfLastRun, StopStands, ProcessIsLastRun, BufferIsOfRun
  <2>4. LinksAreTrue' /\ LinksAreOfProject'
    BY <2>1 DEF LinksAreTrue, LinksAreOfProject
  <2> QED
    BY <2>2, <2>3, <2>4 DEF TaskInv
<1>3. CASE taskRoot \in Configured
  <2>1. links' = {} /\ buffer' = {} /\ diagnostics' = {} /\ stopRequested' = FALSE
    BY <1>3 DEF RunSelectedTask
  <2>2. PICK outcome \in {"up", "late", "failed"} :
          Starts(outcome) /\ SetTaskRunning(outcome = "up")
    BY <1>3 DEF RunSelectedTask
  <2>3. CASE outcome = "up"
    <3>1. Starts("up")
      BY <2>2, <2>3
    <3>2. SetTaskRunning(TRUE)
      BY <2>2, <2>3 DEF SetTaskRunning
    <3> QED
      BY <1>1, <2>1, <3>1, <3>2, UpKeepsTaskInv
  <2>4. CASE outcome # "up"
    <3>1. outcome \in {"late", "failed"}
      BY <2>2, <2>4
    <3>2. SetTaskRunning(FALSE)
      BY <2>2, <2>4 DEF SetTaskRunning
    <3>3. /\ canRun' \in BOOLEAN /\ canRun' /\ canStop' \in BOOLEAN /\ ~canStop'
          /\ canUseTerminal' \in BOOLEAN /\ canUseTerminal'
      BY <3>2, ButtonsSet
    <3> QED
      BY <1>1, <2>1, <2>2, <3>1, <3>3, NotUpKeepsTaskInv
  <2> QED
    BY <2>3, <2>4
<1> QED
  BY <1>2, <1>3

LEMMA TerminalKeepsTaskInv == TaskInv /\ RunTerminalCommand => TaskInv'
<1> SUFFICES ASSUME TaskInv, RunTerminalCommand PROVE TaskInv'
  OBVIOUS
<1>1. canUseTerminal /\ canRun /\ UNCHANGED <<taskRoot, diagnostics, stopRequested>>
  BY DEF RunTerminalCommand
<1>2. ~canStop /\ ~stopRequested /\ stopRequested' \in BOOLEAN
  BY <1>1, Switches DEF TaskInv, StopIsOfLastRun, StopStands
<1>3. CASE TerminalUp
  BY <1>1, <1>2, <1>3, UpKeepsTaskInv DEF TerminalUp
<1>4. CASE TerminalNotUp
  <2>1. PICK outcome \in {"late", "failed"} : Starts(outcome)
    BY <1>4 DEF TerminalNotUp
  <2>2. links' = {} /\ UNCHANGED <<buffer, canRun, canStop, canUseTerminal>>
    BY <1>4 DEF TerminalNotUp
  <2>3. canRun' \in BOOLEAN /\ canStop' \in BOOLEAN /\ canUseTerminal' \in BOOLEAN
    BY <2>2, Switches DEF TaskInv
  <2> QED
    BY <1>1, <1>2, <2>1, <2>2, <2>3, NotUpKeepsTaskInv
<1> QED
  BY <1>3, <1>4 DEF RunTerminalCommand

LEMMA TaskKept == TaskInv /\ (TaskClicks \/ TaskEvents \/ UNCHANGED taskVars) => TaskInv'
<1> SUFFICES ASSUME TaskInv, TaskClicks \/ TaskEvents \/ UNCHANGED taskVars PROVE TaskInv'
  OBVIOUS
<1>1. CASE TaskClicks
  BY <1>1, RunKeepsTaskInv, TerminalKeepsTaskInv, StopKeepsTaskInv DEF TaskClicks
<1>2. CASE TaskEvents
  BY <1>2, OutputKeepsTaskInv, LateStartKeepsTaskInv, ProcessEndsKeepsTaskInv DEF TaskEvents
<1>3. CASE UNCHANGED taskVars
  BY <1>3 DEF taskVars, TaskInv, TaskTypeOK, StopIsOfLastRun, StopStands, ProcessIsLastRun,
              BufferIsOfRun, LinksAreTrue, LinksAreOfProject
<1> QED
  BY <1>1, <1>2, <1>3

-----------------------------------------------------------------------------
(***************************************************************************)
(* The file explorer.                                                      *)
(***************************************************************************)
\* Once a project is open the tree shows one, which is another one only if a
\* timer put it there.
TreeAtRoot ==
  /\ rootPath # NoProject => shownRoot # NoProject
  /\ shownRoot = rootPath \/ astray

\* The menu is at the place that was clicked, and so is the question for a
\* name, unless a timer moved the current index in between.
PlaceIsClicked ==
  /\ asking # "none" => rootPath # NoProject /\ clicked \in Place
  /\ asking = "menu" => current \in Place /\ (current = clicked \/ nudged)
  /\ asking = "name" => target \in Place /\ (target = clicked \/ nudged)

ExplorerInv ==
  /\ ExplorerTypeOK
  /\ TreeAtRoot
  /\ PlaceIsClicked
  /\ EntriesLandWhereAsked

LEMMA ExplorerInitial == ExplorerInit => ExplorerInv
  BY DEF ExplorerInit, ExplorerInv, ExplorerTypeOK, TreeAtRoot, PlaceIsClicked, EntriesLandWhereAsked

\* A place is a pair, and no place is none.
LEMMA Places ==
  /\ NoPlace \notin Place
  /\ \A p \in Project, d \in Dir : <<p, d>> \in Place /\ <<p, d>>[1] = p
  /\ \A place \in Place : place[1] \in Project
  BY ExplorerAssumption DEF Place

LEMMA SetProjectRootKeepsExplorerInv ==
  ASSUME ExplorerInv, NEW p \in Project, SetProjectRoot(p)
  PROVE  ExplorerInv'
<1> USE DEF ExplorerInv, SetProjectRoot
<1>1. ExplorerTypeOK'
  BY DEF ExplorerTypeOK
<1>2. TreeAtRoot' /\ PlaceIsClicked' /\ EntriesLandWhereAsked'
  BY ProjectAssumption DEF TreeAtRoot, PlaceIsClicked, EntriesLandWhereAsked
<1> QED
  BY <1>1, <1>2

\* The types after the tree was put to the root.
LEMMA RefreshedTypes ==
  ASSUME ExplorerTypeOK, rootPath \in Project, NEW place \in Place, RefreshAfterMutation(place)
  PROVE  /\ shownRoot' = rootPath /\ astray' = FALSE
         /\ timers' \subseteq Timer
         /\ current' \in {current, place}
  BY ProjectAssumption DEF ExplorerTypeOK, RefreshAfterMutation, Timer

\* Files are saved while no menu and no question is open.
LEMMA NoteKeepsExplorerInv ==
  ASSUME ExplorerInv, asking = "none", NEW place \in Place, NoteFileChangedOnDisk(place)
  PROVE  ExplorerInv'
<1>1. rootPath \in Project
  BY DEF ExplorerInv, ExplorerTypeOK, NoteFileChangedOnDisk
<1>2. /\ shownRoot' = rootPath /\ astray' = FALSE
      /\ timers' \subseteq Timer
      /\ current' \in {current, place}
  BY <1>1, RefreshedTypes DEF ExplorerInv, NoteFileChangedOnDisk
<1>3. UNCHANGED <<rootPath, asking, target, clicked, nudged, entries>>
  BY DEF NoteFileChangedOnDisk
<1>4. ExplorerTypeOK'
  BY <1>1, <1>2, <1>3 DEF ExplorerInv, ExplorerTypeOK
<1>5. TreeAtRoot' /\ PlaceIsClicked' /\ EntriesLandWhereAsked'
  BY <1>1, <1>2, <1>3, ProjectAssumption
     DEF ExplorerInv, TreeAtRoot, PlaceIsClicked, EntriesLandWhereAsked
<1> QED
  BY <1>4, <1>5 DEF ExplorerInv

LEMMA TimerKeepsExplorerInv == ExplorerInv /\ TimerFires => ExplorerInv'
<1> SUFFICES ASSUME ExplorerInv, TimerFires PROVE ExplorerInv'
  OBVIOUS
<1>1. PICK t \in timers :
        /\ timers' = timers \ {t}
        /\ \/ /\ Highlight(t.at)
              /\ UNCHANGED <<shownRoot, astray>>
           \/ /\ shownRoot' = t.root
              /\ astray' = (t.root # rootPath)
              /\ Highlight(t.at) \/ UNCHANGED <<current, nudged>>
        /\ UNCHANGED <<rootPath, asking, target, clicked, entries>>
  BY DEF TimerFires
<1>2. t.at \in Place /\ t.root \in Project
  BY DEF ExplorerInv, ExplorerTypeOK, Timer
<1>3. Highlight(t.at) \/ UNCHANGED <<current, nudged>>
  BY <1>1
<1>4. /\ current' \in Place \cup {NoPlace} /\ nudged' \in BOOLEAN
      /\ nudged => nudged'
      /\ asking = "menu" => current' \in Place /\ (current' = clicked \/ nudged')
  BY <1>2, <1>3 DEF ExplorerInv, ExplorerTypeOK, PlaceIsClicked, Highlight
<1>5. /\ shownRoot' \in Project \cup {NoProject} /\ astray' \in BOOLEAN
      /\ TreeAtRoot'
  BY <1>1, <1>2, ProjectAssumption DEF ExplorerInv, ExplorerTypeOK, TreeAtRoot
<1>6. ExplorerTypeOK'
  BY <1>1, <1>4, <1>5 DEF ExplorerInv, ExplorerTypeOK
<1>7. PlaceIsClicked' /\ EntriesLandWhereAsked'
  BY <1>1, <1>4 DEF ExplorerInv, PlaceIsClicked, EntriesLandWhereAsked
<1> QED
  BY <1>5, <1>6, <1>7 DEF ExplorerInv

LEMMA MenuKeepsExplorerInv == ExplorerInv /\ ShowContextMenu => ExplorerInv'
<1> SUFFICES ASSUME ExplorerInv, ShowContextMenu PROVE ExplorerInv'
  OBVIOUS
<1>1. rootPath \in Project /\ shownRoot \in Project
  BY DEF ExplorerInv, ExplorerTypeOK, TreeAtRoot, ShowContextMenu
<1>2. clicked' \in Place
  BY <1>1, Places DEF ShowContextMenu
<1>3. asking' = "menu" /\ current' = clicked' /\ nudged' = FALSE
      /\ UNCHANGED <<rootPath, shownRoot, timers, target, astray, entries>>
  BY DEF ShowContextMenu
<1>4. ExplorerTypeOK'
  BY <1>2, <1>3 DEF ExplorerInv, ExplorerTypeOK
<1>5. TreeAtRoot' /\ PlaceIsClicked' /\ EntriesLandWhereAsked'
  BY <1>1, <1>2, <1>3, ProjectAssumption
     DEF ExplorerInv, TreeAtRoot, PlaceIsClicked, EntriesLandWhereAsked
<1> QED
  BY <1>4, <1>5 DEF ExplorerInv

LEMMA PromptKeepsExplorerInv == ExplorerInv /\ Prompt => ExplorerInv'
<1> SUFFICES ASSUME ExplorerInv, Prompt PROVE ExplorerInv'
  OBVIOUS
<1> USE DEF ExplorerInv, Prompt
<1>1. ExplorerTypeOK'
  BY DEF ExplorerTypeOK
<1>2. TreeAtRoot' /\ PlaceIsClicked' /\ EntriesLandWhereAsked'
  BY DEF TreeAtRoot, PlaceIsClicked, EntriesLandWhereAsked
<1> QED
  BY <1>1, <1>2

LEMMA CancelKeepsExplorerInv == ExplorerInv /\ Cancel => ExplorerInv'
<1> SUFFICES ASSUME ExplorerInv, Cancel PROVE ExplorerInv'
  OBVIOUS
<1> USE DEF ExplorerInv, Cancel
<1>1. ExplorerTypeOK'
  BY DEF ExplorerTypeOK
<1>2. TreeAtRoot' /\ PlaceIsClicked' /\ EntriesLandWhereAsked'
  BY DEF TreeAtRoot, PlaceIsClicked, EntriesLandWhereAsked
<1> QED
  BY <1>1, <1>2

LEMMA CreateKeepsExplorerInv ==
  ASSUME ExplorerInv, NEW highlight \in Place, Create(highlight)
  PROVE  ExplorerInv'
<1>1. rootPath \in Project /\ target \in Place /\ clicked \in Place /\ (target = clicked \/ nudged)
  BY DEF ExplorerInv, ExplorerTypeOK, PlaceIsClicked, Create
<1>2. /\ shownRoot' = rootPath /\ astray' = FALSE
      /\ timers' \subseteq Timer
      /\ current' \in {current, highlight}
  BY <1>1, RefreshedTypes DEF ExplorerInv, Create
<1>3. /\ asking' = "none" /\ target' = NoPlace /\ clicked' = NoPlace /\ nudged' = FALSE
      /\ entries' = entries \cup {[at |-> target, asked |-> clicked, excused |-> nudged]}
      /\ rootPath' = rootPath
  BY DEF Create
<1>4. entries' \subseteq Entry /\ EntriesLandWhereAsked'
  BY <1>1, <1>3 DEF ExplorerInv, ExplorerTypeOK, EntriesLandWhereAsked, Entry
<1>5. ExplorerTypeOK'
  BY <1>1, <1>2, <1>3, <1>4 DEF ExplorerInv, ExplorerTypeOK
<1>6. TreeAtRoot' /\ PlaceIsClicked'
  BY <1>1, <1>2, <1>3, ProjectAssumption DEF TreeAtRoot, PlaceIsClicked
<1> QED
  BY <1>4, <1>5, <1>6 DEF ExplorerInv

\* A file or a folder that is created is at a place.
LEMMA CreatedAtPlace ==
  ASSUME ExplorerInv, CreateFile \/ CreateFolder
  PROVE  \E highlight \in Place : Create(highlight)
<1>1. target \in Place /\ target[1] \in Project
  BY Places DEF ExplorerInv, PlaceIsClicked, CreateFile, CreateFolder, Create
<1>2. CASE CreateFile
  BY <1>1, <1>2 DEF CreateFile
<1>3. CASE CreateFolder
  <2>1. PICK d \in Dir : Create(<<target[1], d>>)
    BY <1>3 DEF CreateFolder
  <2>2. <<target[1], d>> \in Place
    BY <1>1, Places
  <2> QED
    BY <2>1, <2>2
<1> QED
  BY <1>2, <1>3

LEMMA ExplorerStutters == ExplorerInv /\ UNCHANGED explorerVars => ExplorerInv'
  BY DEF explorerVars, ExplorerInv, ExplorerTypeOK, TreeAtRoot, PlaceIsClicked, EntriesLandWhereAsked

-----------------------------------------------------------------------------
(***************************************************************************)
(* The compile page.                                                       *)
(***************************************************************************)
CompileInv == CompileTypeOK /\ VerdictIsTrue

LEMMA CompileInitial == CompileInit => CompileInv
<1> SUFFICES ASSUME CompileInit PROVE CompileInv
  OBVIOUS
<1>1. /\ compileRoot \in Project \cup {NoProject}
      /\ sources \in [Project -> Nat]
      /\ program \in [Project -> Program \cup {NoProgram}]
  BY DEF CompileInit
<1>2. said \in Verdict /\ checks \subseteq Outcome /\ ran \in Program \cup {NoProgram}
      /\ asked \in Nat /\ cut \in BOOLEAN
  BY DEF CompileInit, Verdict
<1>3. VerdictIsTrue
  BY DEF CompileInit, VerdictIsTrue
<1> QED
  BY <1>1, <1>2, <1>3 DEF CompileInv, CompileTypeOK

LEMMA RunCompileKeepsCompileInv == CompileInv /\ RunCompile => CompileInv'
<1> SUFFICES ASSUME CompileInv, RunCompile PROVE CompileInv'
  OBVIOUS
<1>1. /\ compileRoot \in Project
      /\ asked' = sources[compileRoot] /\ ran' = NoProgram /\ cut' = FALSE
      /\ UNCHANGED <<compileRoot, sources, program>>
  BY CompileAssumption DEF RunCompile
<1>2. asked' \in Nat
  BY <1>1 DEF CompileInv, CompileTypeOK
<1>3. /\ said' \in Verdict \ {"ran well", "ran badly"}
      /\ checks' \subseteq Outcome
      /\ said' = "all complete" => checks' \subseteq {"well", "cut"}
  <2>1. CASE \E verdict \in {"nothing", "no compiler"} : Say(verdict) /\ checks' = {}
    BY <2>1 DEF Say, Verdict
  <2>2. ASSUME NEW ends \in [Kind -> Outcome],
               checks' = {ends[k] : k \in Kind},
               Say(IF AllOk(ends) THEN "all complete" ELSE "with errors")
        PROVE  /\ said' \in Verdict \ {"ran well", "ran badly"}
               /\ checks' \subseteq Outcome
               /\ said' = "all complete" => checks' \subseteq {"well", "cut"}
    BY <2>2 DEF Say, Verdict, AllOk, Reported
  <2> QED
    BY <2>1, <2>2 DEF RunCompile
<1>4. CompileTypeOK'
  BY <1>1, <1>2, <1>3 DEF CompileInv, CompileTypeOK
<1> QED
  BY <1>3, <1>4 DEF CompileInv, VerdictIsTrue

\* What a linker leaves is a program or none, and, if it ended well, the
\* program of the sources.
LEMMA LinkedIs ==
  ASSUME CompileTypeOK, compileRoot \in Project,
         NEW outcome \in Outcome,
         NEW before \in Program \cup {NoProgram},
         NEW after \in Linked(outcome, before)
  PROVE  /\ after \in Program \cup {NoProgram}
         /\ outcome = "well" => after = [of |-> sources[compileRoot], whole |-> TRUE]
<1>1. PICK version \in Nat : version = sources[compileRoot]
  BY DEF CompileTypeOK
<1>2. \A whole \in BOOLEAN : [of |-> version, whole |-> whole] \in Program
  BY DEF Program
<1>3. CASE outcome = "well"
  BY <1>1, <1>2, <1>3 DEF Linked
<1>4. CASE outcome = "cut"
  BY <1>1, <1>2, <1>4 DEF Linked
<1>5. CASE outcome \notin {"well", "cut"}
  BY <1>5 DEF Linked
<1> QED
  BY <1>3, <1>4, <1>5

\* What the page says of a program that was run.
LEMMA RanSays ==
  ASSUME NEW prog, Ran(prog)
  PROVE  /\ ran' = prog
         /\ said' \in {"ran well", "ran badly"}
         /\ checks' \subseteq Outcome
         /\ said' = "ran well" => checks' \subseteq {"well", "cut"}
<1>1. PICK end \in Outcome \ {"no start"} :
        checks' = {end} /\ said' = IF Reported(end) THEN "ran well" ELSE "ran badly"
  BY DEF Ran, Say
<1> QED
  BY <1>1 DEF Ran, Reported

LEMMA RunProgramKeepsCompileInv == CompileInv /\ RunWorkspaceProgram => CompileInv'
<1> SUFFICES ASSUME CompileInv, RunWorkspaceProgram PROVE CompileInv'
  OBVIOUS
<1>1. /\ compileRoot \in Project
      /\ asked' = sources[compileRoot]
      /\ UNCHANGED <<compileRoot, sources>>
  BY CompileAssumption DEF RunWorkspaceProgram
<1>2. asked' \in Nat /\ program[compileRoot] \in Program \cup {NoProgram}
  BY <1>1 DEF CompileInv, CompileTypeOK
<1>3. CASE /\ \E verdict \in {"nothing", "no compiler"} : Say(verdict)
           /\ checks' = {} /\ ran' = NoProgram /\ cut' = FALSE
           /\ UNCHANGED program
  <2>1. CompileTypeOK'
    BY <1>1, <1>2, <1>3 DEF CompileInv, CompileTypeOK, Say, Verdict
  <2>2. VerdictIsTrue'
    BY <1>3 DEF VerdictIsTrue, Say
  <2> QED
    BY <2>1, <2>2 DEF CompileInv
<1>4. ASSUME NEW before \in {program[compileRoot], NoProgram}, NEW outcome \in Outcome,
             NEW after \in Linked(outcome, before),
             program' = [program EXCEPT ![compileRoot] = after],
             cut' = (outcome = "cut"),
             IF ~MayRun(outcome)
             THEN Say("not linked") /\ ran' = NoProgram /\ checks' = {}
             ELSE \/ Say("no start") /\ ran' = NoProgram /\ checks' = {}
                  \/ after # NoProgram /\ Ran(after)
      PROVE  CompileInv'
  <2>1. /\ after \in Program \cup {NoProgram}
        /\ outcome = "well" => after = [of |-> sources[compileRoot], whole |-> TRUE]
    BY <1>1, <1>2, LinkedIs DEF CompileInv
  <2>2. program' \in [Project -> Program \cup {NoProgram}]
    BY <1>1, <1>4, <2>1 DEF CompileInv, CompileTypeOK
  <2>3. CASE said' \in {"not linked", "no start"} /\ ran' = NoProgram /\ checks' = {}
    <3>1. said' \in Verdict
      BY <2>3 DEF Verdict
    <3>2. CompileTypeOK'
      BY <1>1, <1>2, <1>4, <2>2, <2>3, <3>1 DEF CompileInv, CompileTypeOK
    <3>3. VerdictIsTrue'
      BY <2>3 DEF VerdictIsTrue
    <3> QED
      BY <3>2, <3>3 DEF CompileInv
  <2>4. CASE MayRun(outcome) /\ Ran(after)
    <3>1. /\ ran' = after
          /\ said' \in {"ran well", "ran badly"}
          /\ checks' \subseteq Outcome
          /\ said' = "ran well" => checks' \subseteq {"well", "cut"}
      BY <2>4, RanSays
    <3>2. said' \in Verdict
      BY <3>1 DEF Verdict
    <3>3. CompileTypeOK'
      BY <1>1, <1>2, <1>4, <2>1, <2>2, <3>1, <3>2 DEF CompileInv, CompileTypeOK
    <3>4. cut' \/ ran' = [of |-> asked', whole |-> TRUE]
      BY <1>1, <1>4, <2>1, <2>4, <3>1 DEF MayRun, Reported
    <3>5. VerdictIsTrue'
      BY <3>1, <3>4 DEF VerdictIsTrue
    <3> QED
      BY <3>3, <3>5 DEF CompileInv
  <2>5. \/ said' \in {"not linked", "no start"} /\ ran' = NoProgram /\ checks' = {}
        \/ MayRun(outcome) /\ Ran(after)
    BY <1>4 DEF Say
  <2> QED
    BY <2>3, <2>4, <2>5
<1> QED
  BY <1>3, <1>4 DEF RunWorkspaceProgram

LEMMA CompileKept == CompileInv /\ (CompileClicks \/ UNCHANGED compileVars) => CompileInv'
<1> SUFFICES ASSUME CompileInv, CompileClicks \/ UNCHANGED compileVars PROVE CompileInv'
  OBVIOUS
<1>1. CASE CompileClicks
  BY <1>1, RunCompileKeepsCompileInv, RunProgramKeepsCompileInv DEF CompileClicks
<1>2. CASE UNCHANGED compileVars
  BY <1>2 DEF compileVars, CompileInv, CompileTypeOK, VerdictIsTrue
<1> QED
  BY <1>1, <1>2

LEMMA OtherKeepsCompileInv ==
  ASSUME CompileInv, NEW p \in Project, SetWorkspaceRoot(p) \/ ChangeSources(p)
  PROVE  CompileInv'
<1>1. CompileTypeOK'
  BY DEF CompileInv, CompileTypeOK, SetWorkspaceRoot, ChangeSources
<1>2. VerdictIsTrue'
  BY DEF CompileInv, VerdictIsTrue, SetWorkspaceRoot, ChangeSources
<1> QED
  BY <1>1, <1>2 DEF CompileInv

-----------------------------------------------------------------------------
(***************************************************************************)
(* The main window.                                                        *)
(***************************************************************************)
WindowTypeOK ==
  /\ root \in Project \cup {NoProject}
  /\ tabs \subseteq Tab
  /\ overtaken \in BOOLEAN
  /\ clicks \in Nat

\* Every widget is at the project of the window.
SameRoot == taskRoot = root /\ rootPath = root /\ compileRoot = root

\* The menu or the question that is open is about the open project, or a
\* project was opened meanwhile, or a timer moved the current index.
DialogIsOfProject ==
  /\ asking = "menu" => clicked[1] = root \/ overtaken
  /\ asking = "name" => target[1] = root \/ overtaken \/ nudged

WindowInv == WindowTypeOK /\ SameRoot /\ DialogIsOfProject /\ TabsAreOfProject

IInv == TaskInv /\ ExplorerInv /\ CompileInv /\ WindowInv

LEMMA Initial == Init => IInv
<1> SUFFICES ASSUME Init PROVE IInv
  OBVIOUS
<1>1. TaskInv /\ ExplorerInv /\ CompileInv
  BY TaskInitial, ExplorerInitial, CompileInitial DEF Init
<1>2. WindowTypeOK /\ TabsAreOfProject
  BY BenchAssumption DEF Init, WindowTypeOK, TabsAreOfProject
<1>3. SameRoot /\ DialogIsOfProject
  BY DEF Init, TaskInit, ExplorerInit, CompileInit, SameRoot, DialogIsOfProject
<1> QED
  BY <1>1, <1>2, <1>3 DEF IInv, WindowInv

\* A tab that is of the open project, or has an excuse, disturbs nothing.
LEMMA TabOpens ==
  ASSUME WindowInv, NEW p \in Project \cup {NoProject}, NEW excuse \in BOOLEAN,
         OpenTab(p, excuse), p = root \/ excuse, root' = root
  PROVE  tabs' \subseteq Tab /\ TabsAreOfProject'
<1>1. [of |-> p, excused |-> excuse] \in Tab
  BY DEF Tab
<1>2. tabs' \subseteq Tab
  BY <1>1 DEF WindowInv, WindowTypeOK, OpenTab
<1>3. TabsAreOfProject'
  <2> SUFFICES ASSUME NEW t \in tabs' PROVE t.of = root \/ t.excused
    BY DEF TabsAreOfProject
  <2>1. CASE t \in tabs
    BY <2>1 DEF WindowInv, TabsAreOfProject
  <2>2. CASE t = [of |-> p, excused |-> excuse]
    BY <2>2
  <2> QED
    BY <2>1, <2>2 DEF OpenTab
<1> QED
  BY <1>2, <1>3

LEMMA ClickCounts == WindowTypeOK /\ Click => clicks' \in Nat
  BY DEF WindowTypeOK, Click

\* A step that leaves the widgets' roots and the dialog alone.
LEMMA WindowStays ==
  ASSUME WindowInv,
         UNCHANGED <<root, overtaken, taskRoot, rootPath, compileRoot, asking, clicked, target>>,
         nudged => nudged', clicks' \in Nat, tabs' \subseteq Tab, TabsAreOfProject'
  PROVE  WindowInv'
  BY DEF WindowInv, WindowTypeOK, SameRoot, DialogIsOfProject

LEMMA SameTabs == WindowInv /\ UNCHANGED <<root, tabs>> => tabs' \subseteq Tab /\ TabsAreOfProject'
  BY DEF WindowInv, WindowTypeOK, TabsAreOfProject

LEMMA OpenProjectKeepsInv == IInv /\ OpenProjectDirectory => IInv'
<1> SUFFICES ASSUME IInv, OpenProjectDirectory PROVE IInv'
  OBVIOUS
<1>1. PICK p \in Project :
        /\ root' = p
        /\ overtaken' = (overtaken \/ (~Free /\ p # root))
        /\ SetProjectRoot(p) /\ LoadTasks(p) /\ SetWorkspaceRoot(p)
  BY DEF OpenProjectDirectory
<1>2. TaskInv' /\ ExplorerInv' /\ CompileInv'
  BY <1>1, LoadTasksKeepsTaskInv, SetProjectRootKeepsExplorerInv, OtherKeepsCompileInv DEF IInv
<1>3. tabs' = {} /\ clicks' \in Nat
  BY ClickCounts DEF IInv, WindowInv, OpenProjectDirectory, CloseAllTabs
<1>4. SameRoot'
  BY <1>1 DEF SameRoot, SetProjectRoot, LoadTasks, SetWorkspaceRoot
<1>5. DialogIsOfProject'
  <2>1. UNCHANGED <<asking, clicked, target, nudged>>
    BY <1>1 DEF SetProjectRoot
  <2>2. asking = "none" \/ overtaken' \/ (root' = root /\ (overtaken => overtaken'))
    BY <1>1 DEF Free
  <2> QED
    BY <2>1, <2>2 DEF IInv, WindowInv, DialogIsOfProject
<1>6. WindowTypeOK' /\ TabsAreOfProject'
  BY <1>1, <1>3 DEF IInv, WindowInv, WindowTypeOK, TabsAreOfProject
<1> QED
  BY <1>2, <1>4, <1>5, <1>6 DEF IInv, WindowInv

LEMMA TaskClickKeepsInv == IInv /\ (TaskClick \/ TaskEvent) => IInv'
<1> SUFFICES ASSUME IInv, TaskClick \/ TaskEvent PROVE IInv'
  OBVIOUS
<1>1. TaskClicks \/ TaskEvents
  BY DEF TaskClick, TaskEvent
<1>2. UNCHANGED <<explorerVars, compileVars, root, tabs, overtaken>> /\ clicks' \in Nat
  BY ClickCounts DEF IInv, WindowInv, WindowTypeOK, TaskClick, TaskEvent, windowVars
<1>3. TaskInv' /\ ExplorerInv' /\ CompileInv'
  BY <1>1, <1>2, TaskKept, ExplorerStutters, CompileKept DEF IInv
<1>4. taskRoot' = taskRoot
  BY <1>1 DEF TaskClicks, TaskEvents, RunSelectedTask, RunTerminalCommand, StopRunningTask,
              Output, LateStart, ProcessEnds
<1>5. tabs' \subseteq Tab /\ TabsAreOfProject'
  BY <1>2, SameTabs DEF IInv
<1>6. UNCHANGED <<rootPath, compileRoot, asking, clicked, target, nudged>>
  BY <1>2 DEF explorerVars, compileVars
<1> QED
  BY <1>2, <1>3, <1>4, <1>5, <1>6, WindowStays DEF IInv

\* A link leads to a file of some project or of none, and where it is expected
\* to lead is the open project.
LEMMA LinkLeads ==
  ASSUME TaskInv, NEW p \in LinkTargets
  PROVE  /\ p \in Project \cup {NoProject}
         /\ Expected(p) => p = taskRoot
<1>1. LinksAreTrue /\ LinksAreOfProject
  BY DEF TaskInv
<1>2. links # {} /\ p \in Project \cup {NoProject}
  BY DEF LinkTargets
<1>3. diagnostics \in links
  BY <1>1, <1>2 DEF LinksAreTrue
<1>4. ASSUME Expected(p) PROVE p = taskRoot
  <2>1. PICK r \in diagnostics : runs[r].root = p
    BY <1>4 DEF Expected
  <2>2. \A q \in diagnostics : ~runs[q].moved /\ ~runs[q].late
    BY <1>4 DEF Expected
  <2> QED
    BY <1>1, <1>3, <2>1, <2>2 DEF LinksAreOfProject
<1> QED
  BY <1>2, <1>4

LEMMA DiagnosticKeepsInv == IInv /\ OpenDiagnostic => IInv'
<1> SUFFICES ASSUME IInv, OpenDiagnostic PROVE IInv'
  OBVIOUS
<1>1. PICK p \in LinkTargets : OpenTab(p, ~Expected(p))
  BY DEF OpenDiagnostic
<1>2. UNCHANGED <<taskVars, explorerVars, compileVars, root, overtaken>> /\ clicks' \in Nat
  BY ClickCounts DEF OpenDiagnostic, IInv, WindowInv
<1>3. p \in Project \cup {NoProject} /\ (p = root \/ ~Expected(p))
  BY LinkLeads DEF IInv, WindowInv, SameRoot
<1>4. (~Expected(p)) \in BOOLEAN
  OBVIOUS
<1>5. tabs' \subseteq Tab /\ TabsAreOfProject'
  BY <1>1, <1>2, <1>3, <1>4, TabOpens DEF IInv
<1>6. TaskInv' /\ ExplorerInv' /\ CompileInv'
  BY <1>2, TaskKept, ExplorerStutters, CompileKept DEF IInv
<1>7. UNCHANGED <<taskRoot, rootPath, compileRoot, asking, clicked, target, nudged>>
  BY <1>2 DEF taskVars, explorerVars, compileVars
<1> QED
  BY <1>2, <1>5, <1>6, <1>7, WindowStays DEF IInv

LEMMA CompileClickKeepsInv == IInv /\ CompileClick => IInv'
<1> SUFFICES ASSUME IInv, CompileClick PROVE IInv'
  OBVIOUS
<1>1. UNCHANGED <<taskVars, explorerVars, root, tabs, overtaken>> /\ clicks' \in Nat
  BY ClickCounts DEF CompileClick, IInv, WindowInv
<1>2. TaskInv' /\ ExplorerInv' /\ CompileInv'
  BY <1>1, TaskKept, ExplorerStutters, CompileKept DEF IInv, CompileClick
<1>3. compileRoot' = compileRoot
  BY DEF CompileClick, CompileClicks, RunCompile, RunWorkspaceProgram
<1>4. tabs' \subseteq Tab /\ TabsAreOfProject'
  BY <1>1, SameTabs DEF IInv
<1>5. UNCHANGED <<taskRoot, rootPath, asking, clicked, target, nudged>>
  BY <1>1 DEF taskVars, explorerVars
<1> QED
  BY <1>1, <1>2, <1>3, <1>4, <1>5, WindowStays DEF IInv

LEMMA TreeKeepsInv == IInv /\ OpenFromTree => IInv'
<1> SUFFICES ASSUME IInv, OpenFromTree PROVE IInv'
  OBVIOUS
<1>1. OpenTab(shownRoot, astray)
      /\ UNCHANGED <<taskVars, explorerVars, compileVars, root, overtaken>> /\ clicks' \in Nat
  BY ClickCounts DEF OpenFromTree, IInv, WindowInv
<1>2. /\ shownRoot \in Project \cup {NoProject} /\ astray \in BOOLEAN
      /\ shownRoot = root \/ astray
  BY DEF IInv, ExplorerInv, ExplorerTypeOK, TreeAtRoot, WindowInv, SameRoot
<1>3. tabs' \subseteq Tab /\ TabsAreOfProject'
  BY <1>1, <1>2, TabOpens DEF IInv
<1>4. TaskInv' /\ ExplorerInv' /\ CompileInv'
  BY <1>1, TaskKept, ExplorerStutters, CompileKept DEF IInv
<1>5. UNCHANGED <<taskRoot, rootPath, compileRoot, asking, clicked, target, nudged>>
  BY <1>1 DEF taskVars, explorerVars, compileVars
<1> QED
  BY <1>1, <1>3, <1>4, <1>5, WindowStays DEF IInv

LEMMA MenuKeepsInv == IInv /\ OpenMenu => IInv'
<1> SUFFICES ASSUME IInv, OpenMenu PROVE IInv'
  OBVIOUS
<1>1. /\ ShowContextMenu
      /\ overtaken' = (clicked'[1] # root)
      /\ UNCHANGED <<taskVars, compileVars, root, tabs>> /\ clicks' \in Nat
  BY ClickCounts DEF OpenMenu, IInv, WindowInv
<1>2. TaskInv' /\ ExplorerInv' /\ CompileInv'
  BY <1>1, TaskKept, MenuKeepsExplorerInv, CompileKept DEF IInv
<1>3. asking' = "menu" /\ rootPath' = rootPath
  BY <1>1 DEF ShowContextMenu
<1>4. DialogIsOfProject'
  BY <1>1, <1>3 DEF DialogIsOfProject
<1>5. SameRoot'
  BY <1>1, <1>3 DEF IInv, WindowInv, SameRoot, taskVars, compileVars
<1>6. tabs' \subseteq Tab /\ TabsAreOfProject'
  BY <1>1, SameTabs DEF IInv
<1>7. WindowTypeOK'
  BY <1>1, <1>6 DEF IInv, WindowInv, WindowTypeOK
<1> QED
  BY <1>2, <1>4, <1>5, <1>6, <1>7 DEF IInv, WindowInv

\* After the dialog was left, or the entry created, none is open.
LEMMA DialogEnds ==
  ASSUME WindowInv, asking' = "none", overtaken' = FALSE,
         UNCHANGED <<root, taskRoot, rootPath, compileRoot, clicks>>,
         tabs' \subseteq Tab, TabsAreOfProject'
  PROVE  WindowInv'
  BY DEF WindowInv, WindowTypeOK, SameRoot, DialogIsOfProject

LEMMA LeaveKeepsInv == IInv /\ LeaveDialog => IInv'
<1> SUFFICES ASSUME IInv, LeaveDialog PROVE IInv'
  OBVIOUS
<1>1. Cancel /\ overtaken' = FALSE /\ UNCHANGED <<taskVars, compileVars, root, tabs, clicks>>
  BY DEF LeaveDialog
<1>2. TaskInv' /\ ExplorerInv' /\ CompileInv'
  BY <1>1, TaskKept, CancelKeepsExplorerInv, CompileKept DEF IInv
<1>3. asking' = "none" /\ UNCHANGED <<rootPath, taskRoot, compileRoot>>
  BY <1>1 DEF Cancel, taskVars, compileVars
<1>4. tabs' \subseteq Tab /\ TabsAreOfProject'
  BY <1>1, SameTabs DEF IInv
<1> QED
  BY <1>1, <1>2, <1>3, <1>4, DialogEnds DEF IInv

LEMMA AskKeepsInv == IInv /\ AskForName => IInv'
<1> SUFFICES ASSUME IInv, AskForName PROVE IInv'
  OBVIOUS
<1>1. Prompt /\ UNCHANGED <<taskVars, compileVars, root, tabs, overtaken>> /\ clicks' \in Nat
  BY ClickCounts DEF AskForName, IInv, WindowInv
<1>2. TaskInv' /\ ExplorerInv' /\ CompileInv'
  BY <1>1, TaskKept, PromptKeepsExplorerInv, CompileKept DEF IInv
<1>3. /\ asking = "menu" /\ asking' = "name" /\ target' = current
      /\ UNCHANGED <<rootPath, clicked, nudged>>
  BY <1>1 DEF Prompt
<1>4. DialogIsOfProject'
  BY <1>1, <1>3 DEF IInv, ExplorerInv, PlaceIsClicked, WindowInv, DialogIsOfProject
<1>5. SameRoot'
  BY <1>1, <1>3 DEF IInv, WindowInv, SameRoot, taskVars, compileVars
<1>6. tabs' \subseteq Tab /\ TabsAreOfProject'
  BY <1>1, SameTabs DEF IInv
<1>7. WindowTypeOK'
  BY <1>1, <1>6 DEF IInv, WindowInv, WindowTypeOK
<1> QED
  BY <1>2, <1>4, <1>5, <1>6, <1>7 DEF IInv, WindowInv

LEMMA CreateKeepsInv == IInv /\ CreateEntry => IInv'
<1> SUFFICES ASSUME IInv, CreateEntry PROVE IInv'
  OBVIOUS
<1>1. /\ CreateFile \/ CreateFolder
      /\ overtaken' = FALSE
      /\ OpenTab(target[1], overtaken \/ nudged) \/ UNCHANGED tabs
      /\ UNCHANGED <<taskVars, compileVars, root, clicks>>
  BY DEF CreateEntry
<1>2. PICK highlight \in Place : Create(highlight)
  BY <1>1, CreatedAtPlace DEF IInv
<1>3. asking = "name" /\ asking' = "none" /\ UNCHANGED <<rootPath, taskRoot, compileRoot>>
  BY <1>1, <1>2 DEF Create, taskVars, compileVars
<1>4. /\ target[1] \in Project
      /\ target[1] = root \/ overtaken \/ nudged
      /\ (overtaken \/ nudged) \in BOOLEAN
  BY <1>3, Places DEF IInv, ExplorerInv, ExplorerTypeOK, PlaceIsClicked, WindowInv, DialogIsOfProject
<1>5. tabs' \subseteq Tab /\ TabsAreOfProject'
  <2>1. CASE UNCHANGED tabs
    BY <1>1, <2>1, SameTabs DEF IInv
  <2>2. CASE OpenTab(target[1], overtaken \/ nudged)
    BY <1>1, <1>4, <2>2, TabOpens DEF IInv
  <2> QED
    BY <1>1, <2>1, <2>2
<1>6. TaskInv' /\ ExplorerInv' /\ CompileInv'
  BY <1>1, <1>2, TaskKept, CreateKeepsExplorerInv, CompileKept DEF IInv
<1> QED
  BY <1>1, <1>3, <1>5, <1>6, DialogEnds DEF IInv

LEMMA TimerKeepsInv == IInv /\ ExplorerTimer => IInv'
<1> SUFFICES ASSUME IInv, ExplorerTimer PROVE IInv'
  OBVIOUS
<1>1. TimerFires /\ UNCHANGED <<taskVars, compileVars, windowVars>>
  BY DEF ExplorerTimer
<1>2. TaskInv' /\ ExplorerInv' /\ CompileInv'
  BY <1>1, TaskKept, TimerKeepsExplorerInv, CompileKept DEF IInv
<1>3. UNCHANGED <<rootPath, asking, target, clicked>> /\ (nudged => nudged')
  <2>1. PICK t \in timers : /\ Highlight(t.at) \/ UNCHANGED <<current, nudged>>
                            /\ UNCHANGED <<rootPath, asking, target, clicked>>
    BY <1>1 DEF TimerFires
  <2>2. Highlight(t.at) => (nudged => nudged')
    BY DEF Highlight
  <2> QED
    BY <2>1, <2>2
<1>4. UNCHANGED <<root, tabs, overtaken, clicks, taskRoot, compileRoot>>
  BY <1>1 DEF taskVars, compileVars, windowVars
<1>5. tabs' \subseteq Tab /\ TabsAreOfProject'
  BY <1>4, SameTabs DEF IInv
<1>6. clicks' \in Nat
  BY <1>4 DEF IInv, WindowInv, WindowTypeOK
<1> QED
  BY <1>2, <1>3, <1>4, <1>5, <1>6, WindowStays DEF IInv

LEMMA SaveKeepsInv == IInv /\ SaveCurrentFile => IInv'
<1> SUFFICES ASSUME IInv, SaveCurrentFile PROVE IInv'
  OBVIOUS
<1>1. asking = "none" /\ UNCHANGED <<taskVars, root, tabs, overtaken>> /\ clicks' \in Nat
  BY ClickCounts DEF SaveCurrentFile, Free, IInv, WindowInv
<1>2. PICK t \in tabs :
        /\ (t.of \in Project /\ ChangeSources(t.of)) \/ UNCHANGED compileVars
        /\ (\E d \in Dir : NoteFileChangedOnDisk(<<t.of, d>>)) \/ UNCHANGED explorerVars
  BY DEF SaveCurrentFile
<1>3. CompileInv' /\ compileRoot' = compileRoot
  BY <1>2, OtherKeepsCompileInv, CompileKept DEF IInv, ChangeSources, compileVars
<1>4. ExplorerInv' /\ UNCHANGED <<rootPath, asking, target, clicked, nudged>>
  <2>1. CASE UNCHANGED explorerVars
    BY <2>1, ExplorerStutters DEF IInv, explorerVars
  <2>2. ASSUME NEW d \in Dir, NoteFileChangedOnDisk(<<t.of, d>>)
        PROVE  ExplorerInv' /\ UNCHANGED <<rootPath, asking, target, clicked, nudged>>
    <3>1. t.of = rootPath /\ rootPath # NoProject
      BY <2>2 DEF NoteFileChangedOnDisk
    <3>2. t.of \in Project
      BY <3>1 DEF IInv, ExplorerInv, ExplorerTypeOK
    <3>3. <<t.of, d>> \in Place
      BY <3>2, Places
    <3> QED
      BY <1>1, <2>2, <3>3, NoteKeepsExplorerInv DEF IInv, NoteFileChangedOnDisk
  <2> QED
    BY <1>2, <2>1, <2>2
<1>5. TaskInv' /\ taskRoot' = taskRoot
  BY <1>1, TaskKept DEF IInv, taskVars
<1>6. tabs' \subseteq Tab /\ TabsAreOfProject'
  BY <1>1, SameTabs DEF IInv
<1> QED
  BY <1>1, <1>3, <1>4, <1>5, <1>6, WindowStays DEF IInv

LEMMA Inductive == IInv /\ [Next]_vars => IInv'
<1> SUFFICES ASSUME IInv, [Next]_vars PROVE IInv'
  OBVIOUS
<1>1. CASE Next
  BY <1>1, OpenProjectKeepsInv, TaskClickKeepsInv, DiagnosticKeepsInv, CompileClickKeepsInv,
     TreeKeepsInv, MenuKeepsInv, LeaveKeepsInv, AskKeepsInv, CreateKeepsInv, TimerKeepsInv,
     SaveKeepsInv DEF Next
<1>2. CASE UNCHANGED vars
  <2>1. UNCHANGED <<taskVars, explorerVars, compileVars, windowVars>>
    BY <1>2 DEF vars
  <2>2. TaskInv' /\ ExplorerInv' /\ CompileInv'
    BY <2>1, TaskKept, ExplorerStutters, CompileKept DEF IInv
  <2>3. WindowInv'
    <3>1. UNCHANGED <<root, tabs, overtaken, clicks, taskRoot, rootPath, compileRoot, asking,
                      clicked, target, nudged>>
      BY <2>1 DEF taskVars, explorerVars, compileVars, windowVars
    <3> QED
      BY <3>1 DEF IInv, WindowInv, WindowTypeOK, SameRoot, DialogIsOfProject, TabsAreOfProject
  <2> QED
    BY <2>2, <2>3 DEF IInv
<1> QED
  BY <1>1, <1>2

LEMMA Invariance == Spec => []IInv
  BY Initial, Inductive, PTL DEF Spec

-----------------------------------------------------------------------------
\* Every variable keeps its type; no timer is ever set for a client without a
\* project.
THEOREM TypeCorrect == Spec => []TypeOK
<1>1. IInv => TypeOK
  BY DEF IInv, TaskInv, ExplorerInv, CompileInv, WindowInv, WindowTypeOK, TypeOK
<1> QED
  BY <1>1, Invariance, PTL

\* A stop stands for the run it was asked for and is forgotten with its end,
\* whatever is started, given up or opened in between.
THEOREM StopsAreForTheirRun == Spec => []StopIsForThisRun
<1>1. IInv => StopIsForThisRun
  BY DEF IInv, TaskInv, StopStands, StopIsOfLastRun, StopIsForThisRun
<1> QED
  BY <1>1, Invariance, PTL

\* The links in the view index the diagnostics they were made for, which are of
\* one run or hold what a run that was given up has said.
THEOREM LinksIndexDiagnostics == Spec => []LinksAreTrue
<1>1. IInv => LinksAreTrue
  BY DEF IInv, TaskInv
<1> QED
  BY <1>1, Invariance, PTL

\* A link is looked up in the project of its run but for the two exceptions.
THEOREM LinksLeadHome == Spec => []LinksAreOfProject
<1>1. IInv => LinksAreOfProject
  BY DEF IInv, TaskInv
<1> QED
  BY <1>1, Invariance, PTL

\* A new entry is created where the menu was opened, although timers and pulls
\* go on under the menu and the question for a name.
THEOREM EntriesLand == Spec => []EntriesLandWhereAsked
<1>1. IInv => EntriesLandWhereAsked
  BY DEF IInv, ExplorerInv
<1> QED
  BY <1>1, Invariance, PTL

\* What the compile page says is so unless a tool, or the program it ran, was
\* cut.
THEOREM VerdictsAreTrue == Spec => []VerdictIsTrue
<1>1. IInv => VerdictIsTrue
  BY DEF IInv, CompileInv
<1> QED
  BY <1>1, Invariance, PTL

\* The open tabs are of the open project, but for those that the path of a
\* link, or what an earlier project left, led out of it.
THEOREM TabsStayInProject == Spec => []TabsAreOfProject
<1>1. IInv => TabsAreOfProject
  BY DEF IInv, WindowInv
<1> QED
  BY <1>1, Invariance, PTL
=============================================================================
