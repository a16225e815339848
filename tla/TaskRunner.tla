----------------------------- MODULE TaskRunner -----------------------------
(***************************************************************************)
(* The task runner of a client: the widget                                 *)
(* (client/src/task_runner/task_runner_widget.cpp), its one process        *)
(* (task_process_runner.cpp), the tasks of a project (task_config.cpp,     *)
(* task_execution_request.cpp) and the diagnostics found in the output     *)
(* (task_diagnostic_parser.cpp).                                           *)
(*                                                                         *)
(* Runs are numbered by the order of their start.  Of an output only the   *)
(* runs matter whose diagnostics it holds.  A start that takes more than a *)
(* second is reported as failed although the process may come up later.    *)
(***************************************************************************)
EXTENDS Projects, FiniteSets

CONSTANT Configured \* projects with a well-formed .toide/tasks.json

ASSUME TaskAssumption == Configured \subseteq Project

VARIABLES
  taskRoot,      \* workspaceRoot_; without a project, processes run where the
                 \* client was started
  process,       \* state of process_; "killed" until its end is noticed
  runs,          \* history: the processes started, the last one being process_
  buffer,        \* runs with diagnostics in taskOutputBuffer_
  diagnostics,   \* runs that taskDiagnostics_ is about
  links,         \* the diagnostics each list of links in the view was made for
  stopRequested, \* stopRequested_
  canRun, canStop, canUseTerminal \* which buttons are enabled

taskVars ==
  <<taskRoot, process, runs, buffer, diagnostics, links, stopRequested, canRun, canStop,
    canUseTerminal>>

\* late: reported as failed; moved: another project was opened while it ran.
Run == [root : Project \cup {NoProject}, late : BOOLEAN, moved : BOOLEAN]

TaskTypeOK ==
  /\ taskRoot \in Project \cup {NoProject}
  /\ process \in {"none", "starting", "running", "killed"}
  /\ runs \in Seq(Run)
  /\ buffer \subseteq DOMAIN runs
  /\ diagnostics \subseteq DOMAIN runs
  /\ links \subseteq SUBSET (DOMAIN runs)
  /\ {stopRequested, canRun, canStop, canUseTerminal} \subseteq BOOLEAN

TaskInit ==
  /\ taskRoot = NoProject
  /\ process = "none"
  /\ runs = <<>>
  /\ buffer = {} /\ diagnostics = {} /\ links = {}
  /\ stopRequested = FALSE
  /\ canRun = TRUE /\ canStop = FALSE /\ canUseTerminal = TRUE

-----------------------------------------------------------------------------
(***************************************************************************)
(* The process.                                                            *)
(***************************************************************************)
\* start: the process is up, "late", or it cannot be started.
Starts(outcome) ==
  IF outcome = "failed" THEN UNCHANGED <<process, runs>>
  ELSE /\ process = "none"
       /\ process' = IF outcome = "late" THEN "starting" ELSE "running"
       /\ runs' = Append(runs, [root |-> taskRoot, late |-> outcome = "late", moved |-> FALSE])

SetTaskRunning(isRunning) ==
  /\ canRun' = ~isRunning
  /\ canUseTerminal' = ~isRunning
  /\ canStop' = isRunning

\* Output with diagnostics in it is appended to the buffer and the view.
Output ==
  /\ process \in {"running", "killed"}
  /\ buffer' = buffer \cup {Len(runs)}
  /\ UNCHANGED <<taskRoot, process, runs, diagnostics, links, stopRequested, canRun, canStop,
                 canUseTerminal>>

\* A late process comes up after all, or does not: no slot is called.
LateStart ==
  /\ process = "starting"
  /\ process' \in {"running", "none"}
  /\ UNCHANGED <<taskRoot, runs, buffer, diagnostics, links, stopRequested, canRun, canStop,
                 canUseTerminal>>

\* appendDiagnosticSummary
AppendSummary ==
  /\ diagnostics' = buffer
  /\ links' = IF buffer = {} THEN links ELSE links \cup {buffer}

\* finished and setTaskFinished: a run that was stopped is not summed up.
\* Faulty variant: the stop is not forgotten.
FinishedForGood ==
  /\ canRun' = TRUE /\ canStop' = FALSE
  /\ IF stopRequested THEN UNCHANGED <<diagnostics, links>> ELSE AppendSummary
  /\ UNCHANGED <<stopRequested, canUseTerminal>>

Finished ==
  /\ canRun' = TRUE /\ canStop' = FALSE
  /\ stopRequested' = FALSE
  /\ IF stopRequested THEN UNCHANGED <<diagnostics, links>> ELSE AppendSummary
  /\ UNCHANGED canUseTerminal

ProcessEnds ==
  /\ process \in {"running", "killed"}
  /\ process' = "none"
  /\ Finished
  /\ UNCHANGED <<taskRoot, runs, buffer>>

-----------------------------------------------------------------------------
(***************************************************************************)
(* The buttons.                                                            *)
(***************************************************************************)
RunSelectedTask ==
  /\ canRun
  /\ IF taskRoot \notin Configured
     THEN \* no task in the selector
          /\ links' = {}
          /\ UNCHANGED <<process, runs, buffer, diagnostics, stopRequested, canRun, canStop,
                         canUseTerminal>>
     ELSE /\ links' = {} /\ buffer' = {} /\ diagnostics' = {}
          /\ stopRequested' = FALSE
          /\ \E outcome \in {"up", "late", "failed"} :
               Starts(outcome) /\ SetTaskRunning(outcome = "up")
  /\ UNCHANGED taskRoot

\* A command of the terminal line: what was known of the run before is cleared
\* only if the process is up.
\* Faulty variant: the view is not cleared.
TerminalUpUncleared ==
  /\ Starts("up") /\ SetTaskRunning(TRUE)
  /\ UNCHANGED <<buffer, links>>

TerminalUp ==
  /\ Starts("up") /\ SetTaskRunning(TRUE)
  /\ buffer' = {} /\ links' = {}

TerminalNotUp ==
  /\ \E outcome \in {"late", "failed"} : Starts(outcome)
  /\ links' = {}
  /\ UNCHANGED <<buffer, canRun, canStop, canUseTerminal>>

RunTerminalCommand ==
  /\ canUseTerminal /\ canRun
  /\ TerminalUp \/ TerminalNotUp
  /\ UNCHANGED <<taskRoot, diagnostics, stopRequested>>

\* Faulty variant: the process goes on.
StopOnlyFlags ==
  /\ canStop
  /\ stopRequested' = TRUE
  /\ UNCHANGED <<taskRoot, process, runs, buffer, diagnostics, links, canRun, canStop, canUseTerminal>>

StopRunningTask ==
  /\ canStop
  /\ stopRequested' = TRUE
  /\ process' = IF process = "none" THEN process ELSE "killed"
  /\ UNCHANGED <<taskRoot, runs, buffer, diagnostics, links, canRun, canStop, canUseTerminal>>

\* loadTasksFromWorkspace, which knows nothing of a process: the history notes
\* the run that is still on.
\* Faulty variant: the view keeps its links.
LoadTasksQuietly(p) ==
  /\ taskRoot' = p
  /\ runs' = IF process = "none" THEN runs ELSE [runs EXCEPT ![Len(runs)].moved = TRUE]
  /\ UNCHANGED <<process, buffer, diagnostics, links, stopRequested, canRun, canStop, canUseTerminal>>

LoadTasks(p) ==
  /\ taskRoot' = p
  /\ links' = {}
  /\ runs' = IF process = "none" THEN runs ELSE [runs EXCEPT ![Len(runs)].moved = TRUE]
  /\ UNCHANGED <<process, buffer, diagnostics, stopRequested, canRun, canStop, canUseTerminal>>

\* anchorClicked: where the file of a link may be.  The path in a diagnostic is
\* looked up in whatever project is open; it may as well be absolute, or lead
\* up and out: to a header of the system, or into any other project.
LinkTargets == IF links = {} THEN {} ELSE Project \cup {NoProject}

\* A target is expected to be in the open project if it is in the project of a
\* run that the diagnostics are of, unless another project was opened while
\* that run was on, or the run came up late.
Expected(p) ==
  /\ \E r \in diagnostics : runs[r].root = p
  /\ \A r \in diagnostics : ~runs[r].moved /\ ~runs[r].late

TaskClicks == RunSelectedTask \/ RunTerminalCommand \/ StopRunningTask
TaskEvents == Output \/ LateStart \/ ProcessEnds

-----------------------------------------------------------------------------
(***************************************************************************)
(* Correctness.                                                            *)
(***************************************************************************)
\* A stop is about the run it was asked for: while it stands, that run, which
\* was reported as running, has not been reported as finished.  So it never
\* keeps the summary of a later run from being shown.
StopIsForThisRun ==
  stopRequested => process = "killed" /\ canStop /\ ~runs[Len(runs)].late

\* The links in the view index the diagnostics they were written for, and
\* these are of one run, unless one came up after its start had been given up.
LinksAreTrue ==
  \A s \in links :
    s = diagnostics /\ (Cardinality(s) = 1 \/ \E r \in s : runs[r].late)

\* A link is looked up in the project its run was started in, unless another
\* one was opened while the run was on, or the run came up late.
LinksAreOfProject ==
  \A s \in links : \A r \in s :
    runs[r].root = taskRoot \/ runs[r].moved \/ \E q \in s : runs[q].late

\* A stop is followed by the end of the run, and another one can be started.
StopEnds == stopRequested ~> ~stopRequested /\ canRun
=============================================================================
