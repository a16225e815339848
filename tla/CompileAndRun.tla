--------------------------- MODULE CompileAndRun ---------------------------
(***************************************************************************)
(* The compile page of a client                                            *)
(* (client/src/workspace/workspace_compile_widget.cpp): the sources of the *)
(* open project are checked, or linked into a program that is then run.    *)
(* Both handlers wait for their processes and let nothing else happen      *)
(* meanwhile.  Sources are a version number; a program is known by the     *)
(* version it was linked from, and is whole or not.                        *)
(***************************************************************************)
EXTENDS Projects

CONSTANTS
  NoProgram, \* no file of the program's name
  Buildable  \* projects with an include or src directory

ASSUME CompileAssumption ==
  /\ Buildable \subseteq Project
  /\ NoProgram \notin [of : Nat, whole : BOOLEAN]

VARIABLES
  compileRoot, \* workspaceRoot_
  sources,     \* version of the sources of each project
  program,     \* .toide-build/toide-workspace-run of each project
  said,        \* what the last click ended with
  checks,      \* history: how the checks of the last click, or the program it ran, ended
  ran,         \* history: the program the last click ran, NoProgram if none
  asked,       \* history: the version of the sources at the last click
  cut          \* history: whether the last click killed a linker that hung

compileVars == <<compileRoot, sources, program, said, checks, ran, asked, cut>>

Program == [of : Nat, whole : BOOLEAN]
Verdict == {"nothing", "no compiler", "all complete", "with errors", "not linked", "no start",
            "ran well", "ran badly"}

\* What becomes of a tool: it ends well, ends with an error, cannot be
\* started, or is killed when its time is up.
Outcome == {"well", "error", "no start", "cut"}

\* The parts of the sources that are checked one after the other, and the
\* second attempt at the sources in C, for which g++ is taken.
Kind == {"headers", "c++", "c"}

CompileTypeOK ==
  /\ compileRoot \in Project \cup {NoProject}
  /\ sources \in [Project -> Nat]
  /\ program \in [Project -> Program \cup {NoProgram}]
  /\ said \in Verdict
  /\ checks \subseteq Outcome
  /\ ran \in Program \cup {NoProgram}
  /\ asked \in Nat /\ cut \in BOOLEAN

CompileInit ==
  /\ compileRoot = NoProject
  /\ sources = [p \in Project |-> 0]
  /\ program = [p \in Project |-> NoProgram]
  /\ said = "nothing" /\ checks = {} /\ ran = NoProgram /\ asked = 0 /\ cut = FALSE

-----------------------------------------------------------------------------
\* runCaptured: a tool that was still busy after two minutes has no exit code
\* yet and counts as one that ended well; its destructor kills it.  So it is
\* with the program that is run, after one minute.
Reported(outcome) == outcome \in {"well", "cut"}

\* setWorkspaceRoot
SetWorkspaceRoot(p) ==
  /\ compileRoot' = p
  /\ UNCHANGED <<sources, program, said, checks, ran, asked, cut>>

\* The user saves a source file of project p.
ChangeSources(p) ==
  /\ sources' = [sources EXCEPT ![p] = @ + 1]
  /\ UNCHANGED <<compileRoot, program, said, checks, ran, asked, cut>>

Say(verdict) == said' = verdict

\* A check that fails makes the verdict, whatever comes after it.
\* Faulty variant: the last one alone makes it.
LastOk(ends) == Reported(ends["c"])

AllOk(ends) == \A k \in Kind : Reported(ends[k])

\* runCompile.  Kinds without files end well; a C check that fails is done
\* again with g++, and only its second end counts.
RunCompile ==
  /\ compileRoot \in Buildable
  /\ asked' = sources[compileRoot]
  /\ ran' = NoProgram /\ cut' = FALSE
  /\ \/ \E verdict \in {"nothing", "no compiler"} : Say(verdict) /\ checks' = {}
     \/ \E ends \in [Kind -> Outcome] :
          /\ checks' = {ends[k] : k \in Kind}
          /\ Say(IF AllOk(ends) THEN "all complete" ELSE "with errors")
  /\ UNCHANGED <<compileRoot, sources, program>>

\* What the linker leaves where there was `before': a linker that ends well
\* writes the program, one that is cut may have written a part of it.
Linked(outcome, before) ==
  LET written(whole) == [of |-> sources[compileRoot], whole |-> whole] IN
  IF outcome = "well" THEN {written(TRUE)}
  ELSE IF outcome = "cut" THEN {before, written(FALSE), written(TRUE)}
  ELSE {before}

\* Whether a program is run: the linker must be reported to have ended well.
\* Faulty variant: any program that is there is run.
MayRunAny(outcome) == TRUE

MayRun(outcome) == Reported(outcome)

\* The program is run to its end, or for a minute; the page shows its exit code.
Ran(prog) ==
  /\ ran' = prog
  /\ \E end \in Outcome \ {"no start"} :
       /\ checks' = {end}
       /\ Say(IF Reported(end) THEN "ran well" ELSE "ran badly")

\* runWorkspaceProgram: the old program is removed, which may fail, then the
\* sources are linked, and the program is started.
RunWorkspaceProgram ==
  /\ compileRoot \in Buildable
  /\ asked' = sources[compileRoot]
  /\ \/ /\ \E verdict \in {"nothing", "no compiler"} : Say(verdict)
        /\ checks' = {} /\ ran' = NoProgram /\ cut' = FALSE
        /\ UNCHANGED program
     \/ \E before \in {program[compileRoot], NoProgram}, outcome \in Outcome :
        \E after \in Linked(outcome, before) :
          /\ program' = [program EXCEPT ![compileRoot] = after]
          /\ cut' = (outcome = "cut")
          /\ IF ~MayRun(outcome)
             THEN Say("not linked") /\ ran' = NoProgram /\ checks' = {}
             ELSE \/ Say("no start") /\ ran' = NoProgram /\ checks' = {}
                  \/ after # NoProgram /\ Ran(after)
  /\ UNCHANGED <<compileRoot, sources>>

CompileClicks == RunCompile \/ RunWorkspaceProgram

-----------------------------------------------------------------------------
(***************************************************************************)
(* Correctness.                                                            *)
(***************************************************************************)
\* What the page says at the end of a click is so, as far as nothing was cut:
\* "all complete" means that no check failed, an exit code of 0 that the program
\* did not fail, and the program that was run is whole and linked from the
\* sources as they were at the click.
VerdictIsTrue ==
  /\ said \in {"all complete", "ran well"} => checks \subseteq {"well", "cut"}
  /\ said \in {"ran well", "ran badly"} => cut \/ ran = [of |-> asked, whole |-> TRUE]
=============================================================================
