----------------------------- MODULE WorkspacePull -----------------------------
(***************************************************************************)
(* How a client makes a local copy of a server workspace:                  *)
(* openServerWorkspaceFlow, createServerWorkspaceFlow and the pull that    *)
(* follows in client/src/app/main_window.cpp, their requests in            *)
(* client/src/network/network_client.cpp, and the handlers of              *)
(* server/src/api/workspaces_controller.cpp and of getManifest and         *)
(* getLatest in server/src/api/workspace_files_controller.cpp.             *)
(*                                                                         *)
(* The client is one thread, but a dialog runs an event loop of its own:   *)
(* while it is open replies are handled, and may open another one over it. *)
(* The user is signed in.  A local root is named after the parent          *)
(* directory and the workspace, whose name and id make up its last part;   *)
(* that it and its .toide can be written is assumed.                       *)
(***************************************************************************)
EXTENDS Naturals, Sequences, SequencesExt

CONSTANTS
  Workspace,   \* workspaces, by their ids
  File,        \* relative paths
  Parent,      \* local directories the user may choose
  Place,       \* places for requests under way (bound on those at once)
  NoWorkspace, \* a request that is not about a workspace
  NoFile,      \* a request that is not about a file
  NoRoot,      \* an empty pullLocalRoot_
  NoCopy,      \* a file that is not there
  MaxFlows,    \* bound: uses of the two menu items
  MaxSaves,    \* bound: saves by other clients
  MaxFaults    \* bound: requests that fail and files that cannot be written

Root == Parent \X Workspace

ASSUME PullAssumption ==
  /\ IsFiniteSet(File)
  /\ NoWorkspace \notin Workspace
  /\ NoFile \notin File
  /\ NoRoot \notin Root
  /\ NoCopy \notin Workspace \X Nat
  /\ MaxFlows \in Nat /\ MaxSaves \in Nat /\ MaxFaults \in Nat

VARIABLES
  registered,     \* the table workspaces
  latest,         \* latest version of each file of each workspace, 0 without one
  net,            \* requests under way, with their replies
  modals,         \* open dialogs, the topmost first, and those queued behind them
  listHandlers,   \* slots connected to workspacesListFetched
  createHandlers, \* parents captured by the slots connected to workspaceCreated
  made,           \* local roots that exist
  local,          \* what each local root holds: <<workspace, version>> per file
  pull,           \* pullLocalRoot_, with pullProjectKey_ as its second component
  queue,          \* pullQueue_
  index,          \* pullIndex_
  opened,         \* the root openProject was called for last
  began,          \* history: versions on the server when a root was chosen
  single,         \* history: whether no pull was begun before the last one was over
  flows,          \* uses of the two menu items so far (bounded by MaxFlows)
  saves,          \* saves by others so far (bounded by MaxSaves)
  faults          \* faults so far (bounded by MaxFaults)

serverVars == <<registered, latest, saves>>
slotVars   == <<modals, listHandlers, createHandlers, flows>>
diskVars   == <<made, local>>
pullVars   == <<pull, queue, index>>
historyVars == <<began, single>>
vars == <<serverVars, net, slotVars, diskVars, pullVars, opened, historyVars, faults>>

\* Requests that name a workspace.
Named(r) ==
  \/ r.op \in {"manifest", "file"}
  \/ r.op = "create" /\ r.status = "ok"

Request ==
  {r \in [op     : {"list", "create", "manifest", "file"},
          ws     : Workspace \cup {NoWorkspace},
          file   : File \cup {NoFile},
          status : {"asked", "ok", "failed"},
          list   : SUBSET Workspace,
          files  : SUBSET File,
          version : Nat] :
     /\ Named(r) => r.ws \in Workspace
     /\ r.op = "file" => r.file \in File}

\* A place without a request.
Free == [op |-> "none"]

\* QDialog::exec of the list of workspaces, and QMessageBox::warning before
\* clearPullState.  (Other message boxes are not followed by anything.)
Modal == [kind : {"pick", "failed"}, list : SUBSET Workspace]

ServerTypeOK ==
  /\ registered \in SUBSET Workspace
  /\ latest \in [Workspace -> [File -> Nat]]
  /\ saves \in Nat

NetTypeOK == net \in [Place -> Request \cup {Free}]

SlotTypeOK ==
  /\ modals \in Seq(Modal)
  /\ listHandlers \in Nat
  /\ createHandlers \in Seq(Parent)
  /\ flows \in Nat

DiskTypeOK ==
  /\ made \in SUBSET Root
  /\ local \in [Root -> [File -> (Workspace \X Nat) \cup {NoCopy}]]

PullTypeOK ==
  /\ pull \in Root \cup {NoRoot}
  /\ queue \in Seq(File)
  /\ index \in Nat

RestTypeOK ==
  /\ opened \in Root \cup {NoRoot}
  /\ began \in [Root -> [File -> Nat]]
  /\ single \in BOOLEAN
  /\ faults \in Nat

TypeOK ==
  ServerTypeOK /\ NetTypeOK /\ SlotTypeOK /\ DiskTypeOK /\ PullTypeOK /\ RestTypeOK

Init ==
  /\ registered \in SUBSET Workspace
  /\ latest \in [Workspace -> [File -> {0, 1}]]
  /\ \A w \in Workspace \ registered : latest[w] = [f \in File |-> 0]
  /\ net = [q \in Place |-> Free]
  /\ modals = <<>>
  /\ listHandlers = 0
  /\ createHandlers = <<>>
  /\ made = {}
  /\ local = [r \in Root |-> [f \in File |-> NoCopy]]
  /\ pull = NoRoot
  /\ queue = <<>>
  /\ index = 0
  /\ opened = NoRoot
  /\ began = [r \in Root |-> [f \in File |-> 0]]
  /\ single = TRUE
  /\ flows = 0 /\ saves = 0 /\ faults = 0

-----------------------------------------------------------------------------
(***************************************************************************)
(* The user.                                                               *)
(***************************************************************************)
Asking(op, ws, file) ==
  [op |-> op, ws |-> ws, file |-> file, status |-> "asked", list |-> {}, files |-> {}, version |-> 0]

Send(request) == \E q \in Place : net[q] = Free /\ net' = [net EXCEPT ![q] = request]

\* A menu can be used only while no dialog is open.
UseMenu ==
  /\ modals = <<>>
  /\ flows < MaxFlows
  /\ flows' = flows + 1

\* openServerWorkspaceFlow.  The slot is meant for one reply, but it captures
\* its connection before there is one, so it is never disconnected.
OpenServerWorkspace ==
  /\ UseMenu
  /\ listHandlers' = listHandlers + 1
  /\ Send(Asking("list", NoWorkspace, NoFile))
  /\ UNCHANGED <<serverVars, modals, createHandlers, diskVars, pullVars, opened, historyVars, faults>>

\* createServerWorkspaceFlow, with the same slip.
CreateServerWorkspace(p) ==
  /\ UseMenu
  /\ createHandlers' = Append(createHandlers, p)
  /\ Send(Asking("create", NoWorkspace, NoFile))
  /\ UNCHANGED <<serverVars, modals, listHandlers, diskVars, pullVars, opened, historyVars, faults>>

Picking == modals # <<>> /\ Head(modals).kind = "pick"

\* The list is cancelled, or the choice of a parent directory, or the root
\* exists already, which the user is told.
CancelPick ==
  /\ Picking
  /\ modals' = Tail(modals)
  /\ UNCHANGED <<serverVars, net, listHandlers, createHandlers, flows, diskVars, pullVars, opened,
                 historyVars, faults>>

StartPull(root) ==
  /\ pull' = root
  /\ queue' = <<>>
  /\ index' = 0

Downloading(q) == net[q].op \in {"manifest", "file"}

PickWorkspace(p, w) ==
  /\ Picking /\ w \in Head(modals).list
  /\ <<p, w>> \notin made
  /\ made' = made \cup {<<p, w>>}
  /\ StartPull(<<p, w>>)
  /\ Send(Asking("manifest", w, NoFile))
  /\ modals' = Tail(modals)
  /\ began' = [began EXCEPT ![<<p, w>>] = latest[w]]
  /\ single' = (single /\ pull = NoRoot /\ \A q \in Place : ~Downloading(q))
  /\ UNCHANGED <<serverVars, listHandlers, createHandlers, flows, local, opened, faults>>

\* clearPullState.
\* Faulty variant: the root stays.
KeepRoot ==
  /\ UNCHANGED pull
  /\ queue' = <<>>
  /\ index' = 0

ClearPullState ==
  /\ pull' = NoRoot
  /\ queue' = <<>>
  /\ index' = 0

\* The user closes the warning that a download has failed.
CloseWarning ==
  /\ modals # <<>> /\ Head(modals).kind = "failed"
  /\ modals' = Tail(modals)
  /\ ClearPullState
  /\ UNCHANGED <<serverVars, net, listHandlers, createHandlers, flows, diskVars, opened, historyVars,
                 faults>>

-----------------------------------------------------------------------------
(***************************************************************************)
(* Replies.                                                                *)
(***************************************************************************)
Answered(q, op) == net[q].op = op /\ net[q].status # "asked"

Leave(q) == net' = [net EXCEPT ![q] = Free]

\* The warning, after which the state of the pull is cleared.
\* Faulty variant: a line in the status bar, and nothing after it.
ShowInStatusBar == UNCHANGED modals

Warn == modals' = <<[kind |-> "failed", list |-> {}]>> \o modals

\* workspacesListFetched: every slot connected so far shows the list.
ListFetched(q) ==
  /\ Answered(q, "list")
  /\ Leave(q)
  /\ modals' = IF net[q].status = "ok" /\ net[q].list # {}
               THEN [i \in 1..listHandlers |-> [kind |-> "pick", list |-> net[q].list]] \o modals
               ELSE modals
  /\ UNCHANGED <<serverVars, listHandlers, createHandlers, flows, diskVars, pullVars, opened,
                 historyVars, faults>>

\* workspaceCreated: every slot connected so far makes and opens a root under
\* its own parent, unless an earlier slot has made it.
WorkspaceCreated(q) ==
  /\ Answered(q, "create")
  /\ Leave(q)
  /\ LET root(i) == <<createHandlers[i], net[q].ws>>
         makers  == {i \in DOMAIN createHandlers :
                       /\ net[q].status = "ok" /\ root(i) \notin made
                       /\ \A j \in DOMAIN createHandlers : j < i => root(j) # root(i)}
     IN /\ made' = made \cup {root(i) : i \in makers}
        /\ \/ makers = {} /\ UNCHANGED opened
           \/ \E i \in makers : (\A j \in makers : j <= i) /\ opened' = root(i)
  /\ UNCHANGED <<serverVars, slotVars, local, pullVars, historyVars, faults>>

Finish(q) ==
  /\ Leave(q)
  /\ opened' = pull
  /\ ClearPullState

\* continuePullAfterManifest, when no pull is under way any more ...
IgnoreReply(q) ==
  /\ Answered(q, "manifest") \/ Answered(q, "file")
  /\ pull = NoRoot
  /\ Leave(q)
  /\ UNCHANGED <<serverVars, slotVars, diskVars, pullVars, opened, historyVars, faults>>

\* ... or the request has failed; the same in onPullLatestFile ...
PullFailed(q) ==
  /\ Answered(q, "manifest") \/ Answered(q, "file")
  /\ pull # NoRoot /\ net[q].status = "failed"
  /\ Leave(q)
  /\ Warn
  /\ UNCHANGED <<serverVars, listHandlers, createHandlers, flows, diskVars, pullVars, opened,
                 historyVars, faults>>

\* ... and otherwise.  The manifest is ordered by path, which is left open.
ManifestFetched(q) ==
  /\ Answered(q, "manifest")
  /\ pull # NoRoot /\ net[q].status = "ok"
  /\ IF net[q].files = {}
     THEN Finish(q)
     ELSE /\ queue' \in SetToSeqs(net[q].files)
          /\ index' = 0
          /\ net' = [net EXCEPT ![q] = Asking("file", pull[2], queue'[1])]
          /\ UNCHANGED <<pull, opened>>
  /\ UNCHANGED <<serverVars, slotVars, diskVars, historyVars, faults>>

\* Faulty variant: the last file is forgotten.
DoneAtLast(i) == i >= Len(queue) - 1

\* Whether a pull that stands at index i has nothing left to fetch.
PullDone(i) == i >= Len(queue)

\* onPullLatestFile: the file is written below the root of the pull that is
\* current now, whatever it was asked for.
LatestFileFetched(q) ==
  /\ Answered(q, "file")
  /\ pull # NoRoot /\ net[q].status = "ok"
  /\ local' = [local EXCEPT ![pull][net[q].file] = <<net[q].ws, net[q].version>>]
  /\ IF PullDone(index + 1)
     THEN Finish(q)
     ELSE /\ index' = index + 1
          /\ net' = [net EXCEPT ![q] = Asking("file", pull[2], queue[index' + 1])]
          /\ UNCHANGED <<pull, queue, opened>>
  /\ UNCHANGED <<serverVars, slotVars, made, historyVars, faults>>

Fault == faults < MaxFaults /\ faults' = faults + 1

\* The directory or the file cannot be written.
WriteFails(q) ==
  /\ Answered(q, "file")
  /\ pull # NoRoot /\ net[q].status = "ok"
  /\ Fault
  /\ Leave(q)
  /\ Warn
  /\ UNCHANGED <<serverVars, listHandlers, createHandlers, flows, diskVars, pullVars, opened,
                 historyVars>>

-----------------------------------------------------------------------------
(***************************************************************************)
(* The server.                                                             *)
(***************************************************************************)
Asked(q, op) == net[q].op = op /\ net[q].status = "asked"

ClientUnchanged == UNCHANGED <<slotVars, diskVars, pullVars, opened, historyVars>>

ListWorkspaces(q) ==
  /\ Asked(q, "list")
  /\ net' = [net EXCEPT ![q].status = "ok", ![q].list = registered]
  /\ ClientUnchanged /\ UNCHANGED <<serverVars, faults>>

\* An INSERT under a new id.
Register(w) ==
  /\ w \notin registered
  /\ registered' = registered \cup {w}
  /\ UNCHANGED <<latest, saves>>

CreateWorkspace(q, w) ==
  /\ Asked(q, "create")
  /\ Register(w)
  /\ net' = [net EXCEPT ![q].status = "ok", ![q].ws = w]
  /\ ClientUnchanged /\ UNCHANGED faults

FilesOf(w) == {f \in File : latest[w][f] > 0}

GetManifest(q) ==
  /\ Asked(q, "manifest")
  /\ net' = [net EXCEPT ![q].status = "ok", ![q].files = FilesOf(net[q].ws)]
  /\ ClientUnchanged /\ UNCHANGED <<serverVars, faults>>

\* The latest version, or 404.
GetLatest(q) ==
  /\ Asked(q, "file")
  /\ LET v == latest[net[q].ws][net[q].file]
     IN net' = [net EXCEPT ![q].status = IF v > 0 THEN "ok" ELSE "failed", ![q].version = v]
  /\ ClientUnchanged /\ UNCHANGED <<serverVars, faults>>

\* The connection breaks or the database fails; a workspace may have been
\* stored all the same.
RequestFails(q) ==
  /\ net[q].op # "none" /\ net[q].status = "asked"
  /\ Fault
  /\ net' = [net EXCEPT ![q].status = "failed"]
  /\ \/ UNCHANGED serverVars
     \/ net[q].op = "create" /\ \E w \in Workspace : Register(w)
  /\ ClientUnchanged

\* putContent of another client.
OtherSaves(w, f) ==
  /\ w \in registered
  /\ saves < MaxSaves
  /\ saves' = saves + 1
  /\ latest' = [latest EXCEPT ![w][f] = @ + 1]
  /\ ClientUnchanged /\ UNCHANGED <<registered, net, faults>>

-----------------------------------------------------------------------------
User ==
  \/ OpenServerWorkspace
  \/ \E p \in Parent : CreateServerWorkspace(p)
  \/ CancelPick
  \/ \E p \in Parent, w \in Workspace : PickWorkspace(p, w)
  \/ CloseWarning

Reply(q) ==
  \/ ListFetched(q)
  \/ WorkspaceCreated(q)
  \/ IgnoreReply(q)
  \/ PullFailed(q)
  \/ ManifestFetched(q)
  \/ LatestFileFetched(q)

Serve(q) ==
  \/ ListWorkspaces(q)
  \/ \E w \in Workspace : CreateWorkspace(q, w)
  \/ GetManifest(q)
  \/ GetLatest(q)

Next ==
  \/ User
  \/ \E q \in Place : Reply(q) \/ WriteFails(q) \/ Serve(q) \/ RequestFails(q)
  \/ \E w \in Workspace, f \in File : OtherSaves(w, f)

Spec == Init /\ [][Next]_vars

\* The server answers, and the client's event loop handles the answers.
FairSpec == Spec /\ \A q \in Place : WF_vars(Serve(q)) /\ WF_vars(Reply(q))

-----------------------------------------------------------------------------
(***************************************************************************)
(* Correctness.                                                            *)
(***************************************************************************)
Warning == \E i \in DOMAIN modals : modals[i].kind = "failed"

\* A pull that is under way has a request under way, or the user is being
\* told that it has failed: no reply in whatever order leaves it hanging.
PullIsPursued ==
  pull # NoRoot => Warning \/ \E q \in Place : Downloading(q)

\* The index always points into the queue, or at the start of a queue that
\* has not come yet: pullQueue_.at(pullIndex_) is never out of range, also
\* when the replies of two pulls are mixed.
IndexInQueue ==
  IF queue = <<>> THEN index = 0 ELSE pull # NoRoot /\ index < Len(queue)

\* When the client says that a workspace was pulled and opens it, every file
\* that was on the server when the user chose it is in the local copy, in
\* that version or a later one, and no file is from elsewhere - provided the
\* user lets a pull end before beginning another.
PulledIsComplete ==
  single /\ opened # NoRoot =>
    \A f \in File :
      /\ local[opened][f] # NoCopy => local[opened][f][1] = opened[2]
      /\ began[opened][f] > 0 => /\ local[opened][f] # NoCopy
                                 /\ local[opened][f][2] >= began[opened][f]

\* A pull comes to an end: the workspace is opened, or the user is told.
PullEnds == pull # NoRoot ~> pull = NoRoot \/ Warning

=============================================================================
