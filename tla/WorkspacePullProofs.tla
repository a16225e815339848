-------------------------- MODULE WorkspacePullProofs --------------------------
(***************************************************************************)
(* Proofs about WorkspacePull, for any number of workspaces, files, local  *)
(* directories, requests under way, slots left behind and dialogs, also    *)
(* when several pulls overlap.                                             *)
(*                                                                         *)
(* The argument of the first part: each reply that does not end a pull is  *)
(* followed by a request in the same step, and no other step takes a       *)
(* request of a pull away; the queue is changed only together with the     *)
(* index.  The last part is about a pull that runs alone.                  *)
(***************************************************************************)
EXTENDS WorkspacePull, TLAPS, FiniteSetTheorems

IInv == TypeOK /\ PullIsPursued /\ IndexInQueue

\* Warning and the presence of a download, of given dialogs and requests.
Failing(s) == \E i \in DOMAIN s : s[i].kind = "failed"
Loading(n) == \E q \in Place : n[q].op \in {"manifest", "file"}

LEMMA Pursued ==
  /\ PullIsPursued <=> (pull # NoRoot => Failing(modals) \/ Loading(net))
  /\ PullIsPursued' <=> (pull' # NoRoot => Failing(modals') \/ Loading(net'))
BY DEF PullIsPursued, Warning, Failing, Downloading, Loading

-----------------------------------------------------------------------------
(***************************************************************************)
(* Dialogs and requests.                                                   *)
(***************************************************************************)
LEMMA FailingBelow ==
  ASSUME NEW S, NEW s \in Seq(S), NEW t \in Seq(S), Failing(t)
  PROVE  Failing(s \o t)
<1>1. PICK i \in 1..Len(t) : t[i].kind = "failed"
  BY DEF Failing
<1>2. Len(s) + i \in DOMAIN (s \o t) /\ (s \o t)[Len(s) + i] = t[i]
  OBVIOUS
<1> QED
  BY <1>1, <1>2 DEF Failing

LEMMA FailingTail ==
  ASSUME NEW S, NEW s \in Seq(S), s # <<>>, Head(s).kind # "failed", Failing(s)
  PROVE  Failing(Tail(s))
<1>1. PICK i \in 1..Len(s) : s[i].kind = "failed"
  BY DEF Failing
<1>2. i # 1
  BY <1>1
<1>3. i - 1 \in DOMAIN Tail(s) /\ Tail(s)[i - 1] = s[i]
  BY <1>2
<1> QED
  BY <1>1, <1>3 DEF Failing

LEMMA AskingType ==
  ASSUME NEW op \in {"list", "create", "manifest", "file"},
         NEW w \in Workspace \cup {NoWorkspace}, NEW f \in File \cup {NoFile},
         op \in {"manifest", "file"} => w \in Workspace, op = "file" => f \in File
  PROVE  /\ Asking(op, w, f) \in Request
         /\ Asking(op, w, f).op = op
BY DEF Asking, Request, Named

\* A place whose request is not part of a pull may be given away.
LEMMA LoadingOther ==
  ASSUME NetTypeOK, NEW q \in Place, net[q].op \notin {"manifest", "file"}, NEW x,
         net' = [net EXCEPT ![q] = x], Loading(net)
  PROVE  Loading(net')
<1>1. PICK p \in Place : net[p].op \in {"manifest", "file"}
  BY DEF Loading
<1>2. p # q /\ net'[p] = net[p]
  BY <1>1 DEF NetTypeOK
<1> QED
  BY <1>1, <1>2 DEF Loading

LEMMA FreePlace ==
  ASSUME NetTypeOK, NEW q \in Place, Leave(q)
  PROVE  NetTypeOK'
BY DEF NetTypeOK, Leave

LEMMA TakePlace ==
  ASSUME NetTypeOK, NEW q \in Place, NEW x \in Request, net' = [net EXCEPT ![q] = x]
  PROVE  NetTypeOK' /\ net'[q] = x
BY DEF NetTypeOK

\* A request that is sent takes a free place, so those of a pull stay.
LEMMA SendKeeps ==
  ASSUME NetTypeOK, NEW x \in Request, Send(x)
  PROVE  /\ NetTypeOK'
         /\ Loading(net) => Loading(net')
         /\ x.op \in {"manifest", "file"} => Loading(net')
<1>1. PICK q \in Place : net[q] = Free /\ net' = [net EXCEPT ![q] = x]
  BY DEF Send
<1>2. net[q].op \notin {"manifest", "file"}
  BY <1>1 DEF Free
<1>3. NetTypeOK' /\ net'[q] = x
  BY <1>1, TakePlace
<1> QED
  BY <1>1, <1>2, <1>3, LoadingOther DEF Loading

\* What is under way at a place that has a request.
LEMMA RequestAt ==
  ASSUME NetTypeOK, NEW q \in Place, net[q].op # "none"
  PROVE  net[q] \in Request
BY DEF NetTypeOK, Free

\* What a step that leaves part of the state alone keeps of the invariant.
LEMMA Kept ==
  /\ UNCHANGED serverVars => (ServerTypeOK <=> ServerTypeOK')
  /\ UNCHANGED slotVars => (SlotTypeOK <=> SlotTypeOK')
  /\ UNCHANGED diskVars => (DiskTypeOK <=> DiskTypeOK')
  /\ UNCHANGED pullVars => (PullTypeOK <=> PullTypeOK') /\ (IndexInQueue <=> IndexInQueue')
BY DEF serverVars, slotVars, diskVars, pullVars, ServerTypeOK, SlotTypeOK, DiskTypeOK, PullTypeOK,
       IndexInQueue

LEMMA ClearPull ==
  ASSUME ClearPullState
  PROVE  PullTypeOK' /\ IndexInQueue' /\ pull' = NoRoot
BY DEF ClearPullState, PullTypeOK, IndexInQueue

-----------------------------------------------------------------------------
(***************************************************************************)
(* The user.                                                               *)
(***************************************************************************)
LEMMA InitInv == Init => IInv
<1> SUFFICES ASSUME Init PROVE IInv
  OBVIOUS
<1> USE DEF Init
<1>1. ServerTypeOK
  BY DEF ServerTypeOK
<1>2. NetTypeOK
  BY DEF NetTypeOK
<1>3. SlotTypeOK
  BY DEF SlotTypeOK
<1>4. DiskTypeOK
  BY DEF DiskTypeOK
<1>5. PullTypeOK /\ PullIsPursued /\ IndexInQueue
  BY DEF PullTypeOK, PullIsPursued, IndexInQueue
<1>6. RestTypeOK
  BY DEF RestTypeOK
<1> QED
  BY <1>1, <1>2, <1>3, <1>4, <1>5, <1>6 DEF IInv, TypeOK

LEMMA OpenServerWorkspaceInv == IInv /\ OpenServerWorkspace => IInv'
<1> SUFFICES ASSUME IInv, OpenServerWorkspace PROVE IInv'
  OBVIOUS
<1> USE DEF IInv, TypeOK, OpenServerWorkspace
<1>1. NetTypeOK' /\ (Loading(net) => Loading(net'))
  BY AskingType, SendKeeps
<1>2. SlotTypeOK'
  BY DEF SlotTypeOK, UseMenu
<1>3. RestTypeOK'
  BY DEF RestTypeOK, historyVars
<1>4. PullIsPursued'
  BY <1>1, Pursued DEF pullVars
<1> QED
  BY <1>1, <1>2, <1>3, <1>4, Kept

LEMMA CreateServerWorkspaceInv ==
  ASSUME NEW p \in Parent PROVE IInv /\ CreateServerWorkspace(p) => IInv'
<1> SUFFICES ASSUME IInv, CreateServerWorkspace(p) PROVE IInv'
  OBVIOUS
<1> USE DEF IInv, TypeOK, CreateServerWorkspace
<1>1. NetTypeOK' /\ (Loading(net) => Loading(net'))
  BY AskingType, SendKeeps
<1>2. SlotTypeOK'
  BY DEF SlotTypeOK, UseMenu
<1>3. RestTypeOK'
  BY DEF RestTypeOK, historyVars
<1>4. PullIsPursued'
  BY <1>1, Pursued DEF pullVars
<1> QED
  BY <1>1, <1>2, <1>3, <1>4, Kept

LEMMA TopType ==
  ASSUME SlotTypeOK, modals # <<>>
  PROVE  Head(modals) \in Modal /\ Tail(modals) \in Seq(Modal)
BY DEF SlotTypeOK

LEMMA CancelPickInv == IInv /\ CancelPick => IInv'
<1> SUFFICES ASSUME IInv, CancelPick PROVE IInv'
  OBVIOUS
<1> USE DEF IInv, TypeOK, CancelPick
<1>1. NetTypeOK'
  BY DEF NetTypeOK
<1>2. SlotTypeOK'
  BY TopType DEF SlotTypeOK, Picking
<1>3. RestTypeOK'
  BY DEF RestTypeOK, historyVars
<1>4. Failing(modals) => Failing(modals')
  BY FailingTail DEF SlotTypeOK, Picking
<1>5. PullIsPursued'
  BY <1>4, Pursued DEF pullVars
<1> QED
  BY <1>1, <1>2, <1>3, <1>5, Kept

LEMMA PickWorkspaceInv ==
  ASSUME NEW p \in Parent, NEW w \in Workspace PROVE IInv /\ PickWorkspace(p, w) => IInv'
<1> SUFFICES ASSUME IInv, PickWorkspace(p, w) PROVE IInv'
  OBVIOUS
<1> USE DEF IInv, TypeOK, PickWorkspace
<1>0. <<p, w>> \in Root /\ <<p, w>> # NoRoot
  BY PullAssumption DEF Root
<1>1. NetTypeOK' /\ Loading(net')
  BY AskingType, SendKeeps
<1>2. SlotTypeOK'
  BY TopType DEF SlotTypeOK, Picking
<1>3. DiskTypeOK'
  BY <1>0 DEF DiskTypeOK
<1>4. PullTypeOK' /\ IndexInQueue'
  BY <1>0 DEF StartPull, PullTypeOK, IndexInQueue
<1>5. RestTypeOK'
  BY DEF RestTypeOK, ServerTypeOK
<1>6. PullIsPursued'
  BY <1>1, Pursued
<1> QED
  BY <1>1, <1>2, <1>3, <1>4, <1>5, <1>6, Kept

LEMMA CloseWarningInv == IInv /\ CloseWarning => IInv'
<1> SUFFICES ASSUME IInv, CloseWarning PROVE IInv'
  OBVIOUS
<1> USE DEF IInv, TypeOK, CloseWarning
<1>1. NetTypeOK'
  BY DEF NetTypeOK
<1>2. SlotTypeOK'
  BY TopType DEF SlotTypeOK
<1>3. PullTypeOK' /\ IndexInQueue' /\ PullIsPursued'
  BY ClearPull DEF PullIsPursued
<1>4. RestTypeOK'
  BY DEF RestTypeOK, historyVars
<1> QED
  BY <1>1, <1>2, <1>3, <1>4, Kept

-----------------------------------------------------------------------------
(***************************************************************************)
(* Replies.                                                                *)
(***************************************************************************)
\* A warning is shown over whatever is open.
LEMMA WarnShows ==
  ASSUME SlotTypeOK, Warn
  PROVE  modals' \in Seq(Modal) /\ Failing(modals')
<1> DEFINE w == [kind |-> "failed", list |-> {}]
<1>1. w \in Modal /\ <<w>> \in Seq(Modal)
  BY DEF Modal
<1>2. modals' \in Seq(Modal)
  BY <1>1 DEF Warn, SlotTypeOK
<1>3. 1 \in DOMAIN modals' /\ modals'[1] = w
  BY <1>1 DEF Warn, SlotTypeOK
<1> QED
  BY <1>2, <1>3 DEF Failing

LEMMA ListFetchedInv ==
  ASSUME NEW q \in Place PROVE IInv /\ ListFetched(q) => IInv'
<1> SUFFICES ASSUME IInv, ListFetched(q) PROVE IInv'
  OBVIOUS
<1> USE DEF IInv, TypeOK, ListFetched
<1> DEFINE shown == [i \in 1..listHandlers |-> [kind |-> "pick", list |-> net[q].list]]
<1>1. net[q] \in Request
  BY RequestAt DEF Answered
<1>2. [kind |-> "pick", list |-> net[q].list] \in Modal
  BY <1>1 DEF Modal, Request
<1>3. shown \in Seq(Modal)
  BY <1>2 DEF SlotTypeOK
<1>4. modals' = modals \/ modals' = shown \o modals
  OBVIOUS
<1>5. modals' \in Seq(Modal) /\ (Failing(modals) => Failing(modals'))
  <2>1. modals \in Seq(Modal)
    BY DEF SlotTypeOK
  <2>2. shown \o modals \in Seq(Modal)
    BY <1>3, <2>1
  <2>3. Failing(modals) => Failing(shown \o modals)
    BY <1>3, <2>1, FailingBelow
  <2> QED
    BY <1>4, <2>1, <2>2, <2>3
<1>6. SlotTypeOK'
  BY <1>5 DEF SlotTypeOK
<1>7. NetTypeOK'
  BY FreePlace
<1>8. Loading(net) => Loading(net')
  BY LoadingOther DEF Answered, Leave
<1>9. PullIsPursued'
  BY <1>5, <1>8, Pursued DEF pullVars
<1>10. RestTypeOK'
  BY DEF RestTypeOK, historyVars
<1> QED
  BY <1>6, <1>7, <1>9, <1>10, Kept

LEMMA WorkspaceCreatedInv ==
  ASSUME NEW q \in Place PROVE IInv /\ WorkspaceCreated(q) => IInv'
<1> SUFFICES ASSUME IInv, WorkspaceCreated(q) PROVE IInv'
  OBVIOUS
<1> USE DEF IInv, TypeOK
<1> DEFINE root(i) == <<createHandlers[i], net[q].ws>>
           makers  == {i \in DOMAIN createHandlers :
                         /\ net[q].status = "ok" /\ root(i) \notin made
                         /\ \A j \in DOMAIN createHandlers : j < i => root(j) # root(i)}
<1>1. /\ made' = made \cup {root(i) : i \in makers}
      /\ \/ makers = {} /\ UNCHANGED opened
         \/ \E i \in makers : (\A j \in makers : j <= i) /\ opened' = root(i)
  BY DEF WorkspaceCreated
<1> HIDE DEF makers
<1>2. \A i \in makers : i \in DOMAIN createHandlers
  BY DEF makers
<1>a. NetTypeOK' /\ (Loading(net) => Loading(net'))
  BY FreePlace, LoadingOther DEF WorkspaceCreated, Answered, Leave
<1>b. PullIsPursued'
  BY <1>a, Pursued DEF WorkspaceCreated, pullVars, slotVars
<1>c. makers # {} => net[q].ws \in Workspace
  BY RequestAt DEF makers, WorkspaceCreated, Answered, Request, Named
<1>3. \A i \in makers : root(i) \in Root
  BY <1>2, <1>c DEF SlotTypeOK, Root
<1> HIDE DEF root
<1>4. DiskTypeOK'
  BY <1>1, <1>3 DEF DiskTypeOK, WorkspaceCreated
<1>5. RestTypeOK'
  BY <1>1, <1>3 DEF RestTypeOK, WorkspaceCreated, historyVars
<1> QED
  BY <1>a, <1>b, <1>4, <1>5, Kept DEF WorkspaceCreated

LEMMA IgnoreReplyInv ==
  ASSUME NEW q \in Place PROVE IInv /\ IgnoreReply(q) => IInv'
<1> SUFFICES ASSUME IInv, IgnoreReply(q) PROVE IInv'
  OBVIOUS
<1> USE DEF IInv, TypeOK, IgnoreReply
<1>1. NetTypeOK'
  BY FreePlace
<1>2. PullIsPursued'
  BY DEF PullIsPursued, pullVars
<1>3. RestTypeOK'
  BY DEF RestTypeOK, historyVars
<1> QED
  BY <1>1, <1>2, <1>3, Kept

LEMMA PullFailedInv ==
  ASSUME NEW q \in Place PROVE IInv /\ PullFailed(q) => IInv'
<1> SUFFICES ASSUME IInv, PullFailed(q) PROVE IInv'
  OBVIOUS
<1> USE DEF IInv, TypeOK, PullFailed
<1>1. NetTypeOK'
  BY FreePlace
<1>2. SlotTypeOK' /\ Failing(modals')
  BY WarnShows DEF SlotTypeOK
<1>3. PullIsPursued'
  BY <1>2, Pursued
<1>4. RestTypeOK'
  BY DEF RestTypeOK, historyVars
<1> QED
  BY <1>1, <1>2, <1>3, <1>4, Kept

LEMMA WriteFailsInv ==
  ASSUME NEW q \in Place PROVE IInv /\ WriteFails(q) => IInv'
<1> SUFFICES ASSUME IInv, WriteFails(q) PROVE IInv'
  OBVIOUS
<1> USE DEF IInv, TypeOK, WriteFails
<1>1. NetTypeOK'
  BY FreePlace
<1>2. SlotTypeOK' /\ Failing(modals')
  BY WarnShows DEF SlotTypeOK
<1>3. PullIsPursued'
  BY <1>2, Pursued
<1>4. RestTypeOK'
  BY DEF RestTypeOK, historyVars, Fault
<1> QED
  BY <1>1, <1>2, <1>3, <1>4, Kept

\* The orders of a set of files that is not empty.
LEMMA Orders ==
  ASSUME NEW S \in SUBSET File, S # {}, NEW s \in SetToSeqs(S)
  PROVE  s \in Seq(File) /\ 0 < Len(s) /\ s[1] \in File
<1>1. IsFiniteSet(S)
  BY PullAssumption, FS_Subset
<1>2. Cardinality(S) \in Nat /\ Cardinality(S) # 0
  BY <1>1, FS_CardinalityType, FS_EmptySet
<1>3. s \in [1..Cardinality(S) -> S]
  BY DEF SetToSeqs
<1>4. s \in Seq(S) /\ Len(s) = Cardinality(S)
  BY <1>2, <1>3
<1> QED
  BY <1>2, <1>3, <1>4

LEMMA FinishInv ==
  ASSUME NetTypeOK, RestTypeOK, PullTypeOK, NEW q \in Place, Finish(q), UNCHANGED <<historyVars, faults>>
  PROVE  NetTypeOK' /\ PullTypeOK' /\ IndexInQueue' /\ PullIsPursued' /\ RestTypeOK'
<1>1. NetTypeOK'
  BY FreePlace DEF Finish
<1>2. PullTypeOK' /\ IndexInQueue' /\ PullIsPursued'
  BY ClearPull DEF Finish, PullIsPursued
<1>3. RestTypeOK'
  BY DEF RestTypeOK, PullTypeOK, Finish, historyVars
<1> QED
  BY <1>1, <1>2, <1>3

\* The next file is asked for at the place of the reply.
LEMMA AskNext ==
  ASSUME NetTypeOK, NEW q \in Place, NEW w \in Workspace, NEW f \in File,
         net' = [net EXCEPT ![q] = Asking("file", w, f)]
  PROVE  NetTypeOK' /\ Loading(net')
<1>1. Asking("file", w, f) \in Request /\ Asking("file", w, f).op = "file"
  BY AskingType
<1>2. NetTypeOK' /\ net'[q] = Asking("file", w, f)
  BY <1>1, TakePlace
<1> QED
  BY <1>1, <1>2 DEF Loading

LEMMA ManifestFetchedInv ==
  ASSUME NEW q \in Place PROVE IInv /\ ManifestFetched(q) => IInv'
<1> SUFFICES ASSUME IInv, ManifestFetched(q) PROVE IInv'
  OBVIOUS
<1> USE DEF IInv, TypeOK
<1>1. net[q] \in Request /\ net[q].files \in SUBSET File
  BY RequestAt DEF ManifestFetched, Answered, Request
<1>2. /\ UNCHANGED <<serverVars, slotVars, diskVars, historyVars, faults>>
      /\ pull \in Root
  BY DEF ManifestFetched, PullTypeOK
<1>3. ServerTypeOK' /\ SlotTypeOK' /\ DiskTypeOK'
  BY <1>2, Kept
<1>4. CASE net[q].files = {}
  <2>1. Finish(q)
    BY <1>4 DEF ManifestFetched
  <2> QED
    BY <1>2, <1>3, <2>1, FinishInv
<1>5. CASE net[q].files # {}
  <2>1. /\ queue' \in SetToSeqs(net[q].files)
        /\ index' = 0
        /\ net' = [net EXCEPT ![q] = Asking("file", pull[2], queue'[1])]
        /\ pull' = pull /\ opened' = opened
    BY <1>5 DEF ManifestFetched
  <2>2. queue' \in Seq(File) /\ 0 < Len(queue') /\ queue'[1] \in File
    BY <1>1, <1>5, <2>1, Orders
  <2>3. PullTypeOK'
    BY <2>1, <2>2 DEF PullTypeOK
  <2>4. IndexInQueue'
    BY <1>2, <2>1, <2>2, PullAssumption DEF IndexInQueue
  <2>5. pull[2] \in Workspace
    BY <1>2 DEF Root
  <2>6. NetTypeOK' /\ Loading(net')
    BY <2>1, <2>2, <2>5, AskNext
  <2>7. PullIsPursued'
    BY <2>6, Pursued
  <2>8. RestTypeOK'
    BY <1>2, <2>1 DEF RestTypeOK, historyVars
  <2> QED
    BY <1>3, <2>3, <2>4, <2>6, <2>7, <2>8
<1> QED
  BY <1>4, <1>5

LEMMA LatestFileFetchedInv ==
  ASSUME NEW q \in Place PROVE IInv /\ LatestFileFetched(q) => IInv'
<1> SUFFICES ASSUME IInv, LatestFileFetched(q) PROVE IInv'
  OBVIOUS
<1> USE DEF IInv, TypeOK
<1>1. net[q] \in Request /\ net[q].ws \in Workspace /\ net[q].version \in Nat
  BY RequestAt DEF LatestFileFetched, Answered, Request, Named
<1>2. /\ UNCHANGED <<serverVars, slotVars, historyVars, faults>>
      /\ made' = made
      /\ pull \in Root
      /\ local' = [local EXCEPT ![pull][net[q].file] = <<net[q].ws, net[q].version>>]
  BY DEF LatestFileFetched, PullTypeOK
<1>3. ServerTypeOK' /\ SlotTypeOK'
  BY <1>2, Kept
<1>4. DiskTypeOK'
  <2>1. local[pull] \in [File -> (Workspace \X Nat) \cup {NoCopy}]
    BY <1>2 DEF DiskTypeOK
  <2>2. <<net[q].ws, net[q].version>> \in Workspace \X Nat
    BY <1>1
  <2> QED
    BY <1>2, <2>1, <2>2 DEF DiskTypeOK
<1>5. CASE PullDone(index + 1)
  <2>1. Finish(q)
    BY <1>5 DEF LatestFileFetched
  <2> QED
    BY <1>2, <1>3, <1>4, <2>1, FinishInv
<1>6. CASE ~PullDone(index + 1)
  <2>1. /\ index' = index + 1
        /\ net' = [net EXCEPT ![q] = Asking("file", pull[2], queue[index' + 1])]
        /\ pull' = pull /\ queue' = queue /\ opened' = opened
    BY <1>6 DEF LatestFileFetched
  <2>2. queue \in Seq(File) /\ index \in Nat /\ index + 1 < Len(queue)
    BY <1>6 DEF PullTypeOK, PullDone
  <2>3. PullTypeOK'
    BY <2>1, <2>2 DEF PullTypeOK
  <2>4. IndexInQueue'
    BY <1>2, <2>1, <2>2, PullAssumption DEF IndexInQueue
  <2>5. pull[2] \in Workspace /\ queue[index' + 1] \in File
    BY <1>2, <2>1, <2>2 DEF Root
  <2>6. NetTypeOK' /\ Loading(net')
    BY <2>1, <2>5, AskNext
  <2>7. PullIsPursued'
    BY <2>6, Pursued
  <2>8. RestTypeOK'
    BY <1>2, <2>1 DEF RestTypeOK, historyVars
  <2> QED
    BY <1>3, <1>4, <2>3, <2>4, <2>6, <2>7, <2>8
<1> QED
  BY <1>5, <1>6

-----------------------------------------------------------------------------
(***************************************************************************)
(* The server.  An answer does not change what was asked for.              *)
(***************************************************************************)
LEMMA AnswerKeeps ==
  ASSUME IInv, NEW q \in Place, NEW x \in Request, x.op = net[q].op,
         net' = [net EXCEPT ![q] = x], ClientUnchanged, ServerTypeOK', faults' \in Nat
  PROVE  IInv'
<1> USE DEF IInv, TypeOK, ClientUnchanged
<1>1. NetTypeOK' /\ net'[q] = x
  BY TakePlace
<1>2. \A p \in Place : net'[p].op = net[p].op
  BY <1>1 DEF NetTypeOK
<1>3. PullIsPursued'
  BY <1>2, Pursued DEF Loading, pullVars, slotVars
<1>4. RestTypeOK'
  BY DEF RestTypeOK, historyVars
<1> QED
  BY <1>1, <1>3, <1>4, Kept

LEMMA ServeInv ==
  ASSUME NEW q \in Place PROVE IInv /\ Serve(q) => IInv'
<1> SUFFICES ASSUME IInv, Serve(q) PROVE IInv'
  OBVIOUS
<1>1. /\ net[q] \in Request /\ net[q] = [net[q] EXCEPT !.op = net[q].op]
      /\ NetTypeOK /\ ServerTypeOK /\ faults \in Nat
  BY RequestAt DEF Serve, ListWorkspaces, CreateWorkspace, GetManifest, GetLatest, Asked, IInv, TypeOK,
                   RestTypeOK, Request
<1>2. CASE ListWorkspaces(q)
  <2> DEFINE x == [net[q] EXCEPT !.status = "ok", !.list = registered]
  <2>1. x \in Request /\ x.op = net[q].op
    BY <1>1, <1>2 DEF ListWorkspaces, Asked, Request, Named, ServerTypeOK
  <2>2. net' = [net EXCEPT ![q] = x]
    BY <1>1, <1>2 DEF ListWorkspaces, NetTypeOK
  <2>3. ClientUnchanged /\ ServerTypeOK' /\ faults' \in Nat
    BY <1>1, <1>2, Kept DEF ListWorkspaces
  <2> HIDE DEF x
  <2> QED
    BY <2>1, <2>2, <2>3, AnswerKeeps
<1>3. ASSUME NEW w \in Workspace, CreateWorkspace(q, w) PROVE IInv'
  <2> DEFINE x == [net[q] EXCEPT !.status = "ok", !.ws = w]
  <2>1. x \in Request /\ x.op = net[q].op
    BY <1>1, <1>3 DEF CreateWorkspace, Asked, Request, Named
  <2>2. net' = [net EXCEPT ![q] = x]
    BY <1>1, <1>3 DEF CreateWorkspace, NetTypeOK
  <2>3. ClientUnchanged /\ ServerTypeOK' /\ faults' \in Nat
    BY <1>1, <1>3 DEF CreateWorkspace, Register, ServerTypeOK
  <2> HIDE DEF x
  <2> QED
    BY <2>1, <2>2, <2>3, AnswerKeeps
<1>4. CASE GetManifest(q)
  <2> DEFINE x == [net[q] EXCEPT !.status = "ok", !.files = FilesOf(net[q].ws)]
  <2>1. x \in Request /\ x.op = net[q].op
    BY <1>1, <1>4 DEF GetManifest, Asked, Request, Named, FilesOf
  <2>2. net' = [net EXCEPT ![q] = x]
    BY <1>1, <1>4 DEF GetManifest, NetTypeOK
  <2>3. ClientUnchanged /\ ServerTypeOK' /\ faults' \in Nat
    BY <1>1, <1>4, Kept DEF GetManifest
  <2> HIDE DEF x
  <2> QED
    BY <2>1, <2>2, <2>3, AnswerKeeps
<1>5. CASE GetLatest(q)
  <2> DEFINE v == latest[net[q].ws][net[q].file]
             x == [net[q] EXCEPT !.status = IF v > 0 THEN "ok" ELSE "failed", !.version = v]
  <2>0. v \in Nat
    BY <1>1, <1>5 DEF GetLatest, Asked, Request, Named, ServerTypeOK
  <2>1. x \in Request /\ x.op = net[q].op
    BY <1>1, <1>5, <2>0 DEF GetLatest, Asked, Request, Named
  <2>2. net' = [net EXCEPT ![q] = x]
    BY <1>1, <1>5 DEF GetLatest, NetTypeOK
  <2>3. ClientUnchanged /\ ServerTypeOK' /\ faults' \in Nat
    BY <1>1, <1>5, Kept DEF GetLatest
  <2> HIDE DEF x
  <2> QED
    BY <2>1, <2>2, <2>3, AnswerKeeps
<1> QED
  BY <1>2, <1>3, <1>4, <1>5 DEF Serve

LEMMA RequestFailsInv ==
  ASSUME NEW q \in Place PROVE IInv /\ RequestFails(q) => IInv'
<1> SUFFICES ASSUME IInv, RequestFails(q) PROVE IInv'
  OBVIOUS
<1> DEFINE x == [net[q] EXCEPT !.status = "failed"]
<1>1. net[q] \in Request /\ NetTypeOK /\ ServerTypeOK
  BY RequestAt DEF RequestFails, IInv, TypeOK
<1>2. x \in Request /\ x.op = net[q].op
  BY <1>1 DEF Request, Named
<1>3. net' = [net EXCEPT ![q] = x]
  BY <1>1 DEF RequestFails, NetTypeOK
<1>4. ServerTypeOK'
  BY <1>1, Kept DEF RequestFails, Register, ServerTypeOK, serverVars
<1>5. ClientUnchanged /\ faults' \in Nat
  BY DEF RequestFails, Fault, IInv, TypeOK, RestTypeOK
<1> HIDE DEF x
<1> QED
  BY <1>2, <1>3, <1>4, <1>5, AnswerKeeps

LEMMA OtherSavesInv ==
  ASSUME NEW w \in Workspace, NEW f \in File PROVE IInv /\ OtherSaves(w, f) => IInv'
<1> SUFFICES ASSUME IInv, OtherSaves(w, f) PROVE IInv'
  OBVIOUS
<1> USE DEF IInv, TypeOK, OtherSaves, ClientUnchanged
<1>1. ServerTypeOK'
  <2>1. latest[w] \in [File -> Nat] /\ [latest[w] EXCEPT ![f] = @ + 1] \in [File -> Nat]
    BY DEF ServerTypeOK
  <2>2. latest' \in [Workspace -> [File -> Nat]]
    BY <2>1 DEF ServerTypeOK
  <2> QED
    BY <2>2 DEF ServerTypeOK
<1>2. NetTypeOK'
  BY DEF NetTypeOK
<1>3. PullIsPursued'
  BY Pursued DEF pullVars, slotVars
<1>4. RestTypeOK'
  BY DEF RestTypeOK, historyVars
<1> QED
  BY <1>1, <1>2, <1>3, <1>4, Kept

-----------------------------------------------------------------------------
LEMMA StutterInv == IInv /\ UNCHANGED vars => IInv'
<1> SUFFICES ASSUME IInv, UNCHANGED vars PROVE IInv'
  OBVIOUS
<1> USE DEF IInv, TypeOK, vars
<1>1. NetTypeOK'
  BY DEF NetTypeOK
<1>2. PullIsPursued'
  BY Pursued DEF pullVars, slotVars
<1>3. RestTypeOK'
  BY DEF RestTypeOK, historyVars
<1> QED
  BY <1>1, <1>2, <1>3, Kept

LEMMA StepInv == IInv /\ [Next]_vars => IInv'
<1> SUFFICES ASSUME IInv, [Next]_vars PROVE IInv'
  OBVIOUS
<1>1. CASE User
  BY <1>1, OpenServerWorkspaceInv, CreateServerWorkspaceInv, CancelPickInv, PickWorkspaceInv,
     CloseWarningInv DEF User
<1>2. ASSUME NEW q \in Place, Reply(q) PROVE IInv'
  BY <1>2, ListFetchedInv, WorkspaceCreatedInv, IgnoreReplyInv, PullFailedInv, ManifestFetchedInv,
     LatestFileFetchedInv DEF Reply
<1>3. ASSUME NEW q \in Place, WriteFails(q) \/ Serve(q) \/ RequestFails(q) PROVE IInv'
  BY <1>3, WriteFailsInv, ServeInv, RequestFailsInv
<1>4. CASE \E w \in Workspace, f \in File : OtherSaves(w, f)
  BY <1>4, OtherSavesInv
<1>5. CASE UNCHANGED vars
  BY <1>5, StutterInv
<1> QED
  BY <1>1, <1>2, <1>3, <1>4, <1>5 DEF Next

\* What the steps of pulls keep, whatever their order.
THEOREM Invariant == Spec => []IInv
BY InitInv, StepInv, PTL DEF Spec

\* Every variable keeps its type: in particular every file that is asked for
\* is asked of the workspace that pullProjectKey_ names.
THEOREM TypeCorrect == Spec => []TypeOK
<1>1. IInv => TypeOK
  BY DEF IInv
<1> QED
  BY <1>1, Invariant, PTL

\* No pull is left hanging: continuePullAfterManifest and onPullLatestFile
\* either ask for the next file, end the pull or tell the user, also when
\* the replies of several pulls are mixed.
THEOREM PullsArePursued == Spec => []PullIsPursued
<1>1. IInv => PullIsPursued
  BY DEF IInv
<1> QED
  BY <1>1, Invariant, PTL

\* pullQueue_.at(pullIndex_) in onPullLatestFile is never out of range.
THEOREM IndexNeverOutOfRange == Spec => []IndexInQueue
<1>1. IInv => IndexInQueue
  BY DEF IInv
<1> QED
  BY <1>1, Invariant, PTL

-----------------------------------------------------------------------------
(***************************************************************************)
(* What a pull that runs alone brings.                                     *)
(*                                                                         *)
(* Its root is new, so there is nothing in it but what it writes; it has   *)
(* one request under way, whose reply is of its own workspace; and what    *)
(* the server had when the root was chosen is in the manifest, in a        *)
(* version that later ones only follow.                                    *)
(***************************************************************************)
Began(r) == {f \in File : began[r][f] > 0}

Fetched(r, f) == local[r][f] # NoCopy /\ local[r][f][2] >= began[r][f]

\* A root that is not made yet is empty, and the root of a pull is another one
\* than that of the workspace on the screen.
RootsKnown ==
  /\ pull # NoRoot =>
       /\ pull \in made /\ pull # opened
       /\ \A f \in File : began[pull][f] <= latest[pull[2]][f]
  /\ opened # NoRoot => opened \in made
  /\ \A r \in Root \ made : \A f \in File : local[r][f] = NoCopy /\ began[r][f] = 0

OwnFiles ==
  single => \A r \in Root, f \in File : local[r][f] # NoCopy => local[r][f][1] = r[2]

Contents(q) ==
  /\ net[q].op = "manifest" /\ net[q].status = "ok" => Began(pull) \subseteq net[q].files
  /\ net[q].op = "file" =>
       /\ index < Len(queue) /\ net[q].file = queue[index + 1]
       /\ \A f \in Began(pull) : \E i \in 1..Len(queue) : queue[i] = f
       /\ \A i \in 1..index : Fetched(pull, queue[i])
       /\ net[q].status = "ok" => net[q].version >= began[pull][net[q].file]

OnlyRequest(q) ==
  Downloading(q) =>
    /\ \A p \in Place : Downloading(p) => p = q
    /\ net[q].ws = pull[2]
    /\ Contents(q)

SinglePull == single /\ pull # NoRoot => \A q \in Place : OnlyRequest(q)

Complete(r) ==
  \A f \in File :
    /\ local[r][f] # NoCopy => local[r][f][1] = r[2]
    /\ began[r][f] > 0 => Fetched(r, f)

AloneInv == RootsKnown /\ OwnFiles /\ SinglePull /\ PulledIsComplete

CInv == IInv /\ AloneInv

-----------------------------------------------------------------------------
LEMMA PulledIs == PulledIsComplete <=> (single /\ opened # NoRoot => Complete(opened))
  BY DEF PulledIsComplete, Complete, Fetched

LEMMA CInit == Init => CInv
<1> SUFFICES ASSUME Init PROVE AloneInv
  BY InitInv DEF CInv
<1>1. pull = NoRoot /\ opened = NoRoot /\ made = {}
      /\ \A r \in Root, f \in File : local[r][f] = NoCopy /\ began[r][f] = 0
  BY DEF Init
<1> QED
  BY <1>1 DEF AloneInv, RootsKnown, OwnFiles, SinglePull, PulledIsComplete

\* Types of the parts.
LEMMA Parts ==
  ASSUME IInv
  PROVE  /\ \A q \in Place : Downloading(q) => net[q] \in Request /\ net[q].ws \in Workspace
         /\ \A q \in Place : net[q].op = "file" => net[q].file \in File /\ net[q].version \in Nat
         /\ \A r \in Root, f \in File : /\ began[r][f] \in Nat
                                        /\ local[r][f] # NoCopy => local[r][f] \in Workspace \X Nat
         /\ \A w \in Workspace, f \in File : latest[w][f] \in Nat
         /\ index \in Nat /\ queue \in Seq(File) /\ pull \in Root \cup {NoRoot} /\ NoRoot \notin Root
         /\ \A r \in Root : r[2] \in Workspace
<1>1. \A q \in Place : net[q].op # "none" => net[q] \in Request
  BY RequestAt DEF IInv, TypeOK
<1>2. \A q \in Place : net[q].op = "file" =>
        net[q] \in Request /\ net[q].file \in File /\ net[q].version \in Nat
  BY <1>1 DEF Request
<1>3. \A q \in Place : Downloading(q) => net[q] \in Request /\ net[q].ws \in Workspace
  BY <1>1 DEF Downloading, Request, Named
<1>4. \A r \in Root, f \in File : /\ began[r][f] \in Nat
                                  /\ local[r][f] # NoCopy => local[r][f] \in Workspace \X Nat
  BY DEF IInv, TypeOK, RestTypeOK, DiskTypeOK
<1>5. /\ \A w \in Workspace, f \in File : latest[w][f] \in Nat
      /\ index \in Nat /\ queue \in Seq(File) /\ pull \in Root \cup {NoRoot} /\ NoRoot \notin Root
      /\ \A r \in Root : r[2] \in Workspace
  BY PullAssumption DEF IInv, TypeOK, ServerTypeOK, PullTypeOK, Root
<1> QED
  BY <1>2, <1>3, <1>4, <1>5

\* A step of others, or of the client when it neither begins nor ends a pull.
LEMMA RootsStay ==
  ASSUME CInv, UNCHANGED <<diskVars, pull, opened, historyVars>>,
         \A w \in Workspace, f \in File : latest'[w][f] \in Nat /\ latest[w][f] <= latest'[w][f]
  PROVE  RootsKnown' /\ OwnFiles' /\ PulledIsComplete'
<1>1. UNCHANGED <<made, local, pull, opened, began, single>>
  BY DEF diskVars, historyVars
<1>2. pull # NoRoot => \A f \in File : began[pull][f] <= latest'[pull[2]][f]
  BY Parts DEF CInv, AloneInv, RootsKnown
<1> QED
  BY <1>1, <1>2 DEF CInv, AloneInv, RootsKnown, OwnFiles, PulledIsComplete

LEMMA LatestSame ==
  ASSUME CInv, UNCHANGED latest
  PROVE  \A w \in Workspace, f \in File : latest'[w][f] \in Nat /\ latest[w][f] <= latest'[w][f]
  BY Parts DEF CInv

\* The requests of the pull are those that there were, or fewer.
LEMMA PullStays ==
  ASSUME CInv, UNCHANGED <<pullVars, local, began, single>>,
         \A q \in Place : Downloading(q)' => net'[q] = net[q]
  PROVE  SinglePull'
<1>1. UNCHANGED <<pull, queue, index, local, began, single>>
  BY DEF pullVars
<1> SUFFICES ASSUME single, pull # NoRoot, NEW q \in Place, Downloading(q)' PROVE OnlyRequest(q)'
  BY <1>1 DEF SinglePull, OnlyRequest
<1>2. \A p \in Place : Downloading(p)' => Downloading(p)
  BY DEF Downloading
<1>3. OnlyRequest(q) /\ Downloading(q) /\ net'[q] = net[q]
  BY <1>2 DEF CInv, AloneInv, SinglePull
<1> QED
  BY <1>1, <1>2, <1>3 DEF OnlyRequest, Contents, Fetched, Began

\* A request or a reply that is not part of a pull.
LEMMA PlaceOfOther ==
  ASSUME CInv, NEW q \in Place, NEW x, net' = [net EXCEPT ![q] = x], x.op \notin {"manifest", "file"}
  PROVE  \A p \in Place : Downloading(p)' => net'[p] = net[p]
  BY DEF Downloading, CInv, IInv, TypeOK, NetTypeOK

LEMMA MenuStep ==
  ASSUME CInv, OpenServerWorkspace \/ \E p \in Parent : CreateServerWorkspace(p)
  PROVE  AloneInv'
<1>1. UNCHANGED <<serverVars, diskVars, pullVars, opened, historyVars>>
  BY DEF OpenServerWorkspace, CreateServerWorkspace
<1>2. PICK op \in {"list", "create"}, q \in Place :
        net' = [net EXCEPT ![q] = Asking(op, NoWorkspace, NoFile)]
  BY DEF OpenServerWorkspace, CreateServerWorkspace, Send
<1>a. Asking(op, NoWorkspace, NoFile).op = op
  BY DEF Asking
<1>3. RootsKnown' /\ OwnFiles' /\ PulledIsComplete'
  BY <1>1, LatestSame, RootsStay DEF pullVars, serverVars
<1>4. SinglePull'
  BY <1>1, <1>2, <1>a, PlaceOfOther, PullStays DEF diskVars, historyVars
<1> QED
  BY <1>3, <1>4 DEF AloneInv

\* Replies that do not go on with a pull.
LEMMA LeaveStep ==
  ASSUME CInv, NEW q \in Place, Leave(q), UNCHANGED <<serverVars, diskVars, pullVars, opened, historyVars>>
  PROVE  AloneInv'
<1>1. Free.op \notin {"manifest", "file"}
  BY DEF Free
<1>2. RootsKnown' /\ OwnFiles' /\ PulledIsComplete'
  BY LatestSame, RootsStay DEF pullVars, serverVars
<1>3. SinglePull'
  BY <1>1, PlaceOfOther, PullStays DEF Leave, diskVars, historyVars
<1> QED
  BY <1>2, <1>3 DEF AloneInv

LEMMA DialogStep ==
  ASSUME CInv, CancelPick \/ CloseWarning
  PROVE  AloneInv'
<1>1. UNCHANGED <<serverVars, net, diskVars, opened, historyVars>>
  BY DEF CancelPick, CloseWarning
<1>2. CASE UNCHANGED pullVars
  BY <1>1, <1>2, LatestSame, RootsStay, PullStays DEF AloneInv, pullVars, serverVars, diskVars, historyVars
<1>3. CASE pull' = NoRoot
  BY <1>1, <1>3 DEF CInv, AloneInv, RootsKnown, OwnFiles, SinglePull, PulledIsComplete, serverVars, diskVars,
                    historyVars
<1> QED
  BY <1>2, <1>3 DEF CancelPick, CloseWarning, ClearPullState

\* A pull begins in a new root, with the request for the manifest.
LEMMA PickStep ==
  ASSUME CInv, NEW p \in Parent, NEW w \in Workspace, PickWorkspace(p, w)
  PROVE  AloneInv'
<1> DEFINE r == <<p, w>>
<1>1. /\ r \in Root /\ r # NoRoot /\ r[2] = w
      /\ r \notin made /\ made' = made \cup {r} /\ pull' = r
      /\ UNCHANGED <<latest, local, opened>>
      /\ single' = (single /\ pull = NoRoot /\ \A q \in Place : ~Downloading(q))
      /\ began' = [began EXCEPT ![r] = latest[w]]
  BY PullAssumption DEF PickWorkspace, StartPull, Root, serverVars
<1>2. /\ \A f \in File : began'[r][f] = latest[w][f]
      /\ \A t \in Root \ {r} : began'[t] = began[t]
      /\ \A f \in File : latest[w][f] \in Nat
  BY <1>1, Parts DEF CInv, IInv, TypeOK, RestTypeOK
<1>3. PICK q \in Place : net[q] = Free /\ net' = [net EXCEPT ![q] = Asking("manifest", w, NoFile)]
  BY DEF PickWorkspace, Send
<1>4. \A t \in Place \ {q} : net'[t] = net[t]
  BY <1>3 DEF CInv, IInv, TypeOK, NetTypeOK
<1>5. net'[q].op = "manifest" /\ net'[q].ws = w /\ net'[q].status = "asked"
  BY <1>3 DEF CInv, IInv, TypeOK, NetTypeOK, Asking
<1> HIDE DEF r
<1>6. RootsKnown'
  BY <1>1, <1>2 DEF CInv, AloneInv, RootsKnown
<1>7. OwnFiles'
  BY <1>1 DEF CInv, AloneInv, OwnFiles
<1>8. SinglePull'
  <2> SUFFICES ASSUME single', NEW t \in Place, Downloading(t)' PROVE OnlyRequest(t)'
    BY DEF SinglePull, OnlyRequest
  <2>1. \A s \in Place : Downloading(s)' => s = q
    BY <1>1, <1>4 DEF Downloading
  <2> QED
    BY <1>1, <1>5, <2>1 DEF OnlyRequest, Contents
<1>9. PulledIsComplete'
  <2>1. opened # NoRoot => opened \in Root \ {r}
    BY <1>1 DEF CInv, AloneInv, RootsKnown, IInv, TypeOK, DiskTypeOK
  <2> QED
    BY <1>1, <1>2, <2>1 DEF CInv, AloneInv, PulledIsComplete
<1> QED
  BY <1>6, <1>7, <1>8, <1>9 DEF AloneInv

\* A workspace that was just created has an empty root.
LEMMA CreatedStep ==
  ASSUME CInv, NEW q \in Place, WorkspaceCreated(q), IInv'
  PROVE  AloneInv'
<1>1. /\ UNCHANGED <<serverVars, local, pullVars, historyVars>> /\ Leave(q)
      /\ Free.op \notin {"manifest", "file"}
  BY DEF WorkspaceCreated, Free
<1>2. made \subseteq made' /\ (opened' = opened \/ opened' \in made' \ made)
  BY DEF WorkspaceCreated
<1>3. made' \subseteq Root
  BY DEF IInv, TypeOK, DiskTypeOK
<1>4. UNCHANGED <<latest, local, pull, began, single>>
  BY <1>1 DEF serverVars, pullVars, historyVars
<1>5. RootsKnown'
  BY <1>2, <1>4 DEF CInv, AloneInv, RootsKnown
<1>6. OwnFiles'
  BY <1>4 DEF CInv, AloneInv, OwnFiles
<1>7. SinglePull'
  BY <1>1, <1>4, PlaceOfOther, PullStays DEF Leave
<1>8. PulledIsComplete'
  <2>1. CASE opened' = opened
    BY <1>4, <2>1 DEF CInv, AloneInv, PulledIsComplete
  <2>2. CASE opened' \in made' \ made
    BY <1>3, <1>4, <2>2, Parts DEF CInv, AloneInv, RootsKnown, PulledIsComplete
  <2> QED
    BY <1>2, <2>1, <2>2
<1> QED
  BY <1>5, <1>6, <1>7, <1>8 DEF AloneInv

\* An order of a set of files has every file of the set.
LEMMA OrdersCover ==
  ASSUME NEW S \in SUBSET File, NEW s \in SetToSeqs(S), NEW f \in S
  PROVE  \E i \in 1..Len(s) : s[i] = f
<1>1. IsFiniteSet(S)
  BY PullAssumption, FS_Subset
<1>2. Cardinality(S) \in Nat
  BY <1>1, FS_CardinalityType
<1> DEFINE D == 1..Cardinality(S)
<1>3. s \in [D -> S] /\ \A i, j \in D : i # j => s[i] # s[j]
  BY DEF SetToSeqs
<1>4. IsFiniteSet(D) /\ Cardinality(D) = Cardinality(S)
  BY <1>2, FS_Interval
<1>5. Len(s) = Cardinality(S)
  BY <1>2, <1>3
<1> SUFFICES ASSUME \A i \in D : s[i] # f PROVE FALSE
  BY <1>5
<1>6. s \in [D -> S \ {f}]
  BY <1>3
<1>7. IsFiniteSet(S \ {f}) /\ Cardinality(S \ {f}) < Cardinality(D)
  BY <1>1, <1>2, <1>4, FS_RemoveElement, FS_Subset
<1> HIDE DEF D
<1> QED
  BY <1>3, <1>4, <1>6, <1>7, FS_PigeonHole

\* The end of a pull that has fetched all there was.
LEMMA FinishStep ==
  ASSUME CInv, NEW q \in Place, Finish(q), UNCHANGED <<serverVars, made, historyVars>>, pull # NoRoot,
         NEW r, r = pull, OwnFiles', single => Complete(r)',
         \A t \in Root \ {r} : local'[t] = local[t]
  PROVE  AloneInv'
<1>1. pull' = NoRoot /\ opened' = pull /\ UNCHANGED <<latest, made, began, single>>
  BY DEF Finish, ClearPullState, serverVars, historyVars
<1>2. RootsKnown'
  BY <1>1 DEF CInv, AloneInv, RootsKnown
<1>3. SinglePull'
  BY <1>1 DEF SinglePull
<1>4. PulledIsComplete'
  BY <1>1 DEF PulledIsComplete, Complete, Fetched
<1> QED
  BY <1>2, <1>3, <1>4 DEF AloneInv

\* The next file of a pull is asked for at the place of the reply.
LEMMA NextStep ==
  ASSUME CInv, NEW q \in Place, Downloading(q), NEW f,
         net' = [net EXCEPT ![q] = Asking("file", pull[2], f)],
         single => \A p \in Place : Downloading(p) => p = q
  PROVE  /\ net'[q].op = "file" /\ net'[q].ws = pull[2] /\ net'[q].file = f /\ net'[q].status = "asked"
         /\ single => \A p \in Place : Downloading(p)' => p = q
<1>1. net'[q] = Asking("file", pull[2], f) /\ \A p \in Place \ {q} : net'[p] = net[p]
  BY DEF CInv, IInv, TypeOK, NetTypeOK
<1> QED
  BY <1>1 DEF Asking, Downloading

LEMMA ManifestStep ==
  ASSUME CInv, NEW q \in Place, ManifestFetched(q)
  PROVE  AloneInv'
<1>1. /\ UNCHANGED <<serverVars, diskVars, historyVars>>
      /\ Downloading(q) /\ net[q].op = "manifest" /\ net[q].status = "ok"
      /\ pull \in Root /\ pull # NoRoot
  BY Parts DEF ManifestFetched, Answered, Downloading, CInv
<1>2. UNCHANGED <<latest, made, local, began, single>>
  BY <1>1 DEF serverVars, diskVars, historyVars
<1>3. net[q].files \in SUBSET File
  BY <1>1, Parts DEF CInv, Request
<1>4. single => Began(pull) \subseteq net[q].files /\ \A p \in Place : Downloading(p) => p = q
  BY <1>1 DEF CInv, AloneInv, SinglePull, OnlyRequest, Contents
<1>5. OwnFiles'
  BY <1>2 DEF CInv, AloneInv, OwnFiles
<1>6. PICK r \in Root : r = pull
  BY <1>1
<1>7. CASE net[q].files = {}
  <2>1. Finish(q)
    BY <1>7 DEF ManifestFetched
  <2>2. single => \A f \in File : ~(began[r][f] > 0)
    BY <1>4, <1>6, <1>7 DEF Began
  <2>3. single => Complete(r)'
    BY <1>2, <2>2 DEF Complete, CInv, AloneInv, OwnFiles
  <2> QED
    BY <1>1, <1>2, <1>5, <1>6, <2>1, <2>3, FinishStep
<1>8. CASE net[q].files # {}
  <2>1. /\ queue' \in SetToSeqs(net[q].files) /\ index' = 0
        /\ net' = [net EXCEPT ![q] = Asking("file", pull[2], queue'[1])]
        /\ UNCHANGED <<pull, opened>>
    BY <1>8 DEF ManifestFetched
  <2>2. PICK s \in SetToSeqs(net[q].files) : s = queue'
    BY <2>1
  <2>3. s \in Seq(File) /\ 0 < Len(s)
    BY <1>3, <1>8, <2>2, Orders
  <2>4. /\ net'[q].op = "file" /\ net'[q].ws = r[2] /\ net'[q].file = s[1] /\ net'[q].status = "asked"
        /\ single => \A p \in Place : Downloading(p)' => p = q
    <3>1. net' = [net EXCEPT ![q] = Asking("file", pull[2], s[1])]
      BY <2>1, <2>2
    <3> QED
      BY <1>1, <1>4, <1>6, <3>1, NextStep
  <2>5. single => \A f \in Began(r) : \E i \in 1..Len(s) : s[i] = f
    BY <1>3, <1>4, <1>6, OrdersCover
  <2>6. SinglePull'
    <3> SUFFICES ASSUME single, NEW p \in Place, Downloading(p)' PROVE OnlyRequest(p)'
      BY <1>2 DEF SinglePull, OnlyRequest
    <3>1. p = q /\ Began(r)' = Began(r)
      BY <1>2, <2>4 DEF Began
    <3>2. Contents(p)'
      BY <1>6, <2>1, <2>2, <2>3, <2>4, <2>5, <3>1 DEF Contents
    <3> QED
      BY <1>6, <2>1, <2>4, <3>1, <3>2 DEF OnlyRequest
  <2>7. RootsKnown' /\ PulledIsComplete'
    BY <1>1, <2>1, LatestSame, RootsStay DEF serverVars
  <2> QED
    BY <1>5, <2>6, <2>7 DEF AloneInv
<1> QED
  BY <1>7, <1>8

\* A file is written below the root of the pull.
LEMMA FileStep ==
  ASSUME CInv, NEW q \in Place, LatestFileFetched(q)
  PROVE  AloneInv'
<1>1. /\ UNCHANGED <<serverVars, made, historyVars>>
      /\ Downloading(q) /\ net[q].op = "file" /\ net[q].status = "ok"
      /\ pull \in Root /\ pull # NoRoot
      /\ local' = [local EXCEPT ![pull][net[q].file] = <<net[q].ws, net[q].version>>]
  BY Parts DEF LatestFileFetched, Answered, Downloading, CInv
<1>2. UNCHANGED <<latest, made, began, single>>
  BY <1>1 DEF serverVars, historyVars
<1>3. PICK r \in Root, g \in File : r = pull /\ g = net[q].file
  BY <1>1, Parts DEF CInv
<1>4. <<net[q].ws, net[q].version>> # NoCopy
  BY <1>1, Parts, PullAssumption DEF CInv
<1>5. /\ local'[r][g] = <<net[q].ws, net[q].version>>
      /\ \A f \in File \ {g} : local'[r][f] = local[r][f]
      /\ \A t \in Root \ {r} : local'[t] = local[t]
  BY <1>1, <1>3 DEF CInv, IInv, TypeOK, DiskTypeOK
<1>6. single => /\ \A p \in Place : Downloading(p) => p = q
                /\ net[q].ws = r[2]
                /\ index < Len(queue) /\ g = queue[index + 1]
                /\ \A f \in Began(r) : \E i \in 1..Len(queue) : queue[i] = f
                /\ \A i \in 1..index : Fetched(r, queue[i])
                /\ net[q].version >= began[r][g]
  BY <1>1, <1>3 DEF CInv, AloneInv, SinglePull, OnlyRequest, Contents
<1>7. OwnFiles'
  <2> SUFFICES ASSUME single, NEW t \in Root, NEW f \in File, local'[t][f] # NoCopy
               PROVE  local'[t][f][1] = t[2]
    BY <1>2 DEF OwnFiles
  <2>1. CASE t = r /\ f = g
    BY <1>5, <1>6, <2>1
  <2>2. CASE ~(t = r /\ f = g)
    BY <1>5, <2>2 DEF CInv, AloneInv, OwnFiles
  <2> QED
    BY <2>1, <2>2
<1>8. single => \A f \in File : Fetched(r, f) \/ f = g => Fetched(r, f)'
  <2>1. single => local'[r][g] # NoCopy /\ local'[r][g][2] >= began[r][g]
    BY <1>4, <1>5, <1>6
  <2> QED
    BY <1>2, <1>5, <2>1 DEF Fetched
<1>9. queue \in Seq(File) /\ index \in Nat
  BY Parts DEF CInv
<1>10. single => \A i \in 1..(index + 1) : queue[i] \in File /\ (Fetched(r, queue[i]) \/ queue[i] = g)
  BY <1>6, <1>9
<1>11. CASE PullDone(index + 1)
  <2>1. Finish(q)
    BY <1>11 DEF LatestFileFetched
  <2>2. single => \A f \in Began(r) : Fetched(r, f)'
    <3> SUFFICES ASSUME single, NEW f \in Began(r) PROVE Fetched(r, f)'
      OBVIOUS
    <3>1. PICK i \in 1..Len(queue) : queue[i] = f
      BY <1>6
    <3>2. i \in 1..(index + 1)
      BY <1>6, <1>9, <1>11 DEF PullDone
    <3> QED
      BY <1>8, <1>10, <3>1, <3>2
  <2>3. single => Complete(r)'
    BY <1>2, <1>7, <2>2 DEF Complete, OwnFiles, Began
  <2> QED
    BY <1>1, <1>2, <1>3, <1>5, <1>7, <2>1, <2>3, FinishStep
<1>12. CASE ~PullDone(index + 1)
  <2>1. /\ index' = index + 1
        /\ net' = [net EXCEPT ![q] = Asking("file", pull[2], queue[index' + 1])]
        /\ UNCHANGED <<pull, queue, opened>>
    BY <1>12 DEF LatestFileFetched
  <2>2. index + 1 < Len(queue)
    BY <1>9, <1>12 DEF PullDone
  <2>3. PICK h : h = queue[index' + 1]
    OBVIOUS
  <2>4. /\ net'[q].op = "file" /\ net'[q].ws = r[2] /\ net'[q].file = h /\ net'[q].status = "asked"
        /\ single => \A p \in Place : Downloading(p)' => p = q
    <3>1. net' = [net EXCEPT ![q] = Asking("file", pull[2], h)]
      BY <2>1, <2>3
    <3> QED
      BY <1>1, <1>3, <1>6, <3>1, NextStep
  <2>5. SinglePull'
    <3> SUFFICES ASSUME single, NEW p \in Place, Downloading(p)' PROVE OnlyRequest(p)'
      BY <1>2 DEF SinglePull, OnlyRequest
    <3>1. p = q /\ Began(r)' = Began(r)
      BY <1>2, <2>4 DEF Began
    <3>2. ASSUME NEW i \in 1..(index + 1), NEW f, f = queue[i] PROVE Fetched(r, f)'
      BY <1>8, <1>10, <3>2
    <3>3. Contents(p)'
      BY <1>3, <1>6, <1>9, <2>1, <2>2, <2>3, <2>4, <3>1, <3>2 DEF Contents, Fetched
    <3> QED
      BY <1>3, <2>1, <2>4, <3>1, <3>3 DEF OnlyRequest
  <2>6. RootsKnown'
    <3>1. \A t \in Root \ made : t # r
      BY <1>1, <1>3 DEF CInv, AloneInv, RootsKnown
    <3> QED
      BY <1>2, <1>5, <2>1, <3>1 DEF CInv, AloneInv, RootsKnown
  <2>7. PulledIsComplete'
    <3>1. opened # NoRoot => opened \in Root \ {r}
      BY <1>1, <1>3 DEF CInv, AloneInv, RootsKnown, IInv, TypeOK, DiskTypeOK
    <3> QED
      BY <1>2, <1>5, <2>1, <3>1 DEF CInv, AloneInv, PulledIsComplete
  <2> QED
    BY <1>7, <2>5, <2>6, <2>7 DEF AloneInv
<1> QED
  BY <1>11, <1>12

-----------------------------------------------------------------------------
\* An answer of the server, or none.
LEMMA AnswerStep ==
  ASSUME CInv, NEW q \in Place, NEW x \in Request, x.op = net[q].op, x.file = net[q].file,
         x.op \in {"manifest", "file"} => x.ws = net[q].ws,
         net' = [net EXCEPT ![q] = x], ClientUnchanged,
         UNCHANGED latest,
         x.op = "manifest" /\ x.status = "ok" =>
           \A r \in Root : r[2] = net[q].ws /\ (\A f \in File : began[r][f] <= latest[r[2]][f])
                             => Began(r) \subseteq x.files,
         x.op = "file" /\ x.status = "ok" => x.version = latest[net[q].ws][net[q].file]
  PROVE  AloneInv'
<1>1. UNCHANGED <<diskVars, pull, queue, index, opened, historyVars>>
  BY DEF ClientUnchanged, pullVars
<1>2. net'[q] = x /\ \A p \in Place \ {q} : net'[p] = net[p]
  BY DEF CInv, IInv, TypeOK, NetTypeOK
<1>3. RootsKnown' /\ OwnFiles' /\ PulledIsComplete'
  BY <1>1, LatestSame, RootsStay
<1>4. SinglePull'
  <2> SUFFICES ASSUME single, pull # NoRoot, NEW p \in Place, Downloading(p)' PROVE OnlyRequest(p)'
    BY <1>1 DEF SinglePull, OnlyRequest, historyVars
  <2>1. \A t \in Place : Downloading(t)' <=> Downloading(t)
    BY <1>2 DEF Downloading
  <2>2. OnlyRequest(p) /\ pull \in Root /\ \A f \in File : began[pull][f] <= latest[pull[2]][f]
    BY Parts DEF CInv, AloneInv, SinglePull, RootsKnown
  <2>3. UNCHANGED <<local, began>>
    BY <1>1 DEF diskVars, historyVars
  <2>4. CASE p # q
    BY <1>1, <1>2, <2>1, <2>2, <2>3, <2>4 DEF OnlyRequest, Contents, Fetched, Began
  <2>5. CASE p = q
    <3>1. \A t \in Place : Downloading(t)' => t = q
      BY <2>1, <2>2, <2>5 DEF OnlyRequest
    <3>2. net'[q].ws = pull[2]
      BY <1>2, <2>1, <2>2, <2>5 DEF OnlyRequest, Downloading
    <3>3. net'[q].op = "manifest" /\ net'[q].status = "ok" => Began(pull) \subseteq net'[q].files
      BY <1>2, <2>1, <2>2, <2>5 DEF OnlyRequest
    <3>4. net'[q].op = "file" /\ net'[q].status = "ok" => net'[q].version >= began[pull][net'[q].file]
      BY <1>2, <2>1, <2>2, <2>5, Parts DEF OnlyRequest, CInv
    <3> QED
      BY <1>1, <1>2, <2>1, <2>2, <2>3, <2>5, <3>1, <3>2, <3>3, <3>4 DEF OnlyRequest, Contents, Fetched, Began
  <2> QED
    BY <2>4, <2>5
<1> QED
  BY <1>3, <1>4 DEF AloneInv

LEMMA ServeStep ==
  ASSUME CInv, NEW q \in Place, Serve(q)
  PROVE  AloneInv'
<1>1. net[q] \in Request
  BY RequestAt DEF Serve, ListWorkspaces, CreateWorkspace, GetManifest, GetLatest, Asked, CInv, IInv, TypeOK
<1>2. CASE ListWorkspaces(q) \/ \E w \in Workspace : CreateWorkspace(q, w)
  <2>1. /\ UNCHANGED <<latest, diskVars, pullVars, opened, historyVars>>
        /\ net[q].op \in {"list", "create"}
    BY <1>2 DEF ListWorkspaces, CreateWorkspace, Register, Asked, ClientUnchanged, serverVars
  <2>2. PICK x \in Request : net' = [net EXCEPT ![q] = x] /\ x.op = net[q].op
    <3>1. CASE ListWorkspaces(q)
      <4> DEFINE x == [net[q] EXCEPT !.status = "ok", !.list = registered]
      <4>1. x \in Request /\ x.op = net[q].op
        BY <1>1, <3>1 DEF ListWorkspaces, Asked, Request, Named, CInv, IInv, TypeOK, ServerTypeOK
      <4>2. net' = [net EXCEPT ![q] = x]
        BY <3>1 DEF ListWorkspaces, CInv, IInv, TypeOK, NetTypeOK
      <4> HIDE DEF x
      <4> QED
        BY <4>1, <4>2
    <3>2. ASSUME NEW w \in Workspace, CreateWorkspace(q, w)
          PROVE  \E x \in Request : net' = [net EXCEPT ![q] = x] /\ x.op = net[q].op
      <4> DEFINE x == [net[q] EXCEPT !.status = "ok", !.ws = w]
      <4>1. x \in Request /\ x.op = net[q].op
        BY <1>1, <3>2 DEF CreateWorkspace, Asked, Request, Named
      <4>2. net' = [net EXCEPT ![q] = x]
        BY <3>2 DEF CreateWorkspace, CInv, IInv, TypeOK, NetTypeOK
      <4> HIDE DEF x
      <4> QED
        BY <4>1, <4>2
    <3> QED
      BY <1>2, <3>1, <3>2
  <2>3. SinglePull'
    BY <2>1, <2>2, PlaceOfOther, PullStays DEF diskVars, historyVars
  <2> QED
    BY <2>1, <2>3, LatestSame, RootsStay DEF AloneInv, pullVars
<1>3. CASE GetManifest(q)
  <2> DEFINE x == [net[q] EXCEPT !.status = "ok", !.files = FilesOf(net[q].ws)]
  <2>1. net[q].op = "manifest" /\ ClientUnchanged /\ UNCHANGED latest
    BY <1>3 DEF GetManifest, Asked, serverVars
  <2>2. x \in Request /\ x.op = net[q].op /\ x.file = net[q].file /\ x.ws = net[q].ws
    BY <1>1, <2>1 DEF Request, Named, FilesOf
  <2>3. net' = [net EXCEPT ![q] = x]
    BY <1>3 DEF GetManifest, CInv, IInv, TypeOK, NetTypeOK
  <2>4. ASSUME NEW r \in Root, r[2] = net[q].ws, \A f \in File : began[r][f] <= latest[r[2]][f]
        PROVE  Began(r) \subseteq x.files
    <3>1. x.files = FilesOf(net[q].ws)
      BY <1>1 DEF Request
    <3>2. \A f \in File : began[r][f] \in Nat /\ latest[r[2]][f] \in Nat
      BY Parts DEF CInv
    <3> QED
      BY <2>4, <3>1, <3>2 DEF Began, FilesOf
  <2> HIDE DEF x
  <2> QED
    BY <2>1, <2>2, <2>3, <2>4, AnswerStep
<1>4. CASE GetLatest(q)
  <2> DEFINE v == latest[net[q].ws][net[q].file]
             x == [net[q] EXCEPT !.status = IF v > 0 THEN "ok" ELSE "failed", !.version = v]
  <2>1. net[q].op = "file" /\ ClientUnchanged /\ UNCHANGED latest
    BY <1>4 DEF GetLatest, Asked, serverVars
  <2>2. v \in Nat
    BY <1>1, <2>1 DEF Request, Named, CInv, IInv, TypeOK, ServerTypeOK
  <2>3. x \in Request /\ x.op = net[q].op /\ x.file = net[q].file /\ x.ws = net[q].ws /\ x.version = v
    BY <1>1, <2>1, <2>2 DEF Request, Named
  <2>4. net' = [net EXCEPT ![q] = x]
    BY <1>4 DEF GetLatest, CInv, IInv, TypeOK, NetTypeOK
  <2> HIDE DEF x
  <2> QED
    BY <2>1, <2>3, <2>4, AnswerStep
<1> QED
  BY <1>2, <1>3, <1>4 DEF Serve

LEMMA FailStep ==
  ASSUME CInv, NEW q \in Place, RequestFails(q)
  PROVE  AloneInv'
<1> DEFINE x == [net[q] EXCEPT !.status = "failed"]
<1>1. net[q] \in Request
  BY RequestAt DEF RequestFails, CInv, IInv, TypeOK
<1>2. /\ x \in Request /\ x.op = net[q].op /\ x.file = net[q].file /\ x.ws = net[q].ws
      /\ x.status = "failed"
  BY <1>1 DEF Request, Named
<1>3. net' = [net EXCEPT ![q] = x]
  BY DEF RequestFails, CInv, IInv, TypeOK, NetTypeOK
<1>4. ClientUnchanged /\ UNCHANGED latest
  BY DEF RequestFails, Register, serverVars
<1> HIDE DEF x
<1> QED
  BY <1>2, <1>3, <1>4, AnswerStep

\* Saves of others only add versions.
LEMMA OtherStep ==
  ASSUME CInv, NEW w \in Workspace, NEW f \in File, OtherSaves(w, f)
  PROVE  AloneInv'
<1>1. UNCHANGED <<net, diskVars, pullVars, opened, historyVars>>
  BY DEF OtherSaves, ClientUnchanged
<1>2. \A v \in Workspace, g \in File : latest'[v][g] \in Nat /\ latest[v][g] <= latest'[v][g]
  BY DEF OtherSaves, CInv, IInv, TypeOK, ServerTypeOK
<1> QED
  BY <1>1, <1>2, RootsStay, PullStays DEF AloneInv, pullVars, diskVars, historyVars

LEMMA CNext == CInv /\ [Next]_vars => CInv'
<1> SUFFICES ASSUME CInv, [Next]_vars, IInv' PROVE AloneInv'
  BY StepInv DEF CInv
<1>1. CASE User
  BY <1>1, MenuStep, DialogStep, PickStep DEF User
<1>2. ASSUME NEW q \in Place, Reply(q) \/ WriteFails(q) PROVE AloneInv'
  <2>1. CASE ListFetched(q) \/ IgnoreReply(q) \/ PullFailed(q) \/ WriteFails(q)
    BY <2>1, LeaveStep DEF ListFetched, IgnoreReply, PullFailed, WriteFails
  <2> QED
    BY <1>2, <2>1, CreatedStep, ManifestStep, FileStep DEF Reply
<1>3. ASSUME NEW q \in Place, Serve(q) \/ RequestFails(q) PROVE AloneInv'
  BY <1>3, ServeStep, FailStep
<1>4. CASE UNCHANGED vars
  BY <1>4, LatestSame, RootsStay, PullStays DEF AloneInv, vars, serverVars, pullVars, diskVars, historyVars
<1> QED
  BY <1>1, <1>2, <1>3, <1>4, OtherStep DEF Next

\* If no pull was begun before the last one was over, the workspace that is
\* opened has all the files that were on the server when the user chose it,
\* each in that version or a later one, and none from elsewhere.
THEOREM PullsAreComplete == Spec => []PulledIsComplete
<1>1. CInv => PulledIsComplete
  BY DEF CInv, AloneInv
<1> QED
  BY <1>1, CInit, CNext, PTL DEF Spec

=============================================================================
