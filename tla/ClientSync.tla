------------------------------ MODULE ClientSync ------------------------------
(***************************************************************************)
(* How clients keep one file of a project in step with the server:         *)
(* saveCurrentFile, pushSavedFileToServer, refreshServerFileVersion and    *)
(* the two reply handlers of client/src/app/main_window.cpp, with the tab  *)
(* of client/src/editor and the requests of                                *)
(* client/src/network/network_client.cpp.                                  *)
(*                                                                         *)
(* A save writes the tab to disk and uploads the file with the version the *)
(* tab believes to be the latest.  Requests run in parallel, so the server *)
(* takes them in any order and their replies arrive in any order.  The     *)
(* server is the abstract file store AtomicVersions.  The clients have not *)
(* joined a collaboration channel: texts travel by saves alone.            *)
(***************************************************************************)
EXTENDS Integers, Sequences, FiniteSets

CONSTANTS
  Client,     \* running clients, each with one tab for the file
  Query,      \* places for version requests under way (bound on those at once)
  Text,       \* contents of the file
  NoClient,   \* the client of a place that is free
  NoText,     \* the content of an upload not used yet
  Patient,    \* whether users wait for the replies to what they did last
  MaxUploads, \* bound: PUT requests
  MaxFaults   \* bound: replies that are lost and uploads that fail

ASSUME SyncAssumption ==
  /\ NoClient \notin Client
  /\ NoText \notin Text
  /\ Patient \in BOOLEAN
  /\ MaxUploads \in Nat
  /\ MaxFaults \in Nat

\* PUT requests, numbered in the order in which they are sent.
Upload == 1..MaxUploads

VARIABLES
  log,      \* the server: contents of versions 1..Len(log)
  outcome,  \* the server: what became of each upload
  open,     \* whether the client has a tab for the file
  text,     \* the text in the tab
  disk,     \* the file on the client's disk
  version,  \* serverDocVersion_ of the tab, -1 when unknown
  signedIn, \* whether the client holds a token
  due,      \* pushes scheduled by saveCurrentFile for the next event loop
  sent,     \* how many uploads have been sent
  upload,   \* client, version of the tab and content of each upload, whether
            \* its reply has been handled, and what its client had had by then
  query,    \* version requests under way
  had,      \* history: the texts each client has had in its tab or on disk
  faults    \* faults so far (bounded by MaxFaults)

storeVars  == <<log, outcome>>
tabVars    == <<open, text, version>>
syncVars   == <<log, outcome, open, text, disk, version, signedIn, due, sent, upload, query, had, faults>>

Unused == [client |-> NoClient, version |-> -1, content |-> NoText, handled |-> FALSE, had |-> {}]
Free   == [client |-> NoClient, asked |-> FALSE, version |-> -1]

Outcome     == [status : {"undecided", "failed", "saved", "conflict"}, version : Nat]
UploadState == [client : Client \cup {NoClient}, version : Nat \cup {-1}, content : Text \cup {NoText},
                handled : BOOLEAN, had : SUBSET Text]
QueryState  == [client : Client \cup {NoClient}, asked : BOOLEAN, version : Nat \cup {-1}]

TypeOK ==
  /\ log \in Seq(Text)
  /\ outcome \in [Upload -> Outcome]
  /\ open \in [Client -> BOOLEAN]
  /\ text \in [Client -> Text]
  /\ disk \in [Client -> Text]
  /\ version \in [Client -> Nat \cup {-1}]
  /\ signedIn \in [Client -> BOOLEAN]
  /\ due \in [Client -> Nat]
  /\ sent \in 0..MaxUploads
  /\ upload \in [Upload -> UploadState]
  /\ query \in [Query -> QueryState]
  /\ had \in [Client -> SUBSET Text]
  /\ faults \in Nat

\* The program starts signed out (clearAuthSession in the constructor) and
\* without tabs; each client has some copy of the file on its disk.
Init ==
  /\ log = <<>>
  /\ outcome = [r \in Upload |-> [status |-> "undecided", version |-> 0]]
  /\ open = [c \in Client |-> FALSE]
  /\ text \in [Client -> Text]
  /\ disk = text
  /\ version = [c \in Client |-> -1]
  /\ signedIn = [c \in Client |-> FALSE]
  /\ due = [c \in Client |-> 0]
  /\ sent = 0
  /\ upload = [r \in Upload |-> Unused]
  /\ query = [q \in Query |-> Free]
  /\ had = [c \in Client |-> {disk[c]}]
  /\ faults = 0

-----------------------------------------------------------------------------
(***************************************************************************)
(* The user.                                                               *)
(***************************************************************************)
Sent(r)     == r <= sent
UnderWay(r) == Sent(r) /\ ~upload[r].handled

Waiting(c) ==
  \/ due[c] > 0
  \/ \E r \in Upload : upload[r].client = c /\ UnderWay(r)
  \/ \E q \in Query : query[q].client = c

UserActs(c) == Patient => ~Waiting(c)

\* Faulty variant: no request is sent.
NoRefresh(c, n) == UNCHANGED query

\* refreshServerFileVersion, n times over: nothing when signed out.
Refresh(c, n) ==
  IF ~signedIn[c] THEN UNCHANGED query
  ELSE \E Q \in SUBSET {q \in Query : query[q] = Free} :
         /\ Cardinality(Q) = n
         /\ query' = [q \in Query |->
              IF q \in Q THEN [client |-> c, asked |-> TRUE, version |-> -1] ELSE query[q]]

\* EditorAreaWidget::openFile without a tab for the file: the file is read
\* from disk, and the current file changes twice, when the tab comes up and
\* when openFile says so.
OpenFile(c) ==
  /\ UserActs(c) /\ ~open[c]
  /\ open' = [open EXCEPT ![c] = TRUE]
  /\ text' = [text EXCEPT ![c] = disk[c]]
  /\ version' = [version EXCEPT ![c] = -1]
  /\ Refresh(c, 2)
  /\ UNCHANGED <<storeVars, disk, signedIn, due, sent, upload, faults, had>>

\* The user turns to the tab: by a click on it, or through openFile, which
\* announces the file once more.
ShowFile(c) ==
  /\ UserActs(c) /\ open[c] /\ signedIn[c]
  /\ \E n \in {1, 2} : Refresh(c, n)
  /\ UNCHANGED <<storeVars, tabVars, disk, signedIn, due, sent, upload, faults, had>>

\* A tab is closed without a question, whatever it holds.
CloseFile(c) ==
  /\ UserActs(c) /\ open[c]
  /\ open' = [open EXCEPT ![c] = FALSE]
  /\ UNCHANGED <<storeVars, text, version, disk, signedIn, due, sent, upload, query, faults, had>>

Edit(c, x) ==
  /\ UserActs(c) /\ open[c]
  /\ text' = [text EXCEPT ![c] = x]
  /\ had' = [had EXCEPT ![c] = @ \cup {x}]
  /\ UNCHANGED <<storeVars, open, version, disk, signedIn, due, sent, upload, query, faults>>

\* saveCurrentFile: the disk now, the upload in the next event loop.
SaveFile(c) ==
  /\ UserActs(c) /\ open[c]
  /\ signedIn[c] => sent + due[c] < MaxUploads
  /\ disk' = [disk EXCEPT ![c] = text[c]]
  /\ due' = [due EXCEPT ![c] = IF signedIn[c] THEN @ + 1 ELSE @]
  /\ UNCHANGED <<storeVars, tabVars, signedIn, sent, upload, query, faults, had>>

SignIn(c) ==
  /\ UserActs(c) /\ ~signedIn[c]
  /\ signedIn' = [signedIn EXCEPT ![c] = TRUE]
  /\ UNCHANGED <<storeVars, tabVars, disk, due, sent, upload, query, faults, had>>

SignOut(c) ==
  /\ UserActs(c) /\ signedIn[c]
  /\ signedIn' = [signedIn EXCEPT ![c] = FALSE]
  /\ UNCHANGED <<storeVars, tabVars, disk, due, sent, upload, query, faults, had>>

-----------------------------------------------------------------------------
(***************************************************************************)
(* The client's event loop.                                                *)
(***************************************************************************)
\* serverDocVersionForPath: a closed tab has no version.
TabVersion(c) == IF open[c] THEN version[c] ELSE -1

\* The baseVersion of an upload made at the given version of the tab.
BaseOf(v) == IF v < 0 THEN 0 ELSE v

\* pushSavedFileToServer, with the file as it is on disk now.
Push(c) ==
  /\ due[c] > 0
  /\ due' = [due EXCEPT ![c] = @ - 1]
  /\ IF signedIn[c]
     THEN /\ sent < MaxUploads
          /\ sent' = sent + 1
          /\ upload' = [upload EXCEPT ![sent'] =
               [client |-> c, version |-> TabVersion(c), content |-> disk[c], handled |-> FALSE,
                had |-> had[c]]]
     ELSE UNCHANGED <<upload, sent>>
  /\ UNCHANGED <<storeVars, tabVars, disk, signedIn, query, faults, had>>

\* Faulty variant: the version the next save is to have.
SetNextVersion(c, v) == version' = [version EXCEPT ![c] = IF open[c] THEN v + 1 ELSE @]

\* setServerDocVersionForPath: nothing when the tab has been closed.
SetVersion(c, v) == version' = [version EXCEPT ![c] = IF open[c] THEN v ELSE @]

\* Faulty variant: the reply to an upload leaves the version alone.
KeepVersion(c, v) == UNCHANGED version

SetUploadedVersion(c, v) == SetVersion(c, v)

\* What the uploads ask the file store for.
Asked ==
  [r \in Upload |-> [base    |-> IF Sent(r) THEN BaseOf(upload[r].version) ELSE 0,
                     content |-> upload[r].content]]

Store == INSTANCE AtomicVersions
           WITH Request <- Upload, Content <- Text, Base <- Nat, NoContent <- NoText, asked <- Asked

Handled(r) == upload' = [upload EXCEPT ![r].handled = TRUE]

\* workspaceFileUploadFinished, when the save is done ...
UploadSaved(r) ==
  LET c == upload[r].client
  IN /\ UnderWay(r) /\ outcome[r].status = "saved"
     /\ Handled(r)
     /\ IF signedIn[c] THEN SetUploadedVersion(c, outcome[r].version) ELSE UNCHANGED version
     /\ UNCHANGED <<storeVars, open, text, disk, signedIn, due, sent, query, faults, had>>

\* ... when there is a conflict: the dialog, which lets the event loop run
\* until the user closes it, and then the query for the server's version ...
UploadConflict(r) ==
  /\ UnderWay(r) /\ outcome[r].status = "conflict"
  /\ Handled(r)
  /\ Refresh(upload[r].client, 1)
  /\ UNCHANGED <<storeVars, tabVars, disk, signedIn, due, sent, faults, had>>

\* ... and when there is neither: a line in the status bar.
UploadFailed(r) ==
  /\ UnderWay(r) /\ outcome[r].status = "failed"
  /\ Handled(r)
  /\ UNCHANGED <<storeVars, tabVars, disk, signedIn, due, sent, query, faults, had>>

\* workspaceFileVersionFetched.
VersionFetched(q) ==
  LET c == query[q].client
  IN /\ query[q] # Free /\ ~query[q].asked
     /\ query' = [query EXCEPT ![q] = Free]
     /\ SetVersion(c, query[q].version)
     /\ UNCHANGED <<storeVars, open, text, disk, signedIn, due, sent, upload, faults, had>>

-----------------------------------------------------------------------------
(***************************************************************************)
(* The server and the network.                                             *)
(***************************************************************************)
Fault == faults < MaxFaults /\ faults' = faults + 1

\* putContent, which may run even though the client has given up waiting.
TakeUpload(r) ==
  /\ Sent(r)
  /\ UNCHANGED <<tabVars, disk, signedIn, due, sent, upload, query, had>>
  /\ Store!Save(r) \/ Store!Reject(r) \/ Store!Fail(r)
  /\ IF outcome'[r].status = "failed" THEN Fault ELSE UNCHANGED faults

\* getVersion.
TakeQuery(q) ==
  /\ query[q].asked
  /\ query' = [query EXCEPT ![q].asked = FALSE, ![q].version = Len(log)]
  /\ UNCHANGED <<storeVars, tabVars, disk, signedIn, due, sent, upload, faults, had>>

\* The client learns of a broken connection instead of the reply.
LoseUpload(r) ==
  /\ UnderWay(r) /\ Fault
  /\ Handled(r)
  /\ UNCHANGED <<storeVars, tabVars, disk, signedIn, due, sent, query, had>>

LoseQuery(q) ==
  /\ query[q] # Free /\ Fault
  /\ query' = [query EXCEPT ![q] = Free]
  /\ UNCHANGED <<storeVars, tabVars, disk, signedIn, due, sent, upload, had>>

-----------------------------------------------------------------------------
User(c) ==
  \/ OpenFile(c)
  \/ ShowFile(c)
  \/ CloseFile(c)
  \/ \E x \in Text : Edit(c, x)
  \/ SaveFile(c)
  \/ SignIn(c)
  \/ SignOut(c)

HandleUpload(r) == UploadSaved(r) \/ UploadConflict(r) \/ UploadFailed(r)

Next ==
  \/ \E c \in Client : User(c) \/ Push(c)
  \/ \E r \in Upload : HandleUpload(r) \/ TakeUpload(r) \/ LoseUpload(r)
  \/ \E q \in Query : VersionFetched(q) \/ TakeQuery(q) \/ LoseQuery(q)

Spec == Init /\ [][Next]_syncVars

\* Event loops run, requests reach the server and replies the client.  A
\* conflict is handled when there is a place for its query; strong fairness
\* makes up for places that are bounded here and not in the program.
FairSpec ==
  /\ Spec
  /\ \A c \in Client : WF_syncVars(Push(c))
  /\ \A r \in Upload : WF_syncVars(UnderWay(r) /\ TakeUpload(r)) /\ SF_syncVars(HandleUpload(r))
  /\ \A q \in Query : WF_syncVars(TakeQuery(q)) /\ WF_syncVars(VersionFetched(q))

-----------------------------------------------------------------------------
(***************************************************************************)
(* Correctness.                                                            *)
(***************************************************************************)
Stored(r) == outcome[r].status = "saved"
Refused(r) == outcome[r].status = "conflict"

\* A tab never believes in a version the server does not have.
KnownVersionsExist ==
  \A c \in Client : version[c] <= Len(log)

\* Saves take effect in the order in which they were sent, by whomever: an
\* upload that was delayed never replaces a save that was sent after it.
SavesInOrder ==
  \A r, s \in Upload :
    r < s /\ Stored(r) /\ Stored(s) => outcome[r].version < outcome[s].version

\* Versions 1..Len(log) above the base of a refused upload that are not known
\* to be the same client's.
ByOthers(r) ==
  \E s \in Upload :
    /\ Sent(s) /\ upload[s].client # upload[r].client
    /\ BaseOf(upload[s].version) >= BaseOf(upload[r].version)
    /\ outcome[s].status \in {"saved", "failed"}

\* The conflict dialog tells the user to talk to the others: so somebody else
\* has saved the file since the version the upload was based on, unless a reply
\* was lost or an upload failed before.  (A tab that
\* was opened before signing in has learned of no version, is based on 0, and
\* may well conflict with its own client's saves.)
KnownConflictIsWithOthers ==
  \A r \in Upload : faults = 0 /\ Refused(r) /\ upload[r].version >= 0 => ByOthers(r)

\* A save that replaces a version was made by a client that had had the text
\* of that version: nobody overwrites what was never on the screen.
OverwritesWereSeen ==
  \A r \in Upload : Stored(r) /\ outcome[r].version > 1 =>
    log[outcome[r].version - 1] \in upload[r].had

\* A user who waits and whose requests are answered has a tab that knows the
\* client's own latest save.
OwnSavesAreKnown ==
  \A c \in Client : faults = 0 /\ open[c] /\ version[c] >= 0 /\ ~Waiting(c) =>
    \A r \in Upload : upload[r].client = c /\ Stored(r) => outcome[r].version <= version[c]

\* A conflict, unless the tab is closed, the user signed out or something was
\* lost, is followed by the tab knowing a version at least as new as the one
\* that was refused for.
ConflictIsLearned ==
  \A c \in Client : \A r \in Upload :
    upload[r].client = c /\ UnderWay(r) /\ Refused(r)
      ~> faults > 0 \/ ~open[c] \/ ~signedIn[c] \/ version[c] >= outcome[r].version
=============================================================================
