----------------------------- MODULE FileVersions -----------------------------
(***************************************************************************)
(* Saving a version of a file on the server:                               *)
(* WorkspaceFilesController::putContent of                                 *)
(* server/src/api/workspace_files_controller.cpp, for one project key and  *)
(* one path (rows of different keys or paths do not touch each other).     *)
(*                                                                         *)
(* The handler reads the latest version with one SQL statement, compares   *)
(* it with the base version of the request, and writes the next version    *)
(* with a second statement.  There is no transaction around the two: what  *)
(* keeps versions apart is the unique key of the table.  Handlers of       *)
(* connections of the same IO loop do not interleave, those of different   *)
(* loops do.                                                               *)
(***************************************************************************)
EXTENDS Naturals, Sequences, FiniteSets

CONSTANTS
  Request,     \* PUT requests
  Loop,        \* IO loops of the server
  LoopOf,      \* the loop of the connection a request comes in on
  Content,     \* file contents
  Base,        \* base versions a request may carry (bound)
  NoContent,   \* the content of a request that has not come in
  MaxFaults,   \* bound: failures of the database
  MaxRestarts  \* bound: restarts of the server process

ASSUME FilesAssumption ==
  /\ LoopOf \in [Request -> Loop]
  /\ Base \subseteq Nat
  /\ NoContent \notin Content
  /\ MaxFaults \in Nat
  /\ MaxRestarts \in Nat

VARIABLES
  rows,      \* workspace_file_versions: version -> content
  pc,        \* how far the handler of each request has come
  base,      \* baseVersion of the request
  content,   \* content of the request
  maxV,      \* local variable maxV of the handler
  decision,  \* the answer the handler has arrived at
  reply,     \* the answer the client was sent
  faults,    \* database failures so far (bounded by MaxFaults)
  restarts   \* restarts so far (bounded by MaxRestarts)

filesVars == <<rows, pc, base, content, maxV, decision, reply, faults, restarts>>

Undecided   == [status |-> "undecided", version |-> 0]
Failed      == [status |-> "failed", version |-> 0]
Saved(v)    == [status |-> "saved", version |-> v]

\* The 409 of lines 312-320, with its latestVersion.
\* Faulty variant: it names the version after the latest.
ConflictWithNext(v) == [status |-> "conflict", version |-> v + 1]

Conflict(v) == [status |-> "conflict", version |-> v]

Answer == [status : {"undecided", "failed", "saved", "conflict"}, version : Nat]

TypeOK ==
  /\ rows \in Seq(Content)
  /\ pc \in [Request -> {"new", "select", "insert", "answer", "done"}]
  /\ base \in [Request -> Nat]
  /\ content \in [Request -> Content \cup {NoContent}]
  /\ maxV \in [Request -> Nat]
  /\ decision \in [Request -> Answer]
  /\ reply \in [Request -> Answer]
  /\ faults \in 0..MaxFaults
  /\ restarts \in 0..MaxRestarts

Init ==
  /\ rows = <<>>
  /\ pc = [r \in Request |-> "new"]
  /\ base = [r \in Request |-> 0]
  /\ content = [r \in Request |-> NoContent]
  /\ maxV = [r \in Request |-> 0]
  /\ decision = [r \in Request |-> Undecided]
  /\ reply = [r \in Request |-> Undecided]
  /\ faults = 0
  /\ restarts = 0

-----------------------------------------------------------------------------
(***************************************************************************)
(* The database.                                                           *)
(***************************************************************************)
\* SELECT COALESCE(MAX(version), 0).
MaxVersion ==
  IF DOMAIN rows = {} THEN 0
  ELSE CHOOSE v \in DOMAIN rows : \A w \in DOMAIN rows : w <= v

\* The unique key of the table on (project_key, file_path, version).
Duplicate(v) == v \in DOMAIN rows

\* INSERT of a version.
WithRow(v, x) == [w \in DOMAIN rows \cup {v} |-> IF w = v THEN x ELSE rows[w]]

-----------------------------------------------------------------------------
(***************************************************************************)
(* The handler.                                                            *)
(***************************************************************************)
InHandler(r) == pc[r] \in {"select", "insert", "answer"}

LoopIdle(r) == \A s \in Request : LoopOf[s] = LoopOf[r] => ~InHandler(s)

\* A request that passes the checks of lines 258-304.
Arrive(r, b, x) ==
  /\ pc[r] = "new" /\ LoopIdle(r)
  /\ base' = [base EXCEPT ![r] = b]
  /\ content' = [content EXCEPT ![r] = x]
  /\ pc' = [pc EXCEPT ![r] = "select"]
  /\ UNCHANGED <<rows, maxV, decision, reply, faults, restarts>>

\* A request that does not: no user, no database, not JSON, no project key or
\* path, or a path that is too long.
Refuse(r) ==
  /\ pc[r] = "new" /\ LoopIdle(r)
  /\ decision' = [decision EXCEPT ![r] = Failed]
  /\ pc' = [pc EXCEPT ![r] = "answer"]
  /\ UNCHANGED <<rows, base, content, maxV, reply, faults, restarts>>

\* The comparison of line 312.
\* Faulty variant: a base that is one version behind passes.
OneBehindIsFresh(latest, b) == latest # b /\ latest # b + 1

Stale(latest, b) == latest # b

\* Lines 307-320.
SelectMax(r) ==
  /\ pc[r] = "select"
  /\ maxV' = [maxV EXCEPT ![r] = MaxVersion]
  /\ \/ /\ Stale(MaxVersion, base[r])
        /\ decision' = [decision EXCEPT ![r] = Conflict(MaxVersion)]
        /\ pc' = [pc EXCEPT ![r] = "answer"]
     \/ /\ ~Stale(MaxVersion, base[r])
        /\ pc' = [pc EXCEPT ![r] = "insert"]
        /\ UNCHANGED decision
  /\ UNCHANGED <<rows, base, content, reply, faults, restarts>>

\* Line 322.
NextVersion(latest) == latest + 1

\* Lines 322-335, and 336-340 when the key is already there.
Insert(r) ==
  /\ pc[r] = "insert"
  /\ LET v == NextVersion(maxV[r])
     IN \/ /\ Duplicate(v)
           /\ decision' = [decision EXCEPT ![r] = Failed]
           /\ UNCHANGED rows
        \/ /\ ~Duplicate(v)
           /\ rows' = WithRow(v, content[r])
           /\ decision' = [decision EXCEPT ![r] = Saved(v)]
  /\ pc' = [pc EXCEPT ![r] = "answer"]
  /\ UNCHANGED <<base, content, maxV, reply, faults, restarts>>

\* A statement throws, lines 336-340.  An INSERT may have been carried out
\* before its connection broke.
DatabaseFails(r) ==
  /\ faults < MaxFaults
  /\ faults' = faults + 1
  /\ \/ /\ pc[r] \in {"select", "insert"}
        /\ UNCHANGED rows
     \/ /\ pc[r] = "insert" /\ ~Duplicate(NextVersion(maxV[r]))
        /\ rows' = WithRow(NextVersion(maxV[r]), content[r])
  /\ decision' = [decision EXCEPT ![r] = Failed]
  /\ pc' = [pc EXCEPT ![r] = "answer"]
  /\ UNCHANGED <<base, content, maxV, reply, restarts>>

\* callback(...): the answer goes out.
\* Faulty variant: a conflict is not answered.
ReplyUnlessConflict(r) ==
  /\ pc[r] = "answer" /\ decision[r].status # "conflict"
  /\ reply' = [reply EXCEPT ![r] = decision[r]]
  /\ pc' = [pc EXCEPT ![r] = "done"]
  /\ UNCHANGED <<rows, base, content, maxV, decision, faults, restarts>>

Reply(r) ==
  /\ pc[r] = "answer"
  /\ reply' = [reply EXCEPT ![r] = decision[r]]
  /\ pc' = [pc EXCEPT ![r] = "done"]
  /\ UNCHANGED <<rows, base, content, maxV, decision, faults, restarts>>

\* The process ends: requests in progress are never answered.  The database
\* may still carry out an INSERT it had already been sent.
ServerRestart ==
  /\ restarts < MaxRestarts
  /\ restarts' = restarts + 1
  /\ \/ UNCHANGED <<rows, decision>>
     \/ \E r \in Request :
          /\ pc[r] = "insert" /\ ~Duplicate(NextVersion(maxV[r]))
          /\ rows' = WithRow(NextVersion(maxV[r]), content[r])
          /\ decision' = [decision EXCEPT ![r] = Failed]
  /\ pc' = [r \in Request |-> IF InHandler(r) THEN "done" ELSE pc[r]]
  /\ UNCHANGED <<base, content, maxV, reply, faults>>

Handle(r) == SelectMax(r) \/ Insert(r) \/ Reply(r)

Next ==
  \/ \E r \in Request :
       \/ \E b \in Base, x \in Content : Arrive(r, b, x)
       \/ Refuse(r)
       \/ Handle(r)
       \/ DatabaseFails(r)
  \/ ServerRestart

Spec == Init /\ [][Next]_filesVars

\* A loop that has begun a request answers it.
FairSpec == Spec /\ \A r \in Request : WF_filesVars(Handle(r))

-----------------------------------------------------------------------------
(***************************************************************************)
(* Correctness.                                                            *)
(***************************************************************************)
\* A save that was reported as done is stored under the version reported,
\* the successor of its base, and stays there; so two saves based on the same
\* version are never both reported as done, and no save is overwritten.
SavedIsStored ==
  \A r \in Request : reply[r].status = "saved" =>
    /\ reply[r].version = base[r] + 1
    /\ reply[r].version \in DOMAIN rows
    /\ rows[reply[r].version] = content[r]

OneSavePerBase ==
  \A r, s \in Request :
    reply[r].status = "saved" /\ reply[s].status = "saved" /\ base[r] = base[s] => r = s

\* A conflict is only reported when the latest version really was another
\* one than the base, and names a version that exists.
ConflictIsReal ==
  \A r \in Request : reply[r].status = "conflict" =>
    /\ reply[r].version # base[r]
    /\ reply[r].version = 0 \/ reply[r].version \in DOMAIN rows

\* Versions are only ever added, one at a time, on top.
AppendOnly ==
  [][rows' # rows => \E x \in Content : rows' = Append(rows, x)]_filesVars

\* Every save a loop has begun is answered, unless the server ends first.
SavesAreAnswered ==
  \A r \in Request : InHandler(r) ~> pc[r] = "done"

\* What each request asks for, once it has come in.
Asked == [r \in Request |-> [base |-> base[r], content |-> content[r]]]

Abstract == INSTANCE AtomicVersions WITH log <- rows, asked <- Asked, outcome <- decision

\* Seen from the outside, saves are atomic.
SavesAreAtomic == Abstract!Spec
=============================================================================
