---------------------------- MODULE AtomicVersions ----------------------------
(***************************************************************************)
(* What the file store promises its clients about one file of one project: *)
(* the versions form a log to which saves only append, and a save either   *)
(* appends at once on top of the version it was based on, or is told the   *)
(* latest version, or fails.  A save that fails may have taken effect, as  *)
(* with any store whose answer may be lost.                                *)
(***************************************************************************)
EXTENDS Naturals, Sequences

CONSTANTS
  Request,  \* the saves
  Content,  \* the texts they save
  Base,     \* the versions they are based on, natural numbers
  NoContent \* the content of a save nobody has asked for

VARIABLES
  log,      \* the contents of versions 1..Len(log)
  asked,    \* the base and the content of each save
  outcome   \* what became of it

vars == <<log, asked, outcome>>

Nothing == [base |-> 0, content |-> NoContent]

Undecided == [status |-> "undecided", version |-> 0]
Failed    == [status |-> "failed", version |-> 0]

Saved(v)    == [status |-> "saved", version |-> v]
Conflict(v) == [status |-> "conflict", version |-> v]

Init ==
  /\ log = <<>>
  /\ asked = [r \in Request |-> Nothing]
  /\ outcome = [r \in Request |-> Undecided]

Ask(r, b, x) ==
  /\ asked[r] = Nothing
  /\ asked' = [asked EXCEPT ![r] = [base |-> b, content |-> x]]
  /\ UNCHANGED <<log, outcome>>

Decide(r, o) ==
  /\ outcome[r] = Undecided
  /\ outcome' = [outcome EXCEPT ![r] = o]
  /\ UNCHANGED asked

Save(r) ==
  /\ asked[r] # Nothing /\ Len(log) = asked[r].base
  /\ log' = Append(log, asked[r].content)
  /\ Decide(r, Saved(Len(log) + 1)) \/ Decide(r, Failed)

Reject(r) ==
  /\ asked[r] # Nothing /\ Len(log) # asked[r].base
  /\ Decide(r, Conflict(Len(log)))
  /\ UNCHANGED log

Fail(r) ==
  /\ Decide(r, Failed)
  /\ UNCHANGED log

Next ==
  \E r \in Request :
    \/ \E b \in Base, x \in Content : Ask(r, b, x)
    \/ Save(r)
    \/ Reject(r)
    \/ Fail(r)

Spec == Init /\ [][Next]_vars
=============================================================================
