-------------------------- MODULE FileVersionsProofs --------------------------
(***************************************************************************)
(* Proofs about FileVersions, for any number of requests, contents, loops, *)
(* database failures and restarts.                                         *)
(*                                                                         *)
(* The argument: a handler that has passed the comparison holds            *)
(* maxV = base <= Len(rows), for rows never shrinks.  The unique key lets  *)
(* its INSERT through only when maxV + 1 is not stored, which leaves       *)
(* maxV = Len(rows): nobody has saved since the SELECT, and the INSERT     *)
(* appends.                                                                *)
(***************************************************************************)
EXTENDS FileVersions, SequenceTheorems, TLAPS

\* Where each handler stands, and what its locals say about the table.
HandlerInv ==
  \A r \in Request :
    /\ pc[r] \in {"select", "insert"} =>
         base[r] \in Base /\ content[r] \in Content /\ decision[r] = Undecided
    /\ pc[r] = "insert" => maxV[r] = base[r] /\ maxV[r] <= Len(rows)
    /\ pc[r] = "new" => base[r] = 0 /\ content[r] = NoContent /\ decision[r] = Undecided
    /\ reply[r] \in {Undecided, decision[r]}
    /\ pc[r] # "done" => reply[r] = Undecided

\* What a decision promises.
DecisionInv ==
  /\ \A r \in Request :
       /\ decision[r].status = "saved" =>
            /\ decision[r].version = base[r] + 1
            /\ decision[r].version \in 1..Len(rows)
            /\ rows[decision[r].version] = content[r]
       /\ decision[r].status = "conflict" =>
            decision[r].version # base[r] /\ decision[r].version <= Len(rows)
  /\ \A r, s \in Request :
       decision[r].status = "saved" /\ decision[s].status = "saved"
         /\ decision[r].version = decision[s].version => r = s

IInv == TypeOK /\ HandlerInv /\ DecisionInv

-----------------------------------------------------------------------------
\* The latest version is the length of the log.
LEMMA MaxVersionIsLen ==
  ASSUME rows \in Seq(Content)
  PROVE  MaxVersion = Len(rows)
<1>1. CASE Len(rows) = 0
  BY <1>1 DEF MaxVersion
<1>2. CASE Len(rows) # 0
  <2>1. DOMAIN rows = 1..Len(rows) /\ Len(rows) \in Nat
    OBVIOUS
  <2>2. Len(rows) \in DOMAIN rows /\ \A w \in DOMAIN rows : w <= Len(rows)
    BY <1>2, <2>1
  <2>3. \A v \in DOMAIN rows : (\A w \in DOMAIN rows : w <= v) => v = Len(rows)
    BY <2>1, <2>2
  <2> QED
    BY <2>2, <2>3 DEF MaxVersion
<1> QED
  BY <1>1, <1>2

\* Storing the version after the last one appends.
LEMMA WithRowAppends ==
  ASSUME rows \in Seq(Content), NEW x \in Content
  PROVE  WithRow(Len(rows) + 1, x) = Append(rows, x)
<1> DEFINE n == Len(rows) + 1
           W == [w \in 1..n |-> IF w = n THEN x ELSE rows[w]]
<1>1. /\ Len(rows) \in Nat
      /\ DOMAIN rows = 1..Len(rows)
      /\ \A w \in 1..Len(rows) : rows[w] \in Content
  BY LenProperties
<1>2. DOMAIN rows \cup {n} = 1..n
  BY <1>1
<1>3. WithRow(n, x) = W
  BY <1>2 DEF WithRow
<1>4. W \in [1..n -> Content]
  BY <1>1
<1>5. W \in Seq(Content) /\ Len(W) = n
  BY <1>1, <1>4, SeqDef
<1>6. /\ Append(rows, x) \in Seq(Content)
      /\ Len(Append(rows, x)) = n
      /\ \A i \in 1..n : Append(rows, x)[i] = IF i = n THEN x ELSE rows[i]
  BY <1>1
<1>7. \A i \in 1..Len(W) : W[i] = Append(rows, x)[i]
  BY <1>5, <1>6
<1>8. W = Append(rows, x)
  BY <1>5, <1>6, <1>7, SeqEqual
<1> QED
  BY <1>3, <1>8

\* A handler about to insert whose version is not a duplicate has the latest
\* version as its base.
LEMMA InsertAppends ==
  ASSUME IInv, NEW r \in Request, pc[r] = "insert", ~Duplicate(NextVersion(maxV[r]))
  PROVE  /\ Len(rows) = base[r]
         /\ maxV[r] = base[r]
         /\ NextVersion(maxV[r]) = Len(rows) + 1
         /\ content[r] \in Content
         /\ base[r] \in Base
         /\ WithRow(NextVersion(maxV[r]), content[r]) = Append(rows, content[r])
<1>1. maxV[r] = base[r] /\ maxV[r] <= Len(rows) /\ content[r] \in Content /\ base[r] \in Base
  BY DEF IInv, HandlerInv
<1>2. rows \in Seq(Content) /\ maxV[r] \in Nat /\ Len(rows) \in Nat /\ DOMAIN rows = 1..Len(rows)
  BY DEF IInv, TypeOK
<1>3. maxV[r] + 1 \notin 1..Len(rows)
  BY <1>2 DEF Duplicate, NextVersion
<1>4. maxV[r] = Len(rows)
  BY <1>1, <1>2, <1>3
<1> QED
  BY <1>1, <1>2, <1>4, WithRowAppends DEF NextVersion

LEMMA InitInv == Init => IInv
  BY FilesAssumption DEF Init, IInv, TypeOK, HandlerInv, DecisionInv, Undecided, Answer

\* A step that appends the content of r, or nothing, and decides about r only.
LEMMA DecideInv ==
  ASSUME IInv, NEW r \in Request, NEW d \in Answer,
         decision' = [decision EXCEPT ![r] = d],
         pc[r] \in {"new", "select", "insert"},
         UNCHANGED <<base, content, reply>>,
         \/ UNCHANGED rows
         \/ content[r] \in Content /\ rows' = Append(rows, content[r]),
         d.status = "saved" => /\ rows' = Append(rows, content[r])
                               /\ d.version = Len(rows) + 1
                               /\ d.version = base[r] + 1,
         d.status = "conflict" => d.version # base[r] /\ d.version <= Len(rows)
  PROVE  DecisionInv' /\ reply[r] = Undecided
<1> USE DEF IInv
<1>0. reply[r] = Undecided
  BY DEF HandlerInv
<1>1. rows \in Seq(Content) /\ Len(rows) \in Nat /\ rows' \in Seq(Content)
  <2>1. rows \in Seq(Content) /\ Len(rows) \in Nat
    BY DEF TypeOK
  <2>2. CASE UNCHANGED rows
    BY <2>1, <2>2
  <2>3. CASE content[r] \in Content /\ rows' = Append(rows, content[r])
    BY <2>1, <2>3
  <2> QED
    BY <2>1, <2>2, <2>3
<1>2. Len(rows') >= Len(rows) /\ \A v \in 1..Len(rows) : rows'[v] = rows[v]
  BY <1>1
<1>3. rows' = Append(rows, content[r]) => Len(rows') = Len(rows) + 1 /\ rows'[Len(rows) + 1] = content[r]
  BY <1>1, content[r] \in Content \/ UNCHANGED rows
<1>4. \A s \in Request : decision'[s] = IF s = r THEN d ELSE decision[s]
  BY DEF TypeOK
<1>5. \A s \in Request : decision[s] \in Answer /\ base[s] \in Nat
  BY DEF TypeOK
<1>6. ASSUME NEW s \in Request, decision'[s].status = "saved"
      PROVE  /\ decision'[s].version = base'[s] + 1
             /\ decision'[s].version \in 1..Len(rows')
             /\ rows'[decision'[s].version] = content'[s]
  <2>1. CASE s = r
    BY <2>1, <1>1, <1>3, <1>4, <1>6
  <2>2. CASE s # r
    <3>1. decision'[s] = decision[s] /\ decision[s].version \in 1..Len(rows)
          /\ decision[s].version = base[s] + 1 /\ rows[decision[s].version] = content[s]
      BY <2>2, <1>4, <1>6 DEF DecisionInv
    <3> QED
      BY <3>1, <1>1, <1>2
  <2> QED
    BY <2>1, <2>2
<1>7. ASSUME NEW s \in Request, decision'[s].status = "conflict"
      PROVE  decision'[s].version # base'[s] /\ decision'[s].version <= Len(rows')
  <2>1. CASE s = r
    BY <2>1, <1>1, <1>2, <1>4, <1>7 DEF Answer
  <2>2. CASE s # r
    <3>1. decision'[s] = decision[s] /\ decision[s].version # base[s]
          /\ decision[s].version <= Len(rows) /\ decision[s].version \in Nat
      BY <2>2, <1>4, <1>5, <1>7 DEF DecisionInv, Answer
    <3> QED
      BY <3>1, <1>1, <1>2
  <2> QED
    BY <2>1, <2>2
<1>8. ASSUME NEW s \in Request, NEW t \in Request,
             decision'[s].status = "saved", decision'[t].status = "saved",
             decision'[s].version = decision'[t].version
      PROVE  s = t
  <2>1. \A q \in Request : q # r /\ decision'[q].status = "saved" =>
          decision'[q] = decision[q] /\ decision[q].version \in 1..Len(rows)
    BY <1>4 DEF DecisionInv
  <2>2. d.status = "saved" => d.version \notin 1..Len(rows)
    BY <1>1
  <2>3. CASE s = r \/ t = r
    BY <2>1, <2>2, <2>3, <1>4, <1>8
  <2>4. CASE s # r /\ t # r
    BY <2>1, <2>4, <1>8 DEF DecisionInv
  <2> QED
    BY <2>3, <2>4
<1> QED
  BY <1>0, <1>6, <1>7, <1>8 DEF DecisionInv

-----------------------------------------------------------------------------
LEMMA ArriveInv ==
  ASSUME IInv, NEW r \in Request, NEW b \in Base, NEW x \in Content, Arrive(r, b, x)
  PROVE  IInv'
<1> USE DEF IInv, Arrive
<1>1. TypeOK'
  BY FilesAssumption DEF TypeOK
<1>2. HandlerInv'
  BY DEF TypeOK, HandlerInv
<1>3. DecisionInv'
  BY DEF TypeOK, HandlerInv, DecisionInv, Undecided
<1> QED
  BY <1>1, <1>2, <1>3

LEMMA RefuseInv ==
  ASSUME IInv, NEW r \in Request, Refuse(r)
  PROVE  IInv'
<1> USE DEF IInv, Refuse
<1>1. Failed \in Answer /\ Failed.status = "failed"
  BY DEF Failed, Answer
<1>2. TypeOK'
  BY <1>1 DEF TypeOK
<1>3. HandlerInv'
  BY DEF TypeOK, HandlerInv
<1>4. DecisionInv'
  BY <1>1, DecideInv
<1> QED
  BY <1>2, <1>3, <1>4

LEMMA SelectMaxInv ==
  ASSUME IInv, NEW r \in Request, SelectMax(r)
  PROVE  IInv'
<1> USE DEF IInv
<1>1. MaxVersion = Len(rows) /\ Len(rows) \in Nat
  BY MaxVersionIsLen DEF TypeOK
<1>2. CASE Stale(MaxVersion, base[r])
  <2> DEFINE d == Conflict(Len(rows))
  <2>1. d \in Answer /\ d.status = "conflict" /\ d.version = Len(rows)
    BY <1>1 DEF Conflict, Answer
  <2>2. /\ decision' = [decision EXCEPT ![r] = d]
        /\ d.version # base[r] /\ d.version <= Len(rows)
        /\ pc' = [pc EXCEPT ![r] = "answer"]
        /\ maxV' = [maxV EXCEPT ![r] = Len(rows)]
        /\ UNCHANGED <<rows, base, content, reply, faults, restarts>>
        /\ pc[r] = "select"
    BY <1>1, <1>2, <2>1 DEF SelectMax, Stale
  <2> HIDE DEF d
  <2>3. TypeOK'
    BY <1>1, <2>1, <2>2 DEF TypeOK
  <2>4. DecisionInv' /\ reply[r] = Undecided
    BY <2>1, <2>2, DecideInv
  <2>5. HandlerInv'
    BY <2>2, <2>4 DEF TypeOK, HandlerInv
  <2> QED
    BY <2>3, <2>4, <2>5
<1>3. CASE ~Stale(MaxVersion, base[r])
  <2>1. /\ base[r] = Len(rows)
        /\ pc[r] = "select" /\ pc' = [pc EXCEPT ![r] = "insert"]
        /\ maxV' = [maxV EXCEPT ![r] = Len(rows)]
        /\ UNCHANGED <<rows, base, content, decision, reply, faults, restarts>>
    BY <1>1, <1>3 DEF SelectMax, Stale
  <2>2. TypeOK'
    BY <1>1, <2>1 DEF TypeOK
  <2>3. HandlerInv'
    BY <1>1, <2>1 DEF TypeOK, HandlerInv
  <2>4. DecisionInv'
    BY <2>1 DEF DecisionInv
  <2> QED
    BY <2>2, <2>3, <2>4
<1> QED
  BY <1>2, <1>3

\* The three steps that may append: a row is added on top, and r is decided.
LEMMA AppendedInv ==
  ASSUME IInv, NEW r \in Request, pc[r] = "insert", ~Duplicate(NextVersion(maxV[r])),
         rows' = WithRow(NextVersion(maxV[r]), content[r]),
         NEW d \in {Saved(NextVersion(maxV[r])), Failed},
         decision' = [decision EXCEPT ![r] = d],
         UNCHANGED <<base, content, maxV, reply>>,
         pc'[r] # "insert" /\ pc'[r] # "select" /\ pc'[r] # "new",
         \A s \in Request : pc'[s] \in {"new", "select", "insert"} => pc'[s] = pc[s],
         \A s \in Request : pc'[s] # "done" => pc[s] # "done"
  PROVE  DecisionInv' /\ HandlerInv' /\ rows' \in Seq(Content) /\ decision' \in [Request -> Answer]
<1> USE DEF IInv
<1>1. /\ Len(rows) = base[r]
      /\ NextVersion(maxV[r]) = Len(rows) + 1
      /\ content[r] \in Content
      /\ rows' = Append(rows, content[r])
  BY InsertAppends
<1>2. rows \in Seq(Content) /\ Len(rows) \in Nat
  BY DEF TypeOK
<1>3. rows' \in Seq(Content) /\ Len(rows') = Len(rows) + 1
  <2>1. /\ Append(rows, content[r]) \in Seq(Content)
        /\ Len(Append(rows, content[r])) = Len(rows) + 1
    BY <1>1, <1>2, AppendProperties
  <2> QED
    BY <1>1, <2>1
<1>4. /\ d \in Answer
      /\ d.status # "conflict"
      /\ d.status = "saved" => d.version = Len(rows) + 1
  BY <1>1, <1>2 DEF Saved, Failed, Answer
<1>5. decision' \in [Request -> Answer]
  BY <1>4 DEF TypeOK
<1>6. DecisionInv' /\ reply[r] = Undecided
  BY <1>1, <1>2, <1>4, DecideInv
<1>7. \A s \in Request : decision'[s] = IF s = r THEN d ELSE decision[s]
  BY DEF TypeOK
<1>8. HandlerInv'
  <2> SUFFICES ASSUME NEW s \in Request
               PROVE  /\ pc'[s] \in {"select", "insert"} =>
                           base'[s] \in Base /\ content'[s] \in Content /\ decision'[s] = Undecided
                      /\ pc'[s] = "insert" => maxV'[s] = base'[s] /\ maxV'[s] <= Len(rows')
                      /\ pc'[s] = "new" => decision'[s] = Undecided
                      /\ reply'[s] \in {Undecided, decision'[s]}
                      /\ pc'[s] # "done" => reply'[s] = Undecided
    BY DEF HandlerInv
  <2>1. CASE s = r
    BY <1>6, <2>1
  <2>2. CASE s # r
    <3>1. decision'[s] = decision[s] /\ maxV[s] \in Nat
      BY <1>7, <2>2 DEF TypeOK
    <3> QED
      BY <1>2, <1>3, <3>1 DEF HandlerInv
  <2> QED
    BY <2>1, <2>2
<1> QED
  BY <1>3, <1>5, <1>6, <1>8

\* A handler that fails without having written.
LEMMA FailedInv ==
  ASSUME IInv, NEW r \in Request, pc[r] \in {"select", "insert"},
         decision' = [decision EXCEPT ![r] = Failed],
         pc' = [pc EXCEPT ![r] = "answer"],
         UNCHANGED <<rows, base, content, maxV, reply>>
  PROVE  DecisionInv' /\ HandlerInv' /\ decision' \in [Request -> Answer]
<1> USE DEF IInv
<1>1. Failed \in Answer /\ Failed.status = "failed"
  BY DEF Failed, Answer
<1>2. DecisionInv' /\ reply[r] = Undecided
  BY <1>1, DecideInv
<1>3. HandlerInv'
  BY <1>2 DEF TypeOK, HandlerInv
<1>4. decision' \in [Request -> Answer]
  BY <1>1 DEF TypeOK
<1> QED
  BY <1>2, <1>3, <1>4

LEMMA InsertInv ==
  ASSUME IInv, NEW r \in Request, Insert(r)
  PROVE  IInv'
<1> USE DEF IInv
<1>1. pc' = [pc EXCEPT ![r] = "answer"] /\ pc[r] = "insert" /\ pc \in [Request -> {"new", "select", "insert", "answer", "done"}]
      /\ UNCHANGED <<base, content, maxV, reply, faults, restarts>>
  BY DEF Insert, TypeOK
<1>2. CASE Duplicate(NextVersion(maxV[r]))
  <2>1. decision' = [decision EXCEPT ![r] = Failed] /\ UNCHANGED rows
    BY <1>2 DEF Insert
  <2>2. DecisionInv' /\ HandlerInv' /\ decision' \in [Request -> Answer]
    BY <1>1, <2>1, FailedInv
  <2> QED
    BY <1>1, <2>1, <2>2 DEF TypeOK
<1>3. CASE ~Duplicate(NextVersion(maxV[r]))
  <2>1. /\ rows' = WithRow(NextVersion(maxV[r]), content[r])
        /\ decision' = [decision EXCEPT ![r] = Saved(NextVersion(maxV[r]))]
    BY <1>3 DEF Insert
  <2>2. /\ pc'[r] = "answer"
        /\ \A s \in Request : pc'[s] \in {"new", "select", "insert"} => pc'[s] = pc[s]
        /\ \A s \in Request : pc'[s] # "done" => pc[s] # "done"
    BY <1>1
  <2>3. DecisionInv' /\ HandlerInv' /\ rows' \in Seq(Content) /\ decision' \in [Request -> Answer]
    BY <1>1, <1>3, <2>1, <2>2, AppendedInv
  <2> QED
    BY <1>1, <2>3 DEF TypeOK
<1> QED
  BY <1>2, <1>3

LEMMA DatabaseFailsInv ==
  ASSUME IInv, NEW r \in Request, DatabaseFails(r)
  PROVE  IInv'
<1> USE DEF IInv
<1>1. /\ pc' = [pc EXCEPT ![r] = "answer"] /\ pc[r] \in {"select", "insert"}
      /\ pc \in [Request -> {"new", "select", "insert", "answer", "done"}]
      /\ decision' = [decision EXCEPT ![r] = Failed]
      /\ faults' \in 0..MaxFaults
      /\ UNCHANGED <<base, content, maxV, reply, restarts>>
  BY FilesAssumption DEF DatabaseFails, TypeOK
<1>2. CASE UNCHANGED rows
  <2>1. DecisionInv' /\ HandlerInv' /\ decision' \in [Request -> Answer]
    BY <1>1, <1>2, FailedInv
  <2> QED
    BY <1>1, <1>2, <2>1 DEF TypeOK
<1>3. CASE /\ pc[r] = "insert" /\ ~Duplicate(NextVersion(maxV[r]))
           /\ rows' = WithRow(NextVersion(maxV[r]), content[r])
  <2>1. /\ pc'[r] = "answer"
        /\ \A s \in Request : pc'[s] \in {"new", "select", "insert"} => pc'[s] = pc[s]
        /\ \A s \in Request : pc'[s] # "done" => pc[s] # "done"
    BY <1>1
  <2>2. DecisionInv' /\ HandlerInv' /\ rows' \in Seq(Content) /\ decision' \in [Request -> Answer]
    BY <1>1, <1>3, <2>1, AppendedInv
  <2> QED
    BY <1>1, <2>2 DEF TypeOK
<1> QED
  BY <1>2, <1>3 DEF DatabaseFails

LEMMA ReplyInv ==
  ASSUME IInv, NEW r \in Request, Reply(r)
  PROVE  IInv'
<1> USE DEF IInv, Reply
<1>1. TypeOK'
  BY DEF TypeOK
<1>2. HandlerInv'
  BY DEF TypeOK, HandlerInv
<1>3. DecisionInv'
  BY DEF DecisionInv
<1> QED
  BY <1>1, <1>2, <1>3

LEMMA RestartInv ==
  ASSUME IInv, ServerRestart
  PROVE  IInv'
<1> USE DEF IInv
<1>1. /\ pc' = [s \in Request |-> IF InHandler(s) THEN "done" ELSE pc[s]]
      /\ restarts' \in 0..MaxRestarts
      /\ UNCHANGED <<base, content, maxV, reply, faults>>
  BY FilesAssumption DEF ServerRestart, TypeOK
<1>2. /\ pc' \in [Request -> {"new", "select", "insert", "answer", "done"}]
      /\ \A s \in Request : pc'[s] \in {"new", "done"}
      /\ \A s \in Request : pc'[s] = "new" => pc[s] = "new"
      /\ \A s \in Request : pc'[s] # "done" => pc[s] # "done"
      /\ \A s \in Request : pc[s] = "insert" => pc'[s] = "done"
  BY <1>1 DEF TypeOK, InHandler
<1>3. CASE UNCHANGED <<rows, decision>>
  <2>1. TypeOK'
    BY <1>1, <1>2, <1>3 DEF TypeOK
  <2>2. HandlerInv'
    BY <1>1, <1>2, <1>3 DEF HandlerInv
  <2>3. DecisionInv'
    BY <1>1, <1>3 DEF DecisionInv
  <2> QED
    BY <2>1, <2>2, <2>3
<1>4. ASSUME NEW r \in Request, pc[r] = "insert", ~Duplicate(NextVersion(maxV[r])),
             rows' = WithRow(NextVersion(maxV[r]), content[r]),
             decision' = [decision EXCEPT ![r] = Failed]
      PROVE  IInv'
  <2>1. /\ pc'[r] = "done"
        /\ \A s \in Request : pc'[s] \in {"new", "select", "insert"} => pc'[s] = pc[s]
    BY <1>2, <1>4
  <2>2. DecisionInv' /\ HandlerInv' /\ rows' \in Seq(Content) /\ decision' \in [Request -> Answer]
    BY <1>1, <1>2, <1>4, <2>1, AppendedInv
  <2> QED
    BY <1>1, <1>2, <2>2 DEF TypeOK
<1> QED
  BY <1>3, <1>4 DEF ServerRestart

LEMMA NextInv == IInv /\ [Next]_filesVars => IInv'
<1> SUFFICES ASSUME IInv, [Next]_filesVars
             PROVE  IInv'
  OBVIOUS
<1>1. ASSUME NEW r \in Request, NEW b \in Base, NEW x \in Content, Arrive(r, b, x)
      PROVE  IInv'
  BY <1>1, ArriveInv
<1>2. ASSUME NEW r \in Request, Refuse(r)
      PROVE  IInv'
  BY <1>2, RefuseInv
<1>3. ASSUME NEW r \in Request, SelectMax(r)
      PROVE  IInv'
  BY <1>3, SelectMaxInv
<1>4. ASSUME NEW r \in Request, Insert(r)
      PROVE  IInv'
  BY <1>4, InsertInv
<1>5. ASSUME NEW r \in Request, Reply(r)
      PROVE  IInv'
  BY <1>5, ReplyInv
<1>6. ASSUME NEW r \in Request, DatabaseFails(r)
      PROVE  IInv'
  BY <1>6, DatabaseFailsInv
<1>7. CASE ServerRestart
  BY <1>7, RestartInv
<1>8. CASE UNCHANGED filesVars
  BY <1>8 DEF filesVars, IInv, TypeOK, HandlerInv, DecisionInv
<1> QED
  BY <1>1, <1>2, <1>3, <1>4, <1>5, <1>6, <1>7, <1>8 DEF Next, Handle

-----------------------------------------------------------------------------
LEMMA Invariance == Spec => []IInv
<1> QED
  BY InitInv, NextInv, PTL DEF Spec

\* Type correctness: in particular the stored versions are always 1..n, with
\* no gap, whatever requests, loops, failures and restarts do.
THEOREM TypeCorrect == Spec => []TypeOK
<1>1. IInv => TypeOK
  BY DEF IInv
<1> QED
  BY <1>1, Invariance, PTL

\* A save reported as done is stored under the successor of its base.
THEOREM SavedStaysStored == Spec => []SavedIsStored
<1>1. IInv => SavedIsStored
  BY DEF IInv, TypeOK, HandlerInv, DecisionInv, SavedIsStored, Undecided
<1> QED
  BY <1>1, Invariance, PTL

\* Of the saves based on one version at most one is reported as done: no save
\* silently replaces another.
THEOREM NoLostUpdate == Spec => []OneSavePerBase
<1>1. IInv => OneSavePerBase
  BY DEF IInv, HandlerInv, DecisionInv, OneSavePerBase, Undecided
<1> QED
  BY <1>1, Invariance, PTL

\* A conflict names a latest version that exists and is not the base.
THEOREM ConflictsAreReal == Spec => []ConflictIsReal
<1>1. IInv => ConflictIsReal
  BY DEF IInv, TypeOK, Answer, HandlerInv, DecisionInv, ConflictIsReal, Undecided
<1> QED
  BY <1>1, Invariance, PTL

-----------------------------------------------------------------------------
(***************************************************************************)
(* FileVersions implements AtomicVersions.                                 *)
(***************************************************************************)
\* Every step changes the table by appending or not at all.
LEMMA RowsAppend ==
  ASSUME IInv, [Next]_filesVars
  PROVE  UNCHANGED rows \/ \E x \in Content : rows' = Append(rows, x)
<1>1. ASSUME NEW r \in Request, pc[r] = "insert", ~Duplicate(NextVersion(maxV[r])),
             rows' = WithRow(NextVersion(maxV[r]), content[r])
      PROVE  \E x \in Content : rows' = Append(rows, x)
  BY <1>1, InsertAppends
<1>2. ASSUME NEW r \in Request, Insert(r)
      PROVE  UNCHANGED rows \/ \E x \in Content : rows' = Append(rows, x)
  BY <1>1, <1>2 DEF Insert
<1>3. ASSUME NEW r \in Request, DatabaseFails(r)
      PROVE  UNCHANGED rows \/ \E x \in Content : rows' = Append(rows, x)
  BY <1>1, <1>3 DEF DatabaseFails
<1>4. CASE ServerRestart
  BY <1>1, <1>4 DEF ServerRestart
<1>5. CASE UNCHANGED filesVars
  BY <1>5 DEF filesVars
<1> QED
  BY <1>2, <1>3, <1>4, <1>5 DEF Next, Handle, Arrive, Refuse, SelectMax, Reply

\* The table of versions is append-only.
THEOREM RowsOnlyGrow == Spec => AppendOnly
<1>1. IInv /\ [Next]_filesVars =>
        [rows' # rows => \E x \in Content : rows' = Append(rows, x)]_filesVars
  BY RowsAppend
<1> QED
  BY <1>1, Invariance, PTL DEF Spec, AppendOnly

\* An appending step, seen from the outside.
LEMMA AppendIsSave ==
  ASSUME IInv, NEW r \in Request, pc[r] = "insert", ~Duplicate(NextVersion(maxV[r])),
         rows' = WithRow(NextVersion(maxV[r]), content[r]),
         NEW d \in {Saved(NextVersion(maxV[r])), Failed},
         decision' = [decision EXCEPT ![r] = d], UNCHANGED <<base, content>>
  PROVE  Abstract!Next
<1>1. /\ Len(rows) = base[r]
      /\ NextVersion(maxV[r]) = base[r] + 1
      /\ content[r] \in Content
      /\ rows' = Append(rows, content[r])
  BY InsertAppends
<1>2. decision[r] = Undecided
  BY DEF IInv, HandlerInv
<1>3. /\ Asked[r] # Abstract!Nothing
      /\ Asked[r].base = Len(rows)
      /\ Asked[r].content = content[r]
      /\ UNCHANGED Asked
  BY <1>1, FilesAssumption DEF Asked, Abstract!Nothing
<1>4. Abstract!Decide(r, Abstract!Saved(Len(rows) + 1)) \/ Abstract!Decide(r, Abstract!Failed)
  BY <1>1, <1>2, <1>3 DEF Abstract!Decide, Abstract!Saved, Abstract!Failed, Abstract!Undecided,
                          Saved, Failed, Undecided
<1>5. Abstract!Save(r)
  BY <1>1, <1>3, <1>4 DEF Abstract!Save
<1> QED
  BY <1>5 DEF Abstract!Next

\* Deciding to fail without a write.
LEMMA FailureIsFail ==
  ASSUME NEW r \in Request, decision[r] = Undecided,
         decision' = [decision EXCEPT ![r] = Failed], UNCHANGED <<rows, base, content>>
  PROVE  Abstract!Next
<1>1. Abstract!Fail(r)
  BY DEF Asked, Abstract!Fail, Abstract!Decide, Abstract!Undecided, Abstract!Failed, Undecided, Failed
<1> QED
  BY <1>1 DEF Abstract!Next

LEMMA StepRefines == IInv /\ [Next]_filesVars => [Abstract!Next]_<<rows, Asked, decision>>
<1> SUFFICES ASSUME IInv, [Next]_filesVars
             PROVE  Abstract!Next \/ UNCHANGED <<rows, Asked, decision>>
  OBVIOUS
<1>0. ASSUME NEW r \in Request, NEW b \in Base, NEW x \in Content, Arrive(r, b, x)
      PROVE  Abstract!Next
  <2>1. Asked[r] = Abstract!Nothing
    BY <1>0 DEF IInv, HandlerInv, Arrive, Asked, Abstract!Nothing
  <2>2. Asked' = [Asked EXCEPT ![r] = [base |-> b, content |-> x]]
    BY <1>0 DEF IInv, TypeOK, Arrive, Asked
  <2>3. Abstract!Ask(r, b, x)
    BY <1>0, <2>1, <2>2 DEF Arrive, Abstract!Ask
  <2> QED
    BY <2>3 DEF Abstract!Next
<1>1. ASSUME NEW r \in Request, Refuse(r)
      PROVE  Abstract!Next
  <2>1. decision[r] = Undecided
    BY <1>1 DEF IInv, HandlerInv, Refuse
  <2> QED
    BY <1>1, <2>1, FailureIsFail DEF Refuse
<1>2. ASSUME NEW r \in Request, SelectMax(r)
      PROVE  Abstract!Next \/ UNCHANGED <<rows, Asked, decision>>
  <2>1. MaxVersion = Len(rows)
    BY MaxVersionIsLen DEF IInv, TypeOK
  <2>2. /\ decision[r] = Undecided
        /\ Asked[r] # Abstract!Nothing
        /\ Asked[r].base = base[r]
        /\ UNCHANGED Asked
    BY <1>2, FilesAssumption DEF IInv, HandlerInv, SelectMax, Asked, Abstract!Nothing
  <2>3. CASE Stale(MaxVersion, base[r])
    <3>1. Abstract!Reject(r)
      BY <1>2, <2>1, <2>2, <2>3 DEF SelectMax, Stale, Conflict, Undecided,
         Abstract!Reject, Abstract!Decide, Abstract!Conflict, Abstract!Undecided
    <3> QED
      BY <3>1 DEF Abstract!Next
  <2>4. CASE ~Stale(MaxVersion, base[r])
    BY <1>2, <2>2, <2>4 DEF SelectMax
  <2> QED
    BY <2>3, <2>4
<1>3. ASSUME NEW r \in Request, pc[r] \in {"select", "insert"}
      PROVE  decision[r] = Undecided
  BY <1>3 DEF IInv, HandlerInv
<1>4. ASSUME NEW r \in Request, Insert(r)
      PROVE  Abstract!Next
  <2>1. CASE Duplicate(NextVersion(maxV[r]))
    BY <1>3, <1>4, <2>1, FailureIsFail DEF Insert
  <2>2. CASE ~Duplicate(NextVersion(maxV[r]))
    BY <1>4, <2>2, AppendIsSave DEF Insert
  <2> QED
    BY <2>1, <2>2
<1>5. ASSUME NEW r \in Request, DatabaseFails(r)
      PROVE  Abstract!Next
  <2>1. /\ pc[r] \in {"select", "insert"}
        /\ decision' = [decision EXCEPT ![r] = Failed]
        /\ UNCHANGED <<base, content>>
    BY <1>5 DEF DatabaseFails
  <2>2. CASE UNCHANGED rows
    BY <1>3, <2>1, <2>2, FailureIsFail
  <2>3. CASE pc[r] = "insert" /\ ~Duplicate(NextVersion(maxV[r]))
             /\ rows' = WithRow(NextVersion(maxV[r]), content[r])
    BY <2>1, <2>3, AppendIsSave
  <2> QED
    BY <1>5, <2>2, <2>3 DEF DatabaseFails
<1>6. CASE ServerRestart
  <2>1. ASSUME NEW r \in Request, pc[r] = "insert", ~Duplicate(NextVersion(maxV[r])),
               rows' = WithRow(NextVersion(maxV[r]), content[r]),
               decision' = [decision EXCEPT ![r] = Failed], UNCHANGED <<base, content>>
        PROVE  Abstract!Next
    BY <2>1, AppendIsSave
  <2> QED
    BY <1>6, <2>1 DEF ServerRestart, Asked
<1>7. ASSUME NEW r \in Request, Reply(r)
      PROVE  UNCHANGED <<rows, Asked, decision>>
  BY <1>7 DEF Reply, Asked
<1>8. CASE UNCHANGED filesVars
  BY <1>8 DEF filesVars, Asked
<1> QED
  BY <1>0, <1>1, <1>2, <1>4, <1>5, <1>6, <1>7, <1>8 DEF Next, Handle

\* Saves behave as if each took effect at one instant.
THEOREM Refinement == Spec => SavesAreAtomic
<1>1. Init => Abstract!Init
  BY DEF Init, Asked, Abstract!Init, Abstract!Nothing, Undecided, Abstract!Undecided
<1> QED
  BY <1>1, StepRefines, Invariance, PTL DEF Spec, SavesAreAtomic, Abstract!Spec, Abstract!vars
=============================================================================
