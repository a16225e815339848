--------------------------- MODULE ClientSyncProofs ---------------------------
(***************************************************************************)
(* Proofs about ClientSync, for any number of clients, uploads and faults. *)
(*                                                                         *)
(* The argument for the order of saves: an upload is sent with a base that *)
(* exists, and stored when its base is the latest version.  So when an     *)
(* upload is stored, every upload sent before it has a base that is not    *)
(* above its own, and no two stored uploads have the same base.            *)
(***************************************************************************)
EXTENDS ClientSync, TLAPS

Base(r) == BaseOf(upload[r].version)

\* No version anywhere in the system is above the server's latest.
VersionsExist ==
  /\ KnownVersionsExist
  /\ \A q \in Query : query[q].version <= Len(log)
  /\ \A r \in Upload : upload[r].version <= Len(log)

\* An upload that was sent has a client and a content, one that was not sent
\* yet has not been taken.
SentOrNot ==
  \A r \in Upload :
    IF Sent(r) THEN upload[r].client \in Client /\ upload[r].content \in Text
               ELSE ~Stored(r)

\* A stored upload is the version above its base, and no other upload is.
StoredOnTop ==
  /\ \A r \in Upload : Stored(r) =>
       outcome[r].version = Base(r) + 1 /\ outcome[r].version <= Len(log)
  /\ \A r, s \in Upload : Stored(r) /\ Stored(s) /\ Base(r) = Base(s) => r = s

\* What was sent before a stored upload has no higher base.
BasesInOrder ==
  \A r, s \in Upload : r < s /\ Stored(s) => Base(r) <= Base(s)

IInv == TypeOK /\ VersionsExist /\ SentOrNot /\ StoredOnTop /\ BasesInOrder

-----------------------------------------------------------------------------
LEMMA InitInv == Init => IInv
<1> SUFFICES ASSUME Init
             PROVE  IInv
  OBVIOUS
<1> USE SyncAssumption DEF Init
<1>1. Unused \in UploadState /\ Unused.version = -1 /\ Free \in QueryState /\ Free.version = -1
  BY DEF Unused, Free, UploadState, QueryState
<1>2. log \in Seq(Text) /\ Len(log) = 0
  OBVIOUS
<1>3. outcome \in [Upload -> Outcome] /\ \A r \in Upload : ~Sent(r) /\ ~Stored(r)
  BY DEF Outcome, Sent, Stored, Upload
<1>4. TypeOK
  BY <1>1, <1>2, <1>3 DEF TypeOK
<1>5. VersionsExist
  BY <1>1, <1>2 DEF VersionsExist, KnownVersionsExist
<1> QED
  BY <1>3, <1>4, <1>5 DEF IInv, SentOrNot, StoredOnTop, BasesInOrder

\* The bases of the uploads are those of the store.
LEMMA BaseType ==
  ASSUME TypeOK, NEW r \in Upload
  PROVE  /\ Base(r) \in Nat
         /\ upload[r].version \in Nat \cup {-1}
         /\ upload[r].version <= Len(log) => Base(r) <= Len(log)
  BY DEF TypeOK, UploadState, Base, BaseOf

LEMMA HandledType ==
  ASSUME TypeOK, NEW r \in Upload, Handled(r)
  PROVE  /\ upload' \in [Upload -> UploadState]
         /\ \A s \in Upload : /\ upload'[s].client = upload[s].client
                              /\ upload'[s].version = upload[s].version
                              /\ upload'[s].content = upload[s].content
                              /\ upload'[s].handled = (s = r \/ upload[s].handled)
<1>1. upload[r] \in UploadState
  BY DEF TypeOK
<1>2. [upload[r] EXCEPT !.handled = TRUE] \in UploadState
  BY <1>1 DEF UploadState
<1>3. upload' = [upload EXCEPT ![r] = [upload[r] EXCEPT !.handled = TRUE]]
  BY DEF Handled
<1>4. upload' \in [Upload -> UploadState]
  BY <1>2, <1>3 DEF TypeOK
<1>5. /\ \A s \in Upload \ {r} : upload'[s] = upload[s]
      /\ upload'[r] = [upload[r] EXCEPT !.handled = TRUE]
  BY <1>3 DEF TypeOK
<1>6. upload'[r].handled = TRUE /\ \A s \in Upload : upload[s].handled \in BOOLEAN
  BY <1>1, <1>5 DEF TypeOK, UploadState
<1> QED
  BY <1>1, <1>4, <1>5, <1>6 DEF UploadState

\* A step that leaves the server's versions and the uploads alone keeps what
\* is said of them.
LEMMA QuietStep ==
  ASSUME IInv, TypeOK', UNCHANGED <<log, outcome, sent>>,
         \A r \in Upload : /\ upload'[r].client = upload[r].client
                           /\ upload'[r].version = upload[r].version
                           /\ upload'[r].content = upload[r].content,
         \A c \in Client : version'[c] <= Len(log),
         \A q \in Query : query'[q].version <= Len(log)
  PROVE  IInv'
<1>1. \A r \in Upload : Base(r)' = Base(r) /\ (Sent(r)' <=> Sent(r)) /\ (Stored(r)' <=> Stored(r))
  BY DEF Base, Sent, Stored
<1>2. VersionsExist'
  BY DEF IInv, VersionsExist, KnownVersionsExist
<1>3. SentOrNot'
  BY <1>1 DEF IInv, SentOrNot
<1>4. StoredOnTop'
  BY <1>1 DEF IInv, StoredOnTop
<1>5. BasesInOrder'
  BY <1>1 DEF IInv, BasesInOrder
<1> QED
  BY <1>2, <1>3, <1>4, <1>5 DEF IInv

\* refreshServerFileVersion only adds queries that have no answer yet.
LEMMA RefreshStep ==
  ASSUME IInv, NEW c \in Client, NEW n, Refresh(c, n)
  PROVE  /\ query' \in [Query -> QueryState]
         /\ \A q \in Query : query'[q].version <= Len(log)
<1>1. Len(log) \in Nat /\ -1 <= Len(log)
  BY DEF IInv, TypeOK
<1>2. CASE UNCHANGED query
  BY <1>2 DEF IInv, TypeOK, VersionsExist
<1>3. [client |-> c, asked |-> TRUE, version |-> -1] \in QueryState
  BY DEF QueryState
<1>4. CASE \E Q \in SUBSET Query :
             query' = [q \in Query |->
               IF q \in Q THEN [client |-> c, asked |-> TRUE, version |-> -1] ELSE query[q]]
  BY <1>1, <1>3, <1>4 DEF IInv, TypeOK, VersionsExist
<1> QED
  BY <1>2, <1>4 DEF Refresh

LEMMA UserStep ==
  ASSUME IInv, NEW c \in Client, User(c)
  PROVE  IInv'
<1> USE DEF IInv
<1>0. /\ \A d \in Client : version[d] <= Len(log)
      /\ \A q \in Query : query[q].version <= Len(log)
      /\ Len(log) \in Nat
  BY DEF VersionsExist, KnownVersionsExist, TypeOK
<1>1. CASE OpenFile(c)
  <2>1. TypeOK' /\ UNCHANGED <<log, outcome, sent, upload>>
    BY <1>1, RefreshStep DEF OpenFile, TypeOK, storeVars
  <2>2. \A d \in Client : version'[d] <= Len(log)
    BY <1>0, <1>1 DEF OpenFile, TypeOK
  <2> QED
    BY <1>1, <2>1, <2>2, RefreshStep, QuietStep DEF OpenFile
<1>2. CASE ShowFile(c)
  <2>1. TypeOK' /\ UNCHANGED <<log, outcome, sent, upload, version>>
    BY <1>2, RefreshStep DEF ShowFile, TypeOK, storeVars, tabVars
  <2> QED
    BY <1>0, <1>2, <2>1, RefreshStep, QuietStep DEF ShowFile
<1>3. CASE CloseFile(c)
  <2>1. TypeOK' /\ UNCHANGED <<log, outcome, sent, upload, version, query>>
    BY <1>3 DEF CloseFile, TypeOK, storeVars
  <2> QED
    BY <1>0, <2>1, QuietStep
<1>4. ASSUME NEW x \in Text, Edit(c, x)
      PROVE  IInv'
  <2>1. TypeOK' /\ UNCHANGED <<log, outcome, sent, upload, version, query>>
    BY <1>4 DEF Edit, TypeOK, storeVars
  <2> QED
    BY <1>0, <2>1, QuietStep
<1>5. CASE SaveFile(c)
  <2>1. TypeOK' /\ UNCHANGED <<log, outcome, sent, upload, version, query>>
    BY <1>5 DEF SaveFile, TypeOK, storeVars, tabVars
  <2> QED
    BY <1>0, <2>1, QuietStep
<1>6. CASE SignIn(c) \/ SignOut(c)
  <2>1. TypeOK' /\ UNCHANGED <<log, outcome, sent, upload, version, query>>
    BY <1>6 DEF SignIn, SignOut, TypeOK, storeVars, tabVars
  <2> QED
    BY <1>0, <2>1, QuietStep
<1> QED
  BY <1>1, <1>2, <1>3, <1>4, <1>5, <1>6 DEF User

\* An upload that is sent has a base that exists, and nothing follows it.
LEMMA PushStep ==
  ASSUME IInv, NEW c \in Client, Push(c)
  PROVE  IInv'
<1> USE DEF IInv
<1>1. /\ UNCHANGED <<log, outcome, version, query>>
      /\ Len(log) \in Nat
      /\ TabVersion(c) \in Nat \cup {-1}
      /\ TabVersion(c) <= Len(log)
  BY DEF Push, storeVars, tabVars, TabVersion, TypeOK, VersionsExist, KnownVersionsExist
<1>2. due[c] - 1 \in Nat
  BY DEF Push, TypeOK
<1>3. CASE UNCHANGED <<upload, sent>>
  <2>1. TypeOK'
    BY <1>2, <1>3 DEF Push, TypeOK, storeVars, tabVars
  <2> QED
    BY <1>1, <1>3, <2>1, QuietStep DEF VersionsExist, KnownVersionsExist
<1>4. ASSUME NEW n, n = sent + 1,
             sent < MaxUploads,
             sent' = n,
             upload' = [upload EXCEPT ![n] =
               [client |-> c, version |-> TabVersion(c), content |-> disk[c], handled |-> FALSE,
                had |-> had[c]]]
      PROVE  IInv'
  <2>1. n \in Upload /\ n = sent' /\ ~Sent(n) /\ sent' \in 0..MaxUploads
    BY <1>4, SyncAssumption DEF TypeOK, Upload, Sent
  <2>2. TypeOK'
    <3>1. [client |-> c, version |-> TabVersion(c), content |-> disk[c], handled |-> FALSE,
           had |-> had[c]] \in UploadState
      BY <1>1 DEF TypeOK, UploadState
    <3>2. upload' \in [Upload -> UploadState]
      BY <1>4, <3>1 DEF TypeOK
    <3> QED
      BY <1>2, <2>1, <3>2 DEF Push, TypeOK, storeVars, tabVars
  <2>3. /\ \A s \in Upload \ {n} : upload'[s] = upload[s] /\ (Sent(s)' <=> Sent(s))
        /\ Sent(n)'
        /\ \A s \in Upload : s < n <=> Sent(s)
        /\ upload'[n].client = c /\ upload'[n].version = TabVersion(c)
        /\ upload'[n].content = disk[c] /\ disk[c] \in Text
    <3>1. disk[c] \in Text
      BY DEF TypeOK
    <3>2. /\ \A s \in Upload \ {n} : upload'[s] = upload[s]
          /\ upload'[n].client = c /\ upload'[n].version = TabVersion(c)
          /\ upload'[n].content = disk[c]
      BY <1>4, <2>1 DEF TypeOK
    <3>3. /\ \A s \in Upload \ {n} : Sent(s)' <=> Sent(s)
          /\ Sent(n)'
          /\ \A s \in Upload : s < n <=> Sent(s)
      <4>1. sent \in Nat /\ sent' = sent + 1 /\ n = sent + 1 /\ Upload \subseteq Nat
        BY <1>4, SyncAssumption DEF TypeOK, Upload
      <4>2. \A s \in Nat : (s <= sent' <=> s <= sent \/ s = n) /\ (s < n <=> s <= sent)
        BY <4>1
      <4>3. \A s \in Upload : (Sent(s)' <=> Sent(s) \/ s = n) /\ (s < n <=> Sent(s))
        BY <4>1, <4>2 DEF Sent
      <4> QED
        BY <2>1, <4>3
    <3> QED
      BY <3>1, <3>2, <3>3
  <2>4. VersionsExist'
    BY <1>1, <2>3 DEF VersionsExist, KnownVersionsExist
  <2>5. /\ ~Stored(n)
        /\ \A s \in Upload : Stored(s)' <=> Stored(s)
        /\ \A s \in Upload \ {n} : Base(s)' = Base(s)
    BY <1>1, <2>1, <2>3 DEF Base, Stored, SentOrNot
  <2>6. SentOrNot'
    BY <2>3, <2>5 DEF SentOrNot
  <2>7. StoredOnTop'
    BY <1>1, <2>5 DEF StoredOnTop
  <2>8. BasesInOrder'
    <3> SUFFICES ASSUME NEW q \in Upload, NEW s \in Upload, q < s, Stored(s)'
                 PROVE  Base(q)' <= Base(s)'
      BY DEF BasesInOrder
    <3>1. Stored(s) /\ s # n /\ Sent(s)
      BY <2>5 DEF SentOrNot
    <3>2. q # n
      BY <2>1, <2>3, <3>1 DEF Upload
    <3> QED
      BY <2>5, <3>1, <3>2 DEF BasesInOrder
  <2> QED
    BY <2>2, <2>4, <2>6, <2>7, <2>8
<1> QED
  BY <1>3, <1>4 DEF Push

LEMMA ReplyStep ==
  ASSUME IInv, NEW r \in Upload, HandleUpload(r) \/ LoseUpload(r)
  PROVE  IInv'
<1> USE DEF IInv
<1>1. /\ \A d \in Client : version[d] <= Len(log)
      /\ \A q \in Query : query[q].version <= Len(log)
      /\ upload[r].client \in Client
  BY DEF VersionsExist, KnownVersionsExist, SentOrNot, HandleUpload, UploadSaved, UploadConflict,
     UploadFailed, LoseUpload, UnderWay
<1>2. Handled(r) /\ UNCHANGED <<log, outcome, sent>>
  BY DEF HandleUpload, UploadSaved, UploadConflict, UploadFailed, LoseUpload, storeVars
<1>3. CASE UploadSaved(r)
  <2>1. outcome[r].version \in Nat /\ outcome[r].version <= Len(log)
    BY <1>3 DEF UploadSaved, StoredOnTop, Stored, TypeOK, Outcome
  <2>2. /\ version' \in [Client -> Nat \cup {-1}]
        /\ \A d \in Client : version'[d] <= Len(log)
    BY <1>1, <1>3, <2>1 DEF UploadSaved, SetUploadedVersion, SetVersion, TypeOK
  <2>3. TypeOK'
    BY <1>2, <1>3, <2>2, HandledType DEF UploadSaved, TypeOK, storeVars
  <2> QED
    BY <1>1, <1>2, <1>3, <2>2, <2>3, QuietStep, HandledType DEF UploadSaved
<1>4. CASE UploadConflict(r)
  <2>1. TypeOK' /\ UNCHANGED version
    BY <1>1, <1>2, <1>4, RefreshStep, HandledType DEF UploadConflict, TypeOK, storeVars, tabVars
  <2> QED
    BY <1>1, <1>2, <1>4, <2>1, RefreshStep, QuietStep, HandledType DEF UploadConflict
<1>5. CASE UploadFailed(r) \/ LoseUpload(r)
  <2>1. TypeOK' /\ UNCHANGED <<version, query>>
    BY <1>2, <1>5, HandledType DEF UploadFailed, LoseUpload, Fault, TypeOK, storeVars, tabVars
  <2> QED
    BY <1>1, <1>2, <2>1, QuietStep, HandledType
<1> QED
  BY <1>3, <1>4, <1>5 DEF HandleUpload

LEMMA QueryStep ==
  ASSUME IInv, NEW q \in Query, VersionFetched(q) \/ TakeQuery(q) \/ LoseQuery(q)
  PROVE  IInv'
<1> USE DEF IInv
<1>1. /\ \A d \in Client : version[d] <= Len(log)
      /\ \A p \in Query : query[p].version <= Len(log)
      /\ Len(log) \in Nat /\ -1 <= Len(log)
      /\ UNCHANGED <<log, outcome, sent, upload>>
      /\ query[q] \in QueryState /\ query[q].version \in Nat \cup {-1}
      /\ Free \in QueryState /\ Free.version = -1
  BY DEF VersionsExist, KnownVersionsExist, TypeOK, VersionFetched, TakeQuery, LoseQuery, storeVars,
     QueryState, Free
<1>2. CASE VersionFetched(q)
  <2>1. /\ version' \in [Client -> Nat \cup {-1}]
        /\ \A d \in Client : version'[d] <= Len(log)
    <3>1. \/ UNCHANGED version
          \/ version' = [version EXCEPT ![query[q].client] = query[q].version]
      BY <1>2 DEF VersionFetched, SetVersion, TypeOK
    <3> QED
      BY <1>1, <3>1 DEF TypeOK
  <2>2. /\ query' \in [Query -> QueryState]
        /\ \A p \in Query : query'[p].version <= Len(log)
    BY <1>1, <1>2 DEF VersionFetched, TypeOK
  <2>3. TypeOK'
    BY <1>1, <1>2, <2>1, <2>2 DEF VersionFetched, TypeOK
  <2> QED
    BY <1>1, <2>1, <2>2, <2>3, QuietStep
<1>3. CASE TakeQuery(q)
  <2> DEFINE Answered == [query[q] EXCEPT !.asked = FALSE, !.version = Len(log)]
  <2>1. Answered \in QueryState /\ Answered.version = Len(log)
    BY <1>1 DEF QueryState
  <2>2. query' = [query EXCEPT ![q] = Answered]
    BY <1>3 DEF TakeQuery
  <2> HIDE DEF Answered
  <2>3. query' \in [Query -> QueryState] /\ \A p \in Query : query'[p].version <= Len(log)
    BY <1>1, <2>1, <2>2 DEF TypeOK
  <2>4. TypeOK' /\ UNCHANGED version
    BY <1>1, <1>3, <2>3 DEF TakeQuery, TypeOK, tabVars
  <2> QED
    BY <1>1, <2>3, <2>4, QuietStep
<1>4. CASE LoseQuery(q)
  <2>1. TypeOK' /\ UNCHANGED version
    BY <1>1, <1>4 DEF LoseQuery, Fault, TypeOK, tabVars
  <2>2. \A p \in Query : query'[p].version <= Len(log)
    BY <1>1, <1>4 DEF LoseQuery, TypeOK
  <2> QED
    BY <1>1, <2>1, <2>2, QuietStep
<1> QED
  BY <1>2, <1>3, <1>4

\* The server takes an upload: the only step in which versions are added.
LEMMA TakeStep ==
  ASSUME IInv, NEW r \in Upload, TakeUpload(r)
  PROVE  IInv'
<1> USE DEF IInv
<1>1. /\ UNCHANGED <<version, sent, upload, query>>
      /\ Sent(r)
      /\ outcome[r] = Store!Undecided
      /\ Len(log) \in Nat
      /\ upload[r].content \in Text
  BY DEF TakeUpload, tabVars, TypeOK, SentOrNot, Store!Save, Store!Reject, Store!Fail, Store!Decide
<1>2. Base(r) \in Nat /\ Base(r) <= Len(log) /\ Asked[r].base = Base(r)
  BY <1>1, BaseType DEF VersionsExist, Asked, Base
<1>3. \A s \in Upload : Base(s)' = Base(s) /\ (Sent(s)' <=> Sent(s))
  BY <1>1 DEF Base, Sent
<1>5. /\ log' = log \/ (log' = Append(log, upload[r].content) /\ Base(r) = Len(log))
      /\ \E o : /\ outcome' = [outcome EXCEPT ![r] = o]
                /\ o \in Outcome
                /\ o.status = "saved" =>
                     o.version = Len(log) + 1 /\ Len(log') = Len(log) + 1 /\ Base(r) = Len(log)
  <2> DEFINE o1 == Store!Saved(Len(log) + 1)
             o2 == Store!Failed
             o3 == Store!Conflict(Len(log))
  <2>1. /\ o1 \in Outcome /\ o1.status = "saved" /\ o1.version = Len(log) + 1
        /\ o2 \in Outcome /\ o2.status # "saved"
        /\ o3 \in Outcome /\ o3.status # "saved"
    BY <1>1 DEF Outcome, Store!Saved, Store!Failed, Store!Conflict
  <2>2. Asked[r].content = upload[r].content
    BY DEF Asked
  <2> HIDE DEF o1, o2, o3
  <2>3. CASE Store!Save(r)
    <3>1. Base(r) = Len(log) /\ log' = Append(log, upload[r].content)
      BY <1>2, <2>2, <2>3 DEF Store!Save
    <3>2. Len(log') = Len(log) + 1
      BY <1>1, <3>1 DEF TypeOK
    <3>3. outcome' = [outcome EXCEPT ![r] = o1] \/ outcome' = [outcome EXCEPT ![r] = o2]
      BY <2>3 DEF Store!Save, Store!Decide, o1, o2
    <3> QED
      BY <2>1, <3>1, <3>2, <3>3
  <2>4. CASE Store!Reject(r) \/ Store!Fail(r)
    <3>1. log' = log /\ (outcome' = [outcome EXCEPT ![r] = o2] \/ outcome' = [outcome EXCEPT ![r] = o3])
      BY <2>4 DEF Store!Reject, Store!Fail, Store!Decide, o2, o3
    <3> QED
      BY <2>1, <3>1
  <2> QED
    BY <2>3, <2>4 DEF TakeUpload
<1>6. PICK o : /\ outcome' = [outcome EXCEPT ![r] = o]
               /\ o \in Outcome
               /\ o.status = "saved" =>
                    o.version = Len(log) + 1 /\ Len(log') = Len(log) + 1 /\ Base(r) = Len(log)
  BY <1>5
<1>7. /\ log' \in Seq(Text)
      /\ Len(log') \in Nat /\ Len(log) <= Len(log')
  <2>1. Append(log, upload[r].content) \in Seq(Text) /\ Len(Append(log, upload[r].content)) = Len(log) + 1
    BY <1>1 DEF TypeOK
  <2>2. log' = log \/ log' = Append(log, upload[r].content)
    BY <1>5
  <2>3. CASE log' = log
    BY <1>1, <2>3 DEF TypeOK
  <2>4. CASE log' = Append(log, upload[r].content)
    BY <1>1, <2>1, <2>4
  <2> QED
    BY <2>2, <2>3, <2>4
<1>8. /\ outcome'[r] = o
      /\ \A s \in Upload \ {r} : outcome'[s] = outcome[s] /\ (Stored(s)' <=> Stored(s))
      /\ ~Stored(r)
      /\ Stored(r)' => o.status = "saved"
  BY <1>1, <1>6 DEF TypeOK, Stored, Store!Undecided
<1>9. TypeOK'
  <2>1. outcome' \in [Upload -> Outcome]
    BY <1>6 DEF TypeOK
  <2>2. faults' \in Nat
    BY DEF TakeUpload, Fault, TypeOK
  <2> QED
    BY <1>7, <2>1, <2>2 DEF TakeUpload, TypeOK, tabVars
<1>10. VersionsExist'
  <2>1. ASSUME NEW v \in Nat \cup {-1}, v <= Len(log)
        PROVE  v <= Len(log')
    BY <1>1, <1>7, <2>1
  <2>2. /\ \A c \in Client : version[c] \in Nat \cup {-1}
        /\ \A q \in Query : query[q].version \in Nat \cup {-1}
        /\ \A s \in Upload : upload[s].version \in Nat \cup {-1}
    BY DEF TypeOK, QueryState, UploadState
  <2> QED
    BY <1>1, <2>1, <2>2 DEF VersionsExist, KnownVersionsExist
<1>11. SentOrNot'
  BY <1>1, <1>3, <1>8 DEF SentOrNot
<1>12. StoredOnTop'
  <2>1. \A s \in Upload \ {r} : Stored(s)' =>
          /\ outcome'[s].version = Base(s)' + 1
          /\ outcome'[s].version <= Len(log)
          /\ Base(s) < Len(log)
    BY <1>1, <1>3, <1>8, BaseType DEF StoredOnTop, TypeOK
  <2>2. Stored(r)' =>
          /\ outcome'[r].version = Base(r)' + 1
          /\ outcome'[r].version <= Len(log')
          /\ Base(r) = Len(log)
    BY <1>1, <1>3, <1>6, <1>8
  <2>3. \A s \in Upload : Stored(s)' => outcome'[s].version = Base(s)' + 1 /\ outcome'[s].version <= Len(log')
    <3>1. \A s \in Upload \ {r} : Stored(s)' => outcome'[s].version <= Len(log')
      BY <1>1, <1>7, <1>8, <2>1 DEF TypeOK, Outcome
    <3> QED
      BY <2>1, <2>2, <3>1
  <2>4. ASSUME NEW s \in Upload, NEW t \in Upload, Stored(s)', Stored(t)', Base(s)' = Base(t)'
        PROVE  s = t
    <3>1. CASE s # r /\ t # r
      BY <1>3, <1>8, <2>4, <3>1 DEF StoredOnTop
    <3>2. CASE s = r \/ t = r
      BY <1>1, <1>2, <1>3, <2>1, <2>2, <2>4, <3>2, BaseType
    <3> QED
      BY <3>1, <3>2
  <2> QED
    BY <2>3, <2>4 DEF StoredOnTop
<1>13. BasesInOrder'
  <2> SUFFICES ASSUME NEW q \in Upload, NEW s \in Upload, q < s, Stored(s)'
               PROVE  Base(q) <= Base(s)
    BY <1>3 DEF BasesInOrder
  <2>1. CASE s = r
    <3>1. Base(q) <= Len(log)
      BY BaseType DEF VersionsExist
    <3>2. o.status = "saved"
      BY <1>8, <2>1
    <3> QED
      BY <1>6, <2>1, <3>1, <3>2
  <2>2. CASE s # r
    BY <1>8, <2>2 DEF BasesInOrder
  <2> QED
    BY <2>1, <2>2
<1> QED
  BY <1>9, <1>10, <1>11, <1>12, <1>13

LEMMA StepInv == IInv /\ [Next]_syncVars => IInv'
<1> SUFFICES ASSUME IInv, [Next]_syncVars
             PROVE  IInv'
  OBVIOUS
<1>1. CASE UNCHANGED syncVars
  <2>1. TypeOK' /\ UNCHANGED <<log, outcome, sent, upload, version, query>>
    BY <1>1 DEF IInv, TypeOK, syncVars
  <2> QED
    BY <2>1, QuietStep DEF IInv, VersionsExist, KnownVersionsExist
<1>2. ASSUME NEW c \in Client, User(c) \/ Push(c)
      PROVE  IInv'
  BY <1>2, UserStep, PushStep
<1>3. ASSUME NEW r \in Upload, HandleUpload(r) \/ TakeUpload(r) \/ LoseUpload(r)
      PROVE  IInv'
  BY <1>3, ReplyStep, TakeStep
<1>4. ASSUME NEW q \in Query, VersionFetched(q) \/ TakeQuery(q) \/ LoseQuery(q)
      PROVE  IInv'
  BY <1>4, QueryStep
<1> QED
  BY <1>1, <1>2, <1>3, <1>4 DEF Next

LEMMA Invariance == Spec => []IInv
  BY InitInv, StepInv, PTL DEF Spec

-----------------------------------------------------------------------------
\* The state is of the declared type in every reachable state: in particular
\* no push is taken from an empty event queue.
THEOREM TypeCorrect == Spec => []TypeOK
<1>1. IInv => TypeOK
  BY DEF IInv
<1> QED
  BY <1>1, Invariance, PTL

\* Whatever replies are late, lost or overtaken, no tab ever believes in a
\* version of the file that the server does not have.
THEOREM TabsKnowRealVersions == Spec => []KnownVersionsExist
<1>1. IInv => KnownVersionsExist
  BY DEF IInv, VersionsExist
<1> QED
  BY <1>1, Invariance, PTL

\* Uploads that are sent in parallel are stored, if at all, in the order in
\* which they were sent: a delayed upload never replaces a later save.
THEOREM SavesTakeEffectInOrder == Spec => []SavesInOrder
<1>1. IInv => SavesInOrder
  <2> SUFFICES ASSUME IInv, NEW r \in Upload, NEW s \in Upload, r < s, Stored(r), Stored(s)
               PROVE  outcome[r].version < outcome[s].version
    BY DEF SavesInOrder
  <2>1. /\ outcome[r].version = Base(r) + 1
        /\ outcome[s].version = Base(s) + 1
        /\ Base(r) # Base(s)
    BY DEF IInv, StoredOnTop, Upload
  <2>2. Base(r) \in Nat /\ Base(s) \in Nat
    BY BaseType DEF IInv
  <2>3. Base(r) <= Base(s)
    BY DEF IInv, BasesInOrder
  <2> QED
    BY <2>1, <2>2, <2>3
<1> QED
  BY <1>1, Invariance, PTL
-----------------------------------------------------------------------------
(***************************************************************************)
(* The clients and the store together: what the clients do to the server   *)
(* is what the file store lets its users do.                               *)
(***************************************************************************)
UnsentUnused == \A r \in Upload : ~Sent(r) => upload[r] = Unused

SInv == IInv /\ UnsentUnused

\* Every upload asks the store once, for a version number and a text, and the
\* store decides on it after that and once: so whatever holds of the store
\* holds of the clients' saves, and FileVersions may take the store's place.
StoreIsUsedAsPromised == Store!Spec

\* The steps that send nothing and that the server does not take.
Local ==
  \/ \E c \in Client : User(c) \/ (Push(c) /\ UNCHANGED <<upload, sent>>)
  \/ \E r \in Upload : HandleUpload(r) \/ LoseUpload(r)
  \/ \E q \in Query : VersionFetched(q) \/ TakeQuery(q) \/ LoseQuery(q)

\* A push that is made: c sends upload n.
Sends(c, n) ==
  /\ n = sent + 1 /\ sent < MaxUploads /\ sent' = n
  /\ upload' = [upload EXCEPT ![n] =
       [client |-> c, version |-> TabVersion(c), content |-> disk[c], handled |-> FALSE, had |-> had[c]]]
  /\ UNCHANGED <<log, outcome>>

LEMMA StepKinds ==
  ASSUME [Next]_syncVars
  PROVE  \/ Local \/ UNCHANGED syncVars
         \/ \E c \in Client : Sends(c, sent + 1)
         \/ \E r \in Upload : TakeUpload(r)
<1>1. ASSUME NEW c \in Client, Push(c)
      PROVE  Local \/ Sends(c, sent + 1)
  BY <1>1 DEF Push, Local, Sends, storeVars
<1> QED
  BY <1>1 DEF Next, Local

\* A reply marks an upload that was sent as handled; nothing else is touched.
LEMMA LocalStep ==
  ASSUME SInv, Local
  PROVE  UNCHANGED <<log, outcome, Asked>> /\ UnsentUnused'
<1>1. UNCHANGED <<log, outcome, sent>>
  BY DEF Local, User, OpenFile, ShowFile, CloseFile, Edit, SaveFile, SignIn, SignOut, Push, HandleUpload,
         UploadSaved, UploadConflict, UploadFailed, LoseUpload, VersionFetched, TakeQuery, LoseQuery,
         storeVars
<1>2. UNCHANGED upload \/ \E r \in Upload : Sent(r) /\ Handled(r)
  BY DEF Local, User, OpenFile, ShowFile, CloseFile, Edit, SaveFile, SignIn, SignOut, HandleUpload,
         UploadSaved, UploadConflict, UploadFailed, LoseUpload, VersionFetched, TakeQuery, LoseQuery,
         UnderWay
<1>3. \A r \in Upload : Sent(r)' <=> Sent(r)
  BY <1>1 DEF Sent
<1>4. CASE UNCHANGED upload
  BY <1>1, <1>3, <1>4 DEF Asked, SInv, UnsentUnused
<1>5. ASSUME NEW r \in Upload, Sent(r), Handled(r)
      PROVE  UNCHANGED <<log, outcome, Asked>> /\ UnsentUnused'
  <2>1. \A s \in Upload : upload'[s].version = upload[s].version /\ upload'[s].content = upload[s].content
    BY <1>5, HandledType DEF SInv, IInv
  <2>2. \A s \in Upload \ {r} : upload'[s] = upload[s]
    BY <1>5 DEF Handled, SInv, IInv, TypeOK
  <2> QED
    BY <1>1, <1>3, <1>5, <2>1, <2>2 DEF Asked, SInv, UnsentUnused
<1> QED
  BY <1>2, <1>4, <1>5

\* An upload that is sent asks the store for a save, the first time.
LEMMA SendAsks ==
  ASSUME SInv, NEW c \in Client, Sends(c, sent + 1)
  PROVE  Store!Next /\ UnsentUnused'
<1>1. PICK n : n = sent + 1
  OBVIOUS
<1>2. /\ n \in Upload /\ ~Sent(n) /\ Sent(n)'
      /\ \A s \in Upload \ {n} : Sent(s)' <=> Sent(s)
  BY <1>1, SyncAssumption DEF Sends, SInv, IInv, TypeOK, Upload, Sent
<1>3. /\ \A s \in Upload \ {n} : upload'[s] = upload[s]
      /\ upload'[n].version = TabVersion(c) /\ upload'[n].content = disk[c]
  BY <1>1, <1>2 DEF Sends, SInv, IInv, TypeOK
<1>4. BaseOf(TabVersion(c)) \in Nat /\ disk[c] \in Text
  BY DEF SInv, IInv, TypeOK, TabVersion, BaseOf
<1>5. Asked[n] = Store!Nothing
  BY <1>2 DEF Asked, Store!Nothing, SInv, UnsentUnused, Unused
<1>6. Asked' = [Asked EXCEPT ![n] = [base |-> BaseOf(TabVersion(c)), content |-> disk[c]]]
  <2>1. Asked' = [r \in Upload |-> [base    |-> IF Sent(r)' THEN BaseOf(upload'[r].version) ELSE 0,
                                   content |-> upload'[r].content]]
    BY DEF Asked, BaseOf
  <2>2. \A s \in Upload \ {n} : Asked'[s] = Asked[s]
    BY <1>2, <1>3, <2>1 DEF Asked
  <2>3. Asked'[n] = [base |-> BaseOf(TabVersion(c)), content |-> disk[c]]
    BY <1>2, <1>3, <2>1
  <2> QED
    BY <1>2, <2>1, <2>2, <2>3 DEF Asked
<1>7. Store!Ask(n, BaseOf(TabVersion(c)), disk[c])
  BY <1>5, <1>6 DEF Store!Ask, Sends
<1>8. UnsentUnused'
  BY <1>2, <1>3 DEF SInv, UnsentUnused
<1> QED
  BY <1>2, <1>4, <1>7, <1>8 DEF Store!Next

LEMMA TakeDecides ==
  ASSUME SInv, NEW r \in Upload, TakeUpload(r)
  PROVE  Store!Next /\ UnsentUnused'
<1>1. Store!Next
  BY DEF TakeUpload, Store!Next
<1>2. UNCHANGED <<sent, upload>>
  BY DEF TakeUpload
<1> QED
  BY <1>1, <1>2 DEF SInv, UnsentUnused, Sent

LEMMA StepIsOfStore == SInv /\ [Next]_syncVars => [Store!Next]_<<log, Asked, outcome>> /\ SInv'
<1> SUFFICES ASSUME SInv, [Next]_syncVars
             PROVE  [Store!Next]_<<log, Asked, outcome>> /\ UnsentUnused'
  BY StepInv DEF SInv
<1>1. CASE UNCHANGED syncVars
  BY <1>1 DEF syncVars, Asked, Sent, SInv, UnsentUnused
<1> QED
  BY <1>1, StepKinds, LocalStep, SendAsks, TakeDecides

\* The clients are users of the store as it expects them to be: a save is
\* asked for before it is decided on, is asked for once however often its
\* client saves, and is not changed by what the client does to its tab later.
THEOREM ClientsUseStore == Spec => StoreIsUsedAsPromised
<1>1. Init => Store!Init
  <2> SUFFICES ASSUME Init PROVE Store!Init
    OBVIOUS
  <2>1. \A r \in Upload : ~Sent(r)
    BY SyncAssumption DEF Init, Sent, Upload
  <2> QED
    BY <2>1 DEF Init, Asked, Unused, Store!Init, Store!Nothing, Store!Undecided
<1>2. Init => SInv
  BY InitInv DEF Init, SInv, UnsentUnused
<1> QED
  BY <1>1, <1>2, StepIsOfStore, PTL DEF Spec, StoreIsUsedAsPromised, Store!Spec, Store!vars

-----------------------------------------------------------------------------
(***************************************************************************)
(* What a tab knows of its client's own saves, when users wait for the     *)
(* replies to what they did last, until the first fault.                   *)
(*                                                                         *)
(* A user who waits has one thing under way at a time: a push, an upload   *)
(* or version requests.  So the version of the tab is not behind the       *)
(* client's saves when an upload takes it for its base, and an upload that *)
(* is refused all the same was overtaken by somebody else's save.          *)
(***************************************************************************)
Own(c, r) == upload[r].client = c

OneThing(c) ==
  /\ due[c] > 0 =>
       /\ due[c] = 1 /\ open[c] /\ signedIn[c]
       /\ \A r \in Upload : Own(c, r) => ~UnderWay(r)
       /\ \A q \in Query : query[q].client # c
  /\ \A r \in Upload : Own(c, r) /\ UnderWay(r) =>
       /\ open[c] /\ signedIn[c]
       /\ \A q \in Query : query[q].client # c
       /\ \A s \in Upload : Own(c, s) /\ UnderWay(s) => s = r

OneThingAtATime == \A c \in Client : OneThing(c)

\* Before a fault only what was decided is answered, and nothing fails.
DecidedFirst ==
  \A r \in Upload :
    /\ ~Sent(r) => outcome[r].status = "undecided"
    /\ upload[r].handled => outcome[r].status # "undecided"

\* The saves of client c that are stored are versions up to v.
OwnUpTo(c, v) == \A s \in Upload : Own(c, s) /\ Stored(s) => outcome[s].version <= v

TabKnows ==
  \A c \in Client : version[c] >= 0 =>
    \A s \in Upload : Own(c, s) /\ Stored(s) /\ ~UnderWay(s) => outcome[s].version <= version[c]

QueriesKnow ==
  \A c \in Client : \A q \in Query :
    query[q].client = c /\ ~query[q].asked => OwnUpTo(c, query[q].version)

UploadsKnow ==
  \A c \in Client : \A r \in Upload : Own(c, r) /\ UnderWay(r) =>
    /\ Stored(r) => OwnUpTo(c, outcome[r].version)
    /\ upload[r].version >= 0 =>
         \A s \in Upload \ {r} : Own(c, s) /\ Stored(s) => outcome[s].version <= upload[r].version

VersionsAreSaves ==
  \A v \in 1..Len(log) : \E s \in Upload : Stored(s) /\ outcome[s].version = v

ConflictsWithOthers ==
  \A r \in Upload : Refused(r) /\ upload[r].version >= 0 => ByOthers(r)

Orderly ==
  /\ OneThingAtATime
  /\ DecidedFirst
  /\ TabKnows
  /\ QueriesKnow
  /\ UploadsKnow
  /\ VersionsAreSaves
  /\ ConflictsWithOthers

OInv == IInv /\ (faults = 0 => Orderly)

-----------------------------------------------------------------------------
LEMMA OInit == Init => OInv
<1> SUFFICES ASSUME Init PROVE Orderly
  BY InitInv DEF OInv
<1> USE DEF Init
<1>1. Unused.client = NoClient /\ ~Unused.handled /\ Free.client = NoClient
  BY DEF Unused, Free
<1>2. /\ \A r \in Upload : ~Stored(r) /\ ~Refused(r) /\ ~Sent(r) /\ outcome[r].status = "undecided"
      /\ \A c \in Client : \A r \in Upload : ~Own(c, r)
      /\ \A c \in Client : \A q \in Query : query[q].client # c
  BY <1>1, SyncAssumption DEF Stored, Refused, Sent, Own, Upload
<1>3. 1..Len(log) = {}
  OBVIOUS
<1> QED
  BY <1>1, <1>2, <1>3
     DEF Orderly, OneThingAtATime, OneThing, DecidedFirst, TabKnows, QueriesKnow, UploadsKnow, VersionsAreSaves,
         ConflictsWithOthers

\* Uploads that stay what they are, with outcomes that stay, keep what is said
\* of the two alone.
LEMMA SavesStay ==
  ASSUME IInv, Orderly, UNCHANGED <<log, outcome, sent>>,
         \A r \in Upload : /\ upload'[r].client = upload[r].client
                           /\ upload'[r].version = upload[r].version
                           /\ upload'[r].handled = upload[r].handled
  PROVE  /\ DecidedFirst' /\ UploadsKnow' /\ VersionsAreSaves' /\ ConflictsWithOthers'
         /\ \A c \in Client, r \in Upload : Own(c, r)' <=> Own(c, r)
         /\ \A r \in Upload : (UnderWay(r)' <=> UnderWay(r)) /\ (Stored(r)' <=> Stored(r))
<1>1. /\ \A c \in Client, r \in Upload : Own(c, r)' <=> Own(c, r)
      /\ \A r \in Upload : /\ UnderWay(r)' <=> UnderWay(r)
                           /\ Stored(r)' <=> Stored(r)
                           /\ Refused(r)' <=> Refused(r)
                           /\ Sent(r)' <=> Sent(r)
                           /\ ByOthers(r)' <=> ByOthers(r)
  BY DEF Own, UnderWay, Sent, Stored, Refused, ByOthers
<1>2. UploadsKnow'
  BY <1>1 DEF Orderly, UploadsKnow, OwnUpTo
<1>3. DecidedFirst' /\ VersionsAreSaves' /\ ConflictsWithOthers'
  BY <1>1 DEF Orderly, DecidedFirst, VersionsAreSaves, ConflictsWithOthers
<1> QED
  BY <1>1, <1>2, <1>3

\* The new requests of a refresh have not been answered, and nobody else's
\* change.
LEMMA RefreshAdds ==
  ASSUME NEW c \in Client, NEW n, Refresh(c, n), TypeOK
  PROVE  \A q \in Query : \/ query'[q] = query[q]
                          \/ query'[q].client = c /\ query'[q].asked
<1>1. CASE UNCHANGED query
  BY <1>1
<1>2. CASE \E Q \in SUBSET Query :
             query' = [q \in Query |->
               IF q \in Q THEN [client |-> c, asked |-> TRUE, version |-> -1] ELSE query[q]]
  BY <1>2
<1> QED
  BY <1>1, <1>2 DEF Refresh

\* The user acts when nothing is under way.
LEMMA UserOrderly ==
  ASSUME IInv, Orderly, Patient, NEW c \in Client, User(c)
  PROVE  Orderly'
<1>1. ~Waiting(c)
  BY DEF User, OpenFile, ShowFile, CloseFile, Edit, SaveFile, SignIn, SignOut, UserActs
<1>2. /\ ~(due[c] > 0)
      /\ \A r \in Upload : Own(c, r) => ~UnderWay(r)
      /\ \A q \in Query : query[q].client # c
  BY <1>1 DEF Waiting, Own
<1>3. UNCHANGED <<log, outcome, sent, upload>>
  BY DEF User, OpenFile, ShowFile, CloseFile, Edit, SaveFile, SignIn, SignOut, storeVars
<1>4. /\ \A d \in Client \ {c} : open'[d] = open[d] /\ signedIn'[d] = signedIn[d]
      /\ \A d \in Client \ {c} : due'[d] = due[d]
      /\ \A d \in Client : version'[d] = version[d] \/ version'[d] = -1
      /\ \A q \in Query : query'[q] = query[q] \/ (query'[q].client = c /\ query'[q].asked)
      /\ \/ due'[c] = due[c]
         \/ due'[c] = due[c] + 1 /\ UNCHANGED <<query, open, signedIn>> /\ open[c] /\ signedIn[c]
  <2> USE DEF IInv, TypeOK
  <2>1. CASE OpenFile(c)
    <3>1. \A q \in Query : query'[q] = query[q] \/ (query'[q].client = c /\ query'[q].asked)
      BY <2>1, RefreshAdds DEF OpenFile
    <3> QED
      BY <2>1, <3>1 DEF OpenFile
  <2>2. CASE ShowFile(c)
    <3>1. \A q \in Query : query'[q] = query[q] \/ (query'[q].client = c /\ query'[q].asked)
      BY <2>2, RefreshAdds DEF ShowFile
    <3> QED
      BY <2>2, <3>1 DEF ShowFile, tabVars
  <2>3. CASE CloseFile(c)
    BY <2>3 DEF CloseFile
  <2>4. ASSUME NEW x \in Text, Edit(c, x)
        PROVE  UNCHANGED <<open, signedIn, due, version, query>>
    BY <2>4 DEF Edit
  <2>5. CASE SaveFile(c)
    BY <2>5 DEF SaveFile, tabVars
  <2>6. CASE SignIn(c)
    BY <2>6 DEF SignIn, tabVars
  <2>7. CASE SignOut(c)
    BY <2>7 DEF SignOut, tabVars
  <2> QED
    BY <2>1, <2>2, <2>3, <2>4, <2>5, <2>6, <2>7 DEF User
<1>5. /\ DecidedFirst' /\ UploadsKnow' /\ VersionsAreSaves' /\ ConflictsWithOthers'
      /\ \A d \in Client, r \in Upload : Own(d, r)' <=> Own(d, r)
      /\ \A r \in Upload : (UnderWay(r)' <=> UnderWay(r)) /\ (Stored(r)' <=> Stored(r))
  BY <1>3, SavesStay
<1>6. OneThingAtATime'
  <2> SUFFICES ASSUME NEW d \in Client PROVE OneThing(d)'
    BY DEF OneThingAtATime
  <2>1. CASE d # c
    BY <1>4, <1>5, <2>1 DEF Orderly, OneThingAtATime, OneThing
  <2>2. CASE d = c
    <3>1. due[c] \in Nat
      BY DEF IInv, TypeOK
    <3> QED
      BY <1>2, <1>4, <1>5, <2>2, <3>1 DEF OneThing
  <2> QED
    BY <2>1, <2>2
<1>7. TabKnows'
  BY <1>3, <1>4, <1>5 DEF Orderly, TabKnows
<1>8. QueriesKnow'
  BY <1>3, <1>4, <1>5 DEF Orderly, QueriesKnow, OwnUpTo
<1> QED
  BY <1>5, <1>6, <1>7, <1>8 DEF Orderly

\* The upload is based on the version of the tab, which knows of all that the
\* client has saved.
LEMMA PushOrderly ==
  ASSUME IInv, Orderly, NEW c \in Client, Push(c)
  PROVE  Orderly'
<1>0. PICK n : n = sent + 1
  OBVIOUS
<1>1. /\ due[c] = 1 /\ open[c] /\ signedIn[c]
      /\ \A r \in Upload : Own(c, r) => ~UnderWay(r)
      /\ \A q \in Query : query[q].client # c
  BY DEF Push, Orderly, OneThingAtATime, OneThing, IInv, TypeOK
<1>2. /\ UNCHANGED <<log, outcome, query, open, signedIn, version>>
      /\ due'[c] = 0 /\ \A d \in Client \ {c} : due'[d] = due[d]
  BY <1>1 DEF Push, storeVars, tabVars, IInv, TypeOK
<1>3. /\ sent < MaxUploads /\ sent' = n
      /\ upload' = [upload EXCEPT ![n] =
           [client |-> c, version |-> TabVersion(c), content |-> disk[c], handled |-> FALSE,
            had |-> had[c]]]
  BY <1>0, <1>1 DEF Push
<1>4. n \in Upload /\ \A s \in Upload : Sent(s)' <=> Sent(s) \/ s = n
  BY <1>0, <1>3, SyncAssumption DEF Sent, IInv, TypeOK, Upload
<1>5. /\ ~Sent(n) /\ Upload \subseteq Nat
  BY <1>0, SyncAssumption DEF Sent, Upload, IInv, TypeOK
<1>6. /\ upload'[n].client = c /\ upload'[n].version = version[c] /\ ~upload'[n].handled
      /\ \A s \in Upload \ {n} : upload'[s] = upload[s]
  BY <1>1, <1>3, <1>4 DEF IInv, TypeOK, TabVersion
<1>7. /\ outcome[n].status = "undecided" /\ ~Stored(n) /\ ~Refused(n)
      /\ \A s \in Upload : (Stored(s)' <=> Stored(s)) /\ (Refused(s)' <=> Refused(s))
  BY <1>2, <1>4, <1>5 DEF Orderly, DecidedFirst, Stored, Refused
<1>8. /\ \A s \in Upload \ {n} : UnderWay(s)' <=> UnderWay(s)
      /\ UnderWay(n)'
      /\ \A d \in Client, s \in Upload \ {n} : Own(d, s)' <=> Own(d, s)
      /\ \A d \in Client : Own(d, n)' <=> d = c
  BY <1>4, <1>6 DEF UnderWay, Own
<1>9. OneThingAtATime'
  <2> SUFFICES ASSUME NEW d \in Client PROVE OneThing(d)'
    BY DEF OneThingAtATime
  <2>1. OneThing(d)
    BY DEF Orderly, OneThingAtATime
  <2>2. CASE d = c
    BY <1>1, <1>2, <1>8, <2>2 DEF OneThing
  <2>3. CASE d # c
    BY <1>2, <1>8, <2>1, <2>3 DEF OneThing
  <2> QED
    BY <2>2, <2>3
<1>10. DecidedFirst'
  BY <1>2, <1>4, <1>6 DEF Orderly, DecidedFirst
<1>11. TabKnows'
  BY <1>2, <1>7, <1>8 DEF Orderly, TabKnows
<1>12. QueriesKnow'
  BY <1>2, <1>7, <1>8 DEF Orderly, QueriesKnow, OwnUpTo
<1>13. UploadsKnow'
  <2> SUFFICES ASSUME NEW d \in Client, NEW r \in Upload, Own(d, r)', UnderWay(r)'
               PROVE  /\ Stored(r)' => OwnUpTo(d, outcome[r].version)'
                      /\ upload'[r].version >= 0 =>
                           \A s \in Upload \ {r} :
                             Own(d, s)' /\ Stored(s)' => outcome'[s].version <= upload'[r].version
    BY DEF UploadsKnow
  <2>1. CASE r = n
    BY <1>1, <1>2, <1>6, <1>7, <1>8, <2>1 DEF Orderly, TabKnows
  <2>2. CASE r # n
    BY <1>2, <1>6, <1>7, <1>8, <2>2 DEF Orderly, UploadsKnow, OwnUpTo
  <2> QED
    BY <2>1, <2>2
<1>14. VersionsAreSaves'
  BY <1>2, <1>7 DEF Orderly, VersionsAreSaves
<1>15. ConflictsWithOthers'
  <2> SUFFICES ASSUME NEW r \in Upload, Refused(r)', upload'[r].version >= 0 PROVE ByOthers(r)'
    BY DEF ConflictsWithOthers
  <2>1. r # n /\ ByOthers(r)
    BY <1>6, <1>7 DEF Orderly, ConflictsWithOthers
  <2> QED
    BY <1>2, <1>4, <1>5, <1>6, <2>1 DEF ByOthers
<1> QED
  BY <1>9, <1>10, <1>11, <1>12, <1>13, <1>14, <1>15 DEF Orderly

\* The reply to an upload brings the version of the client's latest save, or
\* a request for the server's.
LEMMA ReplyOrderly ==
  ASSUME IInv, Orderly, NEW r \in Upload, HandleUpload(r)
  PROVE  Orderly'
<1> DEFINE c == upload[r].client
<1>1. /\ UnderWay(r) /\ Handled(r) /\ outcome[r].status # "undecided"
      /\ UNCHANGED <<log, outcome, open, signedIn, due, sent>>
  BY DEF HandleUpload, UploadSaved, UploadConflict, UploadFailed, storeVars, tabVars
<1>2. c \in Client /\ Own(c, r)
  BY <1>1 DEF UnderWay, Own, IInv, SentOrNot
<1>3. /\ open[c] /\ signedIn[c] /\ due[c] \in Nat /\ ~(due[c] > 0)
      /\ \A q \in Query : query[q].client # c
      /\ \A s \in Upload : Own(c, s) /\ UnderWay(s) => s = r
  BY <1>1, <1>2 DEF Orderly, OneThingAtATime, OneThing, IInv, TypeOK
<1>4. /\ \A s \in Upload : /\ upload'[s].client = upload[s].client
                           /\ upload'[s].version = upload[s].version
                           /\ upload'[s].handled = (s = r \/ upload[s].handled)
  BY <1>1, HandledType DEF IInv
<1>5. /\ \A d \in Client, s \in Upload : Own(d, s)' <=> Own(d, s)
      /\ \A s \in Upload : /\ Stored(s)' <=> Stored(s)
                           /\ Refused(s)' <=> Refused(s)
                           /\ Sent(s)' <=> Sent(s)
                           /\ UnderWay(s)' <=> UnderWay(s) /\ s # r
                           /\ ByOthers(s)' <=> ByOthers(s)
  BY <1>1, <1>4 DEF Own, Stored, Refused, Sent, UnderWay, ByOthers
<1>6. /\ \A q \in Query : query'[q] = query[q] \/ (query'[q].client = c /\ query'[q].asked)
      /\ \A d \in Client \ {c} : version'[d] = version[d]
      /\ Stored(r) => version'[c] = outcome[r].version
      /\ ~Stored(r) => version'[c] = version[c]
  <2>1. CASE UploadSaved(r)
    BY <1>2, <1>3, <2>1 DEF UploadSaved, SetUploadedVersion, SetVersion, Stored, IInv, TypeOK
  <2>2. CASE UploadConflict(r)
    BY <1>2, <2>2, RefreshAdds DEF UploadConflict, Stored, IInv, tabVars
  <2>3. CASE UploadFailed(r)
    BY <1>2, <2>3 DEF UploadFailed, Stored, tabVars
  <2> QED
    BY <2>1, <2>2, <2>3 DEF HandleUpload
<1> HIDE DEF c
<1>7. OneThingAtATime'
  <2> SUFFICES ASSUME NEW d \in Client PROVE OneThing(d)'
    BY DEF OneThingAtATime
  <2>1. OneThing(d)
    BY DEF Orderly, OneThingAtATime
  <2>2. CASE d = c
    BY <1>1, <1>3, <1>5, <2>2 DEF OneThing
  <2>3. CASE d # c
    BY <1>1, <1>5, <1>6, <2>1, <2>3 DEF OneThing
  <2> QED
    BY <2>2, <2>3
<1>8. DecidedFirst'
  BY <1>1, <1>4, <1>5 DEF Orderly, DecidedFirst
<1>9. TabKnows'
  <2> SUFFICES ASSUME NEW d \in Client, version'[d] >= 0, NEW s \in Upload, Own(d, s), Stored(s),
                      UnderWay(s) => s = r
               PROVE  outcome[s].version <= version'[d]
    BY <1>1, <1>5 DEF TabKnows
  <2>1. CASE d # c
    BY <1>2, <1>6, <2>1 DEF Orderly, TabKnows, Own, c
  <2>2. CASE d = c /\ Stored(r)
    BY <1>1, <1>2, <1>6, <2>2 DEF Orderly, UploadsKnow, OwnUpTo
  <2>3. CASE d = c /\ ~Stored(r)
    BY <1>6, <2>3 DEF Orderly, TabKnows
  <2> QED
    BY <2>1, <2>2, <2>3
<1>10. QueriesKnow'
  BY <1>1, <1>5, <1>6 DEF Orderly, QueriesKnow, OwnUpTo
<1>11. UploadsKnow'
  BY <1>1, <1>4, <1>5 DEF Orderly, UploadsKnow, OwnUpTo
<1>12. VersionsAreSaves' /\ ConflictsWithOthers'
  BY <1>1, <1>4, <1>5 DEF Orderly, VersionsAreSaves, ConflictsWithOthers
<1> QED
  BY <1>7, <1>8, <1>9, <1>10, <1>11, <1>12 DEF Orderly

\* The server answers with its latest version, while nothing of the client is
\* being saved.
LEMMA QueryOrderly ==
  ASSUME IInv, Orderly, NEW q \in Query, VersionFetched(q) \/ TakeQuery(q)
  PROVE  Orderly'
<1>1. /\ UNCHANGED <<log, outcome, sent, upload, open, signedIn, due>>
      /\ Free.client = NoClient
  BY DEF VersionFetched, TakeQuery, storeVars, tabVars, Free
<1>2. /\ DecidedFirst' /\ UploadsKnow' /\ VersionsAreSaves' /\ ConflictsWithOthers'
      /\ \A d \in Client, r \in Upload : Own(d, r)' <=> Own(d, r)
      /\ \A r \in Upload : (UnderWay(r)' <=> UnderWay(r)) /\ (Stored(r)' <=> Stored(r))
  BY <1>1, SavesStay
<1>3. /\ \A p \in Query \ {q} : query'[p] = query[p]
      /\ query'[q].client \in {query[q].client, NoClient}
      /\ query'[q].client # NoClient => query'[q].version = Len(log)
  BY <1>1 DEF VersionFetched, TakeQuery, IInv, TypeOK, QueryState
<1>4. \A d \in Client : version'[d] # version[d] =>
        query[q].client = d /\ ~query[q].asked /\ version'[d] = query[q].version
  BY DEF VersionFetched, TakeQuery, SetVersion, IInv, TypeOK, tabVars
<1>5. OneThingAtATime'
  <2> SUFFICES ASSUME NEW d \in Client PROVE OneThing(d)'
    BY DEF OneThingAtATime
  <2>1. \A p \in Query : query[p].client # d => query'[p].client # d
    BY <1>3, SyncAssumption
  <2> QED
    BY <1>1, <1>2, <2>1 DEF Orderly, OneThingAtATime, OneThing
<1>6. TabKnows'
  BY <1>1, <1>2, <1>4 DEF Orderly, TabKnows, QueriesKnow, OwnUpTo
<1>7. QueriesKnow'
  <2> SUFFICES ASSUME NEW d \in Client, NEW p \in Query, query'[p].client = d, ~query'[p].asked,
                      NEW s \in Upload, Own(d, s), Stored(s)
               PROVE  outcome[s].version <= query'[p].version
    BY <1>1, <1>2 DEF QueriesKnow, OwnUpTo
  <2>1. CASE p = q
    BY <1>3, <2>1, SyncAssumption DEF IInv, StoredOnTop
  <2>2. CASE p # q
    BY <1>3, <2>2 DEF Orderly, QueriesKnow, OwnUpTo
  <2> QED
    BY <2>1, <2>2
<1> QED
  BY <1>2, <1>5, <1>6, <1>7 DEF Orderly

\* A save is the latest version; what was saved since the base of an upload
\* that is refused is not its client's.
LEMMA TakeOrderly ==
  ASSUME IInv, Orderly, NEW r \in Upload, TakeUpload(r), faults' = faults
  PROVE  Orderly'
<1>1. /\ UNCHANGED <<sent, upload, query, open, signedIn, due, version>>
      /\ Sent(r) /\ outcome[r] = Store!Undecided
      /\ Len(log) \in Nat
  BY DEF TakeUpload, tabVars, IInv, TypeOK, Store!Save, Store!Reject, Store!Fail, Store!Decide
<1>2. /\ UnderWay(r) /\ ~Stored(r) /\ ~Refused(r)
  BY <1>1 DEF Orderly, DecidedFirst, UnderWay, Stored, Refused, Store!Undecided
<1>3. /\ Asked[r].base = Base(r)
      /\ Base(r) \in Nat /\ Base(r) <= Len(log)
  BY <1>1, BaseType DEF Asked, Base, IInv, VersionsExist
<1>4. outcome'[r].status # "failed"
  BY DEF TakeUpload, Fault, IInv, TypeOK
<1>5. \A o : outcome' = [outcome EXCEPT ![r] = o] => outcome'[r] = o
  BY DEF IInv, TypeOK
<1>6. \/ /\ outcome' = [outcome EXCEPT ![r] = Store!Saved(Len(log) + 1)]
         /\ log' = Append(log, Asked[r].content)
      \/ /\ outcome' = [outcome EXCEPT ![r] = Store!Conflict(Len(log))]
         /\ log' = log /\ Len(log) # Base(r)
  BY <1>3, <1>4, <1>5 DEF TakeUpload, Store!Save, Store!Reject, Store!Fail, Store!Decide, Store!Failed
<1>7. /\ outcome'[r].status \in {"saved", "conflict"}
      /\ outcome'[r].status = "saved" => outcome'[r].version = Len(log) + 1 /\ Len(log') = Len(log) + 1
      /\ outcome'[r].status = "conflict" => log' = log /\ Base(r) < Len(log)
      /\ \A s \in Upload \ {r} : outcome'[s] = outcome[s]
  <2>1. CASE /\ outcome' = [outcome EXCEPT ![r] = Store!Saved(Len(log) + 1)]
             /\ log' = Append(log, Asked[r].content)
    <3>1. outcome'[r] = Store!Saved(Len(log) + 1) /\ \A s \in Upload \ {r} : outcome'[s] = outcome[s]
      BY <2>1 DEF IInv, TypeOK
    <3>2. Asked[r].content \in Text
      BY <1>1 DEF Asked, IInv, SentOrNot
    <3>3. Len(log') = Len(log) + 1
      BY <2>1, <3>2 DEF IInv, TypeOK
    <3> QED
      BY <3>1, <3>3 DEF Store!Saved
  <2>2. CASE /\ outcome' = [outcome EXCEPT ![r] = Store!Conflict(Len(log))]
             /\ log' = log /\ Len(log) # Base(r)
    <3>1. outcome'[r] = Store!Conflict(Len(log)) /\ \A s \in Upload \ {r} : outcome'[s] = outcome[s]
      BY <2>2 DEF IInv, TypeOK
    <3> QED
      BY <1>1, <1>3, <2>2, <3>1 DEF Store!Conflict
  <2> QED
    BY <1>6, <2>1, <2>2
<1>8. /\ \A s \in Upload \ {r} : (Stored(s)' <=> Stored(s)) /\ (Refused(s)' <=> Refused(s))
      /\ \A s \in Upload : (UnderWay(s)' <=> UnderWay(s)) /\ (Sent(s)' <=> Sent(s))
      /\ \A c \in Client, s \in Upload : Own(c, s)' <=> Own(c, s)
      /\ \A s \in Upload : Stored(s) => outcome[s].version <= Len(log)
      /\ \A s \in Upload : Stored(s) => s # r
      /\ Len(log') \in Nat
  BY <1>1, <1>2, <1>7 DEF Stored, Refused, UnderWay, Sent, Own, IInv, StoredOnTop
<1>9. OneThingAtATime'
  BY <1>1, <1>8 DEF Orderly, OneThingAtATime, OneThing
<1>10. DecidedFirst'
  BY <1>1, <1>7, <1>8 DEF Orderly, DecidedFirst
<1>11. TabKnows'
  BY <1>1, <1>2, <1>7, <1>8 DEF Orderly, TabKnows
<1>12. QueriesKnow'
  <2> SUFFICES ASSUME NEW c \in Client, NEW q \in Query, query[q].client = c, ~query[q].asked,
                      NEW s \in Upload, Own(c, s), Stored(s)'
               PROVE  outcome'[s].version <= query[q].version
    BY <1>1, <1>8 DEF QueriesKnow, OwnUpTo
  <2>1. s # r
    BY <1>2 DEF Orderly, OneThingAtATime, OneThing
  <2> QED
    BY <1>7, <1>8, <2>1 DEF Orderly, QueriesKnow, OwnUpTo
<1>13. UploadsKnow'
  <2> SUFFICES ASSUME NEW c \in Client, NEW t \in Upload, Own(c, t), UnderWay(t),
                      NEW s \in Upload, Own(c, s), Stored(s)'
               PROVE  /\ Stored(t)' => outcome'[s].version <= outcome'[t].version
                      /\ upload[t].version >= 0 /\ s # t => outcome'[s].version <= upload[t].version
    BY <1>1, <1>8 DEF UploadsKnow, OwnUpTo
  <2>1. s = r => s = t
    BY <1>2 DEF Orderly, OneThingAtATime, OneThing
  <2>2. CASE t = r
    <3>1. Stored(t)' => outcome'[s].version <= outcome'[t].version
      <4>1. SUFFICES ASSUME outcome'[r].status = "saved" PROVE outcome'[s].version <= Len(log) + 1
        BY <1>7, <2>2 DEF Stored
      <4>2. s # r => /\ outcome[s].version \in Nat /\ outcome[s].version <= Len(log)
                     /\ outcome'[s].version = outcome[s].version
        BY <1>7, <1>8 DEF IInv, TypeOK, Outcome
      <4> QED
        BY <1>1, <1>7, <4>1, <4>2
    <3>2. upload[t].version >= 0 /\ s # t => outcome'[s].version <= upload[t].version
      BY <1>7, <1>8, <2>2 DEF Orderly, UploadsKnow
    <3> QED
      BY <3>1, <3>2
  <2>3. CASE t # r
    BY <1>7, <1>8, <2>1, <2>3 DEF Orderly, UploadsKnow, OwnUpTo
  <2> QED
    BY <2>2, <2>3
<1>14. VersionsAreSaves'
  <2> SUFFICES ASSUME NEW v \in 1..Len(log') PROVE \E s \in Upload : Stored(s)' /\ outcome'[s].version = v
    BY DEF VersionsAreSaves
  <2>1. CASE v <= Len(log)
    BY <1>1, <1>2, <1>7, <1>8, <2>1 DEF Orderly, VersionsAreSaves
  <2>2. CASE v > Len(log)
    BY <1>1, <1>7, <2>2 DEF Stored
  <2> QED
    BY <1>1, <2>1, <2>2
<1>15. ConflictsWithOthers'
  <2> SUFFICES ASSUME NEW t \in Upload, Refused(t)', upload[t].version >= 0 PROVE ByOthers(t)'
    BY <1>1 DEF ConflictsWithOthers
  <2>1. CASE t # r
    <3>1. PICK s \in Upload :
            /\ Sent(s) /\ upload[s].client # upload[t].client
            /\ BaseOf(upload[s].version) >= BaseOf(upload[t].version)
            /\ outcome[s].status \in {"saved", "failed"}
      BY <1>8, <2>1 DEF Orderly, ConflictsWithOthers, ByOthers
    <3>2. s # r
      BY <1>1, <3>1 DEF Store!Undecided
    <3> QED
      BY <1>1, <1>7, <1>8, <3>1, <3>2 DEF ByOthers
  <2>2. CASE t = r
    <3>1. log' = log /\ Base(r) < Len(log)
      BY <1>7, <2>2 DEF Refused
    <3>2. PICK s \in Upload : Stored(s) /\ outcome[s].version = Len(log)
      BY <1>1, <1>3, <3>1 DEF Orderly, VersionsAreSaves
    <3>3. s # r /\ Sent(s) /\ outcome'[s].status = "saved" /\ Base(s) + 1 = Len(log)
      BY <1>2, <1>7, <3>2 DEF Stored, IInv, SentOrNot, StoredOnTop
    <3>4. Base(s) \in Nat /\ Base(s) >= Base(r)
      BY <1>1, <1>3, <3>1, <3>3, BaseType DEF IInv
    <3>5. upload[s].client # upload[r].client
      <4> SUFFICES ASSUME upload[s].client = upload[r].client PROVE FALSE
        OBVIOUS
      <4>1. upload[r].client \in Client
        BY <1>1 DEF IInv, SentOrNot
      <4>2. outcome[s].version <= upload[r].version
        BY <1>2, <2>2, <3>2, <3>3, <4>1 DEF Orderly, UploadsKnow, Own
      <4>3. Base(r) = upload[r].version
        BY <2>2, BaseType DEF Base, BaseOf, IInv
      <4> QED
        BY <1>1, <1>3, <3>1, <3>2, <4>2, <4>3
    <3> QED
      BY <1>1, <1>8, <2>2, <3>3, <3>4, <3>5 DEF ByOthers, Base
  <2> QED
    BY <2>1, <2>2
<1> QED
  BY <1>9, <1>10, <1>11, <1>12, <1>13, <1>14, <1>15 DEF Orderly

LEMMA OStep ==
  ASSUME Patient
  PROVE  OInv /\ [Next]_syncVars => OInv'
<1> SUFFICES ASSUME IInv, [Next]_syncVars, faults = 0 => Orderly, faults' = 0
             PROVE  Orderly'
  BY StepInv DEF OInv
<1>1. faults \in Nat
  BY DEF IInv, TypeOK
<1>2. CASE UNCHANGED syncVars
  <2>1. /\ UNCHANGED <<log, outcome, sent, upload, query, version, due, open, signedIn, faults>>
    BY <1>2 DEF syncVars
  <2>2. /\ DecidedFirst' /\ UploadsKnow' /\ VersionsAreSaves' /\ ConflictsWithOthers'
        /\ \A d \in Client, r \in Upload : Own(d, r)' <=> Own(d, r)
        /\ \A r \in Upload : (UnderWay(r)' <=> UnderWay(r)) /\ (Stored(r)' <=> Stored(r))
    BY <2>1, SavesStay
  <2> QED
    BY <2>1, <2>2 DEF Orderly, OneThingAtATime, OneThing, TabKnows, QueriesKnow, OwnUpTo
<1>3. ASSUME NEW c \in Client, User(c) \/ Push(c)
      PROVE  Orderly'
  <2>1. faults' = faults
    BY <1>3 DEF User, OpenFile, ShowFile, CloseFile, Edit, SaveFile, SignIn, SignOut, Push
  <2> QED
    BY <1>3, <2>1, UserOrderly, PushOrderly
<1>4. ASSUME NEW r \in Upload, HandleUpload(r) \/ TakeUpload(r) \/ LoseUpload(r)
      PROVE  Orderly'
  <2>1. ~LoseUpload(r) /\ faults' = faults
    BY <1>1, <1>4 DEF HandleUpload, UploadSaved, UploadConflict, UploadFailed, TakeUpload, LoseUpload, Fault
  <2> QED
    BY <1>4, <2>1, ReplyOrderly, TakeOrderly
<1>5. ASSUME NEW q \in Query, VersionFetched(q) \/ TakeQuery(q) \/ LoseQuery(q)
      PROVE  Orderly'
  <2>1. ~LoseQuery(q) /\ faults' = faults
    BY <1>1, <1>5 DEF VersionFetched, TakeQuery, LoseQuery, Fault
  <2> QED
    BY <1>5, <2>1, QueryOrderly
<1> QED
  BY <1>2, <1>3, <1>4, <1>5 DEF Next

\* As long as every request is answered, the tab of a user who waits for the
\* replies knows the version of each of the client's own saves.
THEOREM TabsKnowOwnSaves ==
  ASSUME Patient
  PROVE  Spec => []OwnSavesAreKnown
<1>1. OInv => OwnSavesAreKnown
  <2> SUFFICES ASSUME OInv, NEW c \in Client, faults = 0, version[c] >= 0, ~Waiting(c),
                      NEW r \in Upload, upload[r].client = c, Stored(r)
               PROVE  outcome[r].version <= version[c]
    BY DEF OwnSavesAreKnown
  <2> QED
    BY DEF OInv, Orderly, TabKnows, Own, Waiting
<1>2. OInv /\ [Next]_syncVars => OInv'
  BY OStep
<1> QED
  BY <1>1, <1>2, OInit, PTL DEF Spec

\* Under the same conditions a user is not told of a conflict with a save of
\* their own, unless the tab knew of no version at all.
THEOREM ConflictsAreWithOthers ==
  ASSUME Patient
  PROVE  Spec => []KnownConflictIsWithOthers
<1>1. OInv => KnownConflictIsWithOthers
  BY DEF OInv, Orderly, ConflictsWithOthers, KnownConflictIsWithOthers
<1>2. OInv /\ [Next]_syncVars => OInv'
  BY OStep
<1> QED
  BY <1>1, <1>2, OInit, PTL DEF Spec
=============================================================================
