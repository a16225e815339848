--------------------------- MODULE LiveEditProofs ---------------------------
(***************************************************************************)
(* Proofs about LiveEdit, for any number of clients, projects and edits.   *)
(*                                                                         *)
(* The argument: what is under way on a channel was typed in the room of   *)
(* that channel, because a channel that ends takes along what was on it.   *)
(* While somebody is listed as present for the last edit of a room,        *)
(* nothing but that edit is under way in it, so whoever has not shown it   *)
(* still has something to read.                                            *)
(***************************************************************************)
EXTENDS LiveEdit, TLAPS

\* Every text anybody holds is the common one or one that was typed.
Known ==
  /\ \A c \in Client : tab[c] \in 0..Len(typed) \cup {Closed, Damaged}
  /\ \A c \in Client : \A p \in Project : disk[c][p] \in 0..Len(typed) \cup {Damaged}
  /\ \A c \in Client : Edits(out[c]) \subseteq DOMAIN typed
  /\ \A c, d \in Client : Edits(pipe[c][d]) \subseteq DOMAIN typed

\* What is under way on a channel was typed in its room.
InRoom ==
  \A c \in Client :
    /\ \A e \in Edits(out[c]) : typed[e].room = room[c]
    /\ \A d \in Client : \A e \in Edits(pipe[d][c]) : typed[e].room = room[c]
    /\ ~Connected(c) => out[c] = <<>> /\ \A d \in Client : pipe[d][c] = <<>>

\* Fits, for the edits and the history that are given.
May(edits, strays, t, p) ==
  t \in DOMAIN edits =>
    edits[t].project = p \/ edits[t].room \notin {NoRoom, edits[t].project} \/ strays

Placed ==
  \A c \in Client :
    /\ Connected(c) => room[c] = project[c] \/ strayed[c]
    /\ May(typed, strayed[c], tab[c], project[c])
    /\ \A p \in Project : May(typed, strayed[c], disk[c][p], p)

\* Client c has, or will be sent, or was told of, the last edit e of room p.
Waits(c, p) ==
  \/ \E d \in Client : pipe[d][c] # <<>>
  \/ \E d \in Members(p) \ {c} : out[d] # <<>>

Reached(c, e, p) ==
  /\ room[c] = p /\ Shown(c)
  /\ tab[c] = e \/ told[c] = e \/ Waits(c, p)

OnlyEdit(e, p) ==
  \A c \in Members(p) :
    Edits(out[c]) \subseteq {e} /\ \A d \in Client : Edits(pipe[d][c]) \subseteq {e}

Turns ==
  \A p \in Project : \A e \in DOMAIN typed :
    LastOf(p, e) /\ present[p] # {} =>
      OnlyEdit(e, p) /\ \A c \in present[p] : Reached(c, e, p)

-----------------------------------------------------------------------------
(***************************************************************************)
(* Queues.                                                                 *)
(***************************************************************************)
LEMMA EditsEmpty == Edits(<<>>) = {}
BY DEF Edits

LEMMA EditsNonEmpty ==
  ASSUME NEW s \in Seq(Message)
  PROVE  Edits(s) \subseteq Nat /\ (Edits(s) = {} => s = <<>>)
<1>1. \A m \in Message : m.edit \in Nat
  BY DEF Message
<1>3. \A i \in DOMAIN s : s[i] \in Message
  OBVIOUS
<1>2. s # <<>> => 1 \in DOMAIN s
  OBVIOUS
<1> QED
  BY <1>1, <1>2, <1>3 DEF Edits

LEMMA EditsAppend ==
  ASSUME NEW s \in Seq(Message), NEW m \in Message
  PROVE  /\ Append(s, m) \in Seq(Message) /\ Append(s, m) # <<>>
         /\ Edits(Append(s, m)) = Edits(s) \cup {m.edit}
<1>1. /\ Append(s, m) \in Seq(Message)
      /\ DOMAIN Append(s, m) = 1..Len(s) + 1 /\ DOMAIN s = 1..Len(s)
      /\ Append(s, m)[Len(s) + 1] = m
      /\ \A i \in 1..Len(s) : Append(s, m)[i] = s[i]
  OBVIOUS
<1>2. ASSUME NEW e \in Edits(Append(s, m))
      PROVE  e \in Edits(s) \cup {m.edit}
  BY <1>1, <1>2 DEF Edits
<1>3. ASSUME NEW e \in Edits(s) \cup {m.edit}
      PROVE  e \in Edits(Append(s, m))
  <2>1. CASE e \in Edits(s)
    BY <1>1, <2>1 DEF Edits
  <2>2. CASE e = m.edit
    BY <1>1, <2>2, Len(s) + 1 \in 1..Len(s) + 1 DEF Edits
  <2> QED
    BY <1>3, <2>1, <2>2
<1>4. Append(s, m) # <<>>
  BY <1>1, 1 \in 1..Len(s) + 1, DOMAIN <<>> = {}
<1> QED
  BY <1>1, <1>2, <1>3, <1>4

LEMMA EditsTail ==
  ASSUME NEW s \in Seq(Message), s # <<>>
  PROVE  /\ Head(s) \in Message /\ Tail(s) \in Seq(Message)
         /\ Head(s).edit \in Edits(s) /\ Edits(Tail(s)) \subseteq Edits(s)
<1>1. /\ Tail(s) \in Seq(Message) /\ Head(s) = s[1] /\ s[1] \in Message /\ 1 \in DOMAIN s
      /\ \A i \in DOMAIN Tail(s) : i + 1 \in DOMAIN s /\ Tail(s)[i] = s[i + 1]
  OBVIOUS
<1> QED
  BY <1>1 DEF Edits

-----------------------------------------------------------------------------
(***************************************************************************)
(* Type correctness.                                                       *)
(***************************************************************************)
LEMMA SendType ==
  ASSUME TypeOK, NEW c \in Client, NEW e \in Nat, NEW size \in Size, Send(c, e, size)
  PROVE  out' \in [Client -> Seq(Message)]
<1>1. [edit |-> e, size |-> size] \in Message
  BY DEF Message
<1>2. Append(out[c], [edit |-> e, size |-> size]) \in Seq(Message)
  BY <1>1, EditsAppend DEF TypeOK
<1> QED
  BY <1>2 DEF Send, TypeOK

LEMMA EditType ==
  ASSUME TypeOK, NEW c \in Client, Edit(c)
  PROVE  TypeOK'
<1>1. Len(typed) + 1 \in Nat
  BY DEF TypeOK
<1>2. out' \in [Client -> Seq(Message)]
  BY <1>1, SendType DEF Edit
<1>3. [by |-> c, room |-> room[c], project |-> project[c]] \in EditRec
  BY DEF TypeOK, EditRec
<1>4. typed' \in Seq(EditRec)
  BY <1>3 DEF Edit, TypeOK
<1>5. present' \in [Project -> SUBSET Client]
  BY DEF Edit, TypeOK, Members
<1>6. tab' \in [Client -> Text \cup {Closed}] /\ dirty' \in [Client -> BOOLEAN]
  BY <1>1 DEF Edit, TypeOK, Text
<1> QED
  BY <1>2, <1>4, <1>5, <1>6 DEF Edit, TypeOK, placeVars, counts

LEMMA ReceiveType ==
  ASSUME TypeOK, NEW c \in Client, NEW d \in Client, Receive(c, d)
  PROVE  TypeOK'
<1>1. /\ Head(pipe[d][c]) \in Message
      /\ Tail(pipe[d][c]) \in Seq(Message)
  BY EditsTail DEF Receive, TypeOK
<1>2. Head(pipe[d][c]).edit \in Nat
  BY <1>1 DEF Message
<1>3. pipe' \in [Client -> [Client -> Seq(Message)]]
  BY <1>1 DEF Receive, TypeOK
<1>4. /\ tab' \in [Client -> Text \cup {Closed}] /\ dirty' \in [Client -> BOOLEAN]
      /\ told' \in [Client -> Nat] /\ out' = out
  BY <1>2 DEF Receive, ApplyRemoteText, TypeOK, Text
<1> QED
  BY <1>3, <1>4 DEF Receive, TypeOK, placeVars, pastVars, counts

LEMMA RelayedType ==
  ASSUME NEW ms \in Seq(Message), NEW m \in Message
  PROVE  /\ Relayed(ms, m) \in Seq(Message) /\ Relayed(ms, m) # <<>>
         /\ Edits(Relayed(ms, m)) = Edits(ms) \cup {m.edit}
<1> DEFINE n == [m EXCEPT !.size = IF @ = "wide" THEN "omitted" ELSE @]
<1>1. n \in Message /\ n.edit = m.edit
  BY DEF Message, Size
<1>2. Relayed(ms, m) = Append(ms, n)
  BY DEF Relayed
<1> HIDE DEF n
<1> QED
  BY <1>1, <1>2, EditsAppend

LEMMA RelayType ==
  ASSUME TypeOK, NEW c \in Client, Relay(c)
  PROVE  TypeOK'
<1>1. /\ Head(out[c]) \in Message
      /\ Tail(out[c]) \in Seq(Message)
  BY EditsTail DEF Relay, TypeOK
<1>2. \A d \in Client : Relayed(pipe[c][d], Head(out[c])) \in Seq(Message)
  BY <1>1, RelayedType DEF TypeOK
<1>3. pipe' \in [Client -> [Client -> Seq(Message)]]
  BY <1>2 DEF Relay, TypeOK
<1> QED
  BY <1>1, <1>3 DEF Relay, TypeOK, editVars, placeVars, pastVars, counts

LEMMA DisconnectType ==
  ASSUME TypeOK, NEW c \in Client, Disconnect(c)
  PROVE  TypeOK'
<1>1. out' \in [Client -> Seq(Message)] /\ pipe' \in [Client -> [Client -> Seq(Message)]]
  BY DEF Disconnect, TypeOK
<1>2. room' \in [Client -> Room] /\ url' \in [Client -> Room]
  BY DEF Disconnect, TypeOK, Room
<1>3. present' \in [Project -> SUBSET Client]
  <2>1. CASE out[c] = <<>>
    BY <2>1 DEF Disconnect, Leaves, TypeOK
  <2>2. CASE out[c] # <<>>
    BY <2>2 DEF Disconnect, TypeOK
  <2> QED
    BY <2>1, <2>2
<1> QED
  BY <1>1, <1>2, <1>3 DEF Disconnect, TypeOK, editVars, counts

LEMMA UserType ==
  ASSUME TypeOK, NEW c \in Client, User(c)
  PROVE  TypeOK'
<1>1. CASE Edit(c)
  BY <1>1, EditType
<1>2. CASE OpenFile(c)
  BY <1>2 DEF OpenFile, TypeOK, netVars, placeVars, pastVars, counts
<1>3. CASE CloseTab(c)
  BY <1>3 DEF CloseTab, Leaves, TypeOK, netVars, placeVars, counts
<1>4. CASE SaveFile(c)
  BY <1>4 DEF SaveFile, Shown, TypeOK, netVars, placeVars, pastVars
<1>5. CASE SaveFails(c)
  BY <1>5 DEF SaveFails, TypeOK, Text, netVars, placeVars, pastVars
<1>6. CASE OpenProject(c)
  BY <1>6 DEF OpenProject, CloseAllTabs, Leaves, TypeOK, netVars
<1>7. CASE Connect(c)
  BY <1>7 DEF Connect, TypeOK, Room, editVars, netVars, pastVars
<1> QED
  BY <1>1, <1>2, <1>3, <1>4, <1>5, <1>6, <1>7 DEF User

LEMMA NextType == TypeOK /\ [Next]_liveVars => TypeOK'
<1> SUFFICES ASSUME TypeOK, [Next]_liveVars
             PROVE  TypeOK'
  OBVIOUS
<1>1. CASE UNCHANGED liveVars
  BY <1>1 DEF liveVars, editVars, netVars, placeVars, pastVars, counts, TypeOK
<1>2. ASSUME NEW c \in Client, User(c) \/ Disconnect(c) \/ Relay(c)
      PROVE  TypeOK'
  BY <1>2, UserType, DisconnectType, RelayType
<1>3. ASSUME NEW c \in Client, NEW d \in Client, Receive(c, d)
      PROVE  TypeOK'
  BY <1>3, ReceiveType
<1> QED
  BY <1>1, <1>2, <1>3 DEF Next

LEMMA InitType == Init => TypeOK
BY EditAssumption DEF Init, TypeOK, Text, Room

\* Every variable keeps its type.
THEOREM TypeCorrect == Spec => []TypeOK
BY InitType, NextType, PTL DEF Spec

-----------------------------------------------------------------------------
(***************************************************************************)
(* What the steps do to the queues and to the texts.                       *)
(***************************************************************************)
LEMMA EditFacts ==
  ASSUME TypeOK, NEW c \in Client, Edit(c)
  PROVE  /\ Len(typed) \in Nat
         /\ DOMAIN typed = 1..Len(typed) /\ Len(typed') = Len(typed) + 1
         /\ DOMAIN typed' = DOMAIN typed \cup {Len(typed) + 1}
         /\ \A e \in DOMAIN typed : typed'[e] = typed[e]
         /\ typed'[Len(typed) + 1] = [by |-> c, room |-> room[c], project |-> project[c]]
         /\ \A d \in Client \ {c} : out'[d] = out[d]
         /\ ~Connected(c) => out' = out
         /\ Connected(c) => /\ out'[c] # <<>>
                            /\ Edits(out'[c]) = Edits(out[c]) \cup {Len(typed) + 1}
<1>1. Len(typed) \in Nat /\ DOMAIN typed = 1..Len(typed)
  BY DEF TypeOK
<1>2. [by |-> c, room |-> room[c], project |-> project[c]] \in EditRec
  BY DEF TypeOK, EditRec
<1>3. /\ Len(typed') = Len(typed) + 1 /\ DOMAIN typed' = 1..Len(typed) + 1
      /\ \A e \in 1..Len(typed) : typed'[e] = typed[e]
      /\ typed'[Len(typed) + 1] = [by |-> c, room |-> room[c], project |-> project[c]]
  BY <1>2 DEF Edit, TypeOK
<1>4. PICK size \in Size : Send(c, Len(typed) + 1, size)
  BY DEF Edit
<1>5. (\A d \in Client \ {c} : out'[d] = out[d]) /\ (~Connected(c) => out' = out)
  BY <1>4 DEF Send, TypeOK
<1>6. ASSUME Connected(c)
      PROVE  out'[c] # <<>> /\ Edits(out'[c]) = Edits(out[c]) \cup {Len(typed) + 1}
  <2> DEFINE m == [edit |-> Len(typed) + 1, size |-> size]
  <2>1. m \in Message /\ m.edit = Len(typed) + 1
    BY <1>1 DEF Message
  <2>2. out'[c] = Append(out[c], m)
    BY <1>4, <1>6 DEF Send, TypeOK
  <2> HIDE DEF m
  <2> QED
    BY <2>1, <2>2, EditsAppend DEF TypeOK
<1>7. 1..Len(typed) + 1 = 1..Len(typed) \cup {Len(typed) + 1}
  BY <1>1
<1> QED
  BY <1>1, <1>3, <1>5, <1>6, <1>7

LEMMA ReceiveFacts ==
  ASSUME TypeOK, NEW c \in Client, NEW d \in Client, Receive(c, d)
  PROVE  /\ pipe[d][c] # <<>> /\ out' = out
         /\ \A a, b \in Client : Edits(pipe'[a][b]) \subseteq Edits(pipe[a][b])
         /\ \A a, b \in Client : pipe[a][b] = <<>> => pipe'[a][b] = <<>>
         /\ \A a \in Client, b \in Client \ {c} : pipe'[a][b] = pipe[a][b]
         /\ \E e \in Edits(pipe[d][c]) :
              \/ told' = [told EXCEPT ![c] = e] /\ UNCHANGED <<tab, dirty>>
              \/ told' = told /\ ~Shown(c) /\ UNCHANGED <<tab, dirty>>
              \/ /\ told' = told /\ Shown(c) /\ tab' = [tab EXCEPT ![c] = e]
                 /\ dirty' = [dirty EXCEPT ![c] = TRUE]
<1>1. pipe[d][c] \in Seq(Message) /\ pipe[d][c] # <<>>
  BY DEF Receive, TypeOK
<1>2. /\ Head(pipe[d][c]).edit \in Edits(pipe[d][c])
      /\ Edits(Tail(pipe[d][c])) \subseteq Edits(pipe[d][c])
  BY <1>1, EditsTail
<1>3. pipe' = [pipe EXCEPT ![d][c] = Tail(@)]
  BY DEF Receive
<1>4. /\ \A a \in Client, b \in Client \ {c} : pipe'[a][b] = pipe[a][b]
      /\ \A a \in Client \ {d} : pipe'[a] = pipe[a]
      /\ pipe'[d][c] = Tail(pipe[d][c])
  BY <1>3 DEF TypeOK
<1>5. /\ out' = out
      /\ \/ told' = [told EXCEPT ![c] = Head(pipe[d][c]).edit] /\ UNCHANGED <<tab, dirty>>
         \/ told' = told /\ ~Shown(c) /\ UNCHANGED <<tab, dirty>>
         \/ /\ told' = told /\ Shown(c) /\ tab' = [tab EXCEPT ![c] = Head(pipe[d][c]).edit]
            /\ dirty' = [dirty EXCEPT ![c] = TRUE]
  BY DEF Receive, ApplyRemoteText
<1> QED
  BY <1>1, <1>2, <1>4, <1>5

LEMMA RelayFacts ==
  ASSUME TypeOK, NEW c \in Client, Relay(c)
  PROVE  /\ \A a \in Client : Edits(out'[a]) \subseteq Edits(out[a])
         /\ \A a \in Client : out[a] = <<>> => out'[a] = <<>>
         /\ \A a \in Client \ {c} : out'[a] = out[a] /\ pipe'[a] = pipe[a]
         /\ out[c] # <<>>
         /\ \A b \in Client \ Receivers(c) : pipe'[c][b] = pipe[c][b]
         /\ \A b \in Receivers(c) :
              /\ pipe'[c][b] # <<>>
              /\ Edits(pipe'[c][b]) \subseteq Edits(pipe[c][b]) \cup Edits(out[c])
<1>1. /\ out[c] # <<>> /\ Head(out[c]) \in Message
      /\ Head(out[c]).edit \in Edits(out[c]) /\ Edits(Tail(out[c])) \subseteq Edits(out[c])
  BY EditsTail DEF Relay, TypeOK
<1>2. \A a \in Client : out'[a] = IF a = c THEN Tail(out[a]) ELSE out[a]
  BY DEF Relay, TypeOK
<1>3. \A a \in Client \ {c} : pipe'[a] = pipe[a]
  BY DEF Relay, TypeOK
<1>4. \A b \in Client :
        pipe'[c][b] = IF b \in Receivers(c) THEN Relayed(pipe[c][b], Head(out[c])) ELSE pipe[c][b]
  BY DEF Relay, TypeOK
<1>5. ASSUME NEW b \in Client
      PROVE  /\ Relayed(pipe[c][b], Head(out[c])) # <<>>
             /\ Edits(Relayed(pipe[c][b], Head(out[c]))) = Edits(pipe[c][b]) \cup {Head(out[c]).edit}
  <2>1. pipe[c][b] \in Seq(Message)
    BY DEF TypeOK
  <2> QED
    BY <1>1, <2>1, RelayedType
<1>6. Receivers(c) \subseteq Client
  BY DEF Receivers, Members
<1> QED
  BY <1>1, <1>2, <1>3, <1>4, <1>5, <1>6

-----------------------------------------------------------------------------
(***************************************************************************)
(* A clean tab shows what is on disk.                                      *)
(***************************************************************************)
LEMMA CleanStep ==
  ASSUME TypeOK, CleanMeansSaved, [Next]_liveVars
  PROVE  CleanMeansSaved'
<1>1. CASE UNCHANGED liveVars
  BY <1>1 DEF liveVars, editVars, placeVars, CleanMeansSaved, Shown
<1>2. ASSUME NEW c \in Client, Edit(c) PROVE CleanMeansSaved'
  BY <1>2 DEF Edit, CleanMeansSaved, Shown, TypeOK, placeVars
<1>3. ASSUME NEW c \in Client, OpenFile(c) PROVE CleanMeansSaved'
  BY <1>3 DEF OpenFile, CleanMeansSaved, Shown, TypeOK, placeVars
<1>4. ASSUME NEW c \in Client, CloseTab(c) PROVE CleanMeansSaved'
  BY <1>4 DEF CloseTab, CleanMeansSaved, Shown, TypeOK, placeVars
<1>5. ASSUME NEW c \in Client, SaveFile(c) PROVE CleanMeansSaved'
  BY <1>5 DEF SaveFile, CleanMeansSaved, Shown, TypeOK, placeVars
<1>6. ASSUME NEW c \in Client, SaveFails(c) PROVE CleanMeansSaved'
  BY <1>6 DEF SaveFails, CleanMeansSaved, Shown, TypeOK, placeVars
<1>7. ASSUME NEW c \in Client, OpenProject(c) PROVE CleanMeansSaved'
  BY <1>7 DEF OpenProject, CloseAllTabs, CleanMeansSaved, Shown, TypeOK
<1>8. ASSUME NEW c \in Client, Connect(c) \/ Disconnect(c) \/ Relay(c) PROVE CleanMeansSaved'
  BY <1>8 DEF Connect, Disconnect, Relay, editVars, placeVars, CleanMeansSaved, Shown
<1>9. ASSUME NEW c \in Client, NEW d \in Client, Receive(c, d) PROVE CleanMeansSaved'
  <2>1. disk' = disk /\ project' = project
    BY <1>9 DEF Receive, placeVars
  <2>2. PICK e : \/ UNCHANGED <<tab, dirty>>
                 \/ tab' = [tab EXCEPT ![c] = e] /\ dirty' = [dirty EXCEPT ![c] = TRUE]
    BY <1>9, ReceiveFacts
  <2> QED
    BY <2>1, <2>2 DEF CleanMeansSaved, Shown, TypeOK
<1> QED
  BY <1>1, <1>2, <1>3, <1>4, <1>5, <1>6, <1>7, <1>8, <1>9 DEF Next, User

-----------------------------------------------------------------------------
(***************************************************************************)
(* What is typed, and where texts get.                                     *)
(***************************************************************************)
Texts == Known /\ InRoom /\ Placed /\ OnlyTypedIsSent

LEMMA EditTexts ==
  ASSUME TypeOK, Texts, NEW c \in Client, Edit(c)
  PROVE  Texts'
<1> PICK n : n = Len(typed) + 1
  OBVIOUS
<1> USE DEF Texts
<1>1. /\ Len(typed) \in Nat /\ n = Len(typed) + 1
      /\ DOMAIN typed = 1..Len(typed) /\ Len(typed') = n
      /\ DOMAIN typed' = DOMAIN typed \cup {n} /\ n \notin DOMAIN typed
      /\ \A e \in DOMAIN typed : typed'[e] = typed[e]
      /\ typed'[n] = [by |-> c, room |-> room[c], project |-> project[c]]
  <2>1. Len(typed) \in Nat /\ DOMAIN typed = 1..Len(typed)
    BY EditFacts
  <2>2. n \notin DOMAIN typed
    BY <2>1
  <2> QED
    BY <2>1, <2>2, EditFacts
<1>2. /\ \A d \in Client \ {c} : out'[d] = out[d]
      /\ ~Connected(c) => out' = out
      /\ Connected(c) => Edits(out'[c]) = Edits(out[c]) \cup {n}
  BY EditFacts
<1>3. /\ \A d \in Client : tab'[d] = IF d = c THEN n ELSE tab[d]
      /\ disk' = disk /\ pipe' = pipe /\ room' = room /\ project' = project /\ strayed' = strayed
  BY DEF Edit, TypeOK, placeVars
<1>4. Known'
  <2>1. 0..Len(typed) \subseteq 0..Len(typed') /\ n \in 0..Len(typed')
    BY <1>1
  <2> QED
    BY <1>1, <1>2, <1>3, <2>1 DEF Known
<1>5. InRoom'
  <2>1. ASSUME NEW d \in Client, NEW e \in Edits(out'[d]) PROVE typed'[e].room = room'[d]
    BY <1>1, <1>2, <1>3, <2>1 DEF Known, InRoom
  <2>2. ASSUME NEW d \in Client, NEW b \in Client, NEW e \in Edits(pipe'[b][d])
        PROVE  typed'[e].room = room'[d]
    BY <1>1, <1>3, <2>2 DEF Known, InRoom
  <2>3. ASSUME NEW d \in Client, ~Connected(d)'
        PROVE  out'[d] = <<>> /\ \A b \in Client : pipe'[b][d] = <<>>
    BY <1>2, <1>3, <2>3 DEF InRoom, Connected
  <2> QED
    BY <2>1, <2>2, <2>3 DEF InRoom
<1>6. Placed'
  <2>1. \A d \in Client : \A t, p :
          t # n /\ May(typed, strayed[d], t, p) => May(typed', strayed'[d], t, p)
    BY <1>1, <1>3 DEF May
  <2>2. May(typed', strayed'[c], n, project'[c])
    BY <1>1, <1>3 DEF May
  <2>3. n \notin 0..Len(typed) \cup {Damaged}
    BY <1>1, EditAssumption
  <2>4. \A d \in Client \ {c} : tab[d] # n
    BY <2>3, <1>1, EditAssumption DEF Known
  <2>5. \A d \in Client : \A p \in Project : disk[d][p] # n
    BY <2>3 DEF Known
  <2> QED
    BY <1>3, <2>1, <2>2, <2>4, <2>5 DEF Placed, Connected
<1>7. OnlyTypedIsSent'
  BY <1>1, <1>2 DEF OnlyTypedIsSent, Known
<1> QED
  BY <1>4, <1>5, <1>6, <1>7

LEMMA ReceiveTexts ==
  ASSUME TypeOK, Texts, NEW c \in Client, NEW d \in Client, Receive(c, d)
  PROVE  Texts'
<1> USE DEF Texts
<1>1. /\ out' = out /\ pipe[d][c] # <<>>
      /\ \A a, b \in Client : Edits(pipe'[a][b]) \subseteq Edits(pipe[a][b])
      /\ \A a, b \in Client : pipe[a][b] = <<>> => pipe'[a][b] = <<>>
  BY ReceiveFacts
<1>2. PICK e \in Edits(pipe[d][c]) : tab' = tab \/ tab' = [tab EXCEPT ![c] = e]
  BY ReceiveFacts
<1>3. disk' = disk /\ typed' = typed /\ room' = room /\ project' = project /\ strayed' = strayed
  BY DEF Receive, placeVars, pastVars
<1>4. e \in DOMAIN typed /\ typed[e].room = room[c] /\ Connected(c)
  BY <1>1 DEF Known, InRoom
<1>5. Known'
  <2>1. e \in 0..Len(typed)
    BY <1>4 DEF TypeOK
  <2> QED
    BY <1>1, <1>2, <1>3, <2>1 DEF Known, TypeOK
<1>6. InRoom'
  BY <1>1, <1>3 DEF InRoom, Connected
<1>7. Placed'
  <2>1. May(typed, strayed[c], e, project[c])
    BY <1>4 DEF Placed, May, Connected
  <2> QED
    BY <1>2, <1>3, <2>1 DEF Placed, May, Connected, TypeOK
<1>8. OnlyTypedIsSent'
  BY <1>1, <1>3 DEF OnlyTypedIsSent
<1> QED
  BY <1>5, <1>6, <1>7, <1>8

LEMMA RelayTexts ==
  ASSUME TypeOK, Texts, NEW c \in Client, Relay(c)
  PROVE  Texts'
<1> USE DEF Texts
<1>1. /\ \A a \in Client : Edits(out'[a]) \subseteq Edits(out[a])
      /\ \A a \in Client : out[a] = <<>> => out'[a] = <<>>
      /\ out[c] # <<>>
  BY RelayFacts
<1>2. /\ \A a \in Client \ {c} : pipe'[a] = pipe[a]
      /\ \A b \in Client \ Receivers(c) : pipe'[c][b] = pipe[c][b]
      /\ \A b \in Receivers(c) : Edits(pipe'[c][b]) \subseteq Edits(pipe[c][b]) \cup Edits(out[c])
  BY RelayFacts
<1>3. /\ disk' = disk /\ tab' = tab /\ typed' = typed /\ room' = room /\ project' = project
      /\ strayed' = strayed
  BY DEF Relay, editVars, placeVars, pastVars
<1>4. Connected(c) /\ \A b \in Receivers(c) : b \in Client /\ room[b] = room[c]
  BY <1>1 DEF InRoom, Receivers, Members
<1>5. Known'
  BY <1>1, <1>2, <1>3, <1>4 DEF Known
<1>6. InRoom'
  <2>1. ASSUME NEW a \in Client, NEW b \in Client, NEW e \in Edits(pipe'[a][b])
        PROVE  typed'[e].room = room'[b]
    BY <1>2, <1>3, <1>4, <2>1 DEF InRoom
  <2>2. ASSUME NEW a \in Client, NEW b \in Client, ~Connected(b)
        PROVE  pipe'[a][b] = <<>>
    BY <1>2, <1>4, <2>2 DEF InRoom, Connected
  <2> QED
    BY <1>1, <1>3, <2>1, <2>2 DEF InRoom, Connected
<1>7. Placed'
  BY <1>3 DEF Placed, May, Connected
<1>8. OnlyTypedIsSent'
  BY <1>1, <1>3 DEF OnlyTypedIsSent
<1> QED
  BY <1>5, <1>6, <1>7, <1>8

LEMMA ChannelTexts ==
  ASSUME TypeOK, Texts, NEW c \in Client, Connect(c) \/ Disconnect(c)
  PROVE  Texts'
<1> USE DEF Texts
<1>1. disk' = disk /\ tab' = tab /\ typed' = typed /\ project' = project
  BY DEF Connect, Disconnect, editVars, pastVars
<1>2. CASE Connect(c)
  <2>1. /\ ~Connected(c) /\ out' = out /\ pipe' = pipe
        /\ \A d \in Client \ {c} : room'[d] = room[d] /\ strayed'[d] = strayed[d]
        /\ room'[c] # NoRoom /\ (strayed[c] => strayed'[c])
        /\ strayed'[c] \/ room'[c] = project[c]
    BY <1>2 DEF Connect, TypeOK, netVars
  <2>2. out[c] = <<>> /\ \A d \in Client : pipe[d][c] = <<>>
    BY <2>1 DEF InRoom
  <2>3. Known' /\ OnlyTypedIsSent'
    BY <1>1, <2>1 DEF Known, OnlyTypedIsSent
  <2>4. InRoom'
    BY <1>1, <2>1, <2>2, EditsEmpty DEF InRoom, Connected
  <2>5. Placed'
    BY <1>1, <2>1 DEF Placed, May, Connected
  <2> QED
    BY <2>3, <2>4, <2>5
<1>3. CASE Disconnect(c)
  <2>1. /\ strayed' = strayed
        /\ \A d \in Client : room'[d] = IF d = c THEN NoRoom ELSE room[d]
        /\ \A d \in Client : out'[d] = IF d = c THEN <<>> ELSE out[d]
        /\ \A d, b \in Client : pipe'[d][b] = IF b = c THEN <<>> ELSE pipe[d][b]
    BY <1>3 DEF Disconnect, TypeOK
  <2>2. Known' /\ OnlyTypedIsSent'
    BY <1>1, <2>1, EditsEmpty DEF Known, OnlyTypedIsSent
  <2>3. InRoom'
    BY <1>1, <2>1, EditsEmpty DEF InRoom, Connected
  <2>4. Placed'
    BY <1>1, <2>1 DEF Placed, May, Connected
  <2> QED
    BY <2>2, <2>3, <2>4
<1> QED
  BY <1>2, <1>3

Local(c) == OpenFile(c) \/ CloseTab(c) \/ SaveFile(c) \/ SaveFails(c) \/ OpenProject(c)

LEMMA LocalTexts ==
  ASSUME TypeOK, Texts, NEW c \in Client, Local(c)
  PROVE  Texts'
<1> USE DEF Texts
<1>1. out' = out /\ pipe' = pipe /\ room' = room /\ typed' = typed
  BY DEF Local, OpenFile, CloseTab, SaveFile, SaveFails, OpenProject, netVars, placeVars, pastVars
<1>2. /\ \A d \in Client \ {c} : tab'[d] = tab[d] /\ project'[d] = project[d]
                                  /\ strayed'[d] = strayed[d]
      /\ \/ tab'[c] = tab[c] /\ project'[c] = project[c]
         \/ tab'[c] = disk[c][project[c]] /\ project'[c] = project[c]
         \/ tab'[c] = Closed
      /\ strayed[c] \/ (Connected(c) /\ project'[c] # project[c]) => strayed'[c]
      /\ strayed'[c] \in BOOLEAN
  BY DEF Local, OpenFile, CloseTab, SaveFile, SaveFails, OpenProject, CloseAllTabs, placeVars, TypeOK
<1>3. /\ \A d \in Client \ {c} : disk'[d] = disk[d]
      /\ \A p \in Project \ {project[c]} : disk'[c][p] = disk[c][p]
      /\ disk'[c][project[c]] \in {disk[c][project[c]], tab[c], Damaged}
      /\ disk'[c][project[c]] # Closed
  <2>1. disk[c][project[c]] \in Text /\ Damaged \in Text /\ Closed \notin Text
    BY EditAssumption DEF TypeOK, Text
  <2> QED
    BY <2>1 DEF Local, OpenFile, CloseTab, SaveFile, SaveFails, OpenProject, Shown, TypeOK
<1>4. project[c] \in Project /\ Closed \notin DOMAIN typed /\ Damaged \notin DOMAIN typed
  BY EditAssumption DEF TypeOK
<1>5. Known'
  <2>1. disk'[c][project[c]] \in 0..Len(typed) \cup {Damaged}
    BY <1>3, <1>4 DEF Known
  <2>2. tab'[c] \in 0..Len(typed) \cup {Closed, Damaged}
    BY <1>2, <1>4 DEF Known
  <2>3. \A d \in Client : \A p \in Project : disk'[d][p] \in 0..Len(typed) \cup {Damaged}
    BY <1>3, <2>1 DEF Known
  <2>4. \A d \in Client : tab'[d] \in 0..Len(typed) \cup {Closed, Damaged}
    BY <1>2, <2>2 DEF Known
  <2>5. /\ \A d \in Client : Edits(out'[d]) \subseteq DOMAIN typed
        /\ \A a, d \in Client : Edits(pipe'[a][d]) \subseteq DOMAIN typed
    BY <1>1 DEF Known
  <2> QED
    BY <1>1, <2>3, <2>4, <2>5 DEF Known
<1>6. InRoom' /\ OnlyTypedIsSent'
  BY <1>1 DEF InRoom, OnlyTypedIsSent, Connected
<1>7. Placed'
  <2>1. \A d \in Client : \A t, p : May(typed, strayed[d], t, p) => May(typed', strayed'[d], t, p)
    BY <1>1, <1>2 DEF May
  <2>2. \A d \in Client : \A p : May(typed', strayed'[d], Closed, p) /\ May(typed', strayed'[d], Damaged, p)
    BY <1>1, <1>4 DEF May
  <2>3. \A d \in Client : Connected(d)' => room'[d] = project'[d] \/ strayed'[d]
    BY <1>1, <1>2 DEF Placed, Connected
  <2>4. \A d \in Client \ {c} : May(typed', strayed'[d], tab'[d], project'[d])
    BY <1>2, <2>1 DEF Placed
  <2>5. May(typed', strayed'[c], tab'[c], project'[c])
    BY <1>2, <1>4, <2>1, <2>2 DEF Placed
  <2>6. \A d \in Client \ {c} : \A p \in Project : May(typed', strayed'[d], disk'[d][p], p)
    BY <1>3, <2>1 DEF Placed
  <2>7. May(typed', strayed'[c], disk'[c][project[c]], project[c])
    BY <1>2, <1>3, <1>4, <2>1, <2>2, <2>5 DEF Placed
  <2>8. \A p \in Project \ {project[c]} : May(typed', strayed'[c], disk'[c][p], p)
    BY <1>3, <2>1 DEF Placed
  <2> QED
    BY <2>3, <2>4, <2>5, <2>6, <2>7, <2>8 DEF Placed
<1> QED
  BY <1>5, <1>6, <1>7

LEMMA TextsStep == TypeOK /\ Texts /\ [Next]_liveVars => Texts'
<1> SUFFICES ASSUME TypeOK, Texts, [Next]_liveVars
             PROVE  Texts'
  OBVIOUS
<1>1. CASE UNCHANGED liveVars
  BY <1>1 DEF liveVars, editVars, netVars, placeVars, pastVars, Texts, Known, InRoom, Placed, May,
       OnlyTypedIsSent, Connected
<1>2. ASSUME NEW c \in Client, User(c) \/ Disconnect(c) \/ Relay(c)
      PROVE  Texts'
  BY <1>2, EditTexts, LocalTexts, ChannelTexts, RelayTexts DEF User, Local
<1>3. ASSUME NEW c \in Client, NEW d \in Client, Receive(c, d)
      PROVE  Texts'
  BY <1>3, ReceiveTexts
<1> QED
  BY <1>1, <1>2, <1>3 DEF Next

LEMMA InitTexts == Init => Texts /\ CleanMeansSaved
<1> SUFFICES ASSUME Init PROVE Texts /\ CleanMeansSaved
  OBVIOUS
<1>1. Len(typed) = 0 /\ DOMAIN typed = {}
  BY DEF Init
<1>2. Known /\ InRoom
  BY <1>1, EditsEmpty DEF Init, Known, InRoom
<1>3. Placed /\ OnlyTypedIsSent /\ CleanMeansSaved
  BY <1>1, EditsEmpty DEF Init, Placed, May, OnlyTypedIsSent, CleanMeansSaved, Connected, Shown
<1> QED
  BY <1>2, <1>3 DEF Texts

\* A tab that is not marked as changed shows what is on disk, or its save
\* failed.
THEOREM CleanTabsAreSaved == Spec => []CleanMeansSaved
<1>1. TypeOK /\ CleanMeansSaved /\ [Next]_liveVars => CleanMeansSaved'
  BY CleanStep
<1> QED
  BY <1>1, InitTexts, TypeCorrect, PTL DEF Spec

LEMMA TextsHold == Spec => []Texts
BY InitTexts, TextsStep, TypeCorrect, PTL DEF Spec

\* No text crosses from one project to another, except through a client that
\* was in the room of a project it did not show.
THEOREM TextsKeepTheirProject == Spec => []TextsStayInProject
<1>1. Texts => TextsStayInProject
  BY DEF Texts, Placed, May, TextsStayInProject, Fits
<1> QED
  BY <1>1, TextsHold, PTL

\* A client never sends back what it received.
THEOREM NothingIsEchoed == Spec => []OnlyTypedIsSent
<1>1. Texts => OnlyTypedIsSent
  BY DEF Texts
<1> QED
  BY <1>1, TextsHold, PTL

-----------------------------------------------------------------------------
(***************************************************************************)
(* Those who take turns.                                                   *)
(***************************************************************************)
LEMMA FrameTurns ==
  ASSUME Turns, UNCHANGED <<typed, out, pipe, told, room>>,
         \A p \in Project : present'[p] \subseteq present[p],
         \A p \in Project : \A c \in present'[p] : Shown(c) => tab'[c] = tab[c]
  PROVE  Turns'
<1> SUFFICES ASSUME NEW p \in Project, NEW e \in DOMAIN typed, LastOf(p, e), present'[p] # {}
             PROVE  (OnlyEdit(e, p) /\ \A c \in present[p] : Reached(c, e, p))'
  BY DEF Turns, LastOf
<1>1. OnlyEdit(e, p) /\ \A c \in present[p] : Reached(c, e, p)
  BY DEF Turns
<1>2. OnlyEdit(e, p)'
  BY <1>1 DEF OnlyEdit, Members
<1>3. ASSUME NEW c \in present'[p] PROVE Reached(c, e, p)'
  BY <1>1 DEF Reached, Shown, Waits, Members
<1> QED
  BY <1>2, <1>3

LEMMA LocalTurns ==
  ASSUME TypeOK, Turns, NEW c \in Client, Local(c)
  PROVE  Turns'
<1>1. UNCHANGED <<typed, out, pipe, told, room>>
  BY DEF Local, OpenFile, CloseTab, SaveFile, SaveFails, OpenProject, netVars, placeVars, pastVars
<1>2. \A d \in Client \ {c} : tab'[d] = tab[d]
  BY DEF Local, OpenFile, CloseTab, SaveFile, SaveFails, OpenProject, CloseAllTabs, TypeOK
<1>3. CASE OpenFile(c) \/ SaveFile(c) \/ SaveFails(c)
  <2>1. present' = present /\ (Shown(c) => tab'[c] = tab[c])
    BY <1>3 DEF OpenFile, SaveFile, SaveFails, pastVars
  <2> QED
    BY <1>1, <1>2, <2>1, FrameTurns DEF TypeOK
<1>4. CASE CloseTab(c) \/ OpenProject(c)
  <2>1. \A p \in Project : present'[p] = present[p] \ {c}
    BY <1>4 DEF CloseTab, OpenProject, Leaves
  <2> QED
    BY <1>1, <1>2, <2>1, FrameTurns DEF TypeOK
<1> QED
  BY <1>3, <1>4 DEF Local

LEMMA EditTurns ==
  ASSUME TypeOK, Texts, Turns, NEW c \in Client, Edit(c)
  PROVE  Turns'
<1> PICK n : n = Len(typed) + 1
  OBVIOUS
<1>1. /\ Len(typed) \in Nat /\ n = Len(typed) + 1 /\ DOMAIN typed = 1..Len(typed)
      /\ DOMAIN typed' = DOMAIN typed \cup {n}
      /\ \A e \in DOMAIN typed : typed'[e] = typed[e]
      /\ typed'[n].room = room[c]
  <2>1. typed'[n] = [by |-> c, room |-> room[c], project |-> project[c]]
    BY EditFacts
  <2>2. typed'[n].room = room[c]
    BY <2>1
  <2> QED
    BY <2>2, EditFacts
<1>2. /\ \A d \in Client \ {c} : out'[d] = out[d]
      /\ ~Connected(c) => out' = out
      /\ Connected(c) => out'[c] # <<>> /\ Edits(out'[c]) = Edits(out[c]) \cup {n}
  BY EditFacts
<1>3. /\ \A d \in Client : tab'[d] = IF d = c THEN n ELSE tab[d]
      /\ pipe' = pipe /\ room' = room /\ told' = told
      /\ \A p \in Project : p # room[c] => present'[p] = present[p] \ {c}
      /\ \A p \in Project : p = room[c] =>
           present'[p] = IF CalmRoom(p) THEN {d \in Members(p) : Shown(d)} ELSE {}
  BY DEF Edit, TypeOK, placeVars
<1>4. Closed # n /\ \A e \in DOMAIN typed : n > e
  BY <1>1, EditAssumption
<1> SUFFICES ASSUME NEW p \in Project, NEW e \in DOMAIN typed', LastOf(p, e)', present'[p] # {}
             PROVE  (OnlyEdit(e, p) /\ \A d \in present[p] : Reached(d, e, p))'
  BY DEF Turns
<1>5. CASE p = room[c]
  <2>1. e = n
    BY <1>1, <1>4, <1>5 DEF LastOf
  <2>2. CalmRoom(p) /\ present'[p] = {d \in Members(p) : Shown(d)}
    BY <1>3, <1>5
  <2>3. Connected(c)
    BY <1>5, EditAssumption DEF Connected
  <2>4. OnlyEdit(e, p)'
    <3>1. ASSUME NEW d \in Members(p) PROVE Edits(out'[d]) \subseteq {e}
      BY <1>2, <2>1, <2>2, <2>3, EditsEmpty DEF CalmRoom, Members
    <3>2. ASSUME NEW d \in Members(p), NEW b \in Client PROVE Edits(pipe'[b][d]) \subseteq {e}
      BY <1>3, <2>2, EditsEmpty DEF CalmRoom, Members
    <3> QED
      BY <1>3, <3>1, <3>2 DEF OnlyEdit, Members
  <2>5. ASSUME NEW d \in present'[p] PROVE Reached(d, e, p)'
    <3>1. d \in Client /\ room'[d] = p /\ Shown(d)'
      BY <1>3, <1>4, <2>2 DEF Members, Shown
    <3>2. CASE d = c
      BY <1>3, <2>1, <3>1, <3>2 DEF Reached
    <3>3. CASE d # c
      <4>1. c \in (Members(p) \ {d})' /\ out'[c] # <<>>
        BY <1>2, <1>3, <1>5, <2>3, <3>3 DEF Members
      <4> QED
        BY <3>1, <4>1 DEF Reached, Waits
    <3> QED
      BY <3>2, <3>3
  <2> QED
    BY <2>4, <2>5
<1>6. CASE p # room[c]
  <2>1. e \in DOMAIN typed /\ LastOf(p, e)
    BY <1>1, <1>6 DEF LastOf
  <2>2. OnlyEdit(e, p) /\ \A d \in present[p] : Reached(d, e, p)
    BY <1>3, <1>6, <2>1 DEF Turns
  <2>3. \A d \in Members(p) : out'[d] = out[d]
    BY <1>2, <1>6 DEF Members
  <2>4. Members(p)' = Members(p)
    BY <1>3 DEF Members
  <2>5. OnlyEdit(e, p)'
    BY <1>3, <2>2, <2>3, <2>4 DEF OnlyEdit
  <2>6. ASSUME NEW d \in present'[p] PROVE Reached(d, e, p)'
    <3>1. d \in present[p] /\ d # c /\ d \in Client
      BY <1>3, <1>6 DEF TypeOK
    <3>2. Reached(d, e, p)
      BY <2>2, <3>1
    <3> QED
      BY <1>3, <2>3, <2>4, <3>1, <3>2 DEF Reached, Waits, Shown
  <2> QED
    BY <2>5, <2>6
<1> QED
  BY <1>5, <1>6

LEMMA ReceiveTurns ==
  ASSUME TypeOK, Texts, Turns, NEW c \in Client, NEW d \in Client, Receive(c, d)
  PROVE  Turns'
<1>1. /\ out' = out /\ pipe[d][c] # <<>>
      /\ \A a, b \in Client : Edits(pipe'[a][b]) \subseteq Edits(pipe[a][b])
      /\ \A a \in Client, b \in Client \ {c} : pipe'[a][b] = pipe[a][b]
  BY ReceiveFacts
<1>2. PICK n \in Edits(pipe[d][c]) :
        \/ told' = [told EXCEPT ![c] = n] /\ tab' = tab
        \/ told' = told /\ ~Shown(c) /\ tab' = tab
        \/ told' = told /\ Shown(c) /\ tab' = [tab EXCEPT ![c] = n]
  BY ReceiveFacts
<1>3. typed' = typed /\ room' = room /\ present' = present
  BY DEF Receive, placeVars, pastVars
<1>4. Closed # n
  <2>1. n \in Nat
    BY EditsNonEmpty DEF TypeOK
  <2> QED
    BY <2>1, EditAssumption
<1> SUFFICES ASSUME NEW p \in Project, NEW e \in DOMAIN typed, LastOf(p, e), present[p] # {}
             PROVE  (OnlyEdit(e, p) /\ \A b \in present[p] : Reached(b, e, p))'
  BY <1>3 DEF Turns, LastOf
<1>5. OnlyEdit(e, p) /\ \A b \in present[p] : Reached(b, e, p)
  BY DEF Turns
<1>6. Members(p)' = Members(p) /\ Members(p) \subseteq Client
  BY <1>3 DEF Members
<1>7. OnlyEdit(e, p)'
  <2>1. ASSUME NEW b \in Members(p), NEW a \in Client PROVE Edits(pipe'[a][b]) \subseteq {e}
    <3>1. Edits(pipe[a][b]) \subseteq {e} /\ b \in Client
      BY <1>5, <1>6, <2>1 DEF OnlyEdit
    <3> QED
      BY <1>1, <3>1
  <2>2. \A b \in Members(p) : Edits(out'[b]) \subseteq {e}
    BY <1>1, <1>5 DEF OnlyEdit
  <2> QED
    BY <1>6, <2>1, <2>2 DEF OnlyEdit
<1>8. ASSUME NEW b \in present[p] PROVE Reached(b, e, p)'
  <2>1. b \in Client /\ Reached(b, e, p)
    BY <1>5, <1>8 DEF TypeOK
  <2>2. CASE b = c
    <3>1. n = e
      BY <1>5, <2>1, <2>2 DEF OnlyEdit, Reached, Members
    <3> QED
      BY <1>2, <1>3, <1>4, <2>1, <2>2, <3>1 DEF Reached, Shown, TypeOK
  <2>3. CASE b # c
    <3>1. tab'[b] = tab[b] /\ told'[b] = told[b]
      BY <1>2, <2>1, <2>3 DEF TypeOK
    <3>2. Waits(b, p) => Waits(b, p)'
      BY <1>1, <1>6, <2>1, <2>3 DEF Waits
    <3> QED
      BY <1>3, <2>1, <3>1, <3>2 DEF Reached, Shown
  <2> QED
    BY <2>2, <2>3
<1> QED
  BY <1>3, <1>7, <1>8

LEMMA RelayTurns ==
  ASSUME TypeOK, Texts, Turns, NEW c \in Client, Relay(c)
  PROVE  Turns'
<1>1. /\ \A a \in Client : Edits(out'[a]) \subseteq Edits(out[a])
      /\ \A a \in Client \ {c} : out'[a] = out[a] /\ pipe'[a] = pipe[a]
      /\ out[c] # <<>>
      /\ \A b \in Client \ Receivers(c) : pipe'[c][b] = pipe[c][b]
      /\ \A b \in Receivers(c) :
           /\ pipe'[c][b] # <<>>
           /\ Edits(pipe'[c][b]) \subseteq Edits(pipe[c][b]) \cup Edits(out[c])
  BY RelayFacts
<1>2. typed' = typed /\ room' = room /\ present' = present /\ tab' = tab /\ told' = told
  BY DEF Relay, placeVars, pastVars, editVars
<1> SUFFICES ASSUME NEW p \in Project, NEW e \in DOMAIN typed, LastOf(p, e), present[p] # {}
             PROVE  (OnlyEdit(e, p) /\ \A b \in present[p] : Reached(b, e, p))'
  BY <1>2 DEF Turns, LastOf
<1>3. OnlyEdit(e, p) /\ \A b \in present[p] : Reached(b, e, p)
  BY DEF Turns
<1>4. Members(p)' = Members(p) /\ Members(p) \subseteq Client
  BY <1>2 DEF Members
<1>5. OnlyEdit(e, p)'
  <2>1. ASSUME NEW b \in Members(p), NEW a \in Client PROVE Edits(pipe'[a][b]) \subseteq {e}
    <3>1. CASE a = c /\ b \in Receivers(c)
      <4>1. c \in Members(p)
        BY <2>1, <3>1 DEF Receivers, Members
      <4> QED
        BY <1>1, <1>3, <3>1, <4>1, <2>1 DEF OnlyEdit
    <3>2. CASE ~(a = c /\ b \in Receivers(c))
      BY <1>1, <1>3, <1>4, <2>1, <3>2 DEF OnlyEdit
    <3> QED
      BY <3>1, <3>2
  <2> QED
    BY <1>1, <1>3, <1>4, <2>1 DEF OnlyEdit
<1>6. ASSUME NEW b \in present[p] PROVE Reached(b, e, p)'
  <2>1. b \in Client /\ Reached(b, e, p)
    BY <1>3, <1>6 DEF TypeOK
  <2>2. Waits(b, p) => Waits(b, p)'
    <3> SUFFICES ASSUME Waits(b, p) PROVE Waits(b, p)'
      OBVIOUS
    <3>1. CASE c \in Members(p) \ {b}
      <4>1. b \in Receivers(c)
        BY <2>1, <3>1 DEF Receivers, Members, Reached
      <4> QED
        BY <1>1, <4>1 DEF Waits
    <3>2. CASE \E a \in Client : pipe[a][b] # <<>>
      BY <1>1, <2>1, <3>2 DEF Waits
    <3>3. CASE \E a \in Members(p) \ {b} : a # c /\ out[a] # <<>>
      BY <1>1, <1>4, <3>3 DEF Waits
    <3> QED
      BY <3>1, <3>2, <3>3 DEF Waits
  <2> QED
    BY <1>2, <2>1, <2>2 DEF Reached, Shown
<1> QED
  BY <1>2, <1>5, <1>6

LEMMA ConnectTurns ==
  ASSUME TypeOK, Texts, Turns, NEW c \in Client, Connect(c)
  PROVE  Turns'
<1>1. /\ ~Connected(c) /\ out' = out /\ pipe' = pipe /\ told' = told /\ tab' = tab
      /\ typed' = typed /\ present' = present
      /\ \A d \in Client \ {c} : room'[d] = room[d]
  BY DEF Connect, TypeOK, netVars, editVars, pastVars
<1>2. out[c] = <<>> /\ \A d \in Client : pipe[d][c] = <<>>
  BY <1>1 DEF Texts, InRoom
<1> SUFFICES ASSUME NEW p \in Project, NEW e \in DOMAIN typed, LastOf(p, e), present[p] # {}
             PROVE  (OnlyEdit(e, p) /\ \A b \in present[p] : Reached(b, e, p))'
  BY <1>1 DEF Turns, LastOf
<1>3. OnlyEdit(e, p) /\ \A b \in present[p] : Reached(b, e, p)
  BY DEF Turns
<1>4. OnlyEdit(e, p)'
  BY <1>1, <1>2, <1>3, EditsEmpty DEF OnlyEdit, Members
<1>5. ASSUME NEW b \in present[p] PROVE Reached(b, e, p)'
  <2>1. b \in Client /\ Reached(b, e, p)
    BY <1>3, <1>5 DEF TypeOK
  <2>2. b # c
    BY <1>1, <2>1, EditAssumption DEF Reached, Connected
  <2>3. Waits(b, p) => Waits(b, p)'
    BY <1>1, <1>2 DEF Waits, Members
  <2> QED
    BY <1>1, <2>1, <2>2, <2>3 DEF Reached, Shown
<1> QED
  BY <1>1, <1>4, <1>5

LEMMA DisconnectTurns ==
  ASSUME TypeOK, Texts, Turns, NEW c \in Client, Disconnect(c)
  PROVE  Turns'
<1>1. /\ Connected(c) /\ told' = told /\ tab' = tab /\ typed' = typed
      /\ \A d \in Client : room'[d] = IF d = c THEN NoRoom ELSE room[d]
      /\ \A d \in Client : out'[d] = IF d = c THEN <<>> ELSE out[d]
      /\ \A d, b \in Client : pipe'[d][b] = IF b = c THEN <<>> ELSE pipe[d][b]
  BY DEF Disconnect, TypeOK, editVars
<1>2. IF out[c] = <<>> THEN \A p \in Project : present'[p] = present[p] \ {c}
      ELSE \A p \in Project : present'[p] = IF p = room[c] THEN {} ELSE present[p]
  <2>1. CASE out[c] = <<>>
    BY <2>1 DEF Disconnect, Leaves
  <2>2. CASE out[c] # <<>>
    BY <2>2 DEF Disconnect, TypeOK
  <2> QED
    BY <2>1, <2>2
<1> SUFFICES ASSUME NEW p \in Project, NEW e \in DOMAIN typed, LastOf(p, e), present'[p] # {}
             PROVE  (OnlyEdit(e, p) /\ \A b \in present[p] : Reached(b, e, p))'
  BY <1>1 DEF Turns, LastOf
<1>3. present'[p] \subseteq present[p] /\ (p = room[c] => out[c] = <<>> /\ c \notin present'[p])
  BY <1>2
<1>4. OnlyEdit(e, p) /\ \A b \in present[p] : Reached(b, e, p)
  BY <1>3 DEF Turns
<1>5. OnlyEdit(e, p)'
  <2>1. p # NoRoom
    BY EditAssumption
  <2>2. Members(p)' = Members(p) \ {c}
    BY <1>1, <2>1 DEF Members
  <2>3. ASSUME NEW d \in Members(p) \ {c}
        PROVE  Edits(out'[d]) \subseteq {e} /\ \A b \in Client : Edits(pipe'[b][d]) \subseteq {e}
    <3>1. d \in Client /\ d \in Members(p) /\ d # c
      BY <2>3 DEF Members
    <3>2. out'[d] = out[d] /\ \A b \in Client : pipe'[b][d] = pipe[b][d]
      BY <1>1, <3>1
    <3> QED
      BY <1>4, <3>1, <3>2 DEF OnlyEdit
  <2> QED
    BY <2>2, <2>3 DEF OnlyEdit
<1>6. ASSUME NEW b \in present'[p] PROVE Reached(b, e, p)'
  <2>1. b \in Client /\ Reached(b, e, p)
    BY <1>3, <1>4, <1>6 DEF TypeOK
  <2>2. b # c
    BY <1>3, <1>6, <2>1 DEF Reached
  <2>3. Waits(b, p) => Waits(b, p)'
    BY <1>1, <1>3, <2>1, <2>2 DEF Waits, Members
  <2> QED
    BY <1>1, <2>1, <2>2, <2>3 DEF Reached, Shown
<1> QED
  BY <1>5, <1>6

LEMMA TurnsStep == TypeOK /\ Texts /\ Turns /\ [Next]_liveVars => Turns'
<1> SUFFICES ASSUME TypeOK, Texts, Turns, [Next]_liveVars
             PROVE  Turns'
  OBVIOUS
<1>1. CASE UNCHANGED liveVars
  BY <1>1, FrameTurns DEF liveVars, editVars, netVars, placeVars, pastVars
<1>2. ASSUME NEW c \in Client, User(c) \/ Disconnect(c) \/ Relay(c)
      PROVE  Turns'
  BY <1>2, EditTurns, LocalTurns, ConnectTurns, DisconnectTurns, RelayTurns DEF User, Local
<1>3. ASSUME NEW c \in Client, NEW d \in Client, Receive(c, d)
      PROVE  Turns'
  BY <1>3, ReceiveTurns
<1> QED
  BY <1>1, <1>2, <1>3 DEF Next

LEMMA TurnsAgree == TypeOK /\ Texts /\ Turns => TurnTakersAgree
<1> SUFFICES ASSUME TypeOK, Texts, Turns, NEW p \in Project, NEW e \in DOMAIN typed,
                    CalmRoom(p), LastOf(p, e), NEW c \in present[p]
             PROVE  tab[c] = e \/ told[c] = e
  BY DEF TurnTakersAgree
<1>1. Reached(c, e, p) /\ c \in Client
  BY DEF Turns, TypeOK
<1>2. ~Waits(c, p)
  BY <1>1 DEF CalmRoom, Waits, Reached, Members
<1> QED
  BY <1>1, <1>2 DEF Reached

\* Those who take turns in a room end up with the same text, or were told
\* that it was too large.
THEOREM TurnsEndInAgreement == Spec => []TurnTakersAgree
<1>1. Init => Turns
  BY DEF Init, Turns
<1> QED
  BY <1>1, TurnsStep, TurnsAgree, TypeCorrect, TextsHold, PTL DEF Spec
=============================================================================
