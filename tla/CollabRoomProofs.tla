--------------------------- MODULE CollabRoomProofs ---------------------------
(***************************************************************************)
(* Proofs about CollabRoom and PresenceView, for any finite set of         *)
(* connections and any loops, projects, users, ids and bounds.             *)
(*                                                                         *)
(* The argument: a room changes in three steps only (a new connection, its *)
(* close and a restart), all of them under g_roomMutex, and each of them   *)
(* changes the reference count along with it.  Everything after the lock   *)
(* works with the connection's own context, which never changes again;     *)
(* the strengthening says what the running callback is about to send.      *)
(* PresenceView adds the clients' lists and leaves these facts alone.      *)
(***************************************************************************)
EXTENDS PresenceView, PresenceSet, FiniteSetTheorems, SequenceTheorems, TLAPS

\* A connection beyond its handshake has its context.
HasContext == \A c \in Conn : pc[c] \notin {"new", "closed"} => ctx[c] # NoContext

\* A running callback announces its own connection: what it is about to send
\* names its project, user_left is the message of the close handler alone, and
\* a cursor or a soft lock on its way to Redis names a file.
OwnText ==
  \A c \in Conn :
    /\ pc[c] \notin Parked => text[c].project = ctx[c].project
    /\ pc[c] \in Closing => text[c].type = "presence.user_left"
    /\ pc[c] \in {"file", "mark"} => text[c].type # "presence.user_left"
    /\ pc[c] = "mark" => /\ text[c].type \in {"editor.cursor", "editor.soft_lock"}
                         /\ text[c].file \in File

\* A copy of a room holds connections of the sender's project.
OwnRoomCopy ==
  \A c \in Conn : pc[c] = "send" =>
    \A d \in to[c] : pc[d] # "new" /\ ctx[d].project = ctx[c].project

\* Only an open connection has something to read.
OpenOutbox == \A c \in Conn : outbox[c] # <<>> => InRoom(c)

IInv ==
  /\ TypeOK
  /\ HasContext
  /\ OwnText
  /\ MembersAreOpen
  /\ OwnRoomCopy
  /\ OpenOutbox
  /\ RefCountMatchesRoom
  /\ DistinctInRoom
  /\ DeliveredInProject

-----------------------------------------------------------------------------
\* The step after a Redis command.
LEMMA AfterRedisValues ==
  /\ DOMAIN AfterRedis = {"sadd", "hmset", "file", "mark", "del", "del_srem", "srem"}
  /\ AfterRedis["sadd"] = "hmset"
  /\ AfterRedis["hmset"] = "welcome"
  /\ AfterRedis["file"] = "copy"
  /\ AfterRedis["mark"] = "copy"
  /\ AfterRedis["del"] = "copy"
  /\ AfterRedis["del_srem"] = "srem"
  /\ AfterRedis["srem"] = "copy"
BY DEF AfterRedis

LEMMA InitInv == Init => IInv
<1> SUFFICES ASSUME Init PROVE IInv
  OBVIOUS
<1> USE RoomAssumption DEF Init
<1>1. TypeOK
  BY DEF RoomAssumption, TypeOK, Message, Step, Parked
<1>2. HasContext /\ OwnText /\ OwnRoomCopy /\ OpenOutbox /\ DeliveredInProject /\ DistinctInRoom
  BY DEF HasContext, OwnText, OwnRoomCopy, OpenOutbox, DeliveredInProject, DistinctInRoom,
         Parked, Closing
<1>3. MembersAreOpen
  BY DEF MembersAreOpen, InRoom, Joining
<1>4. RefCountMatchesRoom
  <2>1. \A p \in Project, u \in User : {c \in rooms[p] : ctx[c].user = u} = {}
    OBVIOUS
  <2> QED
    BY <2>1, FS_EmptySet DEF RefCountMatchesRoom
<1> QED
  BY <1>1, <1>2, <1>3, <1>4 DEF IInv

-----------------------------------------------------------------------------
(***************************************************************************)
(* The steps of a running callback.  They leave rooms, counts and contexts *)
(* alone; what they owe to the invariant is stated once.                   *)
(***************************************************************************)
\* c has a context, and it is a proper one.
LEMMA ContextOf ==
  ASSUME IInv, NEW c \in Conn, pc[c] \notin {"new", "closed"}
  PROVE  /\ ctx[c] \in Context
         /\ ctx[c].project \in Project
         /\ ctx[c].clientId \in AnyId
         /\ ctx[c].user \in User
BY DEF IInv, TypeOK, HasContext, Context

\* A step of c that stays in its room, or out of it, and keeps to the rules of
\* what a callback may say preserves every part that speaks of rooms.
LEMMA CallbackStep ==
  ASSUME IInv, NEW c \in Conn, NEW s \in Step \ {"new"},
         pc[c] \notin {"new", "closed"},
         pc' = [pc EXCEPT ![c] = s],
         UNCHANGED <<rooms, refCount, ctx>>,
         \A d \in Conn \ {c} : text'[d] = text[d] /\ to'[d] = to[d],
         InRoom(c)' <=> InRoom(c),
         s \notin Parked => text'[c].project = ctx[c].project,
         s \in Closing => text'[c].type = "presence.user_left",
         s \in {"file", "mark"} => text'[c].type # "presence.user_left",
         s = "mark" => /\ text'[c].type \in {"editor.cursor", "editor.soft_lock"}
                       /\ text'[c].file \in File,
         s = "send" => \/ to'[c] \subseteq Recipients(c)
                       \/ pc[c] = "send" /\ to'[c] \subseteq to[c]
  PROVE  /\ HasContext' /\ OwnText' /\ MembersAreOpen' /\ OwnRoomCopy'
         /\ RefCountMatchesRoom' /\ DistinctInRoom'
         /\ \A d \in Conn : InRoom(d)' <=> InRoom(d)
<1> USE DEF IInv
<1>1. /\ \A d \in Conn : pc'[d] = IF d = c THEN s ELSE pc[d]
      /\ pc \in [Conn -> Step]
  BY DEF TypeOK
<1>2. HasContext'
  BY <1>1 DEF HasContext
<1>3. OwnText'
  <2> SUFFICES ASSUME NEW d \in Conn PROVE OwnText!(d)'
    BY DEF OwnText
  <2>1. CASE d = c
    BY <1>1, <2>1
  <2>2. CASE d # c
    BY <1>1, <2>2 DEF OwnText
  <2> QED
    BY <2>1, <2>2
<1>4. \A d \in Conn : InRoom(d)' <=> InRoom(d)
  <2> SUFFICES ASSUME NEW d \in Conn, d # c PROVE InRoom(d)' <=> InRoom(d)
    OBVIOUS
  <2> QED
    BY <1>1 DEF InRoom
<1>5. MembersAreOpen'
  BY <1>4 DEF MembersAreOpen
<1>6. OwnRoomCopy'
  <2> SUFFICES ASSUME NEW d \in Conn, pc'[d] = "send", NEW e \in to'[d]
               PROVE  pc'[e] # "new" /\ ctx[e].project = ctx[d].project
    BY DEF OwnRoomCopy
  <2>1. CASE d = c /\ e \in Recipients(c)
    <3>1. ctx[c].project \in Project
      BY ContextOf
    <3>2. e \in rooms[ctx[c].project] /\ e \in Conn
      BY <2>1, <3>1 DEF Recipients, TypeOK
    <3>3. InRoom(e) /\ ctx[e].project = ctx[c].project
      BY <3>1, <3>2 DEF MembersAreOpen
    <3>4. pc[e] # "new"
      BY <3>3 DEF InRoom, Joining
    <3> QED
      BY <1>1, <2>1, <3>2, <3>3, <3>4
  <2>2. CASE e \in to[d] /\ pc[d] = "send"
    <3>1. e \in Conn
      BY <2>2 DEF TypeOK
    <3> QED
      BY <1>1, <2>2, <3>1 DEF OwnRoomCopy
  <2> QED
    BY <1>1, <2>1, <2>2
<1>7. RefCountMatchesRoom' /\ DistinctInRoom'
  BY DEF RefCountMatchesRoom, DistinctInRoom
<1> QED
  BY <1>2, <1>3, <1>4, <1>5, <1>6, <1>7

\* A step that sends nothing.
LEMMA Silent ==
  ASSUME IInv, UNCHANGED <<outbox, ctx>>, \A d \in Conn : InRoom(d)' <=> InRoom(d)
  PROVE  OpenOutbox' /\ DeliveredInProject'
BY DEF IInv, OpenOutbox, DeliveredInProject

\* A step that sends one message of its own project to an open connection.
LEMMA Sending ==
  ASSUME IInv, NEW d \in Conn, NEW m \in Message, InRoom(d), m.project = ctx[d].project,
         Send(d, m), UNCHANGED ctx, \A e \in Conn : InRoom(e)' <=> InRoom(e)
  PROVE  /\ OpenOutbox' /\ DeliveredInProject'
         /\ outbox' \in [Conn -> Seq(Message)]
<1> USE DEF IInv
<1>1. outbox \in [Conn -> Seq(Message)]
  BY DEF TypeOK
<1>2. \A e \in Conn : outbox'[e] = IF e = d THEN Append(outbox[d], m) ELSE outbox[e]
  BY <1>1 DEF Send
<1>3. outbox' \in [Conn -> Seq(Message)]
  <2>1. Append(outbox[d], m) \in Seq(Message)
    BY <1>1
  <2> QED
    BY <1>1, <2>1 DEF Send
<1>4. OpenOutbox'
  BY <1>2 DEF OpenOutbox
<1>5. DeliveredInProject'
  <2> SUFFICES ASSUME NEW e \in Conn, NEW i \in DOMAIN outbox'[e]
               PROVE  outbox'[e][i].project = ctx[e].project
    BY DEF DeliveredInProject
  <2>1. CASE e # d
    BY <1>2, <2>1 DEF DeliveredInProject
  <2>2. CASE e = d
    <3>1. outbox[d] \in Seq(Message) /\ outbox'[d] = Append(outbox[d], m)
      BY <1>1, <1>2
    <3>2. i \in 1..Len(outbox[d]) + 1 /\ Len(outbox[d]) \in Nat
      BY <2>2, <3>1
    <3>3. CASE i = Len(outbox[d]) + 1
      BY <2>2, <3>1, <3>2, <3>3
    <3>4. CASE i \in 1..Len(outbox[d])
      <4>1. outbox'[d][i] = outbox[d][i] /\ i \in DOMAIN outbox[d]
        BY <3>1, <3>4
      <4> QED
        BY <2>2, <4>1 DEF DeliveredInProject
    <3> QED
      BY <3>2, <3>3, <3>4
  <2> QED
    BY <2>1, <2>2
<1> QED
  BY <1>3, <1>4, <1>5

-----------------------------------------------------------------------------
(***************************************************************************)
(* One lemma per action.                                                   *)
(***************************************************************************)
\* A step at a Redis command goes on to the next one.
LEMMA RedisStep ==
  ASSUME IInv, NEW c \in Conn, pc[c] \in DOMAIN AfterRedis, Goto(c, AfterRedis[pc[c]]),
         UNCHANGED <<rooms, refCount, ctx, text, to, outbox>>
  PROVE  /\ pc' \in [Conn -> Step]
         /\ HasContext' /\ OwnText' /\ MembersAreOpen' /\ OwnRoomCopy' /\ OpenOutbox'
         /\ RefCountMatchesRoom' /\ DistinctInRoom' /\ DeliveredInProject'
<1> DEFINE s == AfterRedis[pc[c]]
<1>1. /\ pc[c] \in {"sadd", "hmset", "file", "mark", "del", "del_srem", "srem"}
      /\ s \in {"hmset", "welcome", "copy", "srem"}
      /\ s = "srem" => pc[c] = "del_srem"
      /\ s = "copy" => pc[c] \in {"file", "mark", "del", "srem"}
      /\ s \in {"hmset", "welcome"} => pc[c] \in {"sadd", "hmset"}
  BY AfterRedisValues
<1>2. s \in Step \ {"new"} /\ pc' = [pc EXCEPT ![c] = s]
  BY <1>1 DEF Step, Parked, Joining, Closing, Goto
<1>3. pc \in [Conn -> Step] /\ pc'[c] = s
  BY <1>2 DEF IInv, TypeOK
<1>4. /\ text[c].project = ctx[c].project
      /\ pc[c] \in Closing => text[c].type = "presence.user_left"
      /\ pc[c] \in {"file", "mark"} => text[c].type # "presence.user_left"
  BY <1>1 DEF IInv, OwnText, Parked
<1>5. InRoom(c)' <=> InRoom(c)
  BY <1>1, <1>3, <1>4 DEF InRoom, Joining, Closing
<1>6. /\ HasContext' /\ OwnText' /\ MembersAreOpen' /\ OwnRoomCopy'
      /\ RefCountMatchesRoom' /\ DistinctInRoom'
      /\ \A d \in Conn : InRoom(d)' <=> InRoom(d)
  <2>1. s = "srem" => text'[c].type = "presence.user_left"
    BY <1>1, <1>4 DEF Closing
  <2>2. s \notin {"file", "mark", "send", "del", "del_srem"}
    BY <1>1
  <2> HIDE DEF s
  <2> QED
    BY <1>1, <1>2, <1>4, <1>5, <2>1, <2>2, CallbackStep DEF Closing
<1>7. pc' \in [Conn -> Step]
  BY <1>2, <1>3
<1> QED
  BY <1>6, <1>7, Silent

LEMMA PresenceUserJoinInv ==
  ASSUME IInv, NEW c \in Conn, PresenceUserJoin(c)
  PROVE  IInv'
<1> USE DEF PresenceUserJoin
<1>1. pc[c] \in DOMAIN AfterRedis
  BY AfterRedisValues
<1>2. ctx[c].project \in Project /\ ctx[c].user \in User
  BY ContextOf
<1>3. presence' \in [Project -> SUBSET User]
  BY <1>2 DEF IInv, TypeOK
<1> QED
  BY <1>1, <1>3, RedisStep DEF IInv, TypeOK, roomVars

LEMMA SessionSetInv ==
  ASSUME IInv, NEW c \in Conn, SessionSet(c)
  PROVE  IInv'
<1> USE DEF SessionSet
<1>1. pc[c] \in DOMAIN AfterRedis
  BY AfterRedisValues
<1>2. ctx[c].project \in Project /\ ctx[c].user \in User /\ ctx[c].clientId \in AnyId
  BY ContextOf
<1>3. currentFile[c] \in File \cup {NoFile}
  BY DEF IInv, TypeOK
<1>4. session' \in [AnyId -> Session \cup {NoSession}]
  BY <1>2, <1>3 DEF IInv, TypeOK, Session
<1> QED
  BY <1>1, <1>4, RedisStep DEF IInv, TypeOK, roomVars

LEMMA SessionClearInv ==
  ASSUME IInv, NEW c \in Conn, SessionClear(c)
  PROVE  IInv'
<1> USE DEF SessionClear
<1>1. pc[c] \in DOMAIN AfterRedis
  BY AfterRedisValues
<1>2. session' \in [AnyId -> Session \cup {NoSession}]
  BY DEF IInv, TypeOK
<1> QED
  BY <1>1, <1>2, RedisStep DEF IInv, TypeOK, roomVars

LEMMA PresenceUserLeaveInv ==
  ASSUME IInv, NEW c \in Conn, PresenceUserLeave(c)
  PROVE  IInv'
<1> USE DEF PresenceUserLeave
<1>1. pc[c] \in DOMAIN AfterRedis
  BY AfterRedisValues
<1>2. ctx[c].project \in Project /\ ctx[c].user \in User
  BY ContextOf
<1>3. presence' \in [Project -> SUBSET User]
  BY <1>2 DEF IInv, TypeOK
<1> QED
  BY <1>1, <1>3, RedisStep DEF IInv, TypeOK, roomVars

LEMMA MarkSetInv ==
  ASSUME IInv, NEW c \in Conn, MarkSet(c)
  PROVE  IInv'
<1> USE DEF MarkSet
<1>1. pc[c] \in DOMAIN AfterRedis
  BY AfterRedisValues
<1>2. ctx[c].project \in Project /\ ctx[c].user \in User
  BY ContextOf
<1>3. text[c].type \in {"editor.cursor", "editor.soft_lock"} /\ text[c].file \in File
  BY DEF IInv, OwnText
<1>4. marks' \in SUBSET Mark
  BY <1>2, <1>3 DEF IInv, TypeOK, Mark
<1> QED
  BY <1>1, <1>4, RedisStep DEF IInv, TypeOK, roomVars

LEMMA RedisFailsInv ==
  ASSUME IInv, NEW c \in Conn, RedisFails(c)
  PROVE  IInv'
BY RedisStep DEF RedisFails, IInv, TypeOK, roomVars, redisVars

LEMMA SendWelcomeInv ==
  ASSUME IInv, NEW c \in Conn, SendWelcome(c)
  PROVE  IInv'
<1> DEFINE m == Payload(c, "server.welcome")
<1> USE DEF SendWelcome, roomVars, redisVars
<1>1. m \in Message /\ m.project = ctx[c].project
  BY ContextOf DEF Payload, Message
<1>2. pc \in [Conn -> Step] /\ pc' = [pc EXCEPT ![c] = "roster"]
  BY DEF IInv, TypeOK, Goto
<1>3. InRoom(c) /\ (InRoom(c)' <=> InRoom(c))
  BY <1>2 DEF InRoom, Joining
<1>4. "roster" \in Step \ {"new"} /\ "roster" \notin Closing
  BY DEF Step, Joining, Closing
<1>5. text[c].project = ctx[c].project
  BY DEF IInv, OwnText, Parked
<1>6. /\ HasContext' /\ OwnText' /\ MembersAreOpen' /\ OwnRoomCopy'
      /\ RefCountMatchesRoom' /\ DistinctInRoom'
      /\ \A d \in Conn : InRoom(d)' <=> InRoom(d)
  BY <1>2, <1>3, <1>4, <1>5, CallbackStep
<1>7. OpenOutbox' /\ DeliveredInProject' /\ outbox' \in [Conn -> Seq(Message)]
  <2> HIDE DEF m
  <2> QED
    BY <1>1, <1>3, <1>6, Sending DEF m
<1>8. TypeOK'
  BY <1>2, <1>4, <1>7 DEF IInv, TypeOK
<1> QED
  BY <1>6, <1>7, <1>8 DEF IInv

LEMMA SendRosterInv ==
  ASSUME IInv, NEW c \in Conn, SendRoster(c)
  PROVE  IInv'
<1> USE DEF SendRoster, roomVars, redisVars
<1>1. text[c] \in Message /\ text[c].project = ctx[c].project
  BY DEF IInv, TypeOK, OwnText, Parked
<1>2. /\ pc \in [Conn -> Step] /\ pc' = [pc EXCEPT ![c] = "copy"]
      /\ text' = [text EXCEPT ![c] = Payload(c, "presence.user_joined")]
      /\ text \in [Conn -> Message]
  BY DEF IInv, TypeOK, Goto
<1>3. /\ Payload(c, "presence.user_joined") \in Message
      /\ Payload(c, "presence.user_joined").project = ctx[c].project
      /\ Payload(c, "presence.user_joined").type = "presence.user_joined"
  BY ContextOf DEF Payload, Message
<1>4. InRoom(c) /\ (InRoom(c)' <=> InRoom(c))
  BY <1>2, <1>3 DEF InRoom, Joining
<1>5. "copy" \in Step \ {"new"} /\ "copy" \notin Closing
  BY DEF Step, Closing
<1>6. /\ HasContext' /\ OwnText' /\ MembersAreOpen' /\ OwnRoomCopy'
      /\ RefCountMatchesRoom' /\ DistinctInRoom'
      /\ \A d \in Conn : InRoom(d)' <=> InRoom(d)
  BY <1>2, <1>3, <1>4, <1>5, CallbackStep
<1>7. OpenOutbox' /\ DeliveredInProject' /\ outbox' \in [Conn -> Seq(Message)]
  BY <1>1, <1>4, <1>6, Sending
<1>8. TypeOK'
  BY <1>2, <1>3, <1>5, <1>7 DEF IInv, TypeOK
<1> QED
  BY <1>6, <1>7, <1>8 DEF IInv

LEMMA CopyRoomInv ==
  ASSUME IInv, NEW c \in Conn, CopyRoom(c)
  PROVE  IInv'
<1> DEFINE s == IF to'[c] # {} THEN "send"
                ELSE IF text[c].type = "presence.user_left" THEN "closed" ELSE "idle"
<1> USE DEF CopyRoom, roomVars, redisVars
<1>1. pc \in [Conn -> Step] /\ pc' = [pc EXCEPT ![c] = s]
  BY DEF IInv, TypeOK, Goto, Return
<1>2. s \in Step \ {"new"} /\ s \notin Closing \cup {"file", "mark"}
  BY DEF Step, Parked, Closing
<1>3. to' = [to EXCEPT ![c] = Recipients(c)] /\ to \in [Conn -> SUBSET Conn]
  BY DEF IInv, TypeOK
<1>4. Recipients(c) \subseteq Conn
  BY ContextOf DEF IInv, TypeOK, Recipients
<1>5. InRoom(c)' <=> InRoom(c)
  BY <1>1, <1>2 DEF InRoom, Joining
<1>6. text[c].project = ctx[c].project
  BY DEF IInv, OwnText, Parked
<1>7. to'[c] \subseteq Recipients(c)
  BY <1>3
<1>8. /\ HasContext' /\ OwnText' /\ MembersAreOpen' /\ OwnRoomCopy'
      /\ RefCountMatchesRoom' /\ DistinctInRoom'
      /\ \A d \in Conn : InRoom(d)' <=> InRoom(d)
  <2> HIDE DEF s
  <2> QED
    BY <1>1, <1>2, <1>3, <1>5, <1>6, <1>7, CallbackStep
<1>9. TypeOK'
  <2> HIDE DEF s
  <2> QED
    BY <1>1, <1>2, <1>3, <1>4 DEF IInv, TypeOK
<1> QED
  BY <1>8, <1>9, Silent DEF IInv

LEMMA SendToMemberInv ==
  ASSUME IInv, NEW c \in Conn, NEW d \in Conn, SendToMember(c, d)
  PROVE  IInv'
<1> DEFINE s == IF to'[c] # {} THEN "send"
                ELSE IF text[c].type = "presence.user_left" THEN "closed" ELSE "idle"
<1> USE DEF SendToMember, roomVars, redisVars
<1>1. pc \in [Conn -> Step] /\ pc' = [pc EXCEPT ![c] = s]
  BY DEF IInv, TypeOK, Goto, Return
<1>2. s \in Step \ {"new"} /\ s \notin Closing \cup {"file", "mark"}
  BY DEF Step, Parked, Closing
<1>3. to' = [to EXCEPT ![c] = @ \ {d}] /\ to \in [Conn -> SUBSET Conn]
  BY DEF IInv, TypeOK
<1>4. InRoom(c)' <=> InRoom(c)
  BY <1>1, <1>2 DEF InRoom, Joining
<1>5. text[c].project = ctx[c].project /\ text[c] \in Message
  BY DEF IInv, OwnText, Parked, TypeOK
<1>6. to'[c] \subseteq to[c]
  BY <1>3
<1>7. /\ HasContext' /\ OwnText' /\ MembersAreOpen' /\ OwnRoomCopy'
      /\ RefCountMatchesRoom' /\ DistinctInRoom'
      /\ \A e \in Conn : InRoom(e)' <=> InRoom(e)
  <2> HIDE DEF s
  <2> QED
    BY <1>1, <1>2, <1>3, <1>4, <1>5, <1>6, CallbackStep
<1>8. OpenOutbox' /\ DeliveredInProject' /\ outbox' \in [Conn -> Seq(Message)]
  <2>1. CASE Disconnected(d)
    BY <1>7, <2>1, Silent DEF IInv, TypeOK
  <2>2. CASE ~Disconnected(d)
    <3>1. ctx[d].project = ctx[c].project
      BY DEF IInv, OwnRoomCopy
    <3>2. ctx[c].project \in Project
      BY ContextOf
    <3>3. InRoom(d)
      BY <2>2, <3>1, <3>2 DEF Disconnected, IInv, MembersAreOpen
    <3>4. Send(d, text[c])
      BY <2>2
    <3> QED
      BY <1>5, <1>7, <3>1, <3>3, <3>4, Sending
  <2> QED
    BY <2>1, <2>2
<1>9. TypeOK'
  <2>1. to' \in [Conn -> SUBSET Conn]
    BY <1>3
  <2> HIDE DEF s
  <2> QED
    BY <1>1, <1>2, <1>8, <2>1 DEF IInv, TypeOK
<1> QED
  BY <1>7, <1>8, <1>9 DEF IInv

LEMMA HeartbeatInv ==
  ASSUME IInv, NEW c \in Conn, Heartbeat(c)
  PROVE  IInv'
<1> DEFINE m == Payload(c, "heartbeat.ack")
<1> USE DEF Heartbeat, TakeMessage, roomVars, redisVars
<1>1. m \in Message /\ m.project = ctx[c].project
  <2>1. pc[c] \notin {"new", "closed"}
    OBVIOUS
  <2> QED
    BY <2>1, ContextOf DEF Payload, Message
<1>2. pc \in [Conn -> Step] /\ pc' = [pc EXCEPT ![c] = "idle"]
  BY DEF IInv, TypeOK
<1>3. InRoom(c) /\ (InRoom(c)' <=> InRoom(c))
  BY DEF InRoom
<1>4. "idle" \in Step \ {"new"} /\ "idle" \in Parked \ Closing
  BY DEF Step, Parked, Closing
<1>5. /\ HasContext' /\ OwnText' /\ MembersAreOpen' /\ OwnRoomCopy'
      /\ RefCountMatchesRoom' /\ DistinctInRoom'
      /\ \A d \in Conn : InRoom(d)' <=> InRoom(d)
  <2>1. pc[c] = "idle" /\ UNCHANGED <<rooms, refCount, ctx, text, to>>
    OBVIOUS
  <2>2. "idle" \notin {"file", "mark", "send"}
    OBVIOUS
  <2> HIDE DEF Heartbeat, TakeMessage, m
  <2> QED
    BY <1>2, <1>3, <1>4, <2>1, <2>2, CallbackStep
<1>6. OpenOutbox' /\ DeliveredInProject' /\ outbox' \in [Conn -> Seq(Message)]
  <2> HIDE DEF m
  <2> QED
    BY <1>1, <1>3, <1>5, Sending DEF m
<1>7. TypeOK'
  BY <1>6 DEF IInv, TypeOK
<1> QED
  BY <1>5, <1>6, <1>7 DEF IInv

LEMMA CurrentFileInv ==
  ASSUME IInv, NEW c \in Conn, NEW f \in File \cup {NoFile}, CurrentFile(c, f)
  PROVE  IInv'
<1> DEFINE m == FilePayload(c, "presence.current_file_changed", f)
<1> USE DEF CurrentFile, TakeMessage, roomVars, redisVars
<1>1. /\ m \in Message /\ m.project = ctx[c].project
      /\ m.type # "presence.user_left"
  BY ContextOf DEF FilePayload, Message
<1>2. pc \in [Conn -> Step] /\ pc' = [pc EXCEPT ![c] = "file"]
  BY DEF IInv, TypeOK, Goto
<1>3. InRoom(c)' <=> InRoom(c)
  BY <1>2 DEF InRoom
<1>4. "file" \in Step \ {"new"} /\ "file" \notin Closing
  BY DEF Step, Closing
<1>5. text' = [text EXCEPT ![c] = m] /\ text \in [Conn -> Message]
  BY DEF IInv, TypeOK
<1>6. /\ HasContext' /\ OwnText' /\ MembersAreOpen' /\ OwnRoomCopy'
      /\ RefCountMatchesRoom' /\ DistinctInRoom'
      /\ \A d \in Conn : InRoom(d)' <=> InRoom(d)
  <2> HIDE DEF m
  <2> QED
    BY <1>1, <1>2, <1>3, <1>4, <1>5, CallbackStep
<1>7. TypeOK'
  <2> HIDE DEF m
  <2> QED
    BY <1>1, <1>2, <1>4, <1>5 DEF IInv, TypeOK
<1> QED
  BY <1>6, <1>7, Silent DEF IInv

LEMMA RelayInv ==
  ASSUME IInv, NEW c \in Conn, NEW type \in RelayType, NEW f \in File \cup {NoFile},
         Relay(c, type, f)
  PROVE  IInv'
<1> DEFINE m == FilePayload(c, type, f)
           marking == type \in {"editor.cursor", "editor.soft_lock"} /\ f # NoFile
           s == IF marking THEN "mark" ELSE "copy"
<1> USE DEF Relay, TakeMessage, roomVars, redisVars
<1>1. /\ m \in Message /\ m.project = ctx[c].project
      /\ m.type # "presence.user_left"
      /\ marking => m.type \in {"editor.cursor", "editor.soft_lock"} /\ m.file \in File
  BY ContextOf, RoomAssumption DEF FilePayload, Message, RoomAssumption
<1>2. pc \in [Conn -> Step] /\ pc' = [pc EXCEPT ![c] = s]
  BY DEF IInv, TypeOK, Goto
<1>3. text' = [text EXCEPT ![c] = m] /\ text \in [Conn -> Message]
  BY DEF IInv, TypeOK
<1>4. text'[c] = m
  BY <1>3
<1>5. InRoom(c)' <=> InRoom(c)
  BY <1>1, <1>2, <1>4 DEF InRoom
<1>6. s \in Step \ {"new"} /\ s \notin Closing /\ s # "send" /\ (s = "mark" => marking)
  BY DEF Step, Closing
<1>7. /\ HasContext' /\ OwnText' /\ MembersAreOpen' /\ OwnRoomCopy'
      /\ RefCountMatchesRoom' /\ DistinctInRoom'
      /\ \A d \in Conn : InRoom(d)' <=> InRoom(d)
  <2> HIDE DEF m, s, marking
  <2> QED
    BY <1>1, <1>2, <1>3, <1>4, <1>5, <1>6, CallbackStep
<1>8. TypeOK'
  <2> HIDE DEF m, s
  <2> QED
    BY <1>1, <1>2, <1>3, <1>6 DEF IInv, TypeOK
<1> QED
  BY <1>7, <1>8, Silent DEF IInv

LEMMA RefuseConnectionInv ==
  ASSUME IInv, NEW c \in Conn, RefuseConnection(c)
  PROVE  IInv'
<1> USE DEF RefuseConnection, roomVars, redisVars
<1>1. pc \in [Conn -> Step] /\ pc' = [pc EXCEPT ![c] = "closed"]
  BY DEF IInv, TypeOK, Goto
<1>2. \A d \in Conn : pc'[d] = IF d = c THEN "closed" ELSE pc[d]
  BY <1>1
<1>3. \A d \in Conn : InRoom(d)' <=> InRoom(d)
  BY <1>2 DEF InRoom, Joining
<1>4. TypeOK'
  BY <1>1 DEF IInv, TypeOK, Step, Parked
<1>5. HasContext' /\ OwnText'
  BY <1>2 DEF IInv, HasContext, OwnText, Parked, Closing
<1>6. OwnRoomCopy'
  BY <1>2 DEF IInv, TypeOK, OwnRoomCopy
<1>7. MembersAreOpen' /\ RefCountMatchesRoom' /\ DistinctInRoom'
  BY <1>3 DEF IInv, MembersAreOpen, RefCountMatchesRoom, DistinctInRoom
<1> QED
  BY <1>3, <1>4, <1>5, <1>6, <1>7, Silent DEF IInv

\* The members of a room who belong to one user.
MembersOf(p, u) == {c \in rooms[p] : ctx[c].user = u}

LEMMA NewConnectionInv ==
  ASSUME IInv, NEW c \in Conn, NEW p \in Project, NEW u \in User, NEW r \in ClientId,
         NewConnection(c, p, u, r)
  PROVE  IInv'
<1> DEFINE s == IF FirstConnection(refCount'[p][u]) THEN "sadd" ELSE "hmset"
<1>1. PICK id \in DistinctClientIds(p, r) :
        ctx' = [ctx EXCEPT ![c] = [project |-> p, clientId |-> id, user |-> u]]
  BY DEF NewConnection
<1>2. id \in AnyId /\ id \notin RoomIds(p)
  BY DEF DistinctClientIds, AnyId
<1> DEFINE x == [project |-> p, clientId |-> id, user |-> u]
<1>3. x \in Context /\ x.project = p /\ x.clientId = id /\ x.user = u
  BY <1>2 DEF Context
<1>4. /\ \A d \in Conn : ctx'[d] = IF d = c THEN x ELSE ctx[d]
      /\ ctx' \in [Conn -> Context \cup {NoContext}]
  BY <1>1, <1>3 DEF IInv, TypeOK
<1>5. x # NoContext
  BY <1>3, RoomAssumption DEF RoomAssumption, Context
<1>6. /\ rooms' = [rooms EXCEPT ![p] = @ \cup {c}]
      /\ rooms \in [Project -> SUBSET Conn]
      /\ rooms' \in [Project -> SUBSET Conn]
      /\ \A q \in Project : rooms'[q] = IF q = p THEN rooms[p] \cup {c} ELSE rooms[q]
  BY DEF IInv, TypeOK, NewConnection, AddMember
<1>7. /\ pc \in [Conn -> Step] /\ pc' = [pc EXCEPT ![c] = s]
      /\ \A d \in Conn : pc'[d] = IF d = c THEN s ELSE pc[d]
      /\ pc[c] = "new" /\ s \in {"sadd", "hmset"}
  BY DEF IInv, TypeOK, NewConnection, Goto
<1>8. \A q \in Project : c \notin rooms[q]
  BY <1>7 DEF IInv, MembersAreOpen, InRoom, Joining
<1>9. \A d \in Conn : InRoom(d)' <=> InRoom(d) \/ d = c
  <2>1. \A d \in Conn \ {c} : text'[d] = text[d]
    BY DEF IInv, TypeOK, NewConnection
  <2> QED
    BY <1>7, <2>1 DEF InRoom, Joining
<1>10. text'[c] = RosterOf(p, rooms'[p], ctx', currentFile') /\ \A d \in Conn \ {c} : text'[d] = text[d]
  BY DEF IInv, TypeOK, NewConnection
<1>11. currentFile' \in [Conn -> File \cup {NoFile}]
  BY DEF IInv, TypeOK, NewConnection
<1>12. MembersAreOpen'
  <2> SUFFICES ASSUME NEW d \in Conn, NEW q \in Project
               PROVE  d \in rooms'[q] <=> InRoom(d)' /\ ctx'[d].project = q
    BY DEF MembersAreOpen
  <2>1. CASE d = c
    BY <1>3, <1>4, <1>6, <1>8, <1>9, <2>1
  <2>2. CASE d # c
    BY <1>4, <1>6, <1>9, <2>2 DEF IInv, MembersAreOpen
  <2> QED
    BY <2>1, <2>2
<1>13. text' \in [Conn -> Message]
  <2>1. \A d \in rooms'[p] : ctx'[d] \in Context
    <3> SUFFICES ASSUME NEW d \in rooms[p], d # c PROVE ctx[d] \in Context
      BY <1>3, <1>4, <1>6
    <3>1. d \in Conn /\ InRoom(d)
      BY <1>6 DEF IInv, MembersAreOpen
    <3> QED
      BY <3>1, ContextOf DEF InRoom, Joining
  <2>2. \A d \in rooms'[p] : [clientId |-> ctx'[d].clientId, file |-> currentFile'[d]] \in Member
    BY <1>6, <1>11, <2>1 DEF Context, Member
  <2>3. RosterOf(p, rooms'[p], ctx', currentFile') \in Message
    BY <2>2 DEF RosterOf, Message
  <2> QED
    BY <2>3 DEF IInv, TypeOK, NewConnection
<1>14. TypeOK'
  <2>1. refCount' \in [Project -> [User -> Nat]]
    BY DEF IInv, TypeOK, NewConnection
  <2>2. pc' \in [Conn -> Step]
    BY <1>7 DEF Step, Joining
  <2>3. UNCHANGED <<presence, session, marks, to, outbox, received, faults, restarts>>
    BY DEF NewConnection, redisVars
  <2> QED
    BY <1>4, <1>6, <1>11, <1>13, <2>1, <2>2, <2>3 DEF IInv, TypeOK
<1>15. HasContext'
  BY <1>4, <1>5, <1>7 DEF IInv, HasContext
<1>16. OwnText'
  <2>1. text'[c].project = p
    BY <1>10 DEF RosterOf
  <2> QED
    BY <1>3, <1>4, <1>7, <1>10, <2>1 DEF IInv, OwnText, Closing
<1>17. OwnRoomCopy'
  <2>1. to \in [Conn -> SUBSET Conn] /\ to' = to
    BY DEF IInv, TypeOK, NewConnection
  <2> SUFFICES ASSUME NEW d \in Conn, pc'[d] = "send", NEW e \in to'[d]
               PROVE  pc'[e] # "new" /\ ctx'[e].project = ctx'[d].project
    BY DEF OwnRoomCopy
  <2>2. d # c /\ pc[d] = "send" /\ e \in to[d] /\ e \in Conn
    BY <1>7, <2>1
  <2>3. pc[e] # "new" /\ ctx[e].project = ctx[d].project
    BY <2>2 DEF IInv, OwnRoomCopy
  <2> QED
    BY <1>4, <1>7, <2>2, <2>3
<1>18. OpenOutbox' /\ DeliveredInProject'
  <2>1. outbox' = outbox /\ outbox[c] = <<>>
    BY <1>7 DEF NewConnection, IInv, OpenOutbox, InRoom, Joining
  <2> QED
    BY <1>4, <1>9, <2>1 DEF IInv, OpenOutbox, DeliveredInProject
<1>19. RefCountMatchesRoom'
  <2> SUFFICES ASSUME NEW q \in Project, NEW v \in User
               PROVE  refCount'[q][v] = Cardinality(MembersOf(q, v)')
    BY DEF RefCountMatchesRoom, MembersOf
  <2>1. refCount[q][v] = Cardinality(MembersOf(q, v)) /\ refCount[q][v] \in Nat
    BY DEF IInv, TypeOK, RefCountMatchesRoom, MembersOf
  <2>2. IsFiniteSet(MembersOf(q, v))
    <3>1. MembersOf(q, v) \in SUBSET Conn
      BY <1>6 DEF MembersOf
    <3> QED
      BY <3>1, RoomAssumption, FS_Subset DEF RoomAssumption
  <2>3. refCount'[q][v] = IF q = p /\ v = u THEN refCount[q][v] + 1 ELSE refCount[q][v]
    BY DEF IInv, TypeOK, NewConnection
  <2>4. CASE q = p /\ v = u
    <3>1. MembersOf(q, v)' = MembersOf(q, v) \cup {c}
      BY <1>3, <1>4, <1>6, <1>8, <2>4 DEF MembersOf
    <3>2. c \notin MembersOf(q, v)
      BY <1>8 DEF MembersOf
    <3>3. Cardinality(MembersOf(q, v) \cup {c}) = Cardinality(MembersOf(q, v)) + 1
      BY <2>2, <3>2, FS_AddElement
    <3> QED
      BY <2>1, <2>3, <2>4, <3>1, <3>3
  <2>5. CASE ~(q = p /\ v = u)
    <3>1. MembersOf(q, v)' = MembersOf(q, v)
      BY <1>3, <1>4, <1>6, <1>8, <2>5 DEF MembersOf
    <3> QED
      BY <2>1, <2>3, <2>5, <3>1
  <2> QED
    BY <2>4, <2>5
<1>20. DistinctInRoom'
  <2> SUFFICES ASSUME NEW q \in Project, NEW d \in rooms'[q], NEW e \in rooms'[q],
                      ctx'[d].clientId = ctx'[e].clientId
               PROVE  d = e
    BY DEF DistinctInRoom
  <2>1. d \in Conn /\ e \in Conn
    BY <1>6
  <2>2. \A f \in rooms[p] : ctx[f].clientId # id
    BY <1>2 DEF RoomIds
  <2> QED
    BY <1>3, <1>4, <1>6, <1>8, <2>1, <2>2 DEF IInv, DistinctInRoom
<1> QED
  BY <1>12, <1>14, <1>15, <1>16, <1>17, <1>18, <1>19, <1>20 DEF IInv

LEMMA ConnectionClosedInv ==
  ASSUME IInv, NEW c \in Conn, ConnectionClosed(c)
  PROVE  IInv'
<1> DEFINE p == ctx[c].project
           u == ctx[c].user
           m == Payload(c, "presence.user_left")
           s == IF LastConnection(refCount[p][u]) THEN "del_srem" ELSE "del"
<1>1. /\ pc[c] = "idle"
      /\ UNCHANGED <<ctx, currentFile, presence, session, marks, to, received, faults, restarts>>
  BY DEF ConnectionClosed, redisVars
<1>2. p \in Project /\ u \in User /\ ctx[c].clientId \in AnyId
  BY <1>1, ContextOf
<1>3. /\ m \in Message /\ m.project = p /\ m.type = "presence.user_left"
  BY <1>2 DEF Payload, Message
<1>4. /\ text' \in [Conn -> Message]
      /\ \A d \in Conn : text'[d] = IF d = c THEN m ELSE text[d]
  BY <1>3 DEF IInv, TypeOK, ConnectionClosed
<1>5. /\ pc' = [pc EXCEPT ![c] = s] /\ s \in {"del_srem", "del"}
      /\ \A d \in Conn : pc'[d] = IF d = c THEN s ELSE pc[d]
      /\ pc' \in [Conn -> Step]
  BY DEF IInv, TypeOK, ConnectionClosed, Goto, Step, Closing
<1>6. /\ rooms \in [Project -> SUBSET Conn]
      /\ rooms' \in [Project -> SUBSET Conn]
      /\ \A q \in Project : rooms'[q] = IF q = p THEN rooms[p] \ {c} ELSE rooms[q]
  BY <1>2 DEF IInv, TypeOK, ConnectionClosed, RemoveMember
<1>7. /\ outbox' \in [Conn -> Seq(Message)]
      /\ \A d \in Conn : outbox'[d] = IF d = c THEN <<>> ELSE outbox[d]
  BY DEF IInv, TypeOK, ConnectionClosed
<1>8. c \in rooms[p]
  BY <1>1, <1>2 DEF IInv, MembersAreOpen, InRoom
<1>9. \A d \in Conn : InRoom(d)' <=> InRoom(d) /\ d # c
  <2> HIDE DEF m, s
  <2> SUFFICES ASSUME NEW d \in Conn PROVE InRoom(d)' <=> InRoom(d) /\ d # c
    OBVIOUS
  <2>1. CASE d = c
    BY <1>5, <2>1 DEF InRoom, Joining
  <2>2. CASE d # c
    BY <1>4, <1>5, <2>2 DEF InRoom
  <2> QED
    BY <2>1, <2>2
<1>10. refCount \in [Project -> [User -> Nat]] /\ refCount' \in [Project -> [User -> Nat]]
  <2>1. refCount \in [Project -> [User -> Nat]]
    BY DEF IInv, TypeOK
  <2>2. \A n \in Nat : GiveBack(n) \in Nat
    BY DEF GiveBack
  <2> QED
    BY <1>2, <2>1, <2>2 DEF ConnectionClosed
<1>11. TypeOK'
  BY <1>1, <1>4, <1>5, <1>6, <1>7, <1>10 DEF IInv, TypeOK
<1>12. HasContext'
  BY <1>1, <1>5 DEF IInv, HasContext
<1>13. OwnText'
  <2> HIDE DEF m, s
  <2> QED
    BY <1>1, <1>3, <1>4, <1>5 DEF IInv, OwnText
<1>14. MembersAreOpen'
  BY <1>1, <1>6, <1>9 DEF IInv, MembersAreOpen
<1>15. OwnRoomCopy'
  <2> HIDE DEF s
  <2>1. to \in [Conn -> SUBSET Conn]
    BY DEF IInv, TypeOK
  <2> QED
    BY <1>1, <1>5, <2>1 DEF IInv, OwnRoomCopy
<1>16. OpenOutbox' /\ DeliveredInProject'
  BY <1>1, <1>7, <1>9 DEF IInv, OpenOutbox, DeliveredInProject
<1>17. RefCountMatchesRoom'
  <2> SUFFICES ASSUME NEW q \in Project, NEW v \in User
               PROVE  refCount'[q][v] = Cardinality(MembersOf(q, v)')
    BY DEF RefCountMatchesRoom, MembersOf
  <2>1. refCount[q][v] = Cardinality(MembersOf(q, v)) /\ refCount[q][v] \in Nat
    BY <1>10 DEF IInv, RefCountMatchesRoom, MembersOf
  <2>2. IsFiniteSet(MembersOf(q, v))
    <3>1. MembersOf(q, v) \in SUBSET Conn
      BY <1>6 DEF MembersOf
    <3> QED
      BY <3>1, RoomAssumption, FS_Subset DEF RoomAssumption
  <2>3. refCount'[q][v] = IF q = p /\ v = u THEN GiveBack(refCount[q][v]) ELSE refCount[q][v]
    BY <1>2, <1>10 DEF ConnectionClosed
  <2>4. CASE q = p /\ v = u
    <3>1. MembersOf(q, v)' = MembersOf(q, v) \ {c}
      BY <1>1, <1>6, <2>4 DEF MembersOf
    <3>2. c \in MembersOf(q, v)
      BY <1>8, <2>4 DEF MembersOf
    <3>3. Cardinality(MembersOf(q, v) \ {c}) = Cardinality(MembersOf(q, v)) - 1
      BY <2>2, <3>2, FS_RemoveElement
    <3>4. Cardinality(MembersOf(q, v) \ {c}) \in Nat
      BY <2>2, FS_RemoveElement, FS_CardinalityType
    <3> QED
      BY <2>1, <2>3, <2>4, <3>1, <3>3, <3>4 DEF GiveBack
  <2>5. CASE ~(q = p /\ v = u)
    <3>1. MembersOf(q, v)' = MembersOf(q, v)
      BY <1>1, <1>6, <2>5 DEF MembersOf
    <3> QED
      BY <2>1, <2>3, <2>5, <3>1
  <2> QED
    BY <2>4, <2>5
<1>18. DistinctInRoom'
  BY <1>1, <1>6 DEF IInv, DistinctInRoom
<1> QED
  BY <1>11, <1>12, <1>13, <1>14, <1>15, <1>16, <1>17, <1>18 DEF IInv

LEMMA SessionExpiresInv ==
  ASSUME IInv, NEW k \in AnyId, SessionExpires(k)
  PROVE  IInv'
<1> USE DEF SessionExpires, roomVars
<1>1. session' \in [AnyId -> Session \cup {NoSession}]
  BY DEF IInv, TypeOK
<1>2. TypeOK'
  BY <1>1 DEF IInv, TypeOK
<1> QED
  BY <1>2 DEF IInv, HasContext, OwnText, MembersAreOpen, InRoom, OwnRoomCopy, OpenOutbox,
              RefCountMatchesRoom, DistinctInRoom, DeliveredInProject

LEMMA MarkExpiresInv ==
  ASSUME IInv, NEW m \in marks, MarkExpires(m)
  PROVE  IInv'
<1> USE DEF MarkExpires, roomVars
<1>1. TypeOK'
  BY DEF IInv, TypeOK
<1> QED
  BY <1>1 DEF IInv, HasContext, OwnText, MembersAreOpen, InRoom, OwnRoomCopy, OpenOutbox,
              RefCountMatchesRoom, DistinctInRoom, DeliveredInProject

LEMMA ServerRestartInv ==
  ASSUME IInv, ServerRestart
  PROVE  IInv'
<1> USE DEF ServerRestart, redisVars
<1>1. \A c \in Conn : pc'[c] \in {"new", "closed"} /\ outbox'[c] = <<>>
  OBVIOUS
<1>2. \A p \in Project : rooms'[p] = {}
  OBVIOUS
<1>3. TypeOK'
  BY DEF IInv, TypeOK, Step, Parked
<1>4. HasContext' /\ OwnText' /\ OwnRoomCopy' /\ OpenOutbox' /\ DeliveredInProject'
  BY <1>1 DEF HasContext, OwnText, OwnRoomCopy, OpenOutbox, DeliveredInProject, Parked, Closing
<1>5. MembersAreOpen' /\ DistinctInRoom'
  BY <1>1, <1>2 DEF MembersAreOpen, DistinctInRoom, InRoom, Joining
<1>6. RefCountMatchesRoom'
  <2>1. \A p \in Project, u \in User :
          {c \in rooms'[p] : ctx'[c].user = u} = {} /\ refCount'[p][u] = 0
    BY <1>2
  <2> QED
    BY <2>1, FS_EmptySet DEF RefCountMatchesRoom
<1> QED
  BY <1>3, <1>4, <1>5, <1>6 DEF IInv

-----------------------------------------------------------------------------
(***************************************************************************)
(* The theorems.                                                           *)
(***************************************************************************)
LEMMA NextInv == IInv /\ [Next]_serverVars => IInv'
<1> SUFFICES ASSUME IInv, [Next]_serverVars PROVE IInv'
  OBVIOUS
<1>1. CASE UNCHANGED serverVars
  BY <1>1 DEF serverVars, IInv, TypeOK, HasContext, OwnText, MembersAreOpen, InRoom, OwnRoomCopy,
              OpenOutbox, RefCountMatchesRoom, DistinctInRoom, DeliveredInProject
<1>2. ASSUME NEW c \in Conn, Callback(c) PROVE IInv'
  BY <1>2, RefuseConnectionInv, NewConnectionInv, HeartbeatInv, CurrentFileInv, RelayInv,
     ConnectionClosedInv DEF Callback
<1>3. ASSUME NEW c \in Conn, Handler(c) PROVE IInv'
  BY <1>3, PresenceUserJoinInv, SessionSetInv, SendWelcomeInv, SendRosterInv, MarkSetInv,
     SessionClearInv, PresenceUserLeaveInv, RedisFailsInv, CopyRoomInv, SendToMemberInv DEF Handler
<1> QED
  BY <1>1, <1>2, <1>3, SessionExpiresInv, MarkExpiresInv, ServerRestartInv DEF Next

\* The strengthened invariant holds throughout.
LEMMA Invariance == Spec => []IInv
BY InitInv, NextInv, PTL DEF Spec

\* Every value the server's rooms, counts, contexts, messages and Redis keys
\* take is of its type; in particular a reference count never turns negative.
THEOREM TypeCorrect == Spec => []TypeOK
<1>1. IInv => TypeOK
  BY DEF IInv
<1> QED
  BY <1>1, Invariance, PTL

\* handleNewConnection and handleConnectionClosed keep a connection in the room
\* of its own project exactly while it is open, across restarts, too.
THEOREM MembersStayOpen == Spec => []MembersAreOpen
<1>1. IInv => MembersAreOpen
  BY DEF IInv
<1> QED
  BY <1>1, Invariance, PTL

\* g_userPresenceRefCount counts the connections of a user in a room, however
\* the callbacks of the loops interleave.
THEOREM RefCountIsExact == Spec => []RefCountMatchesRoom
<1>1. IInv => RefCountMatchesRoom
  BY DEF IInv
<1> QED
  BY <1>1, Invariance, PTL

\* ensureDistinctClientId and addMember, under one lock, leave no two members
\* of a room with the same client id.
THEOREM ClientIdsAreDistinct == Spec => []DistinctInRoom
<1>1. IInv => DistinctInRoom
  BY DEF IInv
<1> QED
  BY <1>1, Invariance, PTL

\* broadcastToRoom works on a copy of the room, which may be out of date by the
\* time it sends; still nothing leaves its project.
THEOREM NothingLeavesItsProject == Spec => []DeliveredInProject
<1>1. IInv => DeliveredInProject
  BY DEF IInv
<1> QED
  BY <1>1, Invariance, PTL

-----------------------------------------------------------------------------
(***************************************************************************)
(* The presence set of Redis, for any number of loops, a Redis that may    *)
(* fail and a server that may be restarted (PresenceSet).                  *)
(*                                                                         *)
(* The commands decided on for a user alternate: an SADD raises the count  *)
(* from 0, an SREM follows its return to 0, and a restart forgets whoever  *)
(* was counted.  So the command decided on last says whether the count is  *)
(* 0, whatever became of the commands; and the one carried out last says   *)
(* whether the set has the user.                                           *)
(***************************************************************************)
Command == {Nothing, Forgotten} \cup {SAdd(c) : c \in Conn} \cup {SRem(c) : c \in Conn}

CommandsTyped ==
  /\ latest \in [Project -> [User -> Command]]
  /\ carried \in [Project -> [User -> Command]]

LatestSays ==
  \A p \in Project, u \in User : latest[p][u].does = "sadd" <=> refCount[p][u] > 0

CarriedSays ==
  \A p \in Project, u \in User : carried[p][u].does = "sadd" <=> u \in presence[p]

HInv == IInv /\ CommandsTyped /\ LatestSays /\ CarriedSays

LEMMA CommandKinds ==
  /\ Nothing.does = "nothing" /\ Forgotten.does = "forgotten"
  /\ Nothing \in Command /\ Forgotten \in Command
  /\ \A c \in Conn : /\ SAdd(c).does = "sadd" /\ SRem(c).does = "srem"
                     /\ SAdd(c) \in Command /\ SRem(c) \in Command
BY DEF Nothing, Forgotten, SAdd, SRem, Command

LEMMA HInit == InitSet => HInv
<1> SUFFICES ASSUME InitSet PROVE HInv
  OBVIOUS
<1>1. \A p \in Project : presence[p] = {} /\ \A u \in User : refCount[p][u] = 0
  BY DEF InitSet, Init
<1>2. CommandsTyped
  BY CommandKinds DEF InitSet, CommandsTyped
<1>3. \A p \in Project, u \in User : latest[p][u] = Nothing /\ carried[p][u] = Nothing
  BY DEF InitSet
<1> QED
  BY <1>1, <1>2, <1>3, InitInv, CommandKinds DEF InitSet, HInv, LatestSays, CarriedSays

\* The step of a new connection: the count is 1 afterwards or was positive before.
LEMMA DecideOnJoinFollows ==
  ASSUME HInv, NEW c \in Conn, NEW p \in Project, NEW u \in User, NEW id \in ClientId,
         DecideOnJoin(c, p, u, id)
  PROVE  CommandsTyped' /\ LatestSays' /\ CarriedSays'
<1>1. /\ refCount' = [refCount EXCEPT ![p][u] = @ + 1]
      /\ refCount \in [Project -> [User -> Nat]]
      /\ pc'[c] = IF FirstConnection(refCount'[p][u]) THEN "sadd" ELSE "hmset"
      /\ UNCHANGED <<presence, carried>>
  BY DEF DecideOnJoin, NewConnection, Goto, redisVars, HInv, IInv, TypeOK
<1>2. PICK k \in Command : k = IF pc'[c] = "sadd" THEN SAdd(c) ELSE latest[p][u]
  BY CommandKinds DEF HInv, CommandsTyped
<1>3. latest' = [latest EXCEPT ![p][u] = k]
  BY <1>2 DEF DecideOnJoin
<1>4. CommandsTyped' /\ CarriedSays'
  BY <1>1, <1>3 DEF HInv, CommandsTyped, CarriedSays
<1>5. LatestSays'
  <2> SUFFICES ASSUME NEW q \in Project, NEW v \in User
               PROVE  latest'[q][v].does = "sadd" <=> refCount'[q][v] > 0
    BY DEF LatestSays
  <2>1. refCount'[q][v] = IF q = p /\ v = u THEN refCount[p][u] + 1 ELSE refCount[q][v]
    BY <1>1
  <2>2. latest'[q][v] = IF q = p /\ v = u THEN k ELSE latest[q][v]
    BY <1>3 DEF HInv, CommandsTyped
  <2>3. CASE q = p /\ v = u
    <3>1. refCount[p][u] \in Nat /\ refCount'[p][u] = refCount[p][u] + 1
      BY <1>1, <2>1, <2>3
    <3>2. pc'[c] = "sadd" <=> refCount[p][u] = 0
      <4>1. pc'[c] = "sadd" <=> refCount'[p][u] = 1
        BY <1>1 DEF FirstConnection
      <4> QED
        BY <3>1, <4>1
    <3>3. k.does = "sadd"
      BY <1>2, <3>1, <3>2, CommandKinds DEF HInv, LatestSays
    <3> QED
      BY <2>2, <2>3, <3>1, <3>3
  <2>4. CASE ~(q = p /\ v = u)
    BY <2>1, <2>2, <2>4 DEF HInv, LatestSays
  <2> QED
    BY <2>3, <2>4
<1> QED
  BY <1>4, <1>5

\* The step of a close: the count was 1 before or is positive afterwards.
LEMMA DecideOnLeaveFollows ==
  ASSUME HInv, NEW c \in Conn, DecideOnLeave(c)
  PROVE  CommandsTyped' /\ LatestSays' /\ CarriedSays'
<1>1. PICK p \in Project, u \in User : p = ctx[c].project /\ u = ctx[c].user
  BY ContextOf DEF HInv, DecideOnLeave, ConnectionClosed
<1>2. /\ refCount' = [refCount EXCEPT ![p][u] = GiveBack(@)]
      /\ refCount \in [Project -> [User -> Nat]]
      /\ pc'[c] = IF LastConnection(refCount[p][u]) THEN "del_srem" ELSE "del"
      /\ UNCHANGED <<presence, carried>>
  BY <1>1 DEF DecideOnLeave, ConnectionClosed, Goto, redisVars, HInv, IInv, TypeOK
<1>3. PICK k \in Command : k = IF pc'[c] = "del_srem" THEN SRem(c) ELSE latest[p][u]
  BY CommandKinds DEF HInv, CommandsTyped
<1>4. latest' = [latest EXCEPT ![p][u] = k]
  BY <1>1, <1>3 DEF DecideOnLeave
<1>5. CommandsTyped' /\ CarriedSays'
  BY <1>2, <1>4 DEF HInv, CommandsTyped, CarriedSays
<1>6. LatestSays'
  <2> SUFFICES ASSUME NEW q \in Project, NEW v \in User
               PROVE  latest'[q][v].does = "sadd" <=> refCount'[q][v] > 0
    BY DEF LatestSays
  <2>1. refCount'[q][v] = IF q = p /\ v = u THEN GiveBack(refCount[p][u]) ELSE refCount[q][v]
    BY <1>2
  <2>2. latest'[q][v] = IF q = p /\ v = u THEN k ELSE latest[q][v]
    BY <1>4 DEF HInv, CommandsTyped
  <2>3. CASE q = p /\ v = u
    <3>1. refCount[p][u] \in Nat /\ refCount'[p][u] = GiveBack(refCount[p][u])
      BY <1>2, <2>1, <2>3
    <3>2. pc'[c] = "del_srem" <=> refCount[p][u] = 1
      BY <1>2 DEF LastConnection
    <3>3. refCount[p][u] = 1 => k.does # "sadd" /\ refCount'[p][u] = 0
      BY <1>3, <3>1, <3>2, CommandKinds DEF GiveBack
    <3>4. refCount[p][u] # 1 => k = latest[p][u] /\ (refCount'[p][u] > 0 <=> refCount[p][u] > 0)
      BY <1>3, <3>1, <3>2 DEF GiveBack
    <3> QED
      BY <2>2, <2>3, <3>1, <3>3, <3>4 DEF HInv, LatestSays
  <2>4. CASE ~(q = p /\ v = u)
    BY <2>1, <2>2, <2>4 DEF HInv, LatestSays
  <2> QED
    BY <2>3, <2>4
<1> QED
  BY <1>5, <1>6

LEMMA CarryOutFollows ==
  ASSUME HInv, NEW c \in Conn, CarryOut(c)
  PROVE  CommandsTyped' /\ LatestSays' /\ CarriedSays'
<1>1. PICK p \in Project, u \in User : p = ctx[c].project /\ u = ctx[c].user
  BY ContextOf DEF HInv, CarryOut, PresenceUserJoin, PresenceUserLeave
<1>2. UNCHANGED <<latest, refCount>> /\ presence \in [Project -> SUBSET User]
  BY DEF CarryOut, PresenceUserJoin, PresenceUserLeave, roomVars, HInv, IInv, TypeOK
<1>3. PICK k \in Command :
        /\ carried' = [carried EXCEPT ![p][u] = k]
        /\ \/ k.does = "sadd" /\ presence' = [presence EXCEPT ![p] = @ \cup {u}]
           \/ k.does # "sadd" /\ presence' = [presence EXCEPT ![p] = @ \ {u}]
  BY <1>1, CommandKinds DEF CarryOut, PresenceUserJoin, PresenceUserLeave
<1>4. CommandsTyped' /\ LatestSays'
  BY <1>2, <1>3 DEF HInv, CommandsTyped, LatestSays
<1>5. CarriedSays'
  <2> SUFFICES ASSUME NEW q \in Project, NEW v \in User
               PROVE  carried'[q][v].does = "sadd" <=> v \in presence'[q]
    BY DEF CarriedSays
  <2>1. carried'[q][v] = IF q = p /\ v = u THEN k ELSE carried[q][v]
    BY <1>3 DEF HInv, CommandsTyped
  <2>2. v \in presence'[q] <=> IF q = p /\ v = u THEN k.does = "sadd" ELSE v \in presence[q]
    BY <1>2, <1>3
  <2> QED
    BY <2>1, <2>2 DEF HInv, CarriedSays
<1> QED
  BY <1>4, <1>5

LEMMA ForgetFollows ==
  ASSUME HInv, Forget
  PROVE  CommandsTyped' /\ LatestSays' /\ CarriedSays'
<1>1. UNCHANGED <<carried, presence>> /\ \A p \in Project, u \in User : refCount'[p][u] = 0
  BY DEF Forget, ServerRestart, redisVars
<1>2. CommandsTyped'
  BY <1>1, CommandKinds DEF Forget, HInv, CommandsTyped
<1>3. ASSUME NEW p \in Project, NEW u \in User PROVE latest'[p][u].does # "sadd"
  <2>1. latest'[p][u] = IF refCount[p][u] > 0 THEN Forgotten ELSE latest[p][u]
    BY DEF Forget
  <2> QED
    BY <2>1, CommandKinds DEF HInv, LatestSays
<1> QED
  BY <1>1, <1>2, <1>3 DEF HInv, LatestSays, CarriedSays

\* The recorded commands do not guide the server.
LEMMA SetStepIsRoomStep == [NextSet]_setVars => [Next]_serverVars
BY DEF NextSet, DecideOnJoin, DecideOnLeave, CarryOut, Forget, OtherStep, Next, Callback, Handler, setVars

LEMMA HNext == HInv /\ [NextSet]_setVars => HInv'
<1> SUFFICES ASSUME HInv, [NextSet]_setVars PROVE CommandsTyped' /\ LatestSays' /\ CarriedSays'
  BY SetStepIsRoomStep, NextInv DEF HInv
<1>1. CASE OtherStep \/ UNCHANGED setVars
  <2>1. UNCHANGED <<latest, carried, presence, refCount>>
    <3>1. ASSUME NEW c \in Conn,
                 \/ RefuseConnection(c) \/ SessionSet(c) \/ SendWelcome(c) \/ SendRoster(c) \/ CopyRoom(c)
                 \/ Heartbeat(c) \/ MarkSet(c) \/ SessionClear(c) \/ RedisFails(c)
          PROVE  UNCHANGED <<presence, refCount>>
      BY <3>1 DEF RefuseConnection, SessionSet, SendWelcome, SendRoster, CopyRoom, Heartbeat, MarkSet,
                  SessionClear, RedisFails, roomVars, redisVars
    <3>2. ASSUME NEW c \in Conn,
                 \/ \E d \in Conn : SendToMember(c, d)
                 \/ \E f \in File \cup {NoFile} : CurrentFile(c, f)
                 \/ \E type \in RelayType, f \in File \cup {NoFile} : Relay(c, type, f)
          PROVE  UNCHANGED <<presence, refCount>>
      BY <3>2 DEF SendToMember, CurrentFile, Relay, roomVars, redisVars
    <3> QED
      BY <1>1, <3>1, <3>2
         DEF OtherStep, SessionExpires, MarkExpires, commandVars, setVars, serverVars, roomVars
  <2> QED
    BY <2>1 DEF HInv, CommandsTyped, LatestSays, CarriedSays
<1> QED
  BY <1>1, DecideOnJoinFollows, DecideOnLeaveFollows, CarryOutFollows, ForgetFollows DEF NextSet

\* Who is online is who is counted.
LEMMA CountSays ==
  ASSUME IInv, NEW p \in Project, NEW u \in User
  PROVE  refCount[p][u] > 0 <=> u \in OnlineUsers(p)
<1> DEFINE M == MembersOf(p, u)
<1>1. refCount[p][u] = Cardinality(M) /\ Cardinality(M) \in Nat
  BY DEF IInv, TypeOK, RefCountMatchesRoom, MembersOf
<1>2. IsFiniteSet(M)
  <2>1. M \in SUBSET Conn
    BY DEF IInv, TypeOK, MembersOf
  <2> QED
    BY <2>1, RoomAssumption, FS_Subset DEF RoomAssumption
<1>3. M # {} <=> u \in OnlineUsers(p)
  BY DEF MembersOf, OnlineUsers
<1> HIDE DEF M
<1> QED
  BY <1>1, <1>2, <1>3, FS_EmptySet

\* The presence set of a project has a user exactly if one of the user's
\* connections is in the room, whenever the SADD or SREM decided on last is the
\* one Redis carried out last: for any number of loops, with the commands of
\* two loops in any order, Redis failing and the server restarted at any point.
THEOREM PresenceFollowsDecisions == SpecSet => []PresenceFollows
<1>1. HInv => PresenceFollows
  <2> SUFFICES ASSUME HInv, NEW p \in Project, NEW u \in User, carried[p][u] = latest[p][u]
               PROVE  u \in presence[p] <=> u \in OnlineUsers(p)
    BY DEF PresenceFollows
  <2> QED
    BY CountSays DEF HInv, LatestSays, CarriedSays
<1> QED
  BY <1>1, HInit, HNext, PTL DEF SpecSet

-----------------------------------------------------------------------------
(***************************************************************************)
(* A server with one IO loop runs one callback at a time.                  *)
(***************************************************************************)
\* All connections on one loop.
OneLoop == \A c, d \in Conn : LoopOf[c] = LoopOf[d]

OneRunning == \A c, d \in Conn : pc[c] \notin Parked /\ pc[d] \notin Parked => c = d

\* A step of the running callback, or of a new one on the idle loop, leaves no
\* second one running.
LEMMA OneAtATime ==
  ASSUME IInv, OneRunning, OneLoop, NEW c \in Conn, NEW s,
         pc' = [pc EXCEPT ![c] = s],
         pc[c] \notin Parked \/ LoopIdle(c)
  PROVE  /\ OneRunning'
         /\ \A d \in Conn : pc'[d] = IF d = c THEN s ELSE pc[d]
         /\ \A d \in Conn \ {c} : pc[d] \in Parked
<1>1. \A d \in Conn : pc'[d] = IF d = c THEN s ELSE pc[d]
  BY DEF IInv, TypeOK
<1>2. \A d \in Conn \ {c} : pc[d] \in Parked
  BY DEF OneRunning, OneLoop, LoopIdle
<1> QED
  BY <1>1, <1>2 DEF OneRunning

-----------------------------------------------------------------------------
(***************************************************************************)
(* The session keys of Redis, for any number of loops: whoever wrote a key *)
(* deletes it, or one that was written over it, after leaving the room.    *)
(***************************************************************************)
\* Connection c is the one session key k describes, but for a file that is
\* about to be written or the key about to be deleted.
Describes(c, k) ==
  /\ ctx[c].clientId = k
  /\ ctx[c].user = session[k].user
  /\ ctx[c].project = session[k].project
  /\ \/ c \in rooms[ctx[c].project] /\ (currentFile[c] = session[k].file \/ pc[c] = "file")
     \/ pc[c] \in {"del", "del_srem"}

SessionTracks == \A k \in AnyId : session[k] # NoSession => \E c \in Conn : Describes(c, k)

SInv == IInv /\ SessionTracks

LEMMA SInit == Init => SInv
  BY InitInv DEF SInv, SessionTracks, Init

\* A step that has nothing to do with the keys.
LEMMA KeysApart ==
  ASSUME SInv, NEW c \in Conn, NEW s,
         pc' = [pc EXCEPT ![c] = s] \/ pc' = pc,
         pc[c] \notin {"file", "del", "del_srem"},
         UNCHANGED <<rooms, ctx, currentFile, session>>
  PROVE  SessionTracks'
<1> SUFFICES ASSUME NEW k \in AnyId, session'[k] # NoSession PROVE \E d \in Conn : Describes(d, k)'
  BY DEF SessionTracks
<1>1. PICK d \in Conn : Describes(d, k)
  BY DEF SInv, SessionTracks
<1>2. pc[d] \in {"file", "del", "del_srem"} => pc'[d] = pc[d]
  BY DEF SInv, IInv, TypeOK
<1>3. Describes(d, k)'
  BY <1>1, <1>2 DEF Describes
<1> QED
  BY <1>3

LEMMA NewConnectionKeys ==
  ASSUME SInv, NEW c \in Conn, NEW p \in Project, NEW u \in User, NEW r \in ClientId,
         NewConnection(c, p, u, r)
  PROVE  SessionTracks'
<1> SUFFICES ASSUME NEW k \in AnyId, session'[k] # NoSession PROVE \E d \in Conn : Describes(d, k)'
  BY DEF SessionTracks
<1>1. session' = session /\ pc[c] = "new"
  BY DEF NewConnection, redisVars
<1>2. PICK d \in Conn : Describes(d, k)
  BY <1>1 DEF SInv, SessionTracks
<1>3. d # c
  <2>1. \A q \in Project : c \notin rooms[q]
    BY <1>1 DEF SInv, IInv, MembersAreOpen, InRoom, Joining
  <2>2. pc[d] \notin {"del", "del_srem"} => d \in rooms[ctx[d].project]
    BY <1>2 DEF Describes
  <2>3. CASE d = c
    <3>1. c \in rooms[session[k].project]
      BY <1>1, <1>2, <2>3 DEF Describes
    <3>2. session[k].project \in Project
      BY <1>1 DEF SInv, IInv, TypeOK, Session
    <3> QED
      BY <2>1, <3>1, <3>2
  <2> QED
    BY <2>3
<1>4. pc'[d] = pc[d] /\ ctx'[d] = ctx[d] /\ currentFile'[d] = currentFile[d]
  BY <1>3 DEF NewConnection, Goto, SInv, IInv, TypeOK
<1>5. \A q \in Project : rooms[q] \subseteq rooms'[q]
  BY DEF NewConnection, AddMember, SInv, IInv, TypeOK
<1>6. ctx[d].project \in Project
  BY <1>1, <1>2 DEF Describes, SInv, IInv, TypeOK, Session
<1>7. Describes(d, k)'
  BY <1>1, <1>2, <1>4, <1>5, <1>6 DEF Describes
<1> QED
  BY <1>7
LEMMA CurrentFileKeys ==
  ASSUME SInv, NEW c \in Conn, NEW f \in File \cup {NoFile}, CurrentFile(c, f)
  PROVE  SessionTracks'
<1> SUFFICES ASSUME NEW k \in AnyId, session'[k] # NoSession PROVE \E d \in Conn : Describes(d, k)'
  BY DEF SessionTracks
<1>1. /\ UNCHANGED <<rooms, ctx, session>>
      /\ currentFile' = [currentFile EXCEPT ![c] = f]
      /\ pc[c] = "idle" /\ pc' = [pc EXCEPT ![c] = "file"]
  BY DEF CurrentFile, TakeMessage, Goto, redisVars
<1>2. PICK d \in Conn : Describes(d, k)
  BY <1>1 DEF SInv, SessionTracks
<1>3. \/ d = c /\ pc'[d] = "file" /\ pc[d] = "idle"
      \/ d # c /\ pc'[d] = pc[d] /\ currentFile'[d] = currentFile[d]
  BY <1>1 DEF SInv, IInv, TypeOK
<1>4. Describes(d, k)'
  BY <1>1, <1>2, <1>3 DEF Describes
<1> QED
  BY <1>4

\* The connection that leaves its room goes on to delete its key.
LEMMA ConnectionClosedKeys ==
  ASSUME SInv, NEW c \in Conn, ConnectionClosed(c)
  PROVE  SessionTracks'
<1> SUFFICES ASSUME NEW k \in AnyId, session'[k] # NoSession PROVE \E d \in Conn : Describes(d, k)'
  BY DEF SessionTracks
<1>1. PICK s \in {"del", "del_srem"} : pc' = [pc EXCEPT ![c] = s]
  BY DEF ConnectionClosed, Goto
<1>2. /\ UNCHANGED <<ctx, currentFile, session>>
      /\ rooms' = RemoveMember(ctx[c].project, c)
  BY DEF ConnectionClosed, redisVars
<1>3. PICK d \in Conn : Describes(d, k)
  BY <1>2 DEF SInv, SessionTracks
<1>4. CASE d = c
  <2>1. pc'[d] \in {"del", "del_srem"}
    BY <1>1, <1>4 DEF SInv, IInv, TypeOK
  <2> QED
    BY <1>2, <1>3, <2>1 DEF Describes
<1>5. CASE d # c
  <2>1. pc'[d] = pc[d]
    BY <1>1, <1>5 DEF SInv, IInv, TypeOK
  <2>2. ctx[d].project \in Project
    BY <1>2, <1>3 DEF Describes, SInv, IInv, TypeOK, Session
  <2>3. d \in rooms[ctx[d].project] => d \in rooms'[ctx[d].project]
    BY <1>2, <1>5, <2>2 DEF RemoveMember, SInv, IInv, TypeOK
  <2>4. Describes(d, k)'
    BY <1>2, <1>3, <2>1, <2>3 DEF Describes
  <2> QED
    BY <2>4
<1> QED
  BY <1>4, <1>5

\* Who writes a key is a member, and is described by it.
LEMMA SessionSetKeys ==
  ASSUME SInv, NEW c \in Conn, SessionSet(c)
  PROVE  SessionTracks'
<1> SUFFICES ASSUME NEW k \in AnyId, session'[k] # NoSession PROVE \E d \in Conn : Describes(d, k)'
  BY DEF SessionTracks
<1>1. /\ UNCHANGED <<rooms, ctx, currentFile>>
      /\ pc[c] \in {"hmset", "file"}
  BY DEF SessionSet, roomVars
<1>2. \A d \in Conn : d # c => pc'[d] = pc[d]
  BY DEF SessionSet, Goto, SInv, IInv, TypeOK
<1>3. ctx[c].clientId \in AnyId /\ ctx[c].project \in Project
  BY <1>1, ContextOf DEF SInv
<1>4. \A j \in AnyId : session'[j] =
        IF j = ctx[c].clientId
        THEN [user |-> ctx[c].user, project |-> ctx[c].project, file |-> currentFile[c]]
        ELSE session[j]
  BY <1>3 DEF SessionSet, SInv, IInv, TypeOK
<1>5. CASE k = ctx[c].clientId
  <2>1. c \in rooms[ctx[c].project]
    BY <1>1, <1>3 DEF SInv, IInv, MembersAreOpen, InRoom, Joining
  <2>2. Describes(c, k)'
    BY <1>1, <1>4, <1>5, <2>1 DEF Describes
  <2> QED
    BY <2>2
<1>6. CASE k # ctx[c].clientId
  <2>1. PICK d \in Conn : Describes(d, k)
    BY <1>4, <1>6 DEF SInv, SessionTracks
  <2>2. d # c
    BY <1>6, <2>1 DEF Describes
  <2>3. Describes(d, k)'
    BY <1>1, <1>2, <1>4, <1>6, <2>1, <2>2 DEF Describes
  <2> QED
    BY <2>3
<1> QED
  BY <1>5, <1>6

LEMMA SessionClearKeys ==
  ASSUME SInv, NEW c \in Conn, SessionClear(c)
  PROVE  SessionTracks'
<1> SUFFICES ASSUME NEW k \in AnyId, session'[k] # NoSession PROVE \E d \in Conn : Describes(d, k)'
  BY DEF SessionTracks
<1>1. UNCHANGED <<rooms, ctx, currentFile>> /\ pc[c] \in {"del", "del_srem"}
  BY DEF SessionClear, roomVars
<1>2. \A d \in Conn : d # c => pc'[d] = pc[d]
  BY DEF SessionClear, Goto, SInv, IInv, TypeOK
<1>3. k # ctx[c].clientId /\ session'[k] = session[k]
  BY DEF SessionClear, SInv, IInv, TypeOK
<1>4. PICK d \in Conn : Describes(d, k)
  BY <1>3 DEF SInv, SessionTracks
<1>5. d # c
  BY <1>3, <1>4 DEF Describes
<1>6. Describes(d, k)'
  BY <1>1, <1>2, <1>3, <1>4, <1>5 DEF Describes
<1> QED
  BY <1>6

LEMMA SessionExpiresKeys ==
  ASSUME SInv, NEW j \in AnyId, SessionExpires(j)
  PROVE  SessionTracks'
<1> SUFFICES ASSUME NEW k \in AnyId, session'[k] # NoSession PROVE \E d \in Conn : Describes(d, k)'
  BY DEF SessionTracks
<1>1. session'[k] = session[k] /\ UNCHANGED <<rooms, ctx, currentFile, pc>>
  BY DEF SessionExpires, roomVars, SInv, IInv, TypeOK
<1>2. PICK d \in Conn : Describes(d, k)
  BY <1>1 DEF SInv, SessionTracks
<1>3. Describes(d, k)'
  BY <1>1, <1>2 DEF Describes
<1> QED
  BY <1>3

LEMMA SNext ==
  ASSUME MaxFaults = 0, MaxRestarts = 0
  PROVE  SInv /\ [Next]_serverVars => SInv'
<1> SUFFICES ASSUME SInv, [Next]_serverVars PROVE SessionTracks'
  BY NextInv DEF SInv
<1>1. faults \in Nat /\ restarts \in Nat
  BY DEF SInv, IInv, TypeOK
<1>2. CASE UNCHANGED <<rooms, ctx, currentFile, session, pc>>
  BY <1>2 DEF SInv, SessionTracks, Describes
<1>3. ASSUME NEW c \in Conn, Callback(c) PROVE SessionTracks'
  <2>1. CASE RefuseConnection(c)
    BY <2>1, KeysApart DEF RefuseConnection, Goto, roomVars, redisVars
  <2>2. CASE Heartbeat(c)
    BY <1>2, <2>2 DEF Heartbeat, roomVars, redisVars
  <2>3. CASE \E type \in RelayType, f \in File \cup {NoFile} : Relay(c, type, f)
    BY <2>3, KeysApart DEF Relay, TakeMessage, Goto, roomVars, redisVars
  <2> QED
    BY <1>3, <2>1, <2>2, <2>3, NewConnectionKeys, CurrentFileKeys, ConnectionClosedKeys DEF Callback
<1>4. ASSUME NEW c \in Conn, Handler(c) PROVE SessionTracks'
  <2>1. CASE PresenceUserJoin(c) \/ PresenceUserLeave(c) \/ MarkSet(c)
    BY <2>1, KeysApart DEF PresenceUserJoin, PresenceUserLeave, MarkSet, Goto, roomVars
  <2>2. CASE SendWelcome(c) \/ SendRoster(c)
    BY <2>2, KeysApart DEF SendWelcome, SendRoster, Goto, roomVars, redisVars
  <2>3. CASE CopyRoom(c) \/ \E d \in Conn : SendToMember(c, d)
    BY <2>3, KeysApart DEF CopyRoom, SendToMember, Return, Goto, roomVars, redisVars
  <2>4. CASE RedisFails(c)
    BY <1>1, <2>4 DEF RedisFails
  <2> QED
    BY <1>4, <2>1, <2>2, <2>3, <2>4, SessionSetKeys, SessionClearKeys DEF Handler
<1>5. CASE \E m \in marks : MarkExpires(m)
  BY <1>2, <1>5 DEF MarkExpires, roomVars
<1>6. CASE ServerRestart
  BY <1>1, <1>6 DEF ServerRestart
<1>7. CASE UNCHANGED serverVars
  BY <1>2, <1>7 DEF serverVars
<1> QED
  BY <1>3, <1>4, <1>5, <1>6, <1>7, SessionExpiresKeys DEF Next

LEMMA SDescribes == SInv => SessionsDescribeMembers
<1> SUFFICES ASSUME SInv, Quiet, NEW k \in AnyId, session[k] # NoSession
             PROVE  \E c \in rooms[session[k].project] :
                      /\ ctx[c].clientId = k
                      /\ ctx[c].user = session[k].user
                      /\ currentFile[c] = session[k].file
  BY DEF SessionsDescribeMembers
<1>1. PICK c \in Conn : Describes(c, k)
  BY DEF SInv, SessionTracks
<1>2. pc[c] \notin {"file", "del", "del_srem"}
  BY DEF Quiet, Parked
<1>3. c \in rooms[session[k].project] /\ currentFile[c] = session[k].file
  BY <1>1, <1>2 DEF Describes
<1> QED
  BY <1>1, <1>3 DEF Describes

\* As long as Redis answers and the server runs, a session key describes a
\* connected member whenever no callback runs, for any number of loops and also
\* when connections share a client id.
THEOREM KeysDescribeMembers ==
  ASSUME MaxFaults = 0, MaxRestarts = 0
  PROVE  Spec => []SessionsDescribeMembers
<1>1. SInv /\ [Next]_serverVars => SInv'
  BY SNext
<1> QED
  BY <1>1, SDescribes, SInit, PTL DEF Spec

-----------------------------------------------------------------------------
(***************************************************************************)
(* The member lists the clients show (PresenceView), for a server with one *)
(* IO loop.                                                                *)
(*                                                                         *)
(* Between the room and a row of a client's list lie the callback that is  *)
(* running and the messages the client has not read.  For every client id  *)
(* only the last unread message that speaks of it counts: if there is one, *)
(* it says what the room has for the id, and if there is none, the row     *)
(* does; an id the running callback has still to announce to the client is *)
(* the one exception.  A client's own row follows its own reports instead, *)
(* and no message about it comes after the roster.                         *)
(***************************************************************************)
News == {"presence.user_joined", "presence.user_left", "presence.current_file_changed"}

\* Message m may change the row of id.
Speaks(m, id) == m.type = "presence.roster" \/ (m.type \in News /\ m.clientId = id)

\* The file a row has, as a set that is empty when there is no row: what m
\* makes of the row of id, the row itself, and what the room has for the id.
Says(m, id) ==
  {f \in File \cup {NoFile} :
     \/ m.type = "presence.roster" /\ [clientId |-> id, file |-> f] \in m.members
     \/ m.type = "presence.user_joined" /\ f = NoFile
     \/ m.type = "presence.current_file_changed" /\ f = m.file}

Row(rows, id) == {f \in File \cup {NoFile} : id \in DOMAIN rows /\ rows[id] = f}

Listed(p, id) == {currentFile[d] : d \in {e \in rooms[p] : ctx[e].clientId = id}}

\* Once the messages q are read, the row of id will have the file in S.
LastWord(q, rows, id, S) ==
  \/ \E i \in DOMAIN q :
       /\ Speaks(q[i], id) /\ Says(q[i], id) = S
       /\ \A j \in DOMAIN q : j > i => ~Speaks(q[j], id)
  \/ (\A i \in DOMAIN q : ~Speaks(q[i], id)) /\ Row(rows, id) = S

Rows == UNION {[D -> File \cup {NoFile}] : D \in SUBSET AnyId}

ViewTypeOK ==
  /\ peers \in [Conn -> Rows]
  /\ localId \in [Conn -> AnyId \cup {NoContext}]
  /\ \A c \in Conn : ctx[c] # NoContext => localId[c] \in AnyId
  /\ inbox \in [Conn -> Seq(File \cup {NoFile})]
  /\ switches \in Nat

\* c is a member of its room and was sent the roster.
Told(c) == InRoom(c) /\ pc[c] \notin Joining

\* The callback of c broadcasts that c left.
Leaving(c) == pc[c] \in Closing \/ (pc[c] \in {"copy", "send"} /\ text[c].type = "presence.user_left")

\* What the running callback of c announces is what the room has.
Announces(c) ==
  /\ pc[c] # "mark"
  /\ pc[c] \in Joining =>
       /\ text[c] = RosterOf(ctx[c].project, rooms[ctx[c].project], ctx, currentFile)
       /\ currentFile[c] = NoFile
  /\ pc[c] = "file" => text[c] = FilePayload(c, "presence.current_file_changed", currentFile[c])
  /\ pc[c] \in Closing => text[c] = Payload(c, "presence.user_left")
  /\ pc[c] \in {"copy", "send"} =>
       \/ text[c] = FilePayload(c, "presence.current_file_changed", currentFile[c])
       \/ text[c] = Payload(c, "presence.user_left")
       \/ text[c] = Payload(c, "presence.user_joined") /\ currentFile[c] = NoFile
  /\ pc[c] = "send" => to[c] \subseteq Recipients(c)
  /\ Leaving(c) => \A d \in rooms[ctx[c].project] : ctx[d].clientId # ctx[c].clientId

\* A roster with one row for an id.
ProperRoster(m) ==
  /\ m.type = "presence.roster" /\ m.members \subseteq Member
  /\ \A r, s \in m.members : r.clientId = s.clientId => r = s

\* From the k-th on, the messages q are news of other clients than me.
NewsOfOthers(q, k, me) == \A i \in DOMAIN q : i > k => q[i].type \in News /\ q[i].clientId # me

Welcome(c) == Payload(c, "server.welcome")

KnowsId(c) == localId[c] = ctx[c].clientId

\* The file c reported last.
Reported(c) == IF inbox[c] = <<>> THEN currentFile[c] ELSE inbox[c][Len(inbox[c])]

\* How far a member has read: not even the welcome, up to the roster, beyond.
WelcomeUnread(c) ==
  /\ Len(outbox[c]) >= 2 /\ outbox[c][1] = Welcome(c) /\ ProperRoster(outbox[c][2])
  /\ NewsOfOthers(outbox[c], 2, ctx[c].clientId)

RosterUnread(c) ==
  /\ Len(outbox[c]) >= 1 /\ ProperRoster(outbox[c][1])
  /\ NewsOfOthers(outbox[c], 1, ctx[c].clientId)
  /\ KnowsId(c)

RosterRead(c) ==
  /\ NewsOfOthers(outbox[c], 0, ctx[c].clientId)
  /\ KnowsId(c)
  /\ Row(peers[c], ctx[c].clientId) = {Reported(c)}

Greeted(c) ==
  /\ pc[c] \in {"sadd", "hmset", "welcome"} => outbox[c] = <<>>
  /\ pc[c] = "roster" => outbox[c] = <<Welcome(c)>> \/ (outbox[c] = <<>> /\ KnowsId(c))
  /\ Told(c) => WelcomeUnread(c) \/ RosterUnread(c) \/ RosterRead(c)

\* The running callback of d has not yet announced its client id to c.
Announcing(d, c) ==
  /\ pc[d] \notin Parked /\ ctx[d].project = ctx[c].project
  /\ pc[d] = "send" => c \in to[d]

Unannounced(c, id) == \E d \in Conn : Announcing(d, c) /\ ctx[d].clientId = id

Follows(c) ==
  Told(c) => \A id \in AnyId \ {ctx[c].clientId} :
    Unannounced(c, id) \/ LastWord(outbox[c], peers[c], id, Listed(ctx[c].project, id))

VInv ==
  /\ IInv /\ OneRunning /\ ViewTypeOK
  /\ \A c \in Conn : Announces(c) /\ Greeted(c) /\ Follows(c)

-----------------------------------------------------------------------------
(***************************************************************************)
(* Queues and rows.                                                        *)
(***************************************************************************)
LEMMA AppendElements ==
  ASSUME NEW S, NEW q \in Seq(S), NEW m
  PROVE  /\ Len(q) \in Nat
         /\ DOMAIN q = 1..Len(q)
         /\ Len(Append(q, m)) = Len(q) + 1
         /\ DOMAIN Append(q, m) = 1..(Len(q) + 1)
         /\ \A i \in 1..Len(q) : Append(q, m)[i] = q[i]
         /\ Append(q, m)[Len(q) + 1] = m
OBVIOUS

LEMMA FirstAppended ==
  ASSUME NEW m PROVE Append(<<>>, m) = <<m>>
OBVIOUS

LEMMA TailElements ==
  ASSUME NEW S, NEW q \in Seq(S), q # <<>>
  PROVE  /\ Len(q) \in Nat \ {0}
         /\ DOMAIN q = 1..Len(q)
         /\ Tail(q) \in Seq(S)
         /\ Head(q) = q[1]
         /\ Len(Tail(q)) = Len(q) - 1
         /\ DOMAIN Tail(q) = 1..(Len(q) - 1)
         /\ \A i \in 1..(Len(q) - 1) : Tail(q)[i] = q[i + 1]
OBVIOUS

\* A message that speaks of id has the last word on it.
LEMMA SpokenLast ==
  ASSUME NEW S, NEW q \in Seq(S), NEW m, NEW rows, NEW id, Speaks(m, id)
  PROVE  LastWord(Append(q, m), rows, id, Says(m, id))
<1>1. /\ Len(q) + 1 \in DOMAIN Append(q, m) /\ Append(q, m)[Len(q) + 1] = m
      /\ \A j \in DOMAIN Append(q, m) : ~(j > Len(q) + 1)
  BY AppendElements
<1> QED
  BY <1>1 DEF LastWord

\* One that does not changes nothing.
LEMMA NotSpoken ==
  ASSUME NEW S, NEW q \in Seq(S), NEW m, NEW rows, NEW id, NEW F,
         ~Speaks(m, id), LastWord(q, rows, id, F)
  PROVE  LastWord(Append(q, m), rows, id, F)
<1> DEFINE r == Append(q, m)
<1>1. /\ DOMAIN q = 1..Len(q) /\ Len(q) \in Nat /\ DOMAIN r = 1..(Len(q) + 1)
      /\ \A i \in 1..Len(q) : r[i] = q[i]
      /\ r[Len(q) + 1] = m
  BY AppendElements
<1> HIDE DEF r
<1>2. \A j \in DOMAIN r : (j \in DOMAIN q /\ r[j] = q[j]) \/ r[j] = m
  BY <1>1
<1>3. CASE (\A i \in DOMAIN q : ~Speaks(q[i], id)) /\ Row(rows, id) = F
  BY <1>2, <1>3 DEF LastWord
<1>4. ASSUME NEW i \in DOMAIN q, Speaks(q[i], id), Says(q[i], id) = F,
             \A j \in DOMAIN q : j > i => ~Speaks(q[j], id)
      PROVE  LastWord(r, rows, id, F)
  <2>1. i \in DOMAIN r /\ r[i] = q[i]
    BY <1>1
  <2>2. \A j \in DOMAIN r : j > i => ~Speaks(r[j], id)
    BY <1>2, <1>4
  <2> QED
    BY <1>4, <2>1, <2>2 DEF LastWord
<1> QED
  BY <1>3, <1>4 DEF LastWord, r

\* Reading the first message moves what it says to the row.
LEMMA ReadFirst ==
  ASSUME NEW S, NEW q \in Seq(S), q # <<>>, NEW rows, NEW new, NEW id, NEW F,
         Row(new, id) = IF Speaks(q[1], id) THEN Says(q[1], id) ELSE Row(rows, id),
         LastWord(q, rows, id, F)
  PROVE  LastWord(Tail(q), new, id, F)
<1> DEFINE r == Tail(q)
<1>1. /\ DOMAIN q = 1..Len(q) /\ Len(q) \in Nat \ {0} /\ DOMAIN r = 1..(Len(q) - 1)
      /\ \A i \in 1..(Len(q) - 1) : r[i] = q[i + 1]
  BY TailElements
<1> HIDE DEF r
<1>2. \A j \in DOMAIN r : j + 1 \in DOMAIN q /\ r[j] = q[j + 1]
  BY <1>1
<1>3. CASE (\A i \in DOMAIN q : ~Speaks(q[i], id)) /\ Row(rows, id) = F
  <2>1. Row(new, id) = F
    BY <1>1, <1>3
  <2> QED
    BY <1>2, <1>3, <2>1 DEF LastWord
<1>4. ASSUME NEW i \in DOMAIN q, Speaks(q[i], id), Says(q[i], id) = F,
             \A j \in DOMAIN q : j > i => ~Speaks(q[j], id)
      PROVE  LastWord(r, new, id, F)
  <2>1. CASE i = 1
    <3>1. \A j \in DOMAIN r : ~Speaks(r[j], id)
      <4> SUFFICES ASSUME NEW j \in DOMAIN r PROVE ~Speaks(r[j], id)
        OBVIOUS
      <4>1. j + 1 \in DOMAIN q /\ j + 1 > 1 /\ r[j] = q[j + 1]
        BY <1>1
      <4> QED
        BY <1>4, <2>1, <4>1
    <3>2. Row(new, id) = F
      BY <1>4, <2>1
    <3> QED
      BY <3>1, <3>2 DEF LastWord
  <2>2. CASE i # 1
    <3>1. i - 1 \in DOMAIN r /\ r[i - 1] = q[i]
      BY <1>1, <2>2
    <3>2. \A j \in DOMAIN r : j > i - 1 => ~Speaks(r[j], id)
      <4> SUFFICES ASSUME NEW j \in DOMAIN r, j > i - 1 PROVE ~Speaks(r[j], id)
        OBVIOUS
      <4>1. j + 1 \in DOMAIN q /\ j + 1 > i /\ r[j] = q[j + 1]
        BY <1>1
      <4> QED
        BY <1>4, <4>1
    <3> QED
      BY <1>4, <3>1, <3>2 DEF LastWord
  <2> QED
    BY <2>1, <2>2
<1> QED
  BY <1>3, <1>4 DEF LastWord, r

\* Where a message speaks of the id, the row does not matter.
LEMMA SpokenAnyway ==
  ASSUME NEW q, NEW rows, NEW new, NEW id, NEW F, NEW i \in DOMAIN q,
         Speaks(q[i], id), LastWord(q, rows, id, F)
  PROVE  LastWord(q, new, id, F)
BY DEF LastWord

\* The rows after a message.
LEMMA RosterRows ==
  ASSUME NEW m, ProperRoster(m), NEW id \in AnyId
  PROVE  /\ AfterRoster(m) \in Rows
         /\ Row(AfterRoster(m), id) = Says(m, id)
<1> DEFINE D == {r.clientId : r \in m.members}
           F(k) == (CHOOSE r \in m.members : r.clientId = k).file
<1>1. \A r \in m.members : /\ r \in Member /\ r.clientId \in AnyId /\ r.file \in File \cup {NoFile}
                           /\ r = [clientId |-> r.clientId, file |-> r.file]
  BY DEF ProperRoster, Member
<1>2. \A r \in m.members : F(r.clientId) = r.file
  <2> SUFFICES ASSUME NEW r \in m.members PROVE F(r.clientId) = r.file
    OBVIOUS
  <2>1. \E s \in m.members : s.clientId = r.clientId
    OBVIOUS
  <2>2. (CHOOSE s \in m.members : s.clientId = r.clientId) = r
    BY <2>1 DEF ProperRoster
  <2> QED
    BY <2>2
<1>3. AfterRoster(m) = [k \in D |-> F(k)]
  BY DEF AfterRoster
<1>4. D \subseteq AnyId /\ \A k \in D : F(k) \in File \cup {NoFile}
  BY <1>1, <1>2
<1>5. \A r \in m.members : r.clientId = id => Row(AfterRoster(m), id) = {r.file}
  <2> HIDE DEF F
  <2> QED
    BY <1>1, <1>2, <1>3 DEF Row
<1>6. \A r \in m.members : r.clientId = id => Says(m, id) = {r.file}
  <2> SUFFICES ASSUME NEW r \in m.members, r.clientId = id PROVE Says(m, id) = {r.file}
    OBVIOUS
  <2>1. \A f \in File \cup {NoFile} : [clientId |-> id, file |-> f] \in m.members <=> f = r.file
    <3> SUFFICES ASSUME NEW f \in File \cup {NoFile}
                 PROVE  [clientId |-> id, file |-> f] \in m.members <=> f = r.file
      OBVIOUS
    <3>1. [clientId |-> id, file |-> f].clientId = id /\ [clientId |-> id, file |-> f].file = f
      OBVIOUS
    <3> QED
      BY <1>1, <3>1 DEF ProperRoster
  <2>2. m.type = "presence.roster"
    BY DEF ProperRoster
  <2> QED
    BY <1>1, <2>1, <2>2 DEF Says
<1>7. ASSUME \A r \in m.members : r.clientId # id
      PROVE  Row(AfterRoster(m), id) = {} /\ Says(m, id) = {}
  <2>1. id \notin DOMAIN AfterRoster(m)
    BY <1>3, <1>7
  <2>2. \A f \in File \cup {NoFile} : [clientId |-> id, file |-> f] \notin m.members
    <3> SUFFICES ASSUME NEW f \in File \cup {NoFile}, [clientId |-> id, file |-> f] \in m.members
                 PROVE  FALSE
      OBVIOUS
    <3> QED
      BY <1>7
  <2>3. m.type = "presence.roster"
    BY DEF ProperRoster
  <2> QED
    BY <2>1, <2>2, <2>3 DEF Row, Says
<1>8. AfterRoster(m) \in Rows
  <2> HIDE DEF F, D
  <2>1. AfterRoster(m) \in [D -> File \cup {NoFile}]
    BY <1>3, <1>4
  <2> QED
    BY <1>4, <2>1 DEF Rows
<1> QED
  BY <1>5, <1>6, <1>7, <1>8

LEMMA SetRow ==
  ASSUME NEW rows \in Rows, NEW k \in AnyId, NEW f \in File \cup {NoFile}
  PROVE  /\ WithRow(rows, k, f) \in Rows
         /\ Row(WithRow(rows, k, f), k) = {f}
         /\ \A id : id # k => Row(WithRow(rows, k, f), id) = Row(rows, id)
<1> DEFINE new == WithRow(rows, k, f)
<1>1. PICK D \in SUBSET AnyId : rows \in [D -> File \cup {NoFile}]
  BY DEF Rows
<1>2. new = [id \in D \cup {k} |-> IF id = k THEN f ELSE rows[id]]
  BY <1>1 DEF WithRow
<1> HIDE DEF new
<1>3. new \in [D \cup {k} -> File \cup {NoFile}]
  BY <1>1, <1>2
<1>4. D \cup {k} \in SUBSET AnyId
  OBVIOUS
<1>5. Row(new, k) = {f}
  BY <1>2 DEF Row
<1>6. \A id : id # k => Row(new, id) = Row(rows, id)
  BY <1>1, <1>2 DEF Row
<1>7. new \in Rows
  BY <1>3, <1>4 DEF Rows
<1> QED
  BY <1>5, <1>6, <1>7 DEF new

LEMMA DropRow ==
  ASSUME NEW rows \in Rows, NEW m
  PROVE  /\ AfterLeft(rows, m) \in Rows
         /\ Row(AfterLeft(rows, m), m.clientId) = {}
         /\ \A id : id # m.clientId => Row(AfterLeft(rows, m), id) = Row(rows, id)
<1>1. PICK D \in SUBSET AnyId : rows \in [D -> File \cup {NoFile}]
  BY DEF Rows
<1>2. AfterLeft(rows, m) = [id \in D \ {m.clientId} |-> rows[id]]
  BY <1>1 DEF AfterLeft
<1>3. AfterLeft(rows, m) \in [D \ {m.clientId} -> File \cup {NoFile}]
  BY <1>1, <1>2
<1>4. D \ {m.clientId} \in SUBSET AnyId
  OBVIOUS
<1> QED
  BY <1>1, <1>2, <1>3, <1>4 DEF Rows, Row
-----------------------------------------------------------------------------
LEMMA EmptyRows == NoRows \in Rows
<1>1. NoRows \in [{} -> File \cup {NoFile}]
  BY DEF NoRows
<1> QED
  BY <1>1 DEF Rows

LEMMA VInit == InitView => VInv
<1> SUFFICES ASSUME InitView PROVE VInv
  OBVIOUS
<1>1. IInv
  BY InitInv DEF InitView
<1>2. \A c \in Conn : pc[c] = "new" /\ outbox[c] = <<>>
  BY DEF InitView, Init
<1>3. OneRunning
  BY <1>2 DEF OneRunning, Parked
<1>4. ViewTypeOK
  BY EmptyRows DEF InitView, Init, ViewTypeOK
<1>5. \A c \in Conn : Announces(c) /\ Greeted(c) /\ Follows(c)
  BY <1>2 DEF Announces, Greeted, Follows, Told, InRoom, Joining, Leaving, Closing
<1> QED
  BY <1>1, <1>3, <1>4, <1>5 DEF VInv

\* A member, its room and those it shares the room with.
LEMMA MemberFacts ==
  ASSUME IInv, NEW c \in Conn, InRoom(c)
  PROVE  /\ pc[c] \notin {"new", "closed"}
         /\ ctx[c].project \in Project
         /\ ctx[c].clientId \in AnyId
         /\ c \in rooms[ctx[c].project]
<1>1. pc[c] \notin {"new", "closed"}
  BY DEF InRoom, Joining
<1> QED
  BY <1>1, ContextOf DEF IInv, MembersAreOpen

LEMMA RoomFacts ==
  ASSUME IInv, NEW p \in Project, NEW d \in rooms[p]
  PROVE  /\ d \in Conn /\ InRoom(d) /\ ctx[d].project = p
         /\ \A e \in rooms[p] : ctx[d].clientId = ctx[e].clientId => d = e
BY DEF IInv, TypeOK, MembersAreOpen, DistinctInRoom

\* Between two callbacks a connection announces nothing.
LEMMA ParkedAnnounces ==
  ASSUME NEW c \in Conn, pc[c] \in Parked
  PROVE  Announces(c) /\ \A d \in Conn : ~Announcing(c, d)
BY DEF Announces, Announcing, Parked, Joining, Closing, Leaving

\* Only the running callback has something to announce.
LEMMA OnlyAnnouncer ==
  ASSUME OneRunning, NEW c \in Conn, pc[c] \notin Parked, NEW d \in Conn, NEW id, Unannounced(d, id)
  PROVE  Announcing(c, d) /\ id = ctx[c].clientId
BY DEF OneRunning, Unannounced, Announcing

LEMMA NobodyAnnounces ==
  ASSUME \A c \in Conn : pc[c] \in Parked, NEW d \in Conn, NEW id
  PROVE  ~Unannounced(d, id)
BY DEF Unannounced, Announcing

\* What a member has read, and what it will show, stays as it is.
LEMMA GreetedStays ==
  ASSUME NEW c \in Conn, Greeted(c),
         outbox'[c] = outbox[c], localId'[c] = localId[c], ctx'[c] = ctx[c], peers'[c] = peers[c],
         Reported(c)' = Reported(c),
         Told(c)' => Told(c),
         pc'[c] \in {"sadd", "hmset", "welcome"} => pc[c] \in {"sadd", "hmset", "welcome"},
         pc'[c] = "roster" => pc[c] = "roster"
  PROVE  Greeted(c)'
BY DEF Greeted, WelcomeUnread, RosterUnread, RosterRead, KnowsId, Welcome, Payload

LEMMA FollowsStays ==
  ASSUME NEW c \in Conn, Follows(c), Told(c)' => Told(c),
         outbox'[c] = outbox[c], peers'[c] = peers[c], ctx'[c] = ctx[c],
         Told(c) => \A id \in AnyId \ {ctx[c].clientId} :
           \/ Unannounced(c, id)'
           \/ ~Unannounced(c, id) /\ Listed(ctx[c].project, id)' = Listed(ctx[c].project, id)
  PROVE  Follows(c)'
BY DEF Follows

LEMMA NewsAppended ==
  ASSUME NEW S, NEW q \in Seq(S), NEW k, NEW me, NewsOfOthers(q, k, me),
         NEW m, m.type \in News, m.clientId # me
  PROVE  NewsOfOthers(Append(q, m), k, me)
<1>1. \A i \in DOMAIN Append(q, m) : (i \in DOMAIN q /\ Append(q, m)[i] = q[i]) \/ Append(q, m)[i] = m
  BY AppendElements
<1> QED
  BY <1>1 DEF NewsOfOthers

LEMMA NewsOfTail ==
  ASSUME NEW S, NEW q \in Seq(S), q # <<>>, NEW k \in Nat, NEW me, NewsOfOthers(q, k + 1, me)
  PROVE  NewsOfOthers(Tail(q), k, me)
<1>1. \A i \in DOMAIN Tail(q) : i \in Nat /\ i + 1 \in DOMAIN q /\ Tail(q)[i] = q[i + 1]
  BY TailElements
<1> QED
  BY <1>1 DEF NewsOfOthers

\* News of another client change its row and no other.
LEMMA NewsRows ==
  ASSUME NEW rows \in Rows, NEW me, NEW m \in Message, m.type \in News, m.clientId # me
  PROVE  /\ RowsAfter(rows, me, m) \in Rows
         /\ \A id : Row(RowsAfter(rows, me, m), id) = IF Speaks(m, id) THEN Says(m, id) ELSE Row(rows, id)
<1>1. /\ m.clientId \in AnyId
      /\ m.type = "presence.current_file_changed" => m.file \in File \cup {NoFile}
  BY RoomAssumption DEF RoomAssumption, Message, News
<1>2. m.type # "presence.roster" /\ \A id : Speaks(m, id) <=> id = m.clientId
  BY DEF News, Speaks
<1>3. ASSUME NEW f \in File \cup {NoFile}, RowsAfter(rows, me, m) = WithRow(rows, m.clientId, f),
             \A id : Says(m, id) = {f}
      PROVE  /\ RowsAfter(rows, me, m) \in Rows
             /\ \A id : Row(RowsAfter(rows, me, m), id) = IF Speaks(m, id) THEN Says(m, id) ELSE Row(rows, id)
  <2>1. /\ WithRow(rows, m.clientId, f) \in Rows
        /\ Row(WithRow(rows, m.clientId, f), m.clientId) = {f}
        /\ \A id : id # m.clientId => Row(WithRow(rows, m.clientId, f), id) = Row(rows, id)
    BY <1>1, SetRow
  <2> QED
    BY <1>2, <1>3, <2>1
<1>4. CASE m.type = "presence.user_joined"
  BY <1>3, <1>4 DEF RowsAfter, AfterJoined, Says
<1>5. CASE m.type = "presence.user_left"
  <2>1. RowsAfter(rows, me, m) = AfterLeft(rows, m) /\ \A id : Says(m, id) = {}
    BY <1>5 DEF RowsAfter, Says
  <2>2. /\ AfterLeft(rows, m) \in Rows
        /\ Row(AfterLeft(rows, m), m.clientId) = {}
        /\ \A id : id # m.clientId => Row(AfterLeft(rows, m), id) = Row(rows, id)
    BY DropRow
  <2> QED
    BY <1>2, <2>1, <2>2
<1>6. CASE m.type = "presence.current_file_changed"
  <2>1. RowsAfter(rows, me, m) = WithRow(rows, m.clientId, m.file) /\ \A id : Says(m, id) = {m.file}
    BY <1>1, <1>6 DEF RowsAfter, AfterFileChanged, Says
  <2> QED
    BY <1>1, <1>3, <1>6, <2>1
<1> QED
  BY <1>4, <1>5, <1>6 DEF News

-----------------------------------------------------------------------------
(***************************************************************************)
(* The steps of the running callback.                                      *)
(***************************************************************************)
\* What a callback is about to broadcast is true of the room.
LEMMA AnnouncedIsListed ==
  ASSUME VInv, NEW c \in Conn, pc[c] \in {"copy", "send"}
  PROVE  /\ text[c] \in Message
         /\ text[c].type \in News
         /\ text[c].clientId = ctx[c].clientId
         /\ Says(text[c], ctx[c].clientId) = Listed(ctx[c].project, ctx[c].clientId)
         /\ \A d \in rooms[ctx[c].project] \ {c} : ctx[d].clientId # ctx[c].clientId
<1> DEFINE p == ctx[c].project
           k == ctx[c].clientId
<1>1. p \in Project /\ k \in AnyId /\ currentFile[c] \in File \cup {NoFile} /\ text[c] \in Message
  BY ContextOf DEF VInv, IInv, TypeOK
<1>2. Announces(c)
  BY DEF VInv
<1>3. CASE text[c].type = "presence.user_left"
  <2>1. text[c] = Payload(c, "presence.user_left") /\ Leaving(c)
    BY <1>2, <1>3 DEF Announces, FilePayload, Payload, Leaving
  <2>2. \A d \in rooms[p] : ctx[d].clientId # k
    BY <1>2, <2>1 DEF Announces
  <2>3. Says(text[c], k) = {} /\ Listed(p, k) = {}
    BY <1>3, <2>2 DEF Says, Listed
  <2> QED
    BY <1>1, <1>3, <2>1, <2>2, <2>3 DEF Payload, News
<1>4. CASE text[c].type # "presence.user_left"
  <2>1. InRoom(c)
    BY <1>4 DEF InRoom
  <2>2. c \in rooms[p]
    BY <2>1, MemberFacts DEF VInv
  <2>3. \A d \in rooms[p] : ctx[d].clientId = k => d = c
    BY <1>1, <2>2, RoomFacts DEF VInv
  <2>4. Listed(p, k) = {currentFile[c]}
    BY <2>2, <2>3 DEF Listed
  <2>5. \/ text[c] = FilePayload(c, "presence.current_file_changed", currentFile[c])
        \/ text[c] = Payload(c, "presence.user_joined") /\ currentFile[c] = NoFile
    BY <1>2, <1>4 DEF Announces, Payload
  <2>6. Says(text[c], k) = {currentFile[c]}
    BY <1>1, <2>5 DEF Says, FilePayload, Payload
  <2> QED
    BY <1>1, <2>3, <2>4, <2>5, <2>6 DEF FilePayload, Payload, News
<1> QED
  BY <1>3, <1>4

\* Redis takes no part in what members are told.
LEMMA RedisStepView ==
  ASSUME VInv, OneLoop, NEW c \in Conn, pc[c] \in DOMAIN AfterRedis,
         pc' = [pc EXCEPT ![c] = AfterRedis[pc[c]]],
         UNCHANGED <<rooms, ctx, currentFile, text, to, outbox, viewVars>>
  PROVE  OneRunning' /\ ViewTypeOK' /\ \A d \in Conn : Announces(d)' /\ Greeted(d)' /\ Follows(d)'
<1> DEFINE s == AfterRedis[pc[c]]
<1>1. /\ pc[c] \notin Parked /\ pc[c] # "send" /\ s \notin Parked /\ s \notin {"send", "mark", "file"}
      /\ pc[c] \in Joining <=> s \in Joining
      /\ s \in Closing => pc[c] \in Closing
      /\ s = "copy" => pc[c] \in Closing \cup {"file", "mark"}
      /\ s \in {"sadd", "hmset", "welcome"} => pc[c] \in {"sadd", "hmset", "welcome"}
      /\ s # "roster"
  BY AfterRedisValues DEF Parked, Joining, Closing
<1> HIDE DEF s
<1>2. /\ OneRunning'
      /\ \A d \in Conn : pc'[d] = IF d = c THEN s ELSE pc[d]
      /\ \A d \in Conn \ {c} : pc[d] \in Parked
  BY <1>1, OneAtATime DEF VInv, s
<1>3. /\ UNCHANGED rooms /\ UNCHANGED ctx /\ UNCHANGED currentFile /\ UNCHANGED text /\ UNCHANGED to
      /\ UNCHANGED outbox /\ UNCHANGED peers /\ UNCHANGED localId /\ UNCHANGED inbox /\ UNCHANGED switches
  BY DEF viewVars
<1>4. ViewTypeOK'
  BY <1>3 DEF VInv, ViewTypeOK
<1>5. Announces(c)
  BY DEF VInv
<1>6. Announces(c)'
  <2>1. text'[c] = text[c] /\ ctx'[c] = ctx[c] /\ currentFile'[c] = currentFile[c] /\ pc'[c] = s
    BY <1>2, <1>3
  <2>2. Leaving(c)' => Leaving(c)
    BY <1>1, <1>5, <2>1 DEF Leaving, Announces, FilePayload
  <2>3. s \in Joining => /\ text[c] = RosterOf(ctx[c].project, rooms[ctx[c].project], ctx, currentFile)
                         /\ currentFile[c] = NoFile
    BY <1>1, <1>5 DEF Announces
  <2>4. s \in Closing => text[c] = Payload(c, "presence.user_left")
    BY <1>1, <1>5 DEF Announces
  <2>5. s = "copy" => \/ text[c] = FilePayload(c, "presence.current_file_changed", currentFile[c])
                      \/ text[c] = Payload(c, "presence.user_left")
    BY <1>1, <1>5 DEF Announces
  <2>6. Leaving(c) => \A d \in rooms[ctx[c].project] : ctx[d].clientId # ctx[c].clientId
    BY <1>5 DEF Announces
  <2> QED
    BY <1>1, <1>3, <2>1, <2>2, <2>3, <2>4, <2>5, <2>6 DEF Announces, FilePayload, Payload
<1>7. \A d \in Conn \ {c} : Announces(d)'
  BY <1>2, ParkedAnnounces DEF Announces, Parked, Joining, Closing, Leaving
<1>8. \A d \in Conn : Told(d)' => Told(d)
  <2>1. ASSUME Told(c)' PROVE Told(c)
    <3>1. s \notin Joining /\ (s = "copy" => text[c].type # "presence.user_left")
      BY <1>2, <1>3, <2>1 DEF Told, InRoom, Joining
    <3>2. s = "copy"
      BY <1>1, <1>2, <1>3, <2>1 DEF Told, InRoom, Parked, Joining
    <3>3. pc[c] \notin Closing
      BY <1>5, <3>1, <3>2 DEF Announces, Payload
    <3> QED
      BY <1>1, <3>1, <3>2, <3>3 DEF Told, InRoom, Joining
  <2>2. \A d \in Conn \ {c} : Told(d)' => Told(d)
    BY <1>2, <1>3 DEF Told, InRoom
  <2> QED
    BY <2>1, <2>2
<1>9. \A d \in Conn : Greeted(d)'
  <2> SUFFICES ASSUME NEW d \in Conn PROVE Greeted(d)'
    OBVIOUS
  <2>1. Reported(d)' = Reported(d)
    BY <1>3 DEF Reported
  <2> QED
    BY <1>1, <1>2, <1>3, <1>8, <2>1, GreetedStays DEF VInv
<1>10. \A d, e \in Conn : Announcing(e, d)' <=> Announcing(e, d)
  BY <1>1, <1>2, <1>3 DEF Announcing
<1>11. \A d \in Conn : Follows(d)'
  <2> SUFFICES ASSUME NEW d \in Conn PROVE Follows(d)'
    OBVIOUS
  <2>1. \A id : Unannounced(d, id)' <=> Unannounced(d, id)
    BY <1>3, <1>10 DEF Unannounced
  <2>2. \A id : Listed(ctx[d].project, id)' = Listed(ctx[d].project, id)
    BY <1>3 DEF Listed
  <2> QED
    BY <1>3, <1>8, <2>1, <2>2, FollowsStays DEF VInv
<1> QED
  BY <1>2, <1>4, <1>6, <1>7, <1>9, <1>11
LEMMA SendWelcomeView ==
  ASSUME VInv, OneLoop, NEW c \in Conn, SendWelcome(c), UNCHANGED viewVars
  PROVE  OneRunning' /\ ViewTypeOK' /\ \A d \in Conn : Announces(d)' /\ Greeted(d)' /\ Follows(d)'
<1>1. pc[c] = "welcome" /\ pc' = [pc EXCEPT ![c] = "roster"] /\ pc[c] \notin Parked
  BY DEF SendWelcome, Goto, Parked
<1>2. /\ OneRunning'
      /\ \A d \in Conn : pc'[d] = IF d = c THEN "roster" ELSE pc[d]
      /\ \A d \in Conn \ {c} : pc[d] \in Parked
  BY <1>1, OneAtATime DEF VInv
<1>3. /\ UNCHANGED rooms /\ UNCHANGED ctx /\ UNCHANGED currentFile /\ UNCHANGED text /\ UNCHANGED to
      /\ UNCHANGED peers /\ UNCHANGED localId /\ UNCHANGED inbox /\ UNCHANGED switches
  BY DEF SendWelcome, roomVars, viewVars
<1>4. outbox'[c] = Append(outbox[c], Welcome(c)) /\ \A d \in Conn \ {c} : outbox'[d] = outbox[d]
  BY DEF SendWelcome, Send, Welcome, VInv, IInv, TypeOK
<1>5. ViewTypeOK'
  BY <1>3 DEF VInv, ViewTypeOK
<1>6. \A d \in Conn : Announces(d)'
  <2>1. Announces(c)'
    BY <1>1, <1>2, <1>3 DEF VInv, Announces, Joining, Closing, Leaving
  <2> QED
    BY <1>2, <2>1, ParkedAnnounces DEF Announces, Parked, Joining, Closing, Leaving
<1>7. Greeted(c)' /\ Follows(c)'
  <2>1. outbox[c] = <<>>
    BY <1>1 DEF VInv, Greeted
  <2>2. Welcome(c)' = Welcome(c)
    BY <1>3 DEF Welcome, Payload
  <2>3. ~Told(c)'
    BY <1>2 DEF Told, Joining
  <2> QED
    BY <1>2, <1>4, <2>1, <2>2, <2>3, FirstAppended DEF Greeted, Follows
<1>8. ASSUME NEW d \in Conn \ {c} PROVE Greeted(d)' /\ Follows(d)'
  <2>1. Reported(d)' = Reported(d)
    BY <1>3 DEF Reported
  <2>2. Told(d)' => Told(d)
    BY <1>2, <1>3 DEF Told, InRoom
  <2>3. Greeted(d)'
    BY <1>2, <1>3, <1>4, <2>1, <2>2, GreetedStays DEF VInv
  <2>4. \A e \in Conn : Announcing(e, d)' <=> Announcing(e, d)
    BY <1>1, <1>2, <1>3 DEF Announcing, Parked
  <2>5. \A id : Unannounced(d, id)' <=> Unannounced(d, id)
    BY <1>3, <2>4 DEF Unannounced
  <2>6. \A id : Listed(ctx[d].project, id)' = Listed(ctx[d].project, id)
    BY <1>3 DEF Listed
  <2> QED
    BY <1>3, <1>4, <2>2, <2>3, <2>5, <2>6, FollowsStays DEF VInv
<1> QED
  BY <1>2, <1>5, <1>6, <1>7, <1>8

\* The roster c was given under the lock is still the room when it is sent.
LEMMA RosterIsListed ==
  ASSUME VInv, NEW c \in Conn, pc[c] \in Joining
  PROVE  /\ text[c] \in Message /\ ProperRoster(text[c])
         /\ \A id \in AnyId : Says(text[c], id) = Listed(ctx[c].project, id)
<1> DEFINE p == ctx[c].project
           R == {[clientId |-> ctx[d].clientId, file |-> currentFile[d]] : d \in rooms[p]}
<1>1. p \in Project /\ text[c] \in Message
  BY ContextOf DEF VInv, IInv, TypeOK, Joining
<1>2. text[c] = [type |-> "presence.roster", project |-> p, members |-> R]
  BY DEF VInv, Announces, RosterOf
<1>3. \A d \in rooms[p] : /\ d \in Conn /\ ctx[d].clientId \in AnyId
                          /\ currentFile[d] \in File \cup {NoFile}
                          /\ \A e \in rooms[p] : ctx[d].clientId = ctx[e].clientId => d = e
  BY <1>1, RoomFacts, MemberFacts DEF VInv, IInv, TypeOK
<1>4. R \subseteq Member
  BY <1>3 DEF Member
<1>5. \A r, s \in R : r.clientId = s.clientId => r = s
  <2> SUFFICES ASSUME NEW d \in rooms[p], NEW e \in rooms[p], ctx[d].clientId = ctx[e].clientId
               PROVE  d = e
    OBVIOUS
  <2> QED
    BY <1>3
<1>6. ASSUME NEW id \in AnyId PROVE Says(text[c], id) = Listed(p, id)
  <2>1. \A f \in File \cup {NoFile} :
          [clientId |-> id, file |-> f] \in R <=> \E d \in rooms[p] : ctx[d].clientId = id /\ currentFile[d] = f
    <3> SUFFICES ASSUME NEW f \in File \cup {NoFile}
                 PROVE  [clientId |-> id, file |-> f] \in R
                          <=> \E d \in rooms[p] : ctx[d].clientId = id /\ currentFile[d] = f
      OBVIOUS
    <3>1. ASSUME NEW d \in rooms[p]
          PROVE  [clientId |-> id, file |-> f] = [clientId |-> ctx[d].clientId, file |-> currentFile[d]]
                   <=> ctx[d].clientId = id /\ currentFile[d] = f
      <4>1. /\ [clientId |-> id, file |-> f].clientId = id /\ [clientId |-> id, file |-> f].file = f
            /\ [clientId |-> ctx[d].clientId, file |-> currentFile[d]].clientId = ctx[d].clientId
            /\ [clientId |-> ctx[d].clientId, file |-> currentFile[d]].file = currentFile[d]
        OBVIOUS
      <4> QED
        BY <4>1
    <3> QED
      BY <3>1
  <2>2. Says(text[c], id) = {f \in File \cup {NoFile} : [clientId |-> id, file |-> f] \in R}
    BY <1>2 DEF Says
  <2>3. Listed(p, id) = {f \in File \cup {NoFile} : \E d \in rooms[p] : ctx[d].clientId = id /\ currentFile[d] = f}
    BY <1>3 DEF Listed
  <2> HIDE DEF R
  <2> QED
    BY <2>1, <2>2, <2>3
<1> HIDE DEF R
<1> QED
  BY <1>1, <1>2, <1>4, <1>5, <1>6 DEF ProperRoster

LEMMA SendRosterView ==
  ASSUME VInv, OneLoop, NEW c \in Conn, SendRoster(c), UNCHANGED viewVars
  PROVE  OneRunning' /\ ViewTypeOK' /\ \A d \in Conn : Announces(d)' /\ Greeted(d)' /\ Follows(d)'
<1>1. pc[c] = "roster" /\ pc' = [pc EXCEPT ![c] = "copy"] /\ pc[c] \notin Parked /\ pc[c] \in Joining
  BY DEF SendRoster, Goto, Parked, Joining
<1>2. /\ OneRunning'
      /\ \A d \in Conn : pc'[d] = IF d = c THEN "copy" ELSE pc[d]
      /\ \A d \in Conn \ {c} : pc[d] \in Parked
  BY <1>1, OneAtATime DEF VInv
<1>3. /\ UNCHANGED rooms /\ UNCHANGED ctx /\ UNCHANGED currentFile /\ UNCHANGED to
      /\ UNCHANGED peers /\ UNCHANGED localId /\ UNCHANGED inbox /\ UNCHANGED switches
  BY DEF SendRoster, roomVars, viewVars
<1>4. /\ outbox'[c] = Append(outbox[c], text[c]) /\ \A d \in Conn \ {c} : outbox'[d] = outbox[d]
      /\ outbox[c] \in Seq(Message)
  BY DEF SendRoster, Send, VInv, IInv, TypeOK
<1>5. text'[c] = Payload(c, "presence.user_joined") /\ \A d \in Conn \ {c} : text'[d] = text[d]
  BY DEF SendRoster, VInv, IInv, TypeOK
<1>6. ViewTypeOK'
  BY <1>3 DEF VInv, ViewTypeOK
<1>7. \A d \in Conn : Announces(d)'
  <2>1. currentFile'[c] = NoFile
    BY <1>1, <1>3 DEF VInv, Announces
  <2>2. text'[c].type # "presence.user_left"
    BY <1>5 DEF Payload
  <2>3. Announces(c)'
    BY <1>2, <1>3, <1>5, <2>1, <2>2 DEF Announces, Joining, Closing, Leaving, Payload
  <2> QED
    BY <1>2, <2>3, ParkedAnnounces DEF Announces, Parked, Joining, Closing, Leaving
<1>8. Greeted(c)'
  <2>1. outbox[c] = <<Welcome(c)>> \/ (outbox[c] = <<>> /\ KnowsId(c))
    BY <1>1 DEF VInv, Greeted
  <2>2. ProperRoster(text[c])
    BY <1>1, RosterIsListed
  <2>3. Welcome(c)' = Welcome(c) /\ (KnowsId(c)' <=> KnowsId(c)) /\ ctx'[c] = ctx[c]
    BY <1>3 DEF Welcome, KnowsId, Payload
  <2>4. CASE outbox[c] = <<Welcome(c)>>
    <3>1. Len(outbox[c]) = 1 /\ outbox[c][1] = Welcome(c)
      BY <2>4
    <3>2. /\ Len(outbox'[c]) = 2 /\ outbox'[c][1] = Welcome(c) /\ outbox'[c][2] = text[c]
          /\ DOMAIN outbox'[c] = 1..2
      BY <1>4, <3>1, AppendElements
    <3>3. NewsOfOthers(outbox'[c], 2, ctx[c].clientId)
      BY <3>2 DEF NewsOfOthers
    <3>4. WelcomeUnread(c)'
      BY <2>2, <2>3, <3>2, <3>3 DEF WelcomeUnread, Welcome, NewsOfOthers
    <3> QED
      BY <1>2, <3>4 DEF Greeted
  <2>5. CASE outbox[c] = <<>> /\ KnowsId(c)
    <3>1. outbox'[c] = <<text[c]>>
      BY <1>4, <2>5, FirstAppended
    <3>2. Len(outbox'[c]) = 1 /\ outbox'[c][1] = text[c]
      BY <3>1
    <3>3. NewsOfOthers(outbox'[c], 1, ctx[c].clientId)
      BY <3>1 DEF NewsOfOthers
    <3>4. RosterUnread(c)'
      BY <2>2, <2>3, <2>5, <3>2, <3>3 DEF RosterUnread, NewsOfOthers
    <3> QED
      BY <1>2, <3>4 DEF Greeted
  <2> QED
    BY <2>1, <2>4, <2>5
<1>9. Follows(c)'
  <2> SUFFICES ASSUME NEW id \in AnyId
               PROVE  LastWord(outbox'[c], peers'[c], id, Listed(ctx[c].project, id)')
    BY DEF Follows
  <2>1. Speaks(text[c], id) /\ Says(text[c], id) = Listed(ctx[c].project, id)
    BY <1>1, RosterIsListed DEF ProperRoster, Speaks
  <2>2. Listed(ctx[c].project, id)' = Listed(ctx[c].project, id)
    BY <1>3 DEF Listed
  <2> QED
    BY <1>4, <2>1, <2>2, SpokenLast
<1>10. ASSUME NEW d \in Conn \ {c} PROVE Greeted(d)' /\ Follows(d)'
  <2>1. Reported(d)' = Reported(d)
    BY <1>3 DEF Reported
  <2>2. Told(d)' => Told(d)
    BY <1>2, <1>5 DEF Told, InRoom
  <2>3. Greeted(d)'
    BY <1>2, <1>3, <1>4, <2>1, <2>2, GreetedStays DEF VInv
  <2>4. \A e \in Conn : Announcing(e, d)' <=> Announcing(e, d)
    BY <1>1, <1>2, <1>3 DEF Announcing, Parked
  <2>5. \A id : Unannounced(d, id)' <=> Unannounced(d, id)
    BY <1>3, <2>4 DEF Unannounced
  <2>6. \A id : Listed(ctx[d].project, id)' = Listed(ctx[d].project, id)
    BY <1>3 DEF Listed
  <2> QED
    BY <1>3, <1>4, <2>2, <2>3, <2>5, <2>6, FollowsStays DEF VInv
<1> QED
  BY <1>2, <1>6, <1>7, <1>8, <1>9, <1>10

\* The end of a broadcast, or its next recipient.
LEMMA CopyRoomView ==
  ASSUME VInv, OneLoop, NEW c \in Conn, CopyRoom(c), UNCHANGED viewVars
  PROVE  OneRunning' /\ ViewTypeOK' /\ \A d \in Conn : Announces(d)' /\ Greeted(d)' /\ Follows(d)'
<1>1. PICK s : /\ pc' = [pc EXCEPT ![c] = s] /\ s \in {"idle", "closed", "send"}
               /\ s = "send" <=> Recipients(c) # {}
               /\ s = "closed" => text[c].type = "presence.user_left"
               /\ s = "idle" => text[c].type # "presence.user_left"
  <2>1. to'[c] = Recipients(c)
    BY DEF CopyRoom, VInv, IInv, TypeOK
  <2> QED
    BY <2>1 DEF CopyRoom, Return, Goto
<1>2. pc[c] = "copy" /\ pc[c] \notin Parked
  BY DEF CopyRoom, Parked
<1>3. /\ OneRunning'
      /\ \A d \in Conn : pc'[d] = IF d = c THEN s ELSE pc[d]
      /\ \A d \in Conn \ {c} : pc[d] \in Parked
  BY <1>1, <1>2, OneAtATime DEF VInv
<1>4. /\ UNCHANGED rooms /\ UNCHANGED ctx /\ UNCHANGED currentFile /\ UNCHANGED text /\ UNCHANGED outbox
      /\ UNCHANGED peers /\ UNCHANGED localId /\ UNCHANGED inbox /\ UNCHANGED switches
  BY DEF CopyRoom, roomVars, viewVars
<1>5. to'[c] = Recipients(c) /\ \A d \in Conn \ {c} : to'[d] = to[d]
  BY DEF CopyRoom, VInv, IInv, TypeOK
<1>6. ViewTypeOK'
  BY <1>4 DEF VInv, ViewTypeOK
<1>7. \A d \in Conn : Announces(d)'
  <2>1. CASE s = "send"
    <3>1. Recipients(c)' = Recipients(c)
      BY <1>4 DEF Recipients
    <3>2. Announces(c)'
      BY <1>2, <1>3, <1>4, <1>5, <2>1, <3>1
         DEF VInv, Announces, Joining, Closing, Leaving, FilePayload, Payload
    <3> QED
      BY <1>3, <3>2, ParkedAnnounces DEF Announces, Parked, Joining, Closing, Leaving
  <2>2. CASE s # "send"
    BY <1>1, <1>3, <2>2 DEF Announces, Parked, Joining, Closing, Leaving
  <2> QED
    BY <2>1, <2>2
<1>8. \A d \in Conn : Told(d)' => Told(d)
  <2>1. Told(c)' => Told(c)
    BY <1>1, <1>2, <1>3, <1>4 DEF Told, InRoom, Joining
  <2>2. \A d \in Conn \ {c} : Told(d)' => Told(d)
    BY <1>3, <1>4 DEF Told, InRoom
  <2> QED
    BY <2>1, <2>2
<1>9. ASSUME NEW d \in Conn PROVE Greeted(d)' /\ Follows(d)'
  <2>1. Reported(d)' = Reported(d)
    BY <1>4 DEF Reported
  <2>2. Greeted(d)'
    BY <1>1, <1>3, <1>4, <1>8, <2>1, GreetedStays DEF VInv
  <2>3. ASSUME Told(d), NEW id \in AnyId \ {ctx[d].clientId}
        PROVE  Unannounced(d, id)' \/ ~Unannounced(d, id)
    <3> SUFFICES ASSUME Unannounced(d, id) PROVE Unannounced(d, id)'
      BY <2>3
    <3>1. Announcing(c, d) /\ id = ctx[c].clientId
      BY <1>2, OnlyAnnouncer DEF VInv
    <3>2. d # c /\ ctx[d].project = ctx[c].project
      BY <2>3, <3>1 DEF Announcing
    <3>3. d \in Recipients(c)
      BY <2>3, <3>2, MemberFacts DEF VInv, Told, Recipients
    <3>4. Announcing(c, d)'
      BY <1>1, <1>3, <1>4, <1>5, <3>2, <3>3 DEF Announcing, Parked
    <3> QED
      BY <1>4, <3>1, <3>4 DEF Unannounced
  <2>4. \A id : Listed(ctx[d].project, id)' = Listed(ctx[d].project, id)
    BY <1>4 DEF Listed
  <2> QED
    BY <1>4, <1>8, <2>2, <2>3, <2>4, FollowsStays DEF VInv
<1> QED
  BY <1>3, <1>6, <1>7, <1>9

LEMMA SendToMemberView ==
  ASSUME VInv, OneLoop, NEW c \in Conn, NEW d \in Conn, SendToMember(c, d), UNCHANGED viewVars
  PROVE  OneRunning' /\ ViewTypeOK' /\ \A e \in Conn : Announces(e)' /\ Greeted(e)' /\ Follows(e)'
<1>0. PICK p : p = ctx[c].project
  OBVIOUS
<1>1. /\ pc[c] = "send" /\ pc[c] \notin Parked /\ d \in to[c] /\ d \in Recipients(c)
      /\ to'[c] = to[c] \ {d} /\ \A e \in Conn \ {c} : to'[e] = to[e]
  BY DEF SendToMember, VInv, Announces, IInv, TypeOK, Parked
<1>2. PICK s : /\ pc' = [pc EXCEPT ![c] = s] /\ s \in {"idle", "closed", "send"}
               /\ s = "send" <=> to'[c] # {}
               /\ s = "closed" => text[c].type = "presence.user_left"
               /\ s = "idle" => text[c].type # "presence.user_left"
  <2>1. CASE to'[c] = {}
    BY <2>1 DEF SendToMember, Return, Goto
  <2>2. CASE to'[c] # {}
    <3>1. pc' = [pc EXCEPT ![c] = "send"]
      BY <1>1, <2>2 DEF SendToMember, VInv, IInv, TypeOK
    <3>2. "send" # "closed" /\ "send" # "idle"
      OBVIOUS
    <3> QED
      BY <2>2, <3>1, <3>2, Zenon
  <2> QED
    BY <2>1, <2>2
<1>3. /\ OneRunning'
      /\ \A e \in Conn : pc'[e] = IF e = c THEN s ELSE pc[e]
      /\ \A e \in Conn \ {c} : pc[e] \in Parked
  BY <1>1, <1>2, OneAtATime DEF VInv
<1>4. /\ UNCHANGED rooms /\ UNCHANGED ctx /\ UNCHANGED currentFile /\ UNCHANGED text
      /\ UNCHANGED peers /\ UNCHANGED localId /\ UNCHANGED inbox /\ UNCHANGED switches
  BY DEF SendToMember, roomVars, viewVars
<1>5. p \in Project /\ d # c /\ d \in rooms[p] /\ InRoom(d) /\ ctx[d].project = p
  BY <1>0, <1>1, ContextOf, RoomFacts DEF VInv, Recipients
<1>6. Told(d)
  BY <1>3, <1>5 DEF Told, InRoom, Joining, Parked
<1>7. outbox'[d] = Append(outbox[d], text[c]) /\ \A e \in Conn \ {d} : outbox'[e] = outbox[e]
  <2>1. ~Disconnected(d)
    BY <1>5 DEF Disconnected
  <2> QED
    BY <2>1 DEF SendToMember, Send, VInv, IInv, TypeOK
<1>8. outbox[d] \in Seq(Message)
  BY DEF VInv, IInv, TypeOK
<1>9. /\ text[c].type \in News /\ text[c].clientId = ctx[c].clientId
      /\ Says(text[c], ctx[c].clientId) = Listed(p, ctx[c].clientId)
      /\ text[c].clientId # ctx[d].clientId
  BY <1>0, <1>1, <1>5, AnnouncedIsListed
<1>10. ViewTypeOK'
  BY <1>4 DEF VInv, ViewTypeOK
<1>11. \A e \in Conn : Announces(e)'
  <2>1. CASE s = "send"
    <3>1. Recipients(c)' = Recipients(c)
      BY <1>4 DEF Recipients
    <3>2. Announces(c)'
      BY <1>1, <1>3, <1>4, <2>1, <3>1 DEF VInv, Announces, Joining, Closing, Leaving, FilePayload, Payload
    <3> QED
      BY <1>3, <3>2 DEF Announces, Parked, Joining, Closing, Leaving
  <2>2. CASE s # "send"
    BY <1>2, <1>3, <2>2 DEF Announces, Parked, Joining, Closing, Leaving
  <2> QED
    BY <2>1, <2>2
<1>12. \A e \in Conn : Told(e)' => Told(e)
  <2>1. Told(c)' => Told(c)
    BY <1>1, <1>2, <1>3, <1>4 DEF Told, InRoom, Joining
  <2>2. \A e \in Conn \ {c} : Told(e)' => Told(e)
    BY <1>3, <1>4 DEF Told, InRoom
  <2> QED
    BY <2>1, <2>2
<1>13. \A id, q : Listed(q, id)' = Listed(q, id)
  BY <1>4 DEF Listed
<1>14. Greeted(d)'
  <2>1. WelcomeUnread(d) \/ RosterUnread(d) \/ RosterRead(d)
    BY <1>6 DEF VInv, Greeted
  <2>2. /\ Len(outbox[d]) \in Nat /\ Len(outbox'[d]) = Len(outbox[d]) + 1
        /\ \A i \in 1..Len(outbox[d]) : outbox'[d][i] = outbox[d][i]
    BY <1>7, <1>8, AppendElements
  <2>3. \A k : NewsOfOthers(outbox[d], k, ctx[d].clientId) => NewsOfOthers(outbox'[d], k, ctx[d].clientId)
    BY <1>7, <1>8, <1>9, NewsAppended
  <2>4. Welcome(d)' = Welcome(d) /\ (KnowsId(d)' <=> KnowsId(d)) /\ Reported(d)' = Reported(d)
    BY <1>4 DEF Welcome, KnowsId, Payload, Reported
  <2>5. ctx'[d] = ctx[d] /\ peers'[d] = peers[d]
    BY <1>4
  <2>6. pc'[d] \notin Joining
    BY <1>3, <1>5, <1>6 DEF Told
  <2>7. WelcomeUnread(d) => WelcomeUnread(d)'
    BY <2>2, <2>3, <2>4, <2>5 DEF WelcomeUnread
  <2>8. RosterUnread(d) => RosterUnread(d)'
    BY <2>2, <2>3, <2>4, <2>5 DEF RosterUnread
  <2>9. RosterRead(d) => RosterRead(d)'
    BY <2>3, <2>4, <2>5 DEF RosterRead
  <2> QED
    BY <2>1, <2>6, <2>7, <2>8, <2>9 DEF Greeted, Joining
<1>15. Follows(d)'
  <2> SUFFICES ASSUME NEW id \in AnyId \ {ctx[d].clientId}
               PROVE  LastWord(outbox'[d], peers'[d], id, Listed(p, id)')
    BY <1>4, <1>5 DEF Follows
  <2>1. CASE id = ctx[c].clientId
    <3>1. Speaks(text[c], id)
      BY <1>9, <2>1 DEF Speaks
    <3> QED
      BY <1>7, <1>8, <1>9, <1>13, <2>1, <3>1, SpokenLast
  <2>2. CASE id # ctx[c].clientId
    <3>1. ~Unannounced(d, id)
      BY <1>1, <2>2, OnlyAnnouncer DEF VInv
    <3>2. LastWord(outbox[d], peers[d], id, Listed(p, id))
      BY <1>5, <1>6, <3>1 DEF VInv, Follows
    <3>3. ~Speaks(text[c], id)
      BY <1>9, <2>2 DEF Speaks, News
    <3>4. peers'[d] = peers[d]
      BY <1>4
    <3> QED
      BY <1>7, <1>8, <1>13, <3>2, <3>3, <3>4, NotSpoken
  <2> QED
    BY <2>1, <2>2
<1>16. ASSUME NEW e \in Conn \ {d} PROVE Greeted(e)' /\ Follows(e)'
  <2>1. Reported(e)' = Reported(e)
    BY <1>4 DEF Reported
  <2>2. Greeted(e)'
    BY <1>2, <1>3, <1>4, <1>7, <1>12, <2>1, GreetedStays DEF VInv
  <2>3. ASSUME NEW id \in AnyId \ {ctx[e].clientId}, Unannounced(e, id)
        PROVE  Unannounced(e, id)'
    <3>1. Announcing(c, e) /\ id = ctx[c].clientId
      BY <1>1, <2>3, OnlyAnnouncer DEF VInv
    <3>2. ctx[e].project = p /\ e \in to'[c]
      BY <1>0, <1>1, <3>1 DEF Announcing
    <3>3. Announcing(c, e)'
      BY <1>0, <1>2, <1>3, <1>4, <3>2 DEF Announcing, Parked
    <3> QED
      BY <1>4, <3>1, <3>3 DEF Unannounced
  <2> QED
    BY <1>4, <1>7, <1>12, <1>13, <2>2, <2>3, FollowsStays DEF VInv
<1> QED
  BY <1>3, <1>10, <1>11, <1>14, <1>15, <1>16
-----------------------------------------------------------------------------
(***************************************************************************)
(* The callbacks that begin, with what the client does at the same time.   *)
(***************************************************************************)
\* A step leaves alone what d keeps, and what it was sent.
Untouched(d) ==
  /\ ctx'[d] = ctx[d] /\ currentFile'[d] = currentFile[d] /\ text'[d] = text[d]
  /\ outbox'[d] = outbox[d] /\ peers'[d] = peers[d] /\ localId'[d] = localId[d]
  /\ inbox'[d] = inbox[d]

\* A step changes what the room p has for the id k, and nothing else.
ListsBut(p, k) ==
  \A q \in Project, id \in AnyId : q # p \/ id # k => Listed(q, id)' = Listed(q, id)

\* A callback of c begins on the idle loop: the members of the rooms other
\* than c are told later of what changes for c's id, and of nothing else.
LEMMA CallbackBegins ==
  ASSUME VInv, OneLoop, NEW c \in Conn, NEW s,
         pc' = [pc EXCEPT ![c] = s], s \notin Parked, s # "send",
         pc[c] \in Parked, LoopIdle(c),
         UNCHANGED to,
         \A d \in Conn \ {c} : Untouched(d),
         ListsBut(ctx'[c].project, ctx'[c].clientId)
  PROVE  /\ OneRunning'
         /\ \A d \in Conn : pc'[d] = IF d = c THEN s ELSE pc[d]
         /\ \A d \in Conn : pc[d] \in Parked
         /\ \A d \in Conn \ {c} : Announces(d)' /\ Greeted(d)' /\ Follows(d)'
<1>1. /\ OneRunning'
      /\ \A d \in Conn : pc'[d] = IF d = c THEN s ELSE pc[d]
      /\ \A d \in Conn : pc[d] \in Parked
  <2>1. IInv /\ OneRunning
    BY DEF VInv
  <2>2. /\ OneRunning'
        /\ \A d \in Conn : pc'[d] = IF d = c THEN s ELSE pc[d]
        /\ \A d \in Conn \ {c} : pc[d] \in Parked
    BY <2>1, OneAtATime
  <2> QED
    BY <2>2
<1>2. ASSUME NEW d \in Conn \ {c} PROVE Announces(d)' /\ Greeted(d)' /\ Follows(d)'
  <2>0. Untouched(d)
    OBVIOUS
  <2>1. Announces(d)'
    BY <1>1 DEF Announces, Parked, Joining, Closing, Leaving
  <2>2. Told(d)' => Told(d)
    BY <1>1, <2>0 DEF Told, InRoom, Untouched
  <2>3. Reported(d)' = Reported(d)
    BY <2>0 DEF Reported, Untouched
  <2>4. Greeted(d)'
    BY <1>1, <2>0, <2>2, <2>3, GreetedStays DEF VInv, Untouched
  <2>5. ASSUME Told(d), NEW id \in AnyId \ {ctx[d].clientId}
        PROVE  \/ Unannounced(d, id)'
               \/ ~Unannounced(d, id) /\ Listed(ctx[d].project, id)' = Listed(ctx[d].project, id)
    <3>1. ~Unannounced(d, id)
      BY <1>1, NobodyAnnounces
    <3>2. ctx[d].project \in Project /\ ctx'[d].project = ctx[d].project
      BY <2>0, <2>5, MemberFacts DEF VInv, Told, Untouched
    <3>3. CASE ctx[d].project = ctx'[c].project /\ id = ctx'[c].clientId
      <4>1. Announcing(c, d)'
        BY <1>1, <3>2, <3>3 DEF Announcing
      <4> QED
        BY <3>3, <4>1 DEF Unannounced
    <3>4. CASE ~(ctx[d].project = ctx'[c].project /\ id = ctx'[c].clientId)
      <4>1. PICK q \in Project : q = ctx[d].project
        BY <3>2
      <4>2. Listed(q, id)' = Listed(q, id)
        BY <3>4, <4>1 DEF ListsBut
      <4>3. Listed(ctx[d].project, id)' = Listed(q, id)'
        BY <3>2, <4>1 DEF Listed
      <4> QED
        BY <3>1, <4>1, <4>2, <4>3
    <3> QED
      BY <3>3, <3>4
  <2>6. Follows(d)'
    BY <2>0, <2>2, <2>5, FollowsStays DEF VInv, Untouched
  <2> QED
    BY <2>1, <2>4, <2>6
<1> QED
  BY <1>1, <1>2

LEMMA ConnectView ==
  ASSUME VInv, OneLoop, NEW c \in Conn, NEW p \in Project, NEW u \in User, NEW r \in ClientId,
         Connect(c, p, u, r)
  PROVE  OneRunning' /\ ViewTypeOK' /\ \A d \in Conn : Announces(d)' /\ Greeted(d)' /\ Follows(d)'
<1>1. NewConnection(c, p, u, r) /\ pc[c] = "new" /\ LoopIdle(c) /\ pc[c] \in Parked
  BY DEF Connect, NewConnection, Parked
<1>2. PICK s \in {"sadd", "hmset"} : pc' = [pc EXCEPT ![c] = s]
  BY <1>1 DEF NewConnection, Goto
<1>3. /\ UNCHANGED to /\ UNCHANGED outbox /\ UNCHANGED peers /\ UNCHANGED inbox /\ UNCHANGED switches
      /\ localId' = [localId EXCEPT ![c] = r]
  BY <1>1 DEF Connect, NewConnection
<1>4. /\ ctx'[c].project = p /\ currentFile'[c] = NoFile
      /\ text'[c] = RosterOf(p, rooms'[p], ctx', currentFile')
      /\ \A d \in Conn \ {c} : ctx'[d] = ctx[d] /\ currentFile'[d] = currentFile[d] /\ text'[d] = text[d]
  BY <1>1 DEF NewConnection, VInv, IInv, TypeOK
<1>5. \A q \in Project : /\ rooms'[q] = IF q = p THEN rooms[p] \cup {c} ELSE rooms[q]
                         /\ c \notin rooms[q]
                         /\ rooms[q] \subseteq Conn
  <2>1. ~InRoom(c)
    BY <1>1 DEF InRoom, Joining
  <2>2. \A q \in Project : rooms'[q] = IF q = p THEN rooms[p] \cup {c} ELSE rooms[q]
    BY <1>1 DEF NewConnection, AddMember, VInv, IInv, TypeOK
  <2> QED
    BY <2>1, <2>2 DEF VInv, IInv, MembersAreOpen, TypeOK
<1>6. ListsBut(p, ctx'[c].clientId)
  <2> SUFFICES ASSUME NEW q \in Project, NEW id \in AnyId, q # p \/ id # ctx'[c].clientId
               PROVE  Listed(q, id)' = Listed(q, id)
    BY DEF ListsBut
  <2>1. {e \in rooms'[q] : ctx'[e].clientId = id} = {e \in rooms[q] : ctx[e].clientId = id}
    BY <1>4, <1>5
  <2>2. \A e \in rooms[q] : currentFile'[e] = currentFile[e]
    BY <1>4, <1>5
  <2> QED
    BY <2>1, <2>2 DEF Listed
<1>7. /\ OneRunning'
      /\ \A d \in Conn : pc'[d] = IF d = c THEN s ELSE pc[d]
      /\ \A d \in Conn : pc[d] \in Parked
      /\ \A d \in Conn \ {c} : Announces(d)' /\ Greeted(d)' /\ Follows(d)'
  <2>1. s \notin Parked /\ s # "send"
    BY DEF Parked
  <2>2. \A d \in Conn \ {c} : Untouched(d)
    BY <1>3, <1>4 DEF VInv, ViewTypeOK, Untouched
  <2> QED
    BY <1>1, <1>2, <1>3, <1>4, <1>6, <2>1, <2>2, CallbackBegins
<1>8. ViewTypeOK'
  BY <1>3, <1>4 DEF VInv, ViewTypeOK, AnyId
<1>9. Announces(c)'
  BY <1>4, <1>7 DEF Announces, Joining, Closing, Leaving
<1>10. Greeted(c)' /\ Follows(c)'
  <2>1. outbox'[c] = <<>>
    <3>1. ~InRoom(c)
      BY <1>1 DEF InRoom, Joining
    <3> QED
      BY <1>3, <3>1 DEF VInv, IInv, OpenOutbox
  <2>2. ~Told(c)'
    BY <1>7 DEF Told, Joining
  <2> QED
    BY <1>7, <2>1, <2>2 DEF Greeted, Follows
<1> QED
  BY <1>7, <1>8, <1>9, <1>10

\* The report the server takes is the one it has from then on.
LEMMA TakeReportView ==
  ASSUME VInv, OneLoop, NEW c \in Conn, TakeReport(c)
  PROVE  OneRunning' /\ ViewTypeOK' /\ \A d \in Conn : Announces(d)' /\ Greeted(d)' /\ Follows(d)'
<1>1. PICK f : f = Head(inbox[c])
  OBVIOUS
<1>2. /\ CurrentFile(c, f) /\ pc[c] = "idle" /\ LoopIdle(c) /\ pc[c] \in Parked
      /\ pc' = [pc EXCEPT ![c] = "file"]
  BY <1>1 DEF TakeReport, CurrentFile, TakeMessage, Goto, Parked
<1>3. /\ UNCHANGED rooms /\ UNCHANGED ctx /\ UNCHANGED to /\ UNCHANGED outbox
      /\ UNCHANGED peers /\ UNCHANGED localId /\ UNCHANGED switches
  BY <1>2 DEF TakeReport, CurrentFile
<1>4. /\ currentFile'[c] = f
      /\ text'[c] = FilePayload(c, "presence.current_file_changed", f)
      /\ inbox'[c] = Tail(inbox[c])
      /\ \A d \in Conn \ {c} :
           currentFile'[d] = currentFile[d] /\ text'[d] = text[d] /\ inbox'[d] = inbox[d]
  BY <1>2 DEF TakeReport, CurrentFile, VInv, IInv, TypeOK, ViewTypeOK
<1>5. InRoom(c) /\ Told(c)
  BY <1>2 DEF InRoom, Told, Joining
<1>6. ctx[c].project \in Project /\ ctx[c].clientId \in AnyId
  BY <1>5, MemberFacts DEF VInv
<1>7. inbox[c] \in Seq(File \cup {NoFile}) /\ inbox[c] # <<>>
  BY DEF VInv, ViewTypeOK, TakeReport
<1>8. ListsBut(ctx[c].project, ctx[c].clientId)
  <2> SUFFICES ASSUME NEW q \in Project, NEW id \in AnyId, q # ctx[c].project \/ id # ctx[c].clientId
               PROVE  Listed(q, id)' = Listed(q, id)
    BY DEF ListsBut
  <2>1. c \in rooms[q] => q = ctx[c].project
    BY DEF VInv, IInv, MembersAreOpen
  <2>2. \A e \in rooms[q] : ctx[e].clientId = id => currentFile'[e] = currentFile[e]
    BY <1>4, <2>1 DEF VInv, IInv, TypeOK
  <2> QED
    BY <1>3, <2>2 DEF Listed
<1>9. /\ OneRunning'
      /\ \A d \in Conn : pc'[d] = IF d = c THEN "file" ELSE pc[d]
      /\ \A d \in Conn : pc[d] \in Parked
      /\ \A d \in Conn \ {c} : Announces(d)' /\ Greeted(d)' /\ Follows(d)'
  <2>1. "file" \notin Parked /\ "file" # "send"
    BY DEF Parked
  <2>2. ctx'[c] = ctx[c]
    BY <1>3
  <2>3. \A d \in Conn \ {c} : Untouched(d)
    BY <1>3, <1>4 DEF Untouched
  <2> QED
    BY <1>2, <1>3, <1>4, <1>8, <2>1, <2>2, <2>3, CallbackBegins
<1>10. ViewTypeOK'
  <2>1. Tail(inbox[c]) \in Seq(File \cup {NoFile})
    BY <1>7, TailElements
  <2>2. inbox' = [inbox EXCEPT ![c] = Tail(@)]
    BY DEF TakeReport
  <2> QED
    BY <1>3, <2>1, <2>2 DEF VInv, ViewTypeOK
<1>11. Announces(c)'
  <2>1. text'[c] = FilePayload(c, "presence.current_file_changed", currentFile[c])'
    BY <1>3, <1>4 DEF FilePayload
  <2> QED
    BY <1>9, <2>1 DEF Announces, Joining, Closing, Leaving
<1>12. Reported(c)' = Reported(c)
  <2>1. /\ Len(inbox[c]) \in Nat \ {0} /\ f = inbox[c][1] /\ inbox'[c] \in Seq(File \cup {NoFile})
        /\ Len(inbox'[c]) = Len(inbox[c]) - 1
        /\ \A i \in 1..(Len(inbox[c]) - 1) : inbox'[c][i] = inbox[c][i + 1]
    BY <1>1, <1>4, <1>7, TailElements
  <2>2. inbox'[c] = <<>> <=> Len(inbox[c]) = 1
    <3>1. inbox'[c] = <<>> <=> Len(inbox'[c]) = 0
      BY <2>1, EmptySeq, Zenon
    <3> QED
      BY <2>1, <3>1
  <2>3. CASE Len(inbox[c]) = 1
    BY <1>4, <1>7, <2>1, <2>2, <2>3 DEF Reported
  <2>4. CASE Len(inbox[c]) # 1
    <3>0. PICK n \in Nat \ {0} : n = Len(inbox[c])
      BY <2>1
    <3>1. n # 1
      BY <2>4, <3>0
    <3>2. n - 1 \in 1..(n - 1) /\ n - 1 + 1 = n
      BY <3>1
    <3>3. inbox'[c][n - 1] = inbox[c][n - 1 + 1] /\ Len(inbox'[c]) = n - 1
      BY <2>1, <3>0, <3>2
    <3> QED
      BY <1>7, <2>2, <2>4, <3>0, <3>2, <3>3 DEF Reported
  <2> QED
    BY <2>3, <2>4
<1>13. Greeted(c)'
  BY <1>3, <1>5, <1>9, <1>12, GreetedStays DEF VInv
<1>14. Follows(c)'
  <2>1. \A id \in AnyId \ {ctx[c].clientId} :
          ~Unannounced(c, id) /\ Listed(ctx[c].project, id)' = Listed(ctx[c].project, id)
    <3> SUFFICES ASSUME NEW id \in AnyId \ {ctx[c].clientId}
                 PROVE  ~Unannounced(c, id) /\ Listed(ctx[c].project, id)' = Listed(ctx[c].project, id)
      OBVIOUS
    <3>1. PICK q \in Project : q = ctx[c].project
      BY <1>6
    <3>2. Listed(ctx[c].project, id)' = Listed(q, id)'
      BY <1>3, <3>1 DEF Listed
    <3> QED
      BY <1>8, <1>9, <3>1, <3>2, NobodyAnnounces DEF ListsBut
  <2> QED
    BY <1>3, <1>5, <2>1, FollowsStays DEF VInv
<1> QED
  BY <1>9, <1>10, <1>11, <1>13, <1>14

LEMMA DisconnectView ==
  ASSUME VInv, OneLoop, NEW c \in Conn, Disconnect(c)
  PROVE  OneRunning' /\ ViewTypeOK' /\ \A d \in Conn : Announces(d)' /\ Greeted(d)' /\ Follows(d)'
<1>1. /\ ConnectionClosed(c) /\ pc[c] = "idle" /\ LoopIdle(c) /\ pc[c] \in Parked /\ InRoom(c)
  BY DEF Disconnect, ConnectionClosed, Parked, InRoom
<1>2. PICK s \in {"del", "del_srem"} : pc' = [pc EXCEPT ![c] = s]
  BY <1>1 DEF ConnectionClosed, Goto
<1>3. /\ UNCHANGED ctx /\ UNCHANGED currentFile /\ UNCHANGED to /\ UNCHANGED localId /\ UNCHANGED switches
      /\ peers' = [peers EXCEPT ![c] = NoRows] /\ inbox' = [inbox EXCEPT ![c] = <<>>]
  BY <1>1 DEF Disconnect, ConnectionClosed
<1>4. PICK p \in Project : p = ctx[c].project /\ c \in rooms[p]
  BY <1>1, MemberFacts DEF VInv
<1>5. \A q \in Project : rooms'[q] = IF q = p THEN rooms[p] \ {c} ELSE rooms[q]
  BY <1>1, <1>4 DEF ConnectionClosed, RemoveMember, VInv, IInv, TypeOK
<1>6. /\ text'[c] = Payload(c, "presence.user_left") /\ outbox'[c] = <<>>
      /\ \A d \in Conn \ {c} : /\ text'[d] = text[d] /\ outbox'[d] = outbox[d]
                               /\ peers'[d] = peers[d] /\ inbox'[d] = inbox[d]
  BY <1>1, <1>3 DEF ConnectionClosed, VInv, IInv, TypeOK, ViewTypeOK
<1>7. \A d \in rooms[p] : ctx[d].clientId = ctx[c].clientId => d = c
  BY <1>4, RoomFacts DEF VInv
<1>8. ListsBut(p, ctx[c].clientId)
  <2> SUFFICES ASSUME NEW q \in Project, NEW id \in AnyId, q # p \/ id # ctx[c].clientId
               PROVE  Listed(q, id)' = Listed(q, id)
    BY DEF ListsBut
  <2>1. {e \in rooms'[q] : ctx[e].clientId = id} = {e \in rooms[q] : ctx[e].clientId = id}
    BY <1>5
  <2> QED
    BY <1>3, <2>1 DEF Listed
<1>9. /\ OneRunning'
      /\ \A d \in Conn : pc'[d] = IF d = c THEN s ELSE pc[d]
      /\ \A d \in Conn \ {c} : Announces(d)' /\ Greeted(d)' /\ Follows(d)'
  <2>1. s \notin Parked /\ s # "send"
    BY DEF Parked
  <2>2. ctx'[c] = ctx[c] /\ p = ctx'[c].project
    BY <1>3, <1>4
  <2>3. \A d \in Conn \ {c} : Untouched(d)
    BY <1>3, <1>6 DEF Untouched
  <2> QED
    BY <1>1, <1>2, <1>3, <1>8, <2>1, <2>2, <2>3, CallbackBegins
<1>10. ViewTypeOK'
  BY <1>3, EmptyRows DEF VInv, ViewTypeOK
<1>11. Announces(c)'
  <2>1. text'[c] = Payload(c, "presence.user_left")'
    BY <1>3, <1>6 DEF Payload
  <2>2. \A d \in rooms'[ctx'[c].project] : ctx'[d].clientId # ctx'[c].clientId
    BY <1>3, <1>4, <1>5, <1>7
  <2> QED
    BY <1>9, <2>1, <2>2 DEF Announces, Joining, Closing, Leaving
<1>12. Greeted(c)' /\ Follows(c)'
  BY <1>9 DEF Greeted, Follows, Told, InRoom, Joining
<1> QED
  BY <1>9, <1>10, <1>11, <1>12

-----------------------------------------------------------------------------
(***************************************************************************)
(* What a client does alone.                                               *)
(***************************************************************************)
-----------------------------------------------------------------------------
(***************************************************************************)
(* What a client does alone, and the loss of the server.                   *)
(***************************************************************************)
\* A step of the client c alone: the server and the other clients are left as
\* they are.
LEMMA ClientStep ==
  ASSUME VInv, NEW c \in Conn,
         UNCHANGED <<rooms, ctx, currentFile, pc, text, to>>,
         \A d \in Conn \ {c} : Untouched(d),
         Told(c) => \A id \in AnyId \ {ctx[c].clientId} :
           LastWord(outbox[c], peers[c], id, Listed(ctx[c].project, id))
             => LastWord(outbox'[c], peers'[c], id, Listed(ctx[c].project, id))
  PROVE  OneRunning' /\ (\A d \in Conn : Announces(d)' /\ Follows(d)')
         /\ \A d \in Conn \ {c} : Greeted(d)'
<1>1. /\ UNCHANGED rooms /\ UNCHANGED ctx /\ UNCHANGED currentFile /\ UNCHANGED pc
      /\ UNCHANGED text /\ UNCHANGED to
  OBVIOUS
<1>2. OneRunning'
  BY <1>1 DEF VInv, OneRunning
<1>3. ASSUME NEW d \in Conn PROVE Announces(d)'
  BY <1>1 DEF VInv, Announces, Leaving, FilePayload, Payload, Recipients
<1>4. \A d \in Conn : Told(d)' <=> Told(d)
  BY <1>1 DEF Told, InRoom
<1>5. \A d \in Conn \ {c} : Greeted(d)'
  <2> SUFFICES ASSUME NEW d \in Conn \ {c} PROVE Greeted(d)'
    OBVIOUS
  <2>1. Reported(d)' = Reported(d)
    BY DEF Reported, Untouched
  <2> QED
    BY <1>1, <1>4, <2>1, GreetedStays DEF VInv, Untouched
<1>6. \A d \in Conn : \A id : Unannounced(d, id)' <=> Unannounced(d, id)
  BY <1>1 DEF Unannounced, Announcing
<1>7. \A q, id : Listed(q, id)' = Listed(q, id)
  BY <1>1 DEF Listed
<1>8. ASSUME NEW d \in Conn PROVE Follows(d)'
  <2>1. Follows(d) /\ ctx'[d] = ctx[d]
    BY <1>1 DEF VInv
  <2>2. PICK p : p = ctx[d].project
    OBVIOUS
  <2>3. \A id : Listed(ctx[d].project, id)' = Listed(p, id)
    BY <1>1, <2>2 DEF Listed
  <2>4. d # c => outbox'[d] = outbox[d] /\ peers'[d] = peers[d]
    BY DEF Untouched
  <2> QED
    BY <1>4, <1>6, <2>1, <2>2, <2>3, <2>4 DEF Follows
<1> QED
  BY <1>2, <1>3, <1>5, <1>8

LEMMA SwitchTabView ==
  ASSUME VInv, NEW c \in Conn, SwitchTab(c)
  PROVE  OneRunning' /\ ViewTypeOK' /\ \A d \in Conn : Announces(d)' /\ Greeted(d)' /\ Follows(d)'
<1>1. PICK f \in File \cup {NoFile} : Report(c, localId[c], peers[c], f)
  BY DEF SwitchTab
<1>2. /\ UNCHANGED rooms /\ UNCHANGED ctx /\ UNCHANGED currentFile /\ UNCHANGED pc /\ UNCHANGED text
      /\ UNCHANGED to /\ UNCHANGED outbox /\ UNCHANGED localId /\ switches' = switches + 1
  BY DEF SwitchTab, roomVars
<1>3. /\ peers' = [peers EXCEPT ![c] = WithRow(peers[c], localId[c], f)]
      /\ inbox' = [inbox EXCEPT ![c] = Append(inbox[c], f)]
  BY <1>1 DEF Report
<1>4. /\ peers'[c] = WithRow(peers[c], localId[c], f) /\ inbox'[c] = Append(inbox[c], f)
      /\ inbox[c] \in Seq(File \cup {NoFile}) /\ peers[c] \in Rows
      /\ \A d \in Conn \ {c} : peers'[d] = peers[d] /\ inbox'[d] = inbox[d]
  BY <1>3 DEF VInv, ViewTypeOK
<1>5. /\ localId[c] \in AnyId
      /\ WithRow(peers[c], localId[c], f) \in Rows
      /\ Row(WithRow(peers[c], localId[c], f), localId[c]) = {f}
      /\ \A id : id # localId[c] => Row(WithRow(peers[c], localId[c], f), id) = Row(peers[c], id)
  <2>1. localId[c] \in AnyId
    BY DEF SwitchTab, VInv, ViewTypeOK
  <2> QED
    BY <1>4, <2>1, SetRow
<1>6. ViewTypeOK'
  <2>1. Append(inbox[c], f) \in Seq(File \cup {NoFile})
    BY <1>4
  <2> QED
    BY <1>2, <1>3, <1>5, <2>1 DEF VInv, ViewTypeOK
<1>7. ctx'[c] = ctx[c] /\ outbox'[c] = outbox[c] /\ pc'[c] = pc[c] /\ localId'[c] = localId[c]
      /\ (Told(c)' <=> Told(c))
  BY <1>2 DEF Told, InRoom
<1>8. Reported(c)' = f
  <2>1. /\ Len(inbox[c]) \in Nat /\ inbox'[c] # <<>> /\ Len(inbox'[c]) = Len(inbox[c]) + 1
        /\ inbox'[c][Len(inbox[c]) + 1] = f
    BY <1>4, AppendElements
  <2> QED
    BY <2>1 DEF Reported
<1>9. Greeted(c)'
  <2>1. Greeted(c)
    BY DEF VInv
  <2>2. Welcome(c)' = Welcome(c) /\ (KnowsId(c)' <=> KnowsId(c))
    BY <1>7 DEF Welcome, KnowsId, Payload
  <2>3. WelcomeUnread(c) => WelcomeUnread(c)'
    BY <1>7, <2>2 DEF WelcomeUnread
  <2>4. RosterUnread(c) => RosterUnread(c)'
    BY <1>7, <2>2 DEF RosterUnread
  <2>5. RosterRead(c) => RosterRead(c)'
    BY <1>4, <1>5, <1>7, <1>8, <2>2 DEF RosterRead, KnowsId
  <2> QED
    BY <1>7, <2>1, <2>2, <2>3, <2>4, <2>5 DEF Greeted
<1>10. ASSUME Told(c), NEW id \in AnyId \ {ctx[c].clientId}, NEW F, LastWord(outbox[c], peers[c], id, F)
       PROVE  LastWord(outbox'[c], peers'[c], id, F)
  <2>1. CASE WelcomeUnread(c)
    <3>1. 2 \in DOMAIN outbox[c] /\ Speaks(outbox[c][2], id)
      BY <2>1 DEF WelcomeUnread, ProperRoster, Speaks, VInv, IInv, TypeOK
    <3> QED
      BY <1>7, <1>10, <3>1, SpokenAnyway
  <2>2. CASE KnowsId(c)
    <3>1. Row(peers'[c], id) = Row(peers[c], id)
      BY <1>4, <1>5, <2>2 DEF KnowsId
    <3> QED
      BY <1>7, <1>10, <3>1 DEF LastWord
  <2> QED
    BY <1>10, <2>1, <2>2 DEF VInv, Greeted, RosterUnread, RosterRead
<1>11. \A d \in Conn \ {c} : Untouched(d)
  BY <1>2, <1>4 DEF Untouched
<1> QED
  BY <1>2, <1>6, <1>9, <1>10, <1>11, ClientStep

\* A client reads a message.
LEMMA ReceiveKeepsRooms ==
  ASSUME IInv, NEW c \in Conn, Receive(c)
  PROVE  IInv'
<1>1. /\ UNCHANGED rooms /\ UNCHANGED refCount /\ UNCHANGED ctx /\ UNCHANGED currentFile
      /\ UNCHANGED presence /\ UNCHANGED session /\ UNCHANGED marks /\ UNCHANGED pc
      /\ UNCHANGED text /\ UNCHANGED to /\ UNCHANGED received /\ UNCHANGED faults /\ UNCHANGED restarts
      /\ outbox[c] # <<>> /\ outbox' = [outbox EXCEPT ![c] = Tail(@)]
  BY DEF Receive, roomVars, redisVars
<1>2. outbox[c] \in Seq(Message)
  BY DEF IInv, TypeOK
<1>3. /\ Tail(outbox[c]) \in Seq(Message)
      /\ \A i \in DOMAIN Tail(outbox[c]) :
           i + 1 \in DOMAIN outbox[c] /\ Tail(outbox[c])[i] = outbox[c][i + 1]
  BY <1>1, <1>2, TailElements
<1>4. TypeOK'
  BY <1>1, <1>3 DEF IInv, TypeOK
<1>5. \A d \in Conn : outbox'[d] = IF d = c THEN Tail(outbox[c]) ELSE outbox[d]
  BY <1>1 DEF IInv, TypeOK
<1>6. DeliveredInProject'
  <2> SUFFICES ASSUME NEW d \in Conn, NEW i \in DOMAIN outbox'[d]
               PROVE  outbox'[d][i].project = ctx[d].project
    BY <1>1 DEF DeliveredInProject
  <2>1. CASE d = c
    <3>1. i \in DOMAIN Tail(outbox[c]) /\ outbox'[d][i] = outbox[c][i + 1] /\ i + 1 \in DOMAIN outbox[c]
      BY <1>3, <1>5, <2>1
    <3> QED
      BY <2>1, <3>1 DEF IInv, DeliveredInProject
  <2>2. CASE d # c
    BY <1>5, <2>2 DEF IInv, DeliveredInProject
  <2> QED
    BY <2>1, <2>2
<1>7. OpenOutbox'
  BY <1>1, <1>5 DEF IInv, OpenOutbox, InRoom
<1>8. HasContext' /\ OwnText' /\ OwnRoomCopy' /\ DistinctInRoom' /\ RefCountMatchesRoom'
  BY <1>1 DEF IInv, HasContext, OwnText, OwnRoomCopy, DistinctInRoom, RefCountMatchesRoom
<1>9. MembersAreOpen'
  BY <1>1 DEF IInv, MembersAreOpen, InRoom
<1> QED
  BY <1>4, <1>6, <1>7, <1>8, <1>9 DEF IInv

LEMMA ReceiveView ==
  ASSUME VInv, NEW c \in Conn, Receive(c)
  PROVE  OneRunning' /\ ViewTypeOK' /\ \A d \in Conn : Announces(d)' /\ Greeted(d)' /\ Follows(d)'
<1>1. PICK q : q = outbox[c]
  OBVIOUS
<1>2. PICK m : m = q[1]
  OBVIOUS
<1>3. PICK k : k = ctx[c].clientId
  OBVIOUS
<1>4. PICK rows : rows = RowsAfter(peers[c], localId[c], m)
  OBVIOUS
<1>5. /\ q \in Seq(Message) /\ q # <<>> /\ Head(q) = m /\ m \in Message
      /\ Len(q) \in Nat \ {0} /\ DOMAIN q = 1..Len(q)
      /\ DOMAIN Tail(q) = 1..(Len(q) - 1) /\ Len(Tail(q)) = Len(q) - 1
      /\ \A i \in 1..(Len(q) - 1) : Tail(q)[i] = q[i + 1]
  <2>1. q \in Seq(Message) /\ q # <<>>
    BY <1>1 DEF Receive, VInv, IInv, TypeOK
  <2> QED
    BY <1>2, <2>1, TailElements
<1>6. InRoom(c) /\ ctx[c] # NoContext /\ k \in AnyId
  BY <1>1, <1>3, <1>5, MemberFacts DEF VInv, IInv, OpenOutbox, HasContext
<1>7. /\ UNCHANGED rooms /\ UNCHANGED ctx /\ UNCHANGED currentFile /\ UNCHANGED pc /\ UNCHANGED text
      /\ UNCHANGED to /\ UNCHANGED switches
  BY DEF Receive, roomVars
<1>8. /\ outbox'[c] = Tail(q) /\ localId'[c] = IF m.type = "server.welcome" THEN m.clientId ELSE localId[c]
      /\ localId' = [localId EXCEPT ![c] = localId'[c]]
      /\ \A d \in Conn \ {c} : outbox'[d] = outbox[d] /\ localId'[d] = localId[d]
  BY <1>1, <1>5 DEF Receive, VInv, IInv, TypeOK, ViewTypeOK
<1>9. m.type # "presence.roster" =>
        /\ peers' = [peers EXCEPT ![c] = rows] /\ peers'[c] = rows
        /\ inbox' = inbox
  BY <1>1, <1>4, <1>5 DEF Receive, VInv, ViewTypeOK
<1>10. m.type = "presence.roster" =>
         \E f \in File \cup {NoFile} :
           /\ peers' = [peers EXCEPT ![c] = WithRow(rows, localId[c], f)]
           /\ inbox' = [inbox EXCEPT ![c] = Append(inbox[c], f)]
  BY <1>1, <1>4, <1>5 DEF Receive, Report
<1>11. \A d \in Conn \ {c} : Untouched(d)
  <2>1. CASE m.type # "presence.roster"
    BY <1>7, <1>8, <1>9, <2>1 DEF Untouched, VInv, ViewTypeOK
  <2>2. CASE m.type = "presence.roster"
    BY <1>7, <1>8, <1>10, <2>2 DEF Untouched, VInv, ViewTypeOK
  <2> QED
    BY <2>1, <2>2
<1>12. peers[c] \in Rows /\ localId[c] \in AnyId /\ inbox[c] \in Seq(File \cup {NoFile}) /\ Greeted(c)
  BY <1>6 DEF VInv, ViewTypeOK
<1>13. ctx'[c] = ctx[c] /\ pc'[c] = pc[c] /\ currentFile'[c] = currentFile[c] /\ (Told(c)' <=> Told(c))
  BY <1>7 DEF Told, InRoom
\* What is shown for the other ids moves from the message to the row.
<1>14. ASSUME ViewTypeOK', Greeted(c)',
              Told(c) => \A id \in AnyId \ {k} :
                Row(peers'[c], id) = IF Speaks(m, id) THEN Says(m, id) ELSE Row(peers[c], id)
       PROVE  OneRunning' /\ ViewTypeOK' /\ \A d \in Conn : Announces(d)' /\ Greeted(d)' /\ Follows(d)'
  <2>1. ASSUME Told(c), NEW id \in AnyId \ {ctx[c].clientId}, NEW F, LastWord(outbox[c], peers[c], id, F)
        PROVE  LastWord(outbox'[c], peers'[c], id, F)
    <3>1. PICK new : new = peers'[c]
      OBVIOUS
    <3>2. Row(new, id) = IF Speaks(q[1], id) THEN Says(q[1], id) ELSE Row(peers[c], id)
      BY <1>2, <1>3, <1>14, <2>1, <3>1
    <3>3. LastWord(Tail(q), new, id, F)
      BY <1>1, <1>5, <2>1, <3>2, ReadFirst
    <3> QED
      BY <1>8, <3>1, <3>3
  <2> QED
    BY <1>7, <1>11, <1>14, <2>1, ClientStep
<1>15. CASE m = Welcome(c)
  <2>1. m.type = "server.welcome" /\ m.clientId = k /\ localId'[c] = k
    BY <1>3, <1>8, <1>15 DEF Welcome, Payload
  <2>2. rows = peers[c]
    BY <1>4, <2>1 DEF RowsAfter
  <2>3. peers'[c] = peers[c] /\ ViewTypeOK'
    <3>1. /\ peers' = [peers EXCEPT ![c] = peers[c]] /\ inbox' = inbox
          /\ localId' = [localId EXCEPT ![c] = k]
      BY <1>8, <1>9, <2>1, <2>2
    <3>2. peers'[c] = peers[c] /\ peers' \in [Conn -> Rows]
      BY <3>1 DEF VInv, ViewTypeOK
    <3>3. /\ localId' \in [Conn -> AnyId \cup {NoContext}]
          /\ \A d \in Conn : ctx'[d] # NoContext => localId'[d] \in AnyId
      BY <1>6, <1>7, <3>1 DEF VInv, ViewTypeOK
    <3> QED
      BY <1>7, <3>1, <3>2, <3>3 DEF VInv, ViewTypeOK
  <2>4. \A id : ~Speaks(m, id)
    BY <2>1 DEF Speaks, News
  <2>5. KnowsId(c)'
    BY <1>3, <1>13, <2>1 DEF KnowsId
  <2>6. Greeted(c)'
    <3>1. CASE Told(c)
      <4>1. WelcomeUnread(c)
        BY <1>1, <1>2, <1>5, <1>12, <2>1, <3>1
           DEF Greeted, RosterUnread, RosterRead, ProperRoster, NewsOfOthers, News
      <4>2. Len(q) >= 2 /\ ProperRoster(q[2]) /\ NewsOfOthers(q, 2, k)
        BY <1>1, <1>3, <4>1 DEF WelcomeUnread
      <4>3. NewsOfOthers(Tail(q), 1, k)
        BY <1>5, <4>2, NewsOfTail
      <4>4. Len(Tail(q)) >= 1 /\ Tail(q)[1] = q[2]
        BY <1>5, <4>2
      <4>5. RosterUnread(c)'
        BY <1>3, <1>8, <1>13, <2>5, <4>2, <4>3, <4>4 DEF RosterUnread
      <4> QED
        BY <1>13, <3>1, <4>5 DEF Greeted, Told, Joining
    <3>2. CASE ~Told(c)
      <4>1. pc[c] = "roster" /\ q = <<Welcome(c)>>
        BY <1>1, <1>5, <1>6, <1>12, <3>2 DEF Greeted, Told, Joining
      <4>2. Tail(q) = <<>>
        BY <4>1
      <4> QED
        BY <1>8, <1>13, <2>5, <3>2, <4>1, <4>2 DEF Greeted
    <3> QED
      BY <3>1, <3>2
  <2> QED
    BY <1>14, <2>3, <2>4, <2>6
<1>16. CASE Told(c) /\ RosterUnread(c)
  <2>1. ProperRoster(m) /\ NewsOfOthers(q, 1, k) /\ localId[c] = k /\ m.type = "presence.roster"
    BY <1>1, <1>2, <1>3, <1>16 DEF RosterUnread, KnowsId, ProperRoster
  <2>2. PICK f \in File \cup {NoFile} :
          /\ peers' = [peers EXCEPT ![c] = WithRow(rows, k, f)]
          /\ inbox' = [inbox EXCEPT ![c] = Append(inbox[c], f)]
    BY <1>10, <2>1
  <2>3. peers'[c] = WithRow(rows, k, f) /\ inbox'[c] = Append(inbox[c], f)
    BY <2>2 DEF VInv, ViewTypeOK
  <2>4. rows = AfterRoster(m)
    BY <1>4, <2>1 DEF RowsAfter
  <2>5. rows \in Rows /\ \A id \in AnyId : Row(rows, id) = Says(m, id)
    BY <1>6, <2>1, <2>4, RosterRows
  <2>6. /\ WithRow(rows, k, f) \in Rows
        /\ Row(WithRow(rows, k, f), k) = {f}
        /\ \A id : id # k => Row(WithRow(rows, k, f), id) = Row(rows, id)
    BY <1>6, <2>5, SetRow
  <2>7. localId' = localId
    BY <1>8, <2>1 DEF VInv, ViewTypeOK
  <2>8. ViewTypeOK'
    <3>1. Append(inbox[c], f) \in Seq(File \cup {NoFile})
      BY <1>12
    <3> QED
      BY <1>7, <2>2, <2>6, <2>7, <3>1 DEF VInv, ViewTypeOK
  <2>9. Reported(c)' = f
    <3>1. /\ Len(inbox[c]) \in Nat /\ inbox'[c] # <<>> /\ Len(inbox'[c]) = Len(inbox[c]) + 1
          /\ inbox'[c][Len(inbox[c]) + 1] = f
      BY <1>12, <2>3, AppendElements
    <3> QED
      BY <3>1 DEF Reported
  <2>10. NewsOfOthers(Tail(q), 0, k)
    BY <1>5, <2>1, NewsOfTail
  <2>11. RosterRead(c)'
    BY <1>3, <1>8, <1>13, <2>1, <2>3, <2>6, <2>7, <2>9, <2>10 DEF RosterRead, KnowsId
  <2>12. Greeted(c)'
    BY <1>13, <1>16, <2>11 DEF Greeted, Told, Joining
  <2>13. \A id \in AnyId \ {k} : Speaks(m, id) /\ Row(peers'[c], id) = Says(m, id)
    BY <2>1, <2>3, <2>5, <2>6 DEF Speaks
  <2> QED
    BY <1>14, <2>8, <2>12, <2>13
<1>17. CASE Told(c) /\ RosterRead(c)
  <2>1. m.type \in News /\ m.clientId # k /\ NewsOfOthers(q, 1, k) /\ localId[c] = k
        /\ Row(peers[c], k) = {Reported(c)}
    BY <1>1, <1>2, <1>3, <1>5, <1>17 DEF RosterRead, NewsOfOthers, KnowsId
  <2>2. m.type # "presence.roster" /\ m.type # "server.welcome"
    BY <2>1 DEF News
  <2>3. /\ rows \in Rows
        /\ \A id : Row(rows, id) = IF Speaks(m, id) THEN Says(m, id) ELSE Row(peers[c], id)
    BY <1>4, <1>5, <1>12, <2>1, NewsRows
  <2>4. peers'[c] = rows /\ inbox' = inbox /\ localId' = localId
    BY <1>8, <1>9, <2>2 DEF VInv, ViewTypeOK
  <2>5. ViewTypeOK'
    BY <1>7, <1>9, <2>2, <2>3, <2>4 DEF VInv, ViewTypeOK
  <2>6. Reported(c)' = Reported(c)
    BY <1>13, <2>4 DEF Reported
  <2>7. ~Speaks(m, k)
    BY <2>1, <2>2 DEF Speaks
  <2>8. NewsOfOthers(Tail(q), 0, k)
    BY <1>5, <2>1, NewsOfTail
  <2>9. RosterRead(c)'
    BY <1>3, <1>8, <1>13, <2>1, <2>3, <2>4, <2>6, <2>7, <2>8 DEF RosterRead, KnowsId
  <2>10. Greeted(c)'
    BY <1>13, <1>17, <2>9 DEF Greeted, Told, Joining
  <2> QED
    BY <1>14, <2>3, <2>4, <2>5, <2>10
<1>18. m = Welcome(c) \/ (Told(c) /\ (RosterUnread(c) \/ RosterRead(c)))
  <2>1. CASE Told(c)
    BY <1>1, <1>2, <1>12, <2>1 DEF Greeted, WelcomeUnread
  <2>2. CASE ~Told(c)
    <3>1. q = <<Welcome(c)>>
      BY <1>1, <1>5, <1>6, <1>12, <2>2 DEF Greeted, Told, Joining
    <3> QED
      BY <1>2, <3>1
  <2> QED
    BY <2>1, <2>2
<1> QED
  BY <1>15, <1>16, <1>17, <1>18

LEMMA LoseServerView ==
  ASSUME VInv, LoseServer
  PROVE  OneRunning' /\ ViewTypeOK' /\ \A d \in Conn : Announces(d)' /\ Greeted(d)' /\ Follows(d)'
<1>1. /\ \A c \in Conn : pc'[c] \in {"new", "closed"}
      /\ UNCHANGED ctx /\ UNCHANGED localId /\ UNCHANGED switches
      /\ peers' = [c \in Conn |-> NoRows] /\ inbox' = [c \in Conn |-> <<>>]
  BY DEF LoseServer, ServerRestart
<1>2. OneRunning'
  BY <1>1 DEF OneRunning, Parked
<1>3. ViewTypeOK'
  BY <1>1, EmptyRows DEF VInv, ViewTypeOK
<1>4. \A d \in Conn : Announces(d)' /\ Greeted(d)' /\ Follows(d)'
  BY <1>1 DEF Announces, Greeted, Follows, Told, InRoom, Joining, Leaving, Closing
<1> QED
  BY <1>2, <1>3, <1>4

-----------------------------------------------------------------------------
(***************************************************************************)
(* A step of the clients and the server is one of the server, or none of   *)
(* it, or a client takes a message off its queue.                          *)
(***************************************************************************)
InboxTypeOK == inbox \in [Conn -> Seq(File \cup {NoFile})]

LEMMA InboxStep == InboxTypeOK /\ [NextView]_allVars => InboxTypeOK'
<1> SUFFICES ASSUME InboxTypeOK, [NextView]_allVars PROVE InboxTypeOK'
  OBVIOUS
<1> USE DEF InboxTypeOK
<1>1. CASE inbox' = inbox
  BY <1>1
<1>2. ASSUME NEW c \in Conn, NEW f \in File \cup {NoFile},
             inbox' = [inbox EXCEPT ![c] = Append(@, f)]
      PROVE  InboxTypeOK'
  <2>1. Append(inbox[c], f) \in Seq(File \cup {NoFile})
    OBVIOUS
  <2> QED
    BY <1>2, <2>1
<1>3. ASSUME NEW c \in Conn, Receive(c) \/ SwitchTab(c) PROVE InboxTypeOK'
  BY <1>1, <1>2, <1>3 DEF Receive, SwitchTab, Report
<1>4. ASSUME NEW c \in Conn, TakeReport(c) PROVE InboxTypeOK'
  <2>1. Tail(inbox[c]) \in Seq(File \cup {NoFile})
    BY <1>4, TailElements DEF TakeReport
  <2> QED
    BY <1>4, <2>1 DEF TakeReport
<1>5. ASSUME NEW c \in Conn, Disconnect(c) PROVE InboxTypeOK'
  BY <1>5 DEF Disconnect
<1>6. ASSUME NEW c \in Conn, RunHandler(c) PROVE InboxTypeOK'
  BY <1>1, <1>6 DEF RunHandler, viewVars
<1>7. CASE \E c \in Conn, p \in Project, u \in User, id \in ClientId : Connect(c, p, u, id)
  BY <1>1, <1>7 DEF Connect
<1>8. CASE LoseServer
  BY <1>8 DEF LoseServer
<1>9. CASE UNCHANGED allVars
  BY <1>1, <1>9 DEF allVars, viewVars
<1> QED
  BY <1>3, <1>4, <1>5, <1>6, <1>7, <1>8, <1>9 DEF NextView

LEMMA ViewStepIsRoomStep ==
  ASSUME InboxTypeOK, [NextView]_allVars
  PROVE  [Next]_serverVars \/ \E c \in Conn : Receive(c)
<1>1. ASSUME NEW c \in Conn, NEW p \in Project, NEW u \in User, NEW id \in ClientId, Connect(c, p, u, id)
      PROVE  [Next]_serverVars
  BY <1>1 DEF Connect, Next, Callback
<1>2. ASSUME NEW c \in Conn, SwitchTab(c) PROVE [Next]_serverVars
  BY <1>2 DEF SwitchTab, roomVars, redisVars, serverVars
<1>3. ASSUME NEW c \in Conn, TakeReport(c) PROVE [Next]_serverVars
  <2>1. inbox[c] \in Seq(File \cup {NoFile}) /\ inbox[c] # <<>>
    BY <1>3 DEF InboxTypeOK, TakeReport
  <2>2. Head(inbox[c]) \in File \cup {NoFile}
    BY <2>1
  <2> QED
    BY <1>3, <2>2 DEF TakeReport, Next, Callback
<1>4. ASSUME NEW c \in Conn, Disconnect(c) PROVE [Next]_serverVars
  BY <1>4 DEF Disconnect, Next, Callback
<1>5. ASSUME NEW c \in Conn, RunHandler(c) PROVE [Next]_serverVars
  BY <1>5 DEF RunHandler, Next
<1>6. LoseServer => [Next]_serverVars
  BY DEF LoseServer, Next
<1>7. UNCHANGED allVars => [Next]_serverVars
  BY DEF allVars
<1> QED
  BY <1>1, <1>2, <1>3, <1>4, <1>5, <1>6, <1>7 DEF NextView

LEMMA VNext ==
  ASSUME OneLoop
  PROVE  VInv /\ [NextView]_allVars => VInv'
<1> SUFFICES ASSUME VInv, [NextView]_allVars PROVE VInv'
  OBVIOUS
<1>1. IInv'
  BY ViewStepIsRoomStep, NextInv, ReceiveKeepsRooms DEF VInv, ViewTypeOK, InboxTypeOK
<1> SUFFICES OneRunning' /\ ViewTypeOK' /\ \A d \in Conn : Announces(d)' /\ Greeted(d)' /\ Follows(d)'
  BY <1>1 DEF VInv
<1>2. ASSUME NEW c \in Conn, RunHandler(c)
      PROVE  OneRunning' /\ ViewTypeOK' /\ \A d \in Conn : Announces(d)' /\ Greeted(d)' /\ Follows(d)'
  <2>1. UNCHANGED viewVars
    BY <1>2 DEF RunHandler
  <2>2. ASSUME PresenceUserJoin(c) \/ SessionSet(c) \/ SessionClear(c) \/ PresenceUserLeave(c)
               \/ RedisFails(c) \/ MarkSet(c)
        PROVE  /\ pc[c] \in DOMAIN AfterRedis
               /\ pc' = [pc EXCEPT ![c] = AfterRedis[pc[c]]]
               /\ UNCHANGED <<rooms, ctx, currentFile, text, to, outbox>>
    BY <2>2, AfterRedisValues
       DEF PresenceUserJoin, SessionSet, SessionClear, PresenceUserLeave, RedisFails, MarkSet, Goto, roomVars
  <2> QED
    BY <1>2, <2>1, <2>2, RedisStepView, SendWelcomeView, SendRosterView, CopyRoomView, SendToMemberView
       DEF RunHandler, Handler
<1>3. CASE UNCHANGED allVars
  <2> USE <1>3 DEF allVars, serverVars, viewVars
  <2>1. OneRunning' /\ ViewTypeOK'
    BY DEF VInv, OneRunning, ViewTypeOK
  <2>2. ASSUME NEW d \in Conn PROVE Announces(d)'
    BY DEF VInv, Announces, Leaving, Recipients, Payload, FilePayload
  <2>3. ASSUME NEW d \in Conn PROVE Greeted(d)'
    BY DEF VInv, Greeted, Told, InRoom, WelcomeUnread, RosterUnread, RosterRead, Welcome, Payload,
           KnowsId, Reported
  <2>4. ASSUME NEW d \in Conn PROVE Follows(d)'
    BY DEF VInv, Follows, Told, InRoom, Unannounced, Announcing, Listed
  <2> QED
    BY <2>1, <2>2, <2>3, <2>4
<1> QED
  BY <1>2, <1>3, ReceiveView, ConnectView, SwitchTabView, TakeReportView, DisconnectView, LoseServerView
     DEF NextView

\* With one IO loop every client lists, when nothing is on its way any more,
\* exactly the members of its room, each with the file that member reported
\* last: whatever Redis does, however often the server is restarted, and
\* however late a client reads what it was sent.
THEOREM ListsMatchRooms ==
  ASSUME OneLoop
  PROVE  SpecView => []ViewsMatchRoom
<1>1. VInv => ViewsMatchRoom
  <2> SUFFICES ASSUME VInv, Settled, NEW c \in Conn, Open(c) PROVE Shown(c) = Actual(c)
    BY DEF ViewsMatchRoom
  <2>1. PICK p \in Project : p = ctx[c].project
    BY DEF Open, VInv, IInv, TypeOK, Context
  <2>2. InRoom(c) /\ c \in rooms[p]
    BY <2>1, RoomFacts DEF Open, VInv
  <2>3. Told(c) /\ outbox[c] = <<>> /\ inbox[c] = <<>> /\ \A d \in Conn : pc[d] \in Parked
    BY <2>2 DEF Settled, Quiet, Told, Parked, Joining
  <2>4. RosterRead(c)
    BY <2>3 DEF VInv, Greeted, WelcomeUnread, RosterUnread
  <2>5. PICK k \in AnyId : k = ctx[c].clientId
    BY <2>2, MemberFacts DEF VInv
  <2>6. Row(peers[c], k) = Listed(p, k)
    <3>1. \A d \in rooms[p] : ctx[d].clientId = k => d = c
      BY <2>2, <2>5, RoomFacts DEF VInv
    <3>2. Listed(p, k) = {currentFile[c]}
      BY <2>2, <2>5, <3>1 DEF Listed
    <3> QED
      BY <2>3, <2>4, <2>5, <3>2 DEF RosterRead, Reported
  <2>7. ASSUME NEW id \in AnyId, id # k PROVE Row(peers[c], id) = Listed(p, id)
    <3>1. ~Unannounced(c, id)
      BY <2>3, NobodyAnnounces
    <3>2. LastWord(outbox[c], peers[c], id, Listed(p, id))
      BY <2>1, <2>3, <2>5, <2>7, <3>1 DEF VInv, Follows
    <3>3. DOMAIN outbox[c] = {}
      BY <2>3
    <3> QED
      BY <3>2, <3>3 DEF LastWord
  <2>8. \A id \in AnyId : Row(peers[c], id) = Listed(p, id)
    BY <2>6, <2>7
  <2>9. PICK D \in SUBSET AnyId : peers[c] \in [D -> File \cup {NoFile}]
    BY DEF VInv, ViewTypeOK, Rows
  <2>10. \A d \in rooms[p] : ctx[d].clientId \in AnyId /\ currentFile[d] \in File \cup {NoFile}
    BY RoomFacts, MemberFacts DEF VInv, IInv, TypeOK
  <2>11. ASSUME NEW id \in D
         PROVE  \E d \in rooms[p] : ctx[d].clientId = id /\ currentFile[d] = peers[c][id]
    <3>1. peers[c][id] \in Row(peers[c], id) /\ id \in AnyId
      BY <2>9, <2>11 DEF Row
    <3> QED
      BY <2>8, <3>1 DEF Listed
  <2>12. ASSUME NEW d \in rooms[p]
         PROVE  ctx[d].clientId \in D /\ peers[c][ctx[d].clientId] = currentFile[d]
    <3>1. currentFile[d] \in Listed(p, ctx[d].clientId)
      BY <2>12 DEF Listed
    <3>2. currentFile[d] \in Row(peers[c], ctx[d].clientId)
      BY <2>8, <2>10, <2>12, <3>1
    <3> QED
      BY <2>9, <3>2 DEF Row
  <2>13. Shown(c) = {<<id, peers[c][id]>> : id \in D}
    BY <2>9 DEF Shown
  <2>14. Actual(c) = {<<ctx[d].clientId, currentFile[d]>> : d \in rooms[p]}
    BY <2>1 DEF Actual
  <2> QED
    BY <2>11, <2>12, <2>13, <2>14
<1>2. VInv /\ [NextView]_allVars => VInv'
  BY VNext
<1> QED
  BY <1>1, <1>2, VInit, PTL DEF SpecView

\* The ids alone: nobody online is missing and nobody gone is shown.  With two
\* loops this is false (the run MCPresenceView_two_loops).
THEOREM OnlineMembersAreListed ==
  ASSUME OneLoop
  PROVE  SpecView => []OnlineMembersVisible
<1>1. ViewsMatchRoom => OnlineMembersVisible
  <2> SUFFICES ASSUME NEW c \in Conn, Shown(c) = Actual(c)
               PROVE  DOMAIN peers[c] = RoomIds(ctx[c].project)
    BY DEF ViewsMatchRoom, OnlineMembersVisible
  <2> DEFINE D == DOMAIN peers[c]
             R == rooms[ctx[c].project]
  <2>1. ASSUME NEW id \in D PROVE \E d \in R : ctx[d].clientId = id
    <3>1. <<id, peers[c][id]>> \in Actual(c)
      BY <2>1 DEF Shown
    <3>2. PICK d \in R : <<id, peers[c][id]>> = <<ctx[d].clientId, currentFile[d]>>
      BY <3>1 DEF Actual
    <3> QED
      BY <3>2
  <2>2. ASSUME NEW d \in R PROVE ctx[d].clientId \in D
    <3>1. <<ctx[d].clientId, currentFile[d]>> \in Shown(c)
      BY <2>2 DEF Actual
    <3>2. PICK id \in D : <<ctx[d].clientId, currentFile[d]>> = <<id, peers[c][id]>>
      BY <3>1 DEF Shown
    <3> QED
      BY <3>2
  <2> QED
    BY <2>1, <2>2 DEF RoomIds
<1> QED
  BY <1>1, ListsMatchRooms, PTL

\* What the server keeps in Redis does not depend on what the clients do with
\* its messages.
LEMMA SInvWithClients ==
  ASSUME MaxFaults = 0, MaxRestarts = 0
  PROVE  SpecView => []SInv
<1>1. ASSUME SInv, NEW c \in Conn, Receive(c) PROVE SInv'
  <2>1. IInv'
    BY <1>1, ReceiveKeepsRooms DEF SInv
  <2>2. UNCHANGED rooms /\ UNCHANGED ctx /\ UNCHANGED currentFile /\ UNCHANGED session /\ UNCHANGED pc
    BY <1>1 DEF Receive, roomVars, redisVars
  <2> QED
    BY <1>1, <2>1, <2>2 DEF SInv, SessionTracks, Describes
<1>2. SInv /\ InboxTypeOK /\ [NextView]_allVars => SInv' /\ InboxTypeOK'
  BY <1>1, SNext, ViewStepIsRoomStep, InboxStep
<1>3. InitView => SInv /\ InboxTypeOK
  BY SInit DEF InitView, InboxTypeOK
<1> QED
  BY <1>2, <1>3, PTL DEF SpecView

\* A session key describes a member with the file its client reported, for
\* any number of loops.
THEOREM KeysDescribeMembersWithClients ==
  ASSUME MaxFaults = 0, MaxRestarts = 0
  PROVE  SpecView => []SessionsDescribeMembers
BY SInvWithClients, SDescribes, PTL
=============================================================================
