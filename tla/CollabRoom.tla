------------------------------ MODULE CollabRoom ------------------------------
(***************************************************************************)
(* The collaboration rooms of the server:                                  *)
(* server/src/api/collaboration_ws_controller.cpp with the Redis commands  *)
(* of server/src/collaboration/redis_collab_store.cpp.                     *)
(*                                                                         *)
(* Every WebSocket connection belongs to one IO loop of the server and the *)
(* callbacks of the connections of a loop run one after the other.  A      *)
(* callback takes g_roomMutex for its bookkeeping, releases it, and then   *)
(* talks to Redis, to its own peer and, under a second lock that copies    *)
(* the room, to the other members.  Each of these stretches is a step      *)
(* here, so that the callbacks of two loops interleave as they may in the  *)
(* server and those of one loop do not.                                    *)
(***************************************************************************)
EXTENDS Naturals, Sequences, FiniteSets

CONSTANTS
  Conn,        \* WebSocket connections; each is accepted at most once
  Loop,        \* IO loops ("number_of_threads" of the server's configuration)
  LoopOf,      \* the loop each connection was assigned to
  Project,     \* project ids, taken from the request path
  User,        \* user ids of the authenticated users
  ClientId,    \* client ids a request may ask for (an empty one: the user's id)
  GuestId,     \* ids makeGuestClientId may return
  File,        \* workspace paths a member may report
  NoFile,      \* the empty path
  NoSession,   \* a session key that is absent from Redis
  NoContext,   \* a connection without a WsCollabContext
  RelayType,   \* the message types that are only relayed to the room
  MaxMessages, \* bound: messages the server takes from its clients
  MaxFaults,   \* bound: Redis commands that fail
  MaxRestarts  \* bound: restarts of the server process

AnyId == ClientId \cup GuestId

RoomAssumption ==
  /\ IsFiniteSet(Conn)
  /\ LoopOf \in [Conn -> Loop]
  /\ ClientId \cap GuestId = {}
  /\ NoFile \notin File
  /\ RelayType \cap {"server.welcome", "heartbeat.ack", "presence.user_joined", "presence.user_left",
                     "presence.roster", "presence.current_file_changed"} = {}
  /\ NoContext \notin [project : Project, clientId : AnyId, user : User]
  /\ NoSession \notin [user : User, project : Project, file : File \cup {NoFile}]
  /\ MaxMessages \in Nat
  /\ MaxFaults \in Nat
  /\ MaxRestarts \in Nat

ASSUME RoomAssumption

-----------------------------------------------------------------------------
(***************************************************************************)
(* What the server keeps.                                                  *)
(***************************************************************************)
VARIABLES
  rooms,       \* g_rooms: the connections in each project's room
  refCount,    \* g_userPresenceRefCount: 0 stands for an absent entry
  ctx,         \* the WsCollabContext of each connection, also its RoomMember
  currentFile, \* RoomMember::currentFile
  pc,          \* how far the callback of each connection has come
  text,        \* the message the running callback is about to send
  to,          \* the rest of broadcastToRoom's copy of the room
  outbox,      \* what was sent to each open connection and not yet read
  presence,    \* Redis: toide:presence:project:<id>, a set of user ids
  session,     \* Redis: toide:session:<clientId>, a hash
  marks,       \* Redis: toide:cursor:... and toide:softlock:..., the keys set
  received,    \* messages taken from clients (bounded by MaxMessages)
  faults,      \* Redis commands that failed so far (bounded by MaxFaults)
  restarts     \* restarts so far (bounded by MaxRestarts)

roomVars   == <<rooms, refCount, ctx, currentFile>>
redisVars  == <<presence, session, marks>>
serverVars == <<rooms, refCount, ctx, currentFile, pc, text, to, outbox,
                presence, session, marks, received, faults, restarts>>

Context == [project : Project, clientId : AnyId, user : User]
Session == [user : User, project : Project, file : File \cup {NoFile}]
Member  == [clientId : AnyId, file : File \cup {NoFile}]

Mark    == [kind : {"editor.cursor", "editor.soft_lock"}, project : Project, file : File, user : User]

Message ==
  [type : {"server.welcome", "heartbeat.ack", "presence.user_joined", "presence.user_left"},
   project : Project, clientId : AnyId]
  \cup [type : {"presence.current_file_changed"} \cup RelayType,
        project : Project, clientId : AnyId, file : File \cup {NoFile}]
  \cup [type : {"presence.roster"}, project : Project, members : SUBSET Member]
  \cup [type : {"none"}]

Parked  == {"new", "idle", "closed"}
Joining == {"sadd", "hmset", "welcome", "roster"}
Closing == {"del", "del_srem", "srem"}
Step    == Parked \cup Joining \cup Closing \cup {"file", "mark", "copy", "send"}

TypeOK ==
  /\ rooms \in [Project -> SUBSET Conn]
  /\ refCount \in [Project -> [User -> Nat]]
  /\ ctx \in [Conn -> Context \cup {NoContext}]
  /\ currentFile \in [Conn -> File \cup {NoFile}]
  /\ pc \in [Conn -> Step]
  /\ text \in [Conn -> Message]
  /\ to \in [Conn -> SUBSET Conn]
  /\ outbox \in [Conn -> Seq(Message)]
  /\ presence \in [Project -> SUBSET User]
  /\ session \in [AnyId -> Session \cup {NoSession}]
  /\ marks \in SUBSET Mark
  /\ received \in Nat
  /\ faults \in Nat
  /\ restarts \in Nat

Init ==
  /\ rooms = [p \in Project |-> {}]
  /\ refCount = [p \in Project |-> [u \in User |-> 0]]
  /\ ctx = [c \in Conn |-> NoContext]
  /\ currentFile = [c \in Conn |-> NoFile]
  /\ pc = [c \in Conn |-> "new"]
  /\ text = [c \in Conn |-> [type |-> "none"]]
  /\ to = [c \in Conn |-> {}]
  /\ outbox = [c \in Conn |-> <<>>]
  /\ presence = [p \in Project |-> {}]
  /\ session = [k \in AnyId |-> NoSession]
  /\ marks = {}
  /\ received = 0
  /\ faults = 0
  /\ restarts = 0

-----------------------------------------------------------------------------
(***************************************************************************)
(* Helpers.                                                                *)
(***************************************************************************)
\* The loop of c is between two callbacks.
LoopIdle(c) == \A d \in Conn : LoopOf[d] = LoopOf[c] => pc[d] \in Parked

Goto(c, step) == pc' = [pc EXCEPT ![c] = step]

\* What follows a Redis command of the running callback.
AfterRedis == [sadd |-> "hmset", hmset |-> "welcome", file |-> "copy", mark |-> "copy",
               del |-> "copy", del_srem |-> "srem", srem |-> "copy"]

Send(c, m) == outbox' = [outbox EXCEPT ![c] = Append(@, m)]

\* userJoinedPayload, userLeftPayload, welcomePayload and the heartbeat's answer.
Payload(c, type) ==
  [type |-> type, project |-> ctx[c].project, clientId |-> ctx[c].clientId]

\* A message about a file, stamped with the sender's own identity.
FilePayload(c, type, f) ==
  [type |-> type, project |-> ctx[c].project, clientId |-> ctx[c].clientId, file |-> f]

RoomIds(p) == {ctx[d].clientId : d \in rooms[p]}

\* ensureDistinctClientId: the requested id, or, on a clash with a member of
\* the room, the first guest id drawn that no member has.
DistinctClientIds(p, requested) ==
  IF requested \in RoomIds(p) THEN GuestId \ RoomIds(p) ELSE {requested}

\* addMember, and removeMemberByConn, which also drops an empty room.
AddMember(p, c) == [rooms EXCEPT ![p] = @ \cup {c}]

RemoveMember(p, c) == [rooms EXCEPT ![p] = @ \ {c}]

\* g_userPresenceRefCount when a connection closes: the entry counts down and
\* disappears at 0; an absent entry stays absent.
\* Faulty variant: the last reference is never given back.
KeepLastReference(n) == IF n > 1 THEN n - 1 ELSE n

GiveBack(n) == IF n > 0 THEN n - 1 ELSE 0

\* shouldAddPresence: n is the count after it was raised.
\* Faulty variant: the second connection adds the user.
SecondConnection(n) == n = 2

FirstConnection(n) == n = 1

\* shouldRemovePresence: n is the count before it is given back.
\* Faulty variant: any close removes the user.
AnyConnection(n) == n >= 1

LastConnection(n) == n = 1

\* The connections broadcastToRoom copies under the lock, but the excepted one.
Recipients(c) == rooms[ctx[c].project] \ {c}

\* WebSocketConnection::disconnected of a connection copied from a room: its
\* loop has seen the close, and the close handler has taken it out of the room.
Disconnected(d) == d \notin rooms[ctx[d].project]

\* rosterSnapshotStringUnderLock, over the given room.
RosterOf(p, members, context, file) ==
  [type |-> "presence.roster", project |-> p,
   members |-> {[clientId |-> context[d].clientId, file |-> file[d]] : d \in members}]

-----------------------------------------------------------------------------
(***************************************************************************)
(* handleNewConnection.                                                    *)
(***************************************************************************)
\* No project id in the path, or a token that names no user: the connection
\* is shut down without a context, and its later callbacks return at once.
RefuseConnection(c) ==
  /\ pc[c] = "new" /\ LoopIdle(c)
  /\ Goto(c, "closed")
  /\ UNCHANGED <<roomVars, redisVars, text, to, outbox, received, faults, restarts>>

\* Lines 283-297, under the lock: a distinct client id, the member, the
\* reference count of the user and the roster.
NewConnection(c, p, u, requested) ==
  /\ pc[c] = "new" /\ LoopIdle(c)
  /\ \E id \in DistinctClientIds(p, requested) :
       ctx' = [ctx EXCEPT ![c] = [project |-> p, clientId |-> id, user |-> u]]
  /\ rooms' = AddMember(p, c)
  /\ refCount' = [refCount EXCEPT ![p][u] = @ + 1]
  /\ currentFile' = [currentFile EXCEPT ![c] = NoFile]
  /\ text' = [text EXCEPT ![c] = RosterOf(p, rooms'[p], ctx', currentFile')]
  /\ Goto(c, IF FirstConnection(refCount'[p][u]) THEN "sadd" ELSE "hmset")
  /\ UNCHANGED <<redisVars, to, outbox, received, faults, restarts>>

\* redisPresenceUserJoin: SADD.
PresenceUserJoin(c) ==
  /\ pc[c] = "sadd"
  /\ presence' = [presence EXCEPT ![ctx[c].project] = @ \cup {ctx[c].user}]
  /\ Goto(c, AfterRedis[pc[c]])
  /\ UNCHANGED <<roomVars, session, marks, text, to, outbox, received, faults, restarts>>

\* redisSessionSet: HMSET and EXPIRE, by a new connection and by
\* presence.current_file.
SessionSet(c) ==
  /\ pc[c] \in {"hmset", "file"}
  /\ session' = [session EXCEPT ![ctx[c].clientId] =
        [user |-> ctx[c].user, project |-> ctx[c].project, file |-> currentFile[c]]]
  /\ Goto(c, AfterRedis[pc[c]])
  /\ UNCHANGED <<roomVars, presence, marks, text, to, outbox, received, faults, restarts>>

SendWelcome(c) ==
  /\ pc[c] = "welcome"
  /\ Send(c, Payload(c, "server.welcome"))
  /\ Goto(c, "roster")
  /\ UNCHANGED <<roomVars, redisVars, text, to, received, faults, restarts>>

SendRoster(c) ==
  /\ pc[c] = "roster"
  /\ Send(c, text[c])
  /\ text' = [text EXCEPT ![c] = Payload(c, "presence.user_joined")]
  /\ Goto(c, "copy")
  /\ UNCHANGED <<roomVars, redisVars, to, received, faults, restarts>>

-----------------------------------------------------------------------------
(***************************************************************************)
(* broadcastToRoom: copy the room under the lock, then send to each copied *)
(* connection but the excepted one and those disconnected meanwhile.       *)
(***************************************************************************)
\* The callback ends; the one that broadcast user_left was the last of its
\* connection.
Return(c) == Goto(c, IF text[c].type = "presence.user_left" THEN "closed" ELSE "idle")

CopyRoom(c) ==
  /\ pc[c] = "copy"
  /\ to' = [to EXCEPT ![c] = Recipients(c)]
  /\ IF to'[c] = {} THEN Return(c) ELSE Goto(c, "send")
  /\ UNCHANGED <<roomVars, redisVars, text, outbox, received, faults, restarts>>

SendToMember(c, d) ==
  /\ pc[c] = "send" /\ d \in to[c]
  /\ to' = [to EXCEPT ![c] = @ \ {d}]
  /\ IF Disconnected(d) THEN UNCHANGED outbox ELSE Send(d, text[c])
  /\ IF to'[c] = {} THEN Return(c) ELSE UNCHANGED pc
  /\ UNCHANGED <<roomVars, redisVars, text, received, faults, restarts>>

-----------------------------------------------------------------------------
(***************************************************************************)
(* handleNewMessage.                                                       *)
(***************************************************************************)
TakeMessage(c) ==
  /\ pc[c] = "idle" /\ LoopIdle(c)
  /\ received < MaxMessages
  /\ received' = received + 1

Heartbeat(c) ==
  /\ TakeMessage(c)
  /\ Send(c, Payload(c, "heartbeat.ack"))
  /\ UNCHANGED <<roomVars, redisVars, pc, text, to, faults, restarts>>

\* presence.current_file: the member's file under the lock, then the session
\* hash (SessionSet) and the broadcast.
CurrentFile(c, f) ==
  /\ TakeMessage(c)
  /\ currentFile' = [currentFile EXCEPT ![c] = f]
  /\ text' = [text EXCEPT ![c] = FilePayload(c, "presence.current_file_changed", f)]
  /\ Goto(c, "file")
  /\ UNCHANGED <<rooms, refCount, ctx, redisVars, to, outbox, faults, restarts>>

\* editor.cursor, editor.patch, editor.soft_lock, collab.file_saved and
\* presence.join are relayed; the first and the third, when they name a file,
\* are also kept in Redis (MarkSet).
Relay(c, type, f) ==
  /\ TakeMessage(c)
  /\ text' = [text EXCEPT ![c] = FilePayload(c, type, f)]
  /\ Goto(c, IF type \in {"editor.cursor", "editor.soft_lock"} /\ f # NoFile THEN "mark" ELSE "copy")
  /\ UNCHANGED <<roomVars, redisVars, to, outbox, faults, restarts>>

\* redisCursorSet and redisSoftLockSet: SET and EXPIRE.
MarkSet(c) ==
  /\ pc[c] = "mark"
  /\ marks' = marks \cup {[kind |-> text[c].type, project |-> ctx[c].project,
                          file |-> text[c].file, user |-> ctx[c].user]}
  /\ Goto(c, AfterRedis[pc[c]])
  /\ UNCHANGED <<roomVars, presence, session, text, to, outbox, received, faults, restarts>>

-----------------------------------------------------------------------------
(***************************************************************************)
(* handleConnectionClosed.                                                 *)
(***************************************************************************)
\* Lines 443-456, under the lock: the member leaves its room and gives back
\* its reference.  Nothing sent to the connection is read any more.
ConnectionClosed(c) ==
  LET p == ctx[c].project
      u == ctx[c].user
  IN /\ pc[c] = "idle" /\ LoopIdle(c)
     /\ rooms' = RemoveMember(p, c)
     /\ refCount' = [refCount EXCEPT ![p][u] = GiveBack(@)]
     /\ Goto(c, IF LastConnection(refCount[p][u]) THEN "del_srem" ELSE "del")
     /\ text' = [text EXCEPT ![c] = Payload(c, "presence.user_left")]
     /\ outbox' = [outbox EXCEPT ![c] = <<>>]
     /\ UNCHANGED <<ctx, currentFile, redisVars, to, received, faults, restarts>>

\* redisSessionClear: DEL.
\* Faulty variant: the key is left to its 900 s.
SessionLeft(c) ==
  /\ pc[c] \in {"del", "del_srem"}
  /\ Goto(c, AfterRedis[pc[c]])
  /\ UNCHANGED <<roomVars, redisVars, text, to, outbox, received, faults, restarts>>

SessionClear(c) ==
  /\ pc[c] \in {"del", "del_srem"}
  /\ session' = [session EXCEPT ![ctx[c].clientId] = NoSession]
  /\ Goto(c, AfterRedis[pc[c]])
  /\ UNCHANGED <<roomVars, presence, marks, text, to, outbox, received, faults, restarts>>

\* redisPresenceUserLeave: SREM.
PresenceUserLeave(c) ==
  /\ pc[c] = "srem"
  /\ presence' = [presence EXCEPT ![ctx[c].project] = @ \ {ctx[c].user}]
  /\ Goto(c, AfterRedis[pc[c]])
  /\ UNCHANGED <<roomVars, session, marks, text, to, outbox, received, faults, restarts>>

\* A Redis command that throws, or has no client to run on, is skipped.
RedisFails(c) ==
  /\ pc[c] \in DOMAIN AfterRedis
  /\ faults < MaxFaults
  /\ faults' = faults + 1
  /\ Goto(c, AfterRedis[pc[c]])
  /\ UNCHANGED <<roomVars, redisVars, text, to, outbox, received, restarts>>

-----------------------------------------------------------------------------
(***************************************************************************)
(* The world around the handlers.                                          *)
(***************************************************************************)
\* The 900 s of EXPIRE pass without another HMSET of this key.
SessionExpires(k) ==
  /\ session[k] # NoSession
  /\ session' = [session EXCEPT ![k] = NoSession]
  /\ UNCHANGED <<roomVars, presence, marks, pc, text, to, outbox, received, faults, restarts>>

\* The 120 s of a cursor or the 90 s of a soft lock pass.
MarkExpires(m) ==
  /\ marks' = marks \ {m}
  /\ UNCHANGED <<roomVars, presence, session, pc, text, to, outbox, received, faults, restarts>>

\* The process ends at any point and starts again: the memory and the
\* connections are gone, what Redis holds stays.
ServerRestart ==
  /\ restarts < MaxRestarts
  /\ restarts' = restarts + 1
  /\ rooms' = [p \in Project |-> {}]
  /\ refCount' = [p \in Project |-> [u \in User |-> 0]]
  /\ pc' = [c \in Conn |-> IF pc[c] = "new" THEN "new" ELSE "closed"]
  /\ outbox' = [c \in Conn |-> <<>>]
  /\ UNCHANGED <<ctx, currentFile, redisVars, text, to, received, faults>>

Handler(c) ==
  \/ PresenceUserJoin(c)
  \/ SessionSet(c)
  \/ SendWelcome(c)
  \/ SendRoster(c)
  \/ MarkSet(c)
  \/ SessionClear(c)
  \/ PresenceUserLeave(c)
  \/ RedisFails(c)
  \/ CopyRoom(c)
  \/ \E d \in Conn : SendToMember(c, d)

Callback(c) ==
  \/ RefuseConnection(c)
  \/ \E p \in Project, u \in User, id \in ClientId : NewConnection(c, p, u, id)
  \/ Heartbeat(c)
  \/ \E f \in File \cup {NoFile} : CurrentFile(c, f)
  \/ \E type \in RelayType, f \in File \cup {NoFile} : Relay(c, type, f)
  \/ ConnectionClosed(c)

Next ==
  \/ \E c \in Conn : Callback(c) \/ Handler(c)
  \/ \E k \in AnyId : SessionExpires(k)
  \/ \E m \in marks : MarkExpires(m)
  \/ ServerRestart

Spec == Init /\ [][Next]_serverVars

-----------------------------------------------------------------------------
(***************************************************************************)
(* Correctness.                                                            *)
(***************************************************************************)
InRoom(c) ==
  \/ pc[c] \in {"idle", "file", "mark"} \cup Joining
  \/ pc[c] \in {"copy", "send"} /\ text[c].type # "presence.user_left"

Quiet == \A c \in Conn : pc[c] \in Parked

\* Who is online in a project, by the members of its room.
OnlineUsers(p) == {ctx[c].user : c \in rooms[p]}

\* A connection is in the room of its own project exactly while it is open,
\* and in no other room: no handler leaves a dead connection behind.
MembersAreOpen ==
  \A c \in Conn, p \in Project :
    c \in rooms[p] <=> InRoom(c) /\ ctx[c].project = p

\* The reference count of a user in a project, which decides the SADD and the
\* SREM, is the number of the user's connections in the room.
RefCountMatchesRoom ==
  \A p \in Project, u \in User :
    refCount[p][u] = Cardinality({c \in rooms[p] : ctx[c].user = u})

\* Two members of a room never share a client id, also when both asked for
\* the same one.
DistinctInRoom ==
  \A p \in Project : \A c, d \in rooms[p] :
    ctx[c].clientId = ctx[d].clientId => c = d

\* Nothing said in one project's room reaches a connection of another.
DeliveredInProject ==
  \A c \in Conn : \A i \in DOMAIN outbox[c] : outbox[c][i].project = ctx[c].project

\* Once the running callbacks are done, the presence set in Redis is exactly
\* the users with a connection in the room.
PresenceSettled ==
  Quiet => \A p \in Project : presence[p] = OnlineUsers(p)

\* A restart forgets who was online, so the set may keep users who are gone,
\* but it never misses one who is there.
OnlineUsersInPresence ==
  Quiet => \A p \in Project : OnlineUsers(p) \subseteq presence[p]

\* A session key that is in Redis describes a member who is connected now,
\* with the project and the file the room has for it.
SessionsDescribeMembers ==
  Quiet => \A k \in AnyId : session[k] # NoSession =>
    \E c \in rooms[session[k].project] :
      /\ ctx[c].clientId = k
      /\ ctx[c].user = session[k].user
      /\ currentFile[c] = session[k].file

=============================================================================
