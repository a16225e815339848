------------------------------ MODULE PresenceSet ------------------------------
(***************************************************************************)
(* The presence set of Redis, composed with the rooms of the server: which *)
(* SADD or SREM the server decided on last for a user, and which of them   *)
(* Redis carried out last.                                                 *)
(*                                                                         *)
(* The server decides under g_roomMutex and sends the command after it has *)
(* released it, so two loops may send theirs in either order; a command    *)
(* may also fail, or be lost with the process.  The two variables of this  *)
(* module only record what the steps of CollabRoom do.                     *)
(***************************************************************************)
EXTENDS CollabRoom

VARIABLES
  latest,  \* the command decided on last, per project and user
  carried  \* the command carried out last, per project and user

commandVars == <<latest, carried>>
setVars     == <<serverVars, commandVars>>

\* A connection decides on at most one SADD and one SREM in its life.
SAdd(c) == [does |-> "sadd", by |-> c]
SRem(c) == [does |-> "srem", by |-> c]

Nothing   == [does |-> "nothing"]    \* no command yet
Forgotten == [does |-> "forgotten"]  \* a restart forgot the user's connections

InitSet ==
  /\ Init
  /\ latest = [p \in Project |-> [u \in User |-> Nothing]]
  /\ carried = [p \in Project |-> [u \in User |-> Nothing]]

-----------------------------------------------------------------------------
\* shouldAddPresence: the user's first connection decides on an SADD.
DecideOnJoin(c, p, u, id) ==
  /\ NewConnection(c, p, u, id)
  /\ latest' = [latest EXCEPT ![p][u] = IF pc'[c] = "sadd" THEN SAdd(c) ELSE @]
  /\ UNCHANGED carried

\* shouldRemovePresence: the close of the user's last one decides on an SREM.
DecideOnLeave(c) ==
  /\ ConnectionClosed(c)
  /\ latest' = [latest EXCEPT ![ctx[c].project][ctx[c].user] = IF pc'[c] = "del_srem" THEN SRem(c) ELSE @]
  /\ UNCHANGED carried

CarryOut(c) ==
  /\ \/ PresenceUserJoin(c) /\ carried' = [carried EXCEPT ![ctx[c].project][ctx[c].user] = SAdd(c)]
     \/ PresenceUserLeave(c) /\ carried' = [carried EXCEPT ![ctx[c].project][ctx[c].user] = SRem(c)]
  /\ UNCHANGED latest

\* A restart forgets whoever was connected; Redis keeps what it has.
Forget ==
  /\ ServerRestart
  /\ latest' = [p \in Project |-> [u \in User |-> IF refCount[p][u] > 0 THEN Forgotten ELSE latest[p][u]]]
  /\ UNCHANGED carried

\* Every other step, a command that fails among them.
OtherStep ==
  /\ \/ \E c \in Conn :
          \/ RefuseConnection(c)
          \/ SessionSet(c) \/ SendWelcome(c) \/ SendRoster(c)
          \/ CopyRoom(c) \/ \E d \in Conn : SendToMember(c, d)
          \/ Heartbeat(c)
          \/ \E f \in File \cup {NoFile} : CurrentFile(c, f)
          \/ \E type \in RelayType, f \in File \cup {NoFile} : Relay(c, type, f)
          \/ MarkSet(c)
          \/ SessionClear(c)
          \/ RedisFails(c)
     \/ \E k \in AnyId : SessionExpires(k)
     \/ \E m \in marks : MarkExpires(m)
  /\ UNCHANGED commandVars

NextSet ==
  \/ \E c \in Conn :
       \/ \E p \in Project, u \in User, id \in ClientId : DecideOnJoin(c, p, u, id)
       \/ DecideOnLeave(c)
       \/ CarryOut(c)
  \/ Forget
  \/ OtherStep

SpecSet == InitSet /\ [][NextSet]_setVars

-----------------------------------------------------------------------------
\* When the SADD or SREM that the server decided on last for a user is also the
\* one that Redis carried out last, the set has the user exactly if one of the
\* user's connections is in the room.  So the set is wrong about a user only
\* while that command is on its way, or when an older one of another loop
\* overtook it, when it failed, or when a restart lost it or forgot the user's
\* connections; and it is right again once a later command has been carried out.
PresenceFollows ==
  \A p \in Project, u \in User :
    carried[p][u] = latest[p][u] => (u \in presence[p] <=> u \in OnlineUsers(p))

=============================================================================
