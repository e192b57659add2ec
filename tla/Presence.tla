------------------------------ MODULE Presence ------------------------------
(***************************************************************************)
(* Who is shown as online in a room (socket/roomHandler.js): the sockets   *)
(* of the Socket.IO room, and the presence entries the room's list is made *)
(* of, which room:join adds and sweeps and room:leave removes, in Redis or *)
(* in the process's memory.  The list that is broadcast is a function of   *)
(* both and is not kept.                                                   *)
(*                                                                         *)
(* Commands of one Redis connection run in the order they were issued.  A  *)
(* socket has one room:join at a time, and one room:leave.                 *)
(***************************************************************************)
EXTENDS Naturals, FiniteSets

CONSTANTS Sockets,    \* the connections of the browsers
          MaxMishaps  \* bound: Redis coming or going, expiries, lost connections, failures

ASSUME PresenceAssumption == MaxMishaps \in Nat

VARIABLES
  up,       \* the sockets that are connected
  inPage,   \* the sockets whose browser shows the room
  member,   \* the sockets in the Socket.IO room
  join,     \* join[k]: the room:join handler of k: its step and what it has read
  leaving,  \* the sockets whose room:leave still has to remove the entry
  entries,  \* entries[s]: the presence entries in store s
  ready,    \* isRedisReady()
  swept,    \* sockets in the room whose entry was taken by another's doing (history)
  mishaps   \* mishaps so far (bound)

presenceVars == <<up, inPage, member, join, leaving, entries, ready, swept, mishaps>>

JoinStep == {"idle", "find", "create", "refind", "room", "sockets",
             "hset", "hgetall", "hdel"}
NoJoin == [step |-> "idle", active |-> {}, listed |-> {}]
Stores == {"redis", "memory"}
Current == IF ready THEN "redis" ELSE "memory"

PresenceTypeOK ==
  /\ up \subseteq Sockets /\ inPage \subseteq Sockets /\ member \subseteq Sockets
  /\ join \in [Sockets -> [step : JoinStep, active : SUBSET Sockets,
                           listed : SUBSET Sockets]]
  /\ \A k \in Sockets : join[k].listed # {} => join[k].step = "hdel"
  /\ leaving \subseteq Sockets /\ swept \subseteq Sockets
  /\ entries \in [Stores -> SUBSET Sockets]
  /\ ready \in BOOLEAN /\ mishaps \in 0..MaxMishaps

PresenceInit ==
  /\ up = Sockets /\ inPage = {} /\ member = {}
  /\ join = [k \in Sockets |-> NoJoin]
  /\ leaving = {} /\ swept = {}
  /\ entries = [s \in Stores |-> {}]
  /\ ready \in BOOLEAN /\ mishaps = 0

At(k, step) == join[k].step = step
Mishap == mishaps < MaxMishaps /\ mishaps' = mishaps + 1

-----------------------------------------------------------------------------
(* room:join, past its access check: enters the room, asks for the room's  *)
(* sockets ...                                                             *)
Enter(k) ==
  /\ At(k, "room")
  /\ member' = member \cup {k}
  /\ join' = [join EXCEPT ![k].step = "sockets"]
  /\ UNCHANGED <<up, inPage, leaving, entries, ready, swept, mishaps>>

(* ... gets them (none at all when the request fails) and calls            *)
(* addPresence, which in memory adds and sweeps in the same callback ...   *)
AddPresence(k, active) ==
  /\ At(k, "sockets") /\ k \notin leaving
  /\ IF ready
     THEN /\ join' = [join EXCEPT ![k].step = "hset", ![k].active = active]
          /\ UNCHANGED <<entries, swept>>
     ELSE LET held == entries["memory"] \cup {k}
              stale == IF active = {} THEN {} ELSE held \ active IN
          /\ entries' = [entries EXCEPT !["memory"] = held \ stale]
          /\ swept' = (swept \ {k}) \cup ((stale \cap member) \ {k})
          /\ join' = [join EXCEPT ![k] = NoJoin]
  /\ UNCHANGED <<up, inPage, member, leaving, ready>>

ActiveSocketsEarly(k) == AddPresence(k, member \ {k}) /\ UNCHANGED mishaps

ActiveSockets(k) ==
  \/ AddPresence(k, member) /\ UNCHANGED mishaps
  \/ AddPresence(k, {}) /\ Mishap

(* ... and in Redis sets the entry ...                                     *)
Hset(k) ==
  /\ At(k, "hset") /\ ready
  /\ entries' = [entries EXCEPT !["redis"] = @ \cup {k}]
  /\ swept' = swept \ {k}
  /\ join' = [join EXCEPT ![k].step = "hgetall"]
  /\ UNCHANGED <<up, inPage, member, leaving, ready, mishaps>>

(* ... reads all, and deletes those whose socket was not in the room when  *)
(* it asked.                                                               *)
Hgetall(k) ==
  /\ At(k, "hgetall") /\ ready
  /\ LET stale == entries["redis"] \ join[k].active IN
       join' = IF join[k].active = {} \/ stale = {}
               THEN [join EXCEPT ![k] = NoJoin]
               ELSE [join EXCEPT ![k].step = "hdel", ![k].listed = stale]
  /\ UNCHANGED <<up, inPage, member, leaving, entries, ready, swept, mishaps>>

Hdel(k) ==
  /\ At(k, "hdel") /\ ready
  /\ entries' = [entries EXCEPT !["redis"] = @ \ join[k].listed]
  /\ swept' = swept \cup ((join[k].listed \cap member) \ {k})
  /\ join' = [join EXCEPT ![k] = NoJoin]
  /\ UNCHANGED <<up, inPage, member, leaving, ready, mishaps>>

(* A command that Redis does not answer ends the handler, before sync:full *)
(* and presence:update; the socket stays in the room.                      *)
JoinThrows(k) ==
  /\ join[k].step \in {"hset", "hgetall", "hdel"} /\ ~ready
  /\ join' = [join EXCEPT ![k] = NoJoin]
  /\ UNCHANGED <<up, inPage, member, leaving, entries, ready, swept, mishaps>>

(* room:leave, sent when the page is left or on room:kicked: out of the    *)
(* room at once, and out of the entries ...                                *)
Leave(k) ==
  /\ k \in inPage /\ k \notin leaving
  /\ inPage' = inPage \ {k} /\ member' = member \ {k}
  /\ IF ready
     THEN leaving' = leaving \cup {k} /\ UNCHANGED entries
     ELSE entries' = [entries EXCEPT !["memory"] = @ \ {k}] /\ UNCHANGED leaving
  /\ UNCHANGED <<up, join, ready, swept, mishaps>>

(* ... where Redis removes it, or does not answer.                         *)
Removed(k) ==
  /\ k \in leaving /\ ~At(k, "hset")
  /\ leaving' = leaving \ {k}
  /\ entries' = IF ready THEN [entries EXCEPT !["redis"] = @ \ {k}] ELSE entries
  /\ UNCHANGED <<up, inPage, member, join, ready, swept, mishaps>>

(* A connection is lost: the socket is out of its rooms before the         *)
(* disconnect handler looks at them, so nothing else happens; a room:join  *)
(* under way goes on.                                                      *)
Disconnect(k) ==
  /\ k \in up /\ Mishap
  /\ up' = up \ {k} /\ inPage' = inPage \ {k} /\ member' = member \ {k}
  /\ UNCHANGED <<join, leaving, entries, ready, swept>>

(* An hour without a join, and Redis drops the room's entries.             *)
EntriesExpire ==
  /\ entries["redis"] # {} /\ Mishap
  /\ entries' = [entries EXCEPT !["redis"] = {}]
  /\ swept' = swept \cup (entries["redis"] \cap member)
  /\ UNCHANGED <<up, inPage, member, join, leaving, ready>>

(* Redis comes or goes: the process lists from its other store.            *)
RedisChanges ==
  /\ Mishap /\ ready' = ~ready
  /\ swept' = swept \cup (Sockets \ entries[IF ready THEN "memory" ELSE "redis"])
  /\ UNCHANGED <<up, inPage, member, join, leaving, entries>>

Handler(k) ==
  Enter(k) \/ ActiveSockets(k) \/ Hset(k) \/ Hgetall(k) \/ Hdel(k)
    \/ JoinThrows(k) \/ Removed(k)

PresenceStep ==
  \/ \E k \in Sockets : Handler(k) \/ Leave(k) \/ Disconnect(k)
  \/ EntriesExpire \/ RedisChanges

-----------------------------------------------------------------------------
(* Whoever is in the room, and whose handlers have ended, has an entry,    *)
(* unless it entered it in the other store (Redis came or went), the       *)
(* entries expired, or another join swept it away, having asked for the    *)
(* room's sockets before this one entered.                                 *)
(* Two joins, a leave and a rejoin overlap here in every order.            *)
MemberIsListed ==
  \A k \in (member \cap inPage) \ swept :
    At(k, "idle") /\ k \notin leaving => k \in entries[Current]
=============================================================================
