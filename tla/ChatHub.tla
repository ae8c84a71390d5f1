------------------------------ MODULE ChatHub -------------------------------
(***************************************************************************)
(* pkg/wschat/hub.go: the chat hub of the HTTP service.  Each connection   *)
(* has a read pump that runs the handlers one frame after the other, a     *)
(* write pump that empties a bounded send queue, and now and then a        *)
(* goroutine that removes it from its rooms because the queue was full.    *)
(* The hub's lock covers the room maps only; a broadcast copies the        *)
(* members under the lock and sends without it.                            *)
(*                                                                         *)
(* A handler takes one locked section, Redis command, query or send per    *)
(* step.  The n-th comment is the number n; its msgId is msgId[n].  Of a   *)
(* send queue the model keeps the length, and which comments were put in.  *)
(***************************************************************************)
EXTENDS Naturals, Sequences, FiniteSets, FiniteSetsExt, Functions

CONSTANTS Clients, Rooms, Users,
          Ops,          \* the events of a run: frames and what happens around the hub
          Faults,       \* the dependencies that may fail
          QueueCap,     \* defaultSendQueueSize
          HistoryLim,   \* 50
          RatePerMin,   \* 60
          MaxEvents, MaxMsgs, MaxBoots    \* bounds: events, comments, RPC starts

ASSUME ChatHubAssumption ==
    /\ Ops \subseteq {"heart", "login", "guest", "resume", "logout", "enter", "leave", "comment",
                      "blockword", "like", "disconnect", "live", "minute", "expire"}
    /\ Faults \subseteq {"redis", "db"}
    /\ QueueCap \in Nat \ {0} /\ HistoryLim \in Nat \ {0} /\ RatePerMin \in Nat
    /\ MaxEvents \in Nat /\ MaxMsgs \in Nat /\ MaxBoots \in Nat

VARIABLES conn,      \* the connection: none, open or closed
          who,       \* the session state: none, guest or a user
          members,   \* Hub.rooms
          rooms,     \* Client.rooms
          muted,     \* Client.mutedRooms
          sends,     \* how many entries Client.sendTimes has
          queue,     \* the length of Client.send
          got,       \* the comments put in Client.send
          full,      \* clients whose queue has been full for a send
          slow,      \* clients that a pending goroutine removes from their rooms
          live,      \* the rooms with LiveStatus 1
          msgId,     \* the msgId of every comment
          list,      \* the Redis list of a room, newest first
          table,     \* chat_room_message: the comments stored
          counter,   \* yuyan:chat:message_id
          entered,   \* history: the rooms that a client entered and has not left since
          replayed,  \* history: the rooms whose history a client was shown, and from where
          events,    \* how many frames were read and other events happened
          boot,      \* bootChatMsgIDCounter of the RPC service: MAX read, starts left
          pc, job    \* the read pump: where it is, and the handler's locals

hubVars == <<members, rooms>>
sendVars == <<queue, got, full>>
storeVars == <<msgId, list, table, counter, boot>>
clientVars == <<conn, who, muted, sends>>
vars == <<conn, who, members, rooms, muted, sends, queue, got, full, slow, live, entered,
          replayed, events, msgId, list, table, counter, boot, pc, job>>

NoJob == [op |-> "none", room |-> "none", first |-> FALSE, msg |-> 0, to |-> {}, vals |-> << >>]
Outcomes(dependency) == IF dependency \in Faults THEN BOOLEAN ELSE {TRUE}

Init ==
    /\ conn = [c \in Clients |-> "none"]
    /\ who = [c \in Clients |-> "none"]
    /\ members = [r \in Rooms |-> {}]
    /\ rooms = [c \in Clients |-> {}]
    /\ muted = [c \in Clients |-> {}]
    /\ sends = [c \in Clients |-> 0]
    /\ queue = [c \in Clients |-> 0]
    /\ got = [c \in Clients |-> {}]
    /\ full = {}
    /\ slow = {}
    /\ live = Rooms
    /\ entered = [c \in Clients |-> {}]
    /\ replayed = [c \in Clients |-> {}]
    /\ events = 0
    /\ msgId = << >>
    /\ list = [r \in Rooms |-> << >>]
    /\ table = {}
    /\ counter = 0
    /\ boot = [max |-> 0, left |-> MaxBoots]
    /\ pc = [c \in Clients |-> "none"]
    /\ job = [c \in Clients |-> NoJob]

\* A frame is read, or something happens around the hub.
Event ==
    /\ events < MaxEvents
    /\ events' = events + 1

Goto(c, label) ==
    /\ pc' = [pc EXCEPT ![c] = label]
    /\ UNCHANGED job

Finish(c) ==
    /\ pc' = [pc EXCEPT ![c] = "idle"]
    /\ job' = [job EXCEPT ![c] = NoJob]

\* Mutant: a full queue blocks the sender.
SendBinary_Blocks(c) ==
    /\ queue[c] < QueueCap
    /\ queue' = [queue EXCEPT ![c] = @ + 1]
    /\ UNCHANGED <<got, full>>

\* sendBinary, sendError, sendSystemNotice: a full queue drops the frame.
SendBinary(c) ==
    /\ IF queue[c] < QueueCap
       THEN queue' = [queue EXCEPT ![c] = @ + 1] /\ UNCHANGED full
       ELSE full' = full \cup {c} /\ UNCHANGED queue
    /\ UNCHANGED got

-----------------------------------------------------------------------------
(* The maps, each operation under the hub's lock                           *)

JoinRoom(r, c) ==
    /\ members' = [members EXCEPT ![r] = @ \cup {c}]
    /\ rooms' = [rooms EXCEPT ![c] = @ \cup {r}]

\* Mutant: the client's own map is forgotten.
LeaveRoom_KeepsClient(r, c) ==
    /\ members' = [members EXCEPT ![r] = @ \ {c}]
    /\ UNCHANGED rooms

LeaveRoom(r, c) ==
    /\ members' = [members EXCEPT ![r] = @ \ {c}]
    /\ rooms' = [rooms EXCEPT ![c] = @ \ {r}]

UnregisterAll(c) ==
    /\ members' = [r \in Rooms |-> IF r \in rooms[c] THEN members[r] \ {c} ELSE members[r]]
    /\ rooms' = [rooms EXCEPT ![c] = {}]

-----------------------------------------------------------------------------
(* Connections                                                             *)

ServeWS(c) ==
    /\ conn[c] = "none"
    /\ conn' = [conn EXCEPT ![c] = "open"]
    /\ pc' = [pc EXCEPT ![c] = "idle"]
    /\ UNCHANGED <<who, muted, sends, hubVars, sendVars, slow, live, replayed, entered, events,
                   storeVars, job>>

\* The peer goes away, a write or the read deadline fails.
Disconnect(c) ==
    /\ "disconnect" \in Ops
    /\ conn[c] = "open"
    /\ conn' = [conn EXCEPT ![c] = "closed"]
    /\ UNCHANGED <<who, muted, sends, hubVars, sendVars, slow, live, replayed, entered, events,
                   storeVars, pc, job>>

\* Mutant: the read pump ends without the deferred call.
ReadFails_StaysInRooms(c) ==
    /\ pc[c] = "idle"
    /\ conn[c] = "closed"
    /\ pc' = [pc EXCEPT ![c] = "done"]
    /\ UNCHANGED <<clientVars, hubVars, sendVars, slow, live, replayed, entered, events,
                   storeVars, job>>

\* ReadMessage fails on a closed connection; the deferred function runs.
ReadFails(c) ==
    /\ pc[c] = "idle"
    /\ conn[c] = "closed"
    /\ UnregisterAll(c)
    /\ entered' = [entered EXCEPT ![c] = {}]
    /\ pc' = [pc EXCEPT ![c] = "done"]
    /\ UNCHANGED <<clientVars, sendVars, slow, live, replayed, events, storeVars, job>>

\* writePump sends the next frame.
Write(c) ==
    /\ conn[c] = "open"
    /\ queue[c] > 0
    /\ queue' = [queue EXCEPT ![c] = @ - 1]
    /\ UNCHANGED <<clientVars, hubVars, got, full, slow, live, replayed, entered, events,
                   storeVars, pc, job>>

\* The goroutine that broadcast started for a full queue.
DropSlow(c) ==
    /\ c \in slow
    /\ slow' = slow \ {c}
    /\ UnregisterAll(c)
    /\ UNCHANGED <<clientVars, sendVars, live, replayed, entered, events, storeVars, pc, job>>

-----------------------------------------------------------------------------
(* Handlers of one step: readPump has read a frame                         *)

Reading(c, op) ==
    /\ pc[c] = "idle" /\ conn[c] = "open" /\ op \in Ops
    /\ Event

\* Heartbeats, refusals (no session, no room, not in the room, guest, muted,
\* banned, unknown opcode) and failed logins only send a frame.
Respond(c) ==
    /\ Reading(c, "heart")
    /\ SendBinary(c)
    /\ UNCHANGED <<clientVars, hubVars, slow, live, replayed, entered, storeVars, pc, job>>

\* handleLogin with a session that exists, of a guest or of user u.
HandleLogin(c, u) ==
    /\ Reading(c, "login")
    /\ who' = [who EXCEPT ![c] = u]
    /\ SendBinary(c)
    /\ UNCHANGED <<conn, muted, sends, hubVars, slow, live, replayed, entered, storeVars, pc, job>>

HandleSessionResume(c, u) ==
    /\ Reading(c, "resume")
    /\ who[c] # "none"
    /\ who' = [who EXCEPT ![c] = u]
    /\ SendBinary(c)
    /\ UNCHANGED <<conn, muted, sends, hubVars, slow, live, replayed, entered, storeVars, pc, job>>

HandleLogout(c) ==
    /\ Reading(c, "logout")
    /\ SendBinary(c)
    /\ UnregisterAll(c)
    /\ entered' = [entered EXCEPT ![c] = {}]
    /\ conn' = [conn EXCEPT ![c] = "closed"]
    /\ UNCHANGED <<who, muted, sends, slow, live, replayed, storeVars, pc, job>>

-----------------------------------------------------------------------------
(* broadcast, the tail of several handlers                                 *)

\* What the handler does after a broadcast to its room.
AfterBroadcast(c) ==
    IF job[c].op = "enter" THEN IF job[c].first THEN "notice" ELSE "replay"
    ELSE IF job[c].op = "leave" THEN "left" ELSE "idle"

EndBroadcast(c) ==
    IF AfterBroadcast(c) = "idle"
    THEN Finish(c)
    ELSE /\ pc' = [pc EXCEPT ![c] = AfterBroadcast(c)]
         /\ job' = [job EXCEPT ![c].to = {}]

\* The members are copied under the read lock.
Snapshot(c) ==
    /\ pc[c] = "snapshot"
    /\ IF members[job[c].room] = {}
       THEN EndBroadcast(c)
       ELSE /\ pc' = [pc EXCEPT ![c] = "send"]
            /\ job' = [job EXCEPT ![c].to = members[job[c].room]]
    /\ UNCHANGED <<clientVars, hubVars, sendVars, slow, live, replayed, entered, events, storeVars>>

\* Mutant: the goroutine removes the sender, not the slow member.
SendTo_DropsSender(c, d) ==
    /\ pc[c] = "send"
    /\ d \in job[c].to
    /\ IF queue[d] < QueueCap
       THEN /\ queue' = [queue EXCEPT ![d] = @ + 1]
            /\ got' = [got EXCEPT ![d] = @ \cup ({job[c].msg} \ {0})]
            /\ UNCHANGED <<full, slow>>
       ELSE /\ full' = full \cup {d}
            /\ slow' = slow \cup {c}
            /\ UNCHANGED <<queue, got>>
    /\ IF job[c].to = {d}
       THEN EndBroadcast(c)
       ELSE job' = [job EXCEPT ![c].to = @ \ {d}] /\ UNCHANGED pc
    /\ UNCHANGED <<clientVars, hubVars, live, replayed, entered, events, storeVars>>

\* Each member gets the frame, or a goroutine that takes it out of its rooms.
SendTo(c, d) ==
    /\ pc[c] = "send"
    /\ d \in job[c].to
    /\ IF queue[d] < QueueCap
       THEN /\ queue' = [queue EXCEPT ![d] = @ + 1]
            /\ got' = [got EXCEPT ![d] = @ \cup ({job[c].msg} \ {0})]
            /\ UNCHANGED <<full, slow>>
       ELSE /\ full' = full \cup {d}
            /\ slow' = slow \cup {d}
            /\ UNCHANGED <<queue, got>>
    /\ IF job[c].to = {d}
       THEN EndBroadcast(c)
       ELSE job' = [job EXCEPT ![c].to = @ \ {d}] /\ UNCHANGED pc
    /\ UNCHANGED <<clientVars, hubVars, live, replayed, entered, events, storeVars>>

-----------------------------------------------------------------------------
(* handleRoomEnter                                                         *)

\* The live status decides whether the client may speak; a failed query
\* leaves the flag as it is and counts as live.
HandleRoomEnter(c, r, ok) ==
    /\ Reading(c, "enter")
    /\ who[c] # "none"
    /\ LET offline == ok /\ r \notin live
       IN  /\ muted' = [muted EXCEPT ![c] = IF offline THEN @ \cup {r}
                                            ELSE IF ok THEN @ \ {r} ELSE @]
           /\ IF offline THEN SendBinary(c) ELSE UNCHANGED sendVars
           /\ job' = [job EXCEPT ![c] = [NoJob EXCEPT !.op = "enter", !.room = r,
                        !.first = ~ offline /\ who[c] # "guest" /\ r \notin rooms[c]]]
    /\ pc' = [pc EXCEPT ![c] = "join"]
    /\ UNCHANGED <<conn, who, sends, hubVars, slow, live, replayed, entered, storeVars>>

\* joinRoom and the acknowledgement; the viewer count is broadcast next (the
\* number in that frame is left out).
Join(c) ==
    /\ pc[c] = "join"
    /\ JoinRoom(job[c].room, c)
    /\ entered' = [entered EXCEPT ![c] = @ \cup {job[c].room}]
    /\ SendBinary(c)
    /\ Goto(c, "snapshot")
    /\ UNCHANGED <<clientVars, slow, live, replayed, events, storeVars>>

\* broadcastEnterNotice.
Notice(c) ==
    /\ pc[c] = "notice"
    /\ job' = [job EXCEPT ![c].first = FALSE]
    /\ pc' = [pc EXCEPT ![c] = "snapshot"]
    /\ UNCHANGED <<clientVars, hubVars, sendVars, slow, live, replayed, entered, events, storeVars>>

\* LRANGE key 0 historyLim: both ends are included.
Recent(r) == SubSeq(list[r], 1, Min({HistoryLim + 1, Len(list[r])}))

\* ListRecentByRoom: the newest HistoryLim comments of the room ...
Newest(r) ==
    LET stored == {row.msg : row \in {row \in table : row.room = r}}
    IN  {m \in stored : Injection(1..HistoryLim, {n \in stored : n > m}) = {}}

\* ... the last one first.
RecentStored(r) ==
    {s \in UNION {[1..n -> Newest(r)] : n \in 0..HistoryLim} :
        Range(s) = Newest(r) /\ \A i, j \in DOMAIN s : i < j => s[i] > s[j]}

\* history: what the replay was asked of that answered.
Shown(c, r, sources) ==
    replayed' = [replayed EXCEPT ![c] = (@ \ ({r} \X {"list", "table"})) \cup ({r} \X sources)]

\* Mutant: a failed LRANGE is taken for an empty history.
ReplayRead_RedisOnly(c, redisOk, dbOk) ==
    /\ pc[c] = "replay"
    /\ LET r == job[c].room
       IN  /\ job' = [job EXCEPT ![c].vals = IF redisOk THEN Recent(r) ELSE << >>]
           /\ Shown(c, r, IF redisOk THEN {"list"} ELSE {"table"})
    /\ pc' = [pc EXCEPT ![c] = "replaySend"]
    /\ UNCHANGED <<clientVars, hubVars, sendVars, slow, live, entered, events, storeVars>>

\* replayHistory: the Redis list, or the table if that is empty or fails.
ReplayRead(c, redisOk, dbOk) ==
    /\ pc[c] = "replay"
    /\ LET r == job[c].room
           hit == redisOk /\ Recent(r) # << >>
       IN  /\ \E vals \in IF hit THEN {Recent(r)} ELSE IF dbOk THEN RecentStored(r) ELSE {<< >>} :
                 job' = [job EXCEPT ![c].vals = vals]
           /\ Shown(c, r, (IF redisOk THEN {"list"} ELSE {}) \cup
                          (IF dbOk /\ ~ hit THEN {"table"} ELSE {}))
    /\ pc' = [pc EXCEPT ![c] = "replaySend"]
    /\ UNCHANGED <<clientVars, hubVars, sendVars, slow, live, entered, events, storeVars>>

\* From the end, the oldest first, until the queue is full.
ReplaySend(c) ==
    /\ pc[c] = "replaySend"
    /\ LET all == Len(job[c].vals)
           n == Min({all, QueueCap - queue[c]})
       IN  /\ queue' = [queue EXCEPT ![c] = @ + n]
           /\ got' = [got EXCEPT ![c] = @ \cup {job[c].vals[i] : i \in all - n + 1..all}]
           /\ full' = IF n < all THEN full \cup {c} ELSE full
    /\ Finish(c)
    /\ UNCHANGED <<clientVars, hubVars, slow, live, replayed, entered, events, storeVars>>

-----------------------------------------------------------------------------
(* handleRoomLeave, handleLike                                             *)

HandleRoomLeave(c, r) ==
    /\ Reading(c, "leave")
    /\ LeaveRoom(r, c)
    /\ entered' = [entered EXCEPT ![c] = @ \ {r}]
    /\ job' = [job EXCEPT ![c] = [NoJob EXCEPT !.op = "leave", !.room = r]]
    /\ pc' = [pc EXCEPT ![c] = "snapshot"]
    /\ UNCHANGED <<clientVars, sendVars, slow, live, replayed, storeVars>>

Left(c) ==
    /\ pc[c] = "left"
    /\ muted' = [muted EXCEPT ![c] = @ \ {job[c].room}]
    /\ SendBinary(c)
    /\ Finish(c)
    /\ UNCHANGED <<conn, who, sends, hubVars, slow, live, replayed, entered, events, storeVars>>

HandleLike(c, r) ==
    /\ Reading(c, "like")
    /\ who[c] # "none"
    /\ SendBinary(c)
    /\ job' = [job EXCEPT ![c] = [NoJob EXCEPT !.op = "like", !.room = r]]
    /\ pc' = [pc EXCEPT ![c] = "snapshot"]
    /\ UNCHANGED <<clientVars, hubVars, slow, live, replayed, entered, storeVars>>

-----------------------------------------------------------------------------
(* handleComment                                                           *)

\* Up to the rate limit; a comment that the word filter then refuses has used
\* up its place in the window.
HandleComment(c, r, clean) ==
    /\ Reading(c, "comment")
    /\ clean \/ "blockword" \in Ops
    /\ who[c] \in Users
    /\ r \in rooms[c]
    /\ r \notin muted[c]
    /\ sends[c] < RatePerMin
    /\ Len(msgId) + Cardinality({d \in Clients : pc[d] = "incr"}) < MaxMsgs
    /\ sends' = [sends EXCEPT ![c] = @ + 1]
    /\ IF clean
       THEN /\ job' = [job EXCEPT ![c] = [NoJob EXCEPT !.op = "comment", !.room = r]]
            /\ pc' = [pc EXCEPT ![c] = "incr"]
            /\ UNCHANGED sendVars
       ELSE SendBinary(c) /\ UNCHANGED <<pc, job>>
    /\ UNCHANGED <<conn, who, muted, hubVars, slow, live, replayed, entered, storeVars>>

\* A nanosecond time stamp, far above the counter.
UnixNano(n) == 1000 + n

\* INCR, or the clock when Redis fails.
Incr(c, ok) ==
    /\ pc[c] = "incr"
    /\ counter' = IF ok THEN counter + 1 ELSE counter
    /\ msgId' = Append(msgId, IF ok THEN counter + 1 ELSE UnixNano(Len(msgId) + 1))
    /\ job' = [job EXCEPT ![c].msg = Len(msgId) + 1]
    /\ pc' = [pc EXCEPT ![c] = "insert"]
    /\ UNCHANGED <<clientVars, hubVars, sendVars, slow, live, replayed, entered, events, list,
                   table, boot>>

\* INSERT; msgId is the primary key and an error is ignored.
Insert(c, ok) ==
    /\ pc[c] = "insert"
    /\ LET m == job[c].msg
           taken == \E row \in table : msgId[row.msg] = msgId[m]
       IN  table' = IF ok /\ ~ taken THEN table \cup {[msg |-> m, room |-> job[c].room]} ELSE table
    /\ Goto(c, "lpush")
    /\ UNCHANGED <<clientVars, hubVars, sendVars, slow, live, replayed, entered, events, msgId,
                   list, counter, boot>>

\* persistHistory: LPUSH, then LTRIM.
Lpush(c, ok) ==
    /\ pc[c] = "lpush"
    /\ list' = IF ok THEN [list EXCEPT ![job[c].room] = <<job[c].msg>> \o @] ELSE list
    /\ Goto(c, "ltrim")
    /\ UNCHANGED <<clientVars, hubVars, sendVars, slow, live, replayed, entered, events, msgId,
                   table, counter, boot>>

\* LTRIM, and the acknowledgement to the sender.
Ltrim(c, ok) ==
    /\ pc[c] = "ltrim"
    /\ LET r == job[c].room
       IN  list' = IF ok THEN [list EXCEPT ![r] = SubSeq(@, 1, Min({HistoryLim, Len(@)}))] ELSE list
    /\ SendBinary(c)
    /\ Goto(c, "snapshot")
    /\ UNCHANGED <<clientVars, hubVars, slow, live, replayed, entered, events, msgId, table,
                   counter, boot>>

-----------------------------------------------------------------------------
(* The rest of the system                                                  *)

\* The oldest entry of sendTimes is more than a minute old.
WindowMoves(c) ==
    /\ "minute" \in Ops /\ Event
    /\ sends[c] > 0
    /\ sends' = [sends EXCEPT ![c] = @ - 1]
    /\ UNCHANGED <<conn, who, muted, hubVars, sendVars, slow, live, replayed, entered, storeVars,
                   pc, job>>

\* A broadcast starts or ends.
LiveStatus(r) ==
    /\ "live" \in Ops /\ Event
    /\ live' = IF r \in live THEN live \ {r} ELSE live \cup {r}
    /\ UNCHANGED <<clientVars, hubVars, sendVars, slow, replayed, entered, storeVars, pc, job>>

\* The list of a room without comments for a day expires.
ListExpires(r) ==
    /\ "expire" \in Ops /\ Event
    /\ list[r] # << >>
    /\ list' = [list EXCEPT ![r] = << >>]
    /\ UNCHANGED <<clientVars, hubVars, sendVars, slow, live, replayed, entered, msgId, table,
                   counter, boot, pc, job>>

\* bootChatMsgIDCounter, when the RPC service starts: MAX(id) ...
BootRead ==
    /\ boot.left > 0 /\ boot.max = 0
    /\ table # {}
    /\ boot' = [boot EXCEPT !.max = Max({msgId[row.msg] : row \in table})]
    /\ UNCHANGED <<clientVars, hubVars, sendVars, slow, live, replayed, entered, events, msgId,
                   list, table, counter, pc, job>>

\* ... then SET.
BootSet ==
    /\ boot.max > 0
    /\ counter' = boot.max
    /\ boot' = [max |-> 0, left |-> boot.left - 1]
    /\ UNCHANGED <<clientVars, hubVars, sendVars, slow, live, replayed, entered, events, msgId,
                   list, table, pc, job>>

\* The next step of a handler.
Handler(c) ==
    \/ Join(c) \/ Snapshot(c) \/ Notice(c) \/ ReplaySend(c) \/ Left(c)
    \/ \E d \in Clients : SendTo(c, d)
    \/ \E ok \in Outcomes("redis") : Incr(c, ok) \/ Lpush(c, ok) \/ Ltrim(c, ok)
    \/ \E ok \in Outcomes("db") : Insert(c, ok)
    \/ \E redisOk \in Outcomes("redis"), dbOk \in Outcomes("db") : ReplayRead(c, redisOk, dbOk)

\* A frame that has been read.
Frame(c) ==
    \/ Respond(c) \/ HandleLogout(c)
    \/ \E u \in Users \cup (Ops \cap {"guest"}) : HandleLogin(c, u) \/ HandleSessionResume(c, u)
    \/ \E r \in Rooms : HandleRoomLeave(c, r) \/ HandleLike(c, r)
    \/ \E r \in Rooms, ok \in Outcomes("db") : HandleRoomEnter(c, r, ok)
    \/ \E r \in Rooms, clean \in BOOLEAN : HandleComment(c, r, clean)

Next ==
    \/ \E c \in Clients : Handler(c) \/ Frame(c)
    \/ \E c \in Clients : ServeWS(c) \/ Disconnect(c) \/ ReadFails(c) \/ Write(c)
    \/ \E c \in Clients : DropSlow(c) \/ WindowMoves(c)
    \/ \E r \in Rooms : LiveStatus(r) \/ ListExpires(r)
    \/ BootRead \/ BootSet

Spec == Init /\ [][Next]_vars

\* Goroutines that can run do so.
Fairness ==
    \A c \in Clients : WF_vars(Handler(c)) /\ WF_vars(ReadFails(c)) /\ WF_vars(DropSlow(c))

FairSpec == Spec /\ Fairness

-----------------------------------------------------------------------------
(* Properties                                                              *)

PcValues == {"none", "idle", "done", "join", "snapshot", "send", "notice", "replay", "replaySend",
             "left", "incr", "insert", "lpush", "ltrim"}

\* The types of the variables; a send queue never exceeds its capacity.
TypeOK ==
    /\ conn \in [Clients -> {"none", "open", "closed"}]
    /\ who \in [Clients -> {"none", "guest"} \cup Users]
    /\ members \in [Rooms -> SUBSET Clients]
    /\ rooms \in [Clients -> SUBSET Rooms]
    /\ muted \in [Clients -> SUBSET Rooms]
    /\ sends \in [Clients -> 0..RatePerMin]
    /\ queue \in [Clients -> 0..QueueCap]
    /\ got \in [Clients -> SUBSET (1..Len(msgId))]
    /\ full \subseteq Clients /\ slow \subseteq full
    /\ live \subseteq Rooms
    /\ entered \in [Clients -> SUBSET Rooms]
    /\ replayed \in [Clients -> SUBSET (Rooms \X {"list", "table"})]
    /\ events \in 0..MaxEvents
    /\ Len(msgId) <= MaxMsgs
    /\ \A r \in Rooms : Range(list[r]) \subseteq 1..Len(msgId)
    /\ table \subseteq [msg : 1..Len(msgId), room : Rooms]
    /\ pc \in [Clients -> PcValues]

\* Hub.rooms and Client.rooms tell the same story whatever goroutines change
\* them: a comment is accepted (481) exactly from those who get it (712).
MembershipAgrees == \A c \in Clients, r \in Rooms : c \in members[r] <=> r \in rooms[c]

\* A connection whose read pump has ended is in no room, although broadcasts
\* and removals of it may still be under way.
GoneIsNowhere == \A c \in Clients : pc[c] = "done" => \A r \in Rooms : c \notin members[r]

\* Nobody is taken out of a room but by leaving, logging out or losing the
\* connection, as long as its queue has never been full for a broadcast: the
\* removals that broadcasts start (722) run later, one for each slow client,
\* and concern no other.
OnlySlowAreDropped == \A c \in Clients \ full : rooms[c] = entered[c]

\* A client that has entered a room would learn nothing from another replay: it
\* has been sent, by broadcast or by its own replay, every comment that its
\* source (the Redis list, or the table when that failed or was empty) would show
\* now and whose handler is through, unless its queue was full at some time.
\* Joining before replaying, and storing before broadcasting, leave no gap,
\* though lists grow past their limit, expire and are trimmed meanwhile.
JoinMissesNothing ==
    \A c \in Clients \ full, r \in Rooms :
        c \in members[r] /\ pc[c] = "idle" =>
            \A m \in (IF <<r, "list">> \in replayed[c] THEN Range(Recent(r)) ELSE {}) \cup
                     (IF <<r, "table">> \in replayed[c] THEN Newest(r) ELSE {}) :
                m \in got[c] \/ \E d \in Clients : pc[d] # "idle" /\ job[d].msg = m

\* The read pump of a closed connection ends, and its client leaves every
\* room: no handler blocks on a queue that nobody empties.
ClosedGoesAway == \A c \in Clients : conn[c] = "closed" ~> pc[c] = "done"
=============================================================================
