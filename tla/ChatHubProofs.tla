--------------------------- MODULE ChatHubProofs ----------------------------
(***************************************************************************)
(* The room maps of the hub agree, a client whose read pump has ended is   *)
(* in no room, only a client whose queue is full is dropped, and a client  *)
(* that joins a room misses no comment of its history: for any clients,    *)
(* rooms and bounds, with every frame and every failure.                   *)
(***************************************************************************)
EXTENDS ChatHub, TLAPS

\* What the proof needs of the types: the maps, the program counters, and
\* the room that a handler is about to join.
Maps ==
    /\ members \in [Rooms -> SUBSET Clients]
    /\ rooms \in [Clients -> SUBSET Rooms]
    /\ pc \in [Clients -> PcValues]
    /\ DOMAIN job = Clients
    /\ \A c \in Clients : pc[c] = "join" => job[c].room \in Rooms

\* The inductive invariant.  GoneIsNowhere is not inductive without the
\* agreement: unregisterAll leaves the rooms that the client's map names.
MapsInv == Maps /\ MembershipAgrees /\ GoneIsNowhere

\* A step of the handlers of client c that leaves the room maps alone.
Quiet(c) ==
    /\ UNCHANGED hubVars
    /\ \/ UNCHANGED <<pc, job>>
       \/ /\ pc' \in [Clients -> PcValues]
          /\ pc'[c] \notin {"done", "join"}
          /\ DOMAIN job' = Clients
          /\ \A d \in Clients \ {c} : pc'[d] = pc[d] /\ job'[d] = job[d]

\* A step that leaves the maps alone keeps the invariant.
LEMMA QuietKeeps ==
    ASSUME NEW c \in Clients, MapsInv, Quiet(c)
    PROVE  MapsInv'
<1>1. CASE UNCHANGED <<pc, job>>
  BY <1>1 DEF Quiet, hubVars, MapsInv, Maps, MembershipAgrees, GoneIsNowhere
<1>2. CASE ~ UNCHANGED <<pc, job>>
  <2>2. Maps'
    BY <1>2 DEF Quiet, hubVars, MapsInv, Maps
  <2>3. MembershipAgrees'
    BY DEF Quiet, hubVars, MapsInv, MembershipAgrees
  <2>4. GoneIsNowhere'
    BY <1>2 DEF Quiet, hubVars, MapsInv, Maps, GoneIsNowhere
  <2>5. QED BY <2>2, <2>3, <2>4 DEF MapsInv
<1>3. QED BY <1>1, <1>2

\* A handler sets its own locals only.
LEMMA OwnJob ==
    ASSUME NEW c \in Clients, MapsInv, NEW label \in PcValues \ {"done", "join"}, NEW locals,
           UNCHANGED hubVars, pc' = [pc EXCEPT ![c] = label], job' = [job EXCEPT ![c] = locals]
    PROVE  MapsInv'
<1>1. Quiet(c)
  BY DEF Quiet, MapsInv, Maps
<1>2. QED BY <1>1, QuietKeeps

\* A handler goes on with its locals unchanged.
LEMMA SameJob ==
    ASSUME NEW c \in Clients, MapsInv, NEW label \in PcValues \ {"done", "join"},
           UNCHANGED <<hubVars, job>>, pc' = [pc EXCEPT ![c] = label]
    PROVE  MapsInv'
<1>1. Quiet(c)
  BY DEF Quiet, MapsInv, Maps
<1>2. QED BY <1>1, QuietKeeps

\* broadcast returns to its caller.
LEMMA EndKeeps ==
    ASSUME NEW c \in Clients, MapsInv, UNCHANGED hubVars, EndBroadcast(c)
    PROVE  MapsInv'
<1>1. CASE AfterBroadcast(c) = "idle"
  BY <1>1, OwnJob DEF EndBroadcast, Finish, PcValues
<1>2. CASE AfterBroadcast(c) # "idle"
  <2>1. AfterBroadcast(c) \in PcValues \ {"done", "join"}
    BY DEF AfterBroadcast, PcValues
  <2>2. job' = [job EXCEPT ![c] = [job[c] EXCEPT !.to = {}]]
    BY <1>2 DEF EndBroadcast
  <2>3. pc' = [pc EXCEPT ![c] = AfterBroadcast(c)]
    BY <1>2 DEF EndBroadcast
  <2>4. QED BY <2>1, <2>2, <2>3, OwnJob, Zenon
<1>3. QED BY <1>1, <1>2

\* Hub.joinRoom keeps the agreement: handleRoomEnter runs in the read pump of
\* a client that has not ended.
LEMMA JoinKeeps ==
    ASSUME NEW c \in Clients, MapsInv, Join(c)
    PROVE  MapsInv'
<1>1. /\ pc[c] = "join"
      /\ job[c].room \in Rooms
      /\ members' = [members EXCEPT ![job[c].room] = @ \cup {c}]
      /\ rooms' = [rooms EXCEPT ![c] = @ \cup {job[c].room}]
      /\ pc' = [pc EXCEPT ![c] = "snapshot"]
      /\ job' = job
  BY DEF Join, JoinRoom, Goto, MapsInv, Maps
<1>2. Maps'
  BY <1>1 DEF MapsInv, Maps, PcValues
<1>3. MembershipAgrees'
  <2> SUFFICES ASSUME NEW d \in Clients, NEW q \in Rooms
               PROVE  d \in members'[q] <=> q \in rooms'[d]
    BY DEF MembershipAgrees
  <2>1. d \in members[q] <=> q \in rooms[d]
    BY DEF MapsInv, MembershipAgrees
  <2>2. members'[q] = IF q = job[c].room THEN members[q] \cup {c} ELSE members[q]
    BY <1>1, Zenon DEF MapsInv, Maps
  <2>3. rooms'[d] = IF d = c THEN rooms[c] \cup {job[c].room} ELSE rooms[d]
    BY <1>1 DEF MapsInv, Maps
  <2>4. QED BY <2>1, <2>2, <2>3
<1>4. GoneIsNowhere'
  BY <1>1 DEF MapsInv, Maps, GoneIsNowhere
<1>5. QED BY <1>2, <1>3, <1>4 DEF MapsInv

\* Hub.leaveRoom keeps the agreement.
LEMMA LeaveKeeps ==
    ASSUME NEW c \in Clients, NEW r \in Rooms, MapsInv, HandleRoomLeave(c, r)
    PROVE  MapsInv'
<1>1. /\ pc[c] = "idle"
      /\ members' = [members EXCEPT ![r] = @ \ {c}]
      /\ rooms' = [rooms EXCEPT ![c] = @ \ {r}]
      /\ pc' = [pc EXCEPT ![c] = "snapshot"]
      /\ DOMAIN job' = DOMAIN job
      /\ \A d \in Clients \ {c} : job'[d] = job[d]
  BY DEF HandleRoomLeave, Reading, LeaveRoom, MapsInv, Maps
<1>2. Maps'
  BY <1>1 DEF MapsInv, Maps, PcValues
<1>3. MembershipAgrees'
  <2> SUFFICES ASSUME NEW d \in Clients, NEW q \in Rooms
               PROVE  d \in members'[q] <=> q \in rooms'[d]
    BY DEF MembershipAgrees
  <2>1. d \in members[q] <=> q \in rooms[d]
    BY DEF MapsInv, MembershipAgrees
  <2>2. members'[q] = IF q = r THEN members[q] \ {c} ELSE members[q]
    BY <1>1, Zenon DEF MapsInv, Maps
  <2>3. rooms'[d] = IF d = c THEN rooms[c] \ {r} ELSE rooms[d]
    BY <1>1 DEF MapsInv, Maps
  <2>4. QED BY <2>1, <2>2, <2>3
<1>4. GoneIsNowhere'
  BY <1>1 DEF MapsInv, Maps, GoneIsNowhere
<1>5. QED BY <1>2, <1>3, <1>4 DEF MapsInv

\* Hub.unregisterAll, at the end of the read pump, in a logout, or in the
\* goroutine of a slow client: afterwards the client is in no room at all.
LEMMA UnregisterKeeps ==
    ASSUME NEW c \in Clients, MapsInv, UnregisterAll(c), UNCHANGED job,
           \/ UNCHANGED pc
           \/ pc' = [pc EXCEPT ![c] = "done"]
    PROVE  MapsInv'
<1>1. Maps'
  BY DEF UnregisterAll, MapsInv, Maps, PcValues
<1>2. MembershipAgrees'
  <2> SUFFICES ASSUME NEW d \in Clients, NEW q \in Rooms
               PROVE  d \in members'[q] <=> q \in rooms'[d]
    BY DEF MembershipAgrees
  <2>1. d \in members[q] <=> q \in rooms[d]
    BY DEF MapsInv, MembershipAgrees
  <2>2. members'[q] = IF q \in rooms[c] THEN members[q] \ {c} ELSE members[q]
    BY DEF UnregisterAll, MapsInv, Maps
  <2>3. rooms'[d] = IF d = c THEN {} ELSE rooms[d]
    BY DEF UnregisterAll, MapsInv, Maps
  <2>4. QED BY <2>1, <2>2, <2>3
<1>3. GoneIsNowhere'
  <2>1. \A r \in Rooms : c \notin members'[r]
    BY DEF UnregisterAll, MapsInv, Maps, MembershipAgrees
  <2>2. \A d \in Clients \ {c}, r \in Rooms : d \in members'[r] => d \in members[r]
    BY DEF UnregisterAll, MapsInv, Maps
  <2>3. \A d \in Clients \ {c} : pc'[d] = pc[d]
    BY DEF MapsInv, Maps
  <2>4. QED BY <2>1, <2>2, <2>3 DEF MapsInv, GoneIsNowhere
<1>4. QED BY <1>1, <1>2, <1>3 DEF MapsInv

\* The initial state: no connection, no member.
LEMMA MapsInit == Init => MapsInv
<1> SUFFICES ASSUME Init PROVE MapsInv
  OBVIOUS
<1>1. Maps
  BY DEF Init, Maps, PcValues
<1>2. MembershipAgrees
  BY DEF Init, MembershipAgrees
<1>3. GoneIsNowhere
  BY DEF Init, GoneIsNowhere
<1>4. QED BY <1>1, <1>2, <1>3 DEF MapsInv

\* The steps of a handler: all but Join leave the maps alone.
LEMMA HandlerKeeps ==
    ASSUME NEW c \in Clients, MapsInv, Handler(c)
    PROVE  MapsInv'
<1>1. CASE Join(c)
  BY <1>1, JoinKeeps
<1>2. CASE Snapshot(c)
  <2>1. CASE EndBroadcast(c)
    BY <1>2, <2>1, EndKeeps DEF Snapshot
  <2>2. CASE ~ EndBroadcast(c)
    <3>1. job' = [job EXCEPT ![c] = [job[c] EXCEPT !.to = members[job[c].room]]]
      BY <1>2, <2>2 DEF Snapshot
    <3>2. pc' = [pc EXCEPT ![c] = "send"] /\ UNCHANGED hubVars
      BY <1>2, <2>2 DEF Snapshot
    <3>3. QED BY <3>1, <3>2, OwnJob, Zenon DEF PcValues
  <2>3. QED BY <2>1, <2>2
<1>3. CASE Notice(c)
  <2>1. job' = [job EXCEPT ![c] = [job[c] EXCEPT !.first = FALSE]]
    BY <1>3 DEF Notice
  <2>2. pc' = [pc EXCEPT ![c] = "snapshot"] /\ UNCHANGED hubVars
    BY <1>3 DEF Notice
  <2>3. QED BY <2>1, <2>2, OwnJob, Zenon DEF PcValues
<1>4. CASE ReplaySend(c)
  BY <1>4, OwnJob, Zenon DEF ReplaySend, Finish, PcValues
<1>5. CASE Left(c)
  BY <1>5, OwnJob, Zenon DEF Left, Finish, PcValues
<1>6. ASSUME NEW d \in Clients, SendTo(c, d) PROVE MapsInv'
  <2>1. UNCHANGED hubVars
    BY <1>6 DEF SendTo
  <2>2. CASE job[c].to = {d}
    BY <1>6, <2>1, <2>2, EndKeeps DEF SendTo
  <2>3. CASE job[c].to # {d}
    <3>1. job' = [job EXCEPT ![c] = [job[c] EXCEPT !.to = job[c].to \ {d}]] /\ UNCHANGED pc
      BY <1>6, <2>3 DEF SendTo
    <3>2. pc[c] = "send"
      BY <1>6 DEF SendTo
    <3>3. pc' = [pc EXCEPT ![c] = "send"]
      BY <3>1, <3>2 DEF MapsInv, Maps
    <3>4. QED BY <2>1, <3>1, <3>3, OwnJob, Zenon DEF PcValues
  <2>4. QED BY <2>2, <2>3
<1>7. ASSUME NEW ok \in BOOLEAN, Incr(c, ok) \/ Lpush(c, ok) \/ Ltrim(c, ok) \/ Insert(c, ok)
      PROVE  MapsInv'
  <2>1. CASE Incr(c, ok)
    <3>1. job' = [job EXCEPT ![c] = [job[c] EXCEPT !.msg = Len(msgId) + 1]]
      BY <2>1 DEF Incr
    <3>2. pc' = [pc EXCEPT ![c] = "insert"] /\ UNCHANGED hubVars
      BY <2>1 DEF Incr
    <3>3. QED BY <3>1, <3>2, OwnJob, Zenon DEF PcValues
  <2>2. CASE Lpush(c, ok)
    BY <2>2, SameJob, Zenon DEF Lpush, Goto, PcValues
  <2>3. CASE Ltrim(c, ok)
    BY <2>3, SameJob, Zenon DEF Ltrim, Goto, PcValues
  <2>4. CASE Insert(c, ok)
    BY <2>4, SameJob, Zenon DEF Insert, Goto, PcValues
  <2>5. QED BY <1>7, <2>1, <2>2, <2>3, <2>4
<1>8. ASSUME NEW redisOk \in BOOLEAN, NEW dbOk \in BOOLEAN, ReplayRead(c, redisOk, dbOk)
      PROVE  MapsInv'
  <2>1. PICK vals : job' = [job EXCEPT ![c] = [job[c] EXCEPT !.vals = vals]]
    BY <1>8, Zenon DEF ReplayRead
  <2>2. pc' = [pc EXCEPT ![c] = "replaySend"] /\ UNCHANGED hubVars
    BY <1>8 DEF ReplayRead
  <2>3. QED BY <2>1, <2>2, OwnJob, Zenon DEF PcValues
<1>9. QED
  BY <1>1, <1>2, <1>3, <1>4, <1>5, <1>6, <1>7, <1>8, Zenon DEF Handler, Outcomes

\* handleRoomEnter prepares to join a room of the hub.
LEMMA EnterKeeps ==
    ASSUME NEW c \in Clients, NEW r \in Rooms, NEW ok \in BOOLEAN, MapsInv, HandleRoomEnter(c, r, ok)
    PROVE  MapsInv'
<1>1. /\ UNCHANGED hubVars
      /\ pc[c] = "idle"
      /\ pc' = [pc EXCEPT ![c] = "join"]
      /\ DOMAIN job' = DOMAIN job
      /\ \A d \in Clients \ {c} : job'[d] = job[d]
  BY DEF HandleRoomEnter, Reading, MapsInv, Maps
<1>2. job'[c].room = r
  BY DEF HandleRoomEnter, NoJob, MapsInv, Maps
<1>3. Maps'
  BY <1>1, <1>2 DEF hubVars, MapsInv, Maps, PcValues
<1>4. MembershipAgrees'
  BY <1>1 DEF hubVars, MapsInv, MembershipAgrees
<1>5. GoneIsNowhere'
  BY <1>1 DEF hubVars, MapsInv, Maps, GoneIsNowhere
<1>6. QED BY <1>3, <1>4, <1>5 DEF MapsInv

\* The frames that readPump dispatches.
LEMMA FrameKeeps ==
    ASSUME NEW c \in Clients, MapsInv, Frame(c)
    PROVE  MapsInv'
<1>1. CASE Respond(c)
  <2>1. Quiet(c)
    BY <1>1 DEF Respond, Quiet
  <2>2. QED BY <2>1, QuietKeeps
<1>2. CASE HandleLogout(c)
  BY <1>2, UnregisterKeeps DEF HandleLogout
<1>3. ASSUME NEW u, HandleLogin(c, u) \/ HandleSessionResume(c, u) PROVE MapsInv'
  <2>1. Quiet(c)
    BY <1>3 DEF HandleLogin, HandleSessionResume, Quiet
  <2>2. QED BY <2>1, QuietKeeps
<1>4. ASSUME NEW r \in Rooms, HandleRoomLeave(c, r) PROVE MapsInv'
  BY <1>4, LeaveKeeps
<1>5. ASSUME NEW r \in Rooms, HandleLike(c, r) PROVE MapsInv'
  BY <1>5, OwnJob, Zenon DEF HandleLike, PcValues
<1>6. ASSUME NEW r \in Rooms, NEW ok \in BOOLEAN, HandleRoomEnter(c, r, ok) PROVE MapsInv'
  BY <1>6, EnterKeeps
<1>7. ASSUME NEW r \in Rooms, NEW clean \in BOOLEAN, HandleComment(c, r, clean) PROVE MapsInv'
  <2>1. UNCHANGED hubVars
    BY <1>7 DEF HandleComment
  <2>2. CASE clean
    BY <1>7, <2>1, <2>2, OwnJob, Zenon DEF HandleComment, PcValues
  <2>3. CASE ~ clean
    <3>1. Quiet(c)
      BY <1>7, <2>1, <2>3 DEF HandleComment, Quiet
    <3>2. QED BY <3>1, QuietKeeps
  <2>4. QED BY <2>2, <2>3
<1>8. QED
  BY <1>1, <1>2, <1>3, <1>4, <1>5, <1>6, <1>7, Zenon DEF Frame, Outcomes

\* Every step of the system keeps the invariant.
LEMMA MapsNext == MapsInv /\ [Next]_vars => MapsInv'
<1> SUFFICES ASSUME MapsInv, [Next]_vars PROVE MapsInv'
  OBVIOUS
<1>1. CASE UNCHANGED vars
  BY <1>1 DEF vars, MapsInv, Maps, MembershipAgrees, GoneIsNowhere
<1>2. ASSUME NEW c \in Clients, Handler(c) PROVE MapsInv'
  BY <1>2, HandlerKeeps
<1>3. ASSUME NEW c \in Clients, Frame(c) PROVE MapsInv'
  BY <1>3, FrameKeeps
<1>4. ASSUME NEW c \in Clients, ServeWS(c) PROVE MapsInv'
  BY <1>4 DEF ServeWS, hubVars, MapsInv, Maps, PcValues, MembershipAgrees, GoneIsNowhere
<1>5. ASSUME NEW c \in Clients, Disconnect(c) \/ Write(c) \/ WindowMoves(c) PROVE MapsInv'
  <2>1. Quiet(c)
    BY <1>5 DEF Disconnect, Write, WindowMoves, Quiet
  <2>2. QED BY <2>1, QuietKeeps
<1>6. ASSUME NEW c \in Clients, ReadFails(c) PROVE MapsInv'
  BY <1>6, UnregisterKeeps, Zenon DEF ReadFails
<1>7. ASSUME NEW c \in Clients, DropSlow(c) PROVE MapsInv'
  BY <1>7, UnregisterKeeps DEF DropSlow
<1>8. ASSUME NEW r \in Rooms, LiveStatus(r) \/ ListExpires(r) PROVE MapsInv'
  BY <1>8 DEF LiveStatus, ListExpires, hubVars, MapsInv, Maps, MembershipAgrees, GoneIsNowhere
<1>9. CASE BootRead \/ BootSet
  BY <1>9 DEF BootRead, BootSet, hubVars, MapsInv, Maps, MembershipAgrees, GoneIsNowhere
<1>10. QED
  BY <1>1, <1>2, <1>3, <1>4, <1>5, <1>6, <1>7, <1>8, <1>9 DEF Next

\* Hub.rooms and Client.rooms agree in every state of every behaviour.
THEOREM SpecMembershipAgrees == Spec => []MembershipAgrees
<1>1. MapsInv => MembershipAgrees
  BY DEF MapsInv
<1>2. QED BY <1>1, MapsInit, MapsNext, PTL DEF Spec

\* A client whose read pump has ended is in no room, for ever: no broadcast,
\* late removal or handler puts it back.
THEOREM SpecGoneIsNowhere == Spec => []GoneIsNowhere
<1>1. MapsInv => GoneIsNowhere
  BY DEF MapsInv
<1>2. QED BY <1>1, MapsInit, MapsNext, PTL DEF Spec

-----------------------------------------------------------------------------
(* Removals: only clients whose queue has been full are taken out           *)

\* The inductive invariant of OnlySlowAreDropped: a pending removal is of a
\* client whose queue has been full.
DropInv ==
    /\ entered \in [Clients -> SUBSET Rooms]
    /\ slow \subseteq full
    /\ OnlySlowAreDropped

\* A step that leaves the client's rooms alone and starts removals of slow
\* clients only keeps the invariant.
LEMMA GentleKeeps ==
    ASSUME MapsInv, DropInv, UNCHANGED <<rooms, entered>>,
           full \subseteq full', slow' \subseteq full'
    PROVE  DropInv'
BY DEF DropInv, OnlySlowAreDropped

\* sendBinary marks a client as full at most.
LEMMA SendGrows ==
    ASSUME NEW c \in Clients, SendBinary(c)
    PROVE  full \subseteq full'
BY DEF SendBinary

\* A client's rooms and its history change in the same way, for one client.
LEMMA SameChange ==
    ASSUME NEW c \in Clients, MapsInv, DropInv, NEW R \in SUBSET Rooms, NEW E \in SUBSET Rooms,
           rooms' = [rooms EXCEPT ![c] = R], entered' = [entered EXCEPT ![c] = E],
           c \notin full => R = E,
           full \subseteq full', slow' \subseteq full'
    PROVE  DropInv'
<1>1. entered' \in [Clients -> SUBSET Rooms]
  BY DEF DropInv
<1>2. ASSUME NEW d \in Clients \ full' PROVE rooms'[d] = entered'[d]
  <2>1. d \notin full
    BY <1>2
  <2>2. rooms[d] = entered[d]
    BY <2>1 DEF DropInv, OnlySlowAreDropped
  <2>3. rooms'[d] = IF d = c THEN R ELSE rooms[d]
    BY DEF MapsInv, Maps
  <2>4. entered'[d] = IF d = c THEN E ELSE entered[d]
    BY DEF DropInv
  <2>5. QED BY <2>1, <2>2, <2>3, <2>4
<1>3. QED BY <1>1, <1>2 DEF DropInv, OnlySlowAreDropped

\* The steps of a handler.
LEMMA HandlerDrops ==
    ASSUME NEW c \in Clients, MapsInv, DropInv, Handler(c)
    PROVE  DropInv'
<1>0. slow \subseteq full
  BY DEF DropInv
<1>1. CASE Join(c)
  <2>1. /\ job[c].room \in Rooms
        /\ rooms' = [rooms EXCEPT ![c] = rooms[c] \cup {job[c].room}]
        /\ entered' = [entered EXCEPT ![c] = entered[c] \cup {job[c].room}]
        /\ full \subseteq full' /\ slow' = slow
    BY <1>1, SendGrows DEF Join, JoinRoom, MapsInv, Maps
  <2>2. /\ rooms[c] \in SUBSET Rooms /\ entered[c] \in SUBSET Rooms
        /\ c \notin full => rooms[c] = entered[c]
    BY DEF MapsInv, Maps, DropInv, OnlySlowAreDropped
  <2>3. slow' \subseteq full'
    BY <1>0, <2>1
  <2> DEFINE R == rooms[c] \cup {job[c].room}
             E == entered[c] \cup {job[c].room}
  <2>4. R \in SUBSET Rooms /\ E \in SUBSET Rooms /\ (c \notin full => R = E)
    BY <2>1, <2>2
  <2>5. rooms' = [rooms EXCEPT ![c] = R] /\ entered' = [entered EXCEPT ![c] = E]
    BY <2>1
  <2> HIDE DEF R, E
  <2>6. QED BY <2>1, <2>3, <2>4, <2>5, SameChange, Zenon
<1>2. CASE Snapshot(c) \/ Notice(c)
  BY <1>0, <1>2, GentleKeeps DEF Snapshot, Notice, hubVars, sendVars
<1>3. CASE ReplaySend(c)
  <2>1. UNCHANGED <<rooms, entered, slow>> /\ full \subseteq full'
    BY <1>3 DEF ReplaySend, hubVars
  <2>2. QED BY <1>0, <2>1, GentleKeeps
<1>4. CASE Left(c)
  <2>1. UNCHANGED <<rooms, entered, slow>> /\ full \subseteq full'
    BY <1>4, SendGrows DEF Left, hubVars
  <2>2. QED BY <1>0, <2>1, GentleKeeps
<1>5. ASSUME NEW d \in Clients, SendTo(c, d) PROVE DropInv'
  <2>1. UNCHANGED <<rooms, entered>> /\ full \subseteq full' /\ slow' \subseteq full'
    BY <1>0, <1>5, Zenon DEF SendTo, hubVars
  <2>2. QED BY <2>1, GentleKeeps
<1>6. ASSUME NEW ok \in BOOLEAN, Incr(c, ok) \/ Lpush(c, ok) \/ Insert(c, ok) PROVE DropInv'
  <2>1. UNCHANGED <<rooms, entered, slow, full>>
    BY <1>6, Zenon DEF Incr, Lpush, Insert, hubVars, sendVars
  <2>2. QED BY <1>0, <2>1, GentleKeeps
<1>7. ASSUME NEW ok \in BOOLEAN, Ltrim(c, ok) PROVE DropInv'
  <2>1. UNCHANGED <<rooms, entered, slow>> /\ full \subseteq full'
    BY <1>7, SendGrows DEF Ltrim, hubVars
  <2>2. QED BY <1>0, <2>1, GentleKeeps
<1>8. ASSUME NEW redisOk \in BOOLEAN, NEW dbOk \in BOOLEAN, ReplayRead(c, redisOk, dbOk)
      PROVE  DropInv'
  <2>1. UNCHANGED <<rooms, entered, slow, full>>
    BY <1>8 DEF ReplayRead, hubVars, sendVars
  <2>2. QED BY <1>0, <2>1, GentleKeeps
<1>9. QED
  BY <1>1, <1>2, <1>3, <1>4, <1>5, <1>6, <1>7, <1>8, Zenon DEF Handler, Outcomes

\* A client that takes itself out of rooms.
LEMMA GoingDrops ==
    ASSUME NEW c \in Clients, MapsInv, DropInv, UnregisterAll(c),
           entered' = [entered EXCEPT ![c] = {}], full \subseteq full', slow' = slow
    PROVE  DropInv'
<1>1. rooms' = [rooms EXCEPT ![c] = {}]
  BY DEF UnregisterAll
<1>2. slow' \subseteq full'
  BY DEF DropInv
<1>3. QED BY <1>1, <1>2, SameChange, Zenon

\* The frames that readPump dispatches.
LEMMA FrameDrops ==
    ASSUME NEW c \in Clients, MapsInv, DropInv, Frame(c)
    PROVE  DropInv'
<1>0. slow \subseteq full
  BY DEF DropInv
<1>1. CASE Respond(c)
  <2>1. UNCHANGED <<rooms, entered, slow>> /\ full \subseteq full'
    BY <1>1, SendGrows DEF Respond, hubVars
  <2>2. QED BY <1>0, <2>1, GentleKeeps
<1>2. CASE HandleLogout(c)
  BY <1>2, SendGrows, GoingDrops, Zenon DEF HandleLogout
<1>3. ASSUME NEW u, HandleLogin(c, u) \/ HandleSessionResume(c, u) PROVE DropInv'
  <2>1. UNCHANGED <<rooms, entered, slow>> /\ full \subseteq full'
    BY <1>3, SendGrows DEF HandleLogin, HandleSessionResume, hubVars
  <2>2. QED BY <1>0, <2>1, GentleKeeps
<1>4. ASSUME NEW r \in Rooms, HandleRoomLeave(c, r) PROVE DropInv'
  <2>1. /\ rooms' = [rooms EXCEPT ![c] = rooms[c] \ {r}]
        /\ entered' = [entered EXCEPT ![c] = entered[c] \ {r}]
        /\ full' = full /\ slow' = slow
    BY <1>4 DEF HandleRoomLeave, LeaveRoom, sendVars
  <2>2. /\ rooms[c] \in SUBSET Rooms /\ entered[c] \in SUBSET Rooms
        /\ c \notin full => rooms[c] = entered[c]
    BY DEF MapsInv, Maps, DropInv, OnlySlowAreDropped
  <2> DEFINE R == rooms[c] \ {r}
             E == entered[c] \ {r}
  <2>3. R \in SUBSET Rooms /\ E \in SUBSET Rooms /\ (c \notin full => R = E)
    BY <2>2
  <2>4. rooms' = [rooms EXCEPT ![c] = R] /\ entered' = [entered EXCEPT ![c] = E]
    BY <2>1
  <2> HIDE DEF R, E
  <2>5. QED BY <1>0, <2>1, <2>3, <2>4, SameChange, Zenon
<1>5. ASSUME NEW r \in Rooms, HandleLike(c, r) PROVE DropInv'
  <2>1. UNCHANGED <<rooms, entered, slow>> /\ full \subseteq full'
    BY <1>5, SendGrows DEF HandleLike, hubVars
  <2>2. QED BY <1>0, <2>1, GentleKeeps
<1>6. ASSUME NEW r \in Rooms, NEW ok \in BOOLEAN, HandleRoomEnter(c, r, ok) PROVE DropInv'
  <2>1. UNCHANGED <<rooms, entered, slow>> /\ (SendBinary(c) \/ UNCHANGED sendVars)
    BY <1>6 DEF HandleRoomEnter, hubVars
  <2>2. full \subseteq full'
    BY <2>1, SendGrows DEF sendVars
  <2>3. QED BY <1>0, <2>1, <2>2, GentleKeeps
<1>7. ASSUME NEW r \in Rooms, NEW clean \in BOOLEAN, HandleComment(c, r, clean) PROVE DropInv'
  <2>1. UNCHANGED <<rooms, entered, slow>> /\ (SendBinary(c) \/ UNCHANGED sendVars)
    BY <1>7 DEF HandleComment, hubVars
  <2>2. full \subseteq full'
    BY <2>1, SendGrows DEF sendVars
  <2>3. QED BY <1>0, <2>1, <2>2, GentleKeeps
<1>8. QED
  BY <1>1, <1>2, <1>3, <1>4, <1>5, <1>6, <1>7, Zenon DEF Frame, Outcomes

\* Every step keeps the invariant of the removals.
LEMMA DropNext == MapsInv /\ DropInv /\ [Next]_vars => DropInv'
<1> SUFFICES ASSUME MapsInv, DropInv, [Next]_vars PROVE DropInv'
  OBVIOUS
<1>0. slow \subseteq full
  BY DEF DropInv
<1>1. CASE UNCHANGED vars
  BY <1>0, <1>1, GentleKeeps DEF vars
<1>2. ASSUME NEW c \in Clients, Handler(c) PROVE DropInv'
  BY <1>2, HandlerDrops
<1>3. ASSUME NEW c \in Clients, Frame(c) PROVE DropInv'
  BY <1>3, FrameDrops
<1>4. ASSUME NEW c \in Clients, ServeWS(c) \/ Disconnect(c) \/ Write(c) \/ WindowMoves(c)
      PROVE  DropInv'
  <2>1. UNCHANGED <<rooms, entered, slow, full>>
    BY <1>4 DEF ServeWS, Disconnect, Write, WindowMoves, hubVars, sendVars
  <2>2. QED BY <1>0, <2>1, GentleKeeps
<1>5. ASSUME NEW c \in Clients, ReadFails(c) PROVE DropInv'
  BY <1>5, GoingDrops, Zenon DEF ReadFails, sendVars
<1>6. ASSUME NEW c \in Clients, DropSlow(c) PROVE DropInv'
  <2>1. /\ c \in full /\ full' = full /\ slow' \subseteq full'
        /\ rooms' = [rooms EXCEPT ![c] = {}] /\ entered' = entered
    BY <1>0, <1>6 DEF DropSlow, UnregisterAll, sendVars
  <2>2. entered' = [entered EXCEPT ![c] = entered[c]] /\ entered[c] \in SUBSET Rooms
    BY <2>1 DEF DropInv
  <2>3. QED BY <2>1, <2>2, SameChange, Zenon
<1>7. ASSUME NEW r \in Rooms, LiveStatus(r) \/ ListExpires(r) PROVE DropInv'
  <2>1. UNCHANGED <<rooms, entered, slow, full>>
    BY <1>7 DEF LiveStatus, ListExpires, hubVars, sendVars
  <2>2. QED BY <1>0, <2>1, GentleKeeps
<1>8. CASE BootRead \/ BootSet
  <2>1. UNCHANGED <<rooms, entered, slow, full>>
    BY <1>8 DEF BootRead, BootSet, hubVars, sendVars
  <2>2. QED BY <1>0, <2>1, GentleKeeps
<1>9. QED
  BY <1>1, <1>2, <1>3, <1>4, <1>5, <1>6, <1>7, <1>8 DEF Next

\* A client whose queue has never been full is in exactly the rooms that it
\* entered and has not left: no late removal (hub.go:722) hits another client.
THEOREM SpecOnlySlowAreDropped == Spec => []OnlySlowAreDropped
<1>1. Init => DropInv
  BY DEF Init, DropInv, OnlySlowAreDropped
<1>2. DropInv => OnlySlowAreDropped
  BY DEF DropInv
<1>3. QED BY <1>1, <1>2, MapsInit, MapsNext, DropNext, PTL DEF Spec
-----------------------------------------------------------------------------
(* History: an entry misses no comment                                     *)

Msgs == Nat \ {0}
Jobs == [op : {"none", "enter", "leave", "like", "comment"}, room : Rooms \cup {"none"},
         first : BOOLEAN, msg : Nat, to : SUBSET Clients, vals : Seq(Msgs)]

\* What the proof needs of the types: the stores, ...
StoreTypes ==
    /\ queue \in [Clients -> 0..QueueCap] /\ DOMAIN got = Clients
    /\ \E S : msgId \in Seq(S)
    /\ list \in [Rooms -> Seq(Msgs)]
    /\ table \subseteq [msg : Msgs, room : Rooms]
    /\ replayed \in [Clients -> SUBSET (Rooms \X {"list", "table"})]

\* ... and the locals.  A handler has a room, one that stores a comment has its
\* number, and one that joins a room is handleRoomEnter.
Fits(label, locals) ==
    /\ label \notin {"none", "idle", "done"} => locals.room \in Rooms
    /\ label \in {"insert", "lpush", "ltrim"} => locals.msg # 0
    /\ label = "join" => locals.op = "enter"

LocalTypes ==
    /\ job \in [Clients -> Jobs]
    /\ \A c \in Clients : Fits(pc[c], job[c])

HistTypes == StoreTypes /\ LocalTypes

\* What a replay to client c in room r would show now, from where it read last.
Source(c, r) ==
    (IF <<r, "list">> \in replayed[c] THEN Range(Recent(r)) ELSE {}) \cup
    (IF <<r, "table">> \in replayed[c] THEN Newest(r) ELSE {})

\* Client c is in room r and is going to replay its history.
Awaits(c, r) ==
    /\ pc[c] \in {"snapshot", "send", "notice", "replay"}
    /\ job[c].op = "enter" /\ job[c].room = r

\* The handler that client d runs has still to send comment m to client c.
Sending(d, c, r, m) ==
    /\ job[d].msg = m /\ job[d].room = r
    /\ pc[d] \in {"lpush", "ltrim", "snapshot"} \/ (pc[d] = "send" /\ c \in job[d].to)

Coming(c, r, m) == \E d \in Clients : Sending(d, c, r, m)

\* Client c has read comment m and has still to put it in its queue.
HasRead(c, r, m) ==
    /\ pc[c] = "replaySend" /\ job[c].room = r
    /\ \E i \in 1..Len(job[c].vals) : job[c].vals[i] = m

Has(c, r, m) == m \in got[c] \/ Coming(c, r, m) \/ HasRead(c, r, m)

\* The inductive invariant of JoinMissesNothing: at every point of the handlers, a
\* comment that a replay would show is in the client's queue, is still to be
\* broadcast to it, or is in its own replay.
Covered ==
    \A c \in Clients \ full, r \in Rooms :
        c \in members[r] /\ ~ Awaits(c, r) => \A m \in Source(c, r) : Has(c, r, m)

\* The smaller of two numbers.
LEMMA MinOfTwo == \A a, b \in Int : Min({a, b}) = IF a <= b THEN a ELSE b
<1> SUFFICES ASSUME NEW a \in Int, NEW b \in Int PROVE Min({a, b}) = IF a <= b THEN a ELSE b
  OBVIOUS
<1>1. PICK n \in {a, b} : n = IF a <= b THEN a ELSE b
  OBVIOUS
<1>2. \A x \in {a, b} : n <= x
  BY <1>1
<1>3. \A x \in {a, b} : (\A y \in {a, b} : x <= y) => x = n
  BY <1>1, <1>2
<1>4. Min({a, b}) = CHOOSE x \in {a, b} : \A y \in {a, b} : x <= y
  BY DEF Min
<1> QED
  BY <1>1, <1>2, <1>3, <1>4

\* A prefix of a sequence.
LEMMA Prefix ==
    ASSUME NEW s \in Seq(Msgs), NEW n \in Nat
    PROVE  \E t \in Seq(Msgs) :
              /\ t = SubSeq(s, 1, Min({n, Len(s)}))
              /\ \A i \in 1..Len(t) : i \in 1..Len(s) /\ i <= n /\ t[i] = s[i]
              /\ \A i \in 1..Len(s) : i <= n => i \in 1..Len(t)
<1>1. PICK k \in 0..Len(s) : k = Min({n, Len(s)}) /\ k = IF n <= Len(s) THEN n ELSE Len(s)
  BY MinOfTwo
<1>2. PICK t : t = SubSeq(s, 1, k)
  BY Zenon
<1>3. /\ t \in Seq(Msgs) /\ Len(t) = IF 1 <= k THEN k - 1 + 1 ELSE 0
      /\ \A i \in 1..k - 1 + 1 : t[i] = s[1 + i - 1]
  BY <1>2
<1>4. Len(t) = k
  BY <1>3
<1>5. \A i \in 1..k : t[i] = s[i]
  BY <1>3
<1>6. \A i \in 1..Len(t) : i \in 1..Len(s) /\ i <= n /\ t[i] = s[i]
  <2>1. Len(s) \in Nat /\ k <= Len(s) /\ k <= n
    BY <1>1
  <2>2. \A i \in 1..k : i \in 1..Len(s) /\ i <= n
    BY <2>1
  <2> QED
    BY <1>4, <1>5, <2>2
<1>7. \A i \in 1..Len(s) : i <= n => i \in 1..Len(t)
  BY <1>1, <1>4
<1>8. t = SubSeq(s, 1, Min({n, Len(s)}))
  BY <1>1, <1>2, Zenon
<1> QED
  BY <1>3, <1>6, <1>7, <1>8, Zenon

\* The elements of a sequence.
LEMMA Elements ==
    ASSUME NEW s \in Seq(Msgs), NEW m
    PROVE  m \in Range(s) <=> \E i \in 1..Len(s) : s[i] = m
<1>1. ASSUME m \in Range(s) PROVE \E i \in 1..Len(s) : s[i] = m
  BY <1>1 DEF Range
<1>2. ASSUME NEW i \in 1..Len(s), s[i] = m PROVE m \in Range(s)
  BY <1>2 DEF Range
<1> QED
  BY <1>1, <1>2

\* LRANGE shows the first comments of the list.
LEMMA RecentOf ==
    ASSUME NEW s \in Seq(Msgs)
    PROVE  \E t \in Seq(Msgs) :
              /\ t = SubSeq(s, 1, Min({HistoryLim + 1, Len(s)}))
              /\ \A m : m \in Range(t) <=> \E i \in 1..Len(s) : i <= HistoryLim + 1 /\ s[i] = m
<1>2. PICK n \in Nat : n = HistoryLim + 1
  BY ChatHubAssumption
<1>3. PICK t \in Seq(Msgs) :
         /\ t = SubSeq(s, 1, Min({n, Len(s)}))
         /\ \A i \in 1..Len(t) : i \in 1..Len(s) /\ i <= n /\ t[i] = s[i]
         /\ \A i \in 1..Len(s) : i <= n => i \in 1..Len(t)
  BY Prefix, Zenon
<1>5. /\ \A i \in 1..Len(t) : i \in 1..Len(s) /\ i <= n /\ t[i] = s[i]
      /\ \A i \in 1..Len(s) : i <= n => i \in 1..Len(t)
  BY <1>3, Zenon
<1>6. ASSUME NEW m PROVE m \in Range(t) <=> \E i \in 1..Len(s) : i <= n /\ s[i] = m
  <2>1. m \in Range(t) <=> \E i \in 1..Len(t) : t[i] = m
    BY Elements
  <2>2. (\E i \in 1..Len(t) : t[i] = m) => \E i \in 1..Len(s) : i <= n /\ s[i] = m
    BY <1>5
  <2>3. (\E i \in 1..Len(s) : i <= n /\ s[i] = m) => \E i \in 1..Len(t) : t[i] = m
    BY <1>5
  <2> QED
    BY <2>1, <2>2, <2>3
<1>7. t = SubSeq(s, 1, Min({HistoryLim + 1, Len(s)}))
  BY <1>2, <1>3
<1> QED
  BY <1>2, <1>6, <1>7, Zenon

\* LRANGE of a room reads its first HistoryLim + 1 ids.
LEMMA RecentFacts ==
    ASSUME StoreTypes, NEW r \in Rooms
    PROVE  /\ Recent(r) \in Seq(Msgs)
           /\ \A m : m \in Range(Recent(r)) <=>
                 \E i \in 1..Len(list[r]) : i <= HistoryLim + 1 /\ list[r][i] = m
<1>1. PICK s \in Seq(Msgs) : s = list[r]
  BY DEF StoreTypes
<1>2. PICK t \in Seq(Msgs) :
         /\ t = SubSeq(s, 1, Min({HistoryLim + 1, Len(s)}))
         /\ \A m : m \in Range(t) <=> \E i \in 1..Len(s) : i <= HistoryLim + 1 /\ s[i] = m
  BY RecentOf, Zenon
<1>3. t = Recent(r)
  BY <1>1, <1>2 DEF Recent
<1> QED
  BY <1>1, <1>2, <1>3, Zenon

\* The comments of a room in a table, and the newest of them.
StoredIn(T, r) == {row.msg : row \in {row \in T : row.room = r}}
NewestOf(S) == {m \in S : Injection(1..HistoryLim, {n \in S : n > m}) = {}}

\* They are comments.
LEMMA NewestFacts ==
    ASSUME StoreTypes, NEW r \in Rooms
    PROVE  Newest(r) \subseteq Msgs
<1>1. StoredIn(table, r) \subseteq Msgs
  BY DEF StoreTypes, StoredIn
<1>2. Newest(r) = NewestOf(StoredIn(table, r))
  BY DEF Newest, NewestOf, StoredIn
<1> QED
  BY <1>1, <1>2 DEF NewestOf

\* A comment more: the newest afterwards were so before, or are new.
LEMMA NewestGrows ==
    ASSUME NEW A, NEW B, A \subseteq B, NEW m \in NewestOf(B)
    PROVE  m \in NewestOf(A) \/ m \notin A
<1> SUFFICES ASSUME m \in A PROVE m \in NewestOf(A)
  OBVIOUS
<1>1. PICK P, Q : P = {n \in A : n > m} /\ Q = {n \in B : n > m}
  BY Zenon
<1>2. P \subseteq Q
  BY <1>1
<1>3. Injection(1..HistoryLim, Q) = {}
  BY <1>1, Zenon DEF NewestOf
<1>4. Injection(1..HistoryLim, P) \subseteq Injection(1..HistoryLim, Q)
  BY <1>2 DEF Injection
<1> QED
  BY <1>1, <1>3, <1>4 DEF NewestOf

\* What a replay shows are comments.
LEMMA SourceMsgs ==
    ASSUME HistTypes, NEW c \in Clients, NEW r \in Rooms
    PROVE  Source(c, r) \subseteq Msgs
<1>1. ASSUME NEW m \in Range(Recent(r)) PROVE m \in Msgs
  <2>1. PICK s \in Seq(Msgs) : s = list[r]
    BY DEF HistTypes, StoreTypes
  <2>2. PICK i \in 1..Len(s) : s[i] = m
    BY <2>1, RecentFacts DEF HistTypes
  <2> QED
    BY <2>2
<1>2. Newest(r) \subseteq Msgs
  BY NewestFacts DEF HistTypes
<1> QED
  BY <1>1, <1>2 DEF Source

\* A step of client e's handlers keeps Covered if nobody comes into a room but to
\* replay its history, a replay that ends has read all there is, a comment that
\* is new in a source is on its way, and what was on its way arrives.
LEMMA StepCovers ==
    ASSUME NEW e \in Clients, Covered, full \subseteq full',
           \A d \in Clients : got[d] \subseteq got'[d],
           \A d \in Clients \ {e} : pc'[d] = pc[d] /\ job'[d] = job[d],
           \A d \in Clients, r \in Rooms :
               d \in members'[r] => d \in members[r] \/ Awaits(d, r)',
           \A r \in Rooms :
               Awaits(e, r) => Awaits(e, r)' \/ \A m \in Source(e, r)' : Has(e, r, m)',
           \A d \in Clients, r \in Rooms :
               \A m \in Source(d, r)' : m \in Source(d, r) \/ Has(d, r, m)',
           \A d \in Clients \ full', r \in Rooms : \A m \in Source(d, r) :
               d \in members[r] /\ Sending(e, d, r, m) => Sending(e, d, r, m)' \/ m \in got'[d],
           \A r \in Rooms : \A m \in Source(e, r) :
               e \notin full' /\ HasRead(e, r, m) => HasRead(e, r, m)' \/ m \in got'[e]
    PROVE  Covered'
<1> SUFFICES ASSUME NEW c \in Clients, c \notin full', NEW r \in Rooms, c \in members'[r],
                    ~ Awaits(c, r)', NEW m \in Source(c, r)'
             PROVE  Has(c, r, m)'
  BY Zenon DEF Covered
<1>1. c \in members[r]
  BY Zenon
<1>2. CASE Awaits(c, r)
  <2>1. CASE c = e
    BY <1>2, <2>1, ZenonT(30)
  <2>2. CASE c # e
    BY <1>2, <2>2, Zenon DEF Awaits
  <2> QED
    BY <2>1, <2>2, ZenonT(30)
<1>3. CASE ~ Awaits(c, r) /\ m \in Source(c, r)
  <2>1. Has(c, r, m)
    BY <1>1, <1>3, Zenon DEF Covered
  <2>2. CASE m \in got[c]
    BY <2>2, Zenon DEF Has
  <2>3. ASSUME NEW d \in Clients, Sending(d, c, r, m) PROVE Has(c, r, m)'
    <3>1. CASE d = e
      <4>1. Sending(e, c, r, m)' \/ m \in got'[c]
        BY <1>1, <1>3, <2>3, <3>1, Zenon
      <4> QED
        BY <4>1, Zenon DEF Has, Coming
    <3>2. CASE d # e
      <4>1. Sending(d, c, r, m)'
        BY <2>3, <3>2, Zenon DEF Sending
      <4> QED
        BY <4>1, Zenon DEF Has, Coming
    <3> QED
      BY <3>1, <3>2, Zenon
  <2>4. CASE HasRead(c, r, m)
    <3>1. CASE c = e
      BY <1>3, <2>4, <3>1, Zenon DEF Has
    <3>2. CASE c # e
      <4>1. HasRead(c, r, m)'
        BY <2>4, <3>2, Zenon DEF HasRead
      <4> QED
        BY <4>1, Zenon DEF Has
    <3> QED
      BY <3>1, <3>2, Zenon
  <2> QED
    BY <2>1, <2>2, <2>3, <2>4, Zenon DEF Has, Coming
<1> QED
  BY <1>2, <1>3, Zenon

\* A step that touches no history, by a handler that has nothing to send or to
\* replay, or that stays as it is.
LEMMA CalmCovers ==
    ASSUME NEW e \in Clients, Covered, full \subseteq full', UNCHANGED <<list, table, replayed>>,
           \A d \in Clients : got[d] \subseteq got'[d],
           \A d \in Clients \ {e} : pc'[d] = pc[d] /\ job'[d] = job[d],
           \A d \in Clients, r \in Rooms :
               d \in members'[r] => d \in members[r] \/ Awaits(d, r)',
           \/ pc[e] \notin {"lpush", "ltrim", "snapshot", "send", "notice", "replay", "replaySend"}
           \/ pc'[e] = pc[e] /\ job'[e] = job[e]
    PROVE  Covered'
<1>1. \A d \in Clients, r \in Rooms : Source(d, r)' = Source(d, r)
  BY DEF Source, Recent, Newest
<1>2. \A r \in Rooms : Awaits(e, r) => Awaits(e, r)'
  BY Zenon DEF Awaits
<1>3. \A d \in Clients, r \in Rooms : \A m : Sending(e, d, r, m) => Sending(e, d, r, m)'
  BY Zenon DEF Sending
<1>4. \A r \in Rooms : \A m : HasRead(e, r, m) => HasRead(e, r, m)'
  BY Zenon DEF HasRead
<1> QED
  BY <1>1, <1>2, <1>3, <1>4, StepCovers, Zenon

\* A handler changes its locals.
LEMMA LocalsTo ==
    ASSUME NEW j \in Jobs, NEW S \in SUBSET Clients
    PROVE  \E k \in Jobs :
              /\ k = [j EXCEPT !.to = S]
              /\ k.to = S /\ k.op = j.op /\ k.room = j.room /\ k.msg = j.msg
<1>1. PICK k : k = [j EXCEPT !.to = S]
  BY Zenon
<1>2. k \in Jobs
  BY <1>1 DEF Jobs
<1>3. k.to = S /\ k.op = j.op /\ k.room = j.room /\ k.msg = j.msg
  BY <1>1 DEF Jobs
<1> QED
  BY <1>1, <1>2, <1>3, Zenon

\* The locals of a handler after the INCR.
LEMMA LocalsMsg ==
    ASSUME NEW j \in Jobs, NEW n \in Nat
    PROVE  \E k \in Jobs : k = [j EXCEPT !.msg = n] /\ k.msg = n /\ k.room = j.room
<1>1. PICK k : k = [j EXCEPT !.msg = n]
  BY Zenon
<1>2. k \in Jobs
  BY <1>1 DEF Jobs
<1>3. k.msg = n /\ k.room = j.room
  BY <1>1 DEF Jobs
<1> QED
  BY <1>1, <1>2, <1>3, Zenon

\* The locals of a handler after the notice.
LEMMA LocalsFirst ==
    ASSUME NEW j \in Jobs
    PROVE  \E k \in Jobs :
              /\ k = [j EXCEPT !.first = FALSE]
              /\ k.op = j.op /\ k.room = j.room /\ k.msg = j.msg
<1>1. PICK k : k = [j EXCEPT !.first = FALSE]
  BY Zenon
<1>2. k \in Jobs
  BY <1>1, Zenon DEF Jobs
<1>3. k.op = j.op /\ k.room = j.room /\ k.msg = j.msg
  BY <1>1 DEF Jobs
<1> QED
  BY <1>1, <1>2, <1>3, Zenon

\* The locals of a handler after the replay was read.
LEMMA LocalsVals ==
    ASSUME NEW j \in Jobs, NEW v \in Seq(Msgs), NEW k, k = [j EXCEPT !.vals = v]
    PROVE  k \in Jobs /\ k.vals = v /\ k.room = j.room
<1>1. k \in Jobs
  BY Zenon DEF Jobs
<1>2. k.vals = v /\ k.room = j.room
  BY Zenon DEF Jobs
<1> QED
  BY <1>1, <1>2

\* The locals of no handler, and those of a new one.
LEMMA NoLocals == NoJob \in Jobs
  BY DEF NoJob, Jobs

\* The locals with which HandleRoomEnter begins.
LEMMA EnterLocals ==
    ASSUME NEW op \in {"enter"}, NEW r \in Rooms, NEW b \in BOOLEAN,
           NEW k, k = [NoJob EXCEPT !.op = op, !.room = r, !.first = b]
    PROVE  k \in Jobs /\ k.op = op /\ k.room = r
<1>1. k \in Jobs
  BY NoLocals, Zenon DEF Jobs
<1>2. k.op = op /\ k.room = r
  BY NoLocals DEF Jobs
<1> QED
  BY <1>1, <1>2, Zenon

\* A handler that goes on with locals that fit.
LEMMA LocalStep ==
    ASSUME NEW c \in Clients, MapsInv, LocalTypes, NEW label \in PcValues, NEW locals \in Jobs,
           Fits(label, locals),
           pc' = [pc EXCEPT ![c] = label], job' = [job EXCEPT ![c] = locals]
    PROVE  LocalTypes'
<1>1. job' \in [Clients -> Jobs]
  BY DEF LocalTypes
<1>2. ASSUME NEW d \in Clients PROVE Fits(pc'[d], job'[d])
  <2>1. CASE d = c
    <3>1. pc'[d] = label /\ job'[d] = locals
      BY <2>1 DEF LocalTypes, MapsInv, Maps
    <3> QED
      BY <3>1
  <2>2. CASE d # c
    <3>1. pc'[d] = pc[d] /\ job'[d] = job[d]
      BY <2>2 DEF LocalTypes, MapsInv, Maps
    <3> QED
      BY <3>1 DEF LocalTypes
  <2> QED
    BY <2>1, <2>2
<1> QED
  BY <1>1, <1>2 DEF LocalTypes, Fits

\* sendBinary keeps the queues within their bounds.
LEMMA SendTypes ==
    ASSUME NEW c \in Clients, queue \in [Clients -> 0..QueueCap], SendBinary(c)
    PROVE  queue' \in [Clients -> 0..QueueCap] /\ got' = got /\ full \subseteq full'
<1>1. queue' = queue \/ (queue[c] < QueueCap /\ queue' = [queue EXCEPT ![c] = queue[c] + 1])
  BY DEF SendBinary
<1>2. queue[c] < QueueCap => queue[c] + 1 \in 0..QueueCap
  BY ChatHubAssumption
<1> QED
  BY <1>1, <1>2 DEF SendBinary

\* A client that is not connected has no read pump.
Served ==
    /\ conn \in [Clients -> {"none", "open", "closed"}]
    /\ \A c \in Clients : conn[c] = "none" => pc[c] = "none"

\* The steps of a read pump that runs keep that.
LEMMA ServedStep ==
    ASSUME NEW e \in Clients, MapsInv, Served, pc[e] # "none",
           NEW label, pc' = [pc EXCEPT ![e] = label],
           conn' = conn \/ conn' = [conn EXCEPT ![e] = "closed"]
    PROVE  Served'
  BY DEF Served, MapsInv, Maps

\* The end of a broadcast moves its own handler only.
LEMMA EndServed ==
    ASSUME NEW c \in Clients, EndBroadcast(c)
    PROVE  \E label : pc' = [pc EXCEPT ![c] = label]
  BY DEF EndBroadcast, Finish

\* No step of a handler serves a connection that was never opened.
LEMMA HandlerServed ==
    ASSUME NEW c \in Clients, MapsInv, Served, Handler(c)
    PROVE  Served'
<1>0. pc = [pc EXCEPT ![c] = pc[c]]
  BY DEF MapsInv, Maps
<1>1. conn' = conn
  BY Zenon DEF Handler, Join, Snapshot, Notice, ReplaySend, Left, SendTo, Incr, Lpush, Ltrim,
               Insert, ReplayRead, clientVars
<1>2. pc[c] # "none"
  BY Zenon DEF Handler, Join, Snapshot, Notice, ReplaySend, Left, SendTo, Incr, Lpush, Ltrim,
               Insert, ReplayRead
<1>3. CASE Join(c) \/ Notice(c) \/ ReplaySend(c) \/ Left(c)
  <2>1. \E label : pc' = [pc EXCEPT ![c] = label]
    BY <1>3 DEF Join, Notice, ReplaySend, Left, Goto, Finish
  <2> QED
    BY <1>1, <1>2, <2>1, ServedStep, Zenon
<1>4. CASE Snapshot(c)
  <2>1. \E label : pc' = [pc EXCEPT ![c] = label]
    BY <1>4, EndServed DEF Snapshot
  <2> QED
    BY <1>1, <1>2, <2>1, ServedStep, Zenon
<1>5. ASSUME NEW d \in Clients, SendTo(c, d) PROVE Served'
  <2>1. \E label : pc' = [pc EXCEPT ![c] = label]
    BY <1>0, <1>5, EndServed, Zenon DEF SendTo
  <2> QED
    BY <1>1, <1>2, <2>1, ServedStep, Zenon
<1>6. ASSUME NEW ok, Incr(c, ok) \/ Lpush(c, ok) \/ Ltrim(c, ok) \/ Insert(c, ok) PROVE Served'
  <2>1. \E label : pc' = [pc EXCEPT ![c] = label]
    BY <1>6, Zenon DEF Incr, Lpush, Ltrim, Insert, Goto
  <2> QED
    BY <1>1, <1>2, <2>1, ServedStep, Zenon
<1>7. ASSUME NEW redisOk, NEW dbOk, ReplayRead(c, redisOk, dbOk) PROVE Served'
  <2>1. \E label : pc' = [pc EXCEPT ![c] = label]
    BY <1>7, Zenon DEF ReplayRead
  <2> QED
    BY <1>1, <1>2, <2>1, ServedStep, Zenon
<1> QED
  BY <1>3, <1>4, <1>5, <1>6, <1>7 DEF Handler

\* Nor does the frame with which a handler begins.
LEMMA FrameServed ==
    ASSUME NEW c \in Clients, MapsInv, Served, Frame(c)
    PROVE  Served'
<1>0. pc = [pc EXCEPT ![c] = pc[c]]
  BY DEF MapsInv, Maps
<1>1. conn' = conn \/ conn' = [conn EXCEPT ![c] = "closed"]
  BY Zenon DEF Frame, Respond, HandleLogout, HandleLogin, HandleSessionResume, HandleRoomLeave,
               HandleLike, HandleRoomEnter, HandleComment, clientVars
<1>2. pc[c] # "none"
  BY Zenon DEF Frame, Respond, HandleLogout, HandleLogin, HandleSessionResume, HandleRoomLeave,
               HandleLike, HandleRoomEnter, HandleComment, Reading
<1>3. \E label : pc' = [pc EXCEPT ![c] = label]
  BY <1>0, Zenon DEF Frame, Respond, HandleLogout, HandleLogin, HandleSessionResume,
                     HandleRoomLeave, HandleLike, HandleRoomEnter, HandleComment
<1> QED
  BY <1>1, <1>2, <1>3, ServedStep, Zenon

\* Only a connection that was opened is served.
LEMMA ServedNext == MapsInv /\ Served /\ [Next]_vars => Served'
<1> SUFFICES ASSUME MapsInv, Served, [Next]_vars PROVE Served'
  BY Zenon
<1>1. ASSUME NEW c \in Clients, ServeWS(c) PROVE Served'
  BY <1>1, Zenon DEF ServeWS, Served, MapsInv, Maps
<1>2. ASSUME NEW c \in Clients, Disconnect(c) PROVE Served'
  BY <1>2 DEF Disconnect, Served
<1>3. ASSUME NEW c \in Clients, ReadFails(c) PROVE Served'
  <2>1. pc[c] # "none" /\ conn' = conn /\ pc' = [pc EXCEPT ![c] = "done"]
    BY <1>3, Zenon DEF ReadFails, clientVars
  <2> QED
    BY <2>1, ServedStep, Zenon
<1>4. ASSUME UNCHANGED <<conn, pc>> PROVE Served'
  BY <1>4, Zenon DEF Served
<1>5. ASSUME NEW c \in Clients, Write(c) \/ DropSlow(c) \/ WindowMoves(c) PROVE UNCHANGED <<conn, pc>>
  BY <1>5, Zenon DEF Write, DropSlow, WindowMoves, clientVars
<1>6. ASSUME NEW r \in Rooms, LiveStatus(r) \/ ListExpires(r) PROVE UNCHANGED <<conn, pc>>
  BY <1>6, Zenon DEF LiveStatus, ListExpires, clientVars
<1>7. CASE BootRead \/ BootSet
  BY <1>4, <1>7 DEF BootRead, BootSet, clientVars
<1>8. CASE UNCHANGED vars
  BY <1>4, <1>8, Zenon DEF vars
<1> QED
  BY <1>1, <1>2, <1>3, <1>4, <1>5, <1>6, <1>7, <1>8, HandlerServed, FrameServed, Zenon DEF Next

Hist == HistTypes /\ Covered

\* A step that touches no history and leaves the handlers where they are.
LEMMA StillHist ==
    ASSUME MapsInv, Hist, UNCHANGED <<pc, job, msgId, list, table, replayed, got>>,
           full \subseteq full', queue' \in [Clients -> 0..QueueCap],
           \A d \in Clients, r \in Rooms : d \in members'[r] => d \in members[r]
    PROVE  Hist'
<1>1. HistTypes'
  BY Zenon DEF Hist, HistTypes, StoreTypes, LocalTypes, Fits
<1>2. ASSUME NEW e \in Clients PROVE Covered'
  BY CalmCovers, Zenon DEF Hist
<1>3. Clients = {} => Covered'
  BY Zenon DEF Covered
<1> QED
  BY <1>1, <1>2, <1>3, Zenon DEF Hist

\* A step of a handler that has nothing to send or to replay, and touches no
\* history.
LEMMA CalmHist ==
    ASSUME NEW e \in Clients, MapsInv, Hist, UNCHANGED <<list, table, replayed, got>>,
           \E S : msgId' \in Seq(S),
           full \subseteq full', queue' \in [Clients -> 0..QueueCap],
           NEW label \in PcValues, NEW locals \in Jobs, Fits(label, locals),
           pc' = [pc EXCEPT ![e] = label], job' = [job EXCEPT ![e] = locals],
           pc[e] \notin {"lpush", "ltrim", "snapshot", "send", "notice", "replay", "replaySend"},
           \A d \in Clients, r \in Rooms :
               d \in members'[r] => d \in members[r] \/ Awaits(d, r)'
    PROVE  Hist'
<1>1. LocalTypes'
  BY LocalStep, Zenon DEF Hist, HistTypes
<1>2. StoreTypes'
  BY Zenon DEF Hist, HistTypes, StoreTypes
<1>3. \A d \in Clients \ {e} : pc'[d] = pc[d] /\ job'[d] = job[d]
  BY Zenon DEF Hist, HistTypes, LocalTypes, MapsInv, Maps
<1>4. Covered'
  BY <1>3, CalmCovers, Zenon DEF Hist
<1> QED
  BY <1>1, <1>2, <1>4, Zenon DEF Hist, HistTypes

\* A client is taken out of its rooms.
LEMMA GoneHist ==
    ASSUME NEW e \in Clients, MapsInv, UnregisterAll(e)
    PROVE  \A d \in Clients, r \in Rooms : d \in members'[r] => d \in members[r]
  BY Zenon DEF UnregisterAll

\* Connections, the slow clients, and what happens around the hub.
LEMMA AroundHist ==
    ASSUME NEW e \in Clients, MapsInv, Served, Hist,
           ServeWS(e) \/ Disconnect(e) \/ ReadFails(e) \/ Write(e) \/ DropSlow(e) \/ WindowMoves(e)
    PROVE  Hist'
<1>0. queue \in [Clients -> 0..QueueCap] /\ (\E S : msgId \in Seq(S)) /\ job[e] \in Jobs
  BY Zenon DEF Hist, HistTypes, StoreTypes, LocalTypes
<1>1. CASE Disconnect(e) \/ WindowMoves(e)
  <2>1. UNCHANGED <<pc, job, msgId, list, table, replayed, got, full, queue, members>>
    BY <1>1, Zenon DEF Disconnect, WindowMoves, hubVars, sendVars, storeVars
  <2> QED
    BY <1>0, <2>1, StillHist, Zenon
<1>2. CASE Write(e)
  <2>1. /\ UNCHANGED <<pc, job, msgId, list, table, replayed, got, full, members>>
        /\ queue[e] > 0 /\ queue' = [queue EXCEPT ![e] = queue[e] - 1]
    BY <1>2, Zenon DEF Write, hubVars, storeVars
  <2>2. queue[e] - 1 \in 0..QueueCap
    BY <1>0, <2>1, ChatHubAssumption
  <2>3. queue' \in [Clients -> 0..QueueCap]
    BY <1>0, <2>1, <2>2, Zenon
  <2> QED
    BY <2>1, <2>3, StillHist, Zenon
<1>3. CASE DropSlow(e)
  <2>1. UNCHANGED <<pc, job, msgId, list, table, replayed, got, full, queue>> /\ UnregisterAll(e)
    BY <1>3, Zenon DEF DropSlow, sendVars, storeVars
  <2> QED
    BY <1>0, <2>1, GoneHist, StillHist, Zenon
<1>4. CASE ServeWS(e) \/ ReadFails(e)
  <2>1. /\ UNCHANGED <<job, msgId, list, table, replayed, got, full, queue>>
        /\ UNCHANGED members \/ UnregisterAll(e)
    BY <1>4, Zenon DEF ServeWS, ReadFails, hubVars, sendVars, storeVars
  <2>2. PICK label \in {"idle", "done"} : pc' = [pc EXCEPT ![e] = label]
    BY <1>4 DEF ServeWS, ReadFails
  <2>3. pc[e] \in {"none", "idle"}
    BY <1>4, Zenon DEF ServeWS, ReadFails, Served
  <2>4. job' = [job EXCEPT ![e] = job[e]]
    BY <2>1, Zenon DEF Hist, HistTypes, LocalTypes
  <2>5. label \in PcValues /\ Fits(label, job[e])
    BY <2>2, Zenon DEF PcValues, Fits
  <2>6. PICK locals \in Jobs : locals = job[e]
    BY <1>0, Zenon
  <2> QED
    BY <1>0, <2>1, <2>2, <2>3, <2>4, <2>5, <2>6, GoneHist, CalmHist, Zenon
<1> QED
  BY <1>1, <1>2, <1>3, <1>4, Zenon

\* The frames that readPump dispatches: an idle read pump has nothing to send.
LEMMA FrameHist ==
    ASSUME NEW e \in Clients, MapsInv, Hist, Frame(e)
    PROVE  Hist'
<1>0. queue \in [Clients -> 0..QueueCap] /\ (\E S : msgId \in Seq(S))
  BY Zenon DEF Hist, HistTypes, StoreTypes
<1>1. CASE Respond(e) \/ \E u : HandleLogin(e, u) \/ HandleSessionResume(e, u)
  <2>1. UNCHANGED <<pc, job, msgId, list, table, replayed, members>> /\ SendBinary(e)
    BY <1>1, Zenon DEF Respond, HandleLogin, HandleSessionResume, hubVars, storeVars
  <2>2. queue' \in [Clients -> 0..QueueCap] /\ got' = got /\ full \subseteq full'
    BY <1>0, <2>1, SendTypes, Zenon
  <2> QED
    BY <2>1, <2>2, StillHist, Zenon
<1>2. CASE HandleLogout(e)
  <2>1. UNCHANGED <<pc, job, msgId, list, table, replayed>> /\ SendBinary(e) /\ UnregisterAll(e)
    BY <1>2, Zenon DEF HandleLogout, storeVars
  <2>2. queue' \in [Clients -> 0..QueueCap] /\ got' = got /\ full \subseteq full'
    BY <1>0, <2>1, SendTypes, Zenon
  <2> QED
    BY <2>1, <2>2, GoneHist, StillHist, Zenon
<1>3. ASSUME NEW r \in Rooms, HandleRoomLeave(e, r) PROVE Hist'
  <2>1. /\ UNCHANGED <<msgId, list, table, replayed, queue, got, full>>
        /\ members' = [members EXCEPT ![r] = @ \ {e}]
        /\ pc[e] = "idle" /\ pc' = [pc EXCEPT ![e] = "snapshot"]
    BY <1>3 DEF HandleRoomLeave, Reading, LeaveRoom, sendVars, storeVars
  <2>2. PICK locals : locals = [NoJob EXCEPT !.op = "leave", !.room = r]
    BY Zenon
  <2>3. job' = [job EXCEPT ![e] = locals]
    BY <1>3, <2>2 DEF HandleRoomLeave
  <2>4. locals \in Jobs /\ Fits("snapshot", locals) /\ "snapshot" \in PcValues
    <3>1. locals \in Jobs /\ locals.room = r
      BY <2>2, NoLocals, Zenon DEF Jobs
    <3> QED
      BY <3>1 DEF Fits, PcValues
  <2>5. \A d \in Clients, q \in Rooms : d \in members'[q] => d \in members[q]
    BY <2>1 DEF MapsInv, Maps
  <2> QED
    BY <1>0, <2>1, <2>3, <2>4, <2>5, CalmHist, Zenon
<1>4. ASSUME NEW r \in Rooms, HandleLike(e, r) PROVE Hist'
  <2>1. /\ UNCHANGED <<msgId, list, table, replayed, members>> /\ SendBinary(e)
        /\ pc[e] = "idle" /\ pc' = [pc EXCEPT ![e] = "snapshot"]
    BY <1>4 DEF HandleLike, Reading, hubVars, storeVars
  <2>2. PICK locals : locals = [NoJob EXCEPT !.op = "like", !.room = r]
    BY Zenon
  <2>3. job' = [job EXCEPT ![e] = locals]
    BY <1>4, <2>2 DEF HandleLike
  <2>4. locals \in Jobs /\ Fits("snapshot", locals) /\ "snapshot" \in PcValues
    <3>1. locals \in Jobs /\ locals.room = r
      BY <2>2, NoLocals, Zenon DEF Jobs
    <3> QED
      BY <3>1 DEF Fits, PcValues
  <2>5. queue' \in [Clients -> 0..QueueCap] /\ got' = got /\ full \subseteq full'
    BY <1>0, <2>1, SendTypes
  <2> QED
    BY <1>0, <2>1, <2>3, <2>4, <2>5, CalmHist, Zenon
<1>5. ASSUME NEW r \in Rooms, NEW ok \in BOOLEAN, HandleRoomEnter(e, r, ok) PROVE Hist'
  <2>1. /\ UNCHANGED <<msgId, list, table, replayed, members>>
        /\ SendBinary(e) \/ UNCHANGED <<queue, got, full>>
        /\ pc[e] = "idle" /\ pc' = [pc EXCEPT ![e] = "join"]
    BY <1>5 DEF HandleRoomEnter, Reading, hubVars, sendVars, storeVars
  <2>2. PICK b \in BOOLEAN : b = (~ (ok /\ r \notin live) /\ who[e] # "guest" /\ r \notin rooms[e])
    BY Zenon
  <2>3. PICK locals : locals = [NoJob EXCEPT !.op = "enter", !.room = r, !.first = b]
    BY Zenon
  <2>4. job' = [job EXCEPT ![e] = locals]
    BY <1>5, <2>2, <2>3 DEF HandleRoomEnter
  <2>5. locals \in Jobs /\ Fits("join", locals) /\ "join" \in PcValues
    BY <2>3, EnterLocals, Zenon DEF Fits, PcValues
  <2>6. queue' \in [Clients -> 0..QueueCap] /\ got' = got /\ full \subseteq full'
    BY <1>0, <2>1, SendTypes
  <2> QED
    BY <1>0, <2>1, <2>4, <2>5, <2>6, CalmHist, Zenon
<1>6. ASSUME NEW r \in Rooms, NEW clean \in BOOLEAN, HandleComment(e, r, clean) PROVE Hist'
  <2>1. UNCHANGED <<msgId, list, table, replayed, members>> /\ pc[e] = "idle"
    BY <1>6 DEF HandleComment, Reading, hubVars, storeVars
  <2>2. CASE ~ clean
    <3>1. SendBinary(e) /\ UNCHANGED <<pc, job>>
      BY <1>6, <2>2 DEF HandleComment
    <3>2. queue' \in [Clients -> 0..QueueCap] /\ got' = got /\ full \subseteq full'
      BY <1>0, <3>1, SendTypes
    <3> QED
      BY <2>1, <3>1, <3>2, StillHist
  <2>3. CASE clean
    <3>1. UNCHANGED <<queue, got, full>> /\ pc' = [pc EXCEPT ![e] = "incr"]
      BY <1>6, <2>3 DEF HandleComment, sendVars
    <3>2. PICK locals : locals = [NoJob EXCEPT !.op = "comment", !.room = r]
      BY Zenon
    <3>3. job' = [job EXCEPT ![e] = locals]
      BY <1>6, <2>3, <3>2, Zenon DEF HandleComment
    <3>4. locals \in Jobs /\ Fits("incr", locals) /\ "incr" \in PcValues
      <4>1. locals \in Jobs /\ locals.room = r
        BY <3>2, NoLocals, Zenon DEF Jobs
      <4> QED
        BY <4>1, Zenon DEF Fits, PcValues
    <3> QED
      BY <1>0, <2>1, <3>1, <3>3, <3>4, CalmHist, Zenon
  <2> QED
    BY <2>2, <2>3
<1> QED
  BY <1>1, <1>2, <1>3, <1>4, <1>5, <1>6, Zenon DEF Frame, Outcomes

\* One more element.
LEMMA AppendAny ==
    ASSUME NEW s, \E S : s \in Seq(S), NEW x
    PROVE  Len(s) \in Nat /\ \E S : Append(s, x) \in Seq(S)
<1>1. PICK S : s \in Seq(S)
  OBVIOUS
<1>2. PICK T : T = S \cup {x}
  BY Zenon
<1>3. s \in Seq(T) /\ x \in T
  BY <1>1, <1>2
<1> QED
  BY <1>3

\* joinRoom: the client is in the room before it reads the history.
LEMMA JoinHist ==
    ASSUME NEW e \in Clients, MapsInv, Hist, Join(e)
    PROVE  Hist'
<1>1. /\ UNCHANGED <<job, msgId, list, table, replayed>> /\ SendBinary(e)
      /\ pc[e] = "join" /\ pc' = [pc EXCEPT ![e] = "snapshot"]
      /\ members' = [members EXCEPT ![job[e].room] = @ \cup {e}]
  BY Zenon DEF Join, JoinRoom, Goto, storeVars
<1>2. queue' \in [Clients -> 0..QueueCap] /\ got' = got /\ full \subseteq full'
  BY <1>1, SendTypes, Zenon DEF Hist, HistTypes, StoreTypes
<1>3. PICK locals \in Jobs : locals = job[e]
  BY DEF Hist, HistTypes, LocalTypes
<1>4. Fits("join", locals)
  BY <1>1, <1>3 DEF Hist, HistTypes, LocalTypes
<1>5. Fits("snapshot", locals) /\ "snapshot" \in PcValues
  BY <1>4, Zenon DEF Fits, PcValues
<1>6. job' = [job EXCEPT ![e] = locals]
  BY <1>1, <1>3, Zenon DEF Hist, HistTypes, LocalTypes
<1>7. ASSUME NEW d \in Clients, NEW r \in Rooms, d \in members'[r], d \notin members[r]
      PROVE  Awaits(d, r)'
  <2>1. d = e /\ r = job[e].room
    BY <1>1, <1>7, Zenon DEF MapsInv, Maps
  <2>2. pc'[e] = "snapshot" /\ job'[e] = locals
    BY <1>1, <1>3, Zenon DEF MapsInv, Maps
  <2> QED
    BY <1>3, <1>4, <2>1, <2>2, Zenon DEF Awaits, Fits
<1>8. \E S : msgId' \in Seq(S)
  BY <1>1, Zenon DEF Hist, HistTypes, StoreTypes
<1> QED
  BY <1>1, <1>2, <1>5, <1>6, <1>7, <1>8, CalmHist, Zenon

\* INCR, and the end of handleRoomLeave.
LEMMA IncrLeftHist ==
    ASSUME NEW e \in Clients, MapsInv, Hist, NEW ok \in BOOLEAN, Incr(e, ok) \/ Left(e)
    PROVE  Hist'
<1>0. queue \in [Clients -> 0..QueueCap] /\ (\E S : msgId \in Seq(S)) /\ job[e] \in Jobs
  BY Zenon DEF Hist, HistTypes, StoreTypes, LocalTypes
<1>1. CASE Left(e)
  <2>1. /\ UNCHANGED <<msgId, list, table, replayed, members>> /\ SendBinary(e)
        /\ pc[e] = "left" /\ pc' = [pc EXCEPT ![e] = "idle"] /\ job' = [job EXCEPT ![e] = NoJob]
    BY <1>1, Zenon DEF Left, Finish, hubVars, storeVars
  <2>2. queue' \in [Clients -> 0..QueueCap] /\ got' = got /\ full \subseteq full'
    BY <1>0, <2>1, SendTypes
  <2>3. NoJob \in Jobs /\ Fits("idle", NoJob) /\ "idle" \in PcValues
    BY NoLocals DEF Fits, PcValues
  <2> QED
    BY <1>0, <2>1, <2>2, <2>3, CalmHist, Zenon
<1>2. CASE Incr(e, ok)
  <2>1. /\ UNCHANGED <<list, table, replayed, members, queue, got, full>>
        /\ pc[e] = "incr" /\ pc' = [pc EXCEPT ![e] = "insert"]
        /\ job' = [job EXCEPT ![e] = [job[e] EXCEPT !.msg = Len(msgId) + 1]]
        /\ \E x : msgId' = Append(msgId, x)
    BY <1>2 DEF Incr, hubVars, sendVars
  <2>2. Len(msgId) \in Nat /\ \E S : msgId' \in Seq(S)
    <3>1. PICK x : msgId' = Append(msgId, x)
      BY <2>1
    <3>2. PICK s : s = msgId
      BY Zenon
    <3>3. Len(s) \in Nat /\ \E S : Append(s, x) \in Seq(S)
      <4>1. \E S : s \in Seq(S)
        BY <1>0, <3>2
      <4> QED
        BY <4>1, AppendAny, Zenon
    <3> QED
      BY <3>1, <3>2, <3>3
  <2>3. PICK n \in Nat : n = Len(msgId) + 1 /\ n # 0
    BY <2>2
  <2>4. PICK j \in Jobs : j = job[e]
    BY <1>0
  <2>5. PICK k \in Jobs : k = [j EXCEPT !.msg = n] /\ k.msg = n /\ k.room = j.room
    BY LocalsMsg
  <2>6. job' = [job EXCEPT ![e] = k]
    BY <2>1, <2>3, <2>4, <2>5
  <2>7. Fits("incr", j)
    BY <2>1, <2>4 DEF Hist, HistTypes, LocalTypes
  <2>8. Fits("insert", k) /\ "insert" \in PcValues
    BY <2>3, <2>5, <2>7 DEF Fits, PcValues
  <2> QED
    BY <1>0, <2>1, <2>2, <2>6, <2>8, CalmHist, Zenon
<1> QED
  BY <1>1, <1>2, Zenon

\* A step of a handler that may have something to send, but no replay.
LEMMA WorkHist ==
    ASSUME NEW e \in Clients, MapsInv, Hist, StoreTypes', UNCHANGED members, full \subseteq full',
           \A d \in Clients : got[d] \subseteq got'[d],
           NEW label \in PcValues, NEW locals \in Jobs, Fits(label, locals),
           pc' = [pc EXCEPT ![e] = label], job' = [job EXCEPT ![e] = locals],
           pc[e] # "replaySend",
           \A r \in Rooms : Awaits(e, r) => Awaits(e, r)',
           \A d \in Clients, r \in Rooms :
               \A m \in Source(d, r)' : m \in Source(d, r) \/ Has(d, r, m)',
           \A d \in Clients \ full', r \in Rooms, m \in Msgs :
               d \in members[r] /\ Sending(e, d, r, m) => Sending(e, d, r, m)' \/ m \in got'[d]
    PROVE  Hist'
<1>1. LocalTypes'
  BY LocalStep, Zenon DEF Hist, HistTypes
<1>2. \A d \in Clients \ {e} : pc'[d] = pc[d] /\ job'[d] = job[d]
  BY Zenon DEF Hist, HistTypes, LocalTypes, MapsInv, Maps
<1>3. \A d \in Clients \ full', r \in Rooms : \A m \in Source(d, r) :
         d \in members[r] /\ Sending(e, d, r, m) => Sending(e, d, r, m)' \/ m \in got'[d]
  BY SourceMsgs, Zenon DEF Hist
<1>4. \A r \in Rooms : \A m : ~ HasRead(e, r, m)
  BY Zenon DEF HasRead
<1>5. Covered'
  BY <1>2, <1>3, <1>4, StepCovers, Zenon DEF Hist
<1> QED
  BY <1>1, <1>5, Zenon DEF Hist, HistTypes

\* If the stores stay, so do the sources.
LEMMA SameSource ==
    ASSUME UNCHANGED <<list, table, replayed>>
    PROVE  \A d \in Clients, r \in Rooms : Source(d, r)' = Source(d, r)
  BY ZenonT(30) DEF Source, Recent, Newest

\* broadcast returns; handleRoomEnter goes on to its replay.
LEMMA EndHist ==
    ASSUME NEW e \in Clients, LocalTypes, pc[e] \in {"snapshot", "send"}, EndBroadcast(e)
    PROVE  \E label \in PcValues, locals \in Jobs :
              /\ pc' = [pc EXCEPT ![e] = label] /\ job' = [job EXCEPT ![e] = locals]
              /\ Fits(label, locals)
              /\ job[e].op = "enter" =>
                    label \in {"notice", "replay"} /\ locals.op = "enter" /\ locals.room = job[e].room
<1>1. PICK j \in Jobs : j = job[e] /\ Fits(pc[e], j)
  BY Zenon DEF LocalTypes
<1>2. CASE AfterBroadcast(e) = "idle"
  <2>1. pc' = [pc EXCEPT ![e] = "idle"] /\ job' = [job EXCEPT ![e] = NoJob] /\ j.op # "enter"
    BY <1>1, <1>2, Zenon DEF EndBroadcast, AfterBroadcast, Finish
  <2>2. NoJob \in Jobs /\ Fits("idle", NoJob) /\ "idle" \in PcValues
    BY NoLocals, Zenon DEF Fits, PcValues
  <2> QED
    BY <1>1, <2>1, <2>2, Zenon
<1>3. CASE AfterBroadcast(e) # "idle"
  <2>1. PICK label \in {"notice", "replay", "left"} :
           label = AfterBroadcast(e) /\ (j.op = "enter" => label # "left")
    BY <1>1, <1>3 DEF AfterBroadcast
  <2>2. PICK k \in Jobs :
           /\ k = [j EXCEPT !.to = {}]
           /\ k.to = {} /\ k.op = j.op /\ k.room = j.room /\ k.msg = j.msg
    BY LocalsTo, Zenon
  <2>3. pc' = [pc EXCEPT ![e] = label] /\ job' = [job EXCEPT ![e] = k]
    BY <1>1, <1>3, <2>1, <2>2 DEF EndBroadcast
  <2>4. label \in PcValues /\ Fits(label, k)
    BY <1>1, <2>1, <2>2 DEF Fits, PcValues
  <2> QED
    BY <1>1, <2>1, <2>2, <2>3, <2>4, Zenon
<1> QED
  BY <1>2, <1>3, Zenon

\* The members are copied: all that are in the room will get the comment.
LEMMA SnapshotHist ==
    ASSUME NEW e \in Clients, MapsInv, Hist, Snapshot(e)
    PROVE  Hist'
<1>0. /\ pc[e] = "snapshot" /\ LocalTypes /\ StoreTypes
      /\ UNCHANGED <<members, queue, got, full, msgId, list, table, replayed>>
  BY Zenon DEF Snapshot, hubVars, sendVars, storeVars, Hist, HistTypes
<1>1. StoreTypes'
  BY <1>0, Zenon DEF StoreTypes
<1>2. PICK j \in Jobs : j = job[e] /\ Fits("snapshot", j)
  BY <1>0, Zenon DEF LocalTypes
<1>3. CASE members[j.room] = {}
  <2>1. EndBroadcast(e)
    BY <1>2, <1>3 DEF Snapshot
  <2>2. PICK label \in PcValues, locals \in Jobs :
           /\ pc' = [pc EXCEPT ![e] = label] /\ job' = [job EXCEPT ![e] = locals]
           /\ Fits(label, locals)
           /\ job[e].op = "enter" =>
                 label \in {"notice", "replay"} /\ locals.op = "enter" /\ locals.room = job[e].room
    BY <1>0, <2>1, EndHist, Zenon
  <2>3. pc'[e] = label /\ job'[e] = locals
    BY <1>0, <2>2, Zenon DEF MapsInv, Maps, LocalTypes
  <2>4. \A r \in Rooms : Awaits(e, r) => Awaits(e, r)'
    BY <2>2, <2>3, Zenon DEF Awaits
  <2>5. \A d \in Clients, r \in Rooms : \A m : d \in members[r] => ~ Sending(e, d, r, m)
    BY <1>2, <1>3, Zenon DEF Sending
  <2> QED
    BY <1>0, <1>1, <2>2, <2>4, <2>5, SameSource, WorkHist, Zenon
<1>4. CASE members[j.room] # {}
  <2>1. /\ pc' = [pc EXCEPT ![e] = "send"]
        /\ job' = [job EXCEPT ![e] = [j EXCEPT !.to = members[j.room]]]
    BY <1>2, <1>4, Zenon DEF Snapshot
  <2>2. j.room \in Rooms
    BY <1>2, Zenon DEF Fits
  <2>3. PICK S \in SUBSET Clients : S = members[j.room]
    BY <2>2, Zenon DEF MapsInv, Maps
  <2>4. PICK k \in Jobs :
           /\ k = [j EXCEPT !.to = S]
           /\ k.to = S /\ k.op = j.op /\ k.room = j.room /\ k.msg = j.msg
    BY LocalsTo, Zenon
  <2>5. job' = [job EXCEPT ![e] = k]
    BY <2>1, <2>3, <2>4
  <2>6. "send" \in PcValues /\ Fits("send", k)
    BY <2>2, <2>4 DEF Fits, PcValues
  <2>7. pc'[e] = "send" /\ job'[e] = k
    BY <1>0, <2>1, <2>5 DEF MapsInv, Maps, LocalTypes
  <2>8. \A r \in Rooms : Awaits(e, r) => Awaits(e, r)'
    BY <1>2, <2>4, <2>7, Zenon DEF Awaits
  <2>9. \A d \in Clients, r \in Rooms : \A m :
           d \in members[r] /\ Sending(e, d, r, m) => Sending(e, d, r, m)'
    BY <1>2, <2>3, <2>4, <2>7, Zenon DEF Sending
  <2> QED
    BY <1>0, <1>1, <2>1, <2>5, <2>6, <2>8, <2>9, SameSource, WorkHist, Zenon
<1> QED
  BY <1>3, <1>4, Zenon

\* The next member gets the comment, or its queue is full.
LEMMA SendToHist ==
    ASSUME NEW e \in Clients, NEW c \in Clients, MapsInv, Hist, SendTo(e, c)
    PROVE  Hist'
<1>0. /\ pc[e] = "send" /\ c \in job[e].to /\ LocalTypes /\ StoreTypes
      /\ UNCHANGED <<members, msgId, list, table, replayed>>
  BY Zenon DEF SendTo, hubVars, storeVars, Hist, HistTypes
<1>1. PICK j \in Jobs : j = job[e] /\ Fits("send", j)
  BY <1>0, Zenon DEF LocalTypes
<1>2. /\ queue' \in [Clients -> 0..QueueCap] /\ DOMAIN got' = Clients /\ full \subseteq full'
      /\ \A d \in Clients : got[d] \subseteq got'[d]
      /\ c \in full' \/ \A m \in Msgs : m = j.msg => m \in got'[c]
  <2>1. CASE queue[c] < QueueCap
    <3>1. /\ queue' = [queue EXCEPT ![c] = queue[c] + 1] /\ full' = full
          /\ got' = [got EXCEPT ![c] = got[c] \cup ({j.msg} \ {0})]
      BY <1>1, <2>1, Zenon DEF SendTo
    <3>2. queue[c] + 1 \in 0..QueueCap
      BY <1>0, <2>1, ChatHubAssumption DEF StoreTypes
    <3>3. queue' \in [Clients -> 0..QueueCap]
      BY <1>0, <3>1, <3>2, Zenon DEF StoreTypes
    <3>4. DOMAIN got' = Clients /\ got'[c] = got[c] \cup ({j.msg} \ {0})
          /\ \A d \in Clients : got[d] \subseteq got'[d]
      BY <1>0, <3>1, Zenon DEF StoreTypes
    <3> QED
      BY <3>1, <3>3, <3>4, Zenon DEF Msgs
  <2>2. CASE ~ (queue[c] < QueueCap)
    BY <1>0, <2>2, Zenon DEF SendTo, StoreTypes
  <2> QED
    BY <2>1, <2>2, Zenon
<1>3. StoreTypes'
  BY <1>0, <1>2, Zenon DEF StoreTypes
<1>4. CASE j.to = {c}
  <2>1. EndBroadcast(e)
    BY <1>1, <1>4, Zenon DEF SendTo
  <2>2. PICK label \in PcValues, locals \in Jobs :
           /\ pc' = [pc EXCEPT ![e] = label] /\ job' = [job EXCEPT ![e] = locals]
           /\ Fits(label, locals)
           /\ job[e].op = "enter" =>
                 label \in {"notice", "replay"} /\ locals.op = "enter" /\ locals.room = job[e].room
    BY <1>0, <2>1, EndHist, Zenon
  <2>3. pc'[e] = label /\ job'[e] = locals
    BY <1>0, <2>2, Zenon DEF MapsInv, Maps, LocalTypes
  <2>4. \A r \in Rooms : Awaits(e, r) => Awaits(e, r)'
    BY <2>2, <2>3, SMTT(30) DEF Awaits
  <2>5. \A d \in Clients \ full', r \in Rooms, m \in Msgs : Sending(e, d, r, m) => m \in got'[d]
    BY <1>0, <1>1, <1>2, <1>4, Zenon DEF Sending
  <2> QED
    BY <1>0, <1>2, <1>3, <2>2, <2>4, <2>5, SameSource, WorkHist, Zenon
<1>5. CASE j.to # {c}
  <2>1. pc' = pc /\ job' = [job EXCEPT ![e] = [j EXCEPT !.to = j.to \ {c}]]
    BY <1>1, <1>5 DEF SendTo
  <2>2. PICK S \in SUBSET Clients : S = j.to \ {c}
    BY <1>1, Zenon DEF Jobs
  <2>3. PICK k \in Jobs :
           /\ k = [j EXCEPT !.to = S]
           /\ k.to = S /\ k.op = j.op /\ k.room = j.room /\ k.msg = j.msg
    BY LocalsTo, Zenon
  <2>4. job' = [job EXCEPT ![e] = k] /\ pc' = [pc EXCEPT ![e] = "send"]
    BY <1>0, <2>1, <2>2, <2>3, Zenon DEF MapsInv, Maps
  <2>5. "send" \in PcValues /\ Fits("send", k)
    BY <1>1, <2>3, Zenon DEF Fits, PcValues
  <2>6. pc'[e] = "send" /\ job'[e] = k
    BY <1>0, <2>4, Zenon DEF MapsInv, Maps, LocalTypes
  <2>7. \A r \in Rooms : Awaits(e, r) => Awaits(e, r)'
    BY <1>1, <2>3, <2>6, Zenon DEF Awaits
  <2>8. \A d \in Clients \ full', r \in Rooms, m \in Msgs :
           Sending(e, d, r, m) => Sending(e, d, r, m)' \/ m \in got'[d]
    BY <1>0, <1>1, <1>2, <2>2, <2>3, <2>6, Zenon DEF Sending
  <2> QED
    BY <1>0, <1>2, <1>3, <2>4, <2>5, <2>7, <2>8, SameSource, WorkHist, Zenon
<1> QED
  BY <1>4, <1>5, Zenon

\* broadcastEnterNotice.
LEMMA NoticeHist ==
    ASSUME NEW e \in Clients, MapsInv, Hist, Notice(e)
    PROVE  Hist'
<1>0. /\ pc[e] = "notice" /\ LocalTypes /\ StoreTypes
      /\ UNCHANGED <<members, queue, got, full, msgId, list, table, replayed>>
      /\ pc' = [pc EXCEPT ![e] = "snapshot"]
  BY Zenon DEF Notice, hubVars, sendVars, storeVars, Hist, HistTypes
<1>1. StoreTypes'
  BY <1>0 DEF StoreTypes
<1>2. PICK j \in Jobs : j = job[e] /\ Fits("notice", j)
  BY <1>0 DEF LocalTypes
<1>3. PICK k \in Jobs :
         k = [j EXCEPT !.first = FALSE] /\ k.op = j.op /\ k.room = j.room /\ k.msg = j.msg
  BY LocalsFirst
<1>4. job' = [job EXCEPT ![e] = k]
  BY <1>2, <1>3, Zenon DEF Notice
<1>5. "snapshot" \in PcValues /\ Fits("snapshot", k)
  BY <1>2, <1>3, Zenon DEF Fits, PcValues
<1>6. pc'[e] = "snapshot" /\ job'[e] = k
  BY <1>0, <1>4, Zenon DEF MapsInv, Maps, LocalTypes
<1>7. \A r \in Rooms : Awaits(e, r) => Awaits(e, r)'
  BY <1>2, <1>3, <1>6, Zenon DEF Awaits
<1>8. \A d \in Clients, r \in Rooms : \A m : ~ Sending(e, d, r, m)
  BY <1>0, Zenon DEF Sending
<1> QED
  BY <1>0, <1>1, <1>4, <1>5, <1>7, <1>8, SameSource, WorkHist, Zenon

\* INSERT: the new comment is still to be sent to everybody in the room.
LEMMA InsertHist ==
    ASSUME NEW e \in Clients, NEW ok \in BOOLEAN, MapsInv, Hist, Insert(e, ok)
    PROVE  Hist'
<1>0. /\ pc[e] = "insert" /\ LocalTypes /\ StoreTypes
      /\ UNCHANGED <<job, members, queue, got, full, msgId, list, replayed>>
      /\ pc' = [pc EXCEPT ![e] = "lpush"]
  BY DEF Insert, Goto, hubVars, sendVars, Hist, HistTypes
<1>1. PICK j \in Jobs : j = job[e] /\ Fits("insert", j)
  BY <1>0 DEF LocalTypes
<1>2. j.msg \in Msgs /\ j.room \in Rooms
  BY <1>1 DEF Fits, Jobs, Msgs
<1>3a. PICK added : added = [msg |-> j.msg, room |-> j.room]
  BY Zenon
<1>3. added \in [msg : Msgs, room : Rooms] /\ added.msg = j.msg /\ added.room = j.room
  BY <1>2, <1>3a, Zenon
<1>4. table' = table \/ table' = table \cup {added}
  BY <1>1, <1>3a, Zenon DEF Insert
<1>5. table' \subseteq [msg : Msgs, room : Rooms]
  BY <1>0, <1>3, <1>4, Zenon DEF StoreTypes
<1>6. StoreTypes'
  BY <1>0, <1>5 DEF StoreTypes
<1>7. ASSUME NEW r \in Rooms, NEW m \in Newest(r)', m \notin Newest(r) PROVE r = j.room /\ m = j.msg
  <2>1. PICK A, B : A = StoredIn(table, r) /\ B = StoredIn(table', r)
    OBVIOUS
  <2>2. A \subseteq B
    BY <1>4, <2>1, Zenon DEF StoredIn
  <2>4. m \in NewestOf(B)
    BY <2>1, Zenon DEF Newest, NewestOf, StoredIn
  <2>5. m \notin NewestOf(A)
    BY <1>7, <2>1, Zenon DEF Newest, NewestOf, StoredIn
  <2>6. m \notin A /\ m \in B
    BY <2>2, <2>4, <2>5, NewestGrows, Zenon DEF NewestOf
  <2>7. PICK row \in table' : row.room = r /\ row.msg = m
    BY <2>1, <2>6 DEF StoredIn
  <2>8. row \notin table
    BY <2>1, <2>6, <2>7, Zenon DEF StoredIn
  <2> QED
    BY <1>3, <1>4, <2>7, <2>8
<1>8. pc'[e] = "lpush" /\ job'[e] = j
  BY <1>0, <1>1, Zenon DEF MapsInv, Maps
<1>9. \A d \in Clients : Has(d, j.room, j.msg)'
  BY <1>8, Zenon DEF Has, Coming, Sending
<1>10. ASSUME NEW d \in Clients, NEW r \in Rooms, NEW m \in Source(d, r)'
       PROVE  m \in Source(d, r) \/ Has(d, r, m)'
  <2>1. (m \in Newest(r)' => m \in Newest(r)) => m \in Source(d, r)
    BY <1>0, Zenon DEF Source, Recent
  <2> QED
    BY <1>7, <1>9, <2>1, Zenon
<1>11. \A r \in Rooms : ~ Awaits(e, r)
  BY <1>0, ZenonT(30) DEF Awaits
<1>12. \A d \in Clients, r \in Rooms : \A m : ~ Sending(e, d, r, m)
  BY <1>0, Zenon DEF Sending
<1>13. job' = [job EXCEPT ![e] = j] /\ "lpush" \in PcValues /\ Fits("lpush", j)
  BY <1>0, <1>1, Zenon DEF LocalTypes, Fits, PcValues
<1> QED
  BY <1>0, <1>6, <1>10, <1>11, <1>12, <1>13, WorkHist, Zenon

\* A list after LPUSH, LTRIM or its expiry: what it shows was shown before, or is
\* the new comment.
LEMMA ListChange ==
    ASSUME NEW r \in Rooms, StoreTypes, StoreTypes', UNCHANGED <<table, replayed>>, NEW X,
           \A i \in 1..Len(list'[r]) : i <= HistoryLim + 1 =>
               \/ list'[r][i] \in X
               \/ \E k \in 1..Len(list[r]) : k <= HistoryLim + 1 /\ list[r][k] = list'[r][i],
           NEW d \in Clients, NEW m \in Source(d, r)'
    PROVE  m \in Source(d, r) \/ m \in X
<1>1. ASSUME m \in Range(Recent(r)') PROVE m \in Range(Recent(r)) \/ m \in X
  <2>1. PICK s \in Seq(Msgs) : s = list'[r]
    BY Zenon DEF StoreTypes
  <2>2. PICK t \in Seq(Msgs) :
           /\ t = SubSeq(s, 1, Min({HistoryLim + 1, Len(s)}))
           /\ \A n : n \in Range(t) <=> \E i \in 1..Len(s) : i <= HistoryLim + 1 /\ s[i] = n
    BY RecentOf, Zenon
  <2>3. t = Recent(r)'
    BY <2>1, <2>2, Zenon DEF Recent
  <2>4. PICK i \in 1..Len(s) : i <= HistoryLim + 1 /\ s[i] = m
    BY <1>1, <2>2, <2>3, Zenon
  <2>5. m \in X \/ \E k \in 1..Len(list[r]) : k <= HistoryLim + 1 /\ list[r][k] = m
    BY <2>1, <2>4, Zenon
  <2> QED
    BY <2>5, RecentFacts, Zenon
<1>2. Newest(r)' = Newest(r)
  BY Zenon DEF Newest
<1>3. \/ <<r, "list">> \in replayed[d] /\ m \in Range(Recent(r)')
      \/ <<r, "table">> \in replayed[d] /\ m \in Newest(r)
  <2>1. m \in (IF <<r, "list">> \in replayed[d] THEN Range(Recent(r)') ELSE {}) \cup
             (IF <<r, "table">> \in replayed[d] THEN Newest(r)' ELSE {})
    BY Zenon DEF Source, Recent
  <2> QED
    BY <1>2, <2>1, Zenon
<1> QED
  BY <1>1, <1>3, Zenon DEF Source

\* One more element, in front.
LEMMA PushFront ==
    ASSUME NEW s \in Seq(Msgs), NEW m \in Msgs
    PROVE  \E t \in Seq(Msgs) :
              /\ t = <<m>> \o s
              /\ \A i \in 1..Len(t) : \/ t[i] = m
                                     \/ \E k \in 1..Len(s) : k <= i /\ s[k] = t[i]
<1>0. <<m>> \in Seq(Msgs)
  OBVIOUS
<1>1. PICK u \in Seq(Msgs) : u = <<m>> /\ Len(u) = 1 /\ u[1] = m
  BY <1>0, Zenon
<1>2. PICK t : t = u \o s
  BY Zenon
<1>3. /\ t \in Seq(Msgs) /\ Len(t) = Len(u) + Len(s)
      /\ \A i \in 1..Len(u) + Len(s) : t[i] = IF i <= Len(u) THEN u[i] ELSE s[i - Len(u)]
  BY <1>2
<1>4. ASSUME NEW i \in 1..Len(t) PROVE t[i] = m \/ \E k \in 1..Len(s) : k <= i /\ s[k] = t[i]
  <2>1. t[i] = IF i <= 1 THEN u[i] ELSE s[i - 1]
    BY <1>1, <1>3
  <2>2. i > 1 => i - 1 \in 1..Len(s) /\ i - 1 <= i
    BY <1>1, <1>3
  <2>3. i <= 1 => i = 1
    BY <1>3
  <2> QED
    BY <1>1, <2>1, <2>2, <2>3
<1> QED
  BY <1>1, <1>2, <1>3, <1>4, Zenon

\* LPUSH: the comment in front is still to be sent to everybody in the room.
LEMMA LpushHist ==
    ASSUME NEW e \in Clients, NEW ok \in BOOLEAN, MapsInv, Hist, Lpush(e, ok)
    PROVE  Hist'
<1>0. /\ pc[e] = "lpush" /\ LocalTypes /\ StoreTypes
      /\ UNCHANGED <<job, members, queue, got, full, msgId, table, replayed>>
      /\ pc' = [pc EXCEPT ![e] = "ltrim"]
  BY Zenon DEF Lpush, Goto, hubVars, sendVars, Hist, HistTypes
<1>1. PICK j \in Jobs : j = job[e] /\ Fits("lpush", j)
  BY <1>0 DEF LocalTypes
<1>2. j.msg \in Msgs /\ j.room \in Rooms
  BY <1>1 DEF Fits, Jobs, Msgs
<1>3. PICK s \in Seq(Msgs) : s = list[j.room]
  BY <1>0, <1>2 DEF StoreTypes
<1>4. PICK t \in Seq(Msgs) :
         /\ t = <<j.msg>> \o s
         /\ \A i \in 1..Len(t) : \/ t[i] = j.msg
                                \/ \E k \in 1..Len(s) : k <= i /\ s[k] = t[i]
  BY <1>2, PushFront, Zenon
<1>5. list' = list \/ list' = [list EXCEPT ![j.room] = t]
  BY <1>1, <1>3, <1>4, Zenon DEF Lpush
<1>6. StoreTypes'
  BY <1>0, <1>5, Zenon DEF StoreTypes
<1>7. pc'[e] = "ltrim" /\ job'[e] = j
  BY <1>0, <1>1, Zenon DEF MapsInv, Maps
<1>8. \A d \in Clients : Has(d, j.room, j.msg)'
  BY <1>7, Zenon DEF Has, Coming, Sending
<1>9. ASSUME NEW d \in Clients, NEW r \in Rooms, NEW m \in Source(d, r)'
      PROVE  m \in Source(d, r) \/ Has(d, r, m)'
  <2>1. CASE list'[r] = list[r]
    <3>1. Source(d, r)' = Source(d, r)
      BY <1>0, <2>1, Zenon DEF Source, Recent, Newest
    <3> QED
      BY <3>1, Zenon
  <2>2. CASE list'[r] # list[r]
    <3>1. r = j.room /\ list'[r] = t
      BY <1>0, <1>5, <2>2, Zenon DEF StoreTypes
    <3>2. ASSUME NEW i \in 1..Len(t), i <= HistoryLim + 1
          PROVE  t[i] = j.msg \/ \E k \in 1..Len(s) : k <= HistoryLim + 1 /\ s[k] = t[i]
      <4>1. ASSUME NEW k \in 1..Len(s), k <= i PROVE k <= HistoryLim + 1
        <5>1. Len(s) \in Nat /\ Len(t) \in Nat /\ HistoryLim \in Nat
          BY ChatHubAssumption
        <5>2. i \in Nat /\ k \in Nat /\ k <= i /\ i <= HistoryLim + 1
          BY <3>2, <4>1, <5>1
        <5> QED
          BY <5>1, <5>2
      <4> QED
        BY <1>4, <4>1, Zenon
    <3>3. \A i \in 1..Len(list'[r]) : i <= HistoryLim + 1 =>
             \/ list'[r][i] \in {j.msg}
             \/ \E k \in 1..Len(list[r]) : k <= HistoryLim + 1 /\ list[r][k] = list'[r][i]
      BY <1>3, <3>1, <3>2, Zenon
    <3>4. m \in Source(d, r) \/ m \in {j.msg}
      BY <1>0, <1>6, <3>3, ListChange, Zenon
    <3> QED
      BY <1>8, <3>1, <3>4, Zenon
  <2> QED
    BY <2>1, <2>2, Zenon
<1>10. \A r \in Rooms : ~ Awaits(e, r)
  BY <1>0, Zenon DEF Awaits
<1>11. \A d \in Clients, r \in Rooms : \A m : Sending(e, d, r, m) => Sending(e, d, r, m)'
  BY <1>0, <1>1, <1>7, Zenon DEF Sending
<1>12. job' = [job EXCEPT ![e] = j] /\ "ltrim" \in PcValues /\ Fits("ltrim", j)
  BY <1>0, <1>1, Zenon DEF LocalTypes, Fits, PcValues
<1> QED
  BY <1>0, <1>6, <1>9, <1>10, <1>11, <1>12, WorkHist, Zenon

\* LTRIM shortens the list, before the broadcast.
LEMMA LtrimHist ==
    ASSUME NEW e \in Clients, NEW ok \in BOOLEAN, MapsInv, Hist, Ltrim(e, ok)
    PROVE  Hist'
<1>0. /\ pc[e] = "ltrim" /\ LocalTypes /\ StoreTypes /\ SendBinary(e)
      /\ UNCHANGED <<job, members, msgId, table, replayed>>
      /\ pc' = [pc EXCEPT ![e] = "snapshot"]
  BY DEF Ltrim, Goto, hubVars, Hist, HistTypes
<1>1. PICK j \in Jobs : j = job[e] /\ Fits("ltrim", j)
  BY <1>0 DEF LocalTypes
<1>2. j.room \in Rooms
  BY <1>1 DEF Fits
<1>3. PICK s \in Seq(Msgs) : s = list[j.room]
  BY <1>0, <1>2 DEF StoreTypes
<1>4. PICK t \in Seq(Msgs) :
         /\ t = SubSeq(s, 1, Min({HistoryLim, Len(s)}))
         /\ \A i \in 1..Len(t) : i \in 1..Len(s) /\ i <= HistoryLim /\ t[i] = s[i]
         /\ \A i \in 1..Len(s) : i <= HistoryLim => i \in 1..Len(t)
  BY Prefix, ChatHubAssumption, Zenon
<1>5. list' = list \/ list' = [list EXCEPT ![j.room] = t]
  BY <1>1, <1>3, <1>4, Zenon DEF Ltrim
<1>6. queue' \in [Clients -> 0..QueueCap] /\ got' = got /\ full \subseteq full'
  BY <1>0, SendTypes DEF StoreTypes
<1>7. StoreTypes'
  BY <1>0, <1>5, <1>6, Zenon DEF StoreTypes
<1>8. pc'[e] = "snapshot" /\ job'[e] = j
  BY <1>0, <1>1 DEF MapsInv, Maps
<1>9. ASSUME NEW d \in Clients, NEW r \in Rooms, NEW m \in Source(d, r)'
      PROVE  m \in Source(d, r)
  <2>1. CASE list'[r] = list[r]
    <3>1. Source(d, r)' = Source(d, r)
      BY <1>0, <2>1, Zenon DEF Source, Recent, Newest
    <3> QED
      BY <3>1
  <2>2. CASE list'[r] # list[r]
    <3>1. r = j.room /\ list'[r] = t
      BY <1>0, <1>5, <2>2 DEF StoreTypes
    <3>2. \A i \in 1..Len(t) : i <= HistoryLim + 1 =>
             \E k \in 1..Len(s) : k <= HistoryLim + 1 /\ s[k] = t[i]
      BY <1>4, Zenon
    <3>3. \A i \in 1..Len(list'[r]) : i <= HistoryLim + 1 =>
             \/ list'[r][i] \in {}
             \/ \E k \in 1..Len(list[r]) : k <= HistoryLim + 1 /\ list[r][k] = list'[r][i]
      BY <1>3, <3>1, <3>2, Zenon
    <3>4. m \in Source(d, r) \/ m \in {}
      BY <1>0, <1>7, <3>3, ListChange, Zenon
    <3> QED
      BY <3>4
  <2> QED
    BY <2>1, <2>2, Zenon
<1>10. \A r \in Rooms : ~ Awaits(e, r)
  BY <1>0, Zenon DEF Awaits
<1>11. \A d \in Clients, r \in Rooms : \A m : Sending(e, d, r, m) => Sending(e, d, r, m)'
  BY <1>0, <1>1, <1>8, Zenon DEF Sending
<1>12. job' = [job EXCEPT ![e] = j] /\ "snapshot" \in PcValues /\ Fits("snapshot", j)
  BY <1>0, <1>1, Zenon DEF LocalTypes, Fits, PcValues
<1> QED
  BY <1>0, <1>6, <1>7, <1>9, <1>10, <1>11, <1>12, WorkHist, Zenon

\* A list expires: nothing of it is shown any more.
LEMMA ExpireHist ==
    ASSUME NEW q \in Rooms, MapsInv, Hist, ListExpires(q)
    PROVE  Hist'
<1>0. /\ LocalTypes /\ StoreTypes
      /\ UNCHANGED <<pc, job, members, queue, got, full, msgId, table, replayed>>
      /\ list' = [list EXCEPT ![q] = << >>]
  BY DEF ListExpires, hubVars, sendVars, Hist, HistTypes
<1>1. StoreTypes' /\ LocalTypes'
  <2>1. << >> \in Seq(Msgs)
    OBVIOUS
  <2>2. list' \in [Rooms -> Seq(Msgs)]
    BY <1>0, <2>1, Zenon DEF StoreTypes
  <2>3. StoreTypes'
    BY <1>0, <2>2, Zenon DEF StoreTypes
  <2>4. LocalTypes'
    BY <1>0, Zenon DEF LocalTypes, Fits
  <2> QED
    BY <2>3, <2>4
<1>2. ASSUME NEW d \in Clients, NEW r \in Rooms, NEW m \in Source(d, r)'
      PROVE  m \in Source(d, r)
  <2>1. list'[r] = list[r] \/ list'[r] = << >>
    BY <1>0, Zenon DEF StoreTypes
  <2>2. \A i \in 1..Len(list'[r]) : i <= HistoryLim + 1 =>
           \/ list'[r][i] \in {}
           \/ \E k \in 1..Len(list[r]) : k <= HistoryLim + 1 /\ list[r][k] = list'[r][i]
    BY <2>1
  <2>3. m \in Source(d, r) \/ m \in {}
    BY <1>0, <1>1, <2>2, ListChange, Zenon
  <2> QED
    BY <2>3, Zenon
<1>3. ASSUME NEW e \in Clients PROVE Covered'
  <2>1. \A r \in Rooms : Awaits(e, r) => Awaits(e, r)'
    BY <1>0, Zenon DEF Awaits
  <2>2. \A d \in Clients, r \in Rooms : \A m : Sending(e, d, r, m) => Sending(e, d, r, m)'
    BY <1>0, Zenon DEF Sending
  <2>3. \A r \in Rooms : \A m : HasRead(e, r, m) => HasRead(e, r, m)'
    BY <1>0, Zenon DEF HasRead
  <2> QED
    BY <1>0, <1>2, <2>1, <2>2, <2>3, StepCovers, Zenon DEF Hist
<1>4. Clients = {} => Covered'
  BY Zenon DEF Covered
<1> QED
  BY <1>1, <1>3, <1>4 DEF Hist, HistTypes

\* The handler of client c has read into its locals all that a replay of room
\* r shows.
Found(c, r) ==
    \E v \in Seq(Msgs) :
       /\ job' = [job EXCEPT ![c] = [job[c] EXCEPT !.vals = v]]
       /\ \A m \in Source(c, r)' : \E i \in 1..Len(v) : v[i] = m

\* replayHistory reads all that its source shows.
LEMMA ReplayReads ==
    ASSUME NEW e \in Clients, NEW redisOk \in BOOLEAN, NEW dbOk \in BOOLEAN, StoreTypes,
           ReplayRead(e, redisOk, dbOk), NEW r \in Rooms, r = job[e].room
    PROVE  Found(e, r)
<1>0. PICK hit \in BOOLEAN : hit = (redisOk /\ Recent(r) # << >>)
  BY Zenon
<1>1. PICK vals \in IF hit THEN {Recent(r)} ELSE IF dbOk THEN RecentStored(r) ELSE {<< >>} :
         job' = [job EXCEPT ![e] = [job[e] EXCEPT !.vals = vals]]
  BY <1>0, Zenon DEF ReplayRead
<1>2. /\ replayed' = [replayed EXCEPT ![e] = (replayed[e] \ ({r} \X {"list", "table"})) \cup
              ({r} \X ((IF redisOk THEN {"list"} ELSE {}) \cup (IF dbOk /\ ~ hit THEN {"table"} ELSE {})))]
      /\ UNCHANGED <<list, table>>
  BY <1>0, Zenon DEF ReplayRead, Shown, storeVars
<1>3. /\ <<r, "list">> \in replayed'[e] <=> redisOk
      /\ <<r, "table">> \in replayed'[e] <=> (dbOk /\ ~ hit)
  BY <1>2, Zenon DEF StoreTypes
<1>4. Recent(r)' = Recent(r) /\ Newest(r)' = Newest(r)
  BY <1>2 DEF Recent, Newest
<1>5. Source(e, r)' = (IF redisOk THEN Range(Recent(r)) ELSE {}) \cup
                      (IF dbOk /\ ~ hit THEN Newest(r) ELSE {})
  BY <1>3, <1>4, Zenon DEF Source
<1>6. vals \in Seq(Msgs) /\ Source(e, r)' \subseteq Range(vals)
  <2>1. CASE hit
    BY <1>0, <1>1, <1>5, <2>1, RecentFacts, Zenon
  <2>2. CASE ~ hit
    <3>1. ~ redisOk \/ Recent(r) = << >>
      BY <1>0, <2>2, Zenon
    <3>2. Range(<< >>) = {}
      BY DEF Range
    <3>3. Source(e, r)' = IF dbOk THEN Newest(r) ELSE {}
      BY <1>5, <2>2, <3>1, <3>2, Zenon
    <3>4. CASE ~ dbOk
      BY <1>1, <2>2, <3>2, <3>3, <3>4, SMTT(30)
    <3>5. CASE dbOk
      <4>1. vals \in RecentStored(r)
        BY <1>1, <2>2, <3>5, Zenon
      <4>2. /\ vals \in UNION {[1..n -> Newest(r)] : n \in 0..HistoryLim}
            /\ Range(vals) = Newest(r)
        BY <4>1, Zenon DEF RecentStored
      <4>3. PICK n \in Nat : vals \in [1..n -> Newest(r)]
        BY <4>2, ChatHubAssumption
      <4>4. vals \in [1..n -> Msgs]
        BY <4>3, NewestFacts
      <4> QED
        BY <3>3, <3>5, <4>2, <4>4
    <3> QED
      BY <3>4, <3>5, Zenon
  <2> QED
    BY <2>1, <2>2, Zenon
<1>7. \A m \in Source(e, r)' : \E i \in 1..Len(vals) : vals[i] = m
  BY <1>6, Elements
<1> QED
  BY <1>1, <1>6, <1>7, Zenon DEF Found

\* The history is read: all of it is in the handler's locals.
LEMMA ReplayReadHist ==
    ASSUME NEW e \in Clients, NEW redisOk \in BOOLEAN, NEW dbOk \in BOOLEAN, MapsInv, Hist,
           ReplayRead(e, redisOk, dbOk)
    PROVE  Hist'
<1>0. /\ pc[e] = "replay" /\ LocalTypes /\ StoreTypes
      /\ UNCHANGED <<members, queue, got, full, msgId, list, table>>
      /\ pc' = [pc EXCEPT ![e] = "replaySend"]
  BY DEF ReplayRead, hubVars, sendVars, storeVars, Hist, HistTypes
<1>1. PICK j \in Jobs : j = job[e] /\ Fits("replay", j)
  BY <1>0 DEF LocalTypes
<1>2. PICK q \in Rooms : q = j.room
  BY <1>1 DEF Fits
<1>3. PICK v \in Seq(Msgs) :
         /\ job' = [job EXCEPT ![e] = [job[e] EXCEPT !.vals = v]]
         /\ \A m \in Source(e, q)' : \E i \in 1..Len(v) : v[i] = m
  <2>1. q = job[e].room
    BY <1>1, <1>2
  <2>2. StoreTypes
    BY <1>0
  <2>3. Found(e, q)
    BY <2>1, <2>2, ReplayReads
  <2> QED
    BY <2>3, Zenon DEF Found
<1>4. PICK k \in Jobs : k = [j EXCEPT !.vals = v] /\ k.vals = v /\ k.room = j.room
  <2>1. PICK k : k = [j EXCEPT !.vals = v]
    BY Zenon
  <2>2. k \in Jobs /\ k.vals = v /\ k.room = j.room
    BY <2>1, LocalsVals
  <2> QED
    BY <2>1, <2>2, Zenon
<1>5. job' = [job EXCEPT ![e] = k]
  BY <1>1, <1>3, <1>4
<1>6. "replaySend" \in PcValues /\ Fits("replaySend", k)
  BY <1>1, <1>4 DEF Fits, PcValues
<1>7. pc'[e] = "replaySend" /\ job'[e] = k
  BY <1>0, <1>5 DEF MapsInv, Maps, LocalTypes
<1>8. \A d \in Clients \ {e} : pc'[d] = pc[d] /\ job'[d] = job[d]
  BY <1>0, <1>5 DEF MapsInv, Maps, LocalTypes
<1>9. LocalTypes'
  BY <1>0, <1>5, <1>6, LocalStep, Zenon
<1>10. PICK sources :
          sources \subseteq {"list", "table"} /\
          replayed' = [replayed EXCEPT ![e] = (replayed[e] \ ({q} \X {"list", "table"})) \cup ({q} \X sources)]
  <2>1. PICK hit \in BOOLEAN : hit = (redisOk /\ Recent(q) # << >>)
    BY Zenon
  <2>2. PICK sources : sources = (IF redisOk THEN {"list"} ELSE {}) \cup
                                 (IF dbOk /\ ~ hit THEN {"table"} ELSE {})
    BY Zenon
  <2>3. Shown(e, q, sources)
    BY <1>1, <1>2, <2>1, <2>2, Zenon DEF ReplayRead
  <2>4. sources \subseteq {"list", "table"}
    BY <2>2
  <2>5. replayed' = [replayed EXCEPT ![e] =
                       (replayed[e] \ ({q} \X {"list", "table"})) \cup ({q} \X sources)]
    BY <2>3 DEF Shown
  <2> QED
    BY <2>4, <2>5, Zenon
<1>11. StoreTypes'
  <2>1. replayed' \in [Clients -> SUBSET (Rooms \X {"list", "table"})]
    BY <1>0, <1>10, ZenonT(30) DEF StoreTypes
  <2> QED
    BY <1>0, <2>1, Zenon DEF StoreTypes
<1>12. ASSUME NEW m \in Source(e, q)' PROVE Has(e, q, m)'
  <2>1. PICK i \in 1..Len(v) : v[i] = m
    BY <1>3
  <2>2. pc'[e] = "replaySend" /\ job'[e].room = q /\ job'[e].vals = v
    BY <1>2, <1>4, <1>7
  <2>3. HasRead(e, q, m)'
    BY <2>1, <2>2, Zenon DEF HasRead
  <2> QED
    BY <2>3, Zenon DEF Has
<1>13. ASSUME NEW d \in Clients, NEW r \in Rooms, d # e \/ r # q
       PROVE  Source(d, r)' = Source(d, r)
  <2>1. \A x \in {"list", "table"} : <<r, x>> \in replayed'[d] <=> <<r, x>> \in replayed[d]
    BY <1>0, <1>10, <1>13 DEF StoreTypes
  <2> QED
    BY <1>0, <2>1, Zenon DEF Source, Recent, Newest
<1>14. \A d \in Clients, r \in Rooms : \A m \in Source(d, r)' : m \in Source(d, r) \/ Has(d, r, m)'
  BY <1>12, <1>13, Zenon
<1>15. \A r \in Rooms : Awaits(e, r) => \A m \in Source(e, r)' : Has(e, r, m)'
  BY <1>1, <1>2, <1>12, Zenon DEF Awaits
<1>16. \A d \in Clients, r \in Rooms : \A m : ~ Sending(e, d, r, m)
  BY <1>0, Zenon DEF Sending
<1>17. \A r \in Rooms : \A m : ~ HasRead(e, r, m)
  BY <1>0, Zenon DEF HasRead
<1>18. Covered'
  BY <1>0, <1>8, <1>14, <1>15, <1>16, <1>17, StepCovers, Zenon DEF Hist
<1> QED
  BY <1>9, <1>11, <1>18 DEF Hist, HistTypes

\* The history is sent: all of it is in the queue, or the queue was full.
LEMMA ReplaySendHist ==
    ASSUME NEW e \in Clients, MapsInv, Hist, ReplaySend(e)
    PROVE  Hist'
<1>0. /\ pc[e] = "replaySend" /\ LocalTypes /\ StoreTypes
      /\ UNCHANGED <<members, msgId, list, table, replayed>>
      /\ pc' = [pc EXCEPT ![e] = "idle"] /\ job' = [job EXCEPT ![e] = NoJob]
  <2>1. LocalTypes /\ StoreTypes
    BY ZenonT(30) DEF Hist, HistTypes
  <2>2. pc[e] = "replaySend" /\ Finish(e) /\ UNCHANGED <<hubVars, storeVars, replayed>>
    BY Zenon DEF ReplaySend
  <2> QED
    BY <2>1, <2>2, Zenon DEF Finish, hubVars, storeVars
<1>1. PICK j \in Jobs : j = job[e] /\ j.vals \in Seq(Msgs)
  BY <1>0 DEF LocalTypes, Jobs
<1>2. PICK v \in Seq(Msgs) : v = j.vals
  BY <1>1
<1>3. PICK room \in Nat : room = QueueCap - queue[e]
  BY <1>0, ChatHubAssumption DEF StoreTypes
<1>4. PICK n \in Nat : n = Min({Len(v), room}) /\ n = IF Len(v) <= room THEN Len(v) ELSE room
  BY MinOfTwo
<1>5. /\ queue' = [queue EXCEPT ![e] = queue[e] + n]
      /\ got' = [got EXCEPT ![e] = got[e] \cup {v[i] : i \in Len(v) - n + 1..Len(v)}]
      /\ full' = IF n < Len(v) THEN full \cup {e} ELSE full
  BY <1>1, <1>2, <1>3, <1>4, Zenon DEF ReplaySend
<1>6. queue[e] + n \in 0..QueueCap
  <2>1. n <= room
    BY <1>4
  <2> QED
    BY <1>0, <1>3, <2>1, ChatHubAssumption DEF StoreTypes
<1>7. queue' \in [Clients -> 0..QueueCap]
  BY <1>0, <1>5, <1>6, Zenon DEF StoreTypes
<1>8. DOMAIN got' = Clients /\ got'[e] = got[e] \cup {v[i] : i \in Len(v) - n + 1..Len(v)}
      /\ \A d \in Clients : got[d] \subseteq got'[d]
  BY <1>0, <1>5, Zenon DEF StoreTypes
<1>9. StoreTypes'
  BY <1>0, <1>7, <1>8, Zenon DEF StoreTypes
<1>10. NoJob \in Jobs /\ "idle" \in PcValues /\ Fits("idle", NoJob)
  BY NoLocals DEF Fits, PcValues
<1>11. LocalTypes'
  BY <1>0, <1>10, LocalStep, Zenon
<1>12. \A d \in Clients \ {e} : pc'[d] = pc[d] /\ job'[d] = job[d]
  BY <1>0 DEF MapsInv, Maps, LocalTypes
<1>13. ASSUME e \notin full', NEW r \in Rooms, NEW m, HasRead(e, r, m) PROVE m \in got'[e]
  <2>1. PICK i \in 1..Len(v) : v[i] = m
    BY <1>1, <1>2, <1>13, Zenon DEF HasRead
  <2>2. Len(v) \in Nat /\ ~ (n < Len(v))
    BY <1>5, <1>13
  <2>3. n = Len(v)
    BY <1>4, <2>2
  <2>4. i \in Len(v) - n + 1..Len(v)
    BY <2>2, <2>3
  <2> QED
    BY <1>8, <2>1, <2>4, Zenon
<1>14. \A d \in Clients, r \in Rooms : \A m : ~ Sending(e, d, r, m)
  BY <1>0, Zenon DEF Sending
<1>15. \A r \in Rooms : ~ Awaits(e, r)
  BY <1>0, Zenon DEF Awaits
<1>16. full \subseteq full'
  BY <1>5, Zenon
<1>17. Covered'
  BY <1>0, <1>8, <1>12, <1>13, <1>14, <1>15, <1>16, SameSource, StepCovers, Zenon DEF Hist
<1> QED
  BY <1>9, <1>11, <1>17 DEF Hist, HistTypes

\* Every step keeps the invariant.
LEMMA HistNext == MapsInv /\ Served /\ Hist /\ [Next]_vars => Hist'
<1> SUFFICES ASSUME MapsInv, Served, Hist, [Next]_vars PROVE Hist'
  OBVIOUS
<1>0. queue \in [Clients -> 0..QueueCap]
  BY DEF Hist, HistTypes, StoreTypes
<1>1. ASSUME NEW c \in Clients, Handler(c) PROVE Hist'
  <2>1. ASSUME NEW ok \in BOOLEAN, Incr(c, ok) \/ Lpush(c, ok) \/ Ltrim(c, ok) \/ Insert(c, ok)
        PROVE  Hist'
    BY <2>1, IncrLeftHist, LpushHist, LtrimHist, InsertHist
  <2>2. ASSUME NEW redisOk \in BOOLEAN, NEW dbOk \in BOOLEAN, ReplayRead(c, redisOk, dbOk) PROVE Hist'
    BY <2>2, ReplayReadHist
  <2>3. ASSUME NEW d \in Clients, SendTo(c, d) PROVE Hist'
    BY <2>3, SendToHist
  <2>4. CASE Join(c) \/ Snapshot(c) \/ Notice(c) \/ ReplaySend(c)
    BY <2>4, JoinHist, SnapshotHist, NoticeHist, ReplaySendHist
  <2>5. CASE Left(c)
    <3>1. TRUE \in BOOLEAN
      OBVIOUS
    <3> QED
      BY <2>5, <3>1, IncrLeftHist, Zenon
  <2> QED
    BY <1>1, <2>1, <2>2, <2>3, <2>4, <2>5, Zenon DEF Handler, Outcomes
<1>2. ASSUME NEW c \in Clients, Frame(c) PROVE Hist'
  BY <1>2, FrameHist
<1>3. ASSUME NEW c \in Clients,
             ServeWS(c) \/ Disconnect(c) \/ ReadFails(c) \/ Write(c) \/ DropSlow(c) \/ WindowMoves(c)
      PROVE  Hist'
  BY <1>3, AroundHist
<1>4. ASSUME UNCHANGED <<pc, job, msgId, list, table, replayed, got, full, queue, members>> PROVE Hist'
  BY <1>0, <1>4, StillHist, Zenon
<1>5. ASSUME NEW r \in Rooms, LiveStatus(r) PROVE Hist'
  <2>1. UNCHANGED <<pc, job, msgId, list, table, replayed, got, full, queue, members>>
    BY <1>5 DEF LiveStatus, hubVars, sendVars, storeVars
  <2> QED
    BY <1>4, <2>1
<1>6. ASSUME NEW r \in Rooms, ListExpires(r) PROVE Hist'
  BY <1>6, ExpireHist
<1>7. CASE BootRead \/ BootSet
  <2>1. UNCHANGED <<pc, job, msgId, list, table, replayed, got, full, queue, members>>
    BY <1>7 DEF BootRead, BootSet, hubVars, sendVars
  <2> QED
    BY <1>4, <2>1
<1>8. CASE UNCHANGED vars
  BY <1>4, <1>8 DEF vars
<1> QED
  BY <1>1, <1>2, <1>3, <1>5, <1>6, <1>7, <1>8 DEF Next

\* The initial states.
LEMMA HistInit == Init => Served /\ Hist
<1> SUFFICES ASSUME Init PROVE Served /\ Hist
  OBVIOUS
<1>1. Served /\ Covered
  BY DEF Init, Served, Covered
<1>2. msgId \in Seq({})
  BY DEF Init
<1>3. StoreTypes
  BY <1>2, ChatHubAssumption DEF Init, StoreTypes
<1>4. LocalTypes
  BY NoLocals, Zenon DEF Init, LocalTypes, Fits
<1> QED
  BY <1>1, <1>3, <1>4 DEF Hist, HistTypes

\* Whatever handlers, failures and expiries come between its joining a room and
\* its replay, an entered client has been sent every comment that replayHistory
\* would show it now and whose handler is through, unless its queue was full.
THEOREM SpecJoinMissesNothing == Spec => []JoinMissesNothing
<1>1. ASSUME Hist PROVE JoinMissesNothing
  <2> SUFFICES ASSUME NEW c \in Clients, c \notin full, NEW r \in Rooms, c \in members[r], pc[c] = "idle",
                      NEW m \in Source(c, r)
               PROVE  m \in got[c] \/ \E d \in Clients : pc[d] # "idle" /\ job[d].msg = m
    BY Zenon DEF JoinMissesNothing, Source
  <2>1. ~ Awaits(c, r) /\ ~ HasRead(c, r, m)
    BY Zenon DEF Awaits, HasRead
  <2>2. m \in got[c] \/ Coming(c, r, m)
    BY <1>1, <2>1, Zenon DEF Hist, Covered, Has
  <2> QED
    BY <2>2, Zenon DEF Coming, Sending
<1> QED
  BY <1>1, MapsInit, MapsNext, HistInit, HistNext, ServedNext, PTL DEF Spec
=============================================================================
