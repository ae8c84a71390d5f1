--------------------------- MODULE DocumentProofs ---------------------------
(***************************************************************************)
(* The two places where the API keeps documents.                           *)
(*                                                                         *)
(* SingleFlight, NoRedirectWithoutErrors, SharedKeysAgree and              *)
(* InvalidationSticksInL2 for any requests, methods, levels and modes.     *)
(*                                                                         *)
(* Snapshot, the files of the JSONP endpoints: SnapshotWholeAlone for any  *)
(* number of requests, documents of any length, and any number of files.   *)
(* As long as no two requests have been writing at once, the one writer    *)
(* has the temporary file open under its name, the two names never refer   *)
(* to one file, and what the temporary file holds is settled by how far    *)
(* the writer is: whatever a stopped or failed writer has left in it goes  *)
(* with the truncation (Alone).                                            *)
(***************************************************************************)
EXTENDS CacheManager, Snapshot, TLAPS

Kinds == {"none", "list", "lists", "object", "null", "base64", "redirect"}
Docs == [kind : Kinds, ver : Nat]
Ops == {"none", "l1Set", "writeBack", "setex"}
Tasks == [op : Ops, key : Keys \cup {"none"}, doc : Docs]
Labels == {"idle", "l1", "l2", "breaker", "wait", "load", "loaded", "done"}
Codes == {"none", "ok", "undecodable", "degradeClosed", "circuitOpen", "canceled", "loaderError"}
Results == [code : Codes, doc : Docs]

StoreTypes ==
    /\ db \in Nat
    /\ l1 \in [Keys -> Docs] /\ l2 \in [Keys -> Docs]
    /\ tripped \in [Families -> BOOLEAN]
    /\ warm \in [Families -> Tasks]
    /\ \A f \in Families : warm[f] # NoTask => warm[f].key \in Keys
    /\ inv \in [pc : {"idle", "keys", "del"}, keys : SUBSET Keys, ver : Nat,
                done : [Keys -> Nat], raced : [Keys -> BOOLEAN]]

\* A request that has begun has a method.
ReqTypes ==
    /\ flight \in [Keys -> Reqs \cup {Nobody}]
    /\ pc \in [Reqs -> Labels]
    /\ req \in [Reqs -> [method : Methods \cup {"none"}, level : Levels]]
    /\ \A r \in Reqs : pc[r] # "idle" => req[r].method \in Methods
    /\ val \in [Reqs -> Docs]
    /\ res \in [Reqs -> Results]
    /\ bg \in [Reqs -> Tasks]
    /\ \A r \in Reqs : bg[r] # NoTask => bg[r].key \in Keys

Types == StoreTypes /\ ReqTypes

-----------------------------------------------------------------------------
(* The documents                                                           *)

\* Document d is in Redis under key k, or a request, a goroutine or a job may
\* still write it there.
InStock(k, d) ==
    \/ l2[k] = d
    \/ \E r \in Reqs : pc[r] = "loaded" /\ Key(r) = k /\ val[r] = d
    \/ \E r \in Reqs : bg[r] # NoTask /\ bg[r].key = k /\ bg[r].doc = d
    \/ \E f \in Families : warm[f] # NoTask /\ warm[f].key = k /\ warm[f].doc = d

\* A loader, a warmer or the fallback chain has just made document d for key k.
New(k, d) ==
    /\ d.ver = db
    /\ \/ \E m \in Methods : Handler[m].key = k /\ d.kind \in {Handler[m].type, "null"}
       \/ d.kind = WarmerKind(k) /\ WarmerKind(k) # "none"
       \/ d.kind = "redirect" /\ tripped[FamilyOf(k)]

\* Whoever finds document d under key k can decode it, but for the exceptions of
\* SharedKeysAgree; it is the CDN's only if the breaker can trip.
Sound(k, d) ==
    /\ d.kind = "redirect" => ~ Swallows(FamilyOf(k))
    /\ \A m \in Methods : Handler[m].key = k =>
          \/ d = NoDoc \/ Decodes(Handler[m].type, d)
          \/ WarmerKind(k) = "base64" \/ ~ Swallows(Handler[m].family)

DocsSound ==
    /\ \A k \in Keys, d \in Docs : InStock(k, d) \/ l1[k] = d => Sound(k, d)
    /\ \A f \in Families : tripped[f] => ~ Swallows(f)

\* What a loader has returned is of its handler's type; an answer is given once.
Answers ==
    /\ \A r \in Reqs : pc[r] = "loaded" => val[r].kind \in {Type(r), "null"}
    /\ \A r \in Reqs : pc[r] = "idle" => res[r].code = "none"
    /\ SharedKeysAgree

\* No document that may reach Redis is older than the last invalidation of its
\* key, unless one was on its way during the call.
Sticks ==
    /\ inv.ver <= db
    /\ \A k \in Keys : inv.done[k] <= db
    /\ \A k \in Keys, d \in Docs :
          ~ inv.raced[k] /\ InStock(k, d) /\ d # NoDoc => d.ver >= inv.done[k]

-----------------------------------------------------------------------------
(* The handlers                                                            *)

\* The dispatch of Call: every method has one of these handlers.
LEMMA Dispatch ==
    \A m \in DOMAIN Handler :
        Handler[m] \in {handleMatchesJSONP, handleMatchRecommend, handleMatchDetail,
                        handleMatchByDate, handleAllLiveRooms, handleLiveTypes,
                        handleLiveCateList, handleLiveHot, handleLiveDetail,
                        handleRoomGiftRank, handleRoomDetail, handleRoomSchedule}
  BY DEF Handler

\* Handlers that share a key agree on everything else.
LEMMA SameKey ==
    \A m, n \in DOMAIN Handler : Handler[m].key = Handler[n].key => Handler[m] = Handler[n]
<1>1. \A g, h \in {handleMatchesJSONP, handleMatchRecommend, handleMatchDetail,
                   handleMatchByDate, handleAllLiveRooms, handleLiveTypes,
                   handleLiveCateList, handleLiveHot, handleLiveDetail,
                   handleRoomGiftRank, handleRoomDetail, handleRoomSchedule} :
         g.key = h.key => g = h
  BY DEF handleMatchesJSONP, handleMatchRecommend, handleMatchDetail, handleMatchByDate,
         handleAllLiveRooms, handleLiveTypes, handleLiveCateList, handleLiveHot,
         handleLiveDetail, handleRoomGiftRank, handleRoomDetail, handleRoomSchedule, Entry
<1> QED
  BY <1>1, Dispatch

\* What a handler accepts, and that a warmer stores that or base64.
LEMMA HandlerKinds ==
    \A m \in DOMAIN Handler :
        /\ Handler[m].type \in {"list", "lists", "object"}
        /\ WarmerKind(Handler[m].key) \in {"none", "base64", Handler[m].type}
        /\ Handler[m].key # "none"
<1>1. \A h \in {handleMatchesJSONP, handleMatchRecommend, handleMatchDetail,
                handleMatchByDate, handleAllLiveRooms, handleLiveTypes,
                handleLiveCateList, handleLiveHot, handleLiveDetail,
                handleRoomGiftRank, handleRoomDetail, handleRoomSchedule} :
         /\ h.type \in {"list", "lists", "object"}
         /\ h.key # "none"
         /\ h.key \in {"match:recommend", "match:date"} => h.type = "list"
  BY DEF handleMatchesJSONP, handleMatchRecommend, handleMatchDetail, handleMatchByDate,
         handleAllLiveRooms, handleLiveTypes, handleLiveCateList, handleLiveHot,
         handleLiveDetail, handleRoomGiftRank, handleRoomDetail, handleRoomSchedule, Entry
<1>2. \A k : /\ k \in {"match:recommend", "match:date"} => WarmerKind(k) = "list"
             /\ k \notin {"match:recommend", "match:date"} => WarmerKind(k) \in {"none", "base64"}
  BY DEF WarmerKind
<1> QED
  BY <1>1, <1>2, Dispatch

\* The family of a key is the family of the handlers that use it.
LEMMA FamilyOfKey ==
    \A m \in Methods : /\ Handler[m].key \in Keys /\ Handler[m].family \in Families
                       /\ FamilyOf(Handler[m].key) = Handler[m].family
<1> SUFFICES ASSUME NEW m \in Methods PROVE FamilyOf(Handler[m].key) = Handler[m].family
  BY DEF Keys, Families
<1>1. \A n \in Methods : Handler[n].key = Handler[m].key => Handler[n] = Handler[m]
  BY CacheAssumption, SameKey
<1> DEFINE S == {Handler[n] : n \in Methods}
<1>2. Handler[m] \in S /\ \A h \in S : h.key = Handler[m].key => h = Handler[m]
  BY <1>1
<1>3. PICK k : k = Handler[m].key
  BY Zenon
<1>4. (CHOOSE h \in S : h.key = k) = Handler[m]
  <2> HIDE DEF S
  <2> QED
    BY <1>2, <1>3
<1>5. FamilyOf(k) = (CHOOSE h \in S : h.key = k).family
  BY DEF FamilyOf
<1> QED
  BY <1>3, <1>4, <1>5, Zenon

\* Every key is the key of a handler.
LEMMA KeyHandler == \A k \in Keys : k # "none" /\ \E m \in Methods : Handler[m].key = k
  BY CacheAssumption, HandlerKinds DEF Keys

\* The key, the family and the type of a request that has begun.
LEMMA ReqHandler ==
    ASSUME ReqTypes, NEW r \in Reqs, pc[r] # "idle"
    PROVE  /\ req[r].method \in Methods /\ Key(r) \in Keys /\ Family(r) \in Families
           /\ FamilyOf(Key(r)) = Family(r) /\ Type(r) \in {"list", "lists", "object"}
  BY CacheAssumption, FamilyOfKey, HandlerKinds DEF ReqTypes, Key, Family, Type

\* What a step may be.
LEMMA NextCases ==
    ASSUME [Next]_vars
    PROVE  \/ \E r \in Reqs :
                 \/ \E m \in Methods, level \in ReqLevels : Begin(r, m, level)
                 \/ GetL1(r) \/ (\E ok \in BOOLEAN : GetL2(r, ok))
                 \/ Rejected(r) \/ Canceled(r) \/ JoinFlight(r)
                 \/ Load(r) \/ LoadDone(r) \/ LoadFails(r)
                 \/ WriteL1(r) \/ \E ok \in BOOLEAN : WriteL2(r, ok)
           \/ \E f \in Families :
                 \/ \E k \in Keys : RefreshLoad(f, k)
                 \/ \E ok \in BOOLEAN : RefreshStore(f, ok)
                 \/ InvalidateFamily(f) \/ BreakerForgets(f)
           \/ \E k \in Keys : Invalidate(k) \/ ExpireL1(k) \/ ExpireL2(k)
           \/ \E ok \in BOOLEAN : ListKeys(ok) \/ DelKeys(ok)
           \/ DbUpdate \/ (\E m \in ReqModes : SetMode(m)) \/ vars' = vars
  BY DEF Next, Read, Through, Loader, Background, Refresh, Invalidation, Environment

-----------------------------------------------------------------------------
(* Types                                                                   *)

\* The values that the model uses for "nothing".
LEMMA Nothing ==
    /\ NoDoc \in Docs /\ NoDoc.kind = "none" /\ NoTask \in Tasks /\ NoTask.op = "none"
    /\ NoRes \in Results /\ NoRes.code = "none"
    /\ NoReq \in [method : Methods \cup {"none"}, level : Levels]
<1>1. NoDoc \in Docs /\ NoDoc.kind = "none"
  BY DEF NoDoc, Docs, Kinds
<1>2. NoTask \in Tasks /\ NoTask.op = "none"
  BY <1>1 DEF NoTask, Tasks, Ops
<1>3. NoRes \in Results /\ NoRes.code = "none"
  BY <1>1 DEF NoRes, Results, Codes
<1>4. NoReq \in [method : Methods \cup {"none"}, level : Levels]
  BY DEF NoReq, Levels
<1> QED
  BY <1>1, <1>2, <1>3, <1>4

\* A task that writes document d under key k.
LEMMA TaskType ==
    ASSUME NEW k \in Keys, NEW d \in Docs, NEW op \in Ops
    PROVE  [op |-> op, key |-> k, doc |-> d] \in Tasks
  BY DEF Tasks

\* The answers.
LEMMA AnswerType ==
    /\ \A code \in Codes : /\ Failure(code) \in Results
                            /\ Failure(code).code = code
    /\ \A type, d : /\ d \in Docs => Decoded(type, d) \in Results
                    /\ Decoded(type, d).code = "undecodable" => ~ Decodes(type, d)
<1>1. \A code \in Codes : /\ Failure(code) \in Results
                           /\ Failure(code).code = code
  BY Nothing DEF Failure, Results
<1>2. ASSUME NEW type, NEW d
      PROVE  /\ d \in Docs => Decoded(type, d) \in Results
             /\ Decoded(type, d).code = "undecodable" => ~ Decodes(type, d)
  <2>1. CASE Decodes(type, d)
    <3>1. Decoded(type, d) = [code |-> "ok", doc |-> d]
      BY <2>1 DEF Decoded
    <3> QED
      BY <2>1, <3>1 DEF Results, Codes
  <2>2. CASE ~ Decodes(type, d)
    <3>1. Decoded(type, d) = [code |-> "undecodable", doc |-> NoDoc]
      BY <2>2 DEF Decoded
    <3> QED
      BY <2>2, <3>1, Nothing DEF Results, Codes
  <2> QED
    BY <2>1, <2>2
<1> QED
  BY <1>1, <1>2

\* The documents that the loaders, the warmers and the fallback chain make.
LEMMA NewDocType ==
    ASSUME db \in Nat
    PROVE  /\ \A kind \in Kinds : [kind |-> kind, ver |-> db] \in Docs
           /\ \A k \in Keys : FallbackData(k) \in Docs /\ WarmerKind(k) \in Kinds
<1>1. \A kind \in Kinds : [kind |-> kind, ver |-> db] \in Docs
  BY DEF Docs
<1>2. \A k : FallbackData(k) \in Docs
  BY DEF Docs, Kinds, FallbackData
<1>3. \A k \in Keys : WarmerKind(k) \in Kinds
  BY DEF WarmerKind, Kinds
<1> QED
  BY <1>1, <1>2, <1>3

\* The initial state.
LEMMA TypesInit == Init => Types
<1> SUFFICES ASSUME Init PROVE Types
  OBVIOUS
<1>1. StoreTypes
  BY Nothing DEF Init, StoreTypes
<1>2. ReqTypes
  BY Nothing DEF Init, ReqTypes, Labels
<1> QED
  BY <1>1, <1>2 DEF Types

\* An answer, or a step to a label, leaves the requests well-formed.
LEMMA AnswerTypes ==
    ASSUME ReqTypes, NEW r \in Reqs, NEW a \in Results, NEW l \in Labels,
           Answer(r, a) \/ Goto(r, l)
    PROVE  /\ pc' \in [Reqs -> Labels] /\ res' \in [Reqs -> Results]
           /\ \A q \in Reqs : pc'[q] # "idle" => q = r \/ pc[q] # "idle"
  BY ZenonT(30) DEF ReqTypes, Answer, Goto, Labels

\* Every step of a request.
LEMMA ReqStepTypes ==
    ASSUME Types, NEW r \in Reqs,
           \/ \E m \in Methods, level \in ReqLevels : Begin(r, m, level)
           \/ GetL1(r) \/ (\E ok \in BOOLEAN : GetL2(r, ok))
           \/ Rejected(r) \/ Canceled(r) \/ JoinFlight(r)
    PROVE  Types'
<1> USE DEF Types
<1>1. CASE \E m \in Methods, level \in ReqLevels : Begin(r, m, level)
  <2>1. PICK m \in Methods, level \in ReqLevels : Begin(r, m, level)
    BY <1>1, Zenon
  <2>2. StoreTypes'
    BY <2>1 DEF StoreTypes, Begin
  <2>3. /\ pc' \in [Reqs -> Labels] /\ res' \in [Reqs -> Results]
        /\ \A q \in Reqs : pc'[q] # "idle" => q = r \/ pc[q] # "idle"
    <3>1. Answer(r, Failure("degradeClosed")) \/ Goto(r, "breaker") \/ Goto(r, "l1")
      BY <2>1 DEF Begin
    <3>2. Failure("degradeClosed") \in Results /\ "breaker" \in Labels /\ "l1" \in Labels
      BY AnswerType DEF Codes, Labels
    <3> QED
      BY <3>1, <3>2, AnswerTypes
  <2>4. req' = [req EXCEPT ![r] = [method |-> m, level |-> level]] /\ level \in Levels
    BY <2>1, CacheAssumption DEF Begin
  <2>5. UNCHANGED <<flight, val, bg>>
    BY <2>1 DEF Begin
  <2>6. /\ req' \in [Reqs -> [method : Methods \cup {"none"}, level : Levels]]
        /\ req'[r].method = m /\ \A q \in Reqs : q # r => req'[q] = req[q]
    BY <2>4 DEF ReqTypes
  <2> QED
    BY <2>2, <2>3, <2>5, <2>6, Zenon DEF ReqTypes
<1> SUFFICES ASSUME \/ GetL1(r) \/ (\E ok \in BOOLEAN : GetL2(r, ok))
                    \/ Rejected(r) \/ Canceled(r) \/ JoinFlight(r)
             PROVE  Types'
  BY <1>1, Zenon
<1>2. pc[r] # "idle"
  BY Zenon DEF GetL1, GetL2, Rejected, Canceled, JoinFlight
<1>3. /\ req[r].method \in Methods /\ Key(r) \in Keys
  BY <1>2, ReqHandler, Zenon
<1>4. StoreTypes'
  BY ZenonT(30) DEF StoreTypes, GetL1, GetL2, Rejected, Canceled, JoinFlight
<1>5. UNCHANGED <<req, val>>
  BY Zenon DEF GetL1, GetL2, Rejected, Canceled, JoinFlight
<1>6. PICK d : d = l1[Key(r)]
  BY Zenon
<1>7. PICK e : e = l2[Key(r)]
  BY Zenon
<1>8. d \in Docs /\ e \in Docs
  BY <1>3, <1>6, <1>7 DEF StoreTypes
<1>9. /\ pc' \in [Reqs -> Labels] /\ res' \in [Reqs -> Results]
      /\ \A q \in Reqs : pc'[q] # "idle" => q = r \/ pc[q] # "idle"
  <2>1. PICK t : t = Type(r)
    BY Zenon
  <2>2. \/ Answer(r, Decoded(t, d)) \/ Answer(r, Decoded(t, e))
        \/ Answer(r, Failure("circuitOpen")) \/ Answer(r, Failure("canceled"))
        \/ Goto(r, "l2") \/ Goto(r, "breaker") \/ Goto(r, "load") \/ Goto(r, "wait")
    BY <1>6, <1>7, <2>1, Zenon DEF GetL1, GetL2, Rejected, Canceled, JoinFlight
  <2>3. /\ Decoded(t, d) \in Results /\ Decoded(t, e) \in Results
        /\ Failure("circuitOpen") \in Results /\ Failure("canceled") \in Results
    BY <1>8, AnswerType DEF Codes
  <2>4. {"l2", "breaker", "load", "wait"} \subseteq Labels
    BY DEF Labels
  <2> QED
    BY <2>2, <2>3, <2>4, AnswerTypes
<1>10. flight' \in [Keys -> Reqs \cup {Nobody}]
  BY <1>3, Zenon DEF ReqTypes, GetL1, GetL2, Rejected, Canceled, JoinFlight
<1>11. bg' \in [Reqs -> Tasks] /\ \A q \in Reqs : bg'[q] # NoTask => bg'[q].key \in Keys
  <2>1. PICK k : k = Key(r)
    BY Zenon
  <2>2. PICK x : x = FallbackData(k)
    BY Zenon
  <2>3. \/ UNCHANGED bg
        \/ bg' = [bg EXCEPT ![r] = [op |-> "l1Set", key |-> k, doc |-> e]]
        \/ bg' = [bg EXCEPT ![r] = [op |-> "writeBack", key |-> k, doc |-> x]]
    BY <1>7, <2>1, <2>2, Zenon DEF GetL1, GetL2, Rejected, Canceled, JoinFlight
  <2>4. x \in Docs /\ k \in Keys
    BY <1>3, <2>1, <2>2, NewDocType DEF StoreTypes
  <2>5. /\ [op |-> "l1Set", key |-> k, doc |-> e] \in Tasks
        /\ [op |-> "writeBack", key |-> k, doc |-> x] \in Tasks
    BY <1>8, <2>4, TaskType, Zenon DEF Ops
  <2>6. PICK s \in Tasks : s = [op |-> "l1Set", key |-> k, doc |-> e]
    BY <2>5
  <2>7. PICK w \in Tasks : w = [op |-> "writeBack", key |-> k, doc |-> x]
    BY <2>5
  <2>8. s.key \in Keys /\ w.key \in Keys
    BY <2>4, <2>6, <2>7
  <2>9. bg' = bg \/ bg' = [bg EXCEPT ![r] = s] \/ bg' = [bg EXCEPT ![r] = w]
    BY <2>3, <2>6, <2>7
  <2>10. bg \in [Reqs -> Tasks] /\ \A q \in Reqs : bg[q] # NoTask => bg[q].key \in Keys
    BY Zenon DEF ReqTypes
  <2> QED
    BY <2>8, <2>9, <2>10
<1> QED
  BY <1>2, <1>3, <1>4, <1>5, <1>9, <1>10, <1>11, Zenon DEF ReqTypes

\* The leader's steps; the callers that wait are answered with it.
LEMMA LoaderTypes ==
    ASSUME Types, NEW r \in Reqs, Load(r) \/ LoadDone(r) \/ LoadFails(r)
    PROVE  Types'
<1> USE DEF Types
<1>1. pc[r] # "idle"
  BY Zenon DEF Load, LoadDone, LoadFails
<1>2. req[r].method \in Methods /\ Key(r) \in Keys /\ Family(r) \in Families
      /\ Type(r) \in Kinds
  BY <1>1, ReqHandler, Zenon DEF Kinds
<1>3. UNCHANGED req
  BY Zenon DEF Load, LoadDone, LoadFails
<1>4. StoreTypes'
  BY <1>2, Zenon DEF StoreTypes, Load, LoadDone, LoadFails
<1>5. flight' \in [Keys -> Reqs \cup {Nobody}]
  BY <1>2 DEF ReqTypes, Load, LoadDone, LoadFails
<1>6. val' \in [Reqs -> Docs]
  <2>1. CASE Load(r)
    <3>1. PICK kind \in {Type(r), "null"} : val' = [val EXCEPT ![r] = [kind |-> kind, ver |-> db]]
      BY <2>1 DEF Load
    <3>2. kind \in Kinds
      BY <1>2 DEF Kinds
    <3>3. [kind |-> kind, ver |-> db] \in Docs
      BY <3>2, NewDocType, Zenon DEF StoreTypes
    <3> QED
      BY <3>1, <3>3 DEF ReqTypes
  <2>2. CASE LoadDone(r)
    BY <2>2, Nothing, Zenon DEF LoadDone, ReqTypes
  <2>3. CASE LoadFails(r)
    BY <2>3, Zenon DEF LoadFails, ReqTypes
  <2> QED
    BY <2>1, <2>2, <2>3
<1>7. PICK d : d = val[r]
  BY Zenon
<1>8. d \in Docs
  BY <1>7, Zenon DEF ReqTypes
<1>9. pc' \in [Reqs -> Labels] /\ \A q \in Reqs : pc'[q] # "idle" => pc[q] # "idle"
  <2>1. CASE Load(r)
    BY <1>1, <2>1, Zenon DEF ReqTypes, Load, Goto, Labels
  <2>2. CASE ~ Load(r)
    <3>1. /\ pc' = [q \in Reqs |-> IF q \in Flown(r) THEN "done" ELSE pc[q]]
          /\ \A q \in Flown(r) : pc[q] # "idle"
      BY <1>1, <2>2, Zenon DEF LoadDone, LoadFails, Flown
    <3> QED
      BY <3>1, Zenon DEF ReqTypes, Labels
  <2> QED
    BY <2>1, <2>2, Zenon
<1>10. res' \in [Reqs -> Results]
  <2>1. CASE Load(r)
    BY <2>1, Zenon DEF Load, Goto, ReqTypes
  <2>2. CASE LoadDone(r)
    <3>1. \A q \in Reqs : Decoded(Type(q), d) \in Results
      BY <1>8, AnswerType, Zenon
    <3>2. res' = [q \in Reqs |-> IF q \in Flown(r) THEN Decoded(Type(q), d) ELSE res[q]]
      BY <2>2, <1>7, Zenon DEF LoadDone
    <3> QED
      BY <3>1, <3>2, Zenon DEF ReqTypes
  <2>3. CASE LoadFails(r)
    <3>1. Failure("loaderError") \in Results
      BY AnswerType DEF Codes
    <3> QED
      BY <2>3, <3>1, Zenon DEF LoadFails, ReqTypes
  <2> QED
    BY <2>1, <2>2, <2>3
<1>11. bg' \in [Reqs -> Tasks] /\ \A q \in Reqs : bg'[q] # NoTask => bg'[q].key \in Keys
  <2>1. PICK k : k = Key(r)
    BY Zenon
  <2>2. UNCHANGED bg \/ bg' = [bg EXCEPT ![r] = [op |-> "writeBack", key |-> k, doc |-> d]]
    BY <1>7, <2>1, Zenon DEF Load, LoadDone, LoadFails
  <2>3. [op |-> "writeBack", key |-> k, doc |-> d] \in Tasks /\ k \in Keys
    BY <1>2, <1>8, <2>1, TaskType, Zenon DEF Ops
  <2>4. PICK w \in Tasks : w = [op |-> "writeBack", key |-> k, doc |-> d]
    BY <2>3
  <2>5. w.key \in Keys
    BY <2>3, <2>4
  <2>6. bg' = bg \/ bg' = [bg EXCEPT ![r] = w]
    BY <2>2, <2>4
  <2>7. bg \in [Reqs -> Tasks] /\ \A q \in Reqs : bg[q] # NoTask => bg[q].key \in Keys
    BY DEF ReqTypes
  <2> QED
    BY <2>5, <2>6, <2>7, Zenon
<1> QED
  BY <1>3, <1>4, <1>5, <1>6, <1>9, <1>10, <1>11, Zenon DEF ReqTypes

\* The goroutines.
LEMMA BackgroundTypes ==
    ASSUME Types, NEW r \in Reqs, WriteL1(r) \/ \E ok \in BOOLEAN : WriteL2(r, ok)
    PROVE  Types'
<1> USE DEF Types
<1>1. PICK t : t = bg[r]
  BY Zenon
<1>2. t \in Tasks /\ t.op # "none" /\ t # NoTask
  BY <1>1, Nothing DEF ReqTypes, WriteL1, WriteL2
<1>3. t.key \in Keys /\ t.doc \in Docs
  BY <1>1, <1>2 DEF ReqTypes, Tasks
<1>4. l1' \in [Keys -> Docs] /\ l2' \in [Keys -> Docs]
  BY <1>1, <1>3 DEF StoreTypes, WriteL1, WriteL2
<1>5. UNCHANGED <<db, flight, tripped, pc, req, val, res, warm, inv>>
  BY DEF WriteL1, WriteL2, reqVars
<1>6. \E u \in {NoTask, [t EXCEPT !.op = "setex"]} : bg' = [bg EXCEPT ![r] = u]
  BY <1>1 DEF WriteL1, WriteL2
<1>7. [t EXCEPT !.op = "setex"] \in Tasks /\ [t EXCEPT !.op = "setex"].key = t.key
  BY <1>2 DEF Tasks, Ops
<1>8. PICK u : bg' = [bg EXCEPT ![r] = u] /\ u \in Tasks /\ (u # NoTask => u.key \in Keys)
  BY <1>3, <1>6, <1>7, Nothing, Zenon
<1>9. bg' \in [Reqs -> Tasks] /\ \A q \in Reqs : bg'[q] # NoTask => bg'[q].key \in Keys
  BY <1>8 DEF ReqTypes
<1> QED
  BY <1>4, <1>5, <1>9 DEF StoreTypes, ReqTypes

\* The steps of the jobs.
LEMMA RefreshTypes ==
    ASSUME Types, NEW f \in Families,
           (\E k \in Keys : RefreshLoad(f, k)) \/ \E ok \in BOOLEAN : RefreshStore(f, ok)
    PROVE  Types'
<1> USE DEF Types
<1>1. ReqTypes'
  BY Zenon DEF ReqTypes, RefreshLoad, RefreshStore, reqVars
<1>2. CASE \E k \in Keys : RefreshLoad(f, k)
  <2>1. PICK k \in Keys : RefreshLoad(f, k)
    BY <1>2
  <2>2. PICK d : d = [kind |-> WarmerKind(k), ver |-> db]
    BY Zenon
  <2>3. d \in Docs
    BY <2>2, NewDocType DEF StoreTypes
  <2>4. [op |-> "setex", key |-> k, doc |-> d] \in Tasks
    BY <2>3, TaskType, Zenon DEF Ops
  <2>5. warm' = [warm EXCEPT ![f] = [op |-> "setex", key |-> k, doc |-> d]]
    BY <2>1, <2>2, Zenon DEF RefreshLoad
  <2>6. UNCHANGED <<db, l1, l2, tripped, inv>>
    BY <2>1, Zenon DEF RefreshLoad
  <2> QED
    BY <1>1, <2>4, <2>5, <2>6 DEF StoreTypes
<1>3. CASE \E ok \in BOOLEAN : RefreshStore(f, ok)
  <2>1. PICK t : t = warm[f]
    BY Zenon
  <2>2. t \in Tasks /\ t # NoTask /\ t.key \in Keys
    BY <1>3, <2>1, Zenon DEF StoreTypes, RefreshStore
  <2>3. t.doc \in Docs
    BY <2>2 DEF Tasks
  <2>4. l2' \in [Keys -> Docs]
    BY <1>3, <2>1, <2>2, <2>3 DEF StoreTypes, RefreshStore
  <2> QED
    BY <1>1, <1>3, <2>4, Nothing, Zenon DEF StoreTypes, RefreshStore
<1> QED
  BY <1>2, <1>3

\* A successful invalidation leaves inv well-formed.
LEMMA InvalidatedTypes ==
    ASSUME StoreTypes, NEW K, Invalidated(K)
    PROVE  /\ inv' \in [pc : {"idle", "keys", "del"}, keys : SUBSET Keys, ver : Nat,
                        done : [Keys -> Nat], raced : [Keys -> BOOLEAN]]
           /\ inv'.done = [k \in Keys |-> IF k \in K THEN inv.ver ELSE inv.done[k]]
           /\ \A k \in Keys : inv'.raced[k] = (inv.raced[k] \/ (k \in K /\ Carried(k, inv.ver)))
           /\ inv'.ver = 0
<1>1. PICK done : done = [k \in Keys |-> IF k \in K THEN inv.ver ELSE inv.done[k]]
  BY Zenon
<1>2. PICK raced : raced = [k \in Keys |-> inv.raced[k] \/ (k \in K /\ Carried(k, inv.ver))]
  BY Zenon
<1>3. inv' = [inv EXCEPT !.pc = "idle", !.keys = {}, !.ver = 0, !.done = done, !.raced = raced]
  BY <1>1, <1>2 DEF Invalidated, StoreTypes
<1>4. done \in [Keys -> Nat]
  BY <1>1 DEF StoreTypes
<1>5. raced \in [Keys -> BOOLEAN]
  BY <1>2
<1>6. inv' \in [pc : {"idle", "keys", "del"}, keys : SUBSET Keys, ver : Nat,
                done : [Keys -> Nat], raced : [Keys -> BOOLEAN]]
  BY <1>3, <1>4, <1>5, Zenon DEF StoreTypes
<1>7. inv'.done = done /\ inv'.raced = raced /\ inv'.ver = 0
  BY <1>3 DEF StoreTypes
<1> QED
  BY <1>1, <1>2, <1>6, <1>7

\* An invalidation, its steps in Redis, and what happens around the caches.
LEMMA StoreStepTypes ==
    ASSUME Types,
           \/ \E f \in Families : InvalidateFamily(f) \/ BreakerForgets(f)
           \/ \E k \in Keys : Invalidate(k) \/ ExpireL1(k) \/ ExpireL2(k)
           \/ \E ok \in BOOLEAN : ListKeys(ok) \/ DelKeys(ok)
           \/ DbUpdate \/ (\E m \in ReqModes : SetMode(m)) \/ vars' = vars
    PROVE  Types'
<1> USE DEF Types
<1>1. UNCHANGED <<flight, pc, req, val, res, bg, warm>>
  BY Zenon DEF InvalidateFamily, BreakerForgets, Invalidate, ExpireL1, ExpireL2, ListKeys,
               DelKeys, DbUpdate, SetMode, vars, reqVars
<1>2. ReqTypes'
  BY <1>1 DEF ReqTypes
<1>3. CASE \E f \in Families : InvalidateFamily(f)
  <2>1. PICK f \in Families : InvalidateFamily(f)
    BY <1>3
  <2>2. PICK K : K = {k \in Keys : FamilyOf(k) = f}
    BY Zenon
  <2>3. inv' = [inv EXCEPT !.pc = "keys", !.keys = K, !.ver = db] /\ K \in SUBSET Keys
    BY <2>1, <2>2, Zenon DEF InvalidateFamily
  <2> QED
    BY <1>1, <1>2, <2>1, <2>3, Nothing, Zenon DEF StoreTypes, InvalidateFamily
<1>4. CASE \E f \in Families : BreakerForgets(f)
  BY <1>1, <1>2, <1>4 DEF StoreTypes, BreakerForgets
<1>5. CASE \E k \in Keys : Invalidate(k)
  <2>1. PICK k \in Keys : Invalidate(k)
    BY <1>5
  <2>2. PICK K : K = {k}
    BY Zenon
  <2>3. inv' = [inv EXCEPT !.pc = "del", !.keys = K, !.ver = db] /\ K \in SUBSET Keys
    BY <2>1, <2>2, Zenon DEF Invalidate
  <2> QED
    BY <1>1, <1>2, <2>1, <2>3, Nothing, Zenon DEF StoreTypes, Invalidate
<1>6. CASE \E k \in Keys : ExpireL1(k) \/ ExpireL2(k)
  BY <1>1, <1>2, <1>6, Nothing DEF StoreTypes, ExpireL1, ExpireL2
<1>7. CASE \E ok \in BOOLEAN : ListKeys(ok)
  <2>1. PICK ok \in BOOLEAN : ListKeys(ok)
    BY <1>7
  <2>2. PICK F : F = {k \in inv.keys : l2[k] # NoDoc}
    BY Zenon
  <2>3. F \in SUBSET Keys
    BY <2>2 DEF StoreTypes
  <2>4. \/ InvalidationFailed \/ Invalidated(inv.keys)
        \/ inv' = [inv EXCEPT !.pc = "del", !.keys = F]
    BY <2>1, <2>2, Zenon DEF ListKeys
  <2>5. inv' \in [pc : {"idle", "keys", "del"}, keys : SUBSET Keys, ver : Nat,
                  done : [Keys -> Nat], raced : [Keys -> BOOLEAN]]
    <3>1. CASE InvalidationFailed
      BY <3>1, Zenon DEF StoreTypes, InvalidationFailed
    <3>2. CASE Invalidated(inv.keys)
      <4>1. PICK K : K = inv.keys
        BY Zenon
      <4>2. Invalidated(K)
        BY <3>2, <4>1
      <4> QED
        BY <4>2, InvalidatedTypes, Zenon
    <3>3. CASE inv' = [inv EXCEPT !.pc = "del", !.keys = F]
      BY <2>3, <3>3, Zenon DEF StoreTypes
    <3> QED
      BY <2>4, <3>1, <3>2, <3>3
  <2>6. UNCHANGED <<db, l1, l2, tripped>>
    BY <2>1, Zenon DEF ListKeys
  <2> QED
    BY <1>1, <1>2, <2>5, <2>6 DEF StoreTypes
<1>8. CASE \E ok \in BOOLEAN : DelKeys(ok)
  <2>1. PICK ok \in BOOLEAN : DelKeys(ok)
    BY <1>8
  <2>2. InvalidationFailed \/ Invalidated(inv.keys)
    BY <2>1 DEF DelKeys
  <2>3. inv' \in [pc : {"idle", "keys", "del"}, keys : SUBSET Keys, ver : Nat,
                  done : [Keys -> Nat], raced : [Keys -> BOOLEAN]]
    <3>1. CASE InvalidationFailed
      BY <3>1, Zenon DEF StoreTypes, InvalidationFailed
    <3>2. CASE Invalidated(inv.keys)
      <4>1. PICK K : K = inv.keys
        BY Zenon
      <4>2. Invalidated(K)
        BY <3>2, <4>1, Zenon
      <4> QED
        BY <4>2, InvalidatedTypes, Zenon
    <3> QED
      BY <2>2, <3>1, <3>2, Zenon
  <2>4. l2' \in [Keys -> Docs] /\ UNCHANGED <<db, l1, tripped>>
    BY <2>1, Nothing DEF DelKeys, StoreTypes
  <2> QED
    BY <1>1, <1>2, <2>3, <2>4 DEF StoreTypes
<1>9. CASE DbUpdate
  BY <1>1, <1>2, <1>9 DEF StoreTypes, DbUpdate
<1>10. CASE (\E m \in ReqModes : SetMode(m)) \/ vars' = vars
  BY <1>1, <1>2, <1>10, Zenon DEF StoreTypes, SetMode, vars
<1> QED
  BY <1>3, <1>4, <1>5, <1>6, <1>7, <1>8, <1>9, <1>10

\* No step breaks the types.
LEMMA TypesHold == ASSUME Types, [Next]_vars PROVE Types'
  BY NextCases, ReqStepTypes, LoaderTypes, BackgroundTypes, RefreshTypes, StoreStepTypes, Zenon

\* The types are an invariant.
LEMMA SpecTypes == Spec => []Types
  BY TypesInit, TypesHold, PTL DEF Spec

-----------------------------------------------------------------------------
(* SingleFlight                                                            *)

\* SingleFlight, request by request.
Led ==
    /\ \A r \in Reqs : pc[r] \in {"load", "loaded"} => flight[Key(r)] = r
    /\ \A r \in Reqs : pc[r] = "wait" => flight[Key(r)] # Nobody
    /\ \A k \in Keys : flight[k] # Nobody =>
          pc[flight[k]] \in {"load", "loaded"} /\ Key(flight[k]) = k

\* It is the same.
LEMMA LedIsSingleFlight == ASSUME Types PROVE Led <=> SingleFlight
<1>1. \A r \in Reqs : pc[r] # "idle" => Key(r) \in Keys
  BY ReqHandler, Zenon DEF Types
<1>2. ASSUME Led PROVE SingleFlight
  <2> SUFFICES ASSUME NEW k \in Keys
               PROVE  /\ Leading(k) = IF flight[k] = Nobody THEN {} ELSE {flight[k]}
                      /\ flight[k] = Nobody => \A r \in Reqs : pc[r] = "wait" => Key(r) # k
    BY DEF SingleFlight
  <2>1. flight[k] \in Reqs \cup {Nobody}
    BY DEF Types, ReqTypes
  <2>2. \A r \in Leading(k) : r = flight[k] /\ flight[k] # Nobody
    BY <1>2, NobodyAssumption DEF Led, Leading
  <2>3. flight[k] # Nobody => flight[k] \in Leading(k)
    BY <1>2, <2>1 DEF Led, Leading
  <2> QED
    BY <1>2, <2>2, <2>3 DEF Led
<1>3. ASSUME SingleFlight PROVE Led
  <2>1. \A r \in Reqs : pc[r] \in {"load", "loaded"} => flight[Key(r)] = r
    <3> SUFFICES ASSUME NEW r \in Reqs, pc[r] \in {"load", "loaded"} PROVE flight[Key(r)] = r
      OBVIOUS
    <3>1. PICK k \in Keys : k = Key(r)
      BY <1>1
    <3>2. r \in Leading(k)
      BY <3>1 DEF Leading
    <3>3. Leading(k) = IF flight[k] = Nobody THEN {} ELSE {flight[k]}
      BY <1>3 DEF SingleFlight
    <3> QED
      BY <3>1, <3>2, <3>3
  <2>2. \A r \in Reqs : pc[r] = "wait" => flight[Key(r)] # Nobody
    BY <1>1, <1>3, Zenon DEF SingleFlight
  <2>3. \A k \in Keys : flight[k] # Nobody =>
           pc[flight[k]] \in {"load", "loaded"} /\ Key(flight[k]) = k
    BY <1>3, Zenon DEF SingleFlight, Leading
  <2> QED
    BY <2>1, <2>2, <2>3 DEF Led
<1> QED
  BY <1>2, <1>3, Zenon

\* A step that no flight takes off or lands in.
LEMMA LedQuiet ==
    ASSUME Types, Led, flight' = flight,
           \A r \in Reqs : /\ pc'[r] \in {"load", "loaded"} <=> pc[r] \in {"load", "loaded"}
                           /\ pc'[r] = "wait" => pc[r] = "wait"
                           /\ pc[r] \in {"load", "loaded", "wait"} => req'[r] = req[r]
    PROVE  Led'
<1>1. \A r \in Reqs : pc[r] \in {"load", "loaded", "wait"} => Key(r)' = Key(r)
  BY Zenon DEF Key
<1>2. \A r \in Reqs : pc'[r] \in {"load", "loaded"} => flight'[Key(r)'] = r
  BY <1>1, Zenon DEF Led
<1>3. \A r \in Reqs : pc'[r] = "wait" => flight'[Key(r)'] # Nobody
  BY <1>1, ZenonT(30) DEF Led
<1>4. ASSUME NEW k \in Keys, flight'[k] # Nobody
      PROVE  pc'[flight'[k]] \in {"load", "loaded"} /\ Handler[req'[flight'[k]].method].key = k
  <2>1. PICK q \in Reqs : q = flight[k]
    BY <1>4, Zenon DEF Types, ReqTypes
  <2>2. pc[q] \in {"load", "loaded"} /\ Key(q) = k
    BY <1>4, <2>1, Zenon DEF Led
  <2>3. pc'[q] \in {"load", "loaded"} /\ req'[q] = req[q]
    BY <2>2, Zenon
  <2> QED
    BY <2>1, <2>2, <2>3, Zenon DEF Key
<1> QED
  BY <1>2, <1>3, <1>4, Zenon DEF Led, Key

\* A flight lands: everybody who waits for it is answered.
LEMMA LedLands ==
    ASSUME Types, Led, NEW r \in Reqs, pc[r] \in {"load", "loaded"},
           flight' = [flight EXCEPT ![Key(r)] = Nobody],
           pc' = [q \in Reqs |-> IF q \in Flown(r) THEN "done" ELSE pc[q]],
           req' = req
    PROVE  Led'
<1>1. \A q \in Reqs : Key(q)' = Key(q)
  BY DEF Key
<1>2. PICK k \in Keys : k = Key(r)
  BY ReqHandler, Zenon DEF Types
<1>3. flight[k] = r /\ flight' = [flight EXCEPT ![k] = Nobody]
  BY <1>2, Zenon DEF Led
<1>4. \A q \in Reqs : pc[q] # "idle" => Key(q) \in Keys
  BY ReqHandler, Zenon DEF Types
<1>5. \A q \in Reqs : pc'[q] \in {"load", "loaded", "wait"} => pc'[q] = pc[q] /\ q # r /\ Key(q) # k
  <2> SUFFICES ASSUME NEW q \in Reqs, pc'[q] \in {"load", "loaded", "wait"}
               PROVE  pc'[q] = pc[q] /\ q # r /\ Key(q) # k
    OBVIOUS
  <2>1. q \notin Flown(r) /\ pc'[q] = pc[q]
    OBVIOUS
  <2>2. q # r /\ ~ (pc[q] = "wait" /\ Key(q) = k)
    BY <1>2, <2>1 DEF Flown
  <2>3. pc[q] \in {"load", "loaded"} => flight[Key(q)] = q
    BY DEF Led
  <2> QED
    BY <1>3, <2>1, <2>2, <2>3, Zenon
<1>6. \A j \in Keys : j # k => flight'[j] = flight[j]
  BY <1>3, Zenon DEF Types, ReqTypes
<1>7. flight'[k] = Nobody
  BY <1>3, Zenon DEF Types, ReqTypes
<1>8. \A q \in Reqs : pc'[q] \in {"load", "loaded"} => flight'[Key(q)'] = q
  BY <1>1, <1>4, <1>5, <1>6 DEF Led
<1>9. \A q \in Reqs : pc'[q] = "wait" => flight'[Key(q)'] # Nobody
  BY <1>1, <1>4, <1>5, <1>6 DEF Led
<1>10. ASSUME NEW j \in Keys, flight'[j] # Nobody
       PROVE  pc'[flight'[j]] \in {"load", "loaded"} /\ Handler[req'[flight'[j]].method].key = j
  <2>1. PICK q \in Reqs : q = flight[j] /\ flight'[j] = q /\ j # k
    BY <1>6, <1>7, <1>10 DEF Types, ReqTypes
  <2>2. pc[q] \in {"load", "loaded"} /\ Key(q) = j
    BY <1>10, <2>1 DEF Led
  <2>3. q \notin Flown(r)
    BY <1>2, <2>1, <2>2, Zenon DEF Flown
  <2> QED
    BY <2>1, <2>2, <2>3, Zenon DEF Key
<1> QED
  BY <1>8, <1>9, <1>10, Zenon DEF Led, Key

\* A flight takes off, or a request joins one.
LEMMA LedJoins ==
    ASSUME Types, Led, NEW r \in Reqs, JoinFlight(r) PROVE Led'
<1>1. \A q \in Reqs : Key(q)' = Key(q)
  BY Zenon DEF Key, JoinFlight
<1>2. PICK k \in Keys : k = Key(r)
  BY ReqHandler, Zenon DEF Types, JoinFlight
<1>3. \A q \in Reqs : pc[q] # "idle" => Key(q) \in Keys
  BY ReqHandler, Zenon DEF Types
<1>4. CASE flight[k] = Nobody
  <2>1. /\ flight' = [flight EXCEPT ![k] = r] /\ pc' = [pc EXCEPT ![r] = "load"]
        /\ pc[r] = "breaker" /\ req' = req
    BY <1>2, <1>4 DEF JoinFlight, Goto
  <2>2. flight'[k] = r /\ \A j \in Keys : j # k => flight'[j] = flight[j]
    BY <2>1 DEF Types, ReqTypes
  <2>3. pc'[r] = "load" /\ \A q \in Reqs : q # r => pc'[q] = pc[q]
    BY <2>1 DEF Types, ReqTypes
  <2>4. \A q \in Reqs : q # r /\ pc[q] \in {"load", "loaded", "wait"} => Key(q) # k
    BY <1>4, NobodyAssumption, Zenon DEF Led
  <2>5. \A q \in Reqs : pc'[q] \in {"load", "loaded"} => flight'[Key(q)'] = q
    BY <1>1, <1>2, <1>3, <2>2, <2>3, <2>4 DEF Led
  <2>6. \A q \in Reqs : pc'[q] = "wait" => flight'[Key(q)'] # Nobody
    BY <1>1, <1>2, <1>3, <2>2, <2>3, <2>4, SMTT(30) DEF Led
  <2>7. ASSUME NEW j \in Keys, flight'[j] # Nobody
        PROVE  pc'[flight'[j]] \in {"load", "loaded"} /\ Handler[req'[flight'[j]].method].key = j
    <3>1. CASE j = k
      BY <1>2, <2>1, <2>2, <2>3, <3>1, Zenon DEF Key
    <3>2. CASE j # k
      <4>1. PICK q \in Reqs : q = flight[j] /\ flight'[j] = q
        BY <2>2, <2>7, <3>2, Zenon DEF Types, ReqTypes
      <4>2. pc[q] \in {"load", "loaded"} /\ Key(q) = j
        BY <2>2, <2>7, <3>2, <4>1, Zenon DEF Led
      <4>3. q # r
        BY <2>1, <4>2, Zenon
      <4> QED
        BY <2>1, <2>3, <4>1, <4>2, <4>3, Zenon DEF Key
    <3> QED
      BY <3>1, <3>2, Zenon
  <2> QED
    BY <2>5, <2>6, <2>7, Zenon DEF Led, Key
<1>5. CASE flight[k] # Nobody
  <2>1. /\ flight' = flight /\ pc' = [pc EXCEPT ![r] = "wait"]
        /\ pc[r] = "breaker" /\ req' = req
    BY <1>2, <1>5, Zenon DEF JoinFlight, Goto
  <2>2. pc'[r] = "wait" /\ \A q \in Reqs : q # r => pc'[q] = pc[q]
    BY <2>1 DEF Types, ReqTypes
  <2>3. \A q \in Reqs : pc'[q] \in {"load", "loaded"} => flight'[Key(q)'] = q
    BY <1>1, <2>1, <2>2, Zenon DEF Led
  <2>4. \A q \in Reqs : pc'[q] = "wait" => flight'[Key(q)'] # Nobody
    BY <1>1, <1>2, <1>5, <2>1, <2>2 DEF Led
  <2>5. ASSUME NEW j \in Keys, flight'[j] # Nobody
        PROVE  pc'[flight'[j]] \in {"load", "loaded"} /\ Handler[req'[flight'[j]].method].key = j
    <3>1. PICK q \in Reqs : q = flight[j] /\ flight'[j] = q
      BY <2>1, <2>5, Zenon DEF Types, ReqTypes
    <3>2. pc[q] \in {"load", "loaded"} /\ Key(q) = j
      BY <2>1, <2>5, <3>1 DEF Led
    <3> QED
      BY <2>1, <2>2, <3>1, <3>2, Zenon DEF Key
  <2> QED
    BY <2>3, <2>4, <2>5, Zenon DEF Led, Key
<1> QED
  BY <1>4, <1>5, Zenon

\* No step breaks it.
LEMMA LedHolds == ASSUME Types, Led, [Next]_vars PROVE Led'
<1>1. CASE \E r \in Reqs : JoinFlight(r)
  BY <1>1, LedJoins
<1>2. CASE \E r \in Reqs : LoadDone(r) \/ LoadFails(r)
  <2>1. PICK r \in Reqs : LoadDone(r) \/ LoadFails(r)
    BY <1>2
  <2>2. /\ pc[r] \in {"load", "loaded"}
        /\ flight' = [flight EXCEPT ![Key(r)] = Nobody]
        /\ pc' = [q \in Reqs |-> IF q \in Flown(r) THEN "done" ELSE pc[q]]
        /\ req' = req
    BY <2>1, Zenon DEF LoadDone, LoadFails
  <2> QED
    BY <2>2, LedLands, Zenon
<1>3. CASE \E r \in Reqs :
              \/ \E m \in Methods, level \in ReqLevels : Begin(r, m, level)
              \/ GetL1(r) \/ (\E ok \in BOOLEAN : GetL2(r, ok))
              \/ Rejected(r) \/ Canceled(r) \/ Load(r)
  <2>1. PICK r \in Reqs :
              \/ \E m \in Methods, level \in ReqLevels : Begin(r, m, level)
              \/ GetL1(r) \/ (\E ok \in BOOLEAN : GetL2(r, ok))
              \/ Rejected(r) \/ Canceled(r) \/ Load(r)
    BY <1>3
  <2>2. flight' = flight /\ \A q \in Reqs : q # r => req'[q] = req[q]
    BY <2>1, Zenon DEF Begin, GetL1, GetL2, Rejected, Canceled, Load, Types, ReqTypes
  <2>3. pc[r] # "idle" => req' = req
    BY <2>1, Zenon DEF Begin, GetL1, GetL2, Rejected, Canceled, Load
  <2>4. \/ /\ pc[r] \in {"idle", "l1", "l2", "breaker"}
           /\ \E l \in {"l1", "l2", "breaker", "done"} : pc' = [pc EXCEPT ![r] = l]
        \/ pc[r] = "load" /\ pc' = [pc EXCEPT ![r] = "loaded"]
    BY <2>1, Zenon DEF Begin, GetL1, GetL2, Rejected, Canceled, Load, Answer, Goto
  <2>5. \A q \in Reqs : /\ pc'[q] \in {"load", "loaded"} <=> pc[q] \in {"load", "loaded"}
                        /\ pc'[q] = "wait" => pc[q] = "wait"
    BY <2>4, Zenon DEF Types, ReqTypes
  <2>6. \A q \in Reqs : pc[q] \in {"load", "loaded", "wait"} => req'[q] = req[q]
    BY <2>2, <2>3, Zenon
  <2> QED
    BY <2>2, <2>5, <2>6, LedQuiet
<1>4. CASE UNCHANGED <<flight, pc, req>>
  BY <1>4, LedQuiet, Zenon
<1> QED
  BY <1>1, <1>2, <1>3, <1>4, NextCases, Zenon DEF WriteL1, WriteL2, RefreshLoad, RefreshStore,
                                                  InvalidateFamily, BreakerForgets, Invalidate,
                                                  ExpireL1, ExpireL2, ListKeys, DelKeys,
                                                  DbUpdate, SetMode, vars, reqVars

\* manager.go:233: whatever the requests, the keys and the interleaving, at most
\* one loader runs per key, it is the registered one, and nobody waits for a
\* leader that is gone.
THEOREM SpecSingleFlight == Spec => []SingleFlight
<1>1. Init => Led
  <2> SUFFICES ASSUME Init PROVE Led
    OBVIOUS
  <2> QED
    BY DEF Init, Led
<1>2. Types /\ Led /\ [Next]_vars => Led'
  BY LedHolds, Zenon
<1>3. Types /\ Led => SingleFlight
  BY LedIsSingleFlight, Zenon
<1> QED
  BY <1>1, <1>2, <1>3, SpecTypes, PTL DEF Spec

-----------------------------------------------------------------------------
(* Where documents come from                                               *)

\* What may come into Redis under key k, or on its way there, in a step.
Known(k, d) == InStock(k, d) \/ d = NoDoc \/ New(k, d)

\* What a step finds in Redis, with a goroutine or with a job.
LEMMA StockFacts ==
    ASSUME Types
    PROVE  /\ \A k \in Keys : InStock(k, l2[k])
           /\ \A r \in Reqs : pc[r] = "loaded" => InStock(Key(r), val[r])
           /\ \A r \in Reqs : bg[r] # NoTask => InStock(bg[r].key, bg[r].doc)
           /\ \A f \in Families : warm[f] # NoTask => InStock(warm[f].key, warm[f].doc)
  BY Zenon DEF InStock

\* L1 is written by the goroutines alone.
LEMMA FlowL1 ==
    ASSUME Types, [Next]_vars
    PROVE  \A k \in Keys : l1'[k] = l1[k] \/ l1'[k] = NoDoc \/ InStock(k, l1'[k])
<1>1. CASE \E r \in Reqs : WriteL1(r)
  <2>1. PICK r \in Reqs : WriteL1(r)
    BY <1>1
  <2>2. PICK t : t = bg[r]
    BY Zenon
  <2>3. t # NoTask
    BY <2>1, <2>2, Nothing DEF WriteL1
  <2>4. InStock(t.key, t.doc) /\ t.key \in Keys
    BY <2>2, <2>3, StockFacts, Zenon DEF Types, ReqTypes
  <2>5. l1' = [l1 EXCEPT ![t.key] = t.doc]
    BY <2>1, <2>2 DEF WriteL1
  <2> QED
    BY <2>4, <2>5 DEF Types, StoreTypes
<1>2. CASE \E f \in Families : InvalidateFamily(f)
  BY <1>2 DEF InvalidateFamily
<1>3. CASE \E k \in Keys : Invalidate(k) \/ ExpireL1(k)
  BY <1>3 DEF Invalidate, ExpireL1, Types, StoreTypes
<1>4. CASE UNCHANGED l1
  BY <1>4
<1> QED
  BY <1>1, <1>2, <1>3, <1>4, NextCases, ZenonT(30) DEF Begin, GetL1, GetL2, Rejected, Canceled,
                                                  JoinFlight, Load, LoadDone, LoadFails,
                                                  WriteL2, RefreshLoad, RefreshStore,
                                                  BreakerForgets, ExpireL2, ListKeys, DelKeys,
                                                  DbUpdate, SetMode, vars

\* Redis is written by the goroutines and the jobs.
LEMMA FlowL2 ==
    ASSUME Types, [Next]_vars
    PROVE  \A k \in Keys : Known(k, l2'[k])
<1> USE DEF Known
<1>1. CASE \E r \in Reqs, ok \in BOOLEAN : WriteL2(r, ok)
  <2>1. PICK r \in Reqs, ok \in BOOLEAN : WriteL2(r, ok)
    BY <1>1
  <2>2. PICK t : t = bg[r]
    BY Zenon
  <2>3. t # NoTask
    BY <2>1, <2>2, Nothing DEF WriteL2
  <2>4. InStock(t.key, t.doc) /\ t.key \in Keys
    BY <2>2, <2>3, StockFacts, Zenon DEF Types, ReqTypes
  <2>5. UNCHANGED l2 \/ l2' = [l2 EXCEPT ![t.key] = t.doc]
    BY <2>1, <2>2, Zenon DEF WriteL2
  <2> QED
    BY <2>4, <2>5, StockFacts, Zenon DEF Types, StoreTypes
<1>2. CASE \E f \in Families, ok \in BOOLEAN : RefreshStore(f, ok)
  <2>1. PICK f \in Families, ok \in BOOLEAN : RefreshStore(f, ok)
    BY <1>2
  <2>2. PICK t : t = warm[f]
    BY Zenon
  <2>3. InStock(t.key, t.doc) /\ t.key \in Keys
    BY <2>1, <2>2, StockFacts, Zenon DEF Types, StoreTypes, RefreshStore
  <2>4. UNCHANGED l2 \/ l2' = [l2 EXCEPT ![t.key] = t.doc]
    BY <2>1, <2>2, SMTT(30) DEF RefreshStore
  <2> QED
    BY <2>3, <2>4, StockFacts, Zenon DEF Types, StoreTypes
<1>3. CASE \E k \in Keys : ExpireL2(k)
  BY <1>3, StockFacts, Zenon DEF ExpireL2, Types, StoreTypes
<1>4. CASE \E ok \in BOOLEAN : DelKeys(ok)
  <2>1. UNCHANGED l2 \/ l2' = [k \in Keys |-> IF k \in inv.keys THEN NoDoc ELSE l2[k]]
    BY <1>4, Zenon DEF DelKeys
  <2> QED
    BY <2>1, StockFacts, Zenon
<1>5. CASE UNCHANGED l2
  BY <1>5, StockFacts, Zenon
<1> QED
  BY <1>1, <1>2, <1>3, <1>4, <1>5, NextCases, ZenonT(30) DEF Begin, GetL1, GetL2, Rejected, Canceled,
                                                        JoinFlight, Load, LoadDone, LoadFails,
                                                        WriteL1, RefreshLoad, InvalidateFamily,
                                                        BreakerForgets, Invalidate, ExpireL1,
                                                        ListKeys, DbUpdate, SetMode, vars

\* What a goroutine has to do.
Carry(op, k, d) == [op |-> op, key |-> k, doc |-> d]

\* The key and the document of a goroutine's task are the ones it was started with.
LEMMA CarryParts ==
    ASSUME NEW op, NEW k, NEW d
    PROVE  Carry(op, k, d).key = k /\ Carry(op, k, d).doc = d
  BY DEF Carry

\* What a goroutine carries was in Redis, or is what its request's loader or the
\* fallback chain has made.
LEMMA FlowBg ==
    ASSUME Types, [Next]_vars, NEW q \in Reqs, bg'[q] # NoTask
    PROVE  Known(bg'[q].key, bg'[q].doc)
<1> USE DEF Known
<1>0. DOMAIN bg = Reqs
  BY Zenon DEF Types, ReqTypes
<1>1. CASE bg'[q] = bg[q]
  BY <1>1, StockFacts, Zenon
<1>2. CASE \E ok \in BOOLEAN : GetL2(q, ok)
  <2>1. PICK k \in Keys : k = Key(q)
    BY <1>2, ReqHandler, Zenon DEF GetL2, Types
  <2>2. PICK d : d = l2[k]
    BY Zenon
  <2>3. bg' = bg \/ bg' = [bg EXCEPT ![q] = Carry("l1Set", k, d)]
    BY <1>2, <2>1, <2>2, Zenon DEF GetL2, Carry
  <2>4. InStock(k, d)
    BY <2>2, StockFacts, Zenon
  <2>5. bg'[q] = Carry("l1Set", k, d) \/ bg'[q] = bg[q]
    BY <1>0, <2>3, Zenon
  <2>6. CASE bg'[q] = Carry("l1Set", k, d)
    <3>0. Carry("l1Set", k, d).key = k /\ Carry("l1Set", k, d).doc = d
      BY CarryParts
    <3>1. bg'[q].key = k /\ bg'[q].doc = d
      BY <2>6, <3>0, Zenon
    <3> QED
      BY <2>4, <3>1, Zenon
  <2> QED
    BY <1>1, <2>5, <2>6, Zenon
<1>3. CASE Rejected(q)
  <2>1. PICK k \in Keys : k = Key(q) /\ FamilyOf(k) = Family(q)
    BY <1>3, ReqHandler, Zenon DEF Rejected, Types
  <2>2. PICK d : d = FallbackData(k)
    BY Zenon
  <2>3. bg' = bg \/ bg' = [bg EXCEPT ![q] = Carry("writeBack", k, d)]
    BY <1>3, <2>1, <2>2, ZenonT(30) DEF Rejected, Carry
  <2>4. d.ver = db /\ d.kind = "redirect" /\ tripped[FamilyOf(k)]
    BY <1>3, <2>1, <2>2, Zenon DEF Rejected, FallbackData, BreakerRejects
  <2>5. New(k, d)
    BY <2>4, Zenon DEF New
  <2>6. bg'[q] = Carry("writeBack", k, d) \/ bg'[q] = bg[q]
    BY <1>0, <2>3, Zenon
  <2>7. CASE bg'[q] = Carry("writeBack", k, d)
    <3>0. Carry("writeBack", k, d).key = k /\ Carry("writeBack", k, d).doc = d
      BY CarryParts
    <3>1. bg'[q].key = k /\ bg'[q].doc = d
      BY <2>7, <3>0, Zenon
    <3> QED
      BY <2>5, <3>1, Zenon
  <2> QED
    BY <1>1, <2>6, <2>7, Zenon
<1>4. CASE LoadDone(q)
  <2>1. PICK k \in Keys : k = Key(q)
    BY <1>4, ReqHandler, Zenon DEF LoadDone, Types
  <2>2. PICK d : d = val[q]
    BY Zenon
  <2>3. bg' = [bg EXCEPT ![q] = Carry("writeBack", k, d)]
    BY <1>4, <2>1, <2>2, Zenon DEF LoadDone, Carry
  <2>4. InStock(k, d)
    BY <1>4, <2>1, <2>2, StockFacts, Zenon DEF LoadDone
  <2>5. bg'[q] = Carry("writeBack", k, d)
    BY <1>0, <2>3, Zenon
  <2>6. bg'[q].key = k /\ bg'[q].doc = d
    <3>1. Carry("writeBack", k, d).key = k /\ Carry("writeBack", k, d).doc = d
      BY CarryParts
    <3> QED
      BY <2>5, <3>1, Zenon
  <2> QED
    BY <2>4, <2>6, Zenon
<1>5. CASE WriteL1(q)
  <2>1. PICK t : t = bg[q]
    BY Zenon
  <2>2. t \in Tasks /\ t # NoTask
    BY <1>5, <2>1, Nothing DEF WriteL1, Types, ReqTypes
  <2>3. bg'[q] = [t EXCEPT !.op = "setex"]
    BY <1>5, <2>1, Zenon DEF WriteL1, Types, ReqTypes
  <2>4. bg'[q].key = t.key /\ bg'[q].doc = t.doc
    BY <2>2, <2>3, Zenon DEF Tasks
  <2>5. InStock(t.key, t.doc)
    BY <2>1, <2>2, StockFacts, Zenon
  <2> QED
    BY <2>4, <2>5, Zenon
<1>6. CASE \E ok \in BOOLEAN : WriteL2(q, ok)
  BY <1>6, Zenon DEF WriteL2, Types, ReqTypes
<1>7. CASE \E r \in Reqs :
              /\ r # q
              /\ \/ \E ok \in BOOLEAN : GetL2(r, ok) \/ WriteL2(r, ok)
                 \/ Rejected(r) \/ LoadDone(r) \/ WriteL1(r)
  BY <1>1, <1>7, ZenonT(30) DEF GetL2, Rejected, LoadDone, WriteL1, WriteL2, Types, ReqTypes
<1>8. CASE UNCHANGED bg
  BY <1>1, <1>8, Zenon
<1> QED
  BY <1>2, <1>3, <1>4, <1>5, <1>6, <1>7, <1>8, NextCases, Zenon
     DEF Begin, GetL1, Canceled, JoinFlight, Load, LoadFails, RefreshLoad, RefreshStore,
         InvalidateFamily, BreakerForgets, Invalidate, ExpireL1, ExpireL2, ListKeys, DelKeys,
         DbUpdate, SetMode, vars

\* What a leader holds its loader has just read.
LEMMA FlowVal ==
    ASSUME Types, [Next]_vars, NEW q \in Reqs, pc'[q] = "loaded"
    PROVE  /\ Key(q)' \in Keys /\ Known(Key(q)', val'[q])
           /\ \/ pc[q] = "loaded" /\ val'[q] = val[q] /\ req'[q] = req[q]
              \/ val'[q].kind \in {Type(q)', "null"}
<1> USE DEF Known
<1>1. CASE pc[q] = "loaded" /\ val'[q] = val[q] /\ req'[q] = req[q]
  BY <1>1, StockFacts, ReqHandler, Zenon DEF Key, Types
<1>2. CASE Load(q)
  <2>1. PICK m \in Methods : m = req[q].method
    BY <1>2, ReqHandler, Zenon DEF Load, Types
  <2>2. PICK kind \in {Type(q), "null"} : val' = [val EXCEPT ![q] = [kind |-> kind, ver |-> db]]
    BY <1>2, Zenon DEF Load
  <2>3. PICK d : d = [kind |-> kind, ver |-> db]
    BY Zenon
  <2>4. val'[q] = d /\ d.kind = kind /\ d.ver = db /\ req' = req
    BY <1>2, <2>2, <2>3, Zenon DEF Load, Types, ReqTypes
  <2>5. PICK k : k = Handler[m].key
    BY Zenon
  <2>6. New(k, d) /\ k \in Keys /\ d.kind \in {Handler[m].type, "null"}
    BY <2>1, <2>2, <2>4, <2>5, FamilyOfKey, Zenon DEF New, Type
  <2>7. Key(q)' = k /\ Type(q)' = Handler[m].type
    BY <2>1, <2>4, <2>5 DEF Key, Type
  <2> QED
    BY <2>4, <2>6, <2>7, Zenon
<1>3. CASE \E r \in Reqs :
              \/ \E m \in Methods, level \in ReqLevels : Begin(r, m, level)
              \/ GetL1(r) \/ (\E ok \in BOOLEAN : GetL2(r, ok))
              \/ Rejected(r) \/ Canceled(r) \/ JoinFlight(r)
  <2>0. pc \in [Reqs -> Labels] /\ DOMAIN req = Reqs
    BY DEF Types, ReqTypes
  <2>1. PICK r \in Reqs :
              \/ \E m \in Methods, level \in ReqLevels : Begin(r, m, level)
              \/ GetL1(r) \/ (\E ok \in BOOLEAN : GetL2(r, ok))
              \/ Rejected(r) \/ Canceled(r) \/ JoinFlight(r)
    BY <1>3
  <2>2. val' = val
    BY <2>1, Zenon DEF Begin, GetL1, GetL2, Rejected, Canceled, JoinFlight
  <2>3. \A s \in Reqs \ {r} : req'[s] = req[s]
    BY <2>0, <2>1, Zenon DEF Begin, GetL1, GetL2, Rejected, Canceled, JoinFlight
  <2>4. PICK label \in {"l1", "l2", "breaker", "load", "wait", "done"} :
           pc' = [pc EXCEPT ![r] = label]
    <3>1. CASE \E m \in Methods, level \in ReqLevels : Begin(r, m, level)
      BY <3>1, Zenon DEF Begin, Answer, Goto
    <3>2. CASE GetL1(r)
      BY <3>2, Zenon DEF GetL1, Answer, Goto
    <3>3. CASE \E ok \in BOOLEAN : GetL2(r, ok)
      BY <3>3, Zenon DEF GetL2, Answer, Goto
    <3>4. CASE Rejected(r)
      <4>1. pc' = [pc EXCEPT ![r] = "done"]
        BY <3>4, Zenon DEF Rejected, Answer
      <4> QED
        BY <4>1, Zenon
    <3>5. CASE Canceled(r) \/ JoinFlight(r)
      BY <3>5 DEF Canceled, JoinFlight, Answer, Goto
    <3> QED
      BY <2>1, <3>1, <3>2, <3>3, <3>4, <3>5, Zenon
  <2>5. q # r
    BY <2>0, <2>4
  <2>6. pc[q] = "loaded"
    BY <2>0, <2>4, <2>5
  <2> QED
    BY <1>1, <2>2, <2>3, <2>5, <2>6, Zenon
<1>4. CASE \E r \in Reqs : Load(r) /\ r # q
  BY <1>1, <1>4, Zenon DEF Load, Goto, Types, ReqTypes
<1>5. CASE \E r \in Reqs : LoadDone(r)
  BY <1>1, <1>5, ZenonT(30) DEF LoadDone, Flown, Types, ReqTypes
<1>6. CASE \E r \in Reqs : LoadFails(r)
  BY <1>1, <1>6, Zenon DEF LoadFails, Types, ReqTypes
<1>7. CASE UNCHANGED <<pc, val, req>>
  BY <1>1, <1>7, Zenon
<1> QED
  BY <1>2, <1>3, <1>4, <1>5, <1>6, <1>7, NextCases, Zenon DEF WriteL1, WriteL2, RefreshLoad,
                                                              RefreshStore, InvalidateFamily,
                                                              BreakerForgets, Invalidate,
                                                              ExpireL1, ExpireL2, ListKeys,
                                                              DelKeys, DbUpdate, SetMode, vars,
                                                              reqVars

\* What a job is about to store its warmer has just made.
LEMMA FlowWarm ==
    ASSUME Types, [Next]_vars, NEW g \in Families, warm'[g] # NoTask
    PROVE  Known(warm'[g].key, warm'[g].doc)
<1> USE DEF Known
<1>1. CASE warm'[g] = warm[g]
  BY <1>1, StockFacts, Zenon
<1>2. CASE \E k \in Keys : RefreshLoad(g, k)
  <2>1. PICK k \in Keys : RefreshLoad(g, k)
    BY <1>2
  <2>2. PICK d : d = [kind |-> WarmerKind(k), ver |-> db]
    BY Zenon
  <2>3. warm' = [warm EXCEPT ![g] = [op |-> "setex", key |-> k, doc |-> d]]
    BY <2>1, <2>2, Zenon DEF RefreshLoad
  <2>4. d.ver = db /\ d.kind = WarmerKind(k) /\ WarmerKind(k) # "none"
    BY <2>1, <2>2, Zenon DEF RefreshLoad
  <2>5. New(k, d)
    BY <2>4, Zenon DEF New
  <2>6. warm'[g] = [op |-> "setex", key |-> k, doc |-> d]
    BY <2>3, Zenon DEF Types, StoreTypes
  <2>7. warm'[g].key = k /\ warm'[g].doc = d
    BY <2>6
  <2> QED
    BY <2>5, <2>7, Zenon
<1>3. CASE \E ok \in BOOLEAN : RefreshStore(g, ok)
  BY <1>3, Zenon DEF RefreshStore, Types, StoreTypes
<1>4. CASE \E f \in Families :
              f # g /\ ((\E k \in Keys : RefreshLoad(f, k)) \/ \E ok \in BOOLEAN : RefreshStore(f, ok))
  BY <1>1, <1>4, Zenon DEF RefreshLoad, RefreshStore, Types, StoreTypes
<1>5. CASE UNCHANGED warm
  BY <1>1, <1>5
<1> QED
  BY <1>2, <1>3, <1>4, <1>5, NextCases, ZenonT(30) DEF Begin, GetL1, GetL2, Rejected, Canceled,
                                                       JoinFlight, Load, LoadDone, LoadFails,
                                                       WriteL1, WriteL2, InvalidateFamily,
                                                       BreakerForgets, Invalidate, ExpireL1,
                                                       ExpireL2, ListKeys, DelKeys, DbUpdate,
                                                       SetMode, vars

\* No document comes from anywhere else.
LEMMA Flow ==
    ASSUME Types, [Next]_vars, NEW k \in Keys, NEW d \in Docs, InStock(k, d)'
    PROVE  Known(k, d)
<1>1. CASE l2'[k] = d
  BY <1>1, FlowL2, Zenon
<1>2. CASE \E r \in Reqs : pc'[r] = "loaded" /\ Key(r)' = k /\ val'[r] = d
  BY <1>2, FlowVal, Zenon
<1>3. CASE \E r \in Reqs : bg'[r] # NoTask /\ bg'[r].key = k /\ bg'[r].doc = d
  BY <1>3, FlowBg, Zenon
<1>4. CASE \E f \in Families : warm'[f] # NoTask /\ warm'[f].key = k /\ warm'[f].doc = d
  BY <1>4, FlowWarm, Zenon
<1> QED
  BY <1>1, <1>2, <1>3, <1>4, Zenon DEF InStock, Key

-----------------------------------------------------------------------------
(* NoRedirectWithoutErrors                                                 *)

\* What loaders, warmers and the fallback chain make is sound.
LEMMA NewSound ==
    ASSUME DocsSound, NEW k \in Keys, NEW d, New(k, d)
    PROVE  Sound(k, d)
<1>1. PICK m \in Methods : Handler[m].key = k
  BY KeyHandler
<1>2. \A n \in Methods : Handler[n].key = k => Handler[n] = Handler[m]
  BY <1>1, SameKey, CacheAssumption, Zenon
<1>3. /\ Handler[m].type \in {"list", "lists", "object"}
      /\ WarmerKind(k) \in {"none", "base64", Handler[m].type}
      /\ FamilyOf(k) = Handler[m].family /\ FamilyOf(k) \in Families
  BY <1>1, HandlerKinds, FamilyOfKey, CacheAssumption, Zenon
<1>4. CASE d.kind \in {Handler[m].type, "null"}
  BY <1>2, <1>3, <1>4, Zenon DEF Sound, Decodes
<1>5. CASE d.kind = "base64" /\ WarmerKind(k) = "base64"
  BY <1>5, Zenon DEF Sound
<1>6. CASE d.kind = "redirect" /\ tripped[FamilyOf(k)]
  <2>1. ~ Swallows(Handler[m].family)
    BY <1>3, <1>6, ZenonT(30) DEF DocsSound
  <2> QED
    BY <1>2, <1>3, <2>1, Zenon DEF Sound
<1> QED
  BY <1>1, <1>2, <1>3, <1>4, <1>5, <1>6, Zenon DEF New

\* No step breaks DocsSound.
LEMMA DocsSoundHolds == ASSUME Types, DocsSound, [Next]_vars PROVE DocsSound'
<1>1. ASSUME NEW k \in Keys, NEW d \in Docs, InStock(k, d)' \/ l1'[k] = d PROVE Sound(k, d)
  <2>1. Sound(k, NoDoc)
    BY Nothing, Zenon DEF Sound
  <2>2. InStock(k, d) \/ l1[k] = d => Sound(k, d)
    BY Zenon DEF DocsSound
  <2>3. InStock(k, d) \/ l1[k] = d \/ d = NoDoc \/ New(k, d)
    BY <1>1, Flow, FlowL1, Zenon DEF Known
  <2> QED
    BY <2>1, <2>2, <2>3, NewSound
<1>2. \A f \in Families : tripped'[f] => ~ Swallows(f)
  <2>1. CASE \E r \in Reqs : LoadFails(r)
    <3>1. PICK r \in Reqs : LoadFails(r)
      BY <2>1
    <3>2. req[r].method \in Methods /\ Family(r) \in Families
      BY <3>1, ReqHandler, Zenon DEF LoadFails, Types
    <3>3. ~ Swallows(Family(r))
      BY <3>1, <3>2, ZenonT(30) DEF LoadFails, Swallows, Family
    <3>4. tripped' = [tripped EXCEPT ![Family(r)] = TRUE]
      BY <3>1, Zenon DEF LoadFails
    <3> QED
      BY <3>2, <3>3, <3>4 DEF DocsSound, Types, StoreTypes
  <2>2. CASE \E f \in Families : BreakerForgets(f)
    BY <2>2, Zenon DEF BreakerForgets, DocsSound, Types, StoreTypes
  <2>3. CASE UNCHANGED tripped
    BY <2>3, Zenon DEF DocsSound
  <2> QED
    BY <2>1, <2>2, <2>3, NextCases, Zenon DEF Begin, GetL1, GetL2, Rejected, Canceled,
                                              JoinFlight, Load, LoadDone, WriteL1, WriteL2,
                                              RefreshLoad, RefreshStore, InvalidateFamily,
                                              Invalidate, ExpireL1, ExpireL2, ListKeys, DelKeys,
                                              DbUpdate, SetMode, vars
<1> QED
  BY <1>1, <1>2, Zenon DEF DocsSound

\* At first there is no document.
LEMMA NoStockAtFirst ==
    ASSUME Init PROVE \A k \in Keys, d \in Docs : InStock(k, d) \/ l1[k] = d => d = NoDoc
  BY Zenon DEF Init, InStock

\* DocsSound is an invariant.
LEMMA SpecDocsSound == Spec => []DocsSound
<1>1. Init => DocsSound
  <2> SUFFICES ASSUME Init PROVE DocsSound
    OBVIOUS
  <2>1. \A k \in Keys : Sound(k, NoDoc)
    BY Nothing, Zenon DEF Sound
  <2>2. \A k \in Keys, d \in Docs : InStock(k, d) \/ l1[k] = d => Sound(k, d)
    BY <2>1, NoStockAtFirst, Zenon
  <2>3. \A f \in Families : tripped[f] => ~ Swallows(f)
    BY Zenon DEF Init
  <2> QED
    BY <2>2, <2>3 DEF DocsSound
<1>2. Types /\ DocsSound /\ [Next]_vars => DocsSound'
  BY DocsSoundHolds, Zenon
<1> QED
  BY <1>1, <1>2, SpecTypes, PTL DEF Spec

\* fallback.go's CDN document never reaches a cache of a family whose loaders
\* swallow their database errors, for any requests and any handlers of call.go.
THEOREM SpecNoRedirectWithoutErrors == Spec => []NoRedirectWithoutErrors
<1>1. ASSUME Types, DocsSound PROVE NoRedirectWithoutErrors
  <2> SUFFICES ASSUME NEW k \in Keys, Swallows(FamilyOf(k))
               PROVE  l1[k].kind # "redirect" /\ l2[k].kind # "redirect"
    BY DEF NoRedirectWithoutErrors
  <2>1. l1[k] \in Docs /\ l2[k] \in Docs /\ InStock(k, l2[k])
    BY <1>1, StockFacts, Zenon DEF Types, StoreTypes
  <2>2. Sound(k, l1[k]) /\ Sound(k, l2[k])
    BY <1>1, <2>1, Zenon DEF DocsSound
  <2> QED
    BY <2>2, Zenon DEF Sound
<1> QED
  BY <1>1, SpecTypes, SpecDocsSound, PTL

-----------------------------------------------------------------------------
(* SharedKeysAgree                                                         *)

\* The exceptions of SharedKeysAgree.
Excused(r) == WarmerKind(Key(r)) = "base64" \/ ~ Swallows(Family(r))

\* A request that decodes what it finds in a cache fails only if it is excused.
LEMMA HitDecodes ==
    ASSUME Types, NEW r \in Reqs, pc[r] # "idle", NEW d \in Docs, Sound(Key(r), d), d # NoDoc,
           Decoded(Type(r), d).code = "undecodable"
    PROVE  Excused(r)
<1>1. PICK t : t = Type(r)
  BY Zenon
<1>2. ~ Decodes(t, d)
  BY <1>1, AnswerType
<1>3. req[r].method \in Methods
  BY ReqHandler, Zenon DEF Types
<1> QED
  BY <1>1, <1>2, <1>3, Zenon DEF Sound, Excused, Key, Family, Type

\* A request keeps its method, but for the step in which it gets it.
LEMMA ReqStays ==
    ASSUME Types, [Next]_vars, NEW q \in Reqs
    PROVE  \/ req'[q] = req[q] /\ (pc'[q] = "idle" => pc[q] = "idle")
           \/ /\ pc[q] = "idle"
              /\ pc'[q] # "idle" /\ (res'[q] = res[q] \/ res'[q] = Failure("degradeClosed"))
<1>1. CASE \E r \in Reqs, m \in Methods, level \in ReqLevels : Begin(r, m, level)
  BY <1>1, ZenonT(30) DEF Begin, Answer, Goto, Types, ReqTypes
<1>2. CASE \E r \in Reqs :
              \/ GetL1(r) \/ (\E ok \in BOOLEAN : GetL2(r, ok))
              \/ Rejected(r) \/ Canceled(r) \/ JoinFlight(r) \/ Load(r)
  <2>1. req' = req
    BY <1>2, Zenon DEF GetL1, GetL2, Rejected, Canceled, JoinFlight, Load
  <2>2. PICK r \in Reqs : \E label \in {"l2", "breaker", "wait", "load", "loaded", "done"} :
           pc' = [pc EXCEPT ![r] = label]
    BY <1>2, Zenon DEF GetL1, GetL2, Rejected, Canceled, JoinFlight, Load, Answer, Goto
  <2>3. pc'[q] = "idle" => pc[q] = "idle"
    BY <2>2 DEF Types, ReqTypes
  <2> QED
    BY <2>1, <2>3, Zenon
<1>3. CASE \E r \in Reqs : LoadDone(r)
  BY <1>3, ZenonT(30) DEF LoadDone
<1>4. CASE \E r \in Reqs : LoadFails(r)
  BY <1>4, Zenon DEF LoadFails
<1>5. CASE UNCHANGED <<pc, req>>
  BY <1>5, Zenon
<1> QED
  BY <1>1, <1>2, <1>3, <1>4, <1>5, NextCases, Zenon DEF WriteL1, WriteL2, RefreshLoad,
                                                        RefreshStore, InvalidateFamily,
                                                        BreakerForgets, Invalidate, ExpireL1,
                                                        ExpireL2, ListKeys, DelKeys, DbUpdate,
                                                        SetMode, vars, reqVars

\* The answer that a request gets in a step.
LEMMA NewAnswer ==
    ASSUME Types, DocsSound, Answers, [Next]_vars, NEW q \in Reqs, res'[q] # res[q]
    PROVE  pc'[q] # "idle" /\ (res'[q].code = "undecodable" => pc[q] # "idle" /\ Excused(q))
<1>1. \A code \in Codes : code # "undecodable" => Failure(code).code # "undecodable"
  BY AnswerType, Zenon
<1>2. CASE \E m \in Methods, level \in ReqLevels : Begin(q, m, level)
  <2>1. res'[q] = Failure("degradeClosed") /\ pc'[q] = "done"
    BY <1>2, ZenonT(30) DEF Begin, Answer, Goto, Types, ReqTypes
  <2> QED
    BY <1>1, <2>1, Zenon DEF Codes
<1>3. CASE GetL1(q)
  <2>1. PICK k \in Keys : k = Key(q)
    BY <1>3, ReqHandler, Zenon DEF GetL1, Types
  <2>2. PICK d \in Docs : d = l1[k]
    BY Zenon DEF Types, StoreTypes
  <2>3. Sound(k, d)
    BY <2>2 DEF DocsSound
  <2>4. res'[q] = Decoded(Type(q), d) /\ d # NoDoc /\ pc[q] # "idle" /\ pc'[q] = "done"
    BY <1>3, <2>1, <2>2, Zenon DEF GetL1, Answer, Goto, Types, ReqTypes
  <2> QED
    BY <2>1, <2>3, <2>4, HitDecodes, Zenon
<1>4. CASE \E ok \in BOOLEAN : GetL2(q, ok)
  <2>1. PICK k \in Keys : k = Key(q)
    BY <1>4, ReqHandler, Zenon DEF GetL2, Types
  <2>2. PICK d \in Docs : d = l2[k]
    BY DEF Types, StoreTypes
  <2>3. Sound(k, d)
    BY <2>2, StockFacts, Zenon DEF DocsSound
  <2>4. res'[q] = Decoded(Type(q), d) /\ d # NoDoc /\ pc[q] # "idle" /\ pc'[q] = "done"
    BY <1>4, <2>1, <2>2, Zenon DEF GetL2, Answer, Goto, Types, ReqTypes
  <2> QED
    BY <2>1, <2>3, <2>4, HitDecodes, Zenon
<1>5. CASE Rejected(q) \/ Canceled(q)
  <2>1. (res'[q] = Failure("circuitOpen") \/ res'[q] = Failure("canceled")) /\ pc'[q] = "done"
    BY <1>5, Zenon DEF Rejected, Canceled, Answer, Types, ReqTypes
  <2> QED
    BY <1>1, <2>1, Zenon DEF Codes
<1>6. CASE \E r \in Reqs : LoadDone(r)
  <2>1. PICK r \in Reqs : LoadDone(r)
    BY <1>6
  <2>2. q \in Flown(r) /\ res'[q] = Decoded(Type(q), val[r]) /\ pc'[q] = "done"
    BY <2>1, Zenon DEF LoadDone
  <2>3. pc[r] = "loaded" /\ pc[q] # "idle" /\ Key(q) = Key(r)
    BY <2>1, <2>2, ZenonT(30) DEF LoadDone, Flown
  <2>4. req[r].method \in Methods /\ req[q].method \in Methods
    BY <2>3, ReqHandler, Zenon DEF Types
  <2>5. Type(q) = Type(r)
    BY <2>3, <2>4, SameKey, CacheAssumption, Zenon DEF Key, Type
  <2>6. Decodes(Type(q), val[r])
    BY <2>3, <2>5 DEF Answers, Decodes
  <2>7. PICK d : d = val[r]
    BY Zenon
  <2>8. PICK t : t = Type(q)
    BY Zenon
  <2>9. Decoded(t, d).code # "undecodable"
    BY <2>6, <2>7, <2>8, AnswerType, Zenon
  <2> QED
    BY <2>2, <2>7, <2>8, <2>9, Zenon
<1>7. CASE \E r \in Reqs : LoadFails(r)
  <2>1. res'[q] = Failure("loaderError") /\ pc'[q] = "done"
    BY <1>7, Zenon DEF LoadFails
  <2> QED
    BY <1>1, <2>1, Zenon DEF Codes
<1>8. CASE JoinFlight(q) \/ Load(q)
  BY <1>8, Zenon DEF JoinFlight, Load, Goto
<1>9. CASE \E r \in Reqs :
              /\ r # q
              /\ \/ \E m \in Methods, level \in ReqLevels : Begin(r, m, level)
                 \/ GetL1(r) \/ (\E ok \in BOOLEAN : GetL2(r, ok))
                 \/ Rejected(r) \/ Canceled(r) \/ JoinFlight(r) \/ Load(r)
  BY <1>9, ZenonT(30) DEF Begin, GetL1, GetL2, Rejected, Canceled, JoinFlight, Load, Answer,
                          Goto, Types, ReqTypes
<1>10. CASE UNCHANGED res
  BY <1>10
<1> QED
  BY <1>2, <1>3, <1>4, <1>5, <1>6, <1>7, <1>8, <1>9, <1>10, NextCases, Zenon
     DEF WriteL1, WriteL2, RefreshLoad, RefreshStore, InvalidateFamily, BreakerForgets,
         Invalidate, ExpireL1, ExpireL2, ListKeys, DelKeys, DbUpdate, SetMode, vars, reqVars

\* No step breaks Answers.
LEMMA AnswersHold == ASSUME Types, DocsSound, Answers, [Next]_vars PROVE Answers'
<1>1. ASSUME NEW q \in Reqs, pc'[q] = "loaded"
      PROVE  val'[q].kind \in {Handler[req'[q].method].type, "null"}
  <2>1. CASE pc[q] = "loaded" /\ val'[q] = val[q] /\ req'[q] = req[q]
    BY <2>1, Zenon DEF Answers, Type
  <2>2. CASE val'[q].kind \in {Type(q)', "null"}
    BY <2>2 DEF Type
  <2> QED
    BY <1>1, <2>1, <2>2, FlowVal, Zenon
<1>2. ASSUME NEW q \in Reqs, pc'[q] = "idle" PROVE res'[q].code = "none"
  <2>1. res'[q] = res[q]
    BY <1>2, NewAnswer, Zenon
  <2>2. pc[q] = "idle"
    BY <1>2, ReqStays, Zenon
  <2> QED
    BY <2>1, <2>2 DEF Answers
<1>3. ASSUME NEW q \in Reqs, res'[q].code = "undecodable" PROVE Excused(q)'
  <2>1. Excused(q) /\ pc[q] # "idle"
    <3>1. CASE res'[q] = res[q]
      <4>1. pc[q] # "idle"
        BY <1>3, <3>1, Zenon DEF Answers
      <4> QED
        BY <1>3, <3>1, <4>1, Zenon DEF Answers, SharedKeysAgree, Excused
    <3>2. CASE res'[q] # res[q]
      BY <1>3, <3>2, NewAnswer, Zenon
    <3> QED
      BY <3>1, <3>2, Zenon
  <2>2. req'[q] = req[q]
    BY <2>1, ReqStays, Zenon
  <2> QED
    BY <2>1, <2>2, Zenon DEF Excused, Key, Family
<1> QED
  BY <1>1, <1>2, <1>3, Zenon DEF Answers, SharedKeysAgree, Excused, Type, Key, Family

\* Handlers that share a Redis key cache what all of them can decode: for any
\* methods of call.go and any interleaving, an answer is undecodable only where a
\* warmer stores base64 or the family's breaker can trip.
THEOREM SpecSharedKeysAgree == Spec => []SharedKeysAgree
<1>1. Init => Answers
  <2> SUFFICES ASSUME Init PROVE Answers
    BY Zenon
  <2> QED
    BY Nothing, Zenon DEF Init, Answers, SharedKeysAgree
<1>2. Types /\ DocsSound /\ Answers /\ [Next]_vars => Answers'
  BY AnswersHold, Zenon
<1>3. Answers => SharedKeysAgree
  BY Zenon DEF Answers
<1> QED
  BY <1>1, <1>2, <1>3, SpecTypes, SpecDocsSound, PTL DEF Spec

-----------------------------------------------------------------------------
(* InvalidationSticksInL2                                                  *)

\* An invalidation under way, and what it has to do with the database.
LEMMA InvSteps ==
    ASSUME Types, [Next]_vars, inv.ver <= db
    PROVE  /\ db' \in Nat /\ db' >= db /\ inv'.ver <= db'
           /\ \/ inv'.done = inv.done /\ inv'.raced = inv.raced
              \/ /\ Invalidated(inv.keys) /\ UNCHANGED <<db, pc, req, val, bg, warm>>
                 /\ \A k \in inv.keys : l2'[k] = NoDoc
<1> USE DEF Types
<1>0. db \in Nat /\ inv.ver \in Nat /\ inv.ver <= db
  BY DEF StoreTypes
<1>1. CASE \E k \in Keys : Invalidate(k)
  <2>1. PICK k \in Keys : Invalidate(k)
    BY <1>1
  <2>2. PICK K : K = {k}
    BY Zenon
  <2>3. inv' = [inv EXCEPT !.pc = "del", !.keys = K, !.ver = db] /\ db' = db
    BY <2>1, <2>2 DEF Invalidate
  <2> QED
    BY <2>3 DEF StoreTypes
<1>2. CASE \E f \in Families : InvalidateFamily(f)
  <2>1. PICK f \in Families : InvalidateFamily(f)
    BY <1>2
  <2>2. PICK K : K = {k \in Keys : FamilyOf(k) = f}
    BY Zenon
  <2>3. inv' = [inv EXCEPT !.pc = "keys", !.keys = K, !.ver = db] /\ db' = db
    BY <2>1, <2>2 DEF InvalidateFamily
  <2> QED
    BY <2>3 DEF StoreTypes
<1>3. ASSUME InvalidationFailed, db' = db
      PROVE  /\ db' \in Nat /\ db' >= db /\ inv'.ver <= db'
             /\ inv'.done = inv.done /\ inv'.raced = inv.raced
  BY <1>3 DEF InvalidationFailed, StoreTypes
<1>4. ASSUME Invalidated(inv.keys), db' = db
      PROVE  db' \in Nat /\ db' >= db /\ inv'.ver <= db'
  <2>1. PICK K : K = inv.keys
    BY Zenon
  <2>2. inv'.ver = 0
    BY <1>4, <2>1, InvalidatedTypes, Zenon
  <2> QED
    BY <1>4, <2>2 DEF StoreTypes
<1>5. CASE \E ok \in BOOLEAN : ListKeys(ok)
  <2>1. PICK ok \in BOOLEAN : ListKeys(ok)
    BY <1>5
  <2>2. PICK F : F = {k \in inv.keys : l2[k] # NoDoc}
    BY Zenon
  <2>3. \/ InvalidationFailed \/ (Invalidated(inv.keys) /\ F = {})
        \/ inv' = [inv EXCEPT !.pc = "del", !.keys = F]
    BY <2>1, <2>2 DEF ListKeys
  <2>4. UNCHANGED <<db, l2, pc, req, val, bg, warm>>
    BY <2>1, SMTT(30) DEF ListKeys, reqVars
  <2>5. F = {} => \A k \in inv.keys : l2'[k] = NoDoc
    BY <2>2, <2>4
  <2>6. CASE inv' = [inv EXCEPT !.pc = "del", !.keys = F]
    BY <2>4, <2>6, SMTT(30) DEF StoreTypes
  <2> QED
    BY <1>3, <1>4, <2>3, <2>4, <2>5, <2>6
<1>6. CASE \E ok \in BOOLEAN : DelKeys(ok)
  <2>1. PICK ok \in BOOLEAN : DelKeys(ok)
    BY <1>6
  <2>2. \/ InvalidationFailed
        \/ /\ Invalidated(inv.keys)
           /\ l2' = [k \in Keys |-> IF k \in inv.keys THEN NoDoc ELSE l2[k]]
    BY <2>1 DEF DelKeys
  <2>3. UNCHANGED <<db, pc, req, val, bg, warm>>
    BY <2>1 DEF DelKeys, reqVars
  <2>4. inv.keys \subseteq Keys
    BY Zenon DEF StoreTypes
  <2> QED
    BY <1>3, <1>4, <2>2, <2>3, <2>4, Zenon
<1>7. CASE DbUpdate
  <2>1. db' = db + 1 /\ inv' = inv
    BY <1>7, Zenon DEF DbUpdate
  <2>2. db' \in Nat /\ db' >= db /\ inv.ver <= db'
    BY <1>0, <2>1
  <2> QED
    BY <2>1, <2>2, Zenon
<1>8. CASE UNCHANGED <<db, inv>>
  <2>1. db' = db /\ inv' = inv
    BY <1>8, Zenon
  <2>2. db' >= db
    BY <1>0, <2>1
  <2> QED
    BY <1>0, <2>1, <2>2, Zenon
<1> QED
  BY <1>1, <1>2, <1>5, <1>6, <1>7, <1>8, NextCases, ZenonT(30)
     DEF Begin, GetL1, GetL2, Rejected, Canceled, JoinFlight, Load, LoadDone, LoadFails,
         WriteL1, WriteL2, RefreshLoad, RefreshStore, BreakerForgets, ExpireL1, ExpireL2,
         SetMode, vars

\* No step breaks Sticks.
LEMMA SticksHolds == ASSUME Types, Sticks, [Next]_vars PROVE Sticks'
<1>1. inv.ver <= db /\ \A k \in Keys : inv.done[k] <= db
  BY Zenon DEF Sticks
<1>2. /\ db \in Nat /\ db' \in Nat /\ db' >= db /\ inv'.ver <= db'
      /\ inv.ver \in Nat /\ \A k \in Keys : inv.done[k] \in Nat
  BY <1>1, InvSteps, Zenon DEF Types, StoreTypes
<1>3. \A k \in Keys, d \in Docs :
         ~ inv.raced[k] /\ InStock(k, d)' /\ d # NoDoc => d.ver >= inv.done[k]
  <2> SUFFICES ASSUME NEW k \in Keys, NEW d \in Docs, ~ inv.raced[k], InStock(k, d)', d # NoDoc
               PROVE  d.ver >= inv.done[k]
    OBVIOUS
  <2>1. InStock(k, d) \/ New(k, d)
    BY Flow, Zenon DEF Known
  <2>2. CASE InStock(k, d)
    BY <2>2, Zenon DEF Sticks
  <2>3. CASE New(k, d)
    BY <1>1, <1>2, <2>3 DEF New
  <2> QED
    BY <2>1, <2>2, <2>3, Zenon
<1>4. CASE inv'.done = inv.done /\ inv'.raced = inv.raced
  <2>1. \A k \in Keys : inv'.done[k] <= db'
    BY <1>1, <1>2, <1>4
  <2> QED
    BY <1>2, <1>3, <1>4, <2>1, Zenon DEF Sticks
<1>5. CASE /\ Invalidated(inv.keys) /\ UNCHANGED <<db, pc, req, val, bg, warm>>
           /\ \A k \in inv.keys : l2'[k] = NoDoc
  <2>1. PICK K : K = inv.keys
    BY Zenon
  <2>2. /\ inv'.done = [k \in Keys |-> IF k \in K THEN inv.ver ELSE inv.done[k]]
        /\ \A k \in Keys : inv'.raced[k] = (inv.raced[k] \/ (k \in K /\ Carried(k, inv.ver)))
    <3>1. Invalidated(K) /\ StoreTypes
      BY <1>5, <2>1, Zenon DEF Types
    <3> QED
      BY <3>1, InvalidatedTypes, Zenon
  <2>3. \A k \in Keys : inv'.done[k] <= db'
    BY <1>1, <1>2, <1>5, <2>2, Zenon
  <2>4. ASSUME NEW k \in Keys, NEW d \in Docs, ~ inv'.raced[k], InStock(k, d)', d # NoDoc
        PROVE  d.ver >= inv'.done[k]
    <3>1. CASE k \notin K
      BY <1>3, <2>2, <2>4, <3>1, Zenon
    <3>2. CASE k \in K
      <4>1. ~ Carried(k, inv.ver) /\ inv'.done[k] = inv.ver /\ l2'[k] = NoDoc
        BY <1>5, <2>1, <2>2, <2>4, <3>2, ZenonT(30)
      <4>2. \/ \E r \in Reqs : pc[r] = "loaded" /\ Key(r) = k /\ val[r] = d
            \/ \E r \in Reqs : bg[r] # NoTask /\ bg[r].key = k /\ bg[r].doc = d
            \/ \E f \in Families : warm[f] # NoTask /\ warm[f].key = k /\ warm[f].doc = d
        <5>1. l2'[k] # d
          BY <2>4, <4>1, Zenon
        <5>2. UNCHANGED <<pc, req, val, bg, warm>>
          BY <1>5
        <5> QED
          BY <2>4, <5>1, <5>2, Zenon DEF InStock, Key
      <4>3. ~ (d.ver < inv.ver)
        BY <4>1, <4>2, Zenon DEF Carried
      <4>4. d.ver \in Nat
        BY DEF Docs
      <4> QED
        BY <1>2, <4>1, <4>3, <4>4
    <3> QED
      BY <3>1, <3>2
  <2> QED
    BY <1>2, <2>3, <2>4, Zenon DEF Sticks
<1> QED
  BY <1>1, <1>4, <1>5, InvSteps, Zenon

\* Invalidate and InvalidateFamily stick in Redis: for any number of requests,
\* goroutines and jobs, only a document that was on its way during a successful
\* call brings older data back.
THEOREM SpecInvalidationSticksInL2 == Spec => []InvalidationSticksInL2
<1>1. Init => Sticks
  <2> SUFFICES ASSUME Init PROVE Sticks
    OBVIOUS
  <2>1. inv.ver = 0 /\ db = 0 /\ \A k \in Keys : inv.done[k] = 0
    BY DEF Init
  <2> QED
    BY <2>1, NoStockAtFirst DEF Sticks
<1>2. Types /\ Sticks /\ [Next]_vars => Sticks'
  BY SticksHolds
<1>3. ASSUME Types, Sticks PROVE InvalidationSticksInL2
  <2>1. \A k \in Keys : l2[k] \in Docs /\ InStock(k, l2[k])
    BY <1>3, StockFacts, Zenon DEF Types, StoreTypes
  <2> QED
    BY <1>3, <2>1 DEF Sticks, InvalidationSticksInL2
<1> QED
  BY <1>1, <1>2, <1>3, SpecTypes, PTL DEF Spec

-----------------------------------------------------------------------------
(* The files                                                               *)

FileTypes ==
    /\ content \in Seq(Seq(Documents))
    /\ tmp \in 0..Len(content) /\ full \in 0..Len(content)
    /\ current \in Versions
    /\ step \in [Requests -> {"idle", "open", "write", "rename"}]
    /\ doc \in [Requests -> Documents] /\ fd \in [Requests -> Nat]

\* The file that writer q has open.
HasOpen(q) ==
    /\ fd[q] = tmp /\ tmp # 0
    /\ step[q] = "write" => content[tmp] \in {<< >>, <<doc[q]>>}
    /\ step[q] = "rename" => content[tmp] = Whole(doc[q])

Alone ==
    /\ FileTypes
    /\ \A q, r \in Writing : q = r
    /\ tmp # 0 => tmp # full
    /\ \A q \in Writing : HasOpen(q)
    /\ SnapshotWhole

AloneInv == shared \in BOOLEAN /\ (~ shared => Alone)

-----------------------------------------------------------------------------
(* Documents                                                               *)

\* A document is a sequence that is not empty.
LEMMA WholeType ==
    ASSUME NEW v \in Documents
    PROVE  Whole(v) \in Seq(Documents) /\ Len(Whole(v)) = Length[v] /\ Length[v] \in Nat \ {0}
<1>1. Length[v] \in Nat \ {0}
  BY SnapshotAssumption DEF Documents
<1> QED
  BY <1>1 DEF Whole

\* Writing the first part, and writing the whole, over what the writer may
\* have written before: nothing of the old text remains.
LEMMA WriteOver ==
    ASSUME NEW v \in Documents, NEW old \in {<< >>, <<v>>}
    PROVE  /\ <<v>> \o SubSeq(old, 2, Len(old)) = <<v>>
           /\ Over(old, v) = Whole(v)
<1>1. old \in Seq(Documents) /\ Len(old) \in Nat /\ Len(old) <= 1
  <2>1. CASE old = << >>
    BY <2>1
  <2>2. CASE old = <<v>>
    BY <2>2
  <2> QED
    BY <2>1, <2>2
<1>2. \A n \in Nat : n > Len(old) => SubSeq(old, n, Len(old)) = << >>
  BY <1>1
<1>3. SubSeq(old, 2, Len(old)) = << >> /\ SubSeq(old, Length[v] + 1, Len(old)) = << >>
  BY <1>1, <1>2, WholeType
<1>4. \A s \in Seq(Documents) : s \o << >> = s
  OBVIOUS
<1>5. <<v>> \in Seq(Documents)
  OBVIOUS
<1> QED
  BY <1>3, <1>4, <1>5, WholeType, Zenon DEF Over

-----------------------------------------------------------------------------
(* Steps                                                                   *)

\* Steps that leave the files and their names alone and make nobody a writer.
LEMMA FilesStay ==
    ASSUME Alone, FileTypes', content' = content, tmp' = tmp, full' = full,
           \A q \in Writing' : /\ q \in Writing /\ step'[q] = step[q]
                               /\ doc'[q] = doc[q] /\ fd'[q] = fd[q]
    PROVE  Alone'
<1>1. \A q, r \in Writing' : q = r
  BY Zenon DEF Alone
<1>2. \A q \in Writing' : HasOpen(q)'
  BY Zenon DEF Alone, HasOpen
<1>3. SnapshotWhole'
  BY Zenon DEF Alone, SnapshotWhole
<1> QED
  BY <1>1, <1>2, <1>3, Zenon DEF Alone

\* os.WriteFile opens the temporary file: truncated, or new.
LEMMA OpenAlone ==
    ASSUME Alone, NEW q \in Requests, Open(q), Writing \ {q} = {}
    PROVE  Alone'
<1>1. /\ FileTypes /\ step[q] = "open" /\ step' = [step EXCEPT ![q] = "write"]
      /\ full' = full /\ current' = current /\ doc' = doc
  BY Zenon DEF Alone, Open
<1>2. Writing = {} /\ Writing' = {q}
  BY <1>1, Zenon DEF Writing, FileTypes
<1>3. /\ content' \in Seq(Seq(Documents)) /\ Len(content') >= Len(content)
      /\ tmp' \in 1..Len(content') /\ content'[tmp'] = << >> /\ tmp' # full
      /\ fd' = [fd EXCEPT ![q] = tmp']
      /\ full # 0 => content'[full] = content[full]
  <2>1. << >> \in Seq(Documents) /\ Len(content) \in Nat
    BY <1>1 DEF FileTypes
  <2>2. CASE tmp # 0
    <3>1. content' = [content EXCEPT ![tmp] = << >>] /\ tmp' = tmp /\ fd' = [fd EXCEPT ![q] = tmp]
      BY <2>2, Zenon DEF Open
    <3>2. tmp \in 1..Len(content) /\ tmp # full
      BY <2>2, <1>1 DEF FileTypes, Alone
    <3> QED
      BY <3>1, <3>2, <2>1, <1>1 DEF FileTypes
  <2>3. CASE tmp = 0
    <3>1. /\ content' = Append(content, << >>) /\ tmp' = Len(content) + 1
          /\ fd' = [fd EXCEPT ![q] = Len(content) + 1]
      BY <2>3, Zenon DEF Open
    <3> QED
      BY <3>1, <2>1, <1>1 DEF FileTypes
  <2> QED
    BY <2>2, <2>3
<1>4. FileTypes'
  <2>1. /\ tmp' \in 0..Len(content') /\ tmp' \in Nat
        /\ full' \in 0..Len(content')
    BY <1>1, <1>3 DEF FileTypes
  <2>2. step' \in [Requests -> {"idle", "open", "write", "rename"}]
    BY <1>1, Zenon DEF FileTypes
  <2>3. fd' \in [Requests -> Nat] /\ doc' \in [Requests -> Documents] /\ current' \in Versions
    BY <1>1, <1>3, <2>1, Zenon DEF FileTypes
  <2> QED
    BY <1>3, <2>1, <2>2, <2>3, Zenon DEF FileTypes
<1>5. HasOpen(q)'
  BY <1>1, <1>3 DEF HasOpen, FileTypes
<1>6. SnapshotWhole'
  BY <1>1, <1>3, Zenon DEF Alone, SnapshotWhole
<1> QED
  BY <1>1, <1>2, <1>3, <1>4, <1>5, <1>6, Zenon DEF Alone

\* A write: the document is the writer's, and the file is not the snapshot.
LEMMA WriteAlone ==
    ASSUME Alone, NEW q \in Requests, NEW part \in BOOLEAN, Write(q, part)
    PROVE  Alone'
<1>1. /\ FileTypes /\ step[q] = "write" /\ q \in Writing
      /\ tmp' = tmp /\ full' = full /\ current' = current /\ doc' = doc /\ fd' = fd
  BY Zenon DEF Alone, Write, Writing
<1>b. HasOpen(q) /\ (tmp # 0 => tmp # full)
  BY <1>1, Zenon DEF Alone
<1>2. HasOpen(q) /\ tmp \in 1..Len(content) /\ tmp # full
  <2>1. PICK n : n = Len(content)
    BY Zenon
  <2>2. content \in Seq(Seq(Documents)) /\ tmp \in 0..n /\ tmp # 0
    BY <1>1, <1>b, <2>1, Zenon DEF HasOpen, FileTypes
  <2>3. n \in Nat
    BY <2>1, <2>2
  <2>4. tmp \in 1..n
    BY <2>2, <2>3
  <2> QED
    BY <1>b, <2>1, <2>2, <2>4, Zenon
<1>3. PICK v \in Documents : v = doc[q]
  BY <1>1 DEF FileTypes
<1>a. PICK old : old = content[tmp] /\ old \in {<< >>, <<v>>}
  BY <1>1, <1>2, <1>3, Zenon DEF HasOpen
<1>4. <<v>> \o SubSeq(old, 2, Len(old)) = <<v>> /\ Over(old, v) = Whole(v)
  BY <1>a, WriteOver, Zenon
<1>5. \/ step' = step /\ content' = [content EXCEPT ![tmp] = <<v>>]
      \/ step' = [step EXCEPT ![q] = "rename"] /\ content' = [content EXCEPT ![tmp] = Whole(v)]
  BY <1>1, <1>2, <1>3, <1>a, <1>4, Zenon DEF Write, HasOpen, FileTypes
<1>6. Writing' = Writing /\ \A r \in Writing : r = q
  BY <1>1, <1>5 DEF Alone, Writing, FileTypes
<1>7. <<v>> \in Seq(Documents) /\ Whole(v) \in Seq(Documents)
  BY WholeType, SMTT(30)
<1>8. FileTypes' /\ (full # 0 => content'[full] = content[full])
  <2>1. PICK d \in Seq(Documents) : content' = [content EXCEPT ![tmp] = d]
    BY <1>5, <1>7, Zenon
  <2>2. content \in Seq(Seq(Documents)) /\ tmp \in 1..Len(content) /\ full \in 0..Len(content)
    BY <1>1, <1>2 DEF FileTypes
  <2>3. content' \in Seq(Seq(Documents)) /\ Len(content') = Len(content)
    BY <2>1, <2>2
  <2>4. full # 0 => content'[full] = content[full]
    BY <2>1, <2>2, <1>2
  <2>5. step' \in [Requests -> {"idle", "open", "write", "rename"}]
    BY <1>1, <1>5, Zenon DEF FileTypes
  <2> QED
    BY <1>1, <2>3, <2>4, <2>5, Zenon DEF FileTypes
<1>9. HasOpen(q)'
  BY <1>1, <1>2, <1>3, <1>5 DEF HasOpen, FileTypes
<1>10. SnapshotWhole'
  BY <1>1, <1>8, Zenon DEF Alone, SnapshotWhole
<1> QED
  BY <1>1, <1>2, <1>6, <1>8, <1>9, <1>10, Zenon DEF Alone

\* os.Rename publishes what its writer has written.
LEMMA RenameAlone ==
    ASSUME Alone, NEW q \in Requests, Rename(q)
    PROVE  Alone'
<1>1. FileTypes /\ step[q] = "rename" /\ q \in Writing /\ content' = content /\ current' = current
  BY DEF Alone, Rename, Writing
<1>2. HasOpen(q) /\ \A r \in Writing : r = q
  BY <1>1 DEF Alone
<1>3. full' = tmp /\ tmp' = 0 /\ content[tmp] = Whole(doc[q])
  BY <1>1, <1>2, Zenon DEF Rename, HasOpen
<1>4. step' = [step EXCEPT ![q] = "idle"] /\ doc' = [doc EXCEPT ![q] = 0] /\ fd' = [fd EXCEPT ![q] = 0]
  BY Zenon DEF Rename, End
<1>5. FileTypes'
  BY <1>1, <1>3, <1>4 DEF FileTypes, Documents
<1>6. Writing' = {}
  BY <1>1, <1>2, <1>4, Zenon DEF Writing, FileTypes
<1>7. SnapshotWhole'
  BY <1>1, <1>3, Zenon DEF SnapshotWhole, FileTypes
<1> QED
  BY <1>3, <1>5, <1>6, <1>7 DEF Alone

\* writeSnapshot: the published snapshot is one whole document as long as no
\* two requests have been writing at once, over full disks, short writes,
\* leftover temporary files and restarts; for any number of requests and any
\* documents.
THEOREM WholeAlone == SnapshotSpec => []SnapshotWholeAlone
<1>1. SnapshotInit => AloneInv
  <2> SUFFICES ASSUME SnapshotInit PROVE AloneInv
    OBVIOUS
  <2>1. FileTypes /\ Writing = {} /\ SnapshotWhole
    BY DEF SnapshotInit, FileTypes, Writing, SnapshotWhole, Documents
  <2> QED
    BY <2>1, Zenon DEF SnapshotInit, AloneInv, Alone
<1>2. AloneInv /\ [SnapshotNext]_snapshotVars => AloneInv'
  <2> SUFFICES ASSUME AloneInv, [SnapshotNext]_snapshotVars PROVE AloneInv'
    OBVIOUS
  <2>1. shared' \in BOOLEAN /\ (shared => shared')
    BY Zenon DEF AloneInv, SnapshotNext, snapshotVars
  <2> SUFFICES ASSUME ~ shared, ~ shared', Alone PROVE Alone'
    BY <2>1 DEF AloneInv
  <2>2. FileTypes
    BY SMTT(30) DEF Alone
  <2>3. ASSUME NEW q \in Requests, NEW v \in Documents, Fetch(q, v) PROVE Alone'
    <3>1. step' = [step EXCEPT ![q] = "open"] /\ doc' = [doc EXCEPT ![q] = v] /\ step[q] = "idle"
          /\ content' = content /\ tmp' = tmp /\ full' = full /\ current' = current /\ fd' = fd
      BY <2>3 DEF Fetch
    <3>2. FileTypes'
      BY <2>2, <3>1 DEF FileTypes
    <3>3. \A r \in Writing' : r \in Writing /\ step'[r] = step[r] /\ doc'[r] = doc[r] /\ fd'[r] = fd[r]
      BY <2>2, <3>1 DEF FileTypes, Writing
    <3> QED
      BY <3>1, <3>2, <3>3, FilesStay, Zenon
  <2>4. ASSUME NEW q \in Requests, Open(q), shared' = (shared \/ Writing \ {q} # {}) PROVE Alone'
    BY <2>4, OpenAlone, Zenon
  <2>5. ASSUME NEW q \in Requests, WriteFails(q) PROVE Alone'
    <3>1. step' = [step EXCEPT ![q] = "idle"] /\ doc' = [doc EXCEPT ![q] = 0]
          /\ fd' = [fd EXCEPT ![q] = 0]
          /\ content' = content /\ tmp' = tmp /\ full' = full /\ current' = current
      BY <2>5 DEF WriteFails, End
    <3>2. FileTypes'
      BY <2>2, <3>1 DEF FileTypes, Documents
    <3>3. \A r \in Writing' : r \in Writing /\ step'[r] = step[r] /\ doc'[r] = doc[r] /\ fd'[r] = fd[r]
      BY <2>2, <3>1 DEF FileTypes, Writing
    <3> QED
      BY <3>1, <3>2, <3>3, FilesStay
  <2>6. ASSUME NEW q \in Requests, Rename(q) PROVE Alone'
    BY <2>6, RenameAlone, Zenon
  <2>7. ASSUME NEW q \in Requests, NEW part \in BOOLEAN, Write(q, part) PROVE Alone'
    BY <2>7, WriteAlone, Zenon
  <2>8. ASSUME NEW v \in Versions, Update(v) PROVE Alone'
    <3>1. current' = v /\ content' = content /\ tmp' = tmp /\ full' = full /\ step' = step
          /\ doc' = doc /\ fd' = fd
      BY <2>8, Zenon DEF Update
    <3>2. FileTypes' /\ Writing' = Writing
      BY <2>2, <3>1, Zenon DEF FileTypes, Writing
    <3> QED
      BY <3>1, <3>2, FilesStay, Zenon
  <2>9. CASE Restart
    <3>1. content' = content /\ tmp' = tmp /\ full' = full /\ current' = current
      BY <2>9, Zenon DEF Restart
    <3>2. FileTypes' /\ Writing' = {}
      BY <2>2, <2>9, <3>1, Zenon DEF FileTypes, Writing, Documents, Restart
    <3> QED
      BY <3>1, <3>2, FilesStay, Zenon
  <2>10. CASE snapshotVars' = snapshotVars
    <3>1. content' = content /\ tmp' = tmp /\ full' = full /\ current' = current /\ step' = step
          /\ doc' = doc /\ fd' = fd
      BY <2>10, Zenon DEF snapshotVars
    <3>2. FileTypes' /\ Writing' = Writing
      BY <2>2, <3>1 DEF FileTypes, Writing
    <3> QED
      BY <3>1, <3>2, FilesStay, Zenon
  <2> QED
    BY <2>3, <2>4, <2>5, <2>6, <2>7, <2>8, <2>9, <2>10 DEF SnapshotNext
<1>3. AloneInv => SnapshotWholeAlone
  BY DEF AloneInv, Alone, SnapshotWholeAlone
<1> QED
  BY <1>1, <1>2, <1>3, PTL DEF SnapshotSpec
=============================================================================
