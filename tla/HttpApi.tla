------------------------------ MODULE HttpApi -------------------------------
(***************************************************************************)
(* One request from the client's bytes to the bytes of the answer: the     *)
(* Transport middleware of pkg/codec or a JSONP handler, callRPC, Call and *)
(* the display handler it dispatches to, the cache, and the builder with   *)
(* one step for each of its queries.  The back office edits the tables     *)
(* between any two steps.                                                  *)
(*                                                                         *)
(* Requests come one after the other; what concurrent ones do to the cache *)
(* is in CacheManager.  JSON is one byte per field.  A document stands in  *)
(* an answer by its number, the order in which documents were built.  The  *)
(* files that the JSONP handlers also write are in Snapshot.               *)
(***************************************************************************)
EXTENDS Codec, Catalog, DisplayApi, Functions

CONSTANTS Parents,               \* the types of the catalogue, <<1, 2, 5>>
          RequestKey, ResponseKey,
          InitTables,            \* the tables to begin with
          Requests,              \* what a client may send
          MaxRequests, MaxEdits, \* bounds
          MaxFailures            \* bound on the failed queries of one document

VARIABLES tables, version,       \* the database, and how often it was edited
          docs,                  \* every document built (a history)
          cached,                \* the numbers of the documents in the cache
          phase, sent, body,     \* the request in progress and the bytes on the wire
          call,                  \* what the handler passes to the RPC
          job,                   \* the loader: queries left and groups built
          requests               \* how many were sent

\* What the tables may hold.
LiveTypeIds == Nat \ {0}
Tables ==
    [enabled : SUBSET Matches, parent : [Matches -> LiveTypeIds], linked : SUBSET Links,
     visible : SUBSET Rooms, onAir : SUBSET Rooms, views : [Rooms -> Nat],
     types : {T \in SUBSET LiveTypeIds : IsFiniteSet(T)}]

vars == <<tables, version, docs, cached, phase, sent, body, call, job, requests>>

-----------------------------------------------------------------------------
(* The JSON texts                                                          *)

\* The first byte of a request tells its form.
Bare == 1
Flat == 2
ClientInfo == 3

\* A status code as a byte.
CodeOK == 1
CodeBusinessError == 2
CodeRateLimited == 3
CodeUnavailable == 4
CodeInvalid == 5

RequestText(q) ==
    IF q.form = Bare THEN <<Bare, q.param>> ELSE <<q.form, q.param, q.session, q.seq>>

\* A client sends headers with the bare form only.
Header(q, field) == IF q.form = Bare THEN q[field] ELSE 0

\* sessionId and seq are read at the top level: in the form with clientInfo
\* they are absent, and the text is an envelope all the same.
tryParseEnvelope(s) ==
    CASE Len(s) = 4 /\ s[1] = Flat       -> Ok([param |-> s[2], session |-> s[3], seq |-> s[4]])
      [] Len(s) = 4 /\ s[1] = ClientInfo -> Ok([param |-> s[2], session |-> 0, seq |-> 0])
      [] OTHER -> Err

\* The field of a bare text, 0 (the zero value) when it is not there.
BareParam(s) == IF Len(s) = 2 /\ s[1] = Bare THEN s[2] ELSE 0

Marshal(env) == <<env.code, env.seq, env.session, env.doc>>
Envelope(code, seq, session, doc) ==
    [code |-> code, seq |-> seq, session |-> session, doc |-> doc]

\* Mutant: seq is left as the handler wrote it.
buildEnvelope_KeepsSeq(env, seq) == env

\* Every handler writes an envelope with a code, and none with a seq.
buildEnvelope(env, seq) == IF env.seq = 0 THEN [env EXCEPT !.seq = seq] ELSE env

-----------------------------------------------------------------------------
(* The routes                                                              *)

Encrypted == {"live_hot", "live_cateList", "live_detail", "match_recommend",
              "match_cateList", "match_detail"}
Jsonp == {"matches_jsonp", "live_all_rooms", "live_types", "live_hot", "match_recommend",
          "room_detail", "room_schedule", "match_byDate"}

\* The methods that need a parameter; the other handlers pass "{}".
TakesParam == {"live_cateList", "live_detail", "match_detail", "room_detail",
               "room_schedule", "match_byDate"}

KeyOf(method, param) ==
    <<Handler[method].key, IF method \in TakesParam THEN param ELSE 0>>

\* A block has 16 bytes, which do not divide the 6 of a frame's header.  A
\* document is named by one byte of an answer.
ASSUME HttpApiAssumption ==
    /\ Base > CodeInvalid /\ frameHeaderLen % BlockSize # 0
    /\ RequestKey \in Ciphers /\ ResponseKey \in Ciphers
    /\ MaxRequests \in Byte /\ MaxEdits \in Nat /\ MaxFailures \in Nat
    /\ Requests \subseteq
          [via : {"encrypted"}, method : Encrypted, param : Byte, framed : BOOLEAN,
           form : {Bare, Flat, ClientInfo}, session : Byte, seq : Byte]
          \cup
          [via : {"jsonp"}, method : Jsonp, param : Byte, framed : {FALSE},
           form : {Bare}, session : Byte, seq : Byte]
    /\ Parents \in Seq(LiveTypeIds) /\ RoomType \in [Rooms -> LiveTypeIds]
    /\ IsFiniteSet(Rooms) /\ IsFiniteSet(Links) /\ Links \subseteq Matches \X Rooms
    /\ {CatalogLimit, MergedCap, DetailLimit, TypeLimit, AllLimit} \subseteq Nat
    /\ InitTables \subseteq Tables

NoCall == [param |-> 0, session |-> 0, seq |-> 0]
NoJob == [plan |-> << >>, groups |-> << >>, from |-> 0, failed |-> 0, null |-> FALSE]

-----------------------------------------------------------------------------
(* The builders, as the queries they make                                  *)

\* The keys "0" and "hot", which are no ids of live types; TypesGroup is the
\* query for the types themselves and no group of a document.
AllGroup == 0
HotGroup == -1
TypesGroup == -2

\* The groups with one more, and the types in the order of the query.
Put(groups, g, items) == [x \in DOMAIN groups \cup {g} |-> IF x = g THEN items ELSE groups[x]]
Ordered(S) == CHOOSE s \in Bijection(1..Cardinality(S), S) : TRUE

Query(group, op, arg, limit) == [group |-> group, op |-> op, arg |-> arg, limit |-> limit]

BuildMatchCatalog ==
    [i \in 1..Len(Parents) |-> Query(Parents[i], "ListCatalog", {Parents[i]}, CatalogLimit)]
        \o <<Query(HotGroup, "ListRecommend", {}, RecommendLimit)>>
BuildRecommend == <<Query(AllGroup, "ListRecommend", {}, RecommendLimit)>>
BuildMatchByDate(day) == <<Query(AllGroup, "ListByDate", {day}, DateLimit)>>

\* Mutant: the detail searches no more rows than a group of the catalogue.
buildMatchDetailPayload_Short(m) ==
    <<Query(AllGroup, "ListCatalog", Range(Parents), CatalogLimit),
      Query(HotGroup, "ListRoomsBySchedule", {m}, TypeLimit)>>

buildMatchDetailPayload(m) ==
    <<Query(AllGroup, "ListCatalog", Range(Parents), DetailLimit),
      Query(HotGroup, "ListRoomsBySchedule", {m}, TypeLimit)>>
BuildAllLiveRooms ==
    <<Query(HotGroup, "ListHot", {}, TypeLimit),
      Query(TypesGroup, "ListTopLevel", {}, 0),
      Query(AllGroup, "ListAllVisible", {}, AllLimit)>>
BuildLiveTypesJSON == <<Query(AllGroup, "ListTopLevel", {}, 0)>>
BuildLiveCateList(type) == <<Query(AllGroup, "ListByType", {type}, TypeLimit)>>
BuildLiveHot == <<Query(AllGroup, "ListHot", {}, TypeLimit)>>
BuildRoomDetail(r) == <<Query(AllGroup, "FindByRoomNum", {r}, 1)>>
BuildRoomSchedule(r) == <<Query(AllGroup, "ListByRoom", {r}, TypeLimit)>>

Plan(method, p) ==
    CASE method = "matches_jsonp" -> BuildMatchCatalog
      [] method \in {"match_recommend", "match_cateList"} -> BuildRecommend
      [] method = "match_byDate" -> BuildMatchByDate(p)
      [] method = "match_detail" -> buildMatchDetailPayload(p)
      [] method = "live_all_rooms" -> BuildAllLiveRooms
      [] method = "live_types" -> BuildLiveTypesJSON
      [] method = "live_cateList" -> BuildLiveCateList(p)
      [] method = "live_hot" -> BuildLiveHot
      [] method \in {"live_detail", "room_detail"} -> BuildRoomDetail(p)
      [] method = "room_schedule" -> BuildRoomSchedule(p)

Arg(q) == CHOOSE x \in q.arg : TRUE

\* The answers that a query may get.
Answers(t, q) ==
    CASE q.op = "ListCatalog" -> {GroupCatalogRows(R) : R \in ListCatalog(t, q.arg, q.limit)}
      [] q.op = "ListRecommend" -> {GroupCatalogRows(R) : R \in ListRecommend(t, q.limit)}
      [] q.op = "ListByDate" -> {GroupCatalogRows(R) : R \in ListByDate(t, Arg(q), q.limit)}
      [] q.op = "ListByRoom" -> {MatchItems(R) : R \in ListByRoom(t, Arg(q), q.limit)}
      [] q.op = "ListRoomsBySchedule" -> ListRoomsBySchedule(t, Arg(q), q.limit)
      [] q.op = "ListHot" -> ListHot(t, q.limit)
      [] q.op = "ListByType" -> ListByType(t, Arg(q), q.limit)
      [] q.op = "ListAllVisible" -> ListAllVisible(t, q.limit)
      [] q.op = "ListTopLevel" -> {t.types}
      [] q.op = "FindByRoomNum" -> FindByRoomNum(Arg(q))

-----------------------------------------------------------------------------
Init ==
    /\ tables \in InitTables /\ version = 0
    /\ docs = << >> /\ cached = {}
    /\ phase = "idle" /\ sent = << >> /\ body = << >>
    /\ call = NoCall /\ job = NoJob /\ requests = 0

backend == <<tables, version>>
cache == <<docs, cached>>

(* The client and the edge                                                 *)

Send(q) ==
    /\ phase = "idle" /\ requests < MaxRequests
    /\ requests' = requests + 1 /\ phase' = "sent" /\ sent' = q
    /\ body' = CASE q.via = "jsonp" -> << >>
                 [] q.framed -> EncodeFrame(RequestText(q), RequestKey)
                 [] OTHER -> Encrypt(RequestText(q), RequestKey)
    /\ UNCHANGED <<backend, cache, call, job>>

\* Mutant: any body that is long enough is taken for a frame.
Open_AnyLongBody(b) ==
    IF Len(b) >= frameHeaderLen THEN DecodeFrame(b, RequestKey) ELSE Decrypt(b, RequestKey)

\* Framed or raw, told apart by the first two bytes alone.
Open(b) == IF HasMagic(b) THEN DecodeFrame(b, RequestKey) ELSE Decrypt(b, RequestKey)

\* The request's bytes become a call; a body that cannot be read ends here.
Transport ==
    /\ phase = "sent" /\ sent.via = "encrypted"
    /\ LET plain == Open(body)
           env == tryParseEnvelope(plain.data)
       IN  IF ~ plain.ok
           THEN /\ body' = EncodeFrame(Marshal(Envelope(CodeInvalid, 0, 0, 0)), ResponseKey)
                /\ phase' = "answered" /\ UNCHANGED call
           ELSE /\ call' = IF env.ok THEN env.data
                           ELSE [param |-> BareParam(plain.data),
                                 session |-> Header(sent, "session"),
                                 seq |-> Header(sent, "seq")]
                /\ phase' = "call" /\ UNCHANGED body
    /\ UNCHANGED <<backend, cache, sent, job, requests>>

\* A JSONP handler takes its parameter from the path.
JsonpHandler ==
    /\ phase = "sent" /\ sent.via = "jsonp"
    /\ call' = [param |-> sent.param, session |-> Header(sent, "session"), seq |-> 0]
    /\ phase' = "call"
    /\ UNCHANGED <<backend, cache, sent, body, job, requests>>

\* The answer on the wire: through Transport, or as serveJSONP writes it.
Wire(env) ==
    IF sent.via = "encrypted"
    THEN EncodeFrame(Marshal(buildEnvelope(env, call.seq)), ResponseKey)
    ELSE Marshal([env EXCEPT !.session = 0])

\* The handler writes code and document; Call echoes the session that
\* callRPC takes from the header, and the seq that it does not pass.
writeEnvelope(code, doc) ==
    /\ body' = Wire(Envelope(code, 0, Header(sent, "session"), doc))
    /\ phase' = "answered" /\ call' = NoCall /\ job' = NoJob

\* serveJSONPFlat looks at no code: an error is an empty list.
Reply(code, doc) ==
    IF sent.method = "match_byDate" THEN writeEnvelope(CodeOK, doc) ELSE writeEnvelope(code, doc)

\* A document, or the not-found error for a null one.
ReplyDoc(n, d) == IF d.null THEN Reply(CodeBusinessError, 0) ELSE Reply(CodeOK, n)

\* The RPC server cannot be reached: no result, no session.
CallFails ==
    /\ phase = "call"
    /\ body' = Wire(Envelope(CodeUnavailable, 0, 0, 0))
    /\ phase' = "answered" /\ call' = NoCall
    /\ UNCHANGED <<backend, cache, sent, job, requests>>

Key == KeyOf(sent.method, call.param)
Hit == {n \in cached : docs[n].key = Key}
ParamMissing == sent.method \in TakesParam /\ call.param = 0

\* Call and the handler up to the loader.  An entry may have expired by now,
\* and without one the cache manager may refuse (degraded, or its breaker is
\* open).
Call ==
    /\ phase = "call"
    /\ \/ ParamMissing /\ Reply(CodeBusinessError, 0) /\ UNCHANGED cached
       \/ ~ ParamMissing /\ (\E n \in Hit : ReplyDoc(n, docs[n])) /\ UNCHANGED cached
       \/ /\ ~ ParamMissing /\ cached' = cached \ Hit
          /\ \/ \E code \in {CodeRateLimited, CodeBusinessError} : Reply(code, 0)
             \/ /\ job' = [NoJob EXCEPT !.plan = Plan(sent.method, call.param), !.from = version]
                /\ phase' = "load" /\ UNCHANGED <<body, call>>
    /\ UNCHANGED <<backend, docs, sent, requests>>

(* The loader                                                              *)

\* A match that is not in the catalogue, a room without a row.
NotFound(q, answer) ==
    \/ q.op = "FindByRoomNum" /\ answer = {}
    \/ /\ sent.method = "match_detail" /\ q.op = "ListCatalog"
       /\ call.param \notin {i.match : i \in answer}

\* The job after the answer to its first query: BuildAllLiveRooms goes on
\* with a query for each type, and nothing is asked after a not-found.
After(q, answer) ==
    IF q.group = TypesGroup
    THEN LET types == Ordered(answer)
             Of(type) == Query(type, "ListByType", {type}, TypeLimit)
         IN  [job EXCEPT !.plan = [i \in 1..Len(types) |-> Of(types[i])] \o Tail(@)]
    ELSE [job EXCEPT !.plan = IF NotFound(q, answer) THEN << >> ELSE Tail(@),
                     !.groups = Put(@, q.group, answer),
                     !.null = NotFound(q, answer)]

LoaderQuery ==
    /\ phase = "load" /\ job.plan # << >>
    /\ \E answer \in Answers(tables, Head(job.plan)) : job' = After(Head(job.plan), answer)
    /\ UNCHANGED <<backend, cache, phase, sent, body, call, requests>>

\* The database fails a query.  The first one of the match detail and the one
\* of the live types return the error; elsewhere the group stays empty, and
\* the document is built, and cached, without it.
LoaderQueryFails ==
    /\ phase = "load" /\ job.plan # << >> /\ job.failed < MaxFailures
    /\ IF Handler[sent.method].onDbError = "error" /\ job.groups = << >>
       THEN Reply(CodeBusinessError, 0)
       ELSE /\ job' = [After(Head(job.plan), {}) EXCEPT !.failed = @ + 1]
            /\ UNCHANGED <<phase, body, call>>
    /\ UNCHANGED <<backend, cache, sent, requests>>

\* The groups of the document; BuildMatchCatalog adds the group of all.
Finished ==
    IF sent.method = "matches_jsonp"
    THEN {Put(job.groups, AllGroup, all) :
             all \in Merged(UNION {job.groups[p] : p \in Range(Parents)})}
    ELSE {job.groups}

\* The document is complete: it is cached, null or not, and answered.
LoaderDone ==
    /\ phase = "load" /\ job.plan = << >>
    /\ \E groups \in Finished :
          LET d == [key |-> Key, groups |-> groups, from |-> job.from,
                    failed |-> job.failed, null |-> job.null]
          IN  docs' = Append(docs, d) /\ ReplyDoc(Len(docs) + 1, d)
    /\ cached' = cached \cup {Len(docs) + 1}
    /\ UNCHANGED <<backend, sent, requests>>

\* The client has read the answer.
Read ==
    /\ phase = "answered"
    /\ phase' = "idle" /\ sent' = << >> /\ body' = << >>
    /\ UNCHANGED <<backend, cache, call, job, requests>>

(* The back office                                                         *)

Flip(S, x) == IF x \in S THEN S \ {x} ELSE S \cup {x}

Edit ==
    /\ version < MaxEdits /\ version' = version + 1
    /\ \/ \E m \in Matches : tables' = [tables EXCEPT !.enabled = Flip(@, m)]
       \/ \E m \in Matches, type \in tables.types : tables' = [tables EXCEPT !.parent[m] = type]
       \/ \E l \in Links : tables' = [tables EXCEPT !.linked = Flip(@, l)]
       \/ \E r \in Rooms : \/ tables' = [tables EXCEPT !.visible = Flip(@, r)]
                           \/ tables' = [tables EXCEPT !.onAir = Flip(@, r)]
                           \/ tables' = [tables EXCEPT !.views[r] = @ + 1]
       \/ \E type \in tables.types : tables' = [tables EXCEPT !.types = @ \ {type}]
    /\ UNCHANGED <<cache, phase, sent, body, call, job, requests>>

Next ==
    \/ \E q \in Requests : Send(q)
    \/ Transport \/ JsonpHandler \/ CallFails \/ Call
    \/ LoaderQuery \/ LoaderQueryFails \/ LoaderDone
    \/ Read
    \/ Edit

Spec == Init /\ [][Next]_vars

-----------------------------------------------------------------------------
(* Properties                                                              *)

\* Bytes that the client made with the codec are refused as unreadable (101,
\* "invalid encrypted request") only where a raw ciphertext happens to begin
\* with the two bytes of a frame: Transport decides by them and tries nothing
\* else.
RefusedOnlyIfAmbiguous ==
    phase = "answered" /\ sent.via = "encrypted"
        /\ DecodeFrame(body, ResponseKey) = Ok(Marshal(Envelope(CodeInvalid, 0, 0, 0)))
    => ~ sent.framed /\ HasMagic(Encrypt(RequestText(sent), RequestKey))

\* What the client reads: of an encrypted answer with the other key.
ReadText == IF sent.via = "encrypted" THEN DecodeFrame(body, ResponseKey) ELSE Ok(body)

\* An answer can be read, carries the seq of its request unless that was
\* refused or had it inside clientInfo, and the document in it is the one
\* asked for: cached and built under the key of this method and parameter.
AnswerFitsRequest ==
    phase = "answered" =>
        LET text == ReadText.data
        IN  /\ ReadText.ok
            /\ \/ text[2] = sent.seq
               \/ sent.via = "jsonp" \/ sent.form = ClientInfo \/ text[1] = CodeInvalid
            /\ text[4] # 0 => /\ text[1] = CodeOK
                              /\ docs[text[4]].key = KeyOf(sent.method, sent.param)
                              /\ ~ docs[text[4]].null

\* The complete documents that no edit has overtaken.
Fresh(d) == d.from = version /\ d.failed = 0
FreshDocs(key) == {d \in Range(docs) : d.key[1] = key /\ Fresh(d)}

\* The matches in a group of items.
Listed(items) == {i.match : i \in items}

\* In "0" of matches.json no match is passed over for a later one, except by
\* the LIMIT of its own type, which counts rows and not matches: the type has
\* CatalogLimit rows of other matches that are not later.  The cut of "0"
\* itself never does that.
EarlierIsListed ==
    \A d \in FreshDocs("match:catalog") :
        \A row \in Joined(tables, OfTypes(tables, Range(Parents))) :
            LET m == row.match
                peers == Joined(tables, OfTypes(tables, {tables.parent[m]}))
                ahead == {x \in peers : x.match # m /\ ~ SoonerMatch(m, x.match)}
            IN  \/ m \in Listed(d.groups[AllGroup])
                \/ \A n \in Listed(d.groups[AllGroup]) : ~ SoonerMatch(m, n)
                \/ Cardinality(ahead) >= CatalogLimit

\* A match that a list shows can be opened: match_detail calls it not found
\* only if its type is none of the catalogue's or if DetailLimit rows of
\* other matches are not later than it.
ListedCanBeOpened ==
    \A d \in UNION {FreshDocs(k) : k \in {"match:catalog", "match:recommend", "match:date"}} :
        \A g \in DOMAIN d.groups : \A m \in Listed(d.groups[g]) :
            LET rows == Joined(tables, OfTypes(tables, Range(Parents)))
                ahead == {x \in rows : x.match # m /\ ~ SoonerMatch(m, x.match)}
            IN  (\E e \in FreshDocs("match:detail") : e.key[2] = m /\ e.null)
                => tables.parent[m] \notin Range(Parents) \/ Cardinality(ahead) >= DetailLimit

\* May the room stand in the group, and how many may.
Belongs(r, group) ==
    group = AllGroup \/ RoomType[r] = group \/ (group = HotGroup /\ r \in tables.onAir)
GroupLimit(group) == IF group = AllGroup THEN AllLimit ELSE TypeLimit

\* The groups of all_live_rooms.json agree: a room of one group that belongs
\* in another is missing there only if that group is full of rooms that do
\* not come after it.
RoomGroupsAgree ==
    \A d \in FreshDocs("live:all") : \A g, h \in DOMAIN d.groups : \A r \in d.groups[g] :
        Belongs(r, h) /\ r \notin d.groups[h] =>
            /\ Cardinality(d.groups[h]) = GroupLimit(h)
            /\ \A s \in d.groups[h] : tables.views[s] >= tables.views[r]
=============================================================================
