---------------------------- MODULE CacheManager ----------------------------
(***************************************************************************)
(* common/cache/manager.go and fallback.go: the read path behind every     *)
(* Level 1 handler (degrade gate, L1 freecache, L2 Redis, circuit breaker, *)
(* singleflight, loader, asynchronous write-back, fallback chain) and the  *)
(* two invalidations; with the scheduler's warmers, which write to L2      *)
(* through common/cache/cache.go.                                          *)
(*                                                                         *)
(* A request is a sequence of steps: every access to L1, to Redis, to the  *)
(* database and to the singleflight group is one step, and every goroutine *)
(* started with `go` runs on its own.  Redis commands may fail; entries    *)
(* may expire at any time.                                                 *)
(*                                                                         *)
(* The database row behind a key is its version number, the same for all   *)
(* keys.  A document is the version it was built from and its kind:        *)
(*   list, lists, object  the payload of a handler of that type, which may *)
(*                        be empty                                         *)
(*   null                 what some loaders answer to a database error     *)
(*   base64               a marshalled []byte                              *)
(*   redirect             the {"cdn_redirect": ...} document of CDNSource  *)
(***************************************************************************)
EXTENDS DegradeModes, DisplayApi, FiniteSets

CONSTANTS Reqs,         \* the requests of a behaviour, a goroutine each
          Methods,      \* the RPC methods that are called
          ReqLevels,    \* the levels that GetOrLoad is called with
          ReqModes,     \* the degrade modes
          MaxVer        \* bound: the number of database updates

ASSUME CacheAssumption ==
    /\ Methods \subseteq DOMAIN Handler
    /\ ReqLevels \subseteq Levels
    /\ ReqModes \subseteq Modes
    /\ MaxVer \in Nat

Keys == {Handler[m].key : m \in Methods}
Families == {Handler[m].family : m \in Methods}
FamilyOf(k) == (CHOOSE h \in {Handler[m] : m \in Methods} : h.key = k).family

\* A document is its JSON kind (list, lists, object, null, base64, redirect)
\* and the version of the data it was read from.
NoDoc == [kind |-> "none", ver |-> 0]

VARIABLES mode,      \* the degrade mode
          db,        \* the version of the rows in the database
          l1, l2,    \* the entry of each key in freecache and in Redis
          flight,    \* the leader of the singleflight call of each key
          tripped,   \* the breaker of the family has seen failures
          pc,        \* where each request is
          req,       \* its RPC method and its level
          val,       \* what its loader returned
          res,       \* its answer
          bg,        \* the goroutine it started: what is still to be written
          warm,      \* what the family's refresh job is about to store
          inv        \* the invalidation in progress and its outcome

reqVars == <<pc, req, val, res>>
vars == <<mode, db, l1, l2, flight, tripped, pc, req, val, res, bg, warm, inv>>

Nobody == "nobody"

ASSUME NobodyAssumption == Nobody \notin Reqs

NoReq == [method |-> "none", level |-> LevelDisplay]
NoRes == [code |-> "none", doc |-> NoDoc]
NoTask == [op |-> "none", key |-> "none", doc |-> NoDoc]

Key(r) == Handler[req[r].method].key
Family(r) == Handler[req[r].method].family
Type(r) == Handler[req[r].method].type

\* json.Unmarshal of a document into the handler's T.
Decodes(type, doc) ==
    \/ doc.kind \in {type, "null"}
    \/ type = "object" /\ doc.kind \in {"lists", "redirect"}

Decoded(type, doc) ==
    IF Decodes(type, doc) THEN [code |-> "ok", doc |-> doc]
                          ELSE [code |-> "undecodable", doc |-> NoDoc]

Failure(code) == [code |-> code, doc |-> NoDoc]

Init ==
    /\ mode \in ReqModes
    /\ db = 0
    /\ l1 = [k \in Keys |-> NoDoc]
    /\ l2 = [k \in Keys |-> NoDoc]
    /\ flight = [k \in Keys |-> Nobody]
    /\ tripped = [f \in Families |-> FALSE]
    /\ pc = [r \in Reqs |-> "idle"]
    /\ req = [r \in Reqs |-> NoReq]
    /\ val = [r \in Reqs |-> NoDoc]
    /\ res = [r \in Reqs |-> NoRes]
    /\ bg = [r \in Reqs |-> NoTask]
    /\ warm = [f \in Families |-> NoTask]
    /\ inv = [pc |-> "idle", keys |-> {}, ver |-> 0,
              done |-> [k \in Keys |-> 0], raced |-> [k \in Keys |-> FALSE]]

Answer(r, a) ==
    /\ pc' = [pc EXCEPT ![r] = "done"]
    /\ res' = [res EXCEPT ![r] = a]

Goto(r, label) ==
    /\ pc' = [pc EXCEPT ![r] = label]
    /\ UNCHANGED res

-----------------------------------------------------------------------------
(* GetOrLoad                                                               *)

\* The degrade gate; a Level 3 request reads no cache.
Begin(r, m, level) ==
    /\ pc[r] = "idle"
    /\ req' = [req EXCEPT ![r] = [method |-> m, level |-> level]]
    /\ \/ /\ ~ CanServe(mode, level)
          /\ Answer(r, Failure("degradeClosed"))
       \/ /\ CanServe(mode, level)
          /\ Goto(r, IF level = LevelWrite THEN "breaker" ELSE "l1")
    /\ UNCHANGED <<mode, db, l1, l2, flight, tripped, val, bg, warm, inv>>

GetL1(r) ==
    /\ pc[r] = "l1"
    /\ IF l1[Key(r)] # NoDoc THEN Answer(r, Decoded(Type(r), l1[Key(r)])) ELSE Goto(r, "l2")
    /\ UNCHANGED <<mode, db, l1, l2, flight, tripped, req, val, bg, warm, inv>>

\* A hit also starts the goroutine that copies the value to L1.  ok is FALSE
\* when the Redis command fails, which counts as a miss.
GetL2(r, ok) ==
    /\ pc[r] = "l2"
    /\ IF ok /\ l2[Key(r)] # NoDoc
       THEN /\ Answer(r, Decoded(Type(r), l2[Key(r)]))
            /\ bg' = [bg EXCEPT ![r] = [op |-> "l1Set", key |-> Key(r), doc |-> l2[Key(r)]]]
       ELSE Goto(r, "breaker") /\ UNCHANGED bg
    /\ UNCHANGED <<mode, db, l1, l2, flight, tripped, req, val, warm, inv>>

-----------------------------------------------------------------------------
(* loadThroughBreaker                                                      *)

\* go-zero's breaker: it may reject a call only after failures.
BreakerRejects(f) == tripped[f]

BreakerForgets(f) ==
    /\ tripped[f]
    /\ tripped' = [tripped EXCEPT ![f] = FALSE]
    /\ UNCHANGED <<mode, db, l1, l2, flight, reqVars, bg, warm, inv>>

\* The chain L1 stale -> OSS -> CDN as NewServiceContext builds it.  The L1
\* source holds the freecache of the first Manager, which nobody writes to;
\* OSS has an empty base URL; the CDN source always answers.
FallbackData(k) == [kind |-> "redirect", ver |-> db]

\* tryFallback: the data is written to L1 and L2 in the background and the
\* request is answered with the error.
Rejected(r) ==
    /\ pc[r] = "breaker"
    /\ BreakerRejects(Family(r))
    /\ Answer(r, Failure("circuitOpen"))
    /\ bg' = IF req[r].level = LevelWrite THEN bg
             ELSE [bg EXCEPT ![r] = [op |-> "writeBack", key |-> Key(r),
                                     doc |-> FallbackData(Key(r))]]
    /\ UNCHANGED <<mode, db, l1, l2, flight, tripped, req, val, warm, inv>>

\* Mutant: a canceled request counts as a failure of the dependency.
Canceled_CountsAsFailure(r) ==
    /\ pc[r] = "breaker"
    /\ Answer(r, Failure("canceled"))
    /\ tripped' = [tripped EXCEPT ![Family(r)] = TRUE]
    /\ UNCHANGED <<mode, db, l1, l2, flight, req, val, bg, warm, inv>>

\* The request's context ended: the breaker returns its error.
Canceled(r) ==
    /\ pc[r] = "breaker"
    /\ Answer(r, Failure("canceled"))
    /\ UNCHANGED <<mode, db, l1, l2, flight, tripped, req, val, bg, warm, inv>>

\* Mutant: every miss runs its own loader.
JoinFlight_NoSingleflight(r) ==
    /\ pc[r] = "breaker"
    /\ flight' = [flight EXCEPT ![Key(r)] = r]
    /\ Goto(r, "load")
    /\ UNCHANGED <<mode, db, l1, l2, tripped, req, val, bg, warm, inv>>

\* singleflight.Do: the first caller leads, the others wait for its result.
JoinFlight(r) ==
    /\ pc[r] = "breaker"
    /\ IF flight[Key(r)] = Nobody
       THEN flight' = [flight EXCEPT ![Key(r)] = r] /\ Goto(r, "load")
       ELSE Goto(r, "wait") /\ UNCHANGED flight
    /\ UNCHANGED <<mode, db, l1, l2, tripped, req, val, bg, warm, inv>>

\* The loader reads the database; some turn an error into a null document,
\* others into an empty one.
Load(r) ==
    /\ pc[r] = "load"
    /\ \E kind \in {Type(r)} \cup ({"null"} \cap {Handler[req[r].method].onDbError}) :
          val' = [val EXCEPT ![r] = [kind |-> kind, ver |-> db]]
    /\ Goto(r, "loaded")
    /\ UNCHANGED <<mode, db, l1, l2, flight, tripped, req, bg, warm, inv>>

Flown(r) == {q \in Reqs : q = r \/ (pc[q] = "wait" /\ Key(q) = Key(r))}

\* Mutant: the call is forgotten before the waiting callers are answered.
LoadDone_LosesWaiters(r) ==
    /\ pc[r] = "loaded"
    /\ flight' = [flight EXCEPT ![Key(r)] = Nobody]
    /\ Answer(r, Decoded(Type(r), val[r]))
    /\ bg' = [bg EXCEPT ![r] = [op |-> "writeBack", key |-> Key(r), doc |-> val[r]]]
    /\ val' = [val EXCEPT ![r] = NoDoc]
    /\ UNCHANGED <<mode, db, l1, l2, tripped, req, warm, inv>>

\* The leader starts the write-back and hands its value to every caller
\* that waits.
LoadDone(r) ==
    /\ pc[r] = "loaded"
    /\ flight' = [flight EXCEPT ![Key(r)] = Nobody]
    /\ pc' = [q \in Reqs |-> IF q \in Flown(r) THEN "done" ELSE pc[q]]
    /\ res' = [q \in Reqs |-> IF q \in Flown(r) THEN Decoded(Type(q), val[r]) ELSE res[q]]
    /\ bg' = [bg EXCEPT ![r] = [op |-> "writeBack", key |-> Key(r), doc |-> val[r]]]
    /\ val' = [val EXCEPT ![r] = NoDoc]
    /\ UNCHANGED <<mode, db, l1, l2, tripped, req, warm, inv>>

\* The loader returned a database error: everybody gets it, and the breaker
\* counts a failure.
LoadFails(r) ==
    /\ pc[r] = "load"
    /\ Handler[req[r].method].onDbError = "error"
    /\ flight' = [flight EXCEPT ![Key(r)] = Nobody]
    /\ pc' = [q \in Reqs |-> IF q \in Flown(r) THEN "done" ELSE pc[q]]
    /\ res' = [q \in Reqs |-> IF q \in Flown(r) THEN Failure("loaderError") ELSE res[q]]
    /\ tripped' = [tripped EXCEPT ![Family(r)] = TRUE]
    /\ UNCHANGED <<mode, db, l1, l2, req, val, bg, warm, inv>>

-----------------------------------------------------------------------------
(* Goroutines: l1Set, writeBack and the one of tryFallback                 *)

\* l1Set ends here; the other two go on to Redis.
WriteL1(r) ==
    /\ bg[r].op \in {"l1Set", "writeBack"}
    /\ l1' = [l1 EXCEPT ![bg[r].key] = bg[r].doc]
    /\ bg' = [bg EXCEPT ![r] = IF @.op = "l1Set" THEN NoTask ELSE [@ EXCEPT !.op = "setex"]]
    /\ UNCHANGED <<mode, db, l2, flight, tripped, reqVars, warm, inv>>

WriteL2(r, ok) ==
    /\ bg[r].op = "setex"
    /\ l2' = IF ok THEN [l2 EXCEPT ![bg[r].key] = bg[r].doc] ELSE l2
    /\ bg' = [bg EXCEPT ![r] = NoTask]
    /\ UNCHANGED <<mode, db, l1, flight, tripped, reqVars, warm, inv>>

ExpireL1(k) ==
    /\ l1[k] # NoDoc
    /\ l1' = [l1 EXCEPT ![k] = NoDoc]
    /\ UNCHANGED <<mode, db, l2, flight, tripped, reqVars, bg, warm, inv>>

ExpireL2(k) ==
    /\ l2[k] # NoDoc
    /\ l2' = [l2 EXCEPT ![k] = NoDoc]
    /\ UNCHANGED <<mode, db, l1, flight, tripped, reqVars, bg, warm, inv>>

-----------------------------------------------------------------------------
(* The scheduler's jobs: one goroutine per family, one key at a time.      *)

\* cache.Refresh runs the warmer's loader.  (The one of live:types may return
\* an error, which ends the refresh.)
RefreshLoad(f, k) ==
    /\ warm[f] = NoTask
    /\ FamilyOf(k) = f
    /\ WarmerKind(k) # "none"
    /\ warm' = [warm EXCEPT ![f] = [op |-> "setex", key |-> k,
                                    doc |-> [kind |-> WarmerKind(k), ver |-> db]]]
    /\ UNCHANGED <<mode, db, l1, l2, flight, tripped, reqVars, bg, inv>>

RefreshStore(f, ok) ==
    /\ warm[f] # NoTask
    /\ l2' = IF ok THEN [l2 EXCEPT ![warm[f].key] = warm[f].doc] ELSE l2
    /\ warm' = [warm EXCEPT ![f] = NoTask]
    /\ UNCHANGED <<mode, db, l1, flight, tripped, reqVars, bg, inv>>

-----------------------------------------------------------------------------
(* Invalidate and InvalidateFamily: L1 first, then Redis.                  *)

\* Another program updates the rows.
DbUpdate ==
    /\ db < MaxVer
    /\ db' = db + 1
    /\ UNCHANGED <<mode, l1, l2, flight, tripped, reqVars, bg, warm, inv>>

SetMode(m) ==
    /\ mode' = m
    /\ UNCHANGED <<db, l1, l2, flight, tripped, reqVars, bg, warm, inv>>

Invalidate(k) ==
    /\ inv.pc = "idle"
    /\ l1' = [l1 EXCEPT ![k] = NoDoc]
    /\ inv' = [inv EXCEPT !.pc = "del", !.keys = {k}, !.ver = db]
    /\ UNCHANGED <<mode, db, l2, flight, tripped, reqVars, bg, warm>>

\* freecache has no prefix delete: L1 is cleared as a whole.
InvalidateFamily(f) ==
    /\ inv.pc = "idle"
    /\ l1' = [k \in Keys |-> NoDoc]
    /\ inv' = [inv EXCEPT !.pc = "keys", !.keys = {k \in Keys : FamilyOf(k) = f}, !.ver = db]
    /\ UNCHANGED <<mode, db, l2, flight, tripped, reqVars, bg, warm>>

\* Documents older than version v that a request, a goroutine or a job holds
\* and will write under key k.
Carried(k, v) ==
    \/ \E r \in Reqs : pc[r] = "loaded" /\ Key(r) = k /\ val[r].ver < v
    \/ \E r \in Reqs : bg[r] # NoTask /\ bg[r].key = k /\ bg[r].doc.ver < v
    \/ \E f \in Families : warm[f] # NoTask /\ warm[f].key = k /\ warm[f].doc.ver < v

\* The invalidation of the keys in K has succeeded.  raced records that an
\* older document was on its way to the cache at that moment.
Invalidated(K) ==
    inv' = [inv EXCEPT !.pc = "idle", !.keys = {}, !.ver = 0,
                       !.done = [k \in Keys |-> IF k \in K THEN inv.ver ELSE @[k]],
                       !.raced = [k \in Keys |-> @[k] \/ (k \in K /\ Carried(k, inv.ver))]]

InvalidationFailed == inv' = [inv EXCEPT !.pc = "idle", !.keys = {}, !.ver = 0]

\* KEYS: a failed command or an empty answer ends the call.  The keys that
\* it does not list are not deleted.
ListKeys(ok) ==
    /\ inv.pc = "keys"
    /\ LET found == {k \in inv.keys : l2[k] # NoDoc}
       IN  CASE ~ ok -> InvalidationFailed
             [] ok /\ found = {} -> Invalidated(inv.keys)
             [] OTHER -> inv' = [inv EXCEPT !.pc = "del", !.keys = found]
    /\ UNCHANGED <<mode, db, l1, l2, flight, tripped, reqVars, bg, warm>>

\* Mutant: the call reports success although the command failed.
DelKeys_IgnoresError(ok) ==
    /\ inv.pc = "del"
    /\ l2' = IF ok THEN [k \in Keys |-> IF k \in inv.keys THEN NoDoc ELSE l2[k]] ELSE l2
    /\ Invalidated(inv.keys)
    /\ UNCHANGED <<mode, db, l1, flight, tripped, reqVars, bg, warm>>

DelKeys(ok) ==
    /\ inv.pc = "del"
    /\ IF ok
       THEN /\ l2' = [k \in Keys |-> IF k \in inv.keys THEN NoDoc ELSE l2[k]]
            /\ Invalidated(inv.keys)
       ELSE InvalidationFailed /\ UNCHANGED l2
    /\ UNCHANGED <<mode, db, l1, flight, tripped, reqVars, bg, warm>>

-----------------------------------------------------------------------------

Read(r) == GetL1(r) \/ \E ok \in BOOLEAN : GetL2(r, ok)

Through(r) == Rejected(r) \/ Canceled(r) \/ JoinFlight(r)

Loader(r) == Load(r) \/ LoadDone(r) \/ LoadFails(r)

Background(r) == WriteL1(r) \/ \E ok \in BOOLEAN : WriteL2(r, ok)

Refresh(f) == (\E k \in Keys : RefreshLoad(f, k)) \/ \E ok \in BOOLEAN : RefreshStore(f, ok)

Invalidation ==
    \/ \E k \in Keys : Invalidate(k)
    \/ \E f \in Families : InvalidateFamily(f)
    \/ \E ok \in BOOLEAN : ListKeys(ok) \/ DelKeys(ok)

Environment ==
    \/ DbUpdate
    \/ \E m \in ReqModes : SetMode(m)
    \/ \E k \in Keys : ExpireL1(k) \/ ExpireL2(k)
    \/ \E f \in Families : BreakerForgets(f)

Next ==
    \/ \E r \in Reqs : \E m \in Methods, level \in ReqLevels : Begin(r, m, level)
    \/ \E r \in Reqs : Read(r) \/ Through(r) \/ Loader(r) \/ Background(r)
    \/ \E f \in Families : Refresh(f)
    \/ Invalidation
    \/ Environment

Spec == Init /\ [][Next]_vars

\* A goroutine that can run is run, and a database call returns.  (A request
\* in "wait" is not scheduled: it needs its leader.)
Fairness ==
    \A r \in Reqs : WF_vars(Read(r) \/ Through(r) \/ Loader(r)) /\ WF_vars(Background(r))

FairSpec == Spec /\ Fairness

-----------------------------------------------------------------------------

Leading(k) == {r \in Reqs : pc[r] \in {"load", "loaded"} /\ Key(r) = k}

\* manager.go:233, one loader for all concurrent misses of a key: the request
\* that runs the loader is the one registered in the group, and a request
\* that waits has a leader that will answer it.
SingleFlight ==
    \A k \in Keys :
        /\ Leading(k) = IF flight[k] = Nobody THEN {} ELSE {flight[k]}
        /\ flight[k] = Nobody => \A r \in Reqs : pc[r] = "wait" => Key(r) # k

\* Every request is answered, whatever happens to Redis, to the breaker and
\* to the leader it waits for.
EveryRequestAnswered ==
    \A r \in Reqs : pc[r] \notin {"idle", "done"} ~> pc[r] = "done"

Swallows(f) == \A m \in Methods : Handler[m].family = f => Handler[m].onDbError # "error"

\* What one handler caches every handler that shares the key can decode: only
\* a warmer's base64 string, or the CDN document of a family whose breaker can
\* trip, is of another type.
SharedKeysAgree ==
    \A r \in Reqs :
        res[r].code = "undecodable" => WarmerKind(Key(r)) = "base64" \/ ~ Swallows(Family(r))

\* The CDN document reaches the cache only through the breaker, and only
\* loaders that return their database errors trip it: in a family whose
\* loaders all swallow them no client ever gets it.
NoRedirectWithoutErrors ==
    \A k \in Keys :
        Swallows(FamilyOf(k)) => l1[k].kind # "redirect" /\ l2[k].kind # "redirect"

\* Invalidate and InvalidateFamily: after a successful call Redis holds no
\* document older than the call, unless a load, a write-back or a refresh
\* that was under way during the call brings one back.
InvalidationSticksInL2 ==
    \A k \in Keys : ~ inv.raced[k] /\ l2[k] # NoDoc => l2[k].ver >= inv.done[k]
=============================================================================
