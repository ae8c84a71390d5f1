---------------------------- MODULE MultiLimiter ----------------------------
(***************************************************************************)
(* common/ratelimit/multi.go: the limiter of several dimensions, around    *)
(* requests that all have the same rules (and so the same Redis keys).     *)
(* A request checks every rule, then takes every rule, is served, and      *)
(* gives its concurrency slots back; an error lets it pass.  One Redis     *)
(* command per step, except that cleaning a window belongs to the command  *)
(* that follows it.                                                        *)
(***************************************************************************)
EXTENDS Integers, Sequences, FiniteSets, FiniteSetsExt

CONSTANTS Procs,
          Rules,       \* the rules: [concurrent, limit]; limit 0 is no limit
          Events,      \* what may go wrong in a run
          MaxCount     \* bound on counters and windows

ASSUME MultiLimiterAssumption ==
    /\ IsFiniteSet(Procs)
    /\ Rules \in Seq([concurrent : BOOLEAN, limit : Nat])
    /\ Events \subseteq {"acquireFails", "expireFails", "releaseFails", "keyExpires"}
    /\ MaxCount \in Nat

Index == 1..Len(Rules)
Active == {i \in Index : Rules[i].limit > 0}
Slots == {i \in Active : Rules[i].concurrent}

ASSUME SomeSlot == Slots # {}

VARIABLES counter,   \* the key of a concurrent rule: value, and none, forever or ttl
          window,    \* the number of members of the ZSET of another rule
          pc, todo,  \* the requests: their loop, and the rules it has left
          held,      \* history: the slots a request has taken and not given back
          happened   \* history: the events so far

vars == <<counter, window, pc, todo, held, happened>>

NoKey == [n |-> 0, life |-> "none"]
Outcomes(event) == IF event \in Events THEN BOOLEAN ELSE {TRUE}
Note(event, ok) == happened' = IF ok THEN happened ELSE happened \cup {event}

Init ==
    /\ counter = [i \in Index |-> NoKey]
    /\ window = [i \in Index |-> 0]
    /\ pc = [p \in Procs |-> "idle"]
    /\ todo = [p \in Procs |-> {}]
    /\ held = [p \in Procs |-> {}]
    /\ happened = {}

Goto(p, label, rules) ==
    /\ pc' = [pc EXCEPT ![p] = label]
    /\ todo' = [todo EXCEPT ![p] = rules]

\* The rule that a loop is at.
At(p) == Min(todo[p])

\* The next rule of a loop, or what follows the loop.
Proceed(p, label) ==
    LET rest == todo[p] \ {At(p)}
    IN  CASE rest # {} -> Goto(p, label, rest)
          [] rest = {} /\ label = "check" -> Goto(p, "acquire", Active)
          [] rest = {} /\ label = "release" -> Goto(p, "idle", {})
          [] rest = {} /\ label \in {"acquire", "rollback"} -> Goto(p, "run", {})

\* INCR and DECR create a key that does not exist, without a TTL.
Added(i, d) == [n |-> counter[i].n + d,
                life |-> IF counter[i].life = "none" THEN "forever" ELSE counter[i].life]

-----------------------------------------------------------------------------
(* Check                                                                   *)

\* HTTPMiddleware generates the rules; Acquire begins with Check.
Arrive(p) ==
    /\ pc[p] = "idle"
    /\ Goto(p, "check", Active)
    /\ UNCHANGED <<counter, window, held>>

\* Mutant: one request too many.
Full_OffByOne(i) == (IF Rules[i].concurrent THEN counter[i].n ELSE window[i]) > Rules[i].limit

Full(i) == (IF Rules[i].concurrent THEN counter[i].n ELSE window[i]) >= Rules[i].limit

\* checkOne; an error ends the loop as if all rules had room.
CheckOne(p, ok) ==
    /\ pc[p] = "check"
    /\ CASE ~ ok -> Goto(p, "acquire", Active)
         [] ok /\ Full(At(p)) -> Goto(p, "idle", {})
         [] ok /\ ~ Full(At(p)) -> Proceed(p, "check")
    /\ UNCHANGED <<counter, window, held>>

-----------------------------------------------------------------------------
(* acquireOne                                                              *)

\* An error: the rules before this one are rolled back, and Acquire says yes.
FailOpen(p) ==
    LET before == {i \in Slots : i < At(p)}
    IN  Goto(p, IF before = {} THEN "run" ELSE "rollback", before)

\* INCR; the first one is followed by EXPIRE.
AcquireIncr(p, ok) ==
    /\ pc[p] = "acquire" /\ Rules[At(p)].concurrent
    /\ counter[At(p)].n < MaxCount
    /\ IF ok
       THEN /\ counter' = [counter EXCEPT ![At(p)] = Added(At(p), 1)]
            /\ held' = [held EXCEPT ![p] = @ \cup {At(p)}]
            /\ IF counter[At(p)].n + 1 = 1 THEN Goto(p, "expire", todo[p])
                                           ELSE Proceed(p, "acquire")
       ELSE FailOpen(p) /\ UNCHANGED <<counter, held>>
    /\ UNCHANGED window

\* Mutant: the counter gets no TTL.
AcquireExpire_Skipped(p, ok) ==
    /\ pc[p] = "expire"
    /\ Proceed(p, "acquire")
    /\ UNCHANGED <<counter, window, held>>

\* EXPIRE has no effect on a key that is gone.
AcquireExpire(p, ok) ==
    /\ pc[p] = "expire"
    /\ IF ok
       THEN /\ counter' = [counter EXCEPT ![At(p)].life = IF @ = "none" THEN @ ELSE "ttl"]
            /\ Proceed(p, "acquire")
       ELSE FailOpen(p) /\ UNCHANGED counter
    /\ UNCHANGED <<window, held>>

\* ZADD and EXPIRE; an error of the latter leaves the member.
AcquireZadd(p, added, ok) ==
    /\ pc[p] = "acquire" /\ ~ Rules[At(p)].concurrent
    /\ ok => added
    /\ window[At(p)] < MaxCount
    /\ window' = IF added THEN [window EXCEPT ![At(p)] = @ + 1] ELSE window
    /\ IF ok THEN Proceed(p, "acquire") ELSE FailOpen(p)
    /\ UNCHANGED <<counter, held>>

\* rollback: DECR without a look at the result.
Rollback(p, ok) ==
    /\ pc[p] = "rollback"
    /\ counter[At(p)].n > - MaxCount
    /\ IF ok
       THEN /\ counter' = [counter EXCEPT ![At(p)] = Added(At(p), -1)]
            /\ held' = [held EXCEPT ![p] = @ \ {At(p)}]
       ELSE UNCHANGED <<counter, held>>
    /\ Proceed(p, "rollback")
    /\ UNCHANGED window

-----------------------------------------------------------------------------
(* Release                                                                 *)

\* The handler returns; the deferred Release loops over the slots.
Serve(p) ==
    /\ pc[p] = "run"
    /\ Goto(p, "release", Slots)
    /\ UNCHANGED <<counter, window, held>>

\* Mutant: a slot that was the only one in use is not given back.
Release_KeepsLast(p, ok) ==
    /\ pc[p] = "release"
    /\ counter' = IF counter[At(p)].n > 1 THEN [counter EXCEPT ![At(p)] = Added(At(p), -1)]
                                          ELSE counter
    /\ held' = [held EXCEPT ![p] = @ \ {At(p)}]
    /\ Proceed(p, "release")
    /\ UNCHANGED window

\* Mutant: a negative value stays.
Release_NoReset(p, ok) ==
    /\ pc[p] = "release"
    /\ counter[At(p)].n > - MaxCount
    /\ counter' = [counter EXCEPT ![At(p)] = Added(At(p), -1)]
    /\ held' = [held EXCEPT ![p] = @ \ {At(p)}]
    /\ Proceed(p, "release")
    /\ UNCHANGED window

\* DECR; an error is logged (the request's context may have ended).
Release(p, ok) ==
    /\ pc[p] = "release"
    /\ counter[At(p)].n > - MaxCount
    /\ counter' = IF ok THEN [counter EXCEPT ![At(p)] = Added(At(p), -1)] ELSE counter
    /\ held' = [held EXCEPT ![p] = @ \ {At(p)}]
    /\ IF ok /\ counter[At(p)].n - 1 < 0 THEN Goto(p, "reset", todo[p]) ELSE Proceed(p, "release")
    /\ UNCHANGED window

\* SET "0", which also removes the TTL.
Reset(p, ok) ==
    /\ pc[p] = "reset"
    /\ counter' = IF ok THEN [counter EXCEPT ![At(p)] = [n |-> 0, life |-> "forever"]] ELSE counter
    /\ Proceed(p, "release")
    /\ UNCHANGED <<window, held>>

-----------------------------------------------------------------------------
(* Time                                                                    *)

\* 300 seconds after the EXPIRE, whether or not the slots are in use.
KeyExpires(i) ==
    /\ "keyExpires" \in Events
    /\ counter[i].life = "ttl"
    /\ counter' = [counter EXCEPT ![i] = NoKey]
    /\ UNCHANGED <<window, pc, todo, held>>

\* A member of a window is more than a minute old.
Slide(i) ==
    /\ window[i] > 0
    /\ window' = [window EXCEPT ![i] = @ - 1]
    /\ UNCHANGED <<counter, pc, todo, held>>

Next ==
    \/ \E p \in Procs : (Arrive(p) \/ Serve(p)) /\ UNCHANGED happened
    \/ \E p \in Procs, ok \in Outcomes("acquireFails") :
          (CheckOne(p, ok) \/ AcquireIncr(p, ok) \/ Rollback(p, ok)) /\ Note("acquireFails", ok)
    \/ \E p \in Procs, added, ok \in Outcomes("acquireFails") :
          AcquireZadd(p, added, ok) /\ Note("acquireFails", ok)
    \/ \E p \in Procs, ok \in Outcomes("expireFails") :
          AcquireExpire(p, ok) /\ Note("expireFails", ok)
    \/ \E p \in Procs, ok \in Outcomes("releaseFails") :
          (Release(p, ok) \/ Reset(p, ok)) /\ Note("releaseFails", ok)
    \/ \E i \in Index : KeyExpires(i) /\ Note("keyExpires", FALSE)
    \/ \E i \in Index : Slide(i) /\ UNCHANGED happened

Spec == Init /\ [][Next]_vars

-----------------------------------------------------------------------------
(* Properties                                                              *)

Holders(i) == {p \in Procs : i \in held[p]}

\* While Redis answers and no key expires, a counter is the number of requests
\* that have its slot, however INCR and DECR interleave; if only releases fail,
\* it is at least that number (Acquire and Release are paired).
CountExact ==
    \A i \in Slots :
        /\ happened = {} => counter[i].n = Cardinality(Holders(i))
        /\ happened \subseteq {"releaseFails"} => counter[i].n >= Cardinality(Holders(i))

\* Release clamps "to avoid negative drift": when no request is on its way,
\* no counter is negative, although keys expire under requests, requests fail
\* open, and late SETs overwrite newer values; unless a release has failed.
NoNegativeDrift ==
    (\A p \in Procs : pc[p] = "idle") /\ "releaseFails" \notin happened =>
        \A i \in Slots : counter[i].n >= 0

\* A counter above 0 has a TTL, unless a request is between INCR and EXPIRE or
\* an EXPIRE has failed: a slot that was not given back, for whatever reason,
\* is free again after 300 seconds.
LeakExpires ==
    "expireFails" \notin happened =>
        \A i \in Slots :
            counter[i].n > 0 /\ (\A p \in Procs : pc[p] = "expire" => At(p) # i) =>
                counter[i].life = "ttl"

\* The check and the ZADD of a request are separate: a window exceeds its limit
\* by no more than the requests that were admitted together, unless a check has
\* failed and let a request pass.
WindowOvershoot ==
    \A i \in Active \ Slots :
        "acquireFails" \notin happened => window[i] <= Rules[i].limit + Cardinality(Procs) - 1
=============================================================================
