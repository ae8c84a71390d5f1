------------------------------- MODULE Login --------------------------------
(***************************************************************************)
(* A password login, for one client address and one phone: the sliding     *)
(* windows it passes (common/ratelimit/ratelimit.go: per address in the    *)
(* HTTP service, for all routes and for the auth routes, then per phone in *)
(* handleLogin of cmd/rpc/internal/logic/call.go), the lock, the query and *)
(* the counter of wrong passwords.                                         *)
(*                                                                         *)
(* A request performs one Redis command or query per step.  Of a window    *)
(* the model keeps how many members the ZSET has; the oldest may leave at  *)
(* any time.                                                               *)
(***************************************************************************)
EXTENDS DegradeModes, Sequences, FiniteSets

CONSTANTS Logins,      \* the requests
          Limits,      \* perMin of the limiters <<"api", "auth", "login">>
          MaxFails,    \* 10
          Faults,      \* the dependencies that may fail
          MaxFailCount \* bound on the counter of wrong passwords

ASSUME LoginAssumption ==
    /\ IsFiniteSet(Logins)
    /\ Limits \in Seq(Nat \ {0}) /\ Limits # << >>
    /\ MaxFails \in Nat /\ MaxFails > 1
    /\ Faults \subseteq {"redis", "db"}
    /\ MaxFailCount \in Nat

Limiters == 1..Len(Limits)

VARIABLES zset,        \* the number of members of each ZSET
          fails,       \* yuyan:login:fail: the count, and whether it has a TTL
          locked,      \* whether yuyan:login:lock exists
          mode,        \* the degrade mode
          stage, at,   \* the requests: their step, and the limiter they are at
          failed       \* history: which of EXPIRE, SETEX and DEL have failed so far

loginVars == <<zset, fails, locked, mode, stage, at, failed>>

Replies(dependency) == IF dependency \in Faults THEN BOOLEAN ELSE {TRUE}
NoteFailed(command, ok) == failed' = IF ok THEN failed ELSE failed \cup {command}

LoginInit ==
    /\ zset = [l \in Limiters |-> 0]
    /\ fails = [count |-> 0, ttl |-> FALSE]
    /\ locked = FALSE
    /\ mode = ModeNormal
    /\ stage = [p \in Logins |-> "idle"]
    /\ at = [p \in Logins |-> 1]
    /\ failed = {}

Enter(p, label) ==
    /\ stage' = [stage EXCEPT ![p] = label]
    /\ UNCHANGED at

Answer(p) ==
    /\ stage' = [stage EXCEPT ![p] = "idle"]
    /\ at' = [at EXCEPT ![p] = 1]

\* The next limiter, or the handler behind the last one.  handleLogin also
\* asks the degrade manager, which serves LevelAuth in every mode.
Admit(p) ==
    IF at[p] = Len(Limits)
    THEN Enter(p, "lockGet")
    ELSE /\ stage' = [stage EXCEPT ![p] = "zcard"]
         /\ at' = [at EXCEPT ![p] = @ + 1]

-----------------------------------------------------------------------------
(* Limiter.Allow                                                           *)

Receive(p) ==
    /\ stage[p] = "idle"
    /\ Enter(p, "zcard")
    /\ UNCHANGED <<zset, fails, locked, mode>>

\* Mutant: one request too many.
Exhausted_OffByOne(l) == zset[l] > Limits[l]

Exhausted(l) == zset[l] >= Limits[l]

\* ZREMRANGEBYSCORE and ZCARD; an error admits the request unrecorded.
Zcard(p, ok) ==
    /\ stage[p] = "zcard"
    /\ IF ~ ok THEN Admit(p) ELSE IF Exhausted(at[p]) THEN Answer(p) ELSE Enter(p, "zadd")
    /\ UNCHANGED <<zset, fails, locked, mode>>

\* ZADD, whose error is ignored, and EXPIRE.
Zadd(p, ok) ==
    /\ stage[p] = "zadd"
    /\ zset' = IF ok THEN [zset EXCEPT ![at[p]] = @ + 1] ELSE zset
    /\ Admit(p)
    /\ UNCHANGED <<fails, locked, mode>>

-----------------------------------------------------------------------------
(* handleLogin                                                             *)

\* A request that is not valid is refused before the limiter of the phone.
Refuse(p) ==
    /\ stage[p] = "zcard" /\ at[p] = Len(Limits)
    /\ Answer(p)
    /\ UNCHANGED <<zset, fails, locked, mode>>

LockGet(p, ok) ==
    /\ stage[p] = "lockGet"
    /\ IF ok /\ locked THEN Answer(p) ELSE Enter(p, "find")
    /\ UNCHANGED <<zset, fails, locked, mode>>

\* FindByPhone under a token, then the password and the status.
Find(p, ok) ==
    /\ stage[p] = "find"
    /\ IF ok
       THEN /\ Enter(p, "failIncr") \/ Enter(p, "clear") \/ Answer(p)
            /\ UNCHANGED mode
       ELSE /\ mode' = IF mode = ModeNormal THEN ModeDegraded ELSE mode
            /\ Answer(p)
    /\ UNCHANGED <<zset, fails, locked>>

\* recordLoginFail: INCR, and EXPIRE after the first one.
FailIncr(p, ok) ==
    /\ stage[p] = "failIncr"
    /\ ok => fails.count < MaxFailCount
    /\ fails' = IF ok THEN [fails EXCEPT !.count = @ + 1] ELSE fails
    /\ CASE ~ ok -> Answer(p)
         [] ok /\ fails.count + 1 = 1 -> Enter(p, "failExpire")
         [] ok /\ fails.count + 1 >= MaxFails -> Enter(p, "lock")
         [] OTHER -> Answer(p)
    /\ UNCHANGED <<zset, locked, mode>>

\* Mutant: the counter gets no TTL.
FailExpire_Skipped(p, ok) ==
    /\ stage[p] = "failExpire"
    /\ Answer(p)
    /\ UNCHANGED <<zset, fails, locked, mode>>

\* EXPIRE has no effect if the key is gone.
FailExpire(p, ok) ==
    /\ stage[p] = "failExpire"
    /\ fails' = IF ok /\ fails.count > 0 THEN [fails EXCEPT !.ttl = TRUE] ELSE fails
    /\ Answer(p)
    /\ UNCHANGED <<zset, locked, mode>>

\* Mutant: the counter is cleared without a lock.
SetLock_Skipped(p, ok) ==
    /\ stage[p] = "lock"
    /\ Enter(p, "clearFails")
    /\ UNCHANGED <<zset, fails, locked, mode>>

SetLock(p, ok) ==
    /\ stage[p] = "lock"
    /\ locked' = (locked \/ ok)
    /\ Enter(p, "clearFails")
    /\ UNCHANGED <<zset, fails, mode>>

\* Mutant: the counter is kept, and so is its TTL.
Clear_Keeps(p, ok) ==
    /\ stage[p] \in {"clear", "clearFails"}
    /\ Answer(p)
    /\ UNCHANGED <<zset, fails, locked, mode>>

\* DEL of the counter, after the lock and after a successful login, which
\* goes on to issue a session (see Session).
Clear(p, ok) ==
    /\ stage[p] \in {"clear", "clearFails"}
    /\ fails' = IF ok THEN [count |-> 0, ttl |-> FALSE] ELSE fails
    /\ Answer(p)
    /\ UNCHANGED <<zset, locked, mode>>

-----------------------------------------------------------------------------
(* Time                                                                    *)

Minute(l) ==
    /\ zset[l] > 0
    /\ zset' = [zset EXCEPT ![l] = @ - 1]
    /\ UNCHANGED <<fails, locked, mode, stage, at>>

FailsExpire ==
    /\ fails.ttl
    /\ fails' = [count |-> 0, ttl |-> FALSE]
    /\ UNCHANGED <<zset, locked, mode, stage, at>>

\* Thirty minutes: no request is that long between two commands.
LockExpires ==
    /\ locked
    /\ \A p \in Logins : stage[p] # "clearFails"
    /\ locked' = FALSE
    /\ UNCHANGED <<zset, fails, mode, stage, at>>

Step(p) ==
    \/ \E ok \in Replies("redis") :
          \/ (Zcard(p, ok) \/ Zadd(p, ok) \/ LockGet(p, ok) \/ FailIncr(p, ok)) /\ UNCHANGED failed
          \/ FailExpire(p, ok) /\ NoteFailed("EXPIRE", ok)
          \/ SetLock(p, ok) /\ NoteFailed("SETEX", ok)
          \/ Clear(p, ok) /\ NoteFailed("DEL", ok)
    \/ \E ok \in Replies("db") : Find(p, ok) /\ UNCHANGED failed
    \/ Refuse(p) /\ UNCHANGED failed

LoginNext ==
    \/ \E p \in Logins : Receive(p) /\ UNCHANGED failed
    \/ \E p \in Logins : Step(p)
    \/ \E l \in Limiters : Minute(l) /\ UNCHANGED failed
    \/ (FailsExpire \/ LockExpires) /\ UNCHANGED failed

LoginSpec == LoginInit /\ [][LoginNext]_loginVars

\* A request that has been received is carried out.
FairLoginSpec == LoginSpec /\ \A p \in Logins : WF_loginVars(Step(p))

-----------------------------------------------------------------------------
(* Properties                                                              *)

\* ZCARD and ZADD are separate commands: a window exceeds its limit by no more
\* than the other requests in flight, and a single request never exceeds it
\* ("20/min/IP", "10/min").  A request that Redis errors let pass is not
\* recorded.
RateOvershoot == \A l \in Limiters : zset[l] <= Limits[l] + Cardinality(Logins) - 1

\* A counter that has reached MaxFails is on its way to a lock and to 0,
\* whatever other failures, successes and expiries interleave, unless a DEL
\* has failed.
LockFollows ==
    fails.count >= MaxFails /\ "DEL" \notin failed =>
        \E p \in Logins : stage[p] \in {"lock", "clearFails"}

\* A phone whose counter has reached MaxFails is locked, unless Redis fails at
\* this very moment.
LockEventually ==
    fails.count >= MaxFails /\ failed = {} ~> locked \/ failed # {}

\* The counter of wrong passwords has a TTL ("within 15min") whenever no
\* request is between the INCR and the EXPIRE, unless an EXPIRE has failed.
FailCounterExpires ==
    /\ fails.count > 0
    /\ \A p \in Logins : stage[p] # "failExpire"
    /\ "EXPIRE" \notin failed
    => fails.ttl
=============================================================================
