------------------------------ MODULE Session -------------------------------
(***************************************************************************)
(* common/auth/session.go, the opaque-token sessions in Redis, under the   *)
(* handlers that use them (handleLogin's last step, handleGuestLogin,      *)
(* handleRefresh, handleLogout, handleUserDetail of                        *)
(* cmd/rpc/internal/logic/call.go).                                        *)
(*                                                                         *)
(* Token i stands for the pair of random strings that one session gets:    *)
(* the access token and, unless it is a guest's, the refresh token.  The   *)
(* session record never changes once it is stored, so it is kept in rec    *)
(* for ever, and the Redis keys are the times at which they expire.        *)
(* Every Redis command and every query is a step; those of the             *)
(* dependencies in Faults may fail.                                        *)
(***************************************************************************)
EXTENDS DegradeModes, FiniteSets

CONSTANTS Procs,        \* the requests in progress
          Users,
          Faults,       \* the dependencies that may fail
          AccessTTL, GuestTTL, RefreshTTL,
          MaxTokens, MaxRequests, MaxTime, MaxFailed    \* bounds

ASSUME SessionAssumption ==
    /\ Faults \subseteq {"redis", "db"}
    /\ AccessTTL \in Nat /\ GuestTTL \in Nat /\ RefreshTTL \in Nat
    /\ 0 < AccessTTL /\ AccessTTL < GuestTTL /\ GuestTTL < RefreshTTL
    /\ MaxTokens \in Nat /\ MaxRequests \in Nat
    /\ MaxTime \in Nat /\ MaxFailed \in Nat

VARIABLES now,       \* the clock
          issued,    \* tokens drawn so far
          rec,       \* the session record of each token
          sess,      \* yuyan:sess:v2:<i>     when it expires, 0 if absent
          rkey,      \* yuyan:refresh:v2:<i>  the same; its value is i
          banned,    \* the users whose status is not 1
          mode,      \* the degrade mode
          given,     \* the tokens that clients have been given
          closed,    \* the tokens whose logout has been answered
          pc, job,   \* what each request does
          requests,  \* the requests so far
          failed,    \* history: the tokens of requests whose Redis command failed
          raced      \* history: the tokens that two requests refreshed at once

history == <<failed, raced>>
vars == <<now, issued, rec, sess, rkey, banned, mode, given, closed, pc, job, requests, history>>

Tokens == 1..MaxTokens
Nobody == "nobody"
NoRec == [uid |-> Nobody, guest |-> FALSE, accessExp |-> 0, refreshExp |-> 0, parent |-> 0]
NoJob == [op |-> "none", tok |-> 0, uid |-> Nobody, new |-> 0]

Outcomes(dependency) == IF dependency \in Faults THEN BOOLEAN ELSE {TRUE}

Init ==
    /\ now = 0
    /\ issued = 0
    /\ rec = [i \in Tokens |-> NoRec]
    /\ sess = [i \in Tokens |-> 0]
    /\ rkey = [i \in Tokens |-> 0]
    /\ banned = {}
    /\ mode = ModeNormal
    /\ given = {}
    /\ closed = {}
    /\ pc = [p \in Procs |-> "idle"]
    /\ job = [p \in Procs |-> NoJob]
    /\ requests = 0
    /\ failed = {}
    /\ raced = {}

Goto(p, label) ==
    /\ pc' = [pc EXCEPT ![p] = label]
    /\ UNCHANGED job

Answer(p) ==
    /\ pc' = [pc EXCEPT ![p] = "idle"]
    /\ job' = [job EXCEPT ![p] = NoJob]

RecordDBErrorForDegrade == mode' = IF mode = ModeNormal THEN ModeDegraded ELSE mode

\* Get's answer for token i when the Redis command succeeds.
Found(i) == sess[i] # 0 /\ now <= rec[i].accessExp

-----------------------------------------------------------------------------
(* The handlers start.  Level 2 is served in every mode.                   *)

Start(p, op, i, u, label) ==
    /\ pc[p] = "idle"
    /\ requests < MaxRequests
    /\ requests' = requests + 1
    /\ CanServe(mode, LevelAuth)
    /\ pc' = [pc EXCEPT ![p] = label]
    /\ job' = [job EXCEPT ![p] = [NoJob EXCEPT !.op = op, !.tok = i, !.uid = u]]
    /\ UNCHANGED <<now, issued, rec, sess, rkey, banned, mode, given, closed>>

Login(p, u) == u \notin banned /\ Start(p, "login", 0, u, "persist")

GuestLogin(p) == Start(p, "guest", 0, Nobody, "persist")

RefreshStart(p, i) == i \in given /\ Start(p, "refresh", i, Nobody, "lookup")

Logout(p, i) == i \in given /\ Start(p, "logout", i, Nobody, "get")

UserDetail(p, i) == i \in given /\ Start(p, "detail", i, Nobody, "get")

-----------------------------------------------------------------------------
(* Refresh, Revoke and Get                                                 *)

\* Step 1 of Refresh: the access token behind the refresh token.
Lookup(p, ok) ==
    /\ pc[p] = "lookup"
    /\ IF ok /\ rkey[job[p].tok] # 0 THEN Goto(p, "get") ELSE Answer(p)
    /\ UNCHANGED <<now, issued, rec, sess, rkey, banned, mode, given, closed>>

\* Get, and what each caller does next: Revoke is done when there is no
\* session; Refresh and user_detail refuse guests; Refresh deletes a session
\* whose refresh window is over.
Get(p, ok) ==
    /\ pc[p] = "get"
    /\ LET i == job[p].tok
           found == ok /\ Found(i)
           over == rec[i].refreshExp > 0 /\ now > rec[i].refreshExp
       IN  CASE job[p].op = "logout" /\ found -> Goto(p, "delSess") /\ UNCHANGED closed
             [] job[p].op = "logout" /\ ~ found -> Answer(p) /\ closed' = closed \cup {i}
             [] job[p].op # "logout" /\ (~ found \/ rec[i].guest) ->
                    Answer(p) /\ UNCHANGED closed
             [] job[p].op = "refresh" /\ found /\ ~ rec[i].guest /\ over ->
                    /\ pc' = [pc EXCEPT ![p] = "delSess"]
                    /\ job' = [job EXCEPT ![p].op = "expire"]
                    /\ UNCHANGED closed
             [] OTHER -> Goto(p, "status") /\ UNCHANGED closed
    /\ UNCHANGED <<now, issued, rec, sess, rkey, banned, mode, given>>

\* Mutant: the new session is issued beside the old one.
Rotation_NoRevoke == "persist"

\* Step 5 of Refresh: the old session is deleted, then the new one issued.
Rotation == "delSess"

\* The query for the user's status.  Refresh answers "banned" to a failed
\* query too, and RevokeAllForUID does nothing.
Status(p, ok) ==
    /\ pc[p] = "status"
    /\ IF ok THEN mode' = mode ELSE RecordDBErrorForDegrade
    /\ LET isBanned == rec[job[p].tok].uid \in banned
       IN  CASE job[p].op = "refresh" /\ (~ ok \/ isBanned) -> Answer(p)
             [] job[p].op = "refresh" /\ ok /\ ~ isBanned -> Goto(p, Rotation)
             [] OTHER -> Answer(p)
    /\ UNCHANGED <<now, issued, rec, sess, rkey, banned, given, closed>>

\* Mutant: revoke deletes the refresh key only.
DelSess_OnlyRefresh(p, ok) ==
    /\ pc[p] = "delSess"
    /\ Goto(p, "delRefresh")
    /\ UNCHANGED <<now, issued, rec, sess, rkey, banned, mode, given, closed>>

\* revoke: two commands whose errors are ignored.
DelSess(p, ok) ==
    /\ pc[p] = "delSess"
    /\ sess' = IF ok THEN [sess EXCEPT ![job[p].tok] = 0] ELSE sess
    /\ Goto(p, "delRefresh")
    /\ UNCHANGED <<now, issued, rec, rkey, banned, mode, given, closed>>

DelRefresh(p, ok) ==
    /\ pc[p] = "delRefresh"
    /\ rkey' = IF ok THEN [rkey EXCEPT ![job[p].tok] = 0] ELSE rkey
    /\ CASE job[p].op = "logout" -> Answer(p) /\ closed' = closed \cup {job[p].tok}
         [] job[p].op = "refresh" -> Goto(p, "persist") /\ UNCHANGED closed
         [] OTHER -> Answer(p) /\ UNCHANGED closed
    /\ UNCHANGED <<now, issued, rec, sess, banned, mode, given>>

-----------------------------------------------------------------------------
(* IssueUser, IssueGuest and persist                                       *)

\* The record of the session that p is issued.
NewSession(p) ==
    LET guest == job[p].op = "guest"
    IN  [uid        |-> IF job[p].op = "refresh" THEN rec[job[p].tok].uid ELSE job[p].uid,
         guest      |-> guest,
         accessExp  |-> now + (IF guest THEN GuestTTL ELSE AccessTTL),
         refreshExp |-> IF guest THEN 0 ELSE now + RefreshTTL,
         parent     |-> job[p].tok]

\* Mutant: a rotation keeps the tokens.
FreshToken_Keeps(p) == IF job[p].op = "refresh" THEN job[p].tok ELSE issued + 1

\* randomHex: a token that nobody has.
FreshToken(p) == issued + 1

\* The session key: a user's lives as long as the refresh window.
Persist(p, ok) ==
    /\ pc[p] = "persist"
    /\ issued < MaxTokens
    /\ LET i == FreshToken(p)
           guest == job[p].op = "guest"
       IN  /\ issued' = i
           /\ rec' = [rec EXCEPT ![i] = NewSession(p)]
           /\ sess' = IF ok THEN [sess EXCEPT ![i] = now + (IF guest THEN GuestTTL ELSE RefreshTTL)]
                            ELSE sess
           /\ CASE ~ ok -> Answer(p) /\ UNCHANGED given
                [] ok /\ guest -> Answer(p) /\ given' = given \cup {i}
                [] OTHER -> /\ pc' = [pc EXCEPT ![p] = "persistRefresh"]
                            /\ job' = [job EXCEPT ![p] = [NoJob EXCEPT !.op = job[p].op,
                                                                       !.new = i]]
                            /\ UNCHANGED given
    /\ UNCHANGED <<now, rkey, banned, mode, closed>>

\* The refresh key.  A login is answered; a refresh still reads the user.
PersistRefresh(p, ok) ==
    /\ pc[p] = "persistRefresh"
    /\ rkey' = IF ok THEN [rkey EXCEPT ![job[p].new] = now + RefreshTTL] ELSE rkey
    /\ CASE ~ ok -> Answer(p) /\ UNCHANGED given
         [] ok /\ job[p].op = "login" -> Answer(p) /\ given' = given \cup {job[p].new}
         [] OTHER -> Goto(p, "reread") /\ UNCHANGED given
    /\ UNCHANGED <<now, issued, rec, sess, banned, mode, closed>>

\* handleRefresh reads the user again; if that fails the client does not get
\* the tokens that have replaced its own.
Reread(p, ok) ==
    /\ pc[p] = "reread"
    /\ IF ok
       THEN Answer(p) /\ given' = given \cup {job[p].new} /\ UNCHANGED mode
       ELSE Answer(p) /\ RecordDBErrorForDegrade /\ UNCHANGED given
    /\ UNCHANGED <<now, issued, rec, sess, rkey, banned, closed>>

-----------------------------------------------------------------------------
(* The environment                                                         *)

\* Time passes; Redis drops the keys that expire.
Tick ==
    /\ now < MaxTime
    /\ now' = now + 1
    /\ sess' = [i \in Tokens |-> IF sess[i] <= now' THEN 0 ELSE sess[i]]
    /\ rkey' = [i \in Tokens |-> IF rkey[i] <= now' THEN 0 ELSE rkey[i]]
    /\ UNCHANGED <<issued, rec, banned, mode, given, closed, pc, job>>

\* An administrator bans a user.
Ban(u) ==
    /\ u \notin banned
    /\ banned' = banned \cup {u}
    /\ UNCHANGED <<now, issued, rec, sess, rkey, mode, given, closed, pc, job>>

Redis(p) ==
    \E ok \in Outcomes("redis") :
        /\ \/ Lookup(p, ok)
           \/ Get(p, ok)
           \/ DelSess(p, ok)
           \/ DelRefresh(p, ok)
           \/ Persist(p, ok)
           \/ PersistRefresh(p, ok)
        /\ failed' = IF ok THEN failed ELSE failed \cup {job[p].tok}
        /\ Cardinality(failed') <= MaxFailed
        /\ UNCHANGED <<raced, requests>>

Database(p) == \E ok \in Outcomes("db") : Status(p, ok) \/ Reread(p, ok)

Refreshing(i) == \E p \in Procs : job[p].op = "refresh" /\ job[p].tok = i

Refresh(p, i) ==
    /\ RefreshStart(p, i)
    /\ raced' = IF Refreshing(i) THEN raced \cup {i} ELSE raced
    /\ UNCHANGED failed

Request(p) ==
    \/ GuestLogin(p)
    \/ \E u \in Users : Login(p, u)
    \/ \E i \in Tokens : Logout(p, i) \/ UserDetail(p, i)

Next ==
    \/ \E p \in Procs : Redis(p)
    \/ \E p \in Procs, i \in Tokens : Refresh(p, i)
    \/ \E p \in Procs : Request(p) /\ UNCHANGED history
    \/ /\ \/ \E p \in Procs : Database(p)
          \/ Tick
          \/ \E u \in Users : Ban(u)
       /\ UNCHANGED <<requests, history>>

Spec == Init /\ [][Next]_vars

-----------------------------------------------------------------------------

\* Refresh and Revoke: a session that has left Redis (logged out, rotated or
\* expired) never comes back, whatever is in flight when it is deleted.
RevokedStaysRevoked ==
    [][\A i \in 1..issued : sess[i] = 0 => sess'[i] = 0]_vars

\* handleLogout: once a logout is answered, no request is served with that
\* token, although refreshes of the same token may be under way; unless a
\* Redis command failed, which Revoke does not tell from a missing session.
LogoutSticks == \A i \in closed \ failed : ~ Found(i)

Exchanged(i, j) == i # j /\ rec[i].parent = rec[j].parent /\ rec[i].parent # 0

\* session.go:135, Refresh "rotates the access+refresh tokens": one token is
\* exchanged for at most one new session, unless two requests refresh it at
\* once or a DEL failed.  A refresh whose client never got the new tokens,
\* since the last query failed, does not leave the old one usable.
RotationOneShotAlone ==
    \A i, j \in 1..issued : Exchanged(i, j) => rec[i].parent \in raced \cup failed
=============================================================================
