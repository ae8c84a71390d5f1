---------------------------- MODULE SessionProofs ----------------------------
(***************************************************************************)
(* RevokedStaysRevoked, LogoutSticks and RotationOneShotAlone for any      *)
(* number of requests, users and tokens, and for any lifetimes.            *)
(*                                                                         *)
(* A token is out of reach of every step but the one that issues it, which *)
(* takes a number that no client and no request knows (Known).  LogoutInv  *)
(* adds what a logout has achieved when it is between its two DELs.        *)
(*                                                                         *)
(* An exchange takes a refresh from Get, which finds the session of the    *)
(* old token, over the DEL of that session to persist.  RotationInv says   *)
(* what each stage has achieved: a token that has been exchanged has no    *)
(* session (ParentDead), so that a later Get stops there, and a request    *)
(* past its Get is the only one for its token (OneEach) and the first      *)
(* (Rotating).                                                             *)
(***************************************************************************)
EXTENDS Session, TLAPS

Records == [uid : Users \cup {Nobody}, guest : BOOLEAN, accessExp : Nat, refreshExp : Nat,
            parent : Nat]
Jobs == [op : {"none", "login", "guest", "refresh", "logout", "detail", "expire"},
         tok : Nat, uid : Users \cup {Nobody}, new : Nat]

\* The steps at which a request works on the token it was started with, and
\* on the one it was issued.
OnToken == {"lookup", "get", "status", "delSess", "delRefresh"}
OnNew == {"persistRefresh", "reread"}
Labels == {"idle", "persist"} \cup OnToken \cup OnNew

\* A request at label l with job j knows only tokens up to n.
Knows(l, j, n) ==
    /\ l \in Labels /\ j \in Jobs /\ j.tok \in 0..n
    /\ l \in OnToken \/ (l = "persist" /\ j.op = "refresh") => j.tok \in 1..n
    /\ l \in OnNew => j.new \in 1..n

ProcsKnown ==
    /\ pc \in [Procs -> Labels] /\ job \in [Procs -> Jobs]
    /\ \A p \in Procs : Knows(pc[p], job[p], issued)

\* Types, and that clients only know tokens that were issued.
StoreKnown ==
    /\ now \in Nat /\ issued \in 0..MaxTokens
    /\ rec \in [Tokens -> Records] /\ sess \in [Tokens -> Nat]
    /\ given \subseteq 1..issued /\ closed \subseteq 1..issued

Known == StoreKnown /\ ProcsKnown

\* What a step does to the tokens issued before it: time goes on, no record
\* changes, and no session key comes back.
Onward ==
    /\ now <= now' /\ issued <= issued'
    /\ \A i \in 1..issued : rec'[i] = rec[i] /\ (sess[i] = 0 => sess'[i] = 0)

-----------------------------------------------------------------------------
(* Requests                                                                *)

\* A request that is given a new label and a new job.
LEMMA Moves ==
    ASSUME ProcsKnown, issued \in Nat, issued' \in Nat, issued <= issued',
           NEW p \in Procs, NEW l, NEW j, Knows(l, j, issued'),
           pc' = [pc EXCEPT ![p] = l], job' = [job EXCEPT ![p] = j]
    PROVE  ProcsKnown'
<1>1. pc' \in [Procs -> Labels] /\ job' \in [Procs -> Jobs]
  BY DEF ProcsKnown, Knows
<1>2. ASSUME NEW q \in Procs PROVE Knows(pc'[q], job'[q], issued')
  <2>1. CASE q = p
    BY <2>1 DEF ProcsKnown
  <2>2. CASE q # p
    <3>1. pc'[q] = pc[q] /\ job'[q] = job[q] /\ Knows(pc[q], job[q], issued)
      BY <2>2 DEF ProcsKnown
    <3>2. 1..issued \subseteq 1..issued' /\ 0..issued \subseteq 0..issued'
      OBVIOUS
    <3> QED
      BY <3>1, <3>2 DEF Knows
  <2> QED
    BY <2>1, <2>2
<1> QED
  BY <1>1, <1>2 DEF ProcsKnown

\* A request that is answered is idle.
LEMMA Answers ==
    ASSUME ProcsKnown, issued \in Nat, issued' \in Nat, issued <= issued',
           NEW p \in Procs, Answer(p)
    PROVE  ProcsKnown'
<1>1. Knows("idle", NoJob, issued')
  BY DEF Knows, NoJob, Jobs, Labels, OnToken, OnNew
<1> QED
  BY <1>1, Moves, Zenon DEF Answer

\* A request goes on with the token it has.
LEMMA Goes ==
    ASSUME ProcsKnown, issued \in Nat, issued' = issued,
           NEW p \in Procs, NEW l \in Labels, Goto(p, l),
           \/ pc[p] \in OnToken /\ l \in OnToken \cup {"persist"}
           \/ pc[p] \in OnNew /\ l \in OnNew
    PROVE  ProcsKnown'
<1>1. Knows(pc[p], job[p], issued) /\ job \in [Procs -> Jobs]
  BY DEF ProcsKnown
<1>2. PICK j : j = job[p]
  BY Zenon
<1>3. Knows(l, j, issued')
  BY <1>1, <1>2 DEF Knows, OnToken, OnNew, Labels
<1>4. pc' = [pc EXCEPT ![p] = l] /\ job' = [job EXCEPT ![p] = j]
  BY <1>1, <1>2 DEF Goto
<1>5. issued' \in Nat /\ issued <= issued'
  OBVIOUS
<1> QED
  BY <1>3, <1>4, <1>5, Moves, Zenon

\* Nobody moves.
LEMMA Stays ==
    ASSUME ProcsKnown, issued' = issued, pc' = pc, job' = job
    PROVE  ProcsKnown'
BY DEF ProcsKnown

-----------------------------------------------------------------------------
(* Steps                                                                   *)

\* Init: nothing is issued and nobody is at work.
LEMMA InitKnown == Init => Known
<1> SUFFICES ASSUME Init PROVE Known
  OBVIOUS
<1>1. MaxTokens \in Nat
  BY SessionAssumption
<1>2. NoRec \in Records /\ Knows("idle", NoJob, 0)
  BY DEF NoRec, NoJob, Records, Jobs, Knows, Labels, OnToken, OnNew
<1>3. StoreKnown
  BY <1>1, <1>2 DEF Init, StoreKnown, Tokens
<1>4. ProcsKnown
  BY <1>2 DEF Init, ProcsKnown, Knows
<1> QED
  BY <1>3, <1>4 DEF Known

\* A request that starts: on a token that a client knows, or without one.
LEMMA Starts ==
    ASSUME Known, NEW p \in Procs, NEW i \in Nat, NEW u \in Users \cup {Nobody}, NEW l, NEW op,
           Start(p, op, i, u, l),
           \/ op \in {"login", "guest"} /\ l = "persist" /\ i = 0
           \/ op \in {"refresh", "logout", "detail"} /\ l \in OnToken /\ i \in given
    PROVE  Known' /\ Onward
<1>1. StoreKnown' /\ Onward /\ issued' = issued
  BY DEF Known, StoreKnown, Start, Onward, Tokens
<1> DEFINE j == [NoJob EXCEPT !.op = op, !.tok = i, !.uid = u]
<1>2. Knows(l, j, issued)
  <2>1. j \in Jobs /\ j.op = op /\ j.tok = i
    BY Zenon DEF NoJob, Jobs
  <2>2. (i \in given => i \in 1..issued) /\ issued \in Nat
    BY DEF Known, StoreKnown
  <2>3. i \in 0..issued
    BY <2>2
  <2> QED
    BY <2>1, <2>2, <2>3 DEF Knows, Labels, OnToken, OnNew
<1>3. issued \in Nat /\ issued' \in Nat /\ issued <= issued' /\ ProcsKnown
  BY <1>1 DEF Known, StoreKnown
<1>4. pc' = [pc EXCEPT ![p] = l] /\ job' = [job EXCEPT ![p] = j] /\ Knows(l, j, issued')
  BY <1>1, <1>2 DEF Start
<1> HIDE DEF j
<1>5. ProcsKnown'
  BY <1>3, <1>4, Moves, Zenon
<1> QED
  BY <1>1, <1>5 DEF Known

\* The record of a new session is a record.
LEMMA NewSessionType ==
    ASSUME Known, NEW p \in Procs, pc[p] = "persist"
    PROVE  NewSession(p) \in Records
<1>1. job[p] \in Jobs /\ now \in Nat /\ Knows(pc[p], job[p], issued)
  BY DEF Known, StoreKnown, ProcsKnown
<1>2. AccessTTL \in Nat /\ GuestTTL \in Nat /\ RefreshTTL \in Nat /\ MaxTokens \in Nat
  BY SessionAssumption
<1>3. job[p].op = "refresh" => rec[job[p].tok] \in Records
  BY <1>1, <1>2 DEF Knows, Known, StoreKnown, Tokens
<1> QED
  BY <1>1, <1>2, <1>3 DEF NewSession, Records, Jobs

\* persist: the only step that issues a token.
LEMMA PersistKnown ==
    ASSUME Known, NEW p \in Procs, NEW ok \in BOOLEAN, Persist(p, ok)
    PROVE  Known' /\ Onward
<1> DEFINE i == issued + 1
<1>1. /\ i \in Tokens /\ i \in Nat /\ i \notin 1..issued /\ issued' = i /\ issued \in Nat
      /\ issued' \in 0..MaxTokens /\ issued <= issued' /\ 1..issued \subseteq Tokens
      /\ i \in 1..issued' /\ 1..issued \subseteq 1..issued'
  <2>1. issued \in 0..MaxTokens /\ issued < MaxTokens /\ issued' = issued + 1
    BY Zenon DEF Persist, FreshToken, Known, StoreKnown
  <2>2. MaxTokens \in Nat
    BY SessionAssumption, Zenon
  <2> QED
    BY <2>1, <2>2 DEF Tokens
<1>2. NewSession(p) \in Records /\ rec' = [rec EXCEPT ![i] = NewSession(p)]
  BY NewSessionType DEF Persist, FreshToken
<1>3. PICK t \in Nat : sess' = IF ok THEN [sess EXCEPT ![i] = t] ELSE sess
  <2> DEFINE ttl == IF job[p].op = "guest" THEN GuestTTL ELSE RefreshTTL
  <2>1. now + ttl \in Nat
    BY SessionAssumption DEF Known, StoreKnown
  <2>2. sess' = IF ok THEN [sess EXCEPT ![i] = now + ttl] ELSE sess
    BY DEF Persist, FreshToken
  <2> QED
    BY <2>1, <2>2
<1>4. now' = now /\ closed' = closed /\ given' \in {given, given \cup {i}}
  BY DEF Persist, FreshToken
<1> HIDE DEF i
<1>5. StoreKnown'
  BY <1>1, <1>2, <1>3, <1>4 DEF Known, StoreKnown
<1>6. Onward
  BY <1>1, <1>2, <1>3, <1>4 DEF Known, StoreKnown, Onward
<1>7. ProcsKnown'
  <2>1. CASE Answer(p)
    BY <2>1, <1>1, <1>5, Answers, Zenon DEF Known, StoreKnown
  <2>2. CASE ~ Answer(p)
    <3>1. PICK j : j = [NoJob EXCEPT !.op = job[p].op, !.new = i]
      BY Zenon
    <3>2. pc' = [pc EXCEPT ![p] = "persistRefresh"] /\ job' = [job EXCEPT ![p] = j]
      BY <2>2, <3>1, Zenon DEF Persist, FreshToken, i
    <3>3. job[p] \in Jobs
      BY Zenon DEF Known, ProcsKnown
    <3>5. issued' \in Nat /\ ProcsKnown
      BY <1>1 DEF Known
    <3>a. j \in Jobs /\ j.tok = 0 /\ j.new = i
      BY <3>1, <3>3, <1>1, Zenon DEF NoJob, Jobs
    <3>4. Knows("persistRefresh", j, issued')
      BY <3>a, <3>5, <1>1 DEF Knows, Labels, OnToken, OnNew
    <3> QED
      BY <3>2, <3>4, <3>5, <1>1, Moves, Zenon
  <2> QED
    BY <2>1, <2>2, Zenon
<1> QED
  BY <1>5, <1>6, <1>7 DEF Known

\* The Redis commands.
LEMMA RedisKnown ==
    ASSUME Known, NEW p \in Procs, NEW ok \in BOOLEAN,
           \/ Lookup(p, ok) \/ Get(p, ok) \/ DelSess(p, ok) \/ DelRefresh(p, ok)
           \/ Persist(p, ok) \/ PersistRefresh(p, ok)
    PROVE  Known' /\ Onward
<1>k. /\ ProcsKnown /\ issued \in Nat /\ job[p] \in Jobs /\ Knows(pc[p], job[p], issued)
      /\ 1..issued \subseteq Tokens
  BY SessionAssumption DEF Known, StoreKnown, ProcsKnown, Tokens
<1>1. CASE Lookup(p, ok)
  <2>1. StoreKnown' /\ Onward /\ issued' = issued
    BY <1>1 DEF Lookup, Known, StoreKnown, Onward, Tokens
  <2>2. Goto(p, "get") \/ Answer(p)
    BY <1>1 DEF Lookup
  <2>3. pc[p] \in OnToken /\ "get" \in OnToken /\ "get" \in Labels
    BY <1>1 DEF Lookup, OnToken, Labels
  <2>4. ProcsKnown'
    BY <2>1, <2>2, <2>3, <1>k, Answers, Goes
  <2> QED
    BY <2>1, <2>4 DEF Known
<1>2. CASE Get(p, ok)
  <2>1. pc[p] = "get" /\ job[p].tok \in 1..issued
    BY <1>2, <1>k, Zenon DEF Get, Knows, OnToken
  <2>2. closed' \in {closed, closed \cup {job[p].tok}}
    BY <1>2, Zenon DEF Get
  <2>a. now' = now /\ issued' = issued /\ rec' = rec /\ sess' = sess /\ given' = given
    BY <1>2, Zenon DEF Get
  <2>b. StoreKnown'
    BY <2>1, <2>2, <2>a DEF Known, StoreKnown
  <2>c. Onward
    BY <2>a, <1>k DEF Known, StoreKnown, Onward
  <2>3. StoreKnown' /\ Onward /\ issued' = issued
    BY <2>a, <2>b, <2>c, Zenon
  <2>4. \/ Answer(p) \/ Goto(p, "delSess") \/ Goto(p, "status")
        \/ pc' = [pc EXCEPT ![p] = "delSess"] /\ job' = [job EXCEPT ![p].op = "expire"]
    BY <1>2, Zenon DEF Get
  <2>5. /\ pc[p] \in OnToken /\ "delSess" \in OnToken /\ "status" \in OnToken
        /\ "delSess" \in Labels /\ "status" \in Labels
    BY <2>1, Zenon DEF OnToken, Labels
  <2>6. ASSUME pc' = [pc EXCEPT ![p] = "delSess"], job' = [job EXCEPT ![p].op = "expire"]
        PROVE  ProcsKnown'
    <3>1. PICK j : j = [job[p] EXCEPT !.op = "expire"]
      BY Zenon
    <3>2. j \in Jobs /\ j.tok = job[p].tok
      BY <3>1, <1>k DEF Jobs
    <3>3. Knows("delSess", j, issued')
      BY <3>2, <2>1, <2>3, <2>5 DEF Knows, OnNew
    <3>4. job' = [job EXCEPT ![p] = j]
      BY <2>6, <3>1, <1>k DEF ProcsKnown
    <3>5. issued' \in Nat /\ issued <= issued'
      BY <2>3, <1>k
    <3> QED
      BY <2>6, <3>3, <3>4, <3>5, <1>k, Moves, Zenon
  <2>7. ProcsKnown'
    BY <2>3, <2>4, <2>5, <2>6, <1>k, Answers, Goes
  <2> QED
    BY <2>3, <2>7, Zenon DEF Known
<1>3. CASE DelSess(p, ok)
  <2>0. PICK t : t = job[p].tok
    BY Zenon
  <2>a. sess' = sess \/ sess' = [sess EXCEPT ![t] = 0]
    BY <1>3, <2>0, Zenon DEF DelSess
  <2>b. /\ now' = now /\ issued' = issued /\ rec' = rec /\ given' = given /\ closed' = closed
    BY <1>3, Zenon DEF DelSess
  <2>c. StoreKnown'
    BY <2>a, <2>b DEF Known, StoreKnown
  <2>d. Onward
    BY <2>a, <2>b, <1>k DEF Known, StoreKnown, Onward
  <2>1. StoreKnown' /\ Onward /\ issued' = issued
    BY <2>b, <2>c, <2>d
  <2>2. Goto(p, "delRefresh") /\ pc[p] \in OnToken /\ "delRefresh" \in OnToken
        /\ "delRefresh" \in Labels
    BY <1>3 DEF DelSess, OnToken, Labels
  <2>3. ProcsKnown'
    BY <2>1, <2>2, <1>k, Goes
  <2> QED
    BY <2>1, <2>3 DEF Known
<1>4. CASE DelRefresh(p, ok)
  <2>1. pc[p] = "delRefresh" /\ job[p].tok \in 1..issued
    BY <1>4, <1>k DEF DelRefresh, Knows, OnToken
  <2>2. closed' \in {closed, closed \cup {job[p].tok}}
    BY <1>4 DEF DelRefresh
  <2>a. now' = now /\ issued' = issued /\ rec' = rec /\ sess' = sess /\ given' = given
    BY <1>4 DEF DelRefresh
  <2>b. StoreKnown'
    BY <2>1, <2>2, <2>a DEF Known, StoreKnown
  <2>c. Onward
    BY <2>a, <1>k DEF Known, StoreKnown, Onward
  <2>3. StoreKnown' /\ Onward /\ issued' = issued
    BY <2>a, <2>b, <2>c
  <2>4. Answer(p) \/ Goto(p, "persist")
    BY <1>4 DEF DelRefresh
  <2>5. pc[p] \in OnToken /\ "persist" \in Labels
    BY <2>1 DEF OnToken, Labels
  <2>6. ProcsKnown'
    BY <2>3, <2>4, <2>5, <1>k, Answers, Goes
  <2> QED
    BY <2>3, <2>6 DEF Known
<1>5. CASE PersistRefresh(p, ok)
  <2>1. pc[p] = "persistRefresh" /\ job[p].new \in 1..issued
    BY <1>5, <1>k DEF PersistRefresh, Knows, OnNew
  <2>2. given' \in {given, given \cup {job[p].new}}
    BY <1>5 DEF PersistRefresh
  <2>3. StoreKnown' /\ Onward /\ issued' = issued
    BY <1>5, <2>1, <2>2 DEF PersistRefresh, Known, StoreKnown, Onward, Tokens
  <2>4. Answer(p) \/ Goto(p, "reread")
    BY <1>5 DEF PersistRefresh
  <2>5. pc[p] \in OnNew /\ "reread" \in OnNew /\ "reread" \in Labels
    BY <2>1 DEF OnNew, Labels
  <2>6. ProcsKnown'
    BY <2>3, <2>4, <2>5, <1>k, Answers, Goes
  <2> QED
    BY <2>3, <2>6 DEF Known
<1> QED
  BY <1>1, <1>2, <1>3, <1>4, <1>5, PersistKnown

\* The queries.
LEMMA DatabaseKnown ==
    ASSUME Known, NEW p \in Procs, NEW ok \in BOOLEAN, Status(p, ok) \/ Reread(p, ok)
    PROVE  Known' /\ Onward
<1>k. /\ ProcsKnown /\ issued \in Nat /\ Knows(pc[p], job[p], issued)
  BY DEF Known, StoreKnown, ProcsKnown
<1>1. CASE Status(p, ok)
  <2>1. StoreKnown' /\ Onward /\ issued' = issued
    BY <1>1 DEF Status, Known, StoreKnown, Onward, Tokens
  <2>2. Answer(p) \/ Goto(p, "delSess")
    BY <1>1 DEF Status, Rotation
  <2>3. pc[p] \in OnToken /\ "delSess" \in OnToken /\ "delSess" \in Labels
    BY <1>1 DEF Status, OnToken, Labels
  <2>4. ProcsKnown'
    BY <2>1, <2>2, <2>3, <1>k, Answers, Goes
  <2> QED
    BY <2>1, <2>4 DEF Known
<1>2. CASE Reread(p, ok)
  <2>1. job[p].new \in 1..issued /\ given' \in {given, given \cup {job[p].new}}
    BY <1>2, <1>k DEF Reread, Knows, OnNew
  <2>2. StoreKnown' /\ Onward /\ issued' = issued
    BY <1>2, <2>1 DEF Reread, Known, StoreKnown, Onward, Tokens
  <2>3. Answer(p)
    BY <1>2 DEF Reread
  <2>4. ProcsKnown'
    BY <2>2, <2>3, <1>k, Answers
  <2> QED
    BY <2>2, <2>4 DEF Known
<1> QED
  BY <1>1, <1>2

\* Every step.
LEMMA StepKnown == Known /\ [Next]_vars => Known' /\ Onward
<1> SUFFICES ASSUME Known, [Next]_vars PROVE Known' /\ Onward
  OBVIOUS
<1>n. Nobody \in Users \cup {Nobody} /\ 0 \in Nat /\ Tokens \subseteq Nat
  BY SessionAssumption DEF Tokens
<1>1. ASSUME NEW p \in Procs, Redis(p) PROVE Known' /\ Onward
  <2>1. PICK ok \in BOOLEAN :
           \/ Lookup(p, ok) \/ Get(p, ok) \/ DelSess(p, ok) \/ DelRefresh(p, ok)
           \/ Persist(p, ok) \/ PersistRefresh(p, ok)
    BY <1>1, Zenon DEF Redis, Outcomes
  <2> QED
    BY <2>1, RedisKnown
<1>2. ASSUME NEW p \in Procs, NEW i \in Tokens,
             RefreshStart(p, i) \/ Logout(p, i) \/ UserDetail(p, i)
      PROVE  Known' /\ Onward
  <2>1. /\ i \in given /\ i \in Nat /\ "lookup" \in OnToken /\ "get" \in OnToken
        /\ \/ Start(p, "refresh", i, Nobody, "lookup")
           \/ Start(p, "logout", i, Nobody, "get")
           \/ Start(p, "detail", i, Nobody, "get")
    BY <1>2, <1>n DEF RefreshStart, Logout, UserDetail, OnToken
  <2> HIDE DEF Nobody
  <2> QED
    BY <2>1, <1>n, Starts
<1>3. ASSUME NEW p \in Procs, GuestLogin(p) \/ \E u \in Users : Login(p, u)
      PROVE  Known' /\ Onward
  <2>1. PICK u \in Users \cup {Nobody} :
           Start(p, "guest", 0, u, "persist") \/ Start(p, "login", 0, u, "persist")
    BY <1>3 DEF GuestLogin, Login
  <2> QED
    BY <2>1, <1>n, Starts
<1>4. ASSUME NEW p \in Procs, Database(p) PROVE Known' /\ Onward
  <2>1. PICK ok \in BOOLEAN : Status(p, ok) \/ Reread(p, ok)
    BY <1>4, Zenon DEF Database, Outcomes
  <2> QED
    BY <2>1, DatabaseKnown
<1>5. CASE Tick
  <2>1. now \in Nat /\ now' = now + 1 /\ issued' = issued /\ rec' = rec /\ given' = given
        /\ closed' = closed /\ pc' = pc /\ job' = job /\ 1..issued \subseteq Tokens
    BY <1>5, SessionAssumption DEF Tick, Known, StoreKnown, Tokens
  <2>2. sess' \in [Tokens -> Nat] /\ \A i \in Tokens : sess[i] = 0 => sess'[i] = 0
    BY <1>5 DEF Tick, Known, StoreKnown
  <2>3. StoreKnown' /\ Onward
    BY <2>1, <2>2 DEF Known, StoreKnown, Onward
  <2> QED
    BY <2>1, <2>3, Stays DEF Known
<1>6. CASE vars' = vars \/ \E u \in Users : Ban(u)
  <2>1. /\ now' = now /\ issued' = issued /\ rec' = rec /\ sess' = sess /\ given' = given
        /\ closed' = closed /\ pc' = pc /\ job' = job
    BY <1>6 DEF vars, Ban
  <2>2. StoreKnown' /\ Onward
    BY <2>1 DEF Known, StoreKnown, Onward
  <2> QED
    BY <2>1, <2>2, Stays DEF Known
<1>7. \/ \E p \in Procs : Redis(p) \/ Database(p) \/ GuestLogin(p) \/ \E u \in Users : Login(p, u)
      \/ \E p \in Procs, i \in Tokens : RefreshStart(p, i) \/ Logout(p, i) \/ UserDetail(p, i)
      \/ Tick \/ vars' = vars \/ \E u \in Users : Ban(u)
  BY DEF Next, Request, Refresh
<1> QED
  BY <1>1, <1>2, <1>3, <1>4, <1>5, <1>6, <1>7

\* Refresh and Revoke: a session that has left Redis never comes back, in a
\* system of any size and with any number of requests in flight.
THEOREM RevokedForGood == Spec => RevokedStaysRevoked
<1>1. Known /\ [Next]_vars => Known'
  BY StepKnown
<1>2. Known /\ [Next]_vars => [\A i \in 1..issued : sess[i] = 0 => sess'[i] = 0]_vars
  BY StepKnown DEF Onward
<1> QED
  BY InitKnown, <1>1, <1>2, PTL DEF Spec, RevokedStaysRevoked

-----------------------------------------------------------------------------
(* Logout                                                                  *)

\* No later Get finds token i.
Dead(i) == sess[i] = 0 \/ ~ (now <= rec[i].accessExp)

\* A logout that has made its first DEL has made the token dead.
Passed(p) ==
    pc[p] = "delRefresh" /\ job[p].op = "logout" => Dead(job[p].tok) \/ job[p].tok \in failed

ClosedDead == \A i \in closed : Dead(i) \/ i \in failed

LogoutInv == ClosedDead /\ \A p \in Procs : Passed(p)

\* A dead token stays dead, since no step writes a record or a key that was
\* issued before.
LEMMA DeadStays ==
    ASSUME Known, Known', Onward, NEW i \in 1..issued, Dead(i)
    PROVE  Dead(i)'
<1>1. now \in Nat /\ now' \in Nat /\ now <= now' /\ rec'[i] = rec[i] /\ i \in Tokens
  BY SessionAssumption DEF Known, StoreKnown, Onward, Tokens
<1>2. rec[i].accessExp \in Nat
  BY <1>1 DEF Known, StoreKnown, Records
<1>3. sess[i] = 0 => sess'[i] = 0
  BY DEF Onward
<1> QED
  BY <1>1, <1>2, <1>3 DEF Dead

\* Closed tokens stay dead while no logout is answered.
LEMMA ClosedStays ==
    ASSUME Known, Known', Onward, failed \subseteq failed', ClosedDead, closed' = closed
    PROVE  ClosedDead'
<1>1. \A i \in closed : i \in 1..issued
  BY DEF Known, StoreKnown
<1>2. \A i \in closed : Dead(i) => Dead(i)'
  BY <1>1, DeadStays
<1> QED
  BY <1>2 DEF ClosedDead

\* A request other than the one that moves.
LEMMA PassedStays ==
    ASSUME Known, Known', Onward, failed \subseteq failed', NEW q \in Procs, Passed(q),
           pc'[q] = pc[q], job'[q] = job[q]
    PROVE  Passed(q)'
<1> SUFFICES ASSUME pc[q] = "delRefresh", job[q].op = "logout"
             PROVE  Dead(job[q].tok)' \/ job[q].tok \in failed'
  BY DEF Passed, Dead
<1>1. PICK t : t = job[q].tok
  BY Zenon
<1>2. t \in 1..issued
  BY <1>1 DEF Known, ProcsKnown, Knows, OnToken
<1>3. Dead(t) \/ t \in failed
  BY <1>1 DEF Passed, Dead
<1>4. Dead(t)' \/ t \in failed'
  BY <1>2, <1>3, DeadStays
<1> QED
  BY <1>1, <1>4 DEF Dead

\* A step of p that is not its first DEL leaves every request as it should be.
LEMMA PassedOthers ==
    ASSUME Known, Known', Onward, failed \subseteq failed', \A q \in Procs : Passed(q),
           NEW p \in Procs, pc'[p] # "delRefresh",
           \A q \in Procs \ {p} : pc'[q] = pc[q] /\ job'[q] = job[q]
    PROVE  \A q \in Procs : Passed(q)'
<1>1. Passed(p)'
  BY DEF Passed
<1>2. ASSUME NEW q \in Procs \ {p} PROVE Passed(q)'
  BY PassedStays
<1> QED
  BY <1>1, <1>2

\* A step that moves nobody, or only starts, answers or queries.
LEMMA LogoutElsewhere ==
    ASSUME Known, Known', Onward, failed' = failed, LogoutInv, closed' = closed,
           \/ pc' = pc /\ job' = job
           \/ \E p \in Procs : /\ pc'[p] # "delRefresh"
                               /\ \A q \in Procs \ {p} : pc'[q] = pc[q] /\ job'[q] = job[q]
    PROVE  LogoutInv'
<1>1. ClosedDead'
  BY ClosedStays DEF LogoutInv
<1>2. CASE pc' = pc /\ job' = job
  <2>1. \A q \in Procs : Passed(q)'
    BY <1>2, PassedStays DEF LogoutInv
  <2> QED
    BY <1>1, <2>1 DEF LogoutInv
<1>3. CASE \E p \in Procs : /\ pc'[p] # "delRefresh"
                            /\ \A q \in Procs \ {p} : pc'[q] = pc[q] /\ job'[q] = job[q]
  <2>1. \A q \in Procs : Passed(q)'
    BY <1>3, PassedOthers DEF LogoutInv
  <2> QED
    BY <1>1, <2>1 DEF LogoutInv
<1> QED
  BY <1>2, <1>3

\* A Redis command, which may be the one that ends a logout.
LEMMA LogoutRedis ==
    ASSUME Known, Known', Onward, LogoutInv, NEW p \in Procs, Redis(p)
    PROVE  LogoutInv'
<1>1. PICK ok \in BOOLEAN :
         /\ \/ Lookup(p, ok) \/ Get(p, ok) \/ DelSess(p, ok) \/ DelRefresh(p, ok)
            \/ Persist(p, ok) \/ PersistRefresh(p, ok)
         /\ failed' = IF ok THEN failed ELSE failed \cup {job[p].tok}
  BY Zenon DEF Redis, Outcomes
<1>2. failed \subseteq failed' /\ (~ ok => job[p].tok \in failed')
  BY <1>1, Zenon
<1>3. pc \in [Procs -> Labels] /\ job \in [Procs -> Jobs] /\ Knows(pc[p], job[p], issued)
  BY Zenon DEF Known, ProcsKnown
<1>4. \A q \in Procs \ {p} : pc'[q] = pc[q] /\ job'[q] = job[q]
  BY <1>1, <1>3, Zenon DEF Lookup, Get, DelSess, DelRefresh, Persist, PersistRefresh, Goto, Answer
<1>5. PICK t : t = job[p].tok
  BY Zenon
<1>6. CASE Lookup(p, ok) \/ Persist(p, ok) \/ PersistRefresh(p, ok)
  <2>1. closed' = closed /\ pc'[p] # "delRefresh"
    BY <1>6, <1>3 DEF Lookup, Persist, PersistRefresh, Goto, Answer
  <2> QED
    BY <2>1, <1>2, <1>4, ClosedStays, PassedOthers DEF LogoutInv
<1>7. CASE Get(p, ok)
  <2>1. pc'[p] # "delRefresh"
    BY <1>7, <1>3, Zenon DEF Get, Goto, Answer
  <2>2. \/ closed' = closed
        \/ closed' = closed \cup {t} /\ ~ (ok /\ Found(t))
    BY <1>7, <1>5, Zenon DEF Get
  <2>3. t \in 1..issued
    BY <1>7, <1>5, <1>3, Zenon DEF Get, Knows, OnToken
  <2>4. ASSUME closed' = closed \cup {t}, ~ (ok /\ Found(t)) PROVE ClosedDead'
    <3>1. Dead(t) \/ t \in failed'
      BY <2>4, <1>2, <1>5 DEF Found, Dead
    <3>2. Dead(t)' \/ t \in failed'
      BY <3>1, <2>3, DeadStays
    <3>3. \A i \in closed : i \in 1..issued
      BY DEF Known, StoreKnown
    <3>4. \A i \in closed : Dead(i)' \/ i \in failed'
      BY <3>3, <1>2, DeadStays DEF LogoutInv, ClosedDead
    <3> QED
      BY <2>4, <3>2, <3>4 DEF ClosedDead
  <2> QED
    BY <2>1, <2>2, <2>4, <1>2, <1>4, ClosedStays, PassedOthers, Zenon DEF LogoutInv
<1>8. CASE DelSess(p, ok)
  <2>1. closed' = closed /\ job' = job
    BY <1>8 DEF DelSess, Goto
  <2>2. t \in 1..issued
    BY <1>8, <1>5, <1>3 DEF DelSess, Knows, OnToken
  <2>3. ok => sess' = [sess EXCEPT ![t] = 0]
    BY <1>8, <1>5 DEF DelSess
  <2>4. ok => sess'[t] = 0
    BY <2>2, <2>3, SessionAssumption DEF Known, StoreKnown, Tokens
  <2>5. Passed(p)'
    BY <2>1, <2>4, <1>2, <1>5 DEF Passed, Dead
  <2>6. \A q \in Procs \ {p} : Passed(q)'
    BY <1>2, <1>4, PassedStays DEF LogoutInv
  <2>7. ClosedDead'
    BY <2>1, <1>2, ClosedStays DEF LogoutInv
  <2> QED
    BY <2>5, <2>6, <2>7 DEF LogoutInv
<1>9. CASE DelRefresh(p, ok)
  <2>1. pc'[p] # "delRefresh" /\ pc[p] = "delRefresh"
    BY <1>9, <1>3 DEF DelRefresh, Goto, Answer
  <2>2. \/ closed' = closed
        \/ closed' = closed \cup {t} /\ job[p].op = "logout"
    BY <1>9, <1>5 DEF DelRefresh
  <2>3. t \in 1..issued
    BY <2>1, <1>5, <1>3 DEF Knows, OnToken
  <2>4. ASSUME closed' = closed \cup {t}, job[p].op = "logout" PROVE ClosedDead'
    <3>1. Dead(t) \/ t \in failed'
      BY <2>1, <2>4, <1>2, <1>5 DEF LogoutInv, Passed, Dead
    <3>2. Dead(t)' \/ t \in failed'
      BY <3>1, <2>3, DeadStays
    <3>3. \A i \in closed : i \in 1..issued
      BY DEF Known, StoreKnown
    <3>4. \A i \in closed : Dead(i)' \/ i \in failed'
      BY <3>3, <1>2, DeadStays DEF LogoutInv, ClosedDead
    <3> QED
      BY <2>4, <3>2, <3>4 DEF ClosedDead
  <2> QED
    BY <2>1, <2>2, <2>4, <1>2, <1>4, ClosedStays, PassedOthers DEF LogoutInv
<1> QED
  BY <1>1, <1>6, <1>7, <1>8, <1>9

\* handleLogout: once a logout is answered no request is served with that
\* token, unless a Redis command for it failed; in a system of any size.
THEOREM LogoutForGood == Spec => []LogoutSticks
<1>1. Init => LogoutInv
  BY DEF Init, LogoutInv, ClosedDead, Passed
<1>2. ASSUME Known, LogoutInv, [Next]_vars PROVE LogoutInv'
  <2>1. Known' /\ Onward /\ pc \in [Procs -> Labels] /\ job \in [Procs -> Jobs]
    BY <1>2, StepKnown DEF Known, ProcsKnown
  <2>2. CASE \E p \in Procs : Redis(p)
    BY <1>2, <2>1, <2>2, LogoutRedis
  <2>3. CASE vars' = vars \/ ((Tick \/ \E u \in Users : Ban(u)) /\ UNCHANGED history)
    <3>1. pc' = pc /\ job' = job /\ closed' = closed /\ failed' = failed
      BY <2>3 DEF vars, history, Tick, Ban
    <3> QED
      BY <1>2, <2>1, <3>1, LogoutElsewhere
  <2>4. CASE \E p \in Procs : Database(p) /\ UNCHANGED history
    <3>1. PICK p \in Procs, ok \in BOOLEAN : Status(p, ok) \/ Reread(p, ok)
      BY <2>4, Zenon DEF Database, Outcomes
    <3>2. /\ pc'[p] # "delRefresh" /\ closed' = closed /\ failed' = failed
          /\ \A q \in Procs \ {p} : pc'[q] = pc[q] /\ job'[q] = job[q]
      BY <2>1, <2>4, <3>1 DEF Status, Rotation, Reread, Goto, Answer, history
    <3> QED
      BY <1>2, <2>1, <3>2, LogoutElsewhere
  <2>5. CASE /\ failed' = failed
             /\ \E p \in Procs : \/ \E i \in Tokens : RefreshStart(p, i)
                                 \/ Request(p)
    <3>1. PICK p \in Procs : (\E i \in Tokens : RefreshStart(p, i)) \/ Request(p)
      BY <2>5
    <3>2. /\ pc'[p] # "delRefresh" /\ closed' = closed
          /\ \A q \in Procs \ {p} : pc'[q] = pc[q] /\ job'[q] = job[q]
      BY <2>1, <3>1, Zenon DEF RefreshStart, Request, Start, GuestLogin, Login, Logout,
                               UserDetail
    <3> QED
      BY <1>2, <2>1, <2>5, <3>2, LogoutElsewhere
  <2>6. \/ \E p \in Procs : Redis(p)
        \/ vars' = vars \/ ((Tick \/ \E u \in Users : Ban(u)) /\ UNCHANGED history)
        \/ \E p \in Procs : Database(p) /\ UNCHANGED history
        \/ /\ failed' = failed
           /\ \E p \in Procs : (\E i \in Tokens : RefreshStart(p, i)) \/ Request(p)
    BY <1>2 DEF Next, Refresh, history
  <2> QED
    BY <2>2, <2>3, <2>4, <2>5, <2>6
<1>3. Known /\ [Next]_vars => Known'
  BY StepKnown
<1>4. LogoutInv => LogoutSticks
  BY DEF LogoutInv, ClosedDead, LogoutSticks, Found, Dead
<1> QED
  BY InitKnown, <1>1, <1>2, <1>3, <1>4, PTL DEF Spec

-----------------------------------------------------------------------------
(* Rotation                                                                *)

\* Token t has been exchanged for another one.
Parent(t) == \E k \in 1..issued : rec[k].parent = t
Spent(t) == t \in raced \cup failed

Refreshes(p, t) == job[p].op = "refresh" /\ job[p].tok = t

\* Two requests that refresh one token are noted.
OneEach ==
    \A p, q \in Procs, t \in 1..issued : Refreshes(p, t) /\ Refreshes(q, t) => p = q \/ t \in raced

\* A token that has been exchanged has lost its session.
ParentDead == \A t \in 1..issued : Parent(t) => sess[t] = 0 \/ t \in failed

\* A refresh of t that is about to issue: the session of t is deleted, and no
\* other token has been issued for t.
Rotating(p, t) ==
    /\ pc[p] \in {"delRefresh", "persist"} => sess[t] = 0 \/ t \in failed
    /\ pc[p] \in {"status", "delSess", "delRefresh", "persist"} => ~ Parent(t) \/ Spent(t)

Orderly(p) ==
    /\ pc[p] = "persist" => job[p].op = "refresh" \/ job[p].tok = 0
    /\ \A t \in 1..issued : Refreshes(p, t) => Rotating(p, t)

Parents == \A k \in 1..issued : rec[k].parent \in 0..issued

RotationInv ==
    /\ Parents /\ OneEach /\ ParentDead
    /\ \A p \in Procs : Orderly(p)
    /\ RotationOneShotAlone

\* No request but those of M moves, and no request starts to refresh.
LEMMA OneStays ==
    ASSUME OneEach, issued' = issued, raced \subseteq raced', NEW M \in SUBSET Procs,
           \A q \in Procs \ M : job'[q] = job[q],
           \A q \in M, t \in 1..issued : Refreshes(q, t)' => Refreshes(q, t)
    PROVE  OneEach'
<1>1. \A q \in Procs, t \in 1..issued : Refreshes(q, t)' => Refreshes(q, t)
  BY DEF Refreshes
<1> QED
  BY <1>1 DEF OneEach

\* A step that issues nothing: what is left to show is about the requests
\* that move, M.
LEMMA RotationQuiet ==
    ASSUME RotationInv, Onward, issued' = issued, rec' = rec, raced \subseteq raced',
           failed \subseteq failed', NEW M \in SUBSET Procs,
           \A q \in Procs \ M : pc'[q] = pc[q] /\ job'[q] = job[q],
           OneEach', \A q \in M : Orderly(q)'
    PROVE  RotationInv'
<1>1. \A t : Parent(t)' <=> Parent(t)
  BY DEF Parent
<1>2. \A t : Spent(t) => Spent(t)'
  BY DEF Spent
<1>3. \A t \in 1..issued : sess[t] = 0 => sess'[t] = 0
  BY DEF Onward
<1>4. Parents' /\ ParentDead'
  BY <1>1, <1>3 DEF RotationInv, Parents, ParentDead
<1>5. \A q \in Procs \ M : Orderly(q)'
  BY <1>1, <1>2, <1>3, Zenon DEF RotationInv, Orderly, Rotating, Refreshes
<1>6. RotationOneShotAlone'
  BY Zenon DEF RotationInv, RotationOneShotAlone, Exchanged
<1> QED
  BY <1>4, <1>5, <1>6 DEF RotationInv

\* persist: the one step that makes an exchange.
LEMMA RotationPersist ==
    ASSUME Known, Known', Onward, RotationInv, raced' = raced, failed \subseteq failed',
           NEW p \in Procs, NEW ok \in BOOLEAN, Persist(p, ok),
           \A q \in Procs \ {p} : pc'[q] = pc[q] /\ job'[q] = job[q]
    PROVE  RotationInv'
<1>1. PICK i : i = issued + 1
  BY Zenon
<1>2. /\ issued \in Nat /\ issued' = i /\ i \in Tokens /\ pc[p] = "persist"
      /\ rec' = [rec EXCEPT ![i] = NewSession(p)] /\ rec \in [Tokens -> Records]
      /\ pc \in [Procs -> Labels] /\ job \in [Procs -> Jobs] /\ Knows(pc[p], job[p], issued)
  <2>1. /\ issued \in 0..MaxTokens /\ issued < MaxTokens /\ issued' = i /\ pc[p] = "persist"
        /\ rec' = [rec EXCEPT ![i] = NewSession(p)] /\ rec \in [Tokens -> Records]
    BY <1>1, Zenon DEF Persist, FreshToken, Known, StoreKnown
  <2>2. pc \in [Procs -> Labels] /\ job \in [Procs -> Jobs] /\ Knows(pc[p], job[p], issued)
    BY Zenon DEF Known, ProcsKnown
  <2>3. MaxTokens \in Nat
    BY SessionAssumption, Zenon
  <2>4. issued \in Nat /\ i \in Tokens
    BY <1>1, <2>1, <2>3 DEF Tokens
  <2> QED
    BY <2>1, <2>2, <2>4, Zenon
<1>3. PICK t : t = job[p].tok
  BY Zenon
<1>4. rec'[i].parent = t /\ \A k \in 1..issued : rec'[k] = rec[k]
  BY <1>2, <1>3, Zenon DEF NewSession, Onward
<1>5. /\ t # 0 => t \in 1..issued /\ Refreshes(p, t) /\ Rotating(p, t)
      /\ t \in 0..issued
  <2>1. Orderly(p)
    BY Zenon DEF RotationInv
  <2>2. job[p].op = "refresh" \/ t = 0
    BY <2>1, <1>2, <1>3, Zenon DEF Orderly
  <2>3. job[p].op = "refresh" => t \in 1..issued /\ Refreshes(p, t)
    BY <1>2, <1>3 DEF Knows, Refreshes
  <2>4. t \in 0..issued /\ (t # 0 => t \in 1..issued)
    <3>1. t \in 1..issued \/ t = 0
      BY <2>2, <2>3, Zenon
    <3> QED
      BY <3>1, <1>2
  <2> QED
    BY <2>1, <2>2, <2>3, <2>4, Zenon DEF Orderly
<1>6. 1..issued' = 1..issued \cup {i} /\ i \notin 1..issued
  BY <1>1, <1>2
<1>7. \A x : Parent(x)' <=> Parent(x) \/ x = t
  BY <1>4, <1>6, Zenon DEF Parent
<1>8. \A x \in 1..issued : sess[x] = 0 => sess'[x] = 0
  BY Zenon DEF Onward
<1>9. Parents'
  <2>1. \A k \in 1..issued' : rec'[k].parent \in 0..issued
    BY <1>4, <1>5, <1>6, Zenon DEF RotationInv, Parents
  <2>2. 0..issued \subseteq 0..issued'
    BY <1>1, <1>2
  <2> QED
    BY <2>1, <2>2, Zenon DEF Parents
<1>10. ~ Parent(i) /\ t # i
  BY <1>1, <1>2, <1>5 DEF RotationInv, Parents, Parent
<1>11. ParentDead'
  <2>1. ASSUME NEW x \in 1..issued, Parent(x) \/ x = t PROVE sess'[x] = 0 \/ x \in failed'
    <3>1. x = t => sess[t] = 0 \/ t \in failed
      <4>1. x # 0
        BY <1>2
      <4> QED
        BY <4>1, <1>2, <1>5, Zenon DEF Rotating
    <3> QED
      BY <2>1, <3>1, <1>8, Zenon DEF RotationInv, ParentDead
  <2> QED
    BY <2>1, <1>6, <1>7, <1>10, Zenon DEF ParentDead
<1>12. pc'[p] \in {"idle", "persistRefresh"} /\ job'[p].tok = 0
  <2>1. \/ pc' = [pc EXCEPT ![p] = "idle"] /\ job' = [job EXCEPT ![p] = NoJob]
        \/ /\ pc' = [pc EXCEPT ![p] = "persistRefresh"]
           /\ job' = [job EXCEPT ![p] = [NoJob EXCEPT !.op = job[p].op, !.new = issued + 1]]
    BY DEF Persist, Answer, FreshToken
  <2>2. PICK j : j = [NoJob EXCEPT !.op = job[p].op, !.new = issued + 1]
    BY Zenon
  <2>3. j.tok = 0 /\ NoJob.tok = 0
    BY <2>2, Zenon DEF NoJob
  <2>4. \/ pc' = [pc EXCEPT ![p] = "idle"] /\ job' = [job EXCEPT ![p] = NoJob]
        \/ pc' = [pc EXCEPT ![p] = "persistRefresh"] /\ job' = [job EXCEPT ![p] = j]
    BY <2>1, <2>2, Zenon
  <2> QED
    BY <2>3, <2>4, <1>2, Zenon
<1>13. ASSUME NEW q \in Procs, NEW x \in 1..issued', Refreshes(q, x)'
       PROVE  q # p /\ x \in 1..issued /\ Refreshes(q, x)
  <2>1. q # p
    <3>1. x # 0
      BY <1>1, <1>2
    <3> QED
      BY <3>1, <1>12, <1>13, Zenon DEF Refreshes
  <2>2. job'[q] = job[q] /\ Refreshes(q, x)
    BY <2>1, <1>13, Zenon DEF Refreshes
  <2>3. x # i
    <3>1. job[q].tok \in 0..issued
      BY Zenon DEF Known, ProcsKnown, Knows
    <3> QED
      BY <3>1, <2>2, <1>1, <1>2 DEF Refreshes
  <2> QED
    BY <2>1, <2>2, <2>3, <1>6, Zenon
<1>14. OneEach'
  BY <1>13, Zenon DEF RotationInv, OneEach
<1>15. \A q \in Procs : Orderly(q)'
  <2>1. Orderly(p)'
    BY <1>12, <1>13, Zenon DEF Orderly
  <2>2. ASSUME NEW q \in Procs \ {p} PROVE Orderly(q)'
    <3>1. pc'[q] = "persist" => job'[q].op = "refresh" \/ job'[q].tok = 0
      BY Zenon DEF RotationInv, Orderly
    <3>2. ASSUME NEW x \in 1..issued', Refreshes(q, x)' PROVE Rotating(q, x)'
      <4>1. x \in 1..issued /\ Refreshes(q, x) /\ Rotating(q, x)
        BY <3>2, <1>13, Zenon DEF RotationInv, Orderly
      <4>2. x = t => x \in raced
        <5>1. x # 0
          BY <4>1, <1>2
        <5> QED
          BY <4>1, <5>1, <1>5, Zenon DEF RotationInv, OneEach
      <4> QED
        BY <4>1, <4>2, <1>7, <1>8, Zenon DEF Rotating, Spent
    <3> QED
      BY <3>1, <3>2, Zenon DEF Orderly
  <2> QED
    BY <2>1, <2>2, Zenon
<1>16. RotationOneShotAlone'
  <2>1. ASSUME NEW k \in 1..issued, rec[k].parent = t, t # 0 PROVE Spent(t)
    BY <2>1, <1>2, <1>5, Zenon DEF Parent, Rotating
  <2>2. ASSUME NEW k \in 1..issued', NEW l \in 1..issued', Exchanged(k, l)'
        PROVE  rec'[k].parent \in raced' \cup failed'
    <3>1. CASE k \in 1..issued /\ l \in 1..issued
      <4>1. Exchanged(k, l)
        BY <3>1, <2>2, <1>4 DEF Exchanged
      <4> QED
        BY <4>1, <3>1, <1>4, Zenon DEF RotationInv, RotationOneShotAlone
    <3>2. CASE k = i /\ l \in 1..issued
      BY <3>2, <2>1, <2>2, <1>4 DEF Exchanged, Spent
    <3>3. CASE l = i /\ k \in 1..issued
      BY <3>3, <2>1, <2>2, <1>4 DEF Exchanged, Spent
    <3> QED
      BY <3>1, <3>2, <3>3, <2>2, <1>6, Zenon DEF Exchanged
  <2> QED
    BY <2>2, Zenon DEF RotationOneShotAlone
<1> QED
  BY <1>9, <1>11, <1>14, <1>15, <1>16, Zenon DEF RotationInv

\* The Redis commands.
LEMMA RotationRedis ==
    ASSUME Known, Known', Onward, RotationInv, NEW p \in Procs, Redis(p)
    PROVE  RotationInv'
<1>1. PICK ok \in BOOLEAN :
         /\ \/ Lookup(p, ok) \/ Get(p, ok) \/ DelSess(p, ok) \/ DelRefresh(p, ok)
            \/ Persist(p, ok) \/ PersistRefresh(p, ok)
         /\ failed' = IF ok THEN failed ELSE failed \cup {job[p].tok}
         /\ raced' = raced
  BY Zenon DEF Redis, Outcomes
<1>2. failed \subseteq failed' /\ (~ ok => job[p].tok \in failed') /\ raced \subseteq raced'
  BY <1>1, Zenon
<1>3. /\ pc \in [Procs -> Labels] /\ job \in [Procs -> Jobs] /\ Knows(pc[p], job[p], issued)
      /\ Orderly(p) /\ issued \in Nat
  BY DEF Known, StoreKnown, ProcsKnown, RotationInv
<1>4. \A q \in Procs \ {p} : pc'[q] = pc[q] /\ job'[q] = job[q]
  BY <1>1, <1>3, Zenon DEF Lookup, Get, DelSess, DelRefresh, Persist, PersistRefresh, Goto, Answer
<1>5. ASSUME ~ Persist(p, ok)
      PROVE  issued' = issued /\ rec' = rec /\ \A t \in 1..issued : Refreshes(p, t)' => Refreshes(p, t)
  <2>1. issued' = issued /\ rec' = rec
    BY <1>1, <1>5, Zenon DEF Lookup, Get, DelSess, DelRefresh, PersistRefresh
  <2>2. \/ job' = job \/ job' = [job EXCEPT ![p] = NoJob] \/ job' = [job EXCEPT ![p].op = "expire"]
    BY <1>1, <1>5, Zenon DEF Lookup, Get, DelSess, DelRefresh, PersistRefresh, Goto, Answer
  <2>3. job' = job \/ job'[p].op # "refresh"
    BY <2>2, <1>3 DEF NoJob, Jobs
  <2> QED
    BY <2>1, <2>3, Zenon DEF Refreshes
<1>6. PICK M \in SUBSET Procs : M = {p}
  BY Zenon
<1>7. ASSUME ~ Persist(p, ok), Orderly(p)' PROVE RotationInv'
  <2>1. \A q \in M, t \in 1..issued : Refreshes(q, t)' => Refreshes(q, t)
    BY <1>5, <1>6, <1>7, Zenon
  <2>2. OneEach'
    BY <2>1, <1>2, <1>4, <1>5, <1>6, <1>7, OneStays, Zenon DEF RotationInv
  <2>3. \A q \in M : Orderly(q)'
    BY <1>6, <1>7, Zenon
  <2> QED
    BY <2>2, <2>3, <1>2, <1>4, <1>5, <1>6, <1>7, RotationQuiet, Zenon
<1>8. CASE Persist(p, ok)
  BY <1>8, <1>1, <1>2, <1>4, RotationPersist, Zenon
<1>9. CASE Lookup(p, ok) \/ PersistRefresh(p, ok)
  <2>1. pc'[p] \in {"idle", "get", "reread"} /\ ~ Persist(p, ok)
    BY <1>9, <1>3 DEF Lookup, PersistRefresh, Goto, Answer, Persist
  <2>2. Orderly(p)'
    BY <2>1, Zenon DEF Orderly, Rotating
  <2> QED
    BY <1>7, <2>1, <2>2, Zenon
<1>10. CASE Get(p, ok)
  <2>1. ~ Persist(p, ok) /\ sess' = sess
    BY <1>10, Zenon DEF Get, Persist
  <2>2. \/ pc'[p] = "idle"
        \/ pc'[p] = "delSess" /\ job'[p].op # "refresh"
        \/ pc'[p] = "status" /\ job' = job /\ (job[p].op = "refresh" => Found(job[p].tok))
    BY <1>10, <1>3, Zenon DEF Get, Goto, Answer, Jobs
  <2>3. ASSUME NEW t \in 1..issued, Refreshes(p, t), Found(t) PROVE ~ Parent(t)' \/ Spent(t)'
    <3>1. ~ Parent(t) \/ t \in failed
      BY <2>3, Zenon DEF Found, RotationInv, ParentDead
    <3> QED
      BY <3>1, <1>2, <1>5, <2>1, Zenon DEF Parent, Spent
  <2>4. Orderly(p)'
    <3>1. pc'[p] # "persist"
      BY <2>2, Zenon
    <3>2. ASSUME NEW t \in 1..issued, Refreshes(p, t)' PROVE Rotating(p, t)'
      <4>1. CASE pc'[p] \in {"idle", "get"}
        BY <4>1, Zenon DEF Rotating
      <4>2. CASE pc'[p] = "status"
        <5>1. Refreshes(p, t) /\ Found(t)
          BY <3>2, <4>2, <2>2 DEF Refreshes
        <5> QED
          BY <4>2, <5>1, <2>3 DEF Rotating
      <4> QED
        BY <4>1, <4>2, <3>2, <2>2, Zenon DEF Refreshes
    <3> QED
      BY <3>1, <3>2, <1>5, <2>1, Zenon DEF Orderly
  <2> QED
    BY <1>7, <2>1, <2>4, Zenon
<1>11. CASE DelSess(p, ok) \/ DelRefresh(p, ok)
  <2>1. ~ Persist(p, ok)
    BY <1>11 DEF DelSess, DelRefresh, Persist
  <2>2. \/ pc'[p] = "idle"
        \/ pc'[p] = "delRefresh" /\ job' = job
        \/ pc'[p] = "persist" /\ job' = job /\ job[p].op = "refresh"
    BY <1>11, <1>3 DEF DelSess, DelRefresh, Goto, Answer
  <2>3. ASSUME NEW t \in 1..issued, Refreshes(p, t)
        PROVE  (sess'[t] = 0 \/ t \in failed') /\ (~ Parent(t)' \/ Spent(t)')
    <3>1. Rotating(p, t) /\ pc[p] \in {"delSess", "delRefresh"}
      BY <2>3, <1>3, <1>11 DEF Orderly, DelSess, DelRefresh
    <3>2. ~ Parent(t)' \/ Spent(t)'
      BY <3>1, <1>2, <1>5, <2>1, Zenon DEF Rotating, Parent, Spent
    <3>3. CASE DelRefresh(p, ok)
      BY <3>1, <3>2, <3>3, <1>2, Zenon DEF Rotating, DelRefresh
    <3>4. CASE DelSess(p, ok)
      <4>1. t = job[p].tok /\ t \in Tokens /\ sess \in [Tokens -> Nat]
        BY <2>3, SessionAssumption DEF Refreshes, Known, StoreKnown, Tokens
      <4>2. ok => sess' = [sess EXCEPT ![t] = 0]
        BY <3>4, <4>1, Zenon DEF DelSess
      <4>3. ok => sess'[t] = 0
        BY <4>1, <4>2, Zenon
      <4> QED
        BY <3>2, <4>1, <4>3, <1>2, Zenon
    <3> QED
      BY <1>11, <3>3, <3>4
  <2>4. Orderly(p)'
    <3>1. pc'[p] = "persist" => job'[p].op = "refresh"
      BY <2>2, Zenon
    <3>2. ASSUME NEW t \in 1..issued, Refreshes(p, t)' PROVE Rotating(p, t)'
      BY <3>2, <2>1, <2>2, <2>3, <1>5, Zenon DEF Rotating
    <3> QED
      BY <3>1, <3>2, <1>5, <2>1, Zenon DEF Orderly
  <2> QED
    BY <1>7, <2>1, <2>4
<1> QED
  BY <1>1, <1>8, <1>9, <1>10, <1>11

\* A refresh starts: a second one of the same token is noted.
LEMMA RotationStart ==
    ASSUME Known, Known', Onward, RotationInv, NEW p \in Procs, NEW i \in Tokens, Refresh(p, i)
    PROVE  RotationInv'
<1>1. /\ pc' = [pc EXCEPT ![p] = "lookup"] /\ issued' = issued /\ rec' = rec /\ failed' = failed
      /\ raced' = IF Refreshing(i) THEN raced \cup {i} ELSE raced
      /\ job' = [job EXCEPT ![p] = [NoJob EXCEPT !.op = "refresh", !.tok = i, !.uid = Nobody]]
  BY DEF Refresh, RefreshStart, Start
<1>2. pc \in [Procs -> Labels] /\ job \in [Procs -> Jobs]
  BY DEF Known, ProcsKnown
<1>3. /\ raced \subseteq raced' /\ pc'[p] = "lookup" /\ job'[p].tok = i
      /\ \A q \in Procs \ {p} : pc'[q] = pc[q] /\ job'[q] = job[q]
  BY <1>1, <1>2 DEF NoJob
<1>4. OneEach'
  <2> SUFFICES ASSUME NEW q \in Procs, NEW r \in Procs, NEW t \in 1..issued,
                      Refreshes(q, t)', Refreshes(r, t)', q # r
               PROVE  t \in raced'
    BY <1>1 DEF OneEach
  <2>1. CASE q # p /\ r # p
    BY <2>1, <1>3, Zenon DEF RotationInv, OneEach, Refreshes
  <2>2. ASSUME NEW s \in Procs \ {p}, Refreshes(s, t)', t = i PROVE t \in raced'
    <3>1. Refreshing(i)
      BY <2>2, <1>3, Zenon DEF Refreshing, Refreshes
    <3> QED
      BY <3>1, <2>2, <1>1, Zenon
  <2> QED
    BY <2>1, <2>2, <1>3 DEF Refreshes
<1>5. PICK M \in SUBSET Procs : M = {p}
  BY Zenon
<1>6. \A q \in M : Orderly(q)'
  BY <1>3, <1>5 DEF Orderly, Rotating
<1> QED
  BY <1>1, <1>3, <1>4, <1>5, <1>6, RotationQuiet, Zenon

\* The other requests, and the queries.
LEMMA RotationOther ==
    ASSUME Known, Known', Onward, RotationInv, raced' = raced, failed' = failed,
           NEW p \in Procs, Request(p) \/ Database(p)
    PROVE  RotationInv'
<1>1. PICK M \in SUBSET Procs : M = {p}
  BY Zenon
<1>2. /\ pc \in [Procs -> Labels] /\ job \in [Procs -> Jobs] /\ Orderly(p) /\ issued \in Nat
      /\ raced \subseteq raced' /\ failed \subseteq failed'
  BY DEF Known, StoreKnown, ProcsKnown, RotationInv
<1>3. /\ issued' = issued /\ rec' = rec /\ sess' = sess
      /\ \A q \in Procs \ {p} : pc'[q] = pc[q] /\ job'[q] = job[q]
  BY <1>2, Zenon DEF Request, Start, GuestLogin, Login, Logout, UserDetail, Database, Status,
                     Reread, Goto, Answer
<1>4. \/ pc'[p] = "idle" /\ job'[p] = NoJob
      \/ pc'[p] = "delSess" /\ pc[p] = "status" /\ job' = job
      \/ pc'[p] = "get" /\ job'[p].op # "refresh"
      \/ pc'[p] = "persist" /\ job'[p].op # "refresh" /\ job'[p].tok = 0
  <2>1. CASE Database(p)
    BY <2>1, <1>2, Zenon DEF Database, Status, Reread, Goto, Answer, Rotation
  <2>2. CASE Request(p)
    <3>1. ASSUME NEW op, NEW i, NEW u, NEW l, Start(p, op, i, u, l)
          PROVE  pc'[p] = l /\ job'[p].op = op /\ job'[p].tok = i
      <4>1. pc'[p] = l /\ job'[p] = [NoJob EXCEPT !.op = op, !.tok = i, !.uid = u]
        BY <3>1, <1>2, Zenon DEF Start
      <4> QED
        BY <4>1, Zenon DEF NoJob
    <3>2. CASE GuestLogin(p)
      BY <3>1, <3>2 DEF GuestLogin
    <3>3. CASE \E u \in Users : Login(p, u)
      BY <3>1, <3>3 DEF Login
    <3>4. CASE \E i \in Tokens : Logout(p, i) \/ UserDetail(p, i)
      <4>1. \E i : Start(p, "logout", i, Nobody, "get") \/ Start(p, "detail", i, Nobody, "get")
        BY <3>4, Zenon DEF Logout, UserDetail
      <4>2. pc'[p] = "get" /\ (job'[p].op = "logout" \/ job'[p].op = "detail")
        BY <3>1, <4>1, Zenon
      <4>3. job'[p].op # "refresh"
        BY <4>2
      <4> QED
        BY <4>2, <4>3, Zenon
    <3> QED
      BY <2>2, <3>2, <3>3, <3>4, Zenon DEF Request
  <2> QED
    BY <2>1, <2>2, Zenon
<1>5. \A t \in 1..issued : Refreshes(p, t)' => Refreshes(p, t)
  BY <1>4 DEF Refreshes, NoJob
<1>6. OneEach'
  <2>1. \A q \in M, t \in 1..issued : Refreshes(q, t)' => Refreshes(q, t)
    BY <1>1, <1>5, Zenon
  <2> QED
    BY <2>1, <1>1, <1>2, <1>3, OneStays, Zenon DEF RotationInv
<1>7. Orderly(p)'
  <2>1. ASSUME NEW t \in 1..issued, Refreshes(p, t)' PROVE Rotating(p, t)'
    <3>1. CASE pc'[p] = "idle"
      BY <3>1, Zenon DEF Rotating
    <3>2. CASE pc'[p] = "delSess" /\ pc[p] = "status"
      <4>1. Rotating(p, t)
        BY <2>1, <1>2, <1>5, Zenon DEF Orderly
      <4> QED
        BY <4>1, <3>2, <1>2, <1>3, Zenon DEF Rotating, Parent, Spent
    <3> QED
      BY <3>1, <3>2, <2>1, <1>4, Zenon DEF Refreshes
  <2>2. pc'[p] = "persist" => job'[p].tok = 0
    BY <1>4, Zenon
  <2> QED
    BY <2>1, <2>2, <1>3, Zenon DEF Orderly
<1>8. \A q \in M : Orderly(q)'
  BY <1>1, <1>7, Zenon
<1> QED
  BY <1>1, <1>2, <1>3, <1>6, <1>8, RotationQuiet, Zenon

\* Refresh, "rotates the access+refresh tokens": one token is exchanged for
\* at most one new session unless two requests refresh it at once or a Redis
\* command for it failed; in a system of any size.
THEOREM RotationOnce == Spec => []RotationOneShotAlone
<1>1. Init => RotationInv
  <2> SUFFICES ASSUME Init PROVE RotationInv
    BY Zenon
  <2>1. issued = 0 /\ \A p \in Procs : pc[p] = "idle"
    BY DEF Init
  <2>2. 1..issued = {}
    BY <2>1
  <2> QED
    BY <2>1, <2>2, Zenon DEF RotationInv, Parents, OneEach, ParentDead, Orderly, RotationOneShotAlone
<1>2. ASSUME Known, RotationInv, [Next]_vars PROVE RotationInv'
  <2>1. Known' /\ Onward
    BY <1>2, StepKnown
  <2>2. CASE \E p \in Procs : Redis(p)
    BY <1>2, <2>1, <2>2, RotationRedis
  <2>3. CASE \E p \in Procs, i \in Tokens : Refresh(p, i)
    BY <1>2, <2>1, <2>3, RotationStart
  <2>4. CASE \E p \in Procs : (Request(p) \/ Database(p)) /\ UNCHANGED history
    <3>1. raced' = raced /\ failed' = failed
      BY <2>4, Zenon DEF history
    <3> QED
      BY <1>2, <2>1, <2>4, <3>1, RotationOther
  <2>5. CASE vars' = vars \/ ((Tick \/ \E u \in Users : Ban(u)) /\ UNCHANGED history)
    <3>1. /\ pc' = pc /\ job' = job /\ raced' = raced /\ failed' = failed
          /\ issued' = issued /\ rec' = rec
      BY <2>5, Zenon DEF vars, history, Tick, Ban
    <3>2. PICK M \in SUBSET Procs : M = {}
      BY Zenon
    <3>3. OneEach'
      BY <3>1, <1>2 DEF RotationInv, OneEach, Refreshes
    <3> QED
      BY <1>2, <2>1, <3>1, <3>2, <3>3, RotationQuiet, Zenon
  <2> QED
    BY <1>2, <2>2, <2>3, <2>4, <2>5 DEF Next, history
<1>3. Known /\ [Next]_vars => Known'
  BY StepKnown
<1>4. RotationInv => RotationOneShotAlone
  BY DEF RotationInv
<1> QED
  BY InitKnown, <1>1, <1>2, <1>3, <1>4, PTL DEF Spec
=============================================================================
