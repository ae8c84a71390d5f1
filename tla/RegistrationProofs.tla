------------------------- MODULE RegistrationProofs -------------------------
(***************************************************************************)
(* OkAnswersAgree, UidsFresh and SmsOneShot for any requests, phones,      *)
(* failures and bounds.                                                    *)
(***************************************************************************)
EXTENDS Registration, WellFoundedInduction, TLAPS

Labels == {"idle", "idemGet", "verify", "verifyDel", "kaptchaGet", "kaptchaDel", "acquire",
           "dupCheck", "alloc", "insert", "session", "idemSet", "hourIncr", "hourExpire",
           "smsDupCheck", "smsIssue"}

Jobs == [op : {"none", "register", "checkCode", "getCode"}, phone : Phones \cup {"none"},
         code : 0..MaxCodes, captcha : 0..MaxCodes, stored : 0..MaxCodes, uid : 0..MaxUid]

StoreTypes ==
    /\ rows \subseteq [uid : 0..MaxUid, phone : Phones]
    /\ counter \in Nat
    /\ sms \in [Phones -> 0..MaxCodes] /\ kaptcha \in [Phones -> 0..MaxCodes]
    /\ idem \in [Phones -> 0..MaxUid]
    /\ drawn \in [{"sms", "kaptcha"} -> 0..MaxCodes]
    /\ accepted \in [Codes -> 0..2]

\* A request that is under way has a phone.
ProcTypes ==
    /\ pc \in [Procs -> Labels]
    /\ job \in [Procs -> Jobs]
    /\ \A p \in Procs : pc[p] # "idle" => job[p].phone \in Phones

Types == StoreTypes /\ ProcTypes

-----------------------------------------------------------------------------
(* Facts about the operators                                               *)

\* MAX(uid) of a table that is not empty is one of its uids.
LEMMA MaxIsMember ==
    ASSUME NEW n \in Nat, NEW S \in SUBSET (0..n), S # {}
    PROVE  Max(S) \in S
<1> DEFINE T == {n - x : x \in S}
<1>0. \A x \in S : n - x \in Nat /\ x \in Nat
  OBVIOUS
<1>1. T \subseteq Nat /\ T # {}
  BY <1>0, Zenon
<1>2. IsWellFoundedOn(OpToRel(<, Nat), Nat)
  BY NatLessThanWellFounded, Zenon
<1>3. PICK y \in T : \A z \in T : ~ (<<z, y>> \in OpToRel(<, Nat))
  <2> HIDE DEF T
  <2> QED
    BY <1>1, <1>2, WFMin, Zenon
<1>4. \A z \in T : ~ (z < y)
  BY <1>1, <1>3, Zenon DEF OpToRel
<1>5. PICK x \in S : y = n - x
  OBVIOUS
<1>6. \A z \in S : x >= z
  <2> TAKE z \in S
  <2>1. n - z \in T
    OBVIOUS
  <2>2. ~ (n - z < n - x)
    BY <1>4, <1>5, <2>1, Zenon
  <2>3. x \in Nat /\ z \in Nat
    OBVIOUS
  <2> QED
    BY <2>2, <2>3
<1> QED
  BY <1>6, Zenon DEF Max

\* The largest uid of the table is a number.
LEMMA MaxUidType ==
    ASSUME StoreTypes, Uids # {}
    PROVE  Max(Uids) \in Nat
<1>1. MaxUid \in Nat
  BY RegistrationAssumption
<1>2. \A row \in rows : row.uid \in 0..MaxUid
  BY DEF StoreTypes
<1>3. PICK S : S = Uids
  BY Zenon
<1>4. ASSUME NEW u \in S PROVE u \in 0..MaxUid
  <2>1. PICK row \in rows : u = row.uid
    BY <1>3, <1>4 DEF Uids
  <2> QED
    BY <1>2, <2>1
<1>5. S \in SUBSET (0..MaxUid)
  BY <1>4, Zenon
<1>6. S # {} => Max(S) \in S
  BY <1>1, <1>5, MaxIsMember
<1>7. \A u \in S : u \in Nat
  BY <1>4
<1> QED
  BY <1>3, <1>6, <1>7

\* UserModel.NextUID within the bound of the model.
LEMMA NextUidBound ==
    ASSUME StoreTypes, NEW ok \in BOOLEAN, NextUID(ok) <= MaxUid
    PROVE  NextUID(ok) \in 0..MaxUid
<1>1. MaxUid \in Nat /\ Floor \in Nat
  BY RegistrationAssumption
<1> QED
  BY <1>1, MaxUidType DEF NextUID

\* The smaller of two numbers.
LEMMA MinTwo == \A a, b \in Nat : Min({a, b}) = IF a <= b THEN a ELSE b
<1> SUFFICES ASSUME NEW a \in Nat, NEW b \in Nat PROVE Min({a, b}) = IF a <= b THEN a ELSE b
  OBVIOUS
<1>1. \A x \in {a, b} : (\A y \in {a, b} : x <= y) <=> x = IF a <= b THEN a ELSE b
  OBVIOUS
<1> QED
  BY <1>1 DEF Min

\* What a step may be: a step of one request, with the answers of Redis and of
\* the database, or a step of its surroundings.
LEMMA NextCases ==
    ASSUME [Next]_vars
    PROVE  \/ \E p \in Procs, ok \in BOOLEAN :
                 \/ VerifyGet(p, ok) /\ fallback' = fallback
                       /\ raced' = IF Comparing(job[p].code) THEN raced \cup {job[p].code} ELSE raced
                 \/ VerifyDel(p, ok) /\ fallback' = fallback
                       /\ raced' = IF ok THEN raced ELSE raced \cup {job[p].code}
                 \/ AllocFallback(p, ok) /\ fallback' = TRUE /\ raced' = raced
                 \/ /\ raced' = raced /\ fallback' = fallback
                    /\ \/ \E n \in Phones : Register(p, n, sms[n], kaptcha[n])
                       \/ \E n \in Phones : CheckCode(p, n, sms[n])
                       \/ \E n \in Phones : GetCode(p, n, ok)
                       \/ IdemGet(p, ok) \/ KaptchaGet(p, ok) \/ KaptchaDel(p, ok)
                       \/ IssueSession(p, ok) \/ IdemSet(p, ok) \/ HourIncr(p, ok)
                       \/ HourExpire(p, ok) \/ SmsIssue(p, ok) \/ DupCheck(p, ok)
                       \/ Insert(p, ok) \/ SmsDupCheck(p, ok) \/ AllocIncr(p)
                       \/ Acquire(p) \/ AcquireCanceled(p)
           \/ /\ raced' = raced /\ fallback' = fallback
              /\ \/ \E n \in Phones, a, b \in BOOLEAN : GetKaptcha(n, a, b)
                 \/ \E n \in Phones : Expire(n)
                 \/ \E a, b \in BOOLEAN : Boot(a, b)
                 \/ vars' = vars
<1>1. \A d : Outcomes(d) \subseteq BOOLEAN
  BY Zenon DEF Outcomes
<1>2. ASSUME NEW p \in Procs, Verify(p), UNCHANGED <<requests, fallback>>
      PROVE  \E ok \in BOOLEAN :
                 \/ VerifyGet(p, ok) /\ fallback' = fallback
                       /\ raced' = IF Comparing(job[p].code) THEN raced \cup {job[p].code} ELSE raced
                 \/ VerifyDel(p, ok) /\ fallback' = fallback
                       /\ raced' = IF ok THEN raced ELSE raced \cup {job[p].code}
  BY <1>1, <1>2 DEF Verify
<1>3. ASSUME NEW p \in Procs, Request(p), UNCHANGED history
      PROVE  \E ok \in BOOLEAN :
                 /\ raced' = raced /\ fallback' = fallback
                 /\ \/ \E n \in Phones : Register(p, n, sms[n], kaptcha[n])
                    \/ \E n \in Phones : CheckCode(p, n, sms[n])
                    \/ \E n \in Phones : GetCode(p, n, ok)
  <2>1. raced' = raced /\ fallback' = fallback
    BY <1>3 DEF history
  <2>2. TRUE \in BOOLEAN
    OBVIOUS
  <2> QED
    BY <1>1, <1>3, <2>1, <2>2, Zenon DEF Request
<1>4. ASSUME NEW p \in Procs, UNCHANGED <<requests, history>>,
             RedisStep(p) \/ DatabaseStep(p) \/ AllocIncr(p) \/ Acquire(p) \/ AcquireCanceled(p)
      PROVE  \E ok \in BOOLEAN :
                 /\ raced' = raced /\ fallback' = fallback
                 /\ \/ IdemGet(p, ok) \/ KaptchaGet(p, ok) \/ KaptchaDel(p, ok)
                    \/ IssueSession(p, ok) \/ IdemSet(p, ok) \/ HourIncr(p, ok)
                    \/ HourExpire(p, ok) \/ SmsIssue(p, ok) \/ DupCheck(p, ok)
                    \/ Insert(p, ok) \/ SmsDupCheck(p, ok) \/ AllocIncr(p)
                    \/ Acquire(p) \/ AcquireCanceled(p)
  <2>1. raced' = raced /\ fallback' = fallback
    BY <1>4 DEF history
  <2>2. CASE RedisStep(p)
    BY <1>1, <2>1, <2>2 DEF RedisStep
  <2>3. CASE DatabaseStep(p)
    BY <1>1, <2>1, <2>3 DEF DatabaseStep
  <2>4. CASE AllocIncr(p) \/ Acquire(p) \/ AcquireCanceled(p)
    <3>1. TRUE \in BOOLEAN
      OBVIOUS
    <3> QED
      BY <2>1, <2>4, <3>1, ZenonT(30)
  <2> QED
    BY <1>4, <2>2, <2>3, <2>4
<1>5. ASSUME Environment, UNCHANGED <<requests, history>>
      PROVE  /\ raced' = raced /\ fallback' = fallback
             /\ \/ \E n \in Phones, a, b \in BOOLEAN : GetKaptcha(n, a, b)
                \/ \E n \in Phones : Expire(n)
                \/ \E a, b \in BOOLEAN : Boot(a, b)
  <2>1. raced' = raced /\ fallback' = fallback
    BY <1>5, Zenon DEF history
  <2> QED
    BY <1>1, <1>5, <2>1 DEF Environment
<1>6. ASSUME NEW p \in Procs, NEW ok \in Outcomes("db"),
             AllocFallback(p, ok), fallback' = TRUE, UNCHANGED <<requests, raced>>
      PROVE  ok \in BOOLEAN /\ AllocFallback(p, ok) /\ fallback' = TRUE /\ raced' = raced
  BY <1>1, <1>6, Zenon
<1>7. CASE vars' = vars
  BY <1>7, Zenon DEF vars, history
<1>8. CASE Next
  BY <1>2, <1>3, <1>4, <1>5, <1>6, <1>8, ZenonT(30) DEF Next
<1> QED
  BY <1>7, <1>8, Zenon

-----------------------------------------------------------------------------
(* Types                                                                   *)

\* A request goes to a label with its locals j.
LEMMA Moves ==
    ASSUME ProcTypes, NEW p \in Procs, NEW label \in Labels, NEW j \in Jobs,
           label # "idle" => j.phone \in Phones,
           pc' = [pc EXCEPT ![p] = label], job' = [job EXCEPT ![p] = j]
    PROVE  ProcTypes'
  BY Zenon DEF ProcTypes

\* A request that is over has the locals of none.
LEMMA NoJobType == NoJob \in Jobs
  BY RegistrationAssumption DEF NoJob, Jobs

\* The locals of a request that begins.
Fresh(op, n, code, captcha) ==
    [op |-> op, phone |-> n, code |-> code, captcha |-> captcha, stored |-> 0, uid |-> 0]

\* They are locals of the phone.
LEMMA FreshJobs ==
    ASSUME NEW op \in {"register", "checkCode", "getCode"}, NEW n \in Phones,
           NEW code \in 0..MaxCodes, NEW captcha \in 0..MaxCodes
    PROVE  Fresh(op, n, code, captcha) \in Jobs /\ Fresh(op, n, code, captcha).phone = n
  BY RegistrationAssumption DEF Fresh, Jobs

\* A handler that returns.
LEMMA Answers ==
    ASSUME ProcTypes, NEW p \in Procs, Answer(p)
    PROVE  ProcTypes'
  BY NoJobType, Moves, Zenon DEF Answer, Labels

\* A handler that is under way goes on with the same locals.
LEMMA Goes ==
    ASSUME ProcTypes, NEW p \in Procs, pc[p] # "idle", NEW label \in Labels, Goto(p, label)
    PROVE  ProcTypes'
  BY DEF ProcTypes, Goto

\* The steps of requests.
LEMMA RequestTypes ==
    ASSUME Types, NEW p \in Procs, NEW ok \in BOOLEAN,
           \/ VerifyGet(p, ok) \/ VerifyDel(p, ok) \/ AllocFallback(p, ok) \/ IdemGet(p, ok)
           \/ KaptchaGet(p, ok) \/ KaptchaDel(p, ok) \/ IssueSession(p, ok) \/ IdemSet(p, ok)
           \/ HourIncr(p, ok) \/ HourExpire(p, ok) \/ SmsIssue(p, ok) \/ DupCheck(p, ok)
           \/ Insert(p, ok) \/ SmsDupCheck(p, ok) \/ AllocIncr(p) \/ Acquire(p)
           \/ AcquireCanceled(p)
    PROVE  Types'
<1>t. /\ StoreTypes /\ ProcTypes /\ job[p] \in Jobs
      /\ MaxUid \in Nat /\ MaxCodes \in Nat
      /\ pc[p] # "idle" => job[p].phone \in Phones
  BY RegistrationAssumption, Zenon DEF Types, ProcTypes
<1>1. CASE \/ VerifyGet(p, ok) \/ IdemGet(p, ok) \/ IssueSession(p, ok) \/ HourIncr(p, ok)
           \/ HourExpire(p, ok) \/ DupCheck(p, ok) \/ SmsDupCheck(p, ok) \/ Acquire(p)
           \/ AcquireCanceled(p)
  <2>1. StoreTypes'
    BY <1>1, <1>t, ZenonT(30) DEF StoreTypes, VerifyGet, IdemGet, IssueSession, HourIncr,
                                  HourExpire, DupCheck, SmsDupCheck, Acquire, AcquireCanceled,
                                  keyVars
  <2>2. pc[p] # "idle" /\ (Answer(p) \/ \E label \in Labels : Goto(p, label))
    BY <1>1, Zenon DEF VerifyGet, IdemGet, IssueSession, HourIncr, HourExpire, DupCheck,
                       SmsDupCheck, Acquire, AcquireCanceled, Labels
  <2> QED
    BY <2>1, <2>2, <1>t, Answers, Goes, Zenon DEF Types
<1>2. CASE VerifyDel(p, ok)
  <2>1. sms' \in [Phones -> 0..MaxCodes]
    <3>1. sms \in [Phones -> 0..MaxCodes] /\ 0 \in 0..MaxCodes
      BY <1>t DEF StoreTypes
    <3> QED
      BY <1>2, <3>1, Zenon DEF VerifyDel
  <2>2. accepted' \in [Codes -> 0..2]
    <3>1. \A c \in Codes : accepted[c] + 1 \in Nat
      BY <1>t DEF StoreTypes
    <3>2. \A c \in Codes : Min({accepted[c] + 1, 2}) \in 0..2
      BY <3>1, MinTwo
    <3>3. accepted \in [Codes -> 0..2]
      BY <1>t, Zenon DEF StoreTypes
    <3>4. accepted' = [accepted EXCEPT ![job[p].code] = Min({accepted[job[p].code] + 1, 2})]
      BY <1>2, Zenon DEF VerifyDel
    <3> QED
      BY <3>2, <3>3, <3>4, Zenon
  <2>3. StoreTypes'
    BY <1>2, <1>t, <2>1, <2>2, Zenon DEF VerifyDel, StoreTypes
  <2>4. pc[p] # "idle" /\ (Answer(p) \/ \E label \in Labels : Goto(p, label))
    <3>1. pc[p] = "verifyDel" /\ (Answer(p) \/ Goto(p, "kaptchaGet"))
      BY <1>2, Zenon DEF VerifyDel
    <3>2. "kaptchaGet" \in Labels
      BY DEF Labels
    <3>3. pc[p] # "idle"
      BY <3>1
    <3> QED
      BY <3>1, <3>2, <3>3, Zenon
  <2> QED
    BY <2>3, <2>4, <1>t, Answers, Goes DEF Types
<1>3. CASE KaptchaGet(p, ok)
  <2>1. StoreTypes'
    BY <1>3, <1>t DEF KaptchaGet, StoreTypes, keyVars
  <2>2. PICK v : v = IF ok THEN kaptcha[job[p].phone] ELSE 0
    BY Zenon
  <2>3. v \in 0..MaxCodes
    BY <1>3, <1>t, <2>2 DEF KaptchaGet, StoreTypes
  <2>4. PICK j : j = [job[p] EXCEPT !.stored = v]
    BY Zenon
  <2>5. j \in Jobs /\ j.phone = job[p].phone
    BY <1>t, <2>3, <2>4 DEF Jobs
  <2>6. pc[p] # "idle" /\ pc' = [pc EXCEPT ![p] = "kaptchaDel"] /\ job' = [job EXCEPT ![p] = j]
    BY <1>3, <1>t, <2>2, <2>4 DEF KaptchaGet, ProcTypes
  <2>7. ProcTypes'
    BY <1>t, <2>5, <2>6, Moves, Zenon DEF Labels
  <2> QED
    BY <2>1, <2>7 DEF Types
<1>4. CASE KaptchaDel(p, ok)
  <2>1. kaptcha' \in [Phones -> 0..MaxCodes]
    <3>1. kaptcha \in [Phones -> 0..MaxCodes] /\ 0 \in 0..MaxCodes
      BY <1>t DEF StoreTypes
    <3> QED
      BY <1>4, <3>1, Zenon DEF KaptchaDel
  <2>2. StoreTypes'
    BY <1>4, <1>t, <2>1, Zenon DEF KaptchaDel, StoreTypes
  <2>3. CASE Answer(p)
    BY <2>2, <2>3, <1>t, Answers, Zenon DEF Types
  <2>4. CASE ~ Answer(p)
    <3>1. PICK j : j = [NoJob EXCEPT !.op = "register", !.phone = job[p].phone]
      BY Zenon
    <3>2. pc[p] # "idle" /\ pc' = [pc EXCEPT ![p] = "acquire"] /\ job' = [job EXCEPT ![p] = j]
      BY <1>4, <2>4, <3>1 DEF KaptchaDel
    <3>a. j = Fresh("register", job[p].phone, 0, 0)
      BY <3>1, Zenon DEF NoJob, Fresh
    <3>3. j.phone \in Phones /\ j \in Jobs
      BY <3>2, <3>a, <1>t, FreshJobs
    <3>4. ProcTypes'
      BY <1>t, <3>2, <3>3, Moves, Zenon DEF Labels
    <3> QED
      BY <2>2, <3>4, Zenon DEF Types
  <2> QED
    BY <2>3, <2>4
<1>5. CASE IdemSet(p, ok)
  <2>1. job[p].uid \in 0..MaxUid
    BY <1>t, Zenon DEF Jobs
  <2>2. idem' \in [Phones -> 0..MaxUid]
    BY <1>5, <1>t, <2>1, Zenon DEF IdemSet, StoreTypes
  <2>3. StoreTypes' /\ Answer(p)
    BY <1>5, <1>t, <2>2, Zenon DEF IdemSet, StoreTypes
  <2> QED
    BY <2>3, <1>t, Answers, Zenon DEF Types
<1>6. CASE SmsIssue(p, ok)
  <2>1. drawn["sms"] \in 0..MaxCodes /\ drawn["sms"] < MaxCodes /\ drawn \in [{"sms", "kaptcha"} -> 0..MaxCodes]
    BY <1>6, <1>t, Zenon DEF SmsIssue, StoreTypes
  <2>2. drawn["sms"] + 1 \in 0..MaxCodes
    BY <2>1, <1>t, SMTT(30)
  <2>3. drawn' = [drawn EXCEPT !["sms"] = drawn["sms"] + 1]
    BY <1>6, Zenon DEF SmsIssue
  <2>4. drawn' \in [{"sms", "kaptcha"} -> 0..MaxCodes] /\ drawn'["sms"] \in 0..MaxCodes
    BY <2>1, <2>2, <2>3, Zenon
  <2>5. sms \in [Phones -> 0..MaxCodes]
    BY <1>t, Zenon DEF StoreTypes
  <2>6. sms' \in [Phones -> 0..MaxCodes]
    BY <1>6, <2>4, <2>5, ZenonT(30) DEF SmsIssue
  <2>7. StoreTypes' /\ Answer(p)
    BY <1>6, <1>t, <2>4, <2>6, Zenon DEF SmsIssue, StoreTypes
  <2> QED
    BY <2>7, <1>t, Answers, Zenon DEF Types
<1>7. CASE Insert(p, ok)
  <2>1. [uid |-> job[p].uid, phone |-> job[p].phone] \in [uid : 0..MaxUid, phone : Phones]
    BY <1>7, <1>t, ZenonT(30) DEF Insert, Jobs
  <2>2. rows' \subseteq [uid : 0..MaxUid, phone : Phones]
    BY <1>7, <1>t, <2>1, ZenonT(30) DEF Insert, StoreTypes
  <2>3. StoreTypes'
    BY <1>7, <1>t, <2>2, ZenonT(30) DEF Insert, StoreTypes, keyVars
  <2>4. pc[p] # "idle" /\ (Answer(p) \/ Goto(p, "session")) /\ "session" \in Labels
    BY <1>7, Zenon DEF Insert, Labels
  <2> QED
    BY <2>3, <2>4, <1>t, Answers, Goes, Zenon DEF Types
<1>8. CASE AllocIncr(p) \/ AllocFallback(p, ok)
  <2>1. PICK u : u = IF AllocIncr(p) THEN counter + 1 ELSE NextUID(ok)
    BY Zenon
  <2>2. u \in 0..MaxUid
    <3>1. CASE AllocIncr(p)
      BY <2>1, <3>1, <1>t, SMTT(30) DEF AllocIncr, StoreTypes
    <3>2. CASE ~ AllocIncr(p)
      <4>1. NextUID(ok) <= MaxUid
        BY <1>8, <3>2, Zenon DEF AllocFallback
      <4> QED
        BY <2>1, <3>2, <4>1, <1>t, NextUidBound, Zenon
    <3> QED
      BY <3>1, <3>2
  <2>3. StoreTypes'
    BY <1>8, <1>t DEF AllocIncr, AllocFallback, StoreTypes, keyVars
  <2>4. PICK j : j = [job[p] EXCEPT !.uid = u]
    BY Zenon
  <2>5. j \in Jobs /\ j.phone = job[p].phone
    BY <1>t, <2>2, <2>4 DEF Jobs
  <2>6. pc[p] # "idle" /\ pc' = [pc EXCEPT ![p] = "insert"] /\ job' = [job EXCEPT ![p].uid = u]
    BY <1>8, <2>1 DEF AllocIncr, AllocFallback
  <2>7. job' = [job EXCEPT ![p] = j]
    BY <2>4, <2>6, <1>t DEF ProcTypes
  <2>8. ProcTypes'
    BY <1>t, <2>5, <2>6, <2>7, Moves, ZenonT(30) DEF Labels
  <2> QED
    BY <2>3, <2>8 DEF Types
<1> QED
  BY <1>1, <1>2, <1>3, <1>4, <1>5, <1>6, <1>7, <1>8

\* The requests' first steps, and the steps around them.
LEMMA OtherTypes ==
    ASSUME Types,
           \/ \E p \in Procs, n \in Phones, ok \in BOOLEAN :
                 Register(p, n, sms[n], kaptcha[n]) \/ CheckCode(p, n, sms[n]) \/ GetCode(p, n, ok)
           \/ \E n \in Phones, a, b \in BOOLEAN : GetKaptcha(n, a, b)
           \/ \E n \in Phones : Expire(n)
           \/ \E a, b \in BOOLEAN : Boot(a, b)
           \/ vars' = vars
    PROVE  Types'
<1>t. StoreTypes /\ ProcTypes /\ MaxUid \in Nat /\ MaxCodes \in Nat /\ Floor \in Nat
  BY RegistrationAssumption DEF Types
<1>1. ASSUME NEW p \in Procs, NEW n \in Phones, NEW ok \in BOOLEAN,
             Register(p, n, sms[n], kaptcha[n]) \/ CheckCode(p, n, sms[n]) \/ GetCode(p, n, ok)
      PROVE  Types'
  <2>1. StoreTypes'
    BY <1>1, <1>t, Zenon DEF Register, CheckCode, GetCode, StoreTypes, keyVars
  <2>2. PICK c \in 0..MaxCodes, k \in 0..MaxCodes : c = sms[n] /\ k = kaptcha[n]
    BY <1>t DEF StoreTypes
  <2>0. 0 \in 0..MaxCodes
    BY <1>t
  <2>3. CASE Register(p, n, sms[n], kaptcha[n])
    <3>1. PICK j : j = [NoJob EXCEPT !.op = "register", !.phone = n, !.code = c, !.captcha = k]
      BY SMTT(30)
    <3>2. job' = [job EXCEPT ![p] = j] /\ pc' = [pc EXCEPT ![p] = "idemGet"]
      BY <2>2, <2>3, <3>1, Zenon DEF Register
    <3>3. j = Fresh("register", n, c, k)
      BY <3>1, Zenon DEF NoJob, Fresh
    <3>4. j \in Jobs /\ j.phone = n
      BY <2>0, <3>3, FreshJobs
    <3>5. ProcTypes'
      BY <3>2, <3>4, <1>t, Moves, Zenon DEF Labels
    <3> QED
      BY <2>1, <3>5 DEF Types
  <2>4. CASE CheckCode(p, n, sms[n])
    <3>1. PICK j : j = [NoJob EXCEPT !.op = "checkCode", !.phone = n, !.code = c]
      BY SMTT(30)
    <3>2. job' = [job EXCEPT ![p] = j] /\ pc' = [pc EXCEPT ![p] = "verify"]
      BY <2>2, <2>4, <3>1, Zenon DEF CheckCode
    <3>3. j = Fresh("checkCode", n, c, 0)
      BY <3>1, Zenon DEF NoJob, Fresh
    <3>4. j \in Jobs /\ j.phone = n
      BY <2>0, <3>3, FreshJobs
    <3>5. ProcTypes'
      BY <3>2, <3>4, <1>t, Moves, Zenon DEF Labels
    <3> QED
      BY <2>1, <3>5 DEF Types
  <2>5. CASE GetCode(p, n, ok)
    <3>1. CASE pc' = pc /\ job' = job
      BY <3>1, <2>1, <1>t DEF Types, ProcTypes
    <3>2. CASE ~ (pc' = pc /\ job' = job)
      <4>1. PICK j : j = [NoJob EXCEPT !.op = "getCode", !.phone = n]
        BY SMTT(30)
      <4>2. job' = [job EXCEPT ![p] = j] /\ pc' = [pc EXCEPT ![p] = "hourIncr"]
        BY <2>2, <2>5, <4>1, <3>2, Zenon DEF GetCode
      <4>3. j = Fresh("getCode", n, 0, 0)
        BY <4>1, Zenon DEF NoJob, Fresh
      <4>4. j \in Jobs /\ j.phone = n
        BY <2>0, <4>3, FreshJobs
      <4>5. ProcTypes'
        BY <4>2, <4>4, <1>t, Moves, ZenonT(30) DEF Labels
      <4> QED
        BY <2>1, <4>5 DEF Types
    <3> QED
      BY <3>1, <3>2
  <2> QED
    BY <1>1, <2>3, <2>4, <2>5, SMTT(30)
<1>2. ASSUME NEW n \in Phones, NEW a \in BOOLEAN, NEW b \in BOOLEAN, GetKaptcha(n, a, b)
      PROVE  Types'
  <2>1. /\ drawn["kaptcha"] \in 0..MaxCodes /\ drawn["kaptcha"] < MaxCodes
        /\ drawn \in [{"sms", "kaptcha"} -> 0..MaxCodes]
    BY <1>2, <1>t, Zenon DEF GetKaptcha, StoreTypes
  <2>2. drawn["kaptcha"] + 1 \in 0..MaxCodes
    BY <2>1, <1>t
  <2>3. drawn' = [drawn EXCEPT !["kaptcha"] = drawn["kaptcha"] + 1]
    BY <1>2, Zenon DEF GetKaptcha
  <2>4. drawn' \in [{"sms", "kaptcha"} -> 0..MaxCodes] /\ drawn'["kaptcha"] \in 0..MaxCodes
    BY <2>1, <2>2, <2>3, Zenon
  <2>5. kaptcha \in [Phones -> 0..MaxCodes]
    BY <1>t, Zenon DEF StoreTypes
  <2>6. kaptcha' \in [Phones -> 0..MaxCodes]
    BY <1>2, <2>4, <2>5, Zenon DEF GetKaptcha
  <2>7. StoreTypes'
    BY <1>2, <1>t, <2>4, <2>6, Zenon DEF GetKaptcha, StoreTypes
  <2> QED
    BY <1>2, <1>t, <2>7, Zenon DEF GetKaptcha, reqVars, Types, ProcTypes
<1>3. ASSUME NEW n \in Phones, Expire(n) PROVE Types'
  <2>1. /\ \A m \in Phones : sms'[m] \in {sms[m], 0} /\ kaptcha'[m] \in {kaptcha[m], 0}
                             /\ idem'[m] \in {idem[m], 0}
        /\ sms' = [m \in Phones |-> sms'[m]] /\ kaptcha' = [m \in Phones |-> kaptcha'[m]]
        /\ idem' = [m \in Phones |-> idem'[m]]
    BY <1>3, <1>t, Zenon DEF Expire, StoreTypes
  <2>2. /\ sms' \in [Phones -> 0..MaxCodes] /\ kaptcha' \in [Phones -> 0..MaxCodes]
        /\ idem' \in [Phones -> 0..MaxUid]
    BY <2>1, <1>t DEF StoreTypes
  <2>3. StoreTypes'
    BY <1>3, <1>t, <2>2, Zenon DEF Expire, StoreTypes
  <2> QED
    BY <1>3, <1>t, <2>3, Zenon DEF Expire, reqVars, Types, ProcTypes
<1>4. ASSUME NEW a \in BOOLEAN, NEW b \in BOOLEAN, Boot(a, b) PROVE Types'
  <2>1. counter' \in Nat
    <3>1. Uids # {} => Max(Uids) \in Nat
      BY <1>t, MaxUidType, Zenon
    <3>2. \A m \in Nat : BootValue(m) \in Nat
      BY <1>t, Zenon DEF BootValue, StoreTypes
    <3> QED
      BY <1>4, <3>1, <3>2, <1>t, Zenon DEF Boot, StoreTypes
  <2>2. StoreTypes'
    BY <1>4, <1>t, <2>1, Zenon DEF Boot, StoreTypes, keyVars
  <2>3. ProcTypes'
    BY <1>4, NoJobType, Zenon DEF Boot, ProcTypes, Labels
  <2> QED
    BY <2>2, <2>3, Zenon DEF Types
<1>5. CASE vars' = vars
  BY <1>5, <1>t, Zenon DEF vars, Types, StoreTypes, ProcTypes
<1> QED
  BY <1>1, <1>2, <1>3, <1>4, <1>5

\* The types are an invariant.
LEMMA TypesHold == Types /\ [Next]_vars => Types'
  BY NextCases, RequestTypes, OtherTypes, ZenonT(30)

\* The state after the first start.
LEMMA TypesInit == Init => Types
<1> SUFFICES ASSUME Init PROVE Types
  OBVIOUS
<1>1. /\ 0 \in 0..MaxUid /\ 0 \in 0..MaxCodes /\ 0 \in 0..2 /\ Floor \in Nat
  BY RegistrationAssumption
<1>2. counter \in Nat
  BY <1>1 DEF Init
<1>3. StoreTypes
  BY <1>1, <1>2 DEF Init, StoreTypes
<1>4. ProcTypes
  BY NoJobType DEF Init, ProcTypes, Labels
<1> QED
  BY <1>3, <1>4 DEF Types

-----------------------------------------------------------------------------
(* Accounts                                                                *)

Row(n, u) == [uid |-> u, phone |-> n]

\* One row per phone; a cached answer, an answer given and an answer about to
\* be given name a row.
Accounts ==
    /\ \A a, b \in rows : a.phone = b.phone => a = b
    /\ \A n \in Phones : idem[n] # 0 => Row(n, idem[n]) \in rows
    /\ \A p \in Procs : pc[p] \in {"session", "idemSet"} => Row(job[p].phone, job[p].uid) \in rows
    /\ oks \subseteq {<<n, u>> : n \in Phones, u \in Nat}
    /\ \A a \in oks : Row(a[1], a[2]) \in rows

\* A step that adds no row, caches and gives no answer, and brings no request
\* past its INSERT.
LEMMA AccountsQuiet ==
    ASSUME Accounts, rows' = rows, oks' = oks,
           \A n \in Phones : idem'[n] \in {idem[n], 0},
           \A q \in Procs : pc'[q] \in {"session", "idemSet"} =>
                                pc[q] \in {"session", "idemSet"} /\ job'[q] = job[q]
    PROVE  Accounts'
  BY DEF Accounts, Row

\* handleRegister and IdempotencyStore: every successful answer for a phone is
\* its one account.
THEOREM SpecOkAnswersAgree == Spec => []OkAnswersAgree
<1>1. Init => Accounts
  BY SMTT(30) DEF Init, Accounts, Row
<1>2. ASSUME Types, Accounts, [Next]_vars PROVE Accounts'
  <2>t. /\ pc \in [Procs -> Labels] /\ job \in [Procs -> Jobs] /\ idem \in [Phones -> 0..MaxUid]
        /\ \A p \in Procs : pc[p] # "idle" => job[p].phone \in Phones
        /\ \A p \in Procs : job[p].uid \in Nat
    BY <1>2, RegistrationAssumption DEF Types, StoreTypes, ProcTypes, Jobs
  <2>1. ASSUME NEW p \in Procs, NEW ok \in BOOLEAN, IdemGet(p, ok) PROVE Accounts'
    <3>0. rows' = rows /\ idem' = idem
      BY <2>1, Zenon DEF IdemGet, keyVars
    <3>1. CASE oks' = oks
      <4>1. \A q \in Procs : pc'[q] \in {"session", "idemSet"} => pc'[q] = pc[q] /\ job'[q] = job[q]
        BY <2>1, <2>t DEF IdemGet, Answer, Goto
      <4> QED
        BY <1>2, <3>0, <3>1, <4>1, AccountsQuiet, Zenon
    <3>2. CASE oks' # oks
      <4>1. PICK n \in Phones : n = job[p].phone
        BY <2>1, <2>t, Zenon DEF IdemGet
      <4>2. idem[n] # 0 /\ oks' = oks \cup {<<n, idem[n]>>} /\ Answer(p)
        BY <2>1, <3>2, <4>1, Zenon DEF IdemGet
      <4>3. Row(n, idem[n]) \in rows /\ idem[n] \in Nat
        BY <1>2, <2>t, <4>2, RegistrationAssumption DEF Accounts
      <4>4. \A q \in Procs : pc'[q] \in {"session", "idemSet"} => pc'[q] = pc[q] /\ job'[q] = job[q]
        BY <4>2, <2>t, Zenon DEF Answer
      <4>5. /\ oks' \subseteq {<<m, u>> : m \in Phones, u \in Nat}
            /\ \A a \in oks' : Row(a[1], a[2]) \in rows
        BY <1>2, <4>2, <4>3 DEF Accounts
      <4> QED
        BY <1>2, <3>0, <4>4, <4>5 DEF Accounts
    <3> QED
      BY <3>1, <3>2, Zenon
  <2>2. ASSUME NEW p \in Procs, NEW ok \in BOOLEAN, Insert(p, ok) PROVE Accounts'
    <3>0. idem' = idem /\ oks' = oks
      BY <2>2, Zenon DEF Insert, keyVars
    <3>1. CASE ok /\ ~ Taken(p)
      <4>1. PICK n \in Phones, u \in Nat : n = job[p].phone /\ u = job[p].uid
        BY <2>2, <2>t, Zenon DEF Insert
      <4>2. /\ rows' = rows \cup {Row(n, u)} /\ job' = job
            /\ pc' = [pc EXCEPT ![p] = "session"]
        BY <2>2, <3>1, <4>1, Zenon DEF Insert, Goto, Row
      <4>3. \A a \in rows : a.phone # n
        BY <3>1, <4>1, Zenon DEF Taken, Registered
      <4>4. \A a, b \in rows' : a.phone = b.phone => a = b
        BY <1>2, <4>2, <4>3 DEF Accounts, Row
      <4>5. \A q \in Procs : pc'[q] \in {"session", "idemSet"} =>
                                  Row(job'[q].phone, job'[q].uid) \in rows'
        BY <1>2, <2>t, <4>1, <4>2 DEF Accounts
      <4> QED
        BY <1>2, <3>0, <4>2, <4>4, <4>5 DEF Accounts
    <3>2. CASE ~ (ok /\ ~ Taken(p))
      <4>1. rows' = rows /\ \A q \in Procs : pc'[q] \in {"session", "idemSet"} =>
                                                pc'[q] = pc[q] /\ job'[q] = job[q]
        BY <2>2, <3>2, <2>t, Zenon DEF Insert, Answer
      <4> QED
        BY <1>2, <3>0, <4>1, AccountsQuiet, Zenon
    <3> QED
      BY <3>1, <3>2, Zenon
  <2>3. ASSUME NEW p \in Procs, NEW ok \in BOOLEAN, IdemSet(p, ok) PROVE Accounts'
    <3>1. PICK n \in Phones, u \in Nat : n = job[p].phone /\ u = job[p].uid
      BY <2>3, <2>t, Zenon DEF IdemSet
    <3>2. Row(n, u) \in rows
      BY <1>2, <2>3, <3>1 DEF Accounts, IdemSet
    <3>3. /\ rows' = rows /\ oks' = oks \cup {<<n, u>>}
          /\ \A m \in Phones : idem'[m] \in {idem[m], IF m = n THEN u ELSE idem[m]}
      BY <2>3, <2>t, <3>1, Zenon DEF IdemSet
    <3>4. \A q \in Procs : pc'[q] \in {"session", "idemSet"} => pc'[q] = pc[q] /\ job'[q] = job[q]
      BY <2>3, <2>t, Zenon DEF IdemSet, Answer
    <3>5. /\ oks' \subseteq {<<m, v>> : m \in Phones, v \in Nat}
          /\ \A a \in oks' : Row(a[1], a[2]) \in rows
      BY <1>2, <3>2, <3>3 DEF Accounts
    <3>6. \A m \in Phones : idem'[m] # 0 => Row(m, idem'[m]) \in rows
      BY <1>2, <3>2, <3>3 DEF Accounts
    <3> QED
      BY <1>2, <3>3, <3>4, <3>5, <3>6 DEF Accounts
  <2>4. ASSUME NEW p \in Procs, NEW ok \in BOOLEAN,
               \/ VerifyGet(p, ok) \/ VerifyDel(p, ok) \/ AllocFallback(p, ok)
               \/ \E n \in Phones : Register(p, n, sms[n], kaptcha[n])
               \/ \E n \in Phones : CheckCode(p, n, sms[n])
               \/ \E n \in Phones : GetCode(p, n, ok)
               \/ KaptchaGet(p, ok) \/ KaptchaDel(p, ok)
        PROVE  Accounts'
    <3>1. rows' = rows /\ oks' = oks /\ idem' = idem
      BY <2>4, ZenonT(30) DEF VerifyGet, VerifyDel, AllocFallback, Register, CheckCode, GetCode,
                              KaptchaGet, KaptchaDel, keyVars
    <3>2. \A q \in Procs : pc'[q] \in {"session", "idemSet"} => pc'[q] = pc[q] /\ job'[q] = job[q]
      BY <2>4, <2>t, Zenon DEF VerifyGet, VerifyDel, AllocFallback, Register, CheckCode,
                               GetCode, KaptchaGet, KaptchaDel, Goto, Answer
    <3> QED
      BY <1>2, <3>1, <3>2, AccountsQuiet, Zenon
  <2>5. ASSUME NEW p \in Procs, NEW ok \in BOOLEAN,
               \/ IssueSession(p, ok) \/ HourIncr(p, ok) \/ HourExpire(p, ok) \/ SmsIssue(p, ok)
               \/ DupCheck(p, ok) \/ SmsDupCheck(p, ok) \/ AllocIncr(p) \/ Acquire(p)
               \/ AcquireCanceled(p)
        PROVE  Accounts'
    <3>1. rows' = rows /\ oks' = oks /\ idem' = idem
      BY <2>5, Zenon DEF IssueSession, HourIncr, HourExpire, SmsIssue, DupCheck, SmsDupCheck,
                  AllocIncr, Acquire, AcquireCanceled, keyVars
    <3>2. \A q \in Procs : pc'[q] \in {"session", "idemSet"} =>
                                pc[q] \in {"session", "idemSet"} /\ job'[q] = job[q]
      BY <2>5, <2>t, Zenon DEF IssueSession, HourIncr, HourExpire, SmsIssue, DupCheck, SmsDupCheck,
                        AllocIncr, Acquire, AcquireCanceled, Goto, Answer
    <3> QED
      BY <1>2, <3>1, <3>2, AccountsQuiet
  <2>6. ASSUME \/ \E n \in Phones, a, b \in BOOLEAN : GetKaptcha(n, a, b)
               \/ \E n \in Phones : Expire(n)
               \/ \E a, b \in BOOLEAN : Boot(a, b)
               \/ vars' = vars
        PROVE  Accounts'
    <3>1. rows' = rows /\ oks' = oks /\ \A n \in Phones : idem'[n] \in {idem[n], 0}
      BY <2>6, <2>t, Zenon DEF GetKaptcha, Expire, Boot, vars, keyVars
    <3>2. \A q \in Procs : pc'[q] \in {"session", "idemSet"} => pc'[q] = pc[q] /\ job'[q] = job[q]
      BY <2>6, Zenon DEF GetKaptcha, Expire, Boot, vars, reqVars
    <3> QED
      BY <1>2, <3>1, <3>2, AccountsQuiet, Zenon
  <2> QED
    BY <1>2, <2>1, <2>2, <2>3, <2>4, <2>5, <2>6, NextCases, ZenonT(30)
<1>3. Accounts => OkAnswersAgree
  <2>1. SUFFICES ASSUME Accounts PROVE OkAnswersAgree
    BY Zenon
  <2>2. ASSUME NEW a \in oks, NEW b \in oks, a[1] = b[1] PROVE a[2] = b[2]
    <3>1. Row(a[1], a[2]) \in rows /\ Row(b[1], b[2]) \in rows
      BY <2>1 DEF Accounts
    <3>2. Row(a[1], a[2]).phone = a[1] /\ Row(b[1], b[2]).phone = b[1]
      BY Zenon DEF Row
    <3>3. Row(a[1], a[2]) = Row(b[1], b[2])
      BY <2>1, <2>2, <3>1, <3>2 DEF Accounts
    <3>4. Row(a[1], a[2]).uid = a[2] /\ Row(b[1], b[2]).uid = b[2]
      BY DEF Row
    <3> QED
      BY <3>3, <3>4, Zenon
  <2> QED
    BY <2>1, <2>2 DEF Accounts, OkAnswersAgree, Row
<1> QED
  BY <1>1, <1>2, <1>3, TypesInit, TypesHold, PTL DEF Spec

-----------------------------------------------------------------------------
(* Uids                                                                    *)

\* Until a uid is taken from the table, the counter is ahead of every uid that
\* is stored or about to be.
UidsBehind ==
    ~ fallback =>
        /\ \A row \in rows : 1 <= row.uid /\ row.uid <= counter
        /\ \A p \in Procs : pc[p] = "insert" => 1 <= job[p].uid /\ job[p].uid <= counter

\* A step that adds no row, moves no counter and allocates no uid.
LEMMA UidsQuiet ==
    ASSUME UidsBehind, UidsFresh, rows' = rows, fallback' = fallback, counter' = counter,
           \A q \in Procs : pc'[q] = "insert" => pc[q] = "insert" /\ job'[q] = job[q]
    PROVE  UidsBehind' /\ UidsFresh'
  BY DEF UidsBehind, UidsFresh, Uids

\* AllocUID and bootUIDCounter: the uid that a request is about to insert is
\* nobody else's, unless an AllocUID has fallen back to the table.
THEOREM SpecUidsFresh == Spec => []UidsFresh
<1>1. Init => UidsBehind /\ UidsFresh
  BY SMTT(30) DEF Init, UidsBehind, UidsFresh, Uids
<1>2. ASSUME Types, UidsBehind, UidsFresh, [Next]_vars PROVE UidsBehind' /\ UidsFresh'
  <2>t. /\ pc \in [Procs -> Labels] /\ job \in [Procs -> Jobs] /\ counter \in Nat
        /\ \A row \in rows : row.uid \in Nat
        /\ \A p \in Procs : job[p].uid \in Nat
    BY <1>2, RegistrationAssumption DEF Types, StoreTypes, ProcTypes, Jobs
  <2>1. ASSUME NEW p \in Procs, AllocIncr(p), fallback' = fallback
        PROVE  UidsBehind' /\ UidsFresh'
    <3>1. /\ rows' = rows /\ counter' = counter + 1 /\ pc'[p] = "insert"
          /\ job'[p].uid = counter + 1
          /\ \A q \in Procs \ {p} : pc'[q] = pc[q] /\ job'[q] = job[q]
      BY <2>1, <2>t DEF AllocIncr, Jobs
    <3>2. UidsBehind'
      BY <1>2, <2>1, <2>t, <3>1 DEF UidsBehind
    <3>3. ASSUME ~ fallback PROVE counter + 1 \notin Uids
      BY <1>2, <2>t, <3>3 DEF UidsBehind, Uids
    <3>4. ASSUME ~ fallback, NEW q \in Procs, pc[q] = "insert" PROVE job[q].uid # counter + 1
      BY <1>2, <2>t, <3>4 DEF UidsBehind
    <3>5. Uids' = Uids
      BY <3>1 DEF Uids
    <3>6. ASSUME ~ fallback', NEW q \in Procs, pc'[q] = "insert"
          PROVE  /\ job'[q].uid \notin Uids'
                 /\ \A o \in Procs \ {q} : pc'[o] = "insert" => job'[o].uid # job'[q].uid
      <4>1. CASE q = p
        BY <2>1, <3>1, <3>3, <3>4, <3>5, <3>6, <4>1, Zenon
      <4>2. CASE q # p
        BY <1>2, <2>1, <3>1, <3>4, <3>5, <3>6, <4>2 DEF UidsFresh
      <4> QED
        BY <4>1, <4>2, Zenon
    <3> QED
      BY <3>2, <3>6, Zenon DEF UidsFresh
  <2>2. ASSUME NEW p \in Procs, NEW ok \in BOOLEAN, Insert(p, ok), fallback' = fallback
        PROVE  UidsBehind' /\ UidsFresh'
    <3>1. /\ counter' = counter /\ pc[p] = "insert" /\ pc'[p] # "insert"
          /\ \A q \in Procs \ {p} : pc'[q] = pc[q] /\ job'[q] = job[q]
      BY <2>2, <2>t, Zenon DEF Insert, Goto, Answer
    <3>2. rows' = rows \/ rows' = rows \cup {[uid |-> job[p].uid, phone |-> job[p].phone]}
      BY <2>2, Zenon DEF Insert
    <3>3. UidsBehind'
      BY <1>2, <2>2, <3>1, <3>2 DEF UidsBehind
    <3>4. Uids' \subseteq Uids \cup {job[p].uid}
      BY <3>2 DEF Uids
    <3>5. ASSUME ~ fallback', NEW q \in Procs, pc'[q] = "insert"
          PROVE  /\ job'[q].uid \notin Uids'
                 /\ \A o \in Procs \ {q} : pc'[o] = "insert" => job'[o].uid # job'[q].uid
      BY <1>2, <2>2, <3>1, <3>4, <3>5, Zenon DEF UidsFresh
    <3> QED
      BY <3>3, <3>5, Zenon DEF UidsFresh
  <2>3. ASSUME NEW a \in BOOLEAN, NEW b \in BOOLEAN, Boot(a, b), fallback' = fallback
        PROVE  UidsBehind' /\ UidsFresh'
    <3>1. rows' = rows /\ \A q \in Procs : pc'[q] = "idle"
      BY <2>3, Zenon DEF Boot
    <3>2. ASSUME ~ fallback PROVE \A row \in rows : row.uid <= counter'
      <4>1. CASE counter' = counter
        BY <1>2, <3>2, <4>1 DEF UidsBehind
      <4>2. CASE counter' # counter
        <5>1. counter = 0
          BY <2>3, <4>2, Zenon DEF Boot, BootValue
        <5> QED
          BY <1>2, <2>t, <3>2, <5>1 DEF UidsBehind
      <4> QED
        BY <4>1, <4>2
    <3> QED
      BY <1>2, <2>3, <3>1, <3>2, Zenon DEF UidsBehind, UidsFresh
  <2>4. ASSUME fallback' = TRUE PROVE UidsBehind' /\ UidsFresh'
    BY <2>4, Zenon DEF UidsBehind, UidsFresh
  <2>5. ASSUME NEW p \in Procs, NEW ok \in BOOLEAN, fallback' = fallback,
               \/ VerifyGet(p, ok) \/ VerifyDel(p, ok)
               \/ \E n \in Phones : Register(p, n, sms[n], kaptcha[n])
               \/ \E n \in Phones : CheckCode(p, n, sms[n])
               \/ \E n \in Phones : GetCode(p, n, ok)
               \/ IdemGet(p, ok) \/ KaptchaGet(p, ok) \/ KaptchaDel(p, ok)
        PROVE  UidsBehind' /\ UidsFresh'
    <3>1. rows' = rows /\ counter' = counter
      BY <2>5, ZenonT(30) DEF VerifyGet, VerifyDel, Register, CheckCode, GetCode, IdemGet,
                              KaptchaGet, KaptchaDel
    <3>2. \A q \in Procs : pc'[q] = "insert" => pc[q] = "insert" /\ job'[q] = job[q]
      BY <2>5, <2>t, ZenonT(30) DEF VerifyGet, VerifyDel, Register, CheckCode, GetCode, IdemGet,
                                    KaptchaGet, KaptchaDel, Goto, Answer
    <3> QED
      BY <1>2, <2>5, <3>1, <3>2, UidsQuiet, Zenon
  <2>6. ASSUME NEW p \in Procs, NEW ok \in BOOLEAN, fallback' = fallback,
               \/ IssueSession(p, ok) \/ IdemSet(p, ok) \/ HourIncr(p, ok) \/ HourExpire(p, ok)
               \/ SmsIssue(p, ok) \/ DupCheck(p, ok) \/ SmsDupCheck(p, ok) \/ Acquire(p)
               \/ AcquireCanceled(p)
        PROVE  UidsBehind' /\ UidsFresh'
    <3>1. rows' = rows /\ counter' = counter
      BY <2>6, Zenon DEF IssueSession, IdemSet, HourIncr, HourExpire, SmsIssue, DupCheck, SmsDupCheck,
                  Acquire, AcquireCanceled
    <3>2. \A q \in Procs : pc'[q] = "insert" => pc[q] = "insert" /\ job'[q] = job[q]
      BY <2>6, <2>t, Zenon DEF IssueSession, IdemSet, HourIncr, HourExpire, SmsIssue, DupCheck,
                        SmsDupCheck, Acquire, AcquireCanceled, Goto, Answer
    <3> QED
      BY <1>2, <2>6, <3>1, <3>2, UidsQuiet, Zenon
  <2>7. ASSUME fallback' = fallback,
               \/ \E n \in Phones, a, b \in BOOLEAN : GetKaptcha(n, a, b)
               \/ \E n \in Phones : Expire(n)
               \/ vars' = vars
        PROVE  UidsBehind' /\ UidsFresh'
    <3>1. rows' = rows /\ counter' = counter /\ pc' = pc /\ job' = job
      BY <2>7, ZenonT(30) DEF GetKaptcha, Expire, vars, reqVars
    <3> QED
      BY <1>2, <2>7, <3>1, UidsQuiet, Zenon
  <2> QED
    BY <1>2, <2>1, <2>2, <2>3, <2>4, <2>5, <2>6, <2>7, NextCases, ZenonT(30)
<1> QED
  BY <1>1, <1>2, TypesInit, TypesHold, PTL DEF Spec

-----------------------------------------------------------------------------
(* Codes                                                                   *)

\* A code that is stored or presented has been drawn, and for that phone only.
CodesKnown ==
    /\ \A n \in Phones : sms[n] <= drawn["sms"]
    /\ \A m, n \in Phones : sms[m] # 0 /\ sms[m] = sms[n] => m = n
    /\ \A p \in Procs : job[p].code # 0 =>
          /\ job[p].code <= drawn["sms"]
          /\ \A m \in Phones : sms[m] = job[p].code => m = job[p].phone

\* Without a race, one request at most has compared a code and not deleted it;
\* once a code is accepted, it is not stored and no request has compared it.
CodesUsed ==
    /\ \A p \in Procs : pc[p] = "verifyDel" => job[p].code # 0
    /\ \A p, q \in Procs :
          pc[p] = "verifyDel" /\ pc[q] = "verifyDel" /\ job[p].code = job[q].code
            /\ job[p].code \notin raced => p = q
    /\ \A c \in Codes \ raced : accepted[c] >= 1 =>
          /\ accepted[c] = 1 /\ c <= drawn["sms"]
          /\ \A m \in Phones : sms[m] # c
          /\ \A p \in Procs : pc[p] = "verifyDel" => job[p].code # c

\* A step that draws and stores no code, and presents no other.
LEMMA CodesQuiet ==
    ASSUME Types, CodesKnown, CodesUsed, drawn'["sms"] = drawn["sms"],
           accepted' = accepted, raced' = raced,
           \A n \in Phones : sms'[n] \in {sms[n], 0},
           \A q \in Procs : job'[q].code # 0 =>
                job'[q].code = job[q].code /\ job'[q].phone = job[q].phone,
           \A q \in Procs : pc'[q] = "verifyDel" => pc[q] = "verifyDel" /\ job'[q] = job[q]
    PROVE  CodesKnown' /\ CodesUsed'
<1>1. /\ drawn["sms"] \in Nat
      /\ \A n \in Phones : sms[n] \in Nat
      /\ \A c \in Codes : c \in Nat /\ c # 0
  BY RegistrationAssumption DEF Types, StoreTypes, Codes
<1>2. CodesKnown'
  BY <1>1 DEF CodesKnown
<1>3. CodesUsed'
  BY <1>1 DEF CodesUsed
<1> QED
  BY <1>2, <1>3, Zenon

\* A request that presents the code of its phone.
LEMMA CodesPresented ==
    ASSUME Types, CodesKnown, CodesUsed, drawn' = drawn, accepted' = accepted, raced' = raced,
           sms' = sms, NEW p \in Procs, NEW n \in Phones, job'[p].code = sms[n],
           job'[p].phone = n, pc'[p] # "verifyDel",
           \A q \in Procs \ {p} : pc'[q] = pc[q] /\ job'[q] = job[q]
    PROVE  CodesKnown' /\ CodesUsed'
<1>1. CodesKnown'
  BY DEF CodesKnown
<1>2. CodesUsed'
  BY DEF CodesUsed
<1> QED
  BY <1>1, <1>2, Zenon

\* SmsStore.Verify is one-shot: a code is accepted once, unless two requests
\* compare it at once or its DEL fails.
THEOREM SpecSmsOneShot == Spec => []SmsOneShot
<1>1. Init => CodesKnown /\ CodesUsed
  BY RegistrationAssumption, SMTT(30) DEF Init, CodesKnown, CodesUsed, NoJob, Codes
<1>2. ASSUME Types, CodesKnown, CodesUsed, [Next]_vars PROVE CodesKnown' /\ CodesUsed'
  <2>t. /\ pc \in [Procs -> Labels] /\ job \in [Procs -> Jobs]
        /\ sms \in [Phones -> 0..MaxCodes] /\ accepted \in [Codes -> 0..2]
        /\ drawn \in [{"sms", "kaptcha"} -> 0..MaxCodes] /\ MaxCodes \in Nat
        /\ \A p \in Procs : pc[p] # "idle" => job[p].phone \in Phones
        /\ \A p \in Procs : job[p].code \in 0..MaxCodes
    BY <1>2, RegistrationAssumption DEF Types, StoreTypes, ProcTypes, Jobs
  <2>n. NoJob.code = 0
    BY DEF NoJob
  <2>1. ASSUME NEW p \in Procs, NEW ok \in BOOLEAN, VerifyGet(p, ok),
               raced' = IF Comparing(job[p].code) THEN raced \cup {job[p].code} ELSE raced
        PROVE  CodesKnown' /\ CodesUsed'
    <3>1. sms' = sms /\ drawn' = drawn /\ accepted' = accepted
      BY <2>1, Zenon DEF VerifyGet, keyVars
    <3>2. \A q \in Procs : job'[q] = job[q] \/ job'[q].code = 0
      BY <2>1, <2>t, <2>n, Zenon DEF VerifyGet, Goto, Answer
    <3>3. CodesKnown'
      BY <1>2, <3>1, <3>2, Zenon DEF CodesKnown
    <3>4. CASE Answer(p)
      <4>1. \A q \in Procs : pc'[q] = "verifyDel" => pc[q] = "verifyDel" /\ job'[q] = job[q]
        BY <2>t, <3>4, Zenon DEF Answer
      <4>2. raced \subseteq raced'
        BY <2>1, Zenon
      <4> QED
        BY <1>2, <3>1, <3>3, <4>1, <4>2 DEF CodesUsed
    <3>5. CASE ~ Answer(p)
      <4>1. /\ job[p].code # 0 /\ sms[job[p].phone] = job[p].code /\ job[p].phone \in Phones
            /\ job' = job /\ pc' = [pc EXCEPT ![p] = "verifyDel"]
        BY <2>1, <2>t, <3>5 DEF VerifyGet, Goto
      <4>2. \A q \in Procs : pc[q] = "verifyDel" /\ job[q].code = job[p].code => job[p].code \in raced'
        BY <2>1, Zenon DEF Comparing
      <4>3. raced \subseteq raced'
        BY <2>1, Zenon
      <4>4. \A c \in Codes \ raced' : accepted[c] >= 1 => job[p].code # c
        BY <1>2, <4>1, <4>3, Zenon DEF CodesUsed
      <4>5. \A q \in Procs : q # p => pc'[q] = pc[q]
        BY <2>t, <4>1, Zenon
      <4>6. \A o, q \in Procs :
              pc'[o] = "verifyDel" /\ pc'[q] = "verifyDel" /\ job[o].code = job[q].code
                /\ job[o].code \notin raced' => o = q
        BY <1>2, <4>2, <4>3, <4>5 DEF CodesUsed
      <4>7. \A q \in Procs : pc'[q] = "verifyDel" => job[q].code # 0
        BY <1>2, <4>1, <4>5, Zenon DEF CodesUsed
      <4>8. \A c \in Codes \ raced' : accepted[c] >= 1 =>
                \A q \in Procs : pc'[q] = "verifyDel" => job[q].code # c
        BY <1>2, <4>3, <4>4, <4>5, Zenon DEF CodesUsed
      <4>9. \A c \in Codes \ raced' : accepted[c] >= 1 =>
                accepted[c] = 1 /\ c <= drawn["sms"] /\ \A m \in Phones : sms[m] # c
        BY <1>2, <4>3, Zenon DEF CodesUsed
      <4>10. CodesUsed'
        BY <3>1, <4>1, <4>6, <4>7, <4>8, <4>9, Zenon DEF CodesUsed
      <4> QED
        BY <3>3, <4>10
    <3> QED
      BY <3>4, <3>5, SMTT(30)
  <2>2. ASSUME NEW p \in Procs, NEW ok \in BOOLEAN, VerifyDel(p, ok),
               raced' = IF ok THEN raced ELSE raced \cup {job[p].code}
        PROVE  CodesKnown' /\ CodesUsed'
    <3>0. PICK k, n : k = job[p].code /\ n = job[p].phone
      BY Zenon
    <3>1. k # 0 /\ k \in Codes /\ n \in Phones /\ pc[p] = "verifyDel"
      BY <1>2, <2>2, <2>t, <3>0 DEF VerifyDel, CodesUsed, Codes
    <3>2. /\ drawn' = drawn /\ accepted' = [accepted EXCEPT ![k] = Min({accepted[k] + 1, 2})]
          /\ sms' = IF ok THEN [sms EXCEPT ![n] = 0] ELSE sms
      BY <2>2, <3>0, Zenon DEF VerifyDel
    <3>3. /\ \A q \in Procs : job'[q] = job[q] \/ job'[q].code = 0
          /\ pc'[p] # "verifyDel"
          /\ \A q \in Procs \ {p} : pc'[q] = pc[q] /\ job'[q] = job[q]
      BY <2>2, <2>t, <2>n, Zenon DEF VerifyDel, Goto, Answer
    <3>4. \A m \in Phones : sms'[m] \in {sms[m], 0}
      BY <2>t, <3>2, Zenon
    <3>5. CodesKnown'
      <4>1. \A m \in Phones : sms[m] \in Nat /\ drawn["sms"] \in Nat
        BY <2>t
      <4>2. \A m \in Phones : sms'[m] <= drawn'["sms"]
        BY <1>2, <3>2, <3>4, <4>1 DEF CodesKnown
      <4>3. \A l, m \in Phones : sms'[l] # 0 /\ sms'[l] = sms'[m] => l = m
        BY <1>2, <3>4, Zenon DEF CodesKnown
      <4>4. ASSUME NEW q \in Procs, job'[q].code # 0
            PROVE  /\ job'[q].code <= drawn'["sms"]
                   /\ \A m \in Phones : sms'[m] = job'[q].code => m = job'[q].phone
        <5>1. job'[q] = job[q]
          BY <3>3, <4>4, Zenon
        <5> QED
          BY <1>2, <3>2, <3>4, <4>4, <5>1 DEF CodesKnown
      <4> QED
        BY <4>2, <4>3, <4>4, Zenon DEF CodesKnown
    <3>6. /\ \A q \in Procs : pc'[q] = "verifyDel" => job'[q].code # 0
          /\ \A o, q \in Procs :
                pc'[o] = "verifyDel" /\ pc'[q] = "verifyDel" /\ job'[o].code = job'[q].code
                  /\ job'[o].code \notin raced' => o = q
      BY <1>2, <2>2, <3>3, SMTT(30) DEF CodesUsed
    <3>7. ASSUME NEW c \in Codes \ raced', accepted'[c] >= 1
          PROVE  /\ accepted'[c] = 1 /\ c <= drawn'["sms"]
                 /\ \A m \in Phones : sms'[m] # c
                 /\ \A q \in Procs : pc'[q] = "verifyDel" => job'[q].code # c
      <4>0. c # 0 /\ c \notin raced
        BY <2>2 DEF Codes
      <4>1. CASE c # k
        <5>1. accepted'[c] = accepted[c]
          BY <2>t, <3>2, <4>1, Zenon
        <5>2. /\ accepted[c] = 1 /\ c <= drawn["sms"]
              /\ \A m \in Phones : sms[m] # c
              /\ \A q \in Procs : pc[q] = "verifyDel" => job[q].code # c
          BY <1>2, <3>7, <4>0, <5>1, Zenon DEF CodesUsed
        <5>3. \A m \in Phones : sms'[m] # c
          BY <3>4, <4>0, <5>2, Zenon
        <5>4. \A q \in Procs : pc'[q] = "verifyDel" => job'[q].code # c
          BY <3>3, <5>2, Zenon
        <5> QED
          BY <3>2, <5>1, <5>2, <5>3, <5>4, Zenon
      <4>2. CASE c = k
        <5>1. ok
          BY <2>2, <3>0, <4>2, Zenon
        <5>2. ~ (accepted[c] >= 1)
          BY <1>2, <3>0, <3>1, <4>0, <4>2, Zenon DEF CodesUsed
        <5>3. accepted[c] = 0
          BY <2>t, <5>2
        <5>4. accepted'[c] = 1
          BY <2>t, <3>1, <3>2, <4>2, <5>3, MinTwo
        <5>5. c <= drawn["sms"] /\ \A m \in Phones : sms[m] = c => m = n
          BY <1>2, <3>0, <3>1, <4>2, Zenon DEF CodesKnown
        <5>6. \A m \in Phones : sms'[m] # c
          BY <2>t, <3>1, <3>2, <4>0, <5>1, <5>5, Zenon
        <5>7. \A q \in Procs : pc'[q] = "verifyDel" => job'[q].code # c
          <6> SUFFICES ASSUME NEW q \in Procs, pc'[q] = "verifyDel", job'[q].code = c
                       PROVE  FALSE
            BY Zenon
          <6>1. q # p
            BY <3>3, Zenon
          <6>2. pc[q] = "verifyDel" /\ job[q].code = c
            BY <3>3, <6>1, Zenon
          <6>3. pc[p] = "verifyDel" /\ job[p].code = c
            BY <3>0, <3>1, <4>2, Zenon
          <6>4. \A o, x \in Procs :
                   pc[o] = "verifyDel" /\ pc[x] = "verifyDel" /\ job[o].code = job[x].code
                     /\ job[o].code \notin raced => o = x
            BY <1>2, Zenon DEF CodesUsed
          <6> QED
            BY <4>0, <6>1, <6>2, <6>3, <6>4, Zenon
        <5> QED
          BY <3>2, <5>4, <5>5, <5>6, <5>7, Zenon
      <4> QED
        BY <4>1, <4>2, Zenon
    <3>8. CodesUsed'
      BY <3>6, <3>7, Zenon DEF CodesUsed
    <3> QED
      BY <3>5, <3>8, Zenon
  <2>3. ASSUME NEW p \in Procs, NEW ok \in BOOLEAN, SmsIssue(p, ok), raced' = raced
        PROVE  CodesKnown' /\ CodesUsed'
    <3>0. PICK n \in Phones : n = job[p].phone
      BY <2>3, <2>t, Zenon DEF SmsIssue
    <3>1. /\ drawn["sms"] \in Nat /\ drawn'["sms"] = drawn["sms"] + 1 /\ accepted' = accepted
          /\ sms' = sms \/ sms' = [sms EXCEPT ![n] = drawn["sms"] + 1]
      BY <2>3, <2>t, <3>0 DEF SmsIssue
    <3>2. /\ \A q \in Procs : job'[q] = job[q] \/ job'[q].code = 0
          /\ \A q \in Procs : pc'[q] = "verifyDel" => pc[q] = "verifyDel" /\ job'[q] = job[q]
      BY <2>3, <2>t, <2>n, Zenon DEF SmsIssue, Answer
    <3>3. \A m \in Phones : sms'[m] = sms[m] \/ (m = n /\ sms'[m] = drawn["sms"] + 1)
      BY <2>t, <3>1, Zenon
    <3>4. /\ \A m \in Phones : sms[m] \in Nat /\ sms[m] <= drawn["sms"]
          /\ \A q \in Procs : job[q].code \in Nat /\ job[q].code <= drawn["sms"]
      BY <1>2, <2>t, <3>1 DEF CodesKnown
    <3>5. CodesKnown'
      <4>1. \A m \in Phones : sms'[m] <= drawn'["sms"]
        BY <3>1, <3>3, <3>4
      <4>2. \A l, m \in Phones : sms'[l] # 0 /\ sms'[l] = sms'[m] => l = m
        BY <1>2, <3>1, <3>3, <3>4 DEF CodesKnown
      <4>3. \A q \in Procs : job'[q].code # 0 =>
                /\ job'[q].code <= drawn'["sms"]
                /\ \A m \in Phones : sms'[m] = job'[q].code => m = job'[q].phone
        BY <1>2, <3>1, <3>2, <3>3, <3>4, SMTT(30) DEF CodesKnown
      <4> QED
        BY <4>1, <4>2, <4>3, Zenon DEF CodesKnown
    <3>6. CodesUsed'
      <4>1. \A c \in Codes : c \in Nat
        BY <2>t DEF Codes
      <4>2. ASSUME NEW c \in Codes \ raced, accepted[c] >= 1
            PROVE  c <= drawn["sms"] + 1 /\ \A m \in Phones : sms'[m] # c
        <5>1. c <= drawn["sms"] /\ \A m \in Phones : sms[m] # c
          BY <1>2, <4>2, Zenon DEF CodesUsed
        <5>2. c <= drawn["sms"] + 1 /\ c # drawn["sms"] + 1
          BY <3>1, <4>1, <5>1
        <5> QED
          BY <3>3, <5>1, <5>2, Zenon
      <4> QED
        BY <1>2, <2>3, <3>1, <3>2, <4>2 DEF CodesUsed
    <3> QED
      BY <3>5, <3>6, Zenon
  <2>4. ASSUME NEW p \in Procs, NEW n \in Phones, raced' = raced,
               Register(p, n, sms[n], kaptcha[n]) \/ CheckCode(p, n, sms[n])
        PROVE  CodesKnown' /\ CodesUsed'
    <3>1. sms' = sms /\ drawn' = drawn /\ accepted' = accepted
      BY <2>4, Zenon DEF Register, CheckCode, keyVars
    <3>2. /\ job'[p].code = sms[n] /\ job'[p].phone = n /\ pc'[p] # "verifyDel"
          /\ \A q \in Procs \ {p} : pc'[q] = pc[q] /\ job'[q] = job[q]
      BY <2>4, <2>t, ZenonT(30) DEF Register, CheckCode, NoJob
    <3> QED
      BY <1>2, <2>4, <3>1, <3>2, CodesPresented, Zenon
  <2>5. ASSUME NEW p \in Procs, NEW ok \in BOOLEAN, raced' = raced,
               \/ \E n \in Phones : GetCode(p, n, ok)
               \/ IdemGet(p, ok) \/ KaptchaGet(p, ok) \/ KaptchaDel(p, ok) \/ IssueSession(p, ok)
               \/ IdemSet(p, ok) \/ HourIncr(p, ok)
        PROVE  CodesKnown' /\ CodesUsed'
    <3>1. drawn' = drawn /\ accepted' = accepted /\ sms' = sms
      BY <2>5, Zenon DEF GetCode, IdemGet, KaptchaGet, KaptchaDel, IssueSession, IdemSet,
                         HourIncr, keyVars
    <3>2. \A q \in Procs : job'[q].code # 0 =>
                job'[q].code = job[q].code /\ job'[q].phone = job[q].phone
      <4>1. CASE KaptchaGet(p, ok)
        BY <2>t, <4>1, Zenon DEF KaptchaGet, Jobs
      <4>2. CASE KaptchaDel(p, ok)
        <5>1. PICK j : j = [NoJob EXCEPT !.op = "register", !.phone = job[p].phone]
          BY Zenon
        <5>2. j.code = 0
          BY <5>1, Zenon DEF NoJob
        <5>3. job' = [job EXCEPT ![p] = j] \/ job' = [job EXCEPT ![p] = NoJob]
          BY <4>2, <5>1, Zenon DEF KaptchaDel, Answer
        <5> QED
          BY <2>t, <2>n, <5>2, <5>3, Zenon
      <4>3. CASE \E n \in Phones : GetCode(p, n, ok)
        <5>1. PICK n \in Phones : GetCode(p, n, ok)
          BY <4>3
        <5>2. PICK j : j = [NoJob EXCEPT !.op = "getCode", !.phone = n]
          BY Zenon
        <5>3. j.code = 0
          BY <5>2 DEF NoJob
        <5>4. job' = job \/ job' = [job EXCEPT ![p] = j]
          BY <5>1, <5>2 DEF GetCode
        <5> QED
          BY <2>t, <5>3, <5>4, Zenon
      <4> QED
        BY <2>5, <2>t, <2>n, <4>1, <4>2, <4>3, Zenon DEF IdemGet, IssueSession, IdemSet, HourIncr,
                                                  Goto, Answer
    <3>3. \A q \in Procs : pc'[q] = "verifyDel" => pc[q] = "verifyDel" /\ job'[q] = job[q]
      BY <2>5, <2>t, Zenon DEF GetCode, IdemGet, KaptchaGet, KaptchaDel, IssueSession, IdemSet,
                               HourIncr, Goto, Answer
    <3> QED
      BY <1>2, <2>5, <3>1, <3>2, <3>3, CodesQuiet, Zenon
  <2>6. ASSUME NEW p \in Procs, NEW ok \in BOOLEAN, raced' = raced,
               \/ HourExpire(p, ok) \/ DupCheck(p, ok) \/ SmsDupCheck(p, ok) \/ Insert(p, ok)
               \/ AllocIncr(p) \/ AllocFallback(p, ok) \/ Acquire(p) \/ AcquireCanceled(p)
        PROVE  CodesKnown' /\ CodesUsed'
    <3>1. drawn' = drawn /\ accepted' = accepted /\ sms' = sms
      BY <2>6, Zenon DEF HourExpire, DupCheck, SmsDupCheck, Insert, AllocIncr, AllocFallback, Acquire,
                  AcquireCanceled, keyVars
    <3>2. \A q \in Procs : job'[q].code # 0 =>
                job'[q].code = job[q].code /\ job'[q].phone = job[q].phone
      <4>1. CASE AllocIncr(p) \/ AllocFallback(p, ok)
        <5>1. PICK u : job' = [job EXCEPT ![p].uid = u]
          BY <4>1, Zenon DEF AllocIncr, AllocFallback
        <5>2. job[p] \in Jobs
          BY <2>t, Zenon
        <5>3. PICK j : j = [job[p] EXCEPT !.uid = u]
          BY Zenon
        <5>4. j.code = job[p].code /\ j.phone = job[p].phone
          BY <5>2, <5>3 DEF Jobs
        <5>5. job' = [job EXCEPT ![p] = j]
          BY <5>1, <5>3, Zenon
        <5> QED
          BY <2>t, <5>4, <5>5, Zenon
      <4> QED
        BY <2>6, <2>t, <2>n, <4>1, Zenon DEF HourExpire, DupCheck, SmsDupCheck, Insert, Acquire,
                                      AcquireCanceled, Goto, Answer
    <3>3. \A q \in Procs : pc'[q] = "verifyDel" => pc[q] = "verifyDel" /\ job'[q] = job[q]
      BY <2>6, <2>t, Zenon DEF HourExpire, DupCheck, SmsDupCheck, Insert, AllocIncr, AllocFallback,
                        Acquire, AcquireCanceled, Goto, Answer
    <3> QED
      BY <1>2, <2>6, <3>1, <3>2, <3>3, CodesQuiet, Zenon
  <2>7. ASSUME raced' = raced,
               \/ \E n \in Phones, a, b \in BOOLEAN : GetKaptcha(n, a, b)
               \/ \E n \in Phones : Expire(n)
               \/ \E a, b \in BOOLEAN : Boot(a, b)
               \/ vars' = vars
        PROVE  CodesKnown' /\ CodesUsed'
    <3>1. drawn'["sms"] = drawn["sms"] /\ accepted' = accepted
      BY <2>7, <2>t, ZenonT(30) DEF GetKaptcha, Expire, Boot, vars
    <3>2. \A n \in Phones : sms'[n] \in {sms[n], 0}
      BY <2>7, <2>t, Zenon DEF GetKaptcha, Expire, Boot, vars, keyVars
    <3>3. \A q \in Procs : (job'[q] = job[q] /\ pc'[q] = pc[q]) \/ (job'[q].code = 0 /\ pc'[q] = "idle")
      <4>1. CASE \E a, b \in BOOLEAN : Boot(a, b)
        <5>1. pc' = [q \in Procs |-> "idle"] /\ job' = [q \in Procs |-> NoJob]
          BY <4>1 DEF Boot
        <5> QED
          BY <2>n, <5>1
      <4>2. CASE \/ \E n \in Phones, a, b \in BOOLEAN : GetKaptcha(n, a, b)
                 \/ \E n \in Phones : Expire(n)
                 \/ vars' = vars
        <5>1. pc' = pc /\ job' = job
          BY <4>2, Zenon DEF GetKaptcha, Expire, vars, reqVars
        <5> QED
          BY <5>1
      <4> QED
        BY <2>7, <4>1, <4>2, Zenon
    <3>4. \A q \in Procs : job'[q].code # 0 =>
                job'[q].code = job[q].code /\ job'[q].phone = job[q].phone
      BY <3>3, Zenon
    <3>5. \A q \in Procs : pc'[q] = "verifyDel" => pc[q] = "verifyDel" /\ job'[q] = job[q]
      BY <3>3, Zenon
    <3> QED
      BY <1>2, <2>7, <3>1, <3>2, <3>4, <3>5, CodesQuiet, Zenon
  <2> QED
    BY <1>2, <2>1, <2>2, <2>3, <2>4, <2>5, <2>6, <2>7, NextCases, ZenonT(30)
<1>3. Types /\ CodesUsed => SmsOneShot
  <2>1. Types => \A c \in Codes : accepted[c] \in 0..2
    BY Zenon DEF Types, StoreTypes
  <2> QED
    BY <2>1 DEF CodesUsed, SmsOneShot
<1> QED
  BY <1>1, <1>2, <1>3, TypesInit, TypesHold, PTL DEF Spec
=============================================================================
