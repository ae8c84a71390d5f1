---------------------------- MODULE Registration ----------------------------
(***************************************************************************)
(* Creating an account: handleRegister, handleSmsGetCode and               *)
(* handleSmsCheckCode of cmd/rpc/internal/logic/call.go, the SMS codes of  *)
(* svc/sms_store.go (production mode), the image captcha of the HTTP       *)
(* service, the uid counter of svc/serviceContext.go with its fallback,    *)
(* and the user table.                                                     *)
(*                                                                         *)
(* A request performs one Redis command or one query per step; those of    *)
(* the dependencies in Faults may fail.  Codes are numbers in the order in *)
(* which they are drawn, 0 is an empty string or an absent key.            *)
(***************************************************************************)
EXTENDS DegradeModes, FiniteSets, FiniteSetsExt

CONSTANTS Procs,        \* the requests in progress
          Phones,
          Faults,       \* the dependencies that may fail, and "context": one may end
          Permits,      \* the tokens of the database semaphore
          Floor,        \* 5000: no smaller uid is handed out at boot
          HourLimit,    \* 10: SMS codes per phone and hour
          MaxRequests, MaxCodes, MaxUid, MaxBoots    \* bounds

ASSUME RegistrationAssumption ==
    /\ Faults \subseteq {"redis", "db", "context"}
    /\ Permits \in Nat \ {0} /\ Floor \in Nat /\ HourLimit \in Nat
    /\ MaxRequests \in Nat /\ MaxCodes \in Nat /\ MaxUid \in Nat /\ MaxBoots \in Nat

VARIABLES rows,      \* the user table: records [uid, phone]
          counter,   \* yuyan:uid:next, 0 if absent
          sms, kaptcha, idem,     \* the keys of a phone: codes, and the cached answer's uid
          cooldown,  \* the cooldown keys that exist: <<"sms" or "kaptcha", phone>>
          hour,      \* SMS per phone in the hour counter, and whether the key has a TTL
          mode,      \* the degrade mode
          drawn,     \* SMS codes and captchas drawn so far
          accepted,  \* how often Verify has accepted each code, 2 for more than once
          oks,       \* the successful answers to register: <<phone, uid>>
          boots,     \* restarts of the RPC service
          pc, job,   \* what each request does
          requests,  \* the requests so far
          fallback,  \* history: a uid was taken from the table
          raced      \* history: codes compared by two requests at once, or whose DEL failed

reqVars == <<pc, job>>
keyVars == <<sms, kaptcha, idem, cooldown, hour>>
history == <<fallback, raced>>
vars == <<rows, counter, sms, kaptcha, idem, cooldown, hour, mode, drawn, accepted, oks, boots,
          pc, job, requests, history>>

Codes == 1..MaxCodes
NoJob == [op |-> "none", phone |-> "none", code |-> 0, captcha |-> 0, stored |-> 0, uid |-> 0]

Outcomes(dependency) == IF dependency \in Faults THEN BOOLEAN ELSE {TRUE}

Uids == {row.uid : row \in rows}
Registered(phone) == \E row \in rows : row.phone = phone
Holders == {p \in Procs : pc[p] \in {"dupCheck", "alloc", "insert", "smsDupCheck"}}

\* The state after the first start on an empty table; the seeding of the
\* counter may have failed.
Init ==
    /\ rows = {}
    /\ counter \in {Floor} \cup {0 : d \in Faults \ {"context"}}
    /\ sms = [n \in Phones |-> 0]
    /\ kaptcha = [n \in Phones |-> 0]
    /\ idem = [n \in Phones |-> 0]
    /\ cooldown = {}
    /\ hour = [n \in Phones |-> [count |-> 0, ttl |-> FALSE]]
    /\ mode = ModeNormal
    /\ drawn = [kind \in {"sms", "kaptcha"} |-> 0]
    /\ accepted = [c \in Codes |-> 0]
    /\ oks = {}
    /\ boots = 0
    /\ pc = [p \in Procs |-> "idle"]
    /\ job = [p \in Procs |-> NoJob]
    /\ requests = 0
    /\ fallback = FALSE
    /\ raced = {}

Goto(p, label) ==
    /\ pc' = [pc EXCEPT ![p] = label]
    /\ UNCHANGED job

Answer(p) ==
    /\ pc' = [pc EXCEPT ![p] = "idle"]
    /\ job' = [job EXCEPT ![p] = NoJob]

RecordDBErrorForDegrade == mode' = IF mode = ModeNormal THEN ModeDegraded ELSE mode

-----------------------------------------------------------------------------
(* handleRegister up to the database                                       *)

\* A write is refused in every mode but Normal.
Register(p, n, code, captcha) ==
    /\ pc[p] = "idle"
    /\ CanServe(mode, LevelWrite)
    /\ pc' = [pc EXCEPT ![p] = "idemGet"]
    /\ job' = [job EXCEPT ![p] = [NoJob EXCEPT !.op = "register", !.phone = n,
                                               !.code = code, !.captcha = captcha]]
    /\ UNCHANGED <<rows, counter, keyVars, mode, drawn, accepted, oks, boots>>

CheckCode(p, n, code) ==
    /\ pc[p] = "idle"
    /\ CanServe(mode, LevelAuth)
    /\ pc' = [pc EXCEPT ![p] = "verify"]
    /\ job' = [job EXCEPT ![p] = [NoJob EXCEPT !.op = "checkCode", !.phone = n, !.code = code]]
    /\ UNCHANGED <<rows, counter, keyVars, mode, drawn, accepted, oks, boots>>

IdemGet(p, ok) ==
    /\ pc[p] = "idemGet"
    /\ LET n == job[p].phone
       IN  IF ok /\ idem[n] # 0
           THEN Answer(p) /\ oks' = oks \cup {<<n, idem[n]>>}
           ELSE Goto(p, "verify") /\ UNCHANGED oks
    /\ UNCHANGED <<rows, counter, keyVars, mode, drawn, accepted, boots>>

\* SmsStore.Verify: GET and compare ...
VerifyGet(p, ok) ==
    /\ pc[p] = "verify"
    /\ IF ok /\ job[p].code # 0 /\ sms[job[p].phone] = job[p].code
       THEN Goto(p, "verifyDel")
       ELSE Answer(p)
    /\ UNCHANGED <<rows, counter, keyVars, mode, drawn, accepted, oks, boots>>

\* Mutant: an accepted code is left to its TTL.
VerifyDel_Keeps(p, ok) ==
    /\ pc[p] = "verifyDel"
    /\ accepted' = [accepted EXCEPT ![job[p].code] = Min({@ + 1, 2})]
    /\ IF job[p].op = "register" THEN Goto(p, "kaptchaGet") ELSE Answer(p)
    /\ UNCHANGED <<rows, counter, keyVars, mode, drawn, oks, boots>>

\* ... then DEL, whose result is ignored.
VerifyDel(p, ok) ==
    /\ pc[p] = "verifyDel"
    /\ sms' = IF ok THEN [sms EXCEPT ![job[p].phone] = 0] ELSE sms
    /\ accepted' = [accepted EXCEPT ![job[p].code] = Min({@ + 1, 2})]
    /\ IF job[p].op = "register" THEN Goto(p, "kaptchaGet") ELSE Answer(p)
    /\ UNCHANGED <<rows, counter, kaptcha, idem, cooldown, hour, mode, drawn, oks, boots>>

KaptchaGet(p, ok) ==
    /\ pc[p] = "kaptchaGet"
    /\ pc' = [pc EXCEPT ![p] = "kaptchaDel"]
    /\ job' = [job EXCEPT ![p].stored = IF ok THEN kaptcha[job[p].phone] ELSE 0]
    /\ UNCHANGED <<rows, counter, keyVars, mode, drawn, accepted, oks, boots>>

\* One GET and one DEL; the comparison sees an empty string if the GET failed.
\* The codes are not used again.
KaptchaDel(p, ok) ==
    /\ pc[p] = "kaptchaDel"
    /\ kaptcha' = IF ok THEN [kaptcha EXCEPT ![job[p].phone] = 0] ELSE kaptcha
    /\ IF job[p].stored = job[p].captcha
       THEN /\ pc' = [pc EXCEPT ![p] = "acquire"]
            /\ job' = [job EXCEPT ![p] = [NoJob EXCEPT !.op = "register", !.phone = job[p].phone]]
       ELSE Answer(p)
    /\ UNCHANGED <<rows, counter, sms, idem, cooldown, hour, mode, drawn, accepted, oks, boots>>

-----------------------------------------------------------------------------
(* Under a token of the database semaphore                                 *)

Acquire(p) ==
    /\ pc[p] = "acquire"
    /\ Cardinality(Holders) < Permits
    /\ Goto(p, IF job[p].op = "register" THEN "dupCheck" ELSE "smsDupCheck")
    /\ UNCHANGED <<rows, counter, keyVars, mode, drawn, accepted, oks, boots>>

\* The context ends while the request waits for a token.
AcquireCanceled(p) ==
    /\ pc[p] = "acquire"
    /\ "context" \in Faults
    /\ RecordDBErrorForDegrade
    /\ Answer(p)
    /\ UNCHANGED <<rows, counter, keyVars, drawn, accepted, oks, boots>>

\* FindByPhone; a failed query counts as "not registered".
DupCheck(p, ok) ==
    /\ pc[p] = "dupCheck"
    /\ IF ok /\ Registered(job[p].phone) THEN Answer(p) ELSE Goto(p, "alloc")
    /\ UNCHANGED <<rows, counter, keyVars, mode, drawn, accepted, oks, boots>>

\* UserModel.NextUID: MAX(uid) + 1; a failed query reads as 0.
NextUID(ok) ==
    LET max == IF ok /\ Uids # {} THEN Max(Uids) ELSE 0
    IN  IF max < Floor THEN Floor + 1 ELSE max + 1

\* Mutant: the counter is read and written back.
AllocIncr_Reads(p) ==
    /\ pc[p] = "alloc"
    /\ counter < MaxUid
    /\ job' = [job EXCEPT ![p].uid = counter + 1]
    /\ pc' = [pc EXCEPT ![p] = "insert"]
    /\ UNCHANGED <<rows, counter, keyVars, mode, drawn, accepted, oks, boots>>

\* AllocUID: INCR ...
AllocIncr(p) ==
    /\ pc[p] = "alloc"
    /\ counter < MaxUid
    /\ counter' = counter + 1
    /\ job' = [job EXCEPT ![p].uid = counter + 1]
    /\ pc' = [pc EXCEPT ![p] = "insert"]
    /\ UNCHANGED <<rows, keyVars, mode, drawn, accepted, oks, boots>>

\* ... or, when Redis fails, the database.
AllocFallback(p, ok) ==
    /\ pc[p] = "alloc"
    /\ "redis" \in Faults
    /\ NextUID(ok) <= MaxUid
    /\ job' = [job EXCEPT ![p].uid = NextUID(ok)]
    /\ pc' = [pc EXCEPT ![p] = "insert"]
    /\ UNCHANGED <<rows, counter, keyVars, mode, drawn, accepted, oks, boots>>

\* Mutant: the index on the phone is not unique.
Taken_UidOnly(p) == job[p].uid \in Uids

\* The unique keys of the user table: uid, and uk_phone.
Taken(p) == job[p].uid \in Uids \/ Registered(job[p].phone)

\* UserModel.Insert.  A violated key is reported as an error like any other:
\* the degrade manager hears of it.
Insert(p, ok) ==
    /\ pc[p] = "insert"
    /\ IF ok /\ ~ Taken(p)
       THEN /\ rows' = rows \cup {[uid |-> job[p].uid, phone |-> job[p].phone]}
            /\ Goto(p, "session")
            /\ UNCHANGED mode
       ELSE /\ RecordDBErrorForDegrade
            /\ Answer(p)
            /\ UNCHANGED rows
    /\ UNCHANGED <<counter, keyVars, drawn, accepted, oks, boots>>

\* Sessions.IssueUser, see Session; the account exists whatever happens.
IssueSession(p, ok) ==
    /\ pc[p] = "session"
    /\ IF ok THEN Goto(p, "idemSet") ELSE Answer(p)
    /\ UNCHANGED <<rows, counter, keyVars, mode, drawn, accepted, oks, boots>>

IdemSet(p, ok) ==
    /\ pc[p] = "idemSet"
    /\ idem' = IF ok THEN [idem EXCEPT ![job[p].phone] = job[p].uid] ELSE idem
    /\ oks' = oks \cup {<<job[p].phone, job[p].uid>>}
    /\ Answer(p)
    /\ UNCHANGED <<rows, counter, sms, kaptcha, cooldown, hour, mode, drawn, accepted, boots>>

-----------------------------------------------------------------------------
(* handleSmsGetCode (smsType 1) and KaptchaHandler                         *)

\* The cooldown: SETNX EX.  An error reads as "exists".
GetCode(p, n, ok) ==
    /\ pc[p] = "idle"
    /\ CanServe(mode, LevelAuth)
    /\ drawn["sms"] < MaxCodes
    /\ IF ok /\ <<"sms", n>> \notin cooldown
       THEN /\ cooldown' = cooldown \cup {<<"sms", n>>}
            /\ pc' = [pc EXCEPT ![p] = "hourIncr"]
            /\ job' = [job EXCEPT ![p] = [NoJob EXCEPT !.op = "getCode", !.phone = n]]
       ELSE UNCHANGED <<cooldown, pc, job>>
    /\ UNCHANGED <<rows, counter, sms, kaptcha, idem, hour, mode, drawn, accepted, oks, boots>>

\* The hourly limit: INCR, and EXPIRE after the first one.  An error of INCR
\* reads as a count of 0.  Counts above the limit are not told apart.
HourIncr(p, ok) ==
    /\ pc[p] = "hourIncr"
    /\ LET n == job[p].phone
           count == IF ok THEN Min({hour[n].count, HourLimit}) + 1 ELSE 0
       IN  /\ hour' = IF ok THEN [hour EXCEPT ![n].count = count] ELSE hour
           /\ CASE count = 1 -> Goto(p, "hourExpire")
                [] count > HourLimit -> Answer(p)
                [] OTHER -> Goto(p, "acquire")
    /\ UNCHANGED <<rows, counter, sms, kaptcha, idem, cooldown, mode, drawn, accepted, oks, boots>>

HourExpire(p, ok) ==
    /\ pc[p] = "hourExpire"
    /\ hour' = IF ok THEN [hour EXCEPT ![job[p].phone].ttl = TRUE] ELSE hour
    /\ Goto(p, "acquire")
    /\ UNCHANGED <<rows, counter, sms, kaptcha, idem, cooldown, mode, drawn, accepted, oks, boots>>

SmsDupCheck(p, ok) ==
    /\ pc[p] = "smsDupCheck"
    /\ IF ok THEN UNCHANGED mode ELSE RecordDBErrorForDegrade
    /\ IF ok /\ ~ Registered(job[p].phone) THEN Goto(p, "smsIssue") ELSE Answer(p)
    /\ UNCHANGED <<rows, counter, keyVars, drawn, accepted, oks, boots>>

\* SmsStore.Issue replaces the code that is stored.
SmsIssue(p, ok) ==
    /\ pc[p] = "smsIssue"
    /\ drawn["sms"] < MaxCodes
    /\ drawn' = [drawn EXCEPT !["sms"] = @ + 1]
    /\ sms' = IF ok THEN [sms EXCEPT ![job[p].phone] = drawn'["sms"]] ELSE sms
    /\ Answer(p)
    /\ UNCHANGED <<rows, counter, kaptcha, idem, cooldown, hour, mode, accepted, oks, boots>>

\* KaptchaHandler of the HTTP service: SETNX EX on the cooldown, whose error
\* lets the call pass, then SETEX of a new code, whose error is ignored.
GetKaptcha(n, cooldownOk, ok) ==
    /\ drawn["kaptcha"] < MaxCodes
    /\ cooldownOk => <<"kaptcha", n>> \notin cooldown
    /\ cooldown' = IF cooldownOk THEN cooldown \cup {<<"kaptcha", n>>} ELSE cooldown
    /\ drawn' = [drawn EXCEPT !["kaptcha"] = @ + 1]
    /\ kaptcha' = IF ok THEN [kaptcha EXCEPT ![n] = drawn'["kaptcha"]] ELSE kaptcha
    /\ UNCHANGED <<rows, counter, sms, idem, hour, mode, accepted, oks, boots, reqVars>>

-----------------------------------------------------------------------------

\* bootUIDCounter: SETNX of MAX(uid), at least Floor.
BootValue(max) == IF counter # 0 THEN counter ELSE IF max < Floor THEN Floor ELSE max

\* The RPC service restarts: its requests are gone, then bootUIDCounter runs.
Boot(readOk, setOk) ==
    /\ boots < MaxBoots
    /\ boots' = boots + 1
    /\ pc' = [p \in Procs |-> "idle"]
    /\ job' = [p \in Procs |-> NoJob]
    /\ mode' = ModeNormal
    /\ counter' = IF readOk /\ setOk THEN BootValue(IF Uids = {} THEN 0 ELSE Max(Uids))
                                   ELSE counter
    /\ UNCHANGED <<rows, keyVars, drawn, accepted, oks>>

\* The TTLs: 60 s on the cached answer and the cooldowns, 5 min on the
\* codes, an hour on the hour counter if it was armed.
Expire(n) ==
    /\ \/ /\ idem[n] # 0
          /\ idem' = [idem EXCEPT ![n] = 0]
          /\ UNCHANGED <<sms, kaptcha, cooldown, hour>>
       \/ /\ sms[n] # 0
          /\ sms' = [sms EXCEPT ![n] = 0]
          /\ UNCHANGED <<idem, kaptcha, cooldown, hour>>
       \/ /\ kaptcha[n] # 0
          /\ kaptcha' = [kaptcha EXCEPT ![n] = 0]
          /\ UNCHANGED <<idem, sms, cooldown, hour>>
       \/ \E key \in cooldown :
             /\ cooldown' = cooldown \ {key}
             /\ UNCHANGED <<idem, sms, kaptcha, hour>>
       \/ /\ hour[n].ttl
          /\ hour' = [hour EXCEPT ![n] = [count |-> 0, ttl |-> FALSE]]
          /\ UNCHANGED <<idem, sms, kaptcha, cooldown>>
    /\ UNCHANGED <<rows, counter, mode, drawn, accepted, oks, boots, reqVars>>

RedisStep(p) ==
    \E ok \in Outcomes("redis") :
        \/ IdemGet(p, ok)
        \/ KaptchaGet(p, ok)
        \/ KaptchaDel(p, ok)
        \/ IssueSession(p, ok)
        \/ IdemSet(p, ok)
        \/ HourIncr(p, ok)
        \/ HourExpire(p, ok)
        \/ SmsIssue(p, ok)

DatabaseStep(p) ==
    \E ok \in Outcomes("db") :
        \/ DupCheck(p, ok)
        \/ Insert(p, ok)
        \/ SmsDupCheck(p, ok)

\* A client sends codes that it was shown: those of its own phone, or none.
Request(p) ==
    /\ requests < MaxRequests
    /\ requests' = requests + 1
    /\ \E n \in Phones :
          \/ Register(p, n, sms[n], kaptcha[n])
          \/ CheckCode(p, n, sms[n])
          \/ \E ok \in Outcomes("redis") : GetCode(p, n, ok)

Environment ==
    \/ \E n \in Phones, a, b \in Outcomes("redis") : GetKaptcha(n, a, b)
    \/ \E n \in Phones : Expire(n)
    \/ \E readOk \in Outcomes("db"), setOk \in Outcomes("redis") : Boot(readOk, setOk)

Comparing(code) == \E p \in Procs : pc[p] = "verifyDel" /\ job[p].code = code

Verify(p) ==
    \E ok \in Outcomes("redis") :
        LET code == job[p].code
        IN  \/ /\ VerifyGet(p, ok)
               /\ raced' = IF Comparing(code) THEN raced \cup {code} ELSE raced
            \/ /\ VerifyDel(p, ok)
               /\ raced' = IF ok THEN raced ELSE raced \cup {code}

Next ==
    \/ \E p \in Procs : Verify(p) /\ UNCHANGED <<requests, fallback>>
    \/ \E p \in Procs, ok \in Outcomes("db") :
          AllocFallback(p, ok) /\ fallback' = TRUE /\ UNCHANGED <<requests, raced>>
    \/ \E p \in Procs : Request(p) /\ UNCHANGED history
    \/ /\ \/ \E p \in Procs : RedisStep(p) \/ DatabaseStep(p) \/ AllocIncr(p)
          \/ \E p \in Procs : Acquire(p) \/ AcquireCanceled(p)
          \/ Environment
       /\ UNCHANGED <<requests, history>>

Spec == Init /\ [][Next]_vars

-----------------------------------------------------------------------------
(* Properties                                                              *)

\* Every successful answer to register for a phone, cached or not, names the
\* one account of that phone, whichever requests raced for it and whatever
\* failed in between.
OkAnswersAgree ==
    /\ \A a \in oks : [uid |-> a[2], phone |-> a[1]] \in rows
    /\ \A a, b \in oks : a[1] = b[1] => a[2] = b[2]

\* AllocUID, bootUIDCounter: unless Redis failed in an AllocUID, the uid that a
\* request is about to insert is nobody else's, neither in the table nor in
\* another request, across restarts that seed the counter from the table.
UidsFresh ==
    ~ fallback =>
        \A p \in Procs :
            pc[p] = "insert" =>
                /\ job[p].uid \notin Uids
                /\ \A q \in Procs \ {p} : pc[q] = "insert" => job[q].uid # job[p].uid

\* sms_store.go:7, "Verify is one-shot": a code is accepted once, unless two
\* requests compare it before either deletes it or the DEL fails.
SmsOneShot == \A c \in Codes \ raced : accepted[c] <= 1
=============================================================================
