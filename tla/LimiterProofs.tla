--------------------------- MODULE LimiterProofs ----------------------------
(***************************************************************************)
(* The two limiters that share counters in Redis.                          *)
(*                                                                         *)
(* MultiLimiter: CountExact, NoNegativeDrift, LeakExpires and              *)
(* WindowOvershoot for any number of requests, any rules and any failures. *)
(*                                                                         *)
(* Login: RateOvershoot, LockFollows and FailCounterExpires for any number *)
(* of requests, any limiters and any limits.  The last two are inductive   *)
(* beside the types.  RateOvershoot is not: a request between ZCARD and    *)
(* ZADD will add a member whatever the window holds by then, so these      *)
(* requests count as members (LoginOvershoot).                             *)
(***************************************************************************)
EXTENDS MultiLimiter, Login, FiniteSetTheorems, WellFoundedInduction, TLAPS

Loops == {"check", "acquire", "expire", "rollback", "release", "reset"}
Labels == Loops \cup {"idle", "run"}

StoreTypes ==
    /\ counter \in [Index -> [n : Int, life : {"none", "forever", "ttl"}]]
    /\ window \in [Index -> Nat]

\* A loop has a rule to look at, the loops that give back a slot.
LoopTypes ==
    /\ pc \in [Procs -> Labels]
    /\ todo \in [Procs -> SUBSET Active]
    /\ \A p \in Procs : pc[p] \in Loops => todo[p] # {}
    /\ \A p \in Procs : pc[p] \in {"rollback", "release", "reset"} => todo[p] \subseteq Slots
    /\ \A p \in Procs : pc[p] = "expire" => At(p) \in Slots

Types == StoreTypes /\ LoopTypes /\ held \in [Procs -> SUBSET Slots]

\* A request that will DECR slot i, look at the result and SET a negative one
\* to 0, or has looked.
Owes(p, i) ==
    \/ pc[p] \in {"rollback", "run"}
    \/ pc[p] \in {"release", "reset"} /\ i \in todo[p]

Owed ==
    "releaseFails" \notin happened =>
        \A i \in Slots : counter[i].n < 0 => \E p \in Procs : Owes(p, i)

\* A key that does not exist counts 0.
Lives == LeakExpires /\ \A i \in Slots : counter[i].life = "none" => counter[i].n = 0

\* While nothing but releases has failed, a request has the slots that its loop
\* has passed, or has still to pass, and no counter is found below 0.
Paired(p) ==
    /\ pc[p] \in {"idle", "check"} => held[p] = {}
    /\ pc[p] = "acquire" => held[p] = Slots \ todo[p]
    /\ pc[p] = "expire" => held[p] = (Slots \ todo[p]) \cup {At(p)}
    /\ pc[p] = "run" => held[p] = Slots
    /\ pc[p] = "release" => held[p] = todo[p]
    /\ pc[p] \notin {"rollback", "reset"}

Counted ==
    /\ CountExact
    /\ happened \subseteq {"releaseFails"} => \A p \in Procs : Paired(p)

\* The requests that have found room in window i and not taken it yet.
Adding(i) ==
    {p \in Procs : \/ pc[p] = "check" /\ i \notin todo[p]
                   \/ pc[p] \in {"acquire", "expire"} /\ i \in todo[p]}

Overshoot ==
    \A i \in Active \ Slots :
        "acquireFails" \notin happened =>
            window[i] + Cardinality(Adding(i)) <= Rules[i].limit + Cardinality(Procs) - 1

-----------------------------------------------------------------------------
(* Facts about the operators                                               *)

\* A loop is at one of the rules that it has left.
LEMMA AtIsMember ==
    ASSUME LoopTypes, NEW p \in Procs, todo[p] # {}
    PROVE  At(p) \in todo[p] /\ At(p) \in Active /\ At(p) \in Index
<1>1. Len(Rules) \in Nat
  BY MultiLimiterAssumption
<1>2. PICK S : S = todo[p]
  BY Zenon
<1>3. S \subseteq Active /\ S # {}
  BY <1>2 DEF LoopTypes
<1>4. S \subseteq Nat
  BY <1>1, <1>3 DEF Active, Index
<1>5. IsWellFoundedOn(OpToRel(<, Nat), Nat)
  BY NatLessThanWellFounded, Zenon
<1>6. PICK x \in S : \A y \in S : ~ (<<y, x>> \in OpToRel(<, Nat))
  BY <1>3, <1>4, <1>5, WFMin, Zenon
<1>7. \A y \in S : x <= y
  <2> TAKE y \in S
  <2>1. x \in Nat /\ y \in Nat
    BY <1>4, Zenon
  <2>2. ~ (y < x)
    BY <1>6, <2>1, Zenon DEF OpToRel
  <2> QED
    BY <2>1, <2>2
<1>8. Min(S) \in S
  BY <1>7 DEF Min
<1>9. At(p) = Min(S)
  BY <1>2 DEF At
<1>10. At(p) \in Active
  BY <1>3, <1>8, <1>9
<1> QED
  BY <1>2, <1>8, <1>9, <1>10 DEF Active

\* The slots and the active rules are rules, and there are some.
LEMMA RuleFacts ==
    /\ Slots \subseteq Active /\ Active \subseteq Index /\ Slots # {} /\ Active # {}
    /\ \A i \in Index : Rules[i].limit \in Nat /\ Rules[i].concurrent \in BOOLEAN
    /\ \A i \in Active : Rules[i].limit > 0 /\ (i \in Slots <=> Rules[i].concurrent)
<1>1. PICK R : R = [concurrent : BOOLEAN, limit : Nat]
  BY Zenon
<1>2. Rules \in Seq(R)
  BY <1>1, MultiLimiterAssumption
<1>a. \A i \in Index : Rules[i] \in R
  BY <1>2 DEF Index
<1>3. ASSUME NEW i \in Index PROVE Rules[i].limit \in Nat /\ Rules[i].concurrent \in BOOLEAN
  BY <1>1, <1>a
<1>4. Slots \subseteq Active /\ Active \subseteq Index /\ Slots # {}
  BY SomeSlot DEF Slots, Active
<1>5. \A i \in Active : Rules[i].limit > 0 /\ (i \in Slots <=> Rules[i].concurrent)
  BY DEF Slots, Active
<1> QED
  BY <1>3, <1>4, <1>5

\* Where the end of a loop's body leads.
LEMMA ProceedGoes ==
    ASSUME NEW p \in Procs, NEW label \in {"check", "acquire", "rollback", "release"},
           Proceed(p, label), NEW rest, rest = todo[p] \ {At(p)}
    PROVE  \/ rest # {} /\ Goto(p, label, rest)
           \/ rest = {} /\ label = "check" /\ Goto(p, "acquire", Active)
           \/ rest = {} /\ label = "release" /\ Goto(p, "idle", {})
           \/ rest = {} /\ label \in {"acquire", "rollback"} /\ Goto(p, "run", {})
  BY Zenon DEF Proceed

\* What a step may be.
LEMMA NextCases ==
    ASSUME [Next]_vars
    PROVE  \/ \E p \in Procs, ok \in BOOLEAN :
                 \/ (Arrive(p) \/ Serve(p)) /\ happened' = happened
                 \/ CheckOne(p, ok) /\ Note("acquireFails", ok)
                 \/ AcquireIncr(p, ok) /\ Note("acquireFails", ok)
                 \/ (\E added \in BOOLEAN : AcquireZadd(p, added, ok)) /\ Note("acquireFails", ok)
                 \/ Rollback(p, ok) /\ Note("acquireFails", ok)
                 \/ AcquireExpire(p, ok) /\ Note("expireFails", ok)
                 \/ Release(p, ok) /\ Note("releaseFails", ok)
                 \/ Reset(p, ok) /\ Note("releaseFails", ok)
           \/ \E i \in Index : KeyExpires(i) /\ Note("keyExpires", FALSE)
           \/ \E i \in Index : Slide(i) /\ happened' = happened
           \/ vars' = vars
<1>1. \A d : Outcomes(d) \subseteq BOOLEAN
  BY Zenon DEF Outcomes
<1>2. CASE \E p \in Procs : (Arrive(p) \/ Serve(p)) /\ UNCHANGED happened
  <2>1. PICK ok \in BOOLEAN : TRUE
    BY Zenon
  <2> QED
    BY <1>2, <2>1, Zenon
<1>3. CASE \E p \in Procs, ok \in Outcomes("acquireFails") :
              (CheckOne(p, ok) \/ AcquireIncr(p, ok) \/ Rollback(p, ok)) /\ Note("acquireFails", ok)
  BY <1>1, <1>3, Zenon
<1>4. CASE \E p \in Procs, added, ok \in Outcomes("acquireFails") :
              AcquireZadd(p, added, ok) /\ Note("acquireFails", ok)
  <2>1. PICK p \in Procs, added \in Outcomes("acquireFails"), ok \in Outcomes("acquireFails") :
              AcquireZadd(p, added, ok) /\ Note("acquireFails", ok)
    BY <1>4
  <2>2. added \in BOOLEAN /\ ok \in BOOLEAN
    BY <1>1
  <2> QED
    BY <2>1, <2>2, Zenon
<1>5. CASE \E p \in Procs, ok \in Outcomes("expireFails") :
              AcquireExpire(p, ok) /\ Note("expireFails", ok)
  BY <1>1, <1>5, Zenon
<1>6. CASE \E p \in Procs, ok \in Outcomes("releaseFails") :
              (Release(p, ok) \/ Reset(p, ok)) /\ Note("releaseFails", ok)
  BY <1>1, <1>6, Zenon
<1>7. CASE \/ \E i \in Index : KeyExpires(i) /\ Note("keyExpires", FALSE)
           \/ \E i \in Index : Slide(i) /\ UNCHANGED happened
  BY <1>7, Zenon
<1>8. CASE vars' = vars
  BY <1>8
<1> QED
  BY <1>2, <1>3, <1>4, <1>5, <1>6, <1>7, <1>8, Zenon DEF Next

\* A step of a request, for the other requests.
LEMMA OthersStay ==
    ASSUME Types, NEW p \in Procs, NEW ok \in BOOLEAN,
           \/ Arrive(p) \/ Serve(p) \/ CheckOne(p, ok) \/ AcquireIncr(p, ok)
           \/ (\E added \in BOOLEAN : AcquireZadd(p, added, ok)) \/ Rollback(p, ok)
           \/ AcquireExpire(p, ok) \/ Release(p, ok) \/ Reset(p, ok)
    PROVE  \A q \in Procs \ {p} : pc'[q] = pc[q] /\ todo'[q] = todo[q] /\ held'[q] = held[q]
<1>1. pc \in [Procs -> Labels] /\ todo \in [Procs -> SUBSET Active] /\ held \in [Procs -> SUBSET Slots]
  BY DEF Types, LoopTypes
<1>2. \E label, rules : Goto(p, label, rules)
  BY Zenon DEF Arrive, Serve, CheckOne, AcquireIncr, AcquireZadd, Rollback, AcquireExpire,
               Release, Reset, Proceed, FailOpen
<1>3. \A q \in Procs \ {p} : held'[q] = held[q]
  BY <1>1, Zenon DEF Arrive, Serve, CheckOne, AcquireIncr, AcquireZadd, Rollback, AcquireExpire,
                     Release, Reset
<1> QED
  BY <1>1, <1>2, <1>3 DEF Goto

-----------------------------------------------------------------------------
(* Types                                                                   *)

\* A request goes to a label, with rules that its loop can look at.
LEMMA GotoTypes ==
    ASSUME LoopTypes, NEW p \in Procs, NEW label \in Labels, NEW rules \in SUBSET Active,
           label \in Loops => rules # {},
           label \in {"rollback", "release", "reset"} => rules \subseteq Slots,
           label = "expire" => rules = todo[p] /\ At(p) \in Slots,
           Goto(p, label, rules)
    PROVE  LoopTypes'
<1>1. /\ pc \in [Procs -> Labels] /\ todo \in [Procs -> SUBSET Active]
      /\ pc' = [pc EXCEPT ![p] = label] /\ todo' = [todo EXCEPT ![p] = rules]
  BY DEF LoopTypes, Goto
<1>2. /\ pc' \in [Procs -> Labels] /\ todo' \in [Procs -> SUBSET Active]
      /\ pc'[p] = label /\ todo'[p] = rules
      /\ \A q \in Procs \ {p} : pc'[q] = pc[q] /\ todo'[q] = todo[q]
  BY <1>1
<1>3. \A q \in Procs : pc'[q] = "expire" => At(q)' \in Slots
  BY <1>2 DEF LoopTypes, At
<1>4. /\ \A q \in Procs : pc'[q] \in Loops => todo'[q] # {}
      /\ \A q \in Procs : pc'[q] \in {"rollback", "release", "reset"} => todo'[q] \subseteq Slots
  BY <1>2 DEF LoopTypes
<1> QED
  BY <1>2, <1>3, <1>4 DEF LoopTypes

\* The end of a loop's body.
LEMMA ProceedTypes ==
    ASSUME LoopTypes, NEW p \in Procs, NEW label \in {"check", "acquire", "rollback", "release"},
           label \in {"rollback", "release"} => todo[p] \subseteq Slots,
           Proceed(p, label)
    PROVE  LoopTypes'
<1>1. PICK rest : rest = todo[p] \ {At(p)}
  BY Zenon
<1>2. rest \in SUBSET Active /\ rest \subseteq todo[p] /\ Active # {} /\ Active \in SUBSET Active
  BY <1>1, RuleFacts DEF LoopTypes
<1>3. \/ rest # {} /\ Goto(p, label, rest)
      \/ rest = {} /\ label = "check" /\ Goto(p, "acquire", Active)
      \/ rest = {} /\ label = "release" /\ Goto(p, "idle", {})
      \/ rest = {} /\ label \in {"acquire", "rollback"} /\ Goto(p, "run", {})
  BY <1>1, ProceedGoes
<1>4. CASE rest # {} /\ Goto(p, label, rest)
  BY <1>2, <1>4, GotoTypes DEF Labels, Loops
<1>5. CASE Goto(p, "acquire", Active)
  BY <1>2, <1>5, GotoTypes DEF Labels, Loops
<1>6. CASE Goto(p, "idle", {}) \/ Goto(p, "run", {})
  BY <1>6, GotoTypes DEF Labels, Loops
<1> QED
  BY <1>3, <1>4, <1>5, <1>6

\* An error of acquireOne.
LEMMA FailOpenTypes ==
    ASSUME LoopTypes, NEW p \in Procs, FailOpen(p)
    PROVE  LoopTypes'
<1>1. PICK before : before = {i \in Slots : i < At(p)}
  BY Zenon
<1>2. before \subseteq Slots /\ before \in SUBSET Active
  BY <1>1, RuleFacts
<1>3. Goto(p, "run", before) \/ (before # {} /\ Goto(p, "rollback", before))
  BY <1>1 DEF FailOpen
<1> QED
  BY <1>2, <1>3, GotoTypes DEF Labels, Loops

\* INCR and DECR of a counter.
LEMMA AddedType ==
    ASSUME StoreTypes, NEW i \in Index, NEW d \in Int
    PROVE  /\ Added(i, d) \in [n : Int, life : {"none", "forever", "ttl"}]
           /\ Added(i, d).n = counter[i].n + d
           /\ Added(i, d).life = IF counter[i].life = "none" THEN "forever" ELSE counter[i].life
<1>1. counter[i].n \in Int /\ counter[i].life \in {"none", "forever", "ttl"}
  BY DEF StoreTypes
<1> QED
  BY <1>1 DEF Added

\* A counter that gets a value.
LEMMA CounterTypes ==
    ASSUME StoreTypes, NEW i \in Index, NEW v \in [n : Int, life : {"none", "forever", "ttl"}],
           counter' = [counter EXCEPT ![i] = v], window' = window
    PROVE  StoreTypes'
  BY DEF StoreTypes

\* The types are an invariant.
LEMMA TypesHold == Types /\ [Next]_vars => Types'
<1> SUFFICES ASSUME Types, [Next]_vars PROVE Types'
  OBVIOUS
<1>t. StoreTypes /\ LoopTypes /\ held \in [Procs -> SUBSET Slots]
  BY DEF Types
<1>l. /\ pc \in [Procs -> Labels] /\ todo \in [Procs -> SUBSET Active]
      /\ \A p \in Procs : pc[p] \in Loops => todo[p] # {}
  BY <1>t DEF LoopTypes
<1>r. [n |-> 0, life |-> "forever"] \in [n : Int, life : {"none", "forever", "ttl"}]
  OBVIOUS
<1>1. ASSUME NEW p \in Procs, NEW ok \in BOOLEAN, Arrive(p) \/ Serve(p) \/ CheckOne(p, ok)
      PROVE  Types'
  <2>1. StoreTypes' /\ held' = held
    BY <1>1, <1>t, Zenon DEF Arrive, Serve, CheckOne, StoreTypes
  <2>2. \/ Goto(p, "check", Active) \/ Goto(p, "release", Slots) \/ Goto(p, "acquire", Active)
        \/ Goto(p, "idle", {}) \/ Proceed(p, "check")
    BY <1>1, Zenon DEF Arrive, Serve, CheckOne
  <2>3. LoopTypes'
    BY <1>t, <2>2, RuleFacts, GotoTypes, ProceedTypes DEF Labels, Loops
  <2> QED
    BY <1>t, <2>1, <2>3 DEF Types
<1>2. ASSUME NEW p \in Procs, NEW ok \in BOOLEAN, AcquireIncr(p, ok) PROVE Types'
  <2>0. PICK i : i = At(p)
    BY Zenon
  <2>1. i \in Slots /\ i \in Index /\ todo[p] # {}
    BY <1>2, <1>t, <1>l, <2>0, AtIsMember, RuleFacts, Zenon DEF AcquireIncr, Loops
  <2>2. LoopTypes'
    <3>1. Goto(p, "expire", todo[p]) \/ Proceed(p, "acquire") \/ FailOpen(p)
      BY <1>2, Zenon DEF AcquireIncr
    <3>2. todo[p] \in SUBSET Active
      BY <1>l, Zenon
    <3> QED
      BY <1>t, <2>0, <2>1, <3>1, <3>2, GotoTypes, ProceedTypes, FailOpenTypes, Zenon DEF Labels, Loops
  <2>3. StoreTypes' /\ held' \in [Procs -> SUBSET Slots]
    <3>1. CASE ok
      <4>1. /\ counter' = [counter EXCEPT ![i] = Added(i, 1)] /\ window' = window
            /\ held' = [held EXCEPT ![p] = @ \cup {i}]
        BY <1>2, <2>0, <3>1 DEF AcquireIncr
      <4>2. held' \in [Procs -> SUBSET Slots]
        BY <1>t, <2>1, <4>1
      <4>3. PICK v : v = Added(i, 1)
        BY Zenon
      <4>4. v \in [n : Int, life : {"none", "forever", "ttl"}]
        BY <1>t, <2>1, <4>3, AddedType
      <4>5. StoreTypes'
        BY <1>t, <2>1, <4>1, <4>3, <4>4, CounterTypes, Zenon
      <4> QED
        BY <4>2, <4>5
    <3>2. CASE ~ ok
      BY <1>2, <1>t, <3>2 DEF AcquireIncr, StoreTypes
    <3> QED
      BY <3>1, <3>2
  <2> QED
    BY <2>2, <2>3 DEF Types
<1>3. ASSUME NEW p \in Procs, NEW ok \in BOOLEAN, AcquireExpire(p, ok) PROVE Types'
  <2>0. PICK i : i = At(p)
    BY Zenon
  <2>1. i \in Index
    BY <1>3, <1>t, <1>l, <2>0, AtIsMember DEF AcquireExpire, Loops
  <2>2. LoopTypes'
    BY <1>3, <1>t, ProceedTypes, FailOpenTypes DEF AcquireExpire
  <2>3. held' = held /\ window' = window
    BY <1>3 DEF AcquireExpire
  <2>4. StoreTypes'
    <3>1. CASE ok
      <4>1. counter[i] \in [n : Int, life : {"none", "forever", "ttl"}]
        BY <1>t, <2>1 DEF StoreTypes
      <4>2. PICK v : v = [counter[i] EXCEPT !.life = IF @ = "none" THEN @ ELSE "ttl"]
        BY Zenon
      <4>3. v \in [n : Int, life : {"none", "forever", "ttl"}]
        BY <4>1, <4>2
      <4>4. counter' = [counter EXCEPT ![i] = v]
        BY <1>3, <1>t, <2>0, <2>1, <3>1, <4>2 DEF AcquireExpire, StoreTypes
      <4> QED
        BY <1>t, <2>1, <2>3, <4>3, <4>4, CounterTypes, Zenon
    <3>2. CASE ~ ok
      BY <1>3, <1>t, <2>3, <3>2 DEF AcquireExpire, StoreTypes
    <3> QED
      BY <3>1, <3>2
  <2> QED
    BY <1>t, <2>2, <2>3, <2>4 DEF Types
<1>4. ASSUME NEW p \in Procs, NEW ok \in BOOLEAN, NEW added \in BOOLEAN, AcquireZadd(p, added, ok)
      PROVE  Types'
  <2>0. PICK i : i = At(p)
    BY Zenon
  <2>1. i \in Index
    BY <1>4, <1>t, <1>l, <2>0, AtIsMember, Zenon DEF AcquireZadd, Loops
  <2>2. LoopTypes'
    BY <1>4, <1>t, ProceedTypes, FailOpenTypes, Zenon DEF AcquireZadd
  <2>3. held' = held /\ counter' = counter
    BY <1>4, Zenon DEF AcquireZadd
  <2>4. window' = window \/ window' = [window EXCEPT ![i] = window[i] + 1]
    BY <1>4, <2>0 DEF AcquireZadd
  <2>5. StoreTypes'
    BY <1>t, <2>1, <2>3, <2>4 DEF StoreTypes
  <2> QED
    BY <1>t, <2>2, <2>3, <2>5 DEF Types
<1>5. ASSUME NEW p \in Procs, NEW ok \in BOOLEAN, Rollback(p, ok) \/ Release(p, ok) \/ Reset(p, ok)
      PROVE  Types'
  <2>0. PICK i : i = At(p)
    BY Zenon
  <2>1. i \in Index /\ todo[p] # {} /\ todo[p] \subseteq Slots /\ todo[p] \in SUBSET Active
    BY <1>5, <1>t, <1>l, <2>0, AtIsMember, Zenon DEF Rollback, Release, Reset, Loops, LoopTypes
  <2>2. LoopTypes'
    <3>1. Goto(p, "reset", todo[p]) \/ Proceed(p, "release") \/ Proceed(p, "rollback")
      BY <1>5, Zenon DEF Rollback, Release, Reset
    <3> QED
      BY <1>t, <2>1, <3>1, GotoTypes, ProceedTypes, Zenon DEF Labels, Loops
  <2>3. held' \in [Procs -> SUBSET Slots] /\ window' = window
    BY <1>5, <1>t, Zenon DEF Rollback, Release, Reset
  <2>4. PICK v : v = Added(i, -1)
    BY Zenon
  <2>5. v \in [n : Int, life : {"none", "forever", "ttl"}]
    BY <1>t, <2>1, <2>4, AddedType
  <2>6. \/ counter' = counter \/ counter' = [counter EXCEPT ![i] = v]
        \/ counter' = [counter EXCEPT ![i] = [n |-> 0, life |-> "forever"]]
    BY <1>5, <2>0, <2>4, Zenon DEF Rollback, Release, Reset
  <2>7. CASE counter' = counter
    BY <1>t, <2>2, <2>3, <2>7, Zenon DEF Types, StoreTypes
  <2> QED
    BY <1>r, <1>t, <2>1, <2>2, <2>3, <2>5, <2>6, <2>7, CounterTypes, Zenon DEF Types
<1>6. ASSUME NEW i \in Index, KeyExpires(i) PROVE Types'
  <2>1. NoKey \in [n : Int, life : {"none", "forever", "ttl"}]
    BY DEF NoKey
  <2>2. counter' = [counter EXCEPT ![i] = NoKey] /\ window' = window /\ pc' = pc /\ todo' = todo
        /\ held' = held
    BY <1>6 DEF KeyExpires
  <2>3. StoreTypes'
    BY <1>t, <2>1, <2>2, CounterTypes, Zenon
  <2> QED
    BY <1>t, <2>2, <2>3 DEF Types, LoopTypes, At
<1>7. ASSUME NEW i \in Index, Slide(i) PROVE Types'
  <2>1. window' \in [Index -> Nat]
    BY <1>7, <1>t DEF Slide, StoreTypes
  <2> QED
    BY <1>7, <1>t, <2>1, Zenon DEF Slide, Types, StoreTypes, LoopTypes, At
<1>8. CASE vars' = vars
  BY <1>8, <1>t, Zenon DEF vars, Types, StoreTypes, LoopTypes, At
<1> QED
  BY <1>1, <1>2, <1>3, <1>4, <1>5, <1>6, <1>7, <1>8, NextCases, Zenon

\* Init has the types.
LEMMA TypesInit == Init => Types
<1>1. NoKey \in [n : Int, life : {"none", "forever", "ttl"}]
  BY DEF NoKey
<1> QED
  BY <1>1 DEF Init, Types, StoreTypes, LoopTypes, Labels, Loops

-----------------------------------------------------------------------------
(* Negative counters                                                       *)

\* A step that brings no counter below 0 that nobody is to reset.
LEMMA OwedQuiet ==
    ASSUME Owed, happened \subseteq happened',
           "releaseFails" \notin happened' =>
               \A i \in Slots : counter'[i].n < 0 =>
                   \/ \E q \in Procs : Owes(q, i)'
                   \/ counter[i].n < 0 /\ \A q \in Procs : Owes(q, i) => Owes(q, i)'
    PROVE  Owed'
<1> SUFFICES ASSUME "releaseFails" \notin happened', NEW i \in Slots, counter'[i].n < 0
             PROVE  \E q \in Procs : Owes(q, i)'
  BY DEF Owed
<1>1. "releaseFails" \notin happened
  OBVIOUS
<1> QED
  BY <1>1 DEF Owed

\* Release: when no request is on its way and no release has failed, no counter
\* is negative; for any number of requests and any rules.
THEOREM SpecNoNegativeDrift == Spec => []NoNegativeDrift
<1>1. Init => Owed
  BY RuleFacts DEF Init, Owed, NoKey
<1>2. ASSUME Types, Owed, [Next]_vars PROVE Owed'
  <2>t. /\ StoreTypes /\ LoopTypes
        /\ pc \in [Procs -> Labels] /\ todo \in [Procs -> SUBSET Active]
        /\ \A p \in Procs : pc[p] \in Loops => todo[p] # {}
        /\ counter \in [Index -> [n : Int, life : {"none", "forever", "ttl"}]]
        /\ \A i \in Slots : i \in Index /\ counter[i].n \in Int
    BY <1>2, RuleFacts DEF Types, LoopTypes, StoreTypes
  <2>n. \A e, ok : Note(e, ok) => happened \subseteq happened'
    BY Zenon DEF Note
  <2>1. ASSUME NEW p \in Procs, NEW ok \in BOOLEAN, happened \subseteq happened',
               \/ Arrive(p) \/ CheckOne(p, ok) \/ AcquireIncr(p, ok) \/ AcquireExpire(p, ok)
               \/ \E added \in BOOLEAN : AcquireZadd(p, added, ok)
        PROVE  Owed'
    <3>1. \A q \in Procs \ {p} : pc'[q] = pc[q] /\ todo'[q] = todo[q]
      BY <1>2, <2>1, OthersStay, Zenon
    <3>2. pc[p] \in {"idle", "check", "acquire", "expire"}
      BY <2>1, Zenon DEF Arrive, CheckOne, AcquireIncr, AcquireExpire, AcquireZadd
    <3>3. \A i \in Slots, q \in Procs : Owes(q, i) => Owes(q, i)'
      BY <3>1, <3>2 DEF Owes
    <3>4. \A i \in Slots : counter'[i].n < 0 => counter[i].n < 0
      <4>1. CASE counter' = counter
        BY <4>1
      <4>2. CASE AcquireIncr(p, ok) /\ counter' # counter
        <5>1. PICK j \in Index : j = At(p)
          BY <2>t, <4>2, AtIsMember, Zenon DEF AcquireIncr, Loops
        <5>2. counter' = [counter EXCEPT ![j] = Added(j, 1)]
          BY <4>2, <5>1, Zenon DEF AcquireIncr
        <5>3. Added(j, 1).n = counter[j].n + 1
          BY <2>t, AddedType
        <5> QED
          BY <2>t, <5>2, <5>3
      <4>3. CASE AcquireExpire(p, ok) /\ counter' # counter
        <5>1. PICK j \in Index : j = At(p)
          BY <2>t, <4>3, AtIsMember DEF AcquireExpire, Loops
        <5>2. counter' = [counter EXCEPT ![j].life = IF @ = "none" THEN @ ELSE "ttl"]
          BY <4>3, <5>1 DEF AcquireExpire
        <5>3. \A i \in Index : counter'[i].n = counter[i].n
          BY <2>t, <5>2
        <5> QED
          BY <2>t, <5>3
      <4> QED
        BY <2>1, <4>1, <4>2, <4>3, Zenon DEF Arrive, CheckOne, AcquireZadd
    <3> QED
      BY <1>2, <2>1, <3>3, <3>4, OwedQuiet, Zenon
  <2>2. ASSUME NEW p \in Procs, NEW ok \in BOOLEAN, Rollback(p, ok), happened \subseteq happened'
        PROVE  Owed'
    <3>1. PICK rest : rest = todo[p] \ {At(p)}
      BY Zenon
    <3>2. Goto(p, "rollback", rest) \/ Goto(p, "run", {})
      BY <2>2, <3>1, ProceedGoes DEF Rollback
    <3>3. pc'[p] \in {"rollback", "run"}
      BY <2>t, <3>2 DEF Goto
    <3>4. \A i \in Slots : Owes(p, i)'
      BY <3>3, Zenon DEF Owes
    <3> QED
      BY <1>2, <2>2, <3>4, OwedQuiet
  <2>3. ASSUME NEW p \in Procs, Serve(p), happened' = happened PROVE Owed'
    <3>1. pc'[p] = "release" /\ todo'[p] = Slots
      BY <2>3, <2>t, Zenon DEF Serve, Goto
    <3>2. \A i \in Slots : Owes(p, i)'
      BY <3>1, Zenon DEF Owes
    <3> QED
      BY <1>2, <2>3, <3>2, OwedQuiet, Zenon
  <2>4. ASSUME NEW p \in Procs, NEW ok \in BOOLEAN, Note("releaseFails", ok),
               Release(p, ok) \/ Reset(p, ok)
        PROVE  Owed'
    <3>0. PICK j \in Index : j = At(p) /\ j \in todo[p]
      BY <2>4, <2>t, AtIsMember, Zenon DEF Release, Reset, Loops
    <3>1. \A q \in Procs \ {p} : pc'[q] = pc[q] /\ todo'[q] = todo[q]
      BY <1>2, <2>4, OthersStay, Zenon
    <3>2. CASE ~ ok
      <4>1. "releaseFails" \in happened'
        BY <2>4, <3>2, Zenon DEF Note
      <4> QED
        BY <4>1, Zenon DEF Owed
    <3>3. CASE ok /\ Goto(p, "reset", todo[p]) /\ Release(p, ok)
      <4>1. pc'[p] = "reset" /\ todo'[p] = todo[p] /\ pc[p] = "release"
        BY <2>t, <3>3, Zenon DEF Goto, Release
      <4>2. \A i \in Slots, q \in Procs : Owes(q, i) => Owes(q, i)'
        BY <3>1, <4>1, Zenon DEF Owes
      <4>3. Owes(p, j)'
        BY <3>0, <4>1, Zenon DEF Owes
      <4>4. counter' = [counter EXCEPT ![j] = Added(j, -1)]
        BY <3>0, <3>3, Zenon DEF Release
      <4>5. \A i \in Slots : i # j => counter'[i] = counter[i]
        BY <2>t, <4>4, Zenon
      <4> QED
        BY <1>2, <2>4, <2>n, <4>2, <4>3, <4>5, OwedQuiet, Zenon
    <3>4. CASE ok /\ Proceed(p, "release") /\ counter'[j].n >= 0
      <4>1. PICK rest : rest = todo[p] \ {j}
        BY Zenon
      <4>2. (rest # {} /\ Goto(p, "release", rest)) \/ (rest = {} /\ Goto(p, "idle", {}))
        BY <3>0, <3>4, <4>1, ProceedGoes, Zenon
      <4>3. \A i \in todo[p] \ {j} : pc'[p] = "release" /\ i \in todo'[p]
        BY <2>t, <4>1, <4>2, Zenon DEF Goto
      <4>4. pc[p] \in {"release", "reset"}
        BY <2>4, Zenon DEF Release, Reset
      <4>5. \A i \in Slots : i # j => \A q \in Procs : Owes(q, i) => Owes(q, i)'
        BY <3>1, <4>3, <4>4, Zenon DEF Owes
      <4>6. \A i \in Slots : i # j => counter'[i] = counter[i]
        <5>1. \/ counter' = [counter EXCEPT ![j] = Added(j, -1)]
              \/ counter' = [counter EXCEPT ![j] = [n |-> 0, life |-> "forever"]]
          BY <2>4, <3>0, <3>4, Zenon DEF Release, Reset
        <5> QED
          BY <2>t, <5>1, Zenon
      <4>7. \A i \in Slots : counter'[i].n < 0 => i # j
        <5>1. counter'[j].n \in Int
          <6>1. Types'
            BY <1>2, TypesHold, Zenon
          <6> QED
            BY <6>1, Zenon DEF Types, StoreTypes
        <5> QED
          BY <3>4, <5>1
      <4> QED
        BY <1>2, <2>4, <2>n, <4>5, <4>6, <4>7, OwedQuiet, Zenon
    <3>5. ASSUME ok PROVE \/ Goto(p, "reset", todo[p]) /\ Release(p, ok)
                          \/ Proceed(p, "release") /\ counter'[j].n >= 0
      <4>1. CASE Release(p, ok)
        <5>1. counter'[j] = Added(j, -1) /\ Added(j, -1).n = counter[j].n - 1 /\ counter[j].n \in Int
          BY <2>t, <3>0, <3>5, <4>1, AddedType DEF Release
        <5>2. CASE counter[j].n - 1 < 0
          BY <3>0, <3>5, <4>1, <5>2, Zenon DEF Release
        <5>3. CASE ~ (counter[j].n - 1 < 0)
          BY <3>0, <3>5, <4>1, <5>1, <5>3 DEF Release
        <5> QED
          BY <5>2, <5>3, Zenon
      <4>2. CASE Reset(p, ok)
        <5>1. Proceed(p, "release") /\ counter' = [counter EXCEPT ![j] = [n |-> 0, life |-> "forever"]]
          BY <3>0, <3>5, <4>2, Zenon DEF Reset
        <5>2. counter'[j].n = 0
          BY <2>t, <5>1, Zenon
        <5> QED
          BY <5>1, <5>2
      <4> QED
        BY <2>4, <4>1, <4>2, Zenon
    <3> QED
      BY <3>2, <3>3, <3>4, <3>5, Zenon
  <2>5. ASSUME NEW i \in Index, KeyExpires(i) \/ Slide(i) \/ vars' = vars, happened \subseteq happened'
        PROVE  Owed'
    <3>1. pc' = pc /\ todo' = todo
      BY <2>5, Zenon DEF KeyExpires, Slide, vars
    <3>2. counter' = counter \/ counter' = [counter EXCEPT ![i] = NoKey]
      BY <2>5 DEF KeyExpires, Slide, vars
    <3>3. NoKey.n = 0
      BY Zenon DEF NoKey
    <3>4. \A k \in Slots : counter'[k].n < 0 => counter[k].n < 0
      BY <2>t, <3>2, <3>3
    <3>5. \A k \in Slots, q \in Procs : Owes(q, k) => Owes(q, k)'
      BY <3>1, Zenon DEF Owes
    <3> QED
      BY <1>2, <2>5, <3>4, <3>5, OwedQuiet, Zenon
  <2>6. CASE vars' = vars
    <3>1. \E i \in Index : TRUE
      BY RuleFacts, Zenon
    <3> QED
      BY <2>5, <2>6, <3>1, Zenon DEF vars
  <2> QED
    BY <1>2, <2>n, <2>1, <2>2, <2>3, <2>4, <2>5, <2>6, NextCases, Zenon
<1>3. Types /\ Owed => NoNegativeDrift
  <2> SUFFICES ASSUME Types, Owed, \A p \in Procs : pc[p] = "idle", "releaseFails" \notin happened,
                      NEW i \in Slots
               PROVE  counter[i].n >= 0
    BY Zenon DEF NoNegativeDrift
  <2>1. counter[i].n \in Int
    BY RuleFacts, Zenon DEF Types, StoreTypes
  <2>2. ~ (counter[i].n < 0)
    BY Zenon DEF Owed, Owes
  <2> QED
    BY <2>1, <2>2
<1> QED
  BY <1>1, <1>2, <1>3, TypesInit, TypesHold, PTL DEF Spec

-----------------------------------------------------------------------------
(* The TTL of the counters                                                 *)

\* A request is between the INCR and the EXPIRE of slot i.
Arming(i) == \E p \in Procs : pc[p] = "expire" /\ At(p) = i

\* What a step may do to the counters above 0.
LEMMA LivesStep ==
    ASSUME Lives, happened \subseteq happened',
           \A i \in Slots : counter'[i].life = "none" => counter'[i].n = 0,
           "expireFails" \notin happened' =>
               \A i \in Slots : counter'[i].n > 0 =>
                   \/ Arming(i)'
                   \/ counter'[i].life = "ttl"
                   \/ /\ counter[i].n > 0
                      /\ counter[i].life = "ttl" => counter'[i].life = "ttl"
                      /\ Arming(i) => Arming(i)'
    PROVE  Lives'
<1> SUFFICES ASSUME "expireFails" \notin happened', NEW i \in Slots, counter'[i].n > 0, ~ Arming(i)'
             PROVE  counter'[i].life = "ttl"
  BY Zenon DEF Lives, LeakExpires, Arming
<1>1. "expireFails" \notin happened
  BY Zenon
<1>2. counter[i].n > 0 /\ ~ Arming(i) => counter[i].life = "ttl"
  BY <1>1, Zenon DEF Lives, LeakExpires, Arming
<1> QED
  BY <1>2, Zenon

\* A request that was not between INCR and EXPIRE leaves the others there.
LEMMA ArmingStays ==
    ASSUME NEW p \in Procs, pc[p] # "expire",
           \A q \in Procs \ {p} : pc'[q] = pc[q] /\ todo'[q] = todo[q]
    PROVE  \A i \in Slots : Arming(i) => Arming(i)'
  BY Zenon DEF Arming, At

\* acquireOne: a counter above 0 has a TTL, unless a request is between INCR and
\* EXPIRE or an EXPIRE has failed; for any number of requests and any rules.
THEOREM SpecLeakExpires == Spec => []LeakExpires
<1>1. Init => Lives
  BY RuleFacts DEF Init, Lives, LeakExpires, NoKey
<1>2. ASSUME Types, Lives, [Next]_vars PROVE Lives'
  <2>t. /\ StoreTypes /\ LoopTypes
        /\ pc \in [Procs -> Labels] /\ todo \in [Procs -> SUBSET Active]
        /\ \A p \in Procs : pc[p] \in Loops => todo[p] # {}
        /\ counter \in [Index -> [n : Int, life : {"none", "forever", "ttl"}]]
        /\ \A i \in Slots : i \in Index /\ counter[i].n \in Int
    BY <1>2, RuleFacts DEF Types, LoopTypes, StoreTypes
  <2>n. \A e, ok : Note(e, ok) => happened \subseteq happened'
    BY DEF Note
  <2>z. \A i \in Slots : counter[i].life = "none" => counter[i].n = 0
    BY <1>2, Zenon DEF Lives
  <2>1. ASSUME NEW p \in Procs, NEW ok \in BOOLEAN, happened \subseteq happened',
               \/ Arrive(p) \/ Serve(p) \/ CheckOne(p, ok)
               \/ \E added \in BOOLEAN : AcquireZadd(p, added, ok)
        PROVE  Lives'
    <3>1. \A q \in Procs \ {p} : pc'[q] = pc[q] /\ todo'[q] = todo[q]
      BY <1>2, <2>1, OthersStay, Zenon
    <3>2. pc[p] # "expire" /\ counter' = counter
      BY <2>1, Zenon DEF Arrive, Serve, CheckOne, AcquireZadd
    <3>3. \A i \in Slots : Arming(i) => Arming(i)'
      BY <3>1, <3>2, ArmingStays, Zenon
    <3> QED
      BY <1>2, <2>1, <2>z, <3>2, <3>3, LivesStep, Zenon
  <2>2. ASSUME NEW p \in Procs, NEW ok \in BOOLEAN, happened \subseteq happened', AcquireIncr(p, ok)
        PROVE  Lives'
    <3>1. \A q \in Procs \ {p} : pc'[q] = pc[q] /\ todo'[q] = todo[q]
      BY <1>2, <2>2, OthersStay, Zenon
    <3>2. pc[p] = "acquire"
      BY <2>2, Zenon DEF AcquireIncr
    <3>3. \A i \in Slots : Arming(i) => Arming(i)'
      BY <3>1, <3>2, ArmingStays, Zenon
    <3>4. CASE ~ ok
      <4>1. counter' = counter
        BY <2>2, <3>4, Zenon DEF AcquireIncr
      <4> QED
        BY <1>2, <2>2, <2>z, <3>3, <4>1, LivesStep, Zenon
    <3>5. CASE ok
      <4>1. PICK j \in Index : j = At(p)
        BY <2>t, <3>2, AtIsMember, Zenon DEF Loops
      <4>2. counter' = [counter EXCEPT ![j] = Added(j, 1)]
        BY <2>2, <3>5, <4>1, Zenon DEF AcquireIncr
      <4>3. /\ Added(j, 1).n = counter[j].n + 1
            /\ Added(j, 1).life = IF counter[j].life = "none" THEN "forever" ELSE counter[j].life
        BY <2>t, AddedType
      <4>4. \A i \in Slots : i # j => counter'[i] = counter[i]
        BY <2>t, <4>2, Zenon
      <4>5. counter'[j] = Added(j, 1)
        BY <2>t, <4>2, Zenon
      <4>6. \A i \in Slots : counter'[i].life = "none" => counter'[i].n = 0
        BY <2>z, <4>3, <4>4, <4>5, Zenon
      <4>7. ASSUME counter[j].n = 0 PROVE Arming(j)'
        <5>1. Goto(p, "expire", todo[p])
          BY <2>2, <3>5, <4>1, <4>7 DEF AcquireIncr
        <5>2. pc'[p] = "expire" /\ todo'[p] = todo[p]
          BY <2>t, <5>1, Zenon DEF Goto
        <5> QED
          BY <4>1, <5>2, Zenon DEF Arming, At
      <4>8. ASSUME j \in Slots, counter'[j].n > 0, counter[j].n # 0 PROVE counter[j].n > 0
        BY <2>t, <4>3, <4>5, <4>8
      <4>9. counter[j].life = "ttl" => counter'[j].life = "ttl"
        BY <4>3, <4>5, Zenon
      <4> QED
        BY <1>2, <2>2, <3>3, <4>4, <4>6, <4>7, <4>8, <4>9, LivesStep, Zenon
    <3> QED
      BY <3>4, <3>5, Zenon
  <2>3. ASSUME NEW p \in Procs, NEW ok \in BOOLEAN, Note("expireFails", ok), AcquireExpire(p, ok)
        PROVE  Lives'
    <3>1. \A q \in Procs \ {p} : pc'[q] = pc[q] /\ todo'[q] = todo[q]
      BY <1>2, <2>3, OthersStay, Zenon
    <3>4. CASE ~ ok
      <4>1. counter' = counter /\ "expireFails" \in happened'
        BY <2>3, <3>4, Zenon DEF AcquireExpire, Note
      <4> QED
        BY <1>2, <2>3, <2>n, <2>z, <4>1, LivesStep, Zenon
    <3>5. CASE ok
      <4>1. PICK j \in Index : j = At(p)
        BY <2>3, <2>t, AtIsMember, Zenon DEF AcquireExpire, Loops
      <4>2. counter' = [counter EXCEPT ![j].life = IF @ = "none" THEN @ ELSE "ttl"]
        BY <2>3, <3>5, <4>1, Zenon DEF AcquireExpire
      <4>3. \A i \in Slots : i # j => counter'[i] = counter[i]
        BY <2>t, <4>2
      <4>4. /\ counter'[j].n = counter[j].n
            /\ counter'[j].life = IF counter[j].life = "none" THEN "none" ELSE "ttl"
        BY <2>t, <4>2, Zenon
      <4>5. \A i \in Slots : counter'[i].life = "none" => counter'[i].n = 0
        BY <2>z, <4>3, <4>4, Zenon
      <4>6. \A i \in Slots : i # j => (Arming(i) => Arming(i)')
        BY <3>1, <4>1, Zenon DEF Arming, At
      <4>7. j \in Slots /\ counter'[j].n > 0 => counter'[j].life = "ttl"
        BY <2>z, <4>4
      <4> QED
        BY <1>2, <2>3, <2>n, <4>3, <4>5, <4>6, <4>7, LivesStep, Zenon
    <3> QED
      BY <3>4, <3>5, Zenon
  <2>4. ASSUME NEW p \in Procs, NEW ok \in BOOLEAN, happened \subseteq happened',
               Rollback(p, ok) \/ Release(p, ok) \/ Reset(p, ok)
        PROVE  Lives'
    <3>1. \A q \in Procs \ {p} : pc'[q] = pc[q] /\ todo'[q] = todo[q]
      BY <1>2, <2>4, OthersStay, Zenon
    <3>2. pc[p] # "expire" /\ pc[p] \in Loops
      BY <2>4, Zenon DEF Rollback, Release, Reset, Loops
    <3>3. \A i \in Slots : Arming(i) => Arming(i)'
      BY <3>1, <3>2, ArmingStays, Zenon
    <3>4. PICK j \in Index : j = At(p)
      BY <2>t, <3>2, AtIsMember, Zenon
    <3>5. \/ counter' = counter \/ counter' = [counter EXCEPT ![j] = Added(j, -1)]
          \/ counter' = [counter EXCEPT ![j] = [n |-> 0, life |-> "forever"]]
      BY <2>4, <3>4, Zenon DEF Rollback, Release, Reset
    <3>6. /\ Added(j, -1).n = counter[j].n - 1
          /\ Added(j, -1).life = IF counter[j].life = "none" THEN "forever" ELSE counter[j].life
      BY <2>t, AddedType
    <3>7. /\ \A i \in Slots : i # j => counter'[i] = counter[i]
          /\ \/ counter'[j] = counter[j] \/ counter'[j] = Added(j, -1)
             \/ counter'[j].n = 0 /\ counter'[j].life = "forever"
      BY <2>t, <3>5
    <3>8. \A i \in Slots : counter'[i].life = "none" => counter'[i].n = 0
      BY <2>z, <3>6, <3>7, Zenon
    <3>9. \A i \in Slots : counter'[i].n > 0 =>
              counter[i].n > 0 /\ (counter[i].life = "ttl" => counter'[i].life = "ttl")
      BY <2>t, <3>6, <3>7
    <3> QED
      BY <1>2, <2>4, <3>3, <3>8, <3>9, LivesStep, Zenon
  <2>5. ASSUME NEW i \in Index, KeyExpires(i) \/ Slide(i) \/ vars' = vars, happened \subseteq happened'
        PROVE  Lives'
    <3>1. pc' = pc /\ todo' = todo
      BY <2>5, Zenon DEF KeyExpires, Slide, vars
    <3>2. counter' = counter \/ counter' = [counter EXCEPT ![i] = NoKey]
      BY <2>5, Zenon DEF KeyExpires, Slide, vars
    <3>3. NoKey.n = 0
      BY Zenon DEF NoKey
    <3>4. \A k \in Slots : counter'[k] = counter[k] \/ counter'[k].n = 0
      BY <2>t, <3>2, <3>3, Zenon
    <3>5. \A k \in Slots : Arming(k) => Arming(k)'
      BY <3>1 DEF Arming, At
    <3> QED
      BY <1>2, <2>5, <2>z, <3>4, <3>5, LivesStep
  <2>6. CASE vars' = vars
    <3>1. \E i \in Index : TRUE
      BY RuleFacts, Zenon
    <3> QED
      BY <2>5, <2>6, <3>1, Zenon DEF vars
  <2> QED
    BY <1>2, <2>n, <2>1, <2>2, <2>3, <2>4, <2>5, <2>6, NextCases, Zenon
<1>3. Lives => LeakExpires
  BY Zenon DEF Lives
<1> QED
  BY <1>1, <1>2, <1>3, TypesInit, TypesHold, PTL DEF Spec

-----------------------------------------------------------------------------
(* The windows                                                             *)

\* The sets of requests are finite.
LEMMA ProcSets ==
    /\ Cardinality(Procs) \in Nat
    /\ \A S \in SUBSET Procs : /\ IsFiniteSet(S) /\ Cardinality(S) \in Nat
                               /\ Cardinality(S) <= Cardinality(Procs)
  BY MultiLimiterAssumption, FS_Subset, FS_CardinalityType, Zenon

\* What a step may do to a window and to the requests that will add to it.
LEMMA OvershootStep ==
    ASSUME Types, Types', Overshoot, happened \subseteq happened',
           "acquireFails" \notin happened' =>
               \A i \in Active \ Slots :
                   \/ window'[i] <= window[i] /\ Adding(i)' \subseteq Adding(i)
                   \/ window'[i] < Rules[i].limit
                   \/ /\ window'[i] <= window[i] + 1
                      /\ \E p \in Adding(i) : Adding(i)' \subseteq Adding(i) \ {p}
    PROVE  Overshoot'
<1> SUFFICES ASSUME NEW i \in Active \ Slots, "acquireFails" \notin happened'
             PROVE  window'[i] + Cardinality(Adding(i)') <= Rules[i].limit + Cardinality(Procs) - 1
  BY Zenon DEF Overshoot
<1>1. window[i] + Cardinality(Adding(i)) <= Rules[i].limit + Cardinality(Procs) - 1
  BY Zenon DEF Overshoot
<1>2. window[i] \in Nat /\ window'[i] \in Nat /\ Rules[i].limit \in Nat /\ Cardinality(Procs) \in Nat
  BY RuleFacts, ProcSets, Zenon DEF Types, StoreTypes
<1>3. PICK A, B : A = Adding(i) /\ B = Adding(i)'
  BY Zenon
<1>4. A \in SUBSET Procs /\ B \in SUBSET Procs
  BY <1>3, Zenon DEF Adding
<1>5. /\ IsFiniteSet(A) /\ IsFiniteSet(B) /\ Cardinality(A) \in Nat /\ Cardinality(B) \in Nat
      /\ Cardinality(B) <= Cardinality(Procs)
  BY <1>4, ProcSets, Zenon
<1>6. CASE window'[i] <= window[i] /\ B \subseteq A
  <2>1. Cardinality(B) <= Cardinality(A)
    BY <1>5, <1>6, FS_Subset, Zenon
  <2> QED
    BY <1>1, <1>2, <1>3, <1>5, <1>6, <2>1
<1>7. CASE window'[i] < Rules[i].limit
  BY <1>2, <1>3, <1>5, <1>7
<1>8. CASE window'[i] <= window[i] + 1 /\ \E p \in A : B \subseteq A \ {p}
  <2>1. PICK p \in A : B \subseteq A \ {p}
    BY <1>8, Zenon
  <2>2. IsFiniteSet(A \ {p}) /\ Cardinality(A \ {p}) = Cardinality(A) - 1
    BY <1>5, FS_RemoveElement, Zenon
  <2>3. Cardinality(B) <= Cardinality(A \ {p})
    BY <2>1, <2>2, FS_Subset, Zenon
  <2> QED
    BY <1>1, <1>2, <1>3, <1>5, <1>8, <2>2, <2>3
<1> QED
  BY <1>3, <1>6, <1>7, <1>8, Zenon

\* The other requests of a step are in the set if they were.
LEMMA AddingOthers ==
    ASSUME NEW p \in Procs, NEW i,
           \A q \in Procs \ {p} : pc'[q] = pc[q] /\ todo'[q] = todo[q]
    PROVE  /\ (p \in Adding(i)' => p \in Adding(i)) => Adding(i)' \subseteq Adding(i)
           /\ p \notin Adding(i)' => Adding(i)' \subseteq Adding(i) \ {p}
  BY Zenon DEF Adding

\* Check and acquireOne: a window exceeds its limit by no more than the other
\* requests in progress, unless a check has failed; for any number of requests
\* and any rules.
THEOREM SpecWindowOvershoot == Spec => []WindowOvershoot
<1>1. Init => Overshoot
  <2> SUFFICES ASSUME Init, NEW i \in Active \ Slots
               PROVE  window[i] + Cardinality(Adding(i)) <= Rules[i].limit + Cardinality(Procs) - 1
    BY Zenon DEF Overshoot
  <2>1. Adding(i) = {} /\ window[i] = 0
    BY RuleFacts, Zenon DEF Init, Adding
  <2>2. Cardinality({}) = 0
    BY FS_EmptySet, Zenon
  <2>3. Rules[i].limit \in Nat /\ Rules[i].limit > 0
    BY RuleFacts, Zenon
  <2> QED
    BY <2>1, <2>2, <2>3, ProcSets
<1>2. ASSUME Types, Types', Overshoot, [Next]_vars PROVE Overshoot'
  <2>t. /\ LoopTypes
        /\ pc \in [Procs -> Labels] /\ todo \in [Procs -> SUBSET Active]
        /\ \A p \in Procs : pc[p] \in Loops => todo[p] # {}
        /\ window \in [Index -> Nat]
        /\ \A i \in Active : i \in Index /\ window[i] \in Nat
    BY <1>2, RuleFacts DEF Types, LoopTypes, StoreTypes
  <2>n. \A e, ok : Note(e, ok) => happened \subseteq happened'
    BY DEF Note
  <2>1. ASSUME NEW p \in Procs, NEW ok \in BOOLEAN, happened \subseteq happened',
               \/ Arrive(p) \/ Serve(p) \/ Rollback(p, ok) \/ Release(p, ok) \/ Reset(p, ok)
        PROVE  Overshoot'
    <3>1. \A q \in Procs \ {p} : pc'[q] = pc[q] /\ todo'[q] = todo[q]
      BY <1>2, <2>1, OthersStay, Zenon
    <3>2. window' = window
      BY <2>1, Zenon DEF Arrive, Serve, Rollback, Release, Reset
    <3>3. (pc'[p] = "check" /\ todo'[p] = Active) \/ pc'[p] \notin {"check", "acquire", "expire"}
      <4>1. PICK rest : rest = todo[p] \ {At(p)}
        BY Zenon
      <4>2. Proceed(p, "rollback") => Goto(p, "rollback", rest) \/ Goto(p, "run", {})
        BY <4>1, ProceedGoes, Zenon
      <4>3. Proceed(p, "release") => Goto(p, "release", rest) \/ Goto(p, "idle", {})
        BY <4>1, ProceedGoes, Zenon
      <4>4. \/ Goto(p, "check", Active) \/ Goto(p, "release", Slots) \/ Goto(p, "reset", todo[p])
            \/ Proceed(p, "rollback") \/ Proceed(p, "release")
        BY <2>1, Zenon DEF Arrive, Serve, Rollback, Release, Reset
      <4> QED
        BY <2>t, <4>2, <4>3, <4>4, Zenon DEF Goto
    <3>4. \A i \in Active : p \notin Adding(i)'
      BY <3>3, Zenon DEF Adding
    <3>5. \A i \in Active : Adding(i)' \subseteq Adding(i)
      BY <3>1, <3>4, AddingOthers, Zenon
    <3>6. \A i \in Active \ Slots : window'[i] <= window[i] /\ Adding(i)' \subseteq Adding(i)
      BY <2>t, <3>2, <3>5
    <3> QED
      BY <1>2, <2>1, <3>6, OvershootStep, Zenon
  <2>2. ASSUME NEW p \in Procs, NEW ok \in BOOLEAN, CheckOne(p, ok), Note("acquireFails", ok)
        PROVE  Overshoot'
    <3>1. \A q \in Procs \ {p} : pc'[q] = pc[q] /\ todo'[q] = todo[q]
      BY <1>2, <2>2, OthersStay
    <3>2. window' = window /\ pc[p] = "check"
      BY <2>2, Zenon DEF CheckOne
    <3>3. PICK j \in Active : j = At(p) /\ j \in todo[p]
      BY <2>t, <3>2, AtIsMember, Zenon DEF Loops
    <3>4. CASE ~ ok
      <4>1. "acquireFails" \in happened'
        BY <2>2, <3>4, Zenon DEF Note
      <4> QED
        BY <4>1, Zenon DEF Overshoot
    <3>5. CASE ok /\ Goto(p, "idle", {})
      <4>1. \A i \in Active : p \notin Adding(i)'
        BY <2>t, <3>5, Zenon DEF Adding, Goto
      <4>2. \A i \in Active : Adding(i)' \subseteq Adding(i)
        BY <3>1, <4>1, AddingOthers, Zenon
      <4> QED
        BY <1>2, <2>2, <2>n, <2>t, <3>2, <4>2, OvershootStep
    <3>6. CASE ok /\ ~ Full(j) /\ Proceed(p, "check")
      <4>1. PICK rest : rest = todo[p] \ {j}
        BY Zenon
      <4>2. \/ rest # {} /\ Goto(p, "check", rest)
            \/ rest = {} /\ Goto(p, "acquire", Active)
        BY <3>3, <3>6, <4>1, ProceedGoes, Zenon
      <4>3. \A i \in Active : i # j /\ p \in Adding(i)' => i \notin todo[p]
        BY <2>t, <4>1, <4>2, Zenon DEF Adding, Goto
      <4>4. \A i \in Active : i # j => Adding(i)' \subseteq Adding(i)
        <5>1. \A i \in Active : i # j /\ p \in Adding(i)' => p \in Adding(i)
          BY <3>2, <4>3, Zenon DEF Adding
        <5> QED
          BY <3>1, <5>1, AddingOthers, Zenon
      <4>5. j \notin Slots => window[j] < Rules[j].limit
        <5>1. j \notin Slots => ~ Rules[j].concurrent
          BY RuleFacts, Zenon
        <5>2. window[j] \in Nat /\ Rules[j].limit \in Nat
          BY <2>t, RuleFacts, Zenon
        <5> QED
          BY <3>6, <5>1, <5>2 DEF Full
      <4> QED
        BY <1>2, <2>2, <2>n, <2>t, <3>2, <4>4, <4>5, OvershootStep
    <3> QED
      BY <2>2, <3>3, <3>4, <3>5, <3>6, Zenon DEF CheckOne
  <2>3. ASSUME NEW p \in Procs, NEW ok \in BOOLEAN, happened \subseteq happened',
               AcquireIncr(p, ok) \/ AcquireExpire(p, ok)
        PROVE  Overshoot'
    <3>1. \A q \in Procs \ {p} : pc'[q] = pc[q] /\ todo'[q] = todo[q]
      BY <1>2, <2>3, OthersStay, Zenon
    <3>2. window' = window /\ pc[p] \in {"acquire", "expire"}
      BY <2>3 DEF AcquireIncr, AcquireExpire
    <3>3. PICK rest : rest = todo[p] \ {At(p)}
      BY Zenon
    <3>4. Proceed(p, "acquire") => Goto(p, "acquire", rest) \/ Goto(p, "run", {})
      BY <3>3, ProceedGoes
    <3>5. FailOpen(p) => \E rules : Goto(p, "run", rules) \/ Goto(p, "rollback", rules)
      BY DEF FailOpen
    <3>6. Goto(p, "expire", todo[p]) \/ Proceed(p, "acquire") \/ FailOpen(p)
      BY <2>3 DEF AcquireIncr, AcquireExpire
    <3>7. \/ pc'[p] \in {"acquire", "expire"} /\ todo'[p] \subseteq todo[p]
          \/ pc'[p] \in {"run", "rollback"}
      BY <2>t, <3>3, <3>4, <3>5, <3>6 DEF Goto
    <3>8. \A i \in Active : p \in Adding(i)' => p \in Adding(i)
      BY <3>2, <3>7 DEF Adding
    <3>9. \A i \in Active : Adding(i)' \subseteq Adding(i)
      BY <3>1, <3>8, AddingOthers, Zenon
    <3> QED
      BY <1>2, <2>3, <2>t, <3>2, <3>9, OvershootStep
  <2>4. ASSUME NEW p \in Procs, NEW ok \in BOOLEAN, NEW added \in BOOLEAN, AcquireZadd(p, added, ok),
               Note("acquireFails", ok)
        PROVE  Overshoot'
    <3>1. \A q \in Procs \ {p} : pc'[q] = pc[q] /\ todo'[q] = todo[q]
      BY <1>2, <2>4, OthersStay, Zenon
    <3>2. pc[p] = "acquire"
      BY <2>4, Zenon DEF AcquireZadd
    <3>3. PICK j \in Active : j = At(p) /\ j \in todo[p]
      BY <2>t, <3>2, AtIsMember, Zenon DEF Loops
    <3>4. CASE ~ ok
      <4>1. "acquireFails" \in happened'
        BY <2>4, <3>4, Zenon DEF Note
      <4> QED
        BY <4>1, Zenon DEF Overshoot
    <3>5. CASE ok
      <4>1. PICK rest : rest = todo[p] \ {j}
        BY Zenon
      <4>2. Goto(p, "acquire", rest) \/ Goto(p, "run", {})
        BY <2>4, <3>3, <3>5, <4>1, ProceedGoes, Zenon DEF AcquireZadd
      <4>3. p \in Adding(j) /\ p \notin Adding(j)'
        BY <2>t, <3>2, <3>3, <4>1, <4>2, Zenon DEF Adding, Goto
      <4>4. \A i \in Active : p \in Adding(i)' => p \in Adding(i)
        BY <2>t, <3>2, <4>1, <4>2 DEF Adding, Goto
      <4>5. Adding(j)' \subseteq Adding(j) \ {p} /\ \A i \in Active : Adding(i)' \subseteq Adding(i)
        BY <3>1, <4>3, <4>4, AddingOthers, Zenon
      <4>6. window' = [window EXCEPT ![j] = window[j] + 1]
        BY <2>4, <3>3, <3>5, Zenon DEF AcquireZadd
      <4>7. window'[j] <= window[j] + 1 /\ \A i \in Active : i # j => window'[i] <= window[i]
        BY <2>t, <4>6
      <4> QED
        BY <1>2, <2>4, <2>n, <4>3, <4>5, <4>7, OvershootStep, Zenon
    <3> QED
      BY <3>4, <3>5, Zenon
  <2>5. ASSUME NEW i \in Index, KeyExpires(i) \/ Slide(i) \/ vars' = vars, happened \subseteq happened'
        PROVE  Overshoot'
    <3>1. pc' = pc /\ todo' = todo
      BY <2>5, Zenon DEF KeyExpires, Slide, vars
    <3>2. \A k \in Active : window'[k] <= window[k]
      BY <2>5, <2>t DEF KeyExpires, Slide, vars
    <3>3. \A k : Adding(k)' = Adding(k)
      BY <3>1 DEF Adding
    <3> QED
      BY <1>2, <2>5, <3>2, <3>3, OvershootStep, Zenon
  <2>6. CASE vars' = vars
    <3>1. \E i \in Index : TRUE
      BY RuleFacts
    <3> QED
      BY <2>5, <2>6, <3>1, Zenon DEF vars
  <2> QED
    BY <1>2, <2>n, <2>1, <2>2, <2>3, <2>4, <2>5, <2>6, NextCases, Zenon
<1>3. Types /\ Overshoot => WindowOvershoot
  <2> SUFFICES ASSUME Types, Overshoot, NEW i \in Active \ Slots, "acquireFails" \notin happened
               PROVE  window[i] <= Rules[i].limit + Cardinality(Procs) - 1
    BY DEF WindowOvershoot
  <2>1. Adding(i) \in SUBSET Procs /\ window[i] \in Nat /\ Rules[i].limit \in Nat
    BY RuleFacts DEF Adding, Types, StoreTypes
  <2>2. window[i] + Cardinality(Adding(i)) <= Rules[i].limit + Cardinality(Procs) - 1
    BY DEF Overshoot
  <2> QED
    BY <2>1, <2>2, ProcSets
<1> QED
  BY <1>1, <1>2, <1>3, TypesInit, TypesHold, PTL DEF Spec

-----------------------------------------------------------------------------
(* The number of slots in use                                              *)

Paid == happened \subseteq {"releaseFails"}

\* A step that touches no counter and no slot.
LEMMA CountSame ==
    ASSUME Types, CountExact, happened \subseteq happened', held' = held,
           \A i \in Slots : counter'[i].n = counter[i].n
    PROVE  CountExact'
<1>1. \A i : Holders(i)' = Holders(i)
  BY Zenon DEF Holders
<1> QED
  BY <1>1, Zenon DEF CountExact

\* A step that takes slot j for p, or gives it back.
LEMMA CountStep ==
    ASSUME Types, CountExact, happened \subseteq happened', NEW p \in Procs, NEW j \in Slots,
           \A i \in Slots : i # j => counter'[i].n = counter[i].n,
           Paid' => \/ /\ j \notin held[p] /\ held' = [held EXCEPT ![p] = @ \cup {j}]
                       /\ counter'[j].n = counter[j].n + 1
                    \/ /\ j \in held[p] /\ held' = [held EXCEPT ![p] = @ \ {j}]
                       /\ \/ counter'[j].n = counter[j].n - 1
                          \/ counter'[j].n = counter[j].n /\ happened' # {}
    PROVE  CountExact'
<1> SUFFICES ASSUME Paid', NEW i \in Slots
             PROVE  /\ happened' = {} => counter'[i].n = Cardinality(Holders(i)')
                    /\ counter'[i].n >= Cardinality(Holders(i)')
  BY Zenon DEF CountExact, Paid
<1>t. held \in [Procs -> SUBSET Slots] /\ counter[i].n \in Int
  BY RuleFacts, Zenon DEF Types, StoreTypes
<1>0. happened \subseteq {"releaseFails"} /\ (happened' = {} => happened = {})
  BY Zenon DEF Paid
<1>1. /\ happened = {} => counter[i].n = Cardinality(Holders(i))
      /\ counter[i].n >= Cardinality(Holders(i))
  BY <1>0, Zenon DEF CountExact
<1>2. PICK A, B : A = Holders(i) /\ B = Holders(i)'
  BY Zenon
<1>3. A \in SUBSET Procs /\ IsFiniteSet(A) /\ Cardinality(A) \in Nat
  BY <1>2, ProcSets, Zenon DEF Holders
<1>4. CASE i # j
  <2>1. B = A
    BY <1>2, <1>4, <1>t DEF Holders
  <2> QED
    BY <1>0, <1>1, <1>2, <1>4, <2>1, Zenon
<1>5. CASE i = j /\ j \notin held[p] /\ held' = [held EXCEPT ![p] = @ \cup {j}]
           /\ counter'[j].n = counter[j].n + 1
  <2>1. p \notin A /\ B = A \cup {p}
    BY <1>2, <1>5, <1>t DEF Holders
  <2>2. Cardinality(B) = Cardinality(A) + 1
    BY <1>3, <2>1, FS_AddElement, Zenon
  <2>3. PICK a, b, x, y : /\ a = Cardinality(A) /\ b = Cardinality(B)
                           /\ x = counter[i].n /\ y = counter'[i].n
    BY Zenon
  <2>4. /\ a \in Nat /\ x \in Int /\ b = a + 1 /\ x >= a
        /\ happened' = {} => x = a
    BY <1>0, <1>1, <1>2, <1>3, <1>t, <2>2, <2>3, Zenon
  <2>5. y = x + 1
    BY <1>5, <2>3, Zenon
  <2>6. (happened' = {} => y = b) /\ y >= b
    BY <2>4, <2>5
  <2> QED
    BY <1>2, <2>3, <2>6, Zenon
<1>6. CASE i = j /\ j \in held[p] /\ held' = [held EXCEPT ![p] = @ \ {j}]
           /\ \/ counter'[j].n = counter[j].n - 1
              \/ counter'[j].n = counter[j].n /\ happened' # {}
  <2>1. p \in A /\ B = A \ {p}
    BY <1>2, <1>6, <1>t, Zenon DEF Holders
  <2>2. Cardinality(B) = Cardinality(A) - 1
    BY <1>3, <2>1, FS_RemoveElement, Zenon
  <2>3. PICK a, b, x, y : /\ a = Cardinality(A) /\ b = Cardinality(B)
                           /\ x = counter[i].n /\ y = counter'[i].n
    BY Zenon
  <2>4. /\ a \in Nat /\ x \in Int /\ b = a - 1 /\ x >= a
        /\ happened' = {} => x = a
    BY <1>0, <1>1, <1>2, <1>3, <1>t, <2>2, <2>3, Zenon
  <2>5. y = x - 1 \/ (y = x /\ happened' # {})
    BY <1>6, <2>3, Zenon
  <2>6. (happened' = {} => y = b) /\ y >= b
    BY <2>4, <2>5
  <2> QED
    BY <1>2, <2>3, <2>6, Zenon
<1> QED
  BY <1>4, <1>5, <1>6, Zenon

\* A step of p, for the pairing of the other requests.
LEMMA PairedStep ==
    ASSUME Counted, happened \subseteq happened', NEW p \in Procs,
           \A q \in Procs \ {p} : pc'[q] = pc[q] /\ todo'[q] = todo[q] /\ held'[q] = held[q],
           Paid' => Paired(p)', CountExact'
    PROVE  Counted'
<1>1. Paid' => Paid
  BY Zenon DEF Paid
<1>2. \A q \in Procs \ {p} : Paired(q) => Paired(q)'
  BY Zenon DEF Paired, At
<1> QED
  BY <1>1, <1>2 DEF Counted, Paid

\* The rules that a loop has left, when acquireOne has dealt with rule j.
LEMMA PairedAfterOne ==
    ASSUME Types, NEW p \in Procs, NEW j \in todo[p], j = At(p), Proceed(p, "acquire"),
           held'[p] = Slots \ (todo[p] \ {j})
    PROVE  Paired(p)'
<1>t. pc \in [Procs -> Labels] /\ todo \in [Procs -> SUBSET Active]
  BY Zenon DEF Types, LoopTypes
<1>1. PICK rest : rest = todo[p] \ {j}
  BY Zenon
<1>2. Goto(p, "acquire", rest) \/ (rest = {} /\ Goto(p, "run", {}))
  BY <1>1, ProceedGoes, Zenon
<1>3. \/ pc'[p] = "acquire" /\ todo'[p] = rest
      \/ pc'[p] = "run" /\ rest = {}
  BY <1>2, <1>t, Zenon DEF Goto
<1> QED
  BY <1>1, <1>3, Zenon DEF Paired

\* Acquire and Release: a counter is the number of requests that have its slot
\* as long as nothing fails, and at least that number if only releases fail;
\* for any number of requests and any rules.
THEOREM SpecCountExact == Spec => []CountExact
<1>1. Init => Counted
  <2> SUFFICES ASSUME Init PROVE Counted
    BY Zenon
  <2>1. \A i : Holders(i) = {}
    BY DEF Init, Holders
  <2>2. Cardinality({}) = 0
    BY FS_EmptySet
  <2>3. \A i \in Slots : counter[i].n = 0
    BY RuleFacts DEF Init, NoKey
  <2>4. CountExact
    BY <2>1, <2>2, <2>3 DEF CountExact
  <2>5. \A p \in Procs : Paired(p)
    BY DEF Init, Paired
  <2> QED
    BY <2>4, <2>5, Zenon DEF Counted
<1>2. ASSUME Types, Counted, [Next]_vars PROVE Counted'
  <2>t. /\ StoreTypes /\ LoopTypes
        /\ pc \in [Procs -> Labels] /\ todo \in [Procs -> SUBSET Active]
        /\ held \in [Procs -> SUBSET Slots]
        /\ \A p \in Procs : pc[p] \in Loops => todo[p] # {}
        /\ counter \in [Index -> [n : Int, life : {"none", "forever", "ttl"}]]
        /\ \A i \in Slots : i \in Index /\ i \in Active /\ counter[i].n \in Int
    BY <1>2, RuleFacts DEF Types, LoopTypes, StoreTypes
  <2>n. \A e, ok : Note(e, ok) => happened \subseteq happened' /\ (~ ok => e \in happened')
    BY DEF Note
  <2>c. CountExact
    BY <1>2 DEF Counted
  <2>p. ASSUME NEW p \in Procs, happened \subseteq happened', Paid' PROVE Paired(p) /\ Paid
    BY <1>2, <2>p, Zenon DEF Counted, Paid
  <2>1. ASSUME NEW p \in Procs, Arrive(p) \/ Serve(p), happened' = happened PROVE Counted'
    <3>1. \A q \in Procs \ {p} : pc'[q] = pc[q] /\ todo'[q] = todo[q] /\ held'[q] = held[q]
      <4>1. PICK ok \in BOOLEAN : TRUE
        BY Zenon
      <4> QED
        BY <1>2, <2>1, OthersStay, Zenon
    <3>2. counter' = counter /\ held' = held
      BY <2>1 DEF Arrive, Serve
    <3>3. CountExact'
      BY <1>2, <2>1, <2>c, <3>2, CountSame
    <3>4. \/ pc[p] = "idle" /\ pc'[p] = "check"
          \/ pc[p] = "run" /\ pc'[p] = "release" /\ todo'[p] = Slots
      BY <2>1, <2>t, Zenon DEF Arrive, Serve, Goto
    <3>5. Paired(p) => Paired(p)'
      BY <3>2, <3>4 DEF Paired
    <3> QED
      BY <1>2, <2>1, <2>p, <3>1, <3>3, <3>5, PairedStep, Zenon
  <2>2. ASSUME NEW p \in Procs, NEW ok \in BOOLEAN, CheckOne(p, ok), Note("acquireFails", ok)
        PROVE  Counted'
    <3>1. \A q \in Procs \ {p} : pc'[q] = pc[q] /\ todo'[q] = todo[q] /\ held'[q] = held[q]
      BY <1>2, <2>2, OthersStay
    <3>2. counter' = counter /\ held' = held /\ pc[p] = "check"
      BY <2>2 DEF CheckOne
    <3>3. CountExact'
      BY <1>2, <2>2, <2>n, <2>c, <3>2, CountSame, Zenon
    <3>4. PICK rest : rest = todo[p] \ {At(p)}
      BY Zenon
    <3>5. Proceed(p, "check") => Goto(p, "check", rest) \/ Goto(p, "acquire", Active)
      BY <3>4, ProceedGoes, Zenon
    <3>6. Goto(p, "acquire", Active) \/ Goto(p, "idle", {}) \/ Goto(p, "check", rest)
      BY <2>2, <3>5, Zenon DEF CheckOne
    <3>7. pc'[p] \in {"idle", "check"} \/ (pc'[p] = "acquire" /\ todo'[p] = Active)
      BY <2>t, <3>6 DEF Goto
    <3>8. Slots \ Active = {}
      BY <2>t
    <3>9. Paired(p) => Paired(p)'
      BY <3>2, <3>7, <3>8 DEF Paired
    <3> QED
      BY <1>2, <2>2, <2>n, <2>p, <3>1, <3>3, <3>9, PairedStep, Zenon
  <2>3. ASSUME NEW p \in Procs, NEW ok \in BOOLEAN, AcquireIncr(p, ok), Note("acquireFails", ok)
        PROVE  Counted'
    <3>0. happened \subseteq happened'
      BY <2>3, <2>n, Zenon
    <3>1. \A q \in Procs \ {p} : pc'[q] = pc[q] /\ todo'[q] = todo[q] /\ held'[q] = held[q]
      BY <1>2, <2>3, OthersStay, Zenon
    <3>2. CASE ~ ok
      <4>1. counter' = counter /\ held' = held /\ ~ Paid'
        BY <2>3, <2>n, <3>2 DEF AcquireIncr, Paid
      <4>2. CountExact'
        BY <1>2, <2>c, <3>0, <4>1, CountSame, Zenon
      <4> QED
        BY <1>2, <3>0, <3>1, <4>1, <4>2, PairedStep, Zenon
    <3>3. CASE ok
      <4>1. PICK j : j = At(p)
        BY Zenon
      <4>2. j \in Slots /\ j \in todo[p] /\ j \in Index
        BY <2>3, <2>t, <4>1, AtIsMember, RuleFacts, Zenon DEF AcquireIncr, Loops
      <4>3. /\ counter' = [counter EXCEPT ![j] = Added(j, 1)] /\ pc[p] = "acquire"
            /\ held' = [held EXCEPT ![p] = @ \cup {j}]
        BY <2>3, <3>3, <4>1 DEF AcquireIncr
      <4>4. Added(j, 1).n = counter[j].n + 1
        BY <2>t, <4>2, AddedType
      <4>5. counter'[j].n = counter[j].n + 1 /\ \A i \in Slots : i # j => counter'[i].n = counter[i].n
        BY <2>t, <4>2, <4>3, <4>4, Zenon
      <4>6. Paid' => held[p] = Slots \ todo[p]
        BY <2>p, <3>0, <4>3 DEF Paired
      <4>7. Paid' => j \notin held[p]
        BY <4>2, <4>6
      <4>8. CountExact'
        BY <1>2, <2>c, <3>0, <4>2, <4>3, <4>5, <4>7, CountStep, Zenon
      <4>9. ASSUME Paid' PROVE Paired(p)'
        <5>1. held'[p] = Slots \ (todo[p] \ {j})
          BY <2>t, <4>2, <4>3, <4>6, <4>9, Zenon
        <5>2. CASE Proceed(p, "acquire")
          BY <1>2, <4>1, <4>2, <5>1, <5>2, PairedAfterOne, Zenon
        <5>3. CASE Goto(p, "expire", todo[p])
          <6>1. pc'[p] = "expire" /\ todo'[p] = todo[p]
            BY <2>t, <5>3, Zenon DEF Goto
          <6>2. At(p)' = j
            BY <4>1, <6>1 DEF At
          <6>3. held'[p] = (Slots \ todo[p]) \cup {j}
            BY <4>2, <5>1
          <6> QED
            BY <6>1, <6>2, <6>3, Zenon DEF Paired
        <5> QED
          BY <2>3, <3>3, <5>2, <5>3, Zenon DEF AcquireIncr
      <4> QED
        BY <1>2, <3>0, <3>1, <4>8, <4>9, PairedStep, Zenon
    <3> QED
      BY <3>2, <3>3
  <2>4. ASSUME NEW p \in Procs, NEW ok \in BOOLEAN, NEW added \in BOOLEAN, AcquireZadd(p, added, ok),
               Note("acquireFails", ok)
        PROVE  Counted'
    <3>0. happened \subseteq happened' /\ counter' = counter /\ held' = held /\ pc[p] = "acquire"
      BY <2>4, <2>n, Zenon DEF AcquireZadd
    <3>1. \A q \in Procs \ {p} : pc'[q] = pc[q] /\ todo'[q] = todo[q] /\ held'[q] = held[q]
      BY <1>2, <2>4, OthersStay, Zenon
    <3>2. CountExact'
      BY <1>2, <2>c, <3>0, CountSame, Zenon
    <3>3. ASSUME Paid' PROVE Paired(p)'
      <4>1. PICK j : j = At(p)
        BY Zenon
      <4>2. j \notin Slots /\ j \in todo[p]
        BY <2>4, <2>t, <3>0, <4>1, AtIsMember, RuleFacts, Zenon DEF AcquireZadd, Loops
      <4>3. ok
        BY <2>4, <2>n, <3>3 DEF Paid
      <4>4. held[p] = Slots \ todo[p]
        BY <2>p, <3>0, <3>3, Zenon DEF Paired
      <4>5. held'[p] = Slots \ (todo[p] \ {j})
        BY <3>0, <4>2, <4>4, Zenon
      <4>6. Proceed(p, "acquire")
        BY <2>4, <4>3 DEF AcquireZadd
      <4> QED
        BY <1>2, <4>1, <4>2, <4>5, <4>6, PairedAfterOne
    <3> QED
      BY <1>2, <3>0, <3>1, <3>2, <3>3, PairedStep
  <2>5. ASSUME NEW p \in Procs, NEW ok \in BOOLEAN, AcquireExpire(p, ok), Note("expireFails", ok)
        PROVE  Counted'
    <3>0. happened \subseteq happened' /\ held' = held /\ pc[p] = "expire"
      BY <2>5, <2>n DEF AcquireExpire
    <3>1. \A q \in Procs \ {p} : pc'[q] = pc[q] /\ todo'[q] = todo[q] /\ held'[q] = held[q]
      BY <1>2, <2>5, OthersStay, Zenon
    <3>2. PICK j : j = At(p)
      BY Zenon
    <3>3. j \in Slots /\ j \in todo[p] /\ j \in Index
      BY <2>t, <3>0, <3>2, AtIsMember DEF Loops, LoopTypes
    <3>4. \A i \in Slots : counter'[i].n = counter[i].n
      <4>1. counter' = counter \/ counter' = [counter EXCEPT ![j].life = IF @ = "none" THEN @ ELSE "ttl"]
        BY <2>5, <3>2, Zenon DEF AcquireExpire
      <4> QED
        BY <2>t, <3>3, <4>1
    <3>5. CountExact'
      BY <1>2, <2>c, <3>0, <3>4, CountSame, Zenon
    <3>6. ASSUME Paid' PROVE Paired(p)'
      <4>1. ok
        BY <2>5, <2>n, <3>6 DEF Paid
      <4>2. held[p] = (Slots \ todo[p]) \cup {j}
        BY <2>p, <3>0, <3>2, <3>6 DEF Paired
      <4>3. held'[p] = Slots \ (todo[p] \ {j})
        BY <3>0, <3>3, <4>2
      <4>4. Proceed(p, "acquire")
        BY <2>5, <4>1 DEF AcquireExpire
      <4> QED
        BY <1>2, <3>2, <3>3, <4>3, <4>4, PairedAfterOne, Zenon
    <3> QED
      BY <1>2, <3>0, <3>1, <3>5, <3>6, PairedStep, Zenon
  <2>6. ASSUME NEW p \in Procs, NEW ok \in BOOLEAN, Rollback(p, ok) \/ Reset(p, ok),
               happened \subseteq happened'
        PROVE  Counted'
    <3>1. pc[p] \in {"rollback", "reset"}
      BY <2>6, Zenon DEF Rollback, Reset
    <3>2. ~ Paid'
      BY <2>6, <2>p, <3>1 DEF Paired
    <3> QED
      BY <3>2 DEF Counted, CountExact, Paid
  <2>7. ASSUME NEW p \in Procs, NEW ok \in BOOLEAN, Release(p, ok), Note("releaseFails", ok)
        PROVE  Counted'
    <3>0. happened \subseteq happened' /\ pc[p] = "release" /\ (~ ok => happened' # {})
      BY <2>7, <2>n, Zenon DEF Release
    <3>1. \A q \in Procs \ {p} : pc'[q] = pc[q] /\ todo'[q] = todo[q] /\ held'[q] = held[q]
      BY <1>2, <2>7, OthersStay, Zenon
    <3>2. PICK j : j = At(p)
      BY Zenon
    <3>3. j \in Slots /\ j \in todo[p] /\ j \in Index
      BY <2>t, <3>0, <3>2, AtIsMember, Zenon DEF Loops, LoopTypes
    <3>4. /\ counter' = counter \/ counter' = [counter EXCEPT ![j] = Added(j, -1)]
          /\ ok => counter' = [counter EXCEPT ![j] = Added(j, -1)]
          /\ ~ ok => counter' = counter
          /\ held' = [held EXCEPT ![p] = @ \ {j}]
      BY <2>7, <3>2, Zenon DEF Release
    <3>5. Added(j, -1).n = counter[j].n - 1
      BY <2>t, <3>3, AddedType
    <3>6. /\ \A i \in Slots : i # j => counter'[i].n = counter[i].n
          /\ ok => counter'[j].n = counter[j].n - 1
          /\ ~ ok => counter'[j].n = counter[j].n
      BY <2>t, <3>3, <3>4, <3>5
    <3>7. Paid' => held[p] = todo[p]
      BY <2>p, <3>0 DEF Paired
    <3>8. CountExact'
      BY <1>2, <2>c, <3>0, <3>3, <3>4, <3>6, <3>7, CountStep, Zenon
    <3>9. ASSUME Paid' PROVE Paired(p)'
      <4>1. counter[j].n >= Cardinality(Holders(j))
        BY <2>c, <2>p, <3>0, <3>3, <3>9, Zenon DEF CountExact, Paid
      <4>2. p \in Holders(j) /\ Holders(j) \in SUBSET Procs
        BY <3>3, <3>7, <3>9 DEF Holders
      <4>3. Cardinality(Holders(j)) \in Nat /\ Cardinality(Holders(j)) # 0
        BY <4>2, ProcSets, FS_EmptySet, Zenon
      <4>4. ~ (counter[j].n - 1 < 0)
        BY <2>t, <3>3, <4>1, <4>3
      <4>5. Proceed(p, "release")
        BY <2>7, <3>2, <4>4, Zenon DEF Release
      <4>6. PICK rest : rest = todo[p] \ {j}
        BY Zenon
      <4>7. Goto(p, "release", rest) \/ (rest = {} /\ Goto(p, "idle", {}))
        BY <3>2, <4>5, <4>6, ProceedGoes, Zenon
      <4>8. held'[p] = rest
        BY <2>t, <3>4, <3>7, <3>9, <4>6, Zenon
      <4>9. (pc'[p] = "release" /\ todo'[p] = rest) \/ (pc'[p] = "idle" /\ rest = {})
        BY <2>t, <4>7, Zenon DEF Goto
      <4> QED
        BY <4>8, <4>9 DEF Paired
    <3> QED
      BY <1>2, <3>0, <3>1, <3>8, <3>9, PairedStep
  <2>8. ASSUME NEW i \in Index, KeyExpires(i), Note("keyExpires", FALSE) PROVE Counted'
    <3>0. "keyExpires" \in happened'
      BY <2>8 DEF Note
    <3>1. ~ Paid'
      BY <3>0 DEF Paid
    <3> QED
      BY <3>1, Zenon DEF Counted, CountExact, Paid
  <2>9. ASSUME NEW i \in Index, Slide(i) \/ vars' = vars, happened' = happened PROVE Counted'
    <3>1. pc' = pc /\ todo' = todo /\ held' = held /\ counter' = counter
      BY <2>9, Zenon DEF Slide, vars
    <3>2. CountExact'
      BY <1>2, <2>9, <2>c, <3>1, CountSame, Zenon
    <3>3. \A p \in Procs : Paired(p) => Paired(p)'
      BY <3>1, Zenon DEF Paired, At
    <3> QED
      BY <1>2, <2>9, <3>2, <3>3 DEF Counted
  <2>10. CASE vars' = vars
    <3>1. \E i \in Index : TRUE
      BY RuleFacts, Zenon
    <3> QED
      BY <2>9, <2>10, <3>1, Zenon DEF vars
  <2> QED
    BY <1>2, <2>n, <2>1, <2>2, <2>3, <2>4, <2>5, <2>6, <2>7, <2>8, <2>9, <2>10, NextCases, ZenonT(30)
<1>3. Counted => CountExact
  BY Zenon DEF Counted
<1> QED
  BY <1>1, <1>2, <1>3, TypesInit, TypesHold, PTL DEF Spec

-----------------------------------------------------------------------------
(* The limiter of logins                                                   *)

LoginLabels == {"idle", "zcard", "zadd", "lockGet", "find", "failIncr", "failExpire", "lock",
                "clearFails", "clear"}

LoginTypes ==
    /\ zset \in [Limiters -> Nat]
    /\ fails \in [count : Nat, ttl : BOOLEAN]
    /\ stage \in [Logins -> LoginLabels]
    /\ at \in [Logins -> Limiters]

\* The requests that have found room in window l and not taken it yet.
LoginAdding(l) == {p \in Logins : stage[p] = "zadd" /\ at[p] = l}

LoginOvershoot ==
    \A l \in Limiters :
        zset[l] + Cardinality(LoginAdding(l)) <= Limits[l] + Cardinality(Logins) - 1

\* A step is a Redis or database command of one request, with its answer or an
\* error, or the clock; only EXPIRE, SETEX and DEL can be noted as failed.
LEMMA LoginCases ==
    ASSUME [LoginNext]_loginVars
    PROVE  \/ \E p \in Logins, ok \in BOOLEAN :
                 \/ /\ failed' = failed
                    /\ \/ Receive(p) \/ Refuse(p) \/ Zcard(p, ok) \/ Zadd(p, ok) \/ LockGet(p, ok)
                       \/ Find(p, ok) \/ FailIncr(p, ok)
                 \/ FailExpire(p, ok) /\ NoteFailed("EXPIRE", ok)
                 \/ SetLock(p, ok) /\ NoteFailed("SETEX", ok)
                 \/ Clear(p, ok) /\ NoteFailed("DEL", ok)
           \/ /\ failed' = failed
              /\ FailsExpire \/ LockExpires \/ (\E l \in Limiters : Minute(l)) \/ loginVars' = loginVars
<1>1. \A d : Replies(d) \subseteq BOOLEAN
  BY Zenon DEF Replies
<1>2. CASE \E p \in Logins : (Receive(p) \/ Refuse(p)) /\ UNCHANGED failed
  <2>1. PICK ok \in BOOLEAN : TRUE
    BY Zenon
  <2> QED
    BY <1>2, <2>1
<1>3. CASE \E p \in Logins : Step(p) /\ ~ (Refuse(p) /\ UNCHANGED failed)
  BY <1>1, <1>3 DEF Step
<1>4. CASE loginVars' = loginVars
  BY <1>4 DEF loginVars
<1>5. CASE /\ FailsExpire \/ LockExpires \/ \E l \in Limiters : Minute(l)
           /\ UNCHANGED failed
  BY <1>5
<1> QED
  BY <1>2, <1>3, <1>4, <1>5, Zenon DEF LoginNext

-----------------------------------------------------------------------------
(* Types                                                                   *)

\* The handlers' labels are reached one from the other, and a request goes on
\* to a limiter that exists.
LEMMA LoginTypesHold == LoginTypes /\ [LoginNext]_loginVars => LoginTypes'
<1> SUFFICES ASSUME LoginTypes, [LoginNext]_loginVars PROVE LoginTypes'
  OBVIOUS
<1>0. /\ Len(Limits) \in Nat
      /\ \A l \in Limiters : l # Len(Limits) => l + 1 \in Limiters
      /\ Limiters # {} => 1 \in Limiters
  BY LoginAssumption DEF Limiters
<1>1. \A p \in Logins : 1 \in Limiters
  BY <1>0 DEF LoginTypes
<1>2. ASSUME NEW p \in Logins, NEW l \in LoginLabels, Enter(p, l)
      PROVE  stage' \in [Logins -> LoginLabels] /\ at' \in [Logins -> Limiters]
  BY <1>2 DEF LoginTypes, Enter
<1>3. ASSUME NEW p \in Logins, Answer(p)
      PROVE  stage' \in [Logins -> LoginLabels] /\ at' \in [Logins -> Limiters]
  BY <1>1, <1>3 DEF LoginTypes, Answer, LoginLabels
<1>4. ASSUME NEW p \in Logins, Admit(p)
      PROVE  stage' \in [Logins -> LoginLabels] /\ at' \in [Logins -> Limiters]
  <2>1. CASE at[p] = Len(Limits)
    BY <1>2, <1>4, <2>1 DEF Admit, LoginLabels
  <2>2. CASE at[p] # Len(Limits)
    <3>1. at[p] + 1 \in Limiters
      BY <1>0, <2>2 DEF LoginTypes
    <3> QED
      BY <1>4, <2>2, <3>1, Zenon DEF Admit, LoginTypes, LoginLabels
  <2> QED
    BY <2>1, <2>2
<1>5. ASSUME NEW p \in Logins, NEW ok \in BOOLEAN, Zcard(p, ok) PROVE LoginTypes'
  <2>1. Admit(p) \/ Answer(p) \/ Enter(p, "zadd")
    BY <1>5 DEF Zcard
  <2> QED
    BY <1>2, <1>3, <1>4, <1>5, <2>1 DEF Zcard, LoginTypes, LoginLabels
<1>6. ASSUME NEW p \in Logins, NEW ok \in BOOLEAN, Zadd(p, ok) PROVE LoginTypes'
  <2>1. Admit(p)
    BY <1>6 DEF Zadd
  <2>2. zset' \in [Limiters -> Nat] /\ fails' = fails
    BY <1>6 DEF Zadd, LoginTypes
  <2> QED
    BY <1>4, <2>1, <2>2 DEF LoginTypes
<1>7. ASSUME NEW p \in Logins, NEW ok \in BOOLEAN,
             \/ Receive(p) \/ Refuse(p) \/ LockGet(p, ok) \/ Find(p, ok) \/ SetLock(p, ok)
      PROVE  LoginTypes'
  <2>1. zset' = zset /\ fails' = fails
    BY <1>7 DEF Receive, Refuse, LockGet, Find, SetLock
  <2>2. \/ Answer(p) \/ Enter(p, "zcard") \/ Enter(p, "find") \/ Enter(p, "failIncr")
        \/ Enter(p, "clear") \/ Enter(p, "clearFails")
    BY <1>7 DEF Receive, Refuse, LockGet, Find, SetLock
  <2> QED
    BY <1>2, <1>3, <2>1, <2>2, Zenon DEF LoginTypes, LoginLabels
<1>8. ASSUME NEW p \in Logins, NEW ok \in BOOLEAN,
             FailIncr(p, ok) \/ FailExpire(p, ok) \/ Clear(p, ok)
      PROVE  LoginTypes'
  <2>1. zset' = zset /\ fails' \in [count : Nat, ttl : BOOLEAN]
    <3>1. fails.count \in Nat /\ fails \in [count : Nat, ttl : BOOLEAN]
      BY DEF LoginTypes
    <3>2. \/ fails' = fails \/ fails' = [fails EXCEPT !.count = fails.count + 1]
          \/ fails' = [fails EXCEPT !.ttl = TRUE] \/ fails' = [count |-> 0, ttl |-> FALSE]
      BY <1>8 DEF FailIncr, FailExpire, Clear
    <3>3. zset' = zset
      BY <1>8 DEF FailIncr, FailExpire, Clear
    <3>4. [count |-> 0, ttl |-> FALSE] \in [count : Nat, ttl : BOOLEAN]
      OBVIOUS
    <3>5. [fails EXCEPT !.ttl = TRUE] \in [count : Nat, ttl : BOOLEAN]
      BY <3>1, Zenon
    <3>6. [fails EXCEPT !.count = fails.count + 1] \in [count : Nat, ttl : BOOLEAN]
      <4>1. fails.count + 1 \in Nat
        BY <3>1
      <4> QED
        BY <3>1, <4>1
    <3> QED
      BY <3>1, <3>2, <3>3, <3>4, <3>5, <3>6, Zenon
  <2>2. Answer(p) \/ Enter(p, "failExpire") \/ Enter(p, "lock")
    BY <1>8 DEF FailIncr, FailExpire, Clear
  <2> QED
    BY <1>2, <1>3, <2>1, <2>2 DEF LoginTypes, LoginLabels
<1>9. ASSUME NEW l \in Limiters, Minute(l) PROVE LoginTypes'
  BY <1>9 DEF Minute, LoginTypes
<1>10. CASE FailsExpire \/ LockExpires \/ loginVars' = loginVars
  <2>1. zset' = zset /\ stage' = stage /\ at' = at
    BY <1>10 DEF FailsExpire, LockExpires, loginVars
  <2>2. fails' = fails \/ fails' = [count |-> 0, ttl |-> FALSE]
    BY <1>10 DEF FailsExpire, LockExpires, loginVars
  <2>3. [count |-> 0, ttl |-> FALSE] \in [count : Nat, ttl : BOOLEAN]
    OBVIOUS
  <2> QED
    BY <2>1, <2>2, <2>3, Zenon DEF LoginTypes
<1> QED
  BY <1>5, <1>6, <1>7, <1>8, <1>9, <1>10, LoginCases

\* Init has the types.
LEMMA LoginTypesInit == LoginInit => LoginTypes
<1> SUFFICES ASSUME LoginInit PROVE LoginTypes
  OBVIOUS
<1>1. \A p \in Logins : 1 \in Limiters
  BY LoginAssumption DEF Limiters
<1> QED
  BY <1>1 DEF LoginInit, LoginTypes, LoginLabels

-----------------------------------------------------------------------------
(* The failure counter                                                     *)

\* recordLoginFail: a counter that has reached MaxFails is on its way to a
\* lock and to 0 unless a DEL has failed, for any number of requests.
THEOREM SpecLockFollows == LoginSpec => []LockFollows
<1>1. LoginInit => LockFollows
  BY LoginAssumption, SMTT(30) DEF LoginInit, LockFollows
<1>2. ASSUME LoginTypes, LockFollows, [LoginNext]_loginVars PROVE LockFollows'
  <2> SUFFICES ASSUME fails'.count >= MaxFails, "DEL" \notin failed'
               PROVE  \E q \in Logins : stage'[q] \in {"lock", "clearFails"}
    BY Zenon DEF LockFollows
  <2>t. fails.count \in Nat /\ MaxFails \in Nat /\ MaxFails > 1 /\ stage \in [Logins -> LoginLabels]
    BY <1>2, LoginAssumption, Zenon DEF LoginTypes
  <2>0. ASSUME fails'.count = fails.count, failed' = failed, NEW p \in Logins,
               stage[p] \notin {"lock", "clearFails"}, \A q \in Logins \ {p} : stage'[q] = stage[q]
        PROVE  \E q \in Logins : stage'[q] \in {"lock", "clearFails"}
    BY <1>2, <2>0 DEF LockFollows
  <2>1. ASSUME NEW p \in Logins, NEW ok \in BOOLEAN, failed' = failed,
               \/ Receive(p) \/ Refuse(p) \/ Zcard(p, ok) \/ Zadd(p, ok) \/ LockGet(p, ok)
               \/ Find(p, ok)
        PROVE  \E q \in Logins : stage'[q] \in {"lock", "clearFails"}
    <3>1. fails' = fails /\ stage[p] \notin {"lock", "clearFails"}
      BY <2>1, Zenon DEF Receive, Refuse, Zcard, Zadd, LockGet, Find
    <3>2. \A q \in Logins \ {p} : stage'[q] = stage[q]
      BY <2>1, <2>t DEF Receive, Refuse, Zcard, Zadd, LockGet, Find, Admit, Enter,
                        Answer
    <3> QED
      BY <2>0, <2>1, <3>1, <3>2, Zenon
  <2>2. ASSUME NEW p \in Logins, NEW ok \in BOOLEAN, FailIncr(p, ok), failed' = failed
        PROVE  \E q \in Logins : stage'[q] \in {"lock", "clearFails"}
    <3>1. CASE ok
      <4>1. fails'.count = fails.count + 1
        BY <2>2, <3>1, <1>2 DEF FailIncr, LoginTypes
      <4>2. stage' = [stage EXCEPT ![p] = "lock"]
        BY <2>2, <3>1, <4>1, <2>t DEF FailIncr, Enter
      <4> QED
        BY <4>2, <2>t
    <3>2. CASE ~ ok
      <4>1. fails' = fails /\ stage[p] = "failIncr" /\ \A q \in Logins \ {p} : stage'[q] = stage[q]
        BY <2>2, <3>2, <2>t DEF FailIncr, Answer
      <4> QED
        BY <4>1, <2>0, <2>2
    <3> QED
      BY <3>1, <3>2
  <2>3. ASSUME NEW p \in Logins, NEW ok \in BOOLEAN, FailExpire(p, ok), NoteFailed("EXPIRE", ok)
        PROVE  \E q \in Logins : stage'[q] \in {"lock", "clearFails"}
    <3>1. fails'.count = fails.count /\ stage[p] = "failExpire" /\ "DEL" \notin failed
      BY <2>3, <1>2 DEF FailExpire, LoginTypes, NoteFailed
    <3>2. \A q \in Logins \ {p} : stage'[q] = stage[q]
      BY <2>3, <2>t DEF FailExpire, Answer
    <3> QED
      BY <1>2, <3>1, <3>2 DEF LockFollows
  <2>4. ASSUME NEW p \in Logins, NEW ok \in BOOLEAN, SetLock(p, ok)
        PROVE  \E q \in Logins : stage'[q] \in {"lock", "clearFails"}
    BY <2>4, <2>t DEF SetLock, Enter
  <2>5. ASSUME NEW p \in Logins, NEW ok \in BOOLEAN, Clear(p, ok), NoteFailed("DEL", ok)
        PROVE  FALSE
    <3>1. ok
      BY <2>5 DEF NoteFailed
    <3> QED
      BY <2>5, <3>1, <2>t DEF Clear
  <2>6. CASE FailsExpire
    BY <2>6, <2>t DEF FailsExpire
  <2>7. CASE /\ failed' = failed
             /\ LockExpires \/ (\E l \in Limiters : Minute(l)) \/ loginVars' = loginVars
    BY <2>7, <1>2, Zenon DEF LockExpires, Minute, loginVars, LockFollows
  <2> QED
    BY <1>2, <2>1, <2>2, <2>3, <2>4, <2>5, <2>6, <2>7, LoginCases, Zenon
<1> QED
  BY <1>1, <1>2, LoginTypesInit, LoginTypesHold, PTL DEF LoginSpec

\* recordLoginFail: the counter has a TTL whenever no request is between the
\* INCR and the EXPIRE, unless an EXPIRE has failed; for any number of
\* requests.
THEOREM SpecFailCounterExpires == LoginSpec => []FailCounterExpires
<1>1. LoginInit => FailCounterExpires
  BY DEF LoginInit, FailCounterExpires
<1>2. ASSUME LoginTypes, FailCounterExpires, [LoginNext]_loginVars PROVE FailCounterExpires'
  <2> SUFFICES ASSUME fails'.count > 0, \A q \in Logins : stage'[q] # "failExpire",
                      "EXPIRE" \notin failed'
               PROVE  fails'.ttl
    BY Zenon DEF FailCounterExpires
  <2>t. fails \in [count : Nat, ttl : BOOLEAN] /\ stage \in [Logins -> LoginLabels]
    BY <1>2, Zenon DEF LoginTypes
  <2>0. ASSUME fails' = fails, failed \subseteq failed', NEW p \in Logins, stage[p] # "failExpire",
               \A q \in Logins \ {p} : stage'[q] = stage[q]
        PROVE  fails'.ttl
    BY <1>2, <2>0 DEF FailCounterExpires
  <2>1. ASSUME NEW p \in Logins, NEW ok \in BOOLEAN, failed \subseteq failed',
               \/ Receive(p) \/ Refuse(p) \/ Zcard(p, ok) \/ Zadd(p, ok) \/ LockGet(p, ok)
               \/ Find(p, ok) \/ SetLock(p, ok)
        PROVE  fails'.ttl
    <3>1. fails' = fails /\ stage[p] # "failExpire"
      BY <2>1, Zenon DEF Receive, Refuse, Zcard, Zadd, LockGet, Find, SetLock
    <3>2. \A q \in Logins \ {p} : stage'[q] = stage[q]
      BY <2>1, <2>t, Zenon DEF Receive, Refuse, Zcard, Zadd, LockGet, Find, SetLock,
                        Admit, Enter, Answer
    <3> QED
      BY <2>0, <2>1, <3>1, <3>2, Zenon
  <2>2. ASSUME NEW p \in Logins, NEW ok \in BOOLEAN, FailIncr(p, ok), failed' = failed
        PROVE  fails'.ttl
    <3>1. stage[p] = "failIncr" /\ \A q \in Logins \ {p} : stage'[q] = stage[q]
      BY <2>2, <2>t DEF FailIncr, Answer, Enter
    <3>2. fails'.ttl = fails.ttl
      BY <2>2, <2>t DEF FailIncr
    <3>3. CASE fails.count = 0
      <4>1. ok
        BY <2>2, <3>3 DEF FailIncr
      <4>2. stage' = [stage EXCEPT ![p] = "failExpire"]
        <5>1. fails.count + 1 = 1 /\ ~ (fails.count + 1 >= MaxFails)
          BY <3>3, LoginAssumption
        <5>2. Enter(p, "failExpire")
          BY <2>2, <4>1, <5>1 DEF FailIncr
        <5> QED
          BY <5>2 DEF Enter
      <4> QED
        BY <4>2, <2>t
    <3>4. CASE fails.count > 0
      BY <1>2, <2>2, <3>1, <3>2, <3>4 DEF FailCounterExpires
    <3> QED
      BY <3>3, <3>4, <2>t
  <2>3. ASSUME NEW p \in Logins, NEW ok \in BOOLEAN, FailExpire(p, ok), NoteFailed("EXPIRE", ok)
        PROVE  fails'.ttl
    <3>1. ok
      BY <2>3 DEF NoteFailed
    <3>2. fails.count > 0
      BY <2>3, <3>1, Zenon DEF FailExpire
    <3> QED
      BY <2>3, <3>1, <3>2, <2>t DEF FailExpire
  <2>4. ASSUME NEW p \in Logins, NEW ok \in BOOLEAN, Clear(p, ok), failed \subseteq failed'
        PROVE  fails'.ttl
    <3>1. ~ ok /\ fails' = fails /\ stage[p] # "failExpire"
      BY <2>4 DEF Clear
    <3>2. \A q \in Logins \ {p} : stage'[q] = stage[q]
      BY <2>4, <2>t, Zenon DEF Clear, Answer
    <3> QED
      BY <2>0, <2>4, <3>1, <3>2, Zenon
  <2>5. CASE FailsExpire
    BY <2>5 DEF FailsExpire
  <2>6. CASE /\ failed' = failed
             /\ LockExpires \/ (\E l \in Limiters : Minute(l)) \/ loginVars' = loginVars
    BY <2>6, <1>2 DEF LockExpires, Minute, loginVars, FailCounterExpires
  <2>7. \A c, ok : NoteFailed(c, ok) => failed \subseteq failed'
    BY Zenon DEF NoteFailed
  <2> QED
    BY <1>2, <2>1, <2>2, <2>3, <2>4, <2>5, <2>6, <2>7, LoginCases, Zenon
<1> QED
  BY <1>1, <1>2, LoginTypesInit, LoginTypesHold, PTL DEF LoginSpec

-----------------------------------------------------------------------------
(* The windows                                                             *)

\* What the constants mean for the windows.
Bounded == IsFiniteSet(Logins) /\ \A l \in Limiters : Limits[l] \in Nat \ {0}

\* A step that adds to no window and sends nobody to ZADD.
LEMMA OvershootQuiet ==
    ASSUME Bounded, LoginTypes, LoginTypes', LoginOvershoot,
           \A l \in Limiters : zset'[l] <= zset[l],
           \A q \in Logins : stage'[q] = "zadd" => stage[q] = "zadd" /\ at'[q] = at[q]
    PROVE  LoginOvershoot'
<1> SUFFICES ASSUME NEW l \in Limiters
             PROVE  zset'[l] + Cardinality(LoginAdding(l)') <= Limits[l] + Cardinality(Logins) - 1
  BY Zenon DEF LoginOvershoot
<1>1. LoginAdding(l)' \subseteq LoginAdding(l) /\ LoginAdding(l) \subseteq Logins
  BY Zenon DEF LoginAdding
<1>2. /\ Cardinality(LoginAdding(l)') <= Cardinality(LoginAdding(l))
      /\ Cardinality(LoginAdding(l)') \in Nat /\ Cardinality(LoginAdding(l)) \in Nat
      /\ Cardinality(Logins) \in Nat
  BY <1>1, FS_Subset, FS_CardinalityType, Zenon DEF Bounded
<1>3. zset[l] \in Nat /\ zset'[l] \in Nat /\ Limits[l] \in Nat
  BY Zenon DEF LoginTypes, Bounded
<1>4. zset[l] + Cardinality(LoginAdding(l)) <= Limits[l] + Cardinality(Logins) - 1
  BY DEF LoginOvershoot
<1> QED
  BY <1>2, <1>3, <1>4

\* No request adds to a window, yet.
LEMMA OvershootInit ==
    ASSUME Bounded, LoginInit
    PROVE  LoginOvershoot
<1>c. Cardinality(Logins) \in Nat /\ \A l \in Limiters : Limits[l] \in Nat \ {0}
  BY FS_CardinalityType, Zenon DEF Bounded
<1> SUFFICES ASSUME NEW l \in Limiters
             PROVE  zset[l] + Cardinality(LoginAdding(l)) <= Limits[l] + Cardinality(Logins) - 1
  BY Zenon DEF LoginOvershoot
<1>1. LoginAdding(l) = {} /\ zset[l] = 0
  BY Zenon DEF LoginInit, LoginAdding
<1>2. Cardinality({}) = 0
  BY FS_EmptySet
<1> QED
  BY <1>1, <1>2, <1>c

\* A request that finds room is counted from then on.
LEMMA OvershootNext ==
    ASSUME Bounded, LoginTypes, LoginTypes', LoginOvershoot, [LoginNext]_loginVars
    PROVE  LoginOvershoot'
<1>c. Cardinality(Logins) \in Nat /\ \A l \in Limiters : Limits[l] \in Nat \ {0}
  BY FS_CardinalityType DEF Bounded
<1>s. \A S \in SUBSET Logins : /\ IsFiniteSet(S) /\ Cardinality(S) \in Nat
                              /\ Cardinality(S) <= Cardinality(Logins)
  BY FS_Subset, FS_CardinalityType DEF Bounded
<1>t. zset \in [Limiters -> Nat] /\ stage \in [Logins -> LoginLabels] /\ at \in [Logins -> Limiters]
  BY DEF LoginTypes
<1>1. ASSUME NEW p \in Logins, NEW ok \in BOOLEAN, Zcard(p, ok) PROVE LoginOvershoot'
  <2>0. zset' = zset /\ stage[p] = "zcard"
    BY <1>1 DEF Zcard
  <2>1. CASE ~ Enter(p, "zadd")
    <3>1. stage'[p] # "zadd" /\ \A q \in Logins \ {p} : stage'[q] = stage[q] /\ at'[q] = at[q]
      BY <1>1, <1>t, <2>1, Zenon DEF Zcard, Admit, Answer, Enter
    <3>2. \A l \in Limiters : zset'[l] <= zset[l]
      BY <2>0, <1>t, SMTT(30)
    <3> QED
      BY <3>1, <3>2, OvershootQuiet
  <2>2. CASE Enter(p, "zadd")
    <3>1. stage' = [stage EXCEPT ![p] = "zadd"] /\ at' = at
      BY <2>2, Zenon DEF Enter
    <3>2. ~ Exhausted(at[p])
      <4>1. ~ Admit(p) /\ ~ Answer(p)
        BY <3>1, <1>t, Zenon DEF Admit, Answer, Enter
      <4> QED
        BY <1>1, <4>1 DEF Zcard
    <3>3. ASSUME NEW l \in Limiters
          PROVE  zset'[l] + Cardinality(LoginAdding(l)') <= Limits[l] + Cardinality(Logins) - 1
      <4>1. CASE l = at[p]
        <5>1. zset[l] < Limits[l] /\ zset[l] \in Nat
          BY <3>2, <4>1, <1>c, <1>t DEF Exhausted
        <5>2. LoginAdding(l)' \in SUBSET Logins
          BY Zenon DEF LoginAdding
        <5> QED
          BY <5>1, <5>2, <1>c, <1>s, <2>0
      <4>2. CASE l # at[p]
        <5>1. LoginAdding(l)' = LoginAdding(l)
          BY <2>0, <3>1, <4>2, <1>t, Zenon DEF LoginAdding
        <5> QED
          BY <5>1, <2>0, Zenon DEF LoginOvershoot
      <4> QED
        BY <4>1, <4>2, Zenon
    <3> QED
      BY <3>3, Zenon DEF LoginOvershoot
  <2> QED
    BY <2>1, <2>2
<1>2. ASSUME NEW p \in Logins, NEW ok \in BOOLEAN, Zadd(p, ok) PROVE LoginOvershoot'
  <2>1. stage[p] = "zadd" /\ stage'[p] # "zadd" /\ \A q \in Logins \ {p} : stage'[q] = stage[q] /\ at'[q] = at[q]
    BY <1>2, <1>t, Zenon DEF Zadd, Admit, Enter
  <2>2. /\ zset'[at[p]] <= zset[at[p]] + 1 /\ zset' \in [Limiters -> Nat]
        /\ \A l \in Limiters \ {at[p]} : zset'[l] = zset[l]
    BY <1>2, <1>t DEF Zadd, LoginTypes
  <2>3. ASSUME NEW l \in Limiters
        PROVE  zset'[l] + Cardinality(LoginAdding(l)') <= Limits[l] + Cardinality(Logins) - 1
    <3>1. zset[l] + Cardinality(LoginAdding(l)) <= Limits[l] + Cardinality(Logins) - 1
      BY Zenon DEF LoginOvershoot
    <3>2. CASE l = at[p]
      <4>1. p \in LoginAdding(l) /\ LoginAdding(l)' = LoginAdding(l) \ {p} /\ LoginAdding(l) \in SUBSET Logins
        BY <2>1, <3>2, Zenon DEF LoginAdding
      <4>2. Cardinality(LoginAdding(l)') = Cardinality(LoginAdding(l)) - 1
        BY <4>1, <1>s, FS_RemoveElement, Zenon
      <4>3. Cardinality(LoginAdding(l)) \in Nat /\ zset[l] \in Nat /\ zset'[l] \in Nat
            /\ zset'[l] <= zset[l] + 1
        BY <4>1, <1>s, <1>t, <2>2, <3>2, Zenon
      <4> QED
        BY <3>1, <4>2, <4>3, <1>c, SMTT(30)
    <3>3. CASE l # at[p]
      <4>1. LoginAdding(l)' = LoginAdding(l) /\ zset'[l] = zset[l]
        BY <2>1, <2>2, <3>3 DEF LoginAdding
      <4> QED
        BY <3>1, <4>1
    <3> QED
      BY <3>2, <3>3, Zenon
  <2> QED
    BY <2>3, Zenon DEF LoginOvershoot
<1>3. ASSUME NEW p \in Logins, NEW ok \in BOOLEAN,
             \/ Receive(p) \/ Refuse(p) \/ LockGet(p, ok) \/ Find(p, ok) \/ FailIncr(p, ok)
             \/ FailExpire(p, ok) \/ SetLock(p, ok) \/ Clear(p, ok)
      PROVE  LoginOvershoot'
  <2>1. zset' = zset
    BY <1>3 DEF Receive, Refuse, LockGet, Find, FailIncr, FailExpire, SetLock, Clear
  <2>2. stage'[p] # "zadd" /\ \A q \in Logins \ {p} : stage'[q] = stage[q] /\ at'[q] = at[q]
    BY <1>3, <1>t DEF Receive, Refuse, LockGet, Find, FailIncr, FailExpire,
                      SetLock, Clear, Enter, Answer
  <2>3. \A l \in Limiters : zset'[l] <= zset[l]
    BY <2>1, <1>t
  <2> QED
    BY <2>2, <2>3, OvershootQuiet
<1>4. CASE FailsExpire \/ LockExpires \/ (\E l \in Limiters : Minute(l)) \/ loginVars' = loginVars
  <2>1. stage' = stage /\ at' = at
    BY <1>4, Zenon DEF FailsExpire, LockExpires, Minute, loginVars
  <2>2. \A l \in Limiters : zset'[l] <= zset[l]
    BY <1>4, <1>t DEF FailsExpire, LockExpires, Minute, loginVars
  <2> QED
    BY <2>1, <2>2, OvershootQuiet, Zenon
<1> QED
  BY <1>1, <1>2, <1>3, <1>4, LoginCases

\* With the requests that have still to add, a window is larger than it is.
LEMMA OvershootBounds ==
    ASSUME Bounded, LoginTypes, LoginOvershoot
    PROVE  RateOvershoot
<1>c. Cardinality(Logins) \in Nat /\ \A l \in Limiters : Limits[l] \in Nat \ {0}
  BY FS_CardinalityType, Zenon DEF Bounded
<1>s. \A S \in SUBSET Logins : /\ IsFiniteSet(S) /\ Cardinality(S) \in Nat
                              /\ Cardinality(S) <= Cardinality(Logins)
  BY FS_Subset, FS_CardinalityType, Zenon DEF Bounded
<1> SUFFICES ASSUME LoginTypes, LoginOvershoot, NEW l \in Limiters
             PROVE  zset[l] <= Limits[l] + Cardinality(Logins) - 1
  BY DEF RateOvershoot
<1>1. LoginAdding(l) \in SUBSET Logins /\ zset[l] \in Nat
  BY DEF LoginAdding, LoginTypes
<1>2. zset[l] + Cardinality(LoginAdding(l)) <= Limits[l] + Cardinality(Logins) - 1
  BY DEF LoginOvershoot
<1> QED
  BY <1>1, <1>2, <1>c, <1>s

\* Allow: a window exceeds its limit by no more than the other requests in
\* flight; for any number of requests, limiters and limits.
THEOREM SpecRateOvershoot == LoginSpec => []RateOvershoot
<1>1. Bounded
  BY LoginAssumption DEF Bounded, Limiters
<1>2. LoginInit => LoginOvershoot
  BY <1>1, OvershootInit
<1>3. LoginTypes /\ LoginTypes' /\ LoginOvershoot /\ [LoginNext]_loginVars => LoginOvershoot'
  BY <1>1, OvershootNext
<1>4. LoginTypes /\ LoginOvershoot => RateOvershoot
  BY <1>1, OvershootBounds
<1> QED
  BY <1>2, <1>3, <1>4, LoginTypesInit, LoginTypesHold, PTL DEF LoginSpec
=============================================================================
