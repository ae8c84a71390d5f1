--------------------------- MODULE DegradeProofs ---------------------------
(***************************************************************************)
(* For any goroutines, any channel capacity and any number of calls: as    *)
(* long as no two transitions are fanned out at once, every gauge          *)
(* goroutine ends on the current mode; and the calls the RPC service makes *)
(* never overlap two transitions.                                          *)
(*                                                                         *)
(* Settled is not inductive: during a fan-out some                         *)
(* channels have the new mode and some do not.  FanOut says which: every   *)
(* registered watcher either is still in the notifier's list, and the      *)
(* notifier carries the current mode, or has the current mode already.     *)
(***************************************************************************)
EXTENDS Degrade, SequenceTheorems, TLAPS

In(w, s) == \E i \in 1..Len(s) : s[i] = w

Pending(w) == \E c \in Callers : Notifying(c) /\ In(w, todo[c])

\* A goroutine that has not called Watch yet is in no list and has nothing
\* queued; one that has is in the list of watchers.
Registered ==
    \A w \in Watchers :
        /\ wpc[w] = "start" => /\ chan[w] = << >>
                               /\ ~ In(w, watchers)
                               /\ \A c \in Callers : ~ In(w, todo[c])
        /\ wpc[w] # "start" => In(w, watchers)

\* A running notify hands out the current mode.
ValFresh == \A c \in Callers : Notifying(c) => val[c] = mode

\* After the drop of the oldest value the retry finds room.
RoomOnRetry ==
    \A c \in Callers : pc[c] = "retry" => Len(chan[Head(todo[c])]) < ChanCap

\* A watcher that no notify has still to serve has the current mode.
Served ==
    \A w \in Watchers :
        wpc[w] # "start" /\ ~ Pending(w) =>
            /\ chan[w] # << >> => chan[w][Len(chan[w])] = mode
            /\ chan[w] = << >> /\ wpc[w] = "ranging" => gauge[w] = mode

FanOut == Registered /\ ValFresh /\ RoomOnRetry /\ Served

-----------------------------------------------------------------------------
(* Sequences                                                               *)

\* The members of a list from which the first was taken.
LEMMA InTail ==
    ASSUME NEW S, NEW s \in Seq(S), s # << >>, NEW w
    PROVE  /\ Tail(s) \in Seq(S)
           /\ Head(s) \in S
           /\ In(w, s) => w = Head(s) \/ In(w, Tail(s))
           /\ In(w, Tail(s)) => In(w, s)
           /\ In(Head(s), s)
<1>1. /\ Len(s) \in Nat \ {0}
      /\ Tail(s) \in Seq(S) /\ Head(s) \in S /\ Head(s) = s[1]
      /\ Len(Tail(s)) = Len(s) - 1
      /\ \A i \in 1..Len(Tail(s)) : Tail(s)[i] = s[i + 1]
  BY HeadTailProperties, LenProperties, EmptySeq
<1>2. ASSUME In(w, s) PROVE w = Head(s) \/ In(w, Tail(s))
  <2>1. PICK i \in 1..Len(s) : s[i] = w
    BY <1>2, Zenon DEF In
  <2>2. CASE i = 1
    BY <2>1, <2>2, <1>1, Zenon
  <2>3. CASE i # 1
    <3>1. i - 1 \in 1..Len(Tail(s)) /\ (i - 1) + 1 = i
      BY <2>3, <1>1
    <3>2. Tail(s)[i - 1] = w
      BY <3>1, <2>1, <1>1, Zenon
    <3> QED
      BY <3>1, <3>2, Zenon DEF In
  <2> QED
    BY <2>2, <2>3, Zenon
<1>3. ASSUME In(w, Tail(s)) PROVE In(w, s)
  <2>1. PICK i \in 1..Len(Tail(s)) : Tail(s)[i] = w
    BY <1>3, Zenon DEF In
  <2>2. i + 1 \in 1..Len(s) /\ s[i + 1] = w
    BY <2>1, <1>1
  <2> QED
    BY <2>2, Zenon DEF In
<1>4. In(Head(s), s)
  BY <1>1 DEF In
<1> QED
  BY <1>1, <1>2, <1>3, <1>4, Zenon

\* The last value of a queue after a send and after a receive.
LEMMA LastValue ==
    ASSUME NEW s \in Seq(Modes), NEW m \in Modes
    PROVE  /\ Append(s, m) \in Seq(Modes)
           /\ Len(Append(s, m)) = Len(s) + 1
           /\ Append(s, m) # << >>
           /\ Append(s, m)[Len(Append(s, m))] = m
           /\ s # << >> =>
                /\ Tail(s) \in Seq(Modes)
                /\ Head(s) \in Modes
                /\ Len(s) \in Nat \ {0}
                /\ Len(Tail(s)) = Len(s) - 1
                /\ Tail(s) = << >> => Head(s) = s[Len(s)]
                /\ Tail(s) # << >> => Tail(s)[Len(Tail(s))] = s[Len(s)]
<1>1. /\ Append(s, m) \in Seq(Modes)
      /\ Len(Append(s, m)) = Len(s) + 1
      /\ Append(s, m)[Len(s) + 1] = m
      /\ Len(s) \in Nat
  BY AppendProperties, LenProperties
<1>2. Append(s, m) # << >>
  BY <1>1, EmptySeq
<1>3. ASSUME s # << >>
      PROVE  /\ Tail(s) \in Seq(Modes)
             /\ Head(s) \in Modes
             /\ Len(s) \in Nat \ {0}
             /\ Len(Tail(s)) = Len(s) - 1
             /\ Tail(s) = << >> => Head(s) = s[Len(s)]
             /\ Tail(s) # << >> => Tail(s)[Len(Tail(s))] = s[Len(s)]
  <2>1. /\ Len(s) \in Nat \ {0}
        /\ Tail(s) \in Seq(Modes) /\ Head(s) \in Modes /\ Head(s) = s[1]
        /\ Len(Tail(s)) = Len(s) - 1
        /\ \A i \in 1..Len(Tail(s)) : Tail(s)[i] = s[i + 1]
    BY <1>3, HeadTailProperties, LenProperties, EmptySeq
  <2>2. Tail(s) = << >> => Len(s) = 1
    <3>1. Tail(s) = << >> => Len(Tail(s)) = 0
      BY EmptySeq, Zenon
    <3> QED
      BY <3>1, <2>1
  <2>3. Tail(s) # << >> => Len(Tail(s)) \in 1..Len(Tail(s))
    BY <2>1, EmptySeq
  <2>4. Len(Tail(s)) + 1 = Len(s)
    BY <2>1
  <2>5. Tail(s) # << >> => Tail(s)[Len(Tail(s))] = s[Len(s)]
    BY <2>1, <2>3, <2>4, Zenon
  <2>6. Tail(s) = << >> => Head(s) = s[Len(s)]
    BY <2>1, <2>2, Zenon
  <2> QED
    BY <2>1, <2>5, <2>6, Zenon
<1> QED
  BY <1>1, <1>2, <1>3, Zenon

\* Registration keeps the watchers that are registered and adds one.
LEMMA InAppend ==
    ASSUME NEW S, NEW s \in Seq(S), NEW v \in S, NEW w
    PROVE  /\ Append(s, v) \in Seq(S)
           /\ In(v, Append(s, v))
           /\ In(w, s) => In(w, Append(s, v))
           /\ In(w, Append(s, v)) => w = v \/ In(w, s)
<1>1. /\ Append(s, v) \in Seq(S)
      /\ Len(Append(s, v)) = Len(s) + 1
      /\ \A i \in 1..Len(s) : Append(s, v)[i] = s[i]
      /\ Append(s, v)[Len(s) + 1] = v
      /\ Len(s) \in Nat
  BY AppendProperties, LenProperties
<1> QED
  BY <1>1 DEF In

-----------------------------------------------------------------------------
(* Types                                                                   *)

\* The initial state has the types.
LEMMA InitTypeOK == Init => TypeOK
BY DegradeAssumption, EmptySeq DEF Init, TypeOK, Modes, ModeNormal, ModeDegraded

\* Sending to a channel keeps its type and its capacity.
LEMMA PushType ==
    ASSUME TypeOK, NEW w \in Watchers, NEW m \in Modes, Push(w, m)
    PROVE  /\ chan' \in [Watchers -> Seq(Modes)]
           /\ \A v \in Watchers : Len(chan'[v]) <= ChanCap
           /\ \A v \in Watchers : v # w => chan'[v] = chan[v]
<1>1. chan \in [Watchers -> Seq(Modes)] /\ \A v \in Watchers : Len(chan[v]) <= ChanCap
  BY Zenon DEF TypeOK
<1>2. chan[w] \in Seq(Modes) /\ Len(chan[w]) \in Nat
  BY <1>1, LenProperties, Zenon
<1>3. Append(chan[w], m) \in Seq(Modes) /\ Len(Append(chan[w], m)) = Len(chan[w]) + 1
  BY <1>2, LastValue, Zenon
<1>4. CASE Len(chan[w]) < ChanCap
  <2>1. chan' = [chan EXCEPT ![w] = Append(chan[w], m)]
    BY <1>4, Zenon DEF Push
  <2> QED
    BY <2>1, <1>1, <1>2, <1>3, <1>4, DegradeAssumption
<1>5. CASE ~(Len(chan[w]) < ChanCap)
  BY <1>5, <1>1, Zenon DEF Push
<1> QED
  BY <1>4, <1>5, Zenon

\* Receiving from a channel keeps its type and its capacity.
LEMMA PopType ==
    ASSUME TypeOK, NEW w \in Watchers, chan[w] # << >>,
           chan' = [chan EXCEPT ![w] = Tail(@)]
    PROVE  /\ chan' \in [Watchers -> Seq(Modes)]
           /\ \A v \in Watchers : Len(chan'[v]) <= ChanCap
           /\ \A v \in Watchers : v # w => chan'[v] = chan[v]
           /\ chan'[w] = Tail(chan[w])
           /\ Len(chan'[w]) < ChanCap
           /\ Head(chan[w]) \in Modes
<1>1. chan \in [Watchers -> Seq(Modes)] /\ \A v \in Watchers : Len(chan[v]) <= ChanCap
  BY Zenon DEF TypeOK
<1>2. chan[w] \in Seq(Modes) /\ ModeNormal \in Modes
  BY <1>1, Zenon DEF Modes
<1>3. /\ Tail(chan[w]) \in Seq(Modes) /\ Len(Tail(chan[w])) = Len(chan[w]) - 1
      /\ Len(chan[w]) \in Nat \ {0} /\ Head(chan[w]) \in Modes
  BY <1>2, LastValue, Zenon
<1> QED
  BY <1>1, <1>2, <1>3, DegradeAssumption

\* A call is recorded after the earlier ones.
LEMMA CallsType ==
    ASSUME TypeOK, NEW c \in Callers, NEW op \in Api, Called(c, op)
    PROVE  /\ calls' \in Seq(Api)
           /\ Len(calls) \in Nat
           /\ Len(calls') = Len(calls) + 1
           /\ \A i \in 1..Len(calls) : calls'[i] = calls[i]
           /\ calls'[Len(calls')] = op
<1>1. calls \in Seq(Api) /\ calls' = Append(calls, op)
  BY Zenon DEF TypeOK, Called
<1> QED
  BY <1>1, AppendProperties, LenProperties

\* A mutator that stores a mode.
LEMMA StoreTypeOK ==
    ASSUME TypeOK, NEW c \in Callers, NEW m \in Modes, Store(c, m),
           UNCHANGED <<watcherVars, chan>>, calls' \in Seq(Api)
    PROVE  TypeOK'
BY Zenon DEF TypeOK, Store, watcherVars

\* The channel that a notify is about to serve is a watcher's.
LEMMA HeadOfTodo ==
    ASSUME TypeOK, NEW c \in Callers, todo[c] # << >>
    PROVE  /\ Head(todo[c]) \in Watchers
           /\ Tail(todo[c]) \in Seq(Watchers)
           /\ val[c] \in Modes
<1>1. todo[c] \in Seq(Watchers) /\ val[c] \in Modes
  BY Zenon DEF TypeOK
<1> QED
  BY <1>1, InTail, Zenon

\* One action per step.
LEMMA NextTypeOK == TypeOK /\ [Next]_vars => TypeOK'
<1> SUFFICES ASSUME TypeOK, [Next]_vars PROVE TypeOK'
  BY Zenon
<1> USE DegradeAssumption
<1>1. ASSUME NEW c \in Callers, NEW m \in Modes,
             Set(c, m) \/ PromoteIfWorse(c, m) \/ DemoteIfBetter(c, m)
      PROVE  TypeOK'
  <2>1. calls' \in Seq(Api)
    BY <1>1, CallsType, Zenon DEF Set, PromoteIfWorse, DemoteIfBetter, Api
  <2>2. CASE Store(c, m)
    BY <1>1, <2>1, <2>2, StoreTypeOK, Zenon DEF Set, PromoteIfWorse, DemoteIfBetter
  <2>3. CASE Keep(c)
    BY <1>1, <2>1, <2>3, Zenon
       DEF Set, PromoteIfWorse, DemoteIfBetter, Keep, TypeOK, callerVars, watcherVars
  <2> QED
    BY <1>1, <2>2, <2>3, Zenon DEF Set, PromoteIfWorse, DemoteIfBetter
<1>2. ASSUME NEW c \in Callers, RecordDBError(c) PROVE TypeOK'
  <2>1. calls' \in Seq(Api)
    BY <1>2, CallsType, Zenon DEF RecordDBError, Api
  <2> QED
    BY <1>2, <2>1, Zenon DEF RecordDBError, TypeOK, watcherVars
<1>3. ASSUME NEW c \in Callers, RecordPromote(c) PROVE TypeOK'
  <2>1. ModeDegraded \in Modes /\ calls' \in Seq(Api)
    BY <1>3, Zenon DEF RecordPromote, Modes, TypeOK
  <2>2. CASE Store(c, ModeDegraded)
    BY <1>3, <2>1, <2>2, StoreTypeOK, Zenon DEF RecordPromote
  <2>3. CASE ~ Store(c, ModeDegraded)
    BY <1>3, <2>3, Zenon DEF RecordPromote, TypeOK, watcherVars
  <2> QED
    BY <2>2, <2>3, Zenon
<1>4. ASSUME NEW c \in Callers, NotifySend(c) PROVE TypeOK'
  <2>1. /\ Head(todo[c]) \in Watchers /\ Tail(todo[c]) \in Seq(Watchers)
        /\ val[c] \in Modes
    BY <1>4, HeadOfTodo, Zenon DEF NotifySend
  <2>2. CASE Push(Head(todo[c]), val[c]) /\ NextChannel(c)
    <3>1. /\ chan' \in [Watchers -> Seq(Modes)]
          /\ \A v \in Watchers : Len(chan'[v]) <= ChanCap
      BY <2>1, <2>2, PushType, Zenon
    <3> QED
      BY <1>4, <2>1, <2>2, <3>1, Zenon DEF NotifySend, NextChannel, TypeOK, watcherVars
  <2>3. CASE pc' = [pc EXCEPT ![c] = "drop"] /\ UNCHANGED <<chan, todo>>
    BY <1>4, <2>3, Zenon DEF NotifySend, TypeOK, watcherVars
  <2> QED
    BY <1>4, <2>2, <2>3, Zenon DEF NotifySend
<1>5. ASSUME NEW c \in Callers, NotifyDrop(c) PROVE TypeOK'
  <2>1. todo[c] # << >>
    BY <1>5, Zenon DEF NotifyDrop, TypeOK
  <2>2. Head(todo[c]) \in Watchers
    BY <2>1, HeadOfTodo, Zenon
  <2>3. /\ chan' \in [Watchers -> Seq(Modes)]
        /\ \A v \in Watchers : Len(chan'[v]) <= ChanCap
    <3>1. CASE chan[Head(todo[c])] # << >>
      BY <1>5, <2>2, <3>1, PopType, Zenon DEF NotifyDrop
    <3>2. CASE chan[Head(todo[c])] = << >>
      BY <1>5, <3>2, Zenon DEF NotifyDrop, TypeOK
    <3> QED
      BY <3>1, <3>2, Zenon
  <2> QED
    BY <1>5, <2>1, <2>3, Zenon DEF NotifyDrop, TypeOK, watcherVars
<1>6. ASSUME NEW c \in Callers, NotifyRetry(c) PROVE TypeOK'
  <2>1. todo[c] # << >>
    BY <1>6, Zenon DEF NotifyRetry, TypeOK
  <2>2. /\ Head(todo[c]) \in Watchers /\ Tail(todo[c]) \in Seq(Watchers)
        /\ val[c] \in Modes
    BY <2>1, HeadOfTodo, Zenon
  <2>3. /\ chan' \in [Watchers -> Seq(Modes)]
        /\ \A v \in Watchers : Len(chan'[v]) <= ChanCap
    BY <1>6, <2>2, PushType, Zenon DEF NotifyRetry
  <2> QED
    BY <1>6, <2>2, <2>3, Zenon DEF NotifyRetry, NextChannel, TypeOK, watcherVars
<1>7. ASSUME NEW c \in Callers, NotifyDone(c) PROVE TypeOK'
  BY <1>7, Zenon DEF NotifyDone, TypeOK, watcherVars
<1>8. ASSUME NEW w \in Watchers, Watch(w) PROVE TypeOK'
  <2>1. Append(watchers, w) \in Seq(Watchers)
    BY InAppend, Zenon DEF TypeOK
  <2> QED
    BY <1>8, <2>1, Zenon DEF Watch, TypeOK, callerVars
<1>9. ASSUME NEW w \in Watchers, GaugeInit(w) PROVE TypeOK'
  BY <1>9, Zenon DEF GaugeInit, TypeOK, callerVars
<1>10. ASSUME NEW w \in Watchers, GaugeRecv(w) PROVE TypeOK'
  <2>1. /\ chan' \in [Watchers -> Seq(Modes)]
        /\ \A v \in Watchers : Len(chan'[v]) <= ChanCap
        /\ Head(chan[w]) \in Modes
    BY <1>10, PopType, Zenon DEF GaugeRecv
  <2> QED
    BY <1>10, <2>1, Zenon DEF GaugeRecv, TypeOK, callerVars
<1>11. CASE UNCHANGED vars
  BY <1>11, Zenon DEF vars, TypeOK
<1> QED
  BY <1>1, <1>2, <1>3, <1>4, <1>5, <1>6, <1>7, <1>8, <1>9, <1>10, <1>11, Zenon
     DEF Next, Mutate, Continue, Gauge

\* Every variable keeps its type, channels stay within their capacity, and a
\* notify that found a channel full still has that channel to serve.
THEOREM SpecTypeOK == Spec => []TypeOK
<1> QED
  BY InitTypeOK, NextTypeOK, PTL DEF Spec

-----------------------------------------------------------------------------
(* Fan-outs that do not overlap                                            *)

\* After New no goroutine is registered.
LEMMA InitFanOut == Init => FanOut
BY EmptySeq DEF Init, FanOut, Registered, ValFresh, RoomOnRetry, Served, Notifying, In

\* A store puts every registered watcher into the new notify's list.  The
\* store of another notify is excluded: both would be running afterwards.
LEMMA StoreFanOut ==
    ASSUME TypeOK, FanOut, AtMostOneNotifier', NEW c \in Callers, NEW m \in Modes,
           Store(c, m), UNCHANGED <<watcherVars, chan>>
    PROVE  FanOut'
<1> USE DEF Store, watcherVars
<1>1. /\ Notifying(c)' /\ todo'[c] = watchers /\ val'[c] = m /\ pc'[c] = "send"
  BY Zenon DEF TypeOK, Notifying
<1>2. \A d \in Callers : d # c => ~ Notifying(d)'
  BY <1>1, Zenon DEF AtMostOneNotifier
<1>3. Registered'
  <2>1. \A d \in Callers : d # c => todo'[d] = todo[d]
    BY Zenon DEF TypeOK
  <2> SUFFICES ASSUME NEW w \in Watchers, wpc[w] = "start", NEW d \in Callers
               PROVE  ~ In(w, todo[d])'
    BY Zenon DEF FanOut, Registered, In
  <2>2. ~ In(w, watchers) /\ ~ In(w, todo[d])
    BY Zenon DEF FanOut, Registered
  <2> QED
    BY <2>1, <2>2, <1>1 DEF In
<1>4. ValFresh'
  BY <1>1, <1>2, Zenon DEF ValFresh
<1>5. RoomOnRetry'
  BY <1>1, <1>2, Zenon DEF RoomOnRetry, Notifying
<1>6. Served'
  <2> SUFFICES ASSUME NEW w \in Watchers, wpc[w] # "start" PROVE Pending(w)'
    BY Zenon DEF Served
  <2>1. In(w, watchers)
    BY Zenon DEF FanOut, Registered
  <2>2. In(w, todo[c])'
    BY <2>1, <1>1, Zenon DEF In
  <2> QED
    BY <2>2, <1>1, Zenon DEF Pending
<1> QED
  BY <1>3, <1>4, <1>5, <1>6, Zenon DEF FanOut

\* A step that changes neither the mode nor the channels nor the watchers and
\* keeps the set of running notifies and their lists.
LEMMA QuietFanOut ==
    ASSUME TypeOK, FanOut, UNCHANGED <<mode, todo, val, watcherVars, chan>>,
           \A d \in Callers : Notifying(d)' <=> Notifying(d),
           \A d \in Callers : pc'[d] = "retry" => pc[d] = "retry"
    PROVE  FanOut'
<1> USE DEF watcherVars
<1>1. Registered'
  BY DEF FanOut, Registered, In
<1>2. ValFresh'
  BY Zenon DEF FanOut, ValFresh, Notifying
<1>3. RoomOnRetry'
  BY DEF FanOut, RoomOnRetry
<1>4. \A w \in Watchers : Pending(w)' <=> Pending(w)
  BY DEF Pending, In, Notifying
<1>5. Served'
  BY <1>4, Zenon DEF FanOut, Served
<1> QED
  BY <1>1, <1>2, <1>3, <1>5, Zenon DEF FanOut

\* The value reaches the channel at the head of the list, which is served
\* from now on; the other watchers keep their place.
LEMMA DeliverFanOut ==
    ASSUME TypeOK, FanOut, AtMostOneNotifier, NEW c \in Callers,
           Notifying(c), todo[c] # << >>,
           Len(chan[Head(todo[c])]) < ChanCap,
           Push(Head(todo[c]), val[c]), NextChannel(c),
           UNCHANGED <<mode, val, watcherVars>>
    PROVE  FanOut'
<1> DEFINE h == Head(todo[c])
<1> USE DEF watcherVars
<1>1. h \in Watchers /\ val[c] \in Modes /\ todo[c] \in Seq(Watchers)
  BY HeadOfTodo, Zenon DEF TypeOK
<1>2. chan' = [chan EXCEPT ![h] = Append(chan[h], val[c])]
  BY Zenon DEF Push
<1>3. chan[h] \in Seq(Modes) /\ chan \in [Watchers -> Seq(Modes)]
  BY <1>1, Zenon DEF TypeOK
<1>4. chan'[h] = Append(chan[h], val[c]) /\ \A v \in Watchers : v # h => chan'[v] = chan[v]
  BY <1>1, <1>2, <1>3, Zenon
<1>5. chan'[h] # << >> /\ chan'[h][Len(chan'[h])] = mode
  <2>1. /\ Append(chan[h], val[c]) # << >>
        /\ Append(chan[h], val[c])[Len(Append(chan[h], val[c]))] = val[c]
    BY <1>1, <1>3, LastValue, Zenon
  <2>2. val[c] = mode
    BY DEF FanOut, ValFresh
  <2> QED
    BY <2>1, <2>2, <1>4, Zenon
<1>6. pc'[c] = "send" /\ todo'[c] = Tail(todo[c])
      /\ \A d \in Callers : d # c => pc'[d] = pc[d] /\ todo'[d] = todo[d]
  BY DEF NextChannel, TypeOK
<1>7. \A d \in Callers : d # c => ~ Notifying(d) /\ ~ Notifying(d)'
  BY <1>6, Zenon DEF AtMostOneNotifier, Notifying
<1> HIDE DEF h
<1>8. \A w : In(w, todo'[c]) => In(w, todo[c])
  BY <1>1, <1>6, InTail
<1>9. Registered'
  <2>1. In(h, todo[c])
    BY <1>1, InTail, Zenon DEF h
  <2>2. wpc[h] # "start"
    BY <2>1, <1>1, Zenon DEF FanOut, Registered
  <2> SUFFICES ASSUME NEW w \in Watchers
               PROVE /\ wpc[w] = "start" =>
                            /\ chan'[w] = << >>
                            /\ ~ In(w, watchers)
                            /\ \A d \in Callers : ~ In(w, todo'[d])
                     /\ wpc[w] # "start" => In(w, watchers)
    BY Zenon DEF Registered, In
  <2>3. \A d \in Callers : In(w, todo'[d]) => In(w, todo[d])
    BY <1>6, <1>8, Zenon
  <2> QED
    BY <1>4, <2>2, <2>3, Zenon DEF FanOut, Registered
<1>10. ValFresh'
  BY <1>6, <1>7, Zenon DEF FanOut, ValFresh
<1>11. RoomOnRetry'
  BY <1>6, <1>7, Zenon DEF RoomOnRetry, Notifying
<1>12. Served'
  <2> SUFFICES ASSUME NEW w \in Watchers, wpc[w] # "start", ~ Pending(w)'
               PROVE  /\ chan'[w] # << >> => chan'[w][Len(chan'[w])] = mode
                      /\ chan'[w] = << >> /\ wpc[w] = "ranging" => gauge[w] = mode
    BY Zenon DEF Served
  <2>1. CASE w = h
    BY <2>1, <1>5, Zenon
  <2>2. CASE w # h
    <3>1. ~ In(w, todo'[c])
      BY <1>6, Zenon DEF Pending, Notifying, In
    <3>2. ~ In(w, todo[c])
      BY <3>1, <2>2, <1>1, <1>6, InTail DEF h
    <3>3. ~ Pending(w)
      BY <3>2, <1>7, Zenon DEF Pending
    <3> QED
      BY <3>3, <2>2, <1>4, Zenon DEF FanOut, Served
  <2> QED
    BY <2>1, <2>2, Zenon
<1> QED
  BY <1>9, <1>10, <1>11, <1>12, Zenon DEF FanOut

\* The oldest value of a full channel is dropped while its watcher is still
\* in the list, and there is room afterwards.
LEMMA DropFanOut ==
    ASSUME TypeOK, FanOut, AtMostOneNotifier, NEW c \in Callers, NotifyDrop(c)
    PROVE  FanOut'
<1> DEFINE h == Head(todo[c])
<1> USE DEF watcherVars
<1>1. todo[c] # << >> /\ todo[c] \in Seq(Watchers) /\ Notifying(c)
  BY Zenon DEF NotifyDrop, TypeOK, Notifying
<1>2. h \in Watchers /\ In(h, todo[c])
  BY <1>1, InTail, Zenon
<1>3. chan[h] \in Seq(Modes) /\ Len(chan[h]) \in Nat
  BY <1>2, LenProperties, Zenon DEF TypeOK
<1>4. /\ \A v \in Watchers : v # h => chan'[v] = chan[v]
      /\ Len(chan'[h]) < ChanCap
      /\ chan[h] = << >> => chan'[h] = << >>
  <2>1. CASE chan[h] # << >>
    BY <1>2, <2>1, PopType, Zenon DEF NotifyDrop
  <2>2. CASE chan[h] = << >>
    <3>1. chan' = chan
      BY <2>2, Zenon DEF NotifyDrop
    <3>2. Len(chan[h]) = 0
      BY <2>2, EmptySeq, Zenon
    <3> QED
      BY <2>2, <3>1, <3>2, DegradeAssumption
  <2> QED
    BY <2>1, <2>2, Zenon
<1>5. /\ pc'[c] = "retry" /\ \A d \in Callers : d # c => pc'[d] = pc[d]
      /\ UNCHANGED <<mode, todo, val, watchers, wpc, gauge>>
  BY Zenon DEF NotifyDrop, TypeOK
<1>6. \A d \in Callers : d # c => ~ Notifying(d) /\ ~ Notifying(d)'
  BY <1>1, <1>5, Zenon DEF AtMostOneNotifier, Notifying
<1> HIDE DEF h
<1>7. Registered'
  BY <1>2, <1>4, <1>5 DEF FanOut, Registered, In
<1>8. ValFresh'
  BY <1>1, <1>5, <1>6, Zenon DEF FanOut, ValFresh
<1>9. RoomOnRetry'
  BY <1>4, <1>5, <1>6, Zenon DEF RoomOnRetry, Notifying, h
<1>10. Served'
  <2> SUFFICES ASSUME NEW w \in Watchers, wpc[w] # "start", ~ Pending(w)'
               PROVE  /\ chan'[w] # << >> => chan'[w][Len(chan'[w])] = mode
                      /\ chan'[w] = << >> /\ wpc[w] = "ranging" => gauge[w] = mode
    BY <1>5, Zenon DEF Served
  <2>1. ~ In(w, todo[c])
    BY <1>5, Zenon DEF Pending, Notifying, In
  <2>2. ~ Pending(w) /\ w # h
    BY <2>1, <1>2, <1>6, Zenon DEF Pending
  <2> QED
    BY <2>2, <1>4, Zenon DEF FanOut, Served
<1> QED
  BY <1>7, <1>8, <1>9, <1>10, Zenon DEF FanOut

\* The end of a notify: its list is empty, so nobody was waiting for it.
LEMMA DoneFanOut ==
    ASSUME TypeOK, FanOut, NEW c \in Callers, NotifyDone(c)
    PROVE  FanOut'
<1> USE DEF watcherVars
<1>1. /\ pc'[c] = "idle" /\ \A d \in Callers : d # c => pc'[d] = pc[d]
      /\ UNCHANGED <<mode, todo, val, watchers, wpc, gauge, chan>>
  BY Zenon DEF NotifyDone, TypeOK
<1>2. \A w : ~ In(w, todo[c])
  BY EmptySeq DEF NotifyDone, In
<1>3. \A w \in Watchers : Pending(w)' <=> Pending(w)
  BY <1>1, <1>2, Zenon DEF Pending, In, Notifying
<1>4. Registered'
  BY <1>1 DEF FanOut, Registered, In
<1>5. ValFresh'
  BY <1>1, Zenon DEF FanOut, ValFresh, Notifying
<1>6. RoomOnRetry'
  BY <1>1, Zenon DEF FanOut, RoomOnRetry
<1>7. Served'
  BY <1>1, <1>3, Zenon DEF FanOut, Served
<1> QED
  BY <1>4, <1>5, <1>6, <1>7, Zenon DEF FanOut

\* Registration in the middle of a fan-out misses that transition; the first
\* export reads the mode afterwards.
LEMMA GaugeFanOut ==
    ASSUME TypeOK, FanOut, NEW v \in Watchers, Gauge(v)
    PROVE  FanOut'
<1> USE DEF callerVars
<1>1. UNCHANGED <<mode, pc, todo, val>>
  BY Zenon DEF Gauge, Watch, GaugeInit, GaugeRecv
<1>2. ValFresh'
  BY <1>1, Zenon DEF FanOut, ValFresh, Notifying
<1>3. \A w \in Watchers : Pending(w)' <=> Pending(w)
  BY <1>1 DEF Pending, In, Notifying
<1>4. CASE Watch(v)
  <2>1. /\ watchers' = Append(watchers, v) /\ UNCHANGED <<chan, gauge>>
        /\ wpc[v] = "start" /\ wpc'[v] = "watched"
        /\ \A w \in Watchers : w # v => wpc'[w] = wpc[w]
    BY <1>4, Zenon DEF Watch, TypeOK
  <2>2. In(v, watchers') /\ \A w : In(w, watchers) <=> In(w, watchers') /\ (w # v \/ In(v, watchers))
    BY <2>1, InAppend, Zenon DEF TypeOK
  <2>3. Registered'
    BY <1>1, <2>1, <2>2 DEF FanOut, Registered, In
  <2>4. RoomOnRetry'
    BY <1>1, <2>1, Zenon DEF FanOut, RoomOnRetry
  <2>5. chan[v] = << >>
    BY <2>1, Zenon DEF FanOut, Registered
  <2>6. Served'
    BY <1>1, <1>3, <2>1, <2>5, Zenon DEF FanOut, Served
  <2> QED
    BY <1>2, <2>3, <2>4, <2>6, Zenon DEF FanOut
<1>5. CASE GaugeInit(v)
  <2>1. /\ UNCHANGED <<chan, watchers>>
        /\ wpc[v] = "watched" /\ wpc'[v] = "ranging" /\ gauge'[v] = mode
        /\ \A w \in Watchers : w # v => wpc'[w] = wpc[w] /\ gauge'[w] = gauge[w]
    BY <1>5, Zenon DEF GaugeInit, TypeOK
  <2>2. Registered'
    BY <1>1, <2>1 DEF FanOut, Registered, In
  <2>3. RoomOnRetry'
    BY <1>1, <2>1, Zenon DEF FanOut, RoomOnRetry
  <2>4. Served'
    BY <1>1, <1>3, <2>1, Zenon DEF FanOut, Served
  <2> QED
    BY <1>2, <2>2, <2>3, <2>4, Zenon DEF FanOut
<1>6. CASE GaugeRecv(v)
  <2>1. chan[v] \in Seq(Modes) /\ chan[v] # << >> /\ mode \in Modes
    BY <1>6, Zenon DEF GaugeRecv, TypeOK
  <2>2. /\ chan'[v] = Tail(chan[v]) /\ gauge'[v] = Head(chan[v])
        /\ UNCHANGED <<watchers, wpc>> /\ wpc[v] = "ranging"
        /\ \A w \in Watchers : w # v => chan'[w] = chan[w] /\ gauge'[w] = gauge[w]
    BY <1>6, Zenon DEF GaugeRecv, TypeOK
  <2>3. /\ Len(chan'[v]) < ChanCap
        /\ chan'[v] = << >> => gauge'[v] = chan[v][Len(chan[v])]
        /\ chan'[v] # << >> => chan'[v][Len(chan'[v])] = chan[v][Len(chan[v])]
    BY <1>6, <2>1, <2>2, LastValue, PopType, Zenon DEF GaugeRecv
  <2>4. Registered'
    BY <1>1, <2>2 DEF FanOut, Registered, In
  <2>5. RoomOnRetry'
    <3> SUFFICES ASSUME NEW c \in Callers, pc[c] = "retry"
                 PROVE  Len(chan'[Head(todo[c])]) < ChanCap
      BY <1>1, Zenon DEF RoomOnRetry
    <3>1. Head(todo[c]) \in Watchers /\ Len(chan[Head(todo[c])]) < ChanCap
      BY HeadOfTodo DEF TypeOK, FanOut, RoomOnRetry
    <3> QED
      BY <3>1, <2>2, <2>3, Zenon
  <2>6. Served'
    BY <1>1, <1>3, <2>1, <2>2, <2>3, Zenon DEF FanOut, Served
  <2> QED
    BY <1>2, <2>4, <2>5, <2>6, Zenon DEF FanOut
<1> QED
  BY <1>4, <1>5, <1>6, Zenon DEF Gauge

\* Every step keeps FanOut as long as fan-outs do not overlap.
LEMMA NextFanOut ==
    TypeOK /\ FanOut /\ AtMostOneNotifier /\ AtMostOneNotifier' /\ [Next]_vars => FanOut'
<1> SUFFICES ASSUME TypeOK, FanOut, AtMostOneNotifier, AtMostOneNotifier', [Next]_vars
             PROVE  FanOut'
  BY Zenon
<1>1. ASSUME NEW c \in Callers, NEW m \in Modes,
             Set(c, m) \/ PromoteIfWorse(c, m) \/ DemoteIfBetter(c, m)
      PROVE  FanOut'
  <2>1. CASE Store(c, m)
    BY <1>1, <2>1, StoreFanOut, Zenon DEF Set, PromoteIfWorse, DemoteIfBetter
  <2>2. CASE Keep(c)
    BY <1>1, <2>2, QuietFanOut, Zenon
       DEF Set, PromoteIfWorse, DemoteIfBetter, Keep, callerVars, Notifying
  <2> QED
    BY <1>1, <2>1, <2>2, Zenon DEF Set, PromoteIfWorse, DemoteIfBetter
<1>2. ASSUME NEW c \in Callers, RecordDBError(c) PROVE FanOut'
  <2>1. \A d \in Callers : Notifying(d)' <=> Notifying(d)
    BY <1>2, Zenon DEF RecordDBError, Called, Notifying, TypeOK
  <2>2. \A d \in Callers : pc'[d] = "retry" => pc[d] = "retry"
    BY <1>2, Zenon DEF RecordDBError, Called, TypeOK
  <2> QED
    BY <1>2, <2>1, <2>2, QuietFanOut, Zenon DEF RecordDBError
<1>3. ASSUME NEW c \in Callers, RecordPromote(c) PROVE FanOut'
  <2>1. CASE Store(c, ModeDegraded)
    <3>1. ModeDegraded \in Modes
      BY Zenon DEF Modes
    <3> QED
      BY <1>3, <2>1, <3>1, StoreFanOut, Zenon DEF RecordPromote
  <2>2. CASE pc' = [pc EXCEPT ![c] = "idle"] /\ UNCHANGED <<mode, todo, val>>
    <3>1. \A d \in Callers : Notifying(d)' <=> Notifying(d)
      BY <1>3, <2>2, Zenon DEF RecordPromote, Notifying, TypeOK
    <3>2. \A d \in Callers : pc'[d] = "retry" => pc[d] = "retry"
      BY <1>3, <2>2, Zenon DEF RecordPromote, TypeOK
    <3> QED
      BY <1>3, <2>2, <3>1, <3>2, QuietFanOut, Zenon DEF RecordPromote
  <2> QED
    BY <1>3, <2>1, <2>2, Zenon DEF RecordPromote
<1>4. ASSUME NEW c \in Callers, NotifySend(c) PROVE FanOut'
  <2>1. CASE Len(chan[Head(todo[c])]) < ChanCap
    BY <1>4, <2>1, DeliverFanOut, Zenon DEF NotifySend, Notifying
  <2>2. CASE ~ (Len(chan[Head(todo[c])]) < ChanCap)
    <3>1. \A d \in Callers : Notifying(d)' <=> Notifying(d)
      BY <1>4, <2>2, Zenon DEF NotifySend, Notifying, TypeOK
    <3>2. \A d \in Callers : pc'[d] = "retry" => pc[d] = "retry"
      BY <1>4, <2>2, Zenon DEF NotifySend, TypeOK
    <3> QED
      BY <1>4, <2>2, <3>1, <3>2, QuietFanOut, Zenon DEF NotifySend
  <2> QED
    BY <2>1, <2>2, Zenon
<1>5. ASSUME NEW c \in Callers, NotifyDrop(c) PROVE FanOut'
  BY <1>5, DropFanOut, Zenon
<1>6. ASSUME NEW c \in Callers, NotifyRetry(c) PROVE FanOut'
  <2>1. todo[c] # << >> /\ Notifying(c) /\ Len(chan[Head(todo[c])]) < ChanCap
    BY <1>6, Zenon DEF NotifyRetry, Notifying, TypeOK, FanOut, RoomOnRetry
  <2> QED
    BY <1>6, <2>1, DeliverFanOut, Zenon DEF NotifyRetry
<1>7. ASSUME NEW c \in Callers, NotifyDone(c) PROVE FanOut'
  BY <1>7, DoneFanOut, Zenon
<1>8. ASSUME NEW w \in Watchers, Gauge(w) PROVE FanOut'
  BY <1>8, GaugeFanOut, Zenon
<1>9. CASE UNCHANGED vars
  BY <1>9, QuietFanOut, Zenon DEF vars, watcherVars, Notifying
<1> QED
  BY <1>1, <1>2, <1>3, <1>4, <1>5, <1>6, <1>7, <1>8, <1>9, Zenon DEF Next, Mutate, Continue

\* FanOut gives the property when nothing is being fanned out.
LEMMA FanOutSettles == TypeOK /\ FanOut => Settled
<1> SUFFICES ASSUME TypeOK, FanOut, \A c \in Callers : ~ Notifying(c),
                    NEW w \in Watchers, wpc[w] = "ranging"
             PROVE  Newest(w) = mode
  BY Zenon DEF Settled
<1>1. ~ Pending(w)
  BY DEF Pending
<1> QED
  BY <1>1, Zenon DEF FanOut, Served, Newest, Last

\* Whatever mutators are called, if no two transitions are fanned out at the
\* same time then every gauge goroutine ends on the current mode: neither the
\* dropped values of a full channel nor a late registration lose it.
THEOREM SpecConsumersSeeMostRecentMode == Spec => ConsumersSeeMostRecentMode
<1> QED
  BY SpecTypeOK, InitFanOut, NextFanOut, FanOutSettles, PTL
     DEF Spec, ConsumersSeeMostRecentMode

-----------------------------------------------------------------------------
(* The calls the RPC service makes                                         *)

Wired == Only({"recordDBErrorForDegrade"})

\* While only recordDBErrorForDegrade was called after the self-test at boot,
\* the mode changes once, from Normal, and that one change is fanned out alone.
OneTransition ==
    /\ mode \in {ModeNormal, ModeDegraded}
    /\ mode = ModeNormal => \A c \in Callers : ~ Notifying(c)
    /\ AtMostOneNotifier

WiredInv == Wired => OneTransition

\* A call of another mutator ends Wired, and no step begins it again.
LEMMA CalledWired ==
    ASSUME TypeOK, NEW c \in Callers, NEW op \in Api, Called(c, op)
    PROVE  Wired' => Wired /\ op = "recordDBErrorForDegrade"
<1> SUFFICES ASSUME Wired' PROVE Wired /\ op = "recordDBErrorForDegrade"
  OBVIOUS
<1>1. /\ Len(calls) \in Nat /\ Len(calls') = Len(calls) + 1
      /\ \A i \in 1..Len(calls) : calls'[i] = calls[i]
      /\ calls'[Len(calls')] = op
  BY CallsType
<1>2. \A i \in 1..Len(calls') : calls'[i] = "recordDBErrorForDegrade"
  BY Zenon DEF Wired, Only
<1> QED
  BY <1>1, <1>2 DEF Wired, Only

\* WiredInv is kept by every step.
LEMMA NextWired ==
    ASSUME TypeOK, WiredInv, [Next]_vars
    PROVE  WiredInv'
<1> USE DEF Notifying
<1>1. ASSUME NEW c \in Callers, NEW m \in Modes,
             Set(c, m) \/ PromoteIfWorse(c, m) \/ DemoteIfBetter(c, m)
      PROVE  WiredInv'
  <2>1. PICK op \in Api : op # "recordDBErrorForDegrade" /\ Called(c, op)
    BY <1>1, Zenon DEF Set, PromoteIfWorse, DemoteIfBetter, Api
  <2> QED
    BY <2>1, CalledWired, Zenon DEF WiredInv
<1>2. ASSUME NEW c \in Callers, RecordDBError(c) PROVE WiredInv'
  <2>1. Wired' => Wired
    BY <1>2, CalledWired, Zenon DEF RecordDBError, Api
  <2>2. ASSUME OneTransition PROVE OneTransition'
    BY <1>2, <2>2, Zenon DEF RecordDBError, Called, OneTransition, AtMostOneNotifier, TypeOK
  <2> QED
    BY <2>1, <2>2, Zenon DEF WiredInv
<1>3. ASSUME NEW c \in Callers, OneTransition, RecordPromote(c)
      PROVE  OneTransition'
  <2>1. CASE mode = ModeNormal
    <3>1. Store(c, ModeDegraded)
      BY <1>3, <2>1 DEF RecordPromote, Severity, Modes, ModeNormal, ModeDegraded
    <3>2. \A d \in Callers : d # c => ~ Notifying(d)'
      BY <1>3, <2>1, <3>1, Zenon DEF OneTransition, Store, TypeOK
    <3>3. mode' = ModeDegraded
      BY <3>1, Zenon DEF Store
    <3> QED
      BY <1>3, <3>2, <3>3 DEF OneTransition, AtMostOneNotifier, ModeNormal, ModeDegraded
  <2>2. CASE mode = ModeDegraded
    <3>1. pc' = [pc EXCEPT ![c] = "idle"] /\ UNCHANGED mode
      BY <1>3, <2>2 DEF RecordPromote, Severity, Modes, ModeDegraded
    <3> QED
      BY <1>3, <2>2, <3>1, Zenon DEF OneTransition, AtMostOneNotifier, TypeOK, ModeNormal, ModeDegraded
  <2> QED
    BY <1>3, <2>1, <2>2, Zenon DEF OneTransition
<1>4. ASSUME NEW c \in Callers, OneTransition,
             NotifySend(c) \/ NotifyDrop(c) \/ NotifyRetry(c) \/ NotifyDone(c)
      PROVE  OneTransition'
  <2>1. /\ Notifying(c) /\ UNCHANGED mode
        /\ \A d \in Callers : d # c => pc'[d] = pc[d]
    BY <1>4, Zenon DEF NotifySend, NotifyDrop, NotifyRetry, NotifyDone, NextChannel, TypeOK
  <2> QED
    BY <1>4, <2>1, Zenon DEF OneTransition, AtMostOneNotifier
<1>5. ASSUME NEW w \in Watchers, OneTransition, Gauge(w) PROVE OneTransition'
  BY <1>5, Zenon DEF Gauge, Watch, GaugeInit, GaugeRecv, callerVars, OneTransition, AtMostOneNotifier
<1>6. ASSUME OneTransition, UNCHANGED vars PROVE OneTransition'
  BY <1>6 DEF vars, OneTransition, AtMostOneNotifier
<1>7. ASSUME UNCHANGED calls, OneTransition => OneTransition' PROVE WiredInv'
  BY <1>7, Zenon DEF WiredInv, Wired, Only
<1>8. ASSUME NEW c \in Callers, Continue(c) PROVE WiredInv'
  <2>1. UNCHANGED calls
    BY <1>8, Zenon DEF Continue, RecordPromote, NotifySend, NotifyDrop, NotifyRetry, NotifyDone
  <2> QED
    BY <1>3, <1>4, <1>7, <1>8, <2>1, Zenon DEF Continue
<1>9. ASSUME NEW w \in Watchers, Gauge(w) PROVE WiredInv'
  <2>1. UNCHANGED calls
    BY <1>9, Zenon DEF Gauge, Watch, GaugeInit, GaugeRecv
  <2> QED
    BY <1>5, <1>7, <1>9, <2>1, Zenon
<1>10. CASE UNCHANGED vars
  BY <1>6, <1>7, <1>10, Zenon DEF vars
<1> QED
  BY <1>1, <1>2, <1>8, <1>9, <1>10, Zenon DEF Next, Mutate

\* With the calls the RPC service really makes, by any number of requests at
\* once, two transitions never overlap.
THEOREM SpecWiredAtMostOneNotifier == Spec => []WiredAtMostOneNotifier
<1>1. Init => WiredInv
  BY Zenon DEF Init, WiredInv, OneTransition, AtMostOneNotifier, Notifying
<1>2. TypeOK /\ WiredInv /\ [Next]_vars => WiredInv'
  BY NextWired
<1>3. WiredInv => WiredAtMostOneNotifier
  BY DEF WiredInv, OneTransition, WiredAtMostOneNotifier, Wired
<1> QED
  BY <1>1, <1>2, <1>3, SpecTypeOK, PTL DEF Spec

\* Only Set and DemoteIfBetter make the mode less severe: a detector's report
\* (PromoteIfWorse, recordDBErrorForDegrade) never does.
THEOREM SpecOnlyRecoveryLowers == Spec => OnlyRecoveryLowers
<1>1. ASSUME TypeOK, [Next]_vars
      PROVE  Severity(mode') >= Severity(mode) \/ Recovery
  <2> SUFFICES ASSUME ~ Recovery PROVE Severity(mode') >= Severity(mode)
    BY Zenon
  <2>0. Severity(mode) \in Nat
    BY DEF Severity, Modes, ModeNormal, ModeDegraded, ModeProtected, ModeEmergency
  <2>1. CASE UNCHANGED mode
    BY <2>0, <2>1
  <2>2. ASSUME NEW c \in Callers, NEW m \in Modes,
               Set(c, m) \/ PromoteIfWorse(c, m) \/ DemoteIfBetter(c, m)
        PROVE  Severity(mode') >= Severity(mode)
    <3>1. PromoteIfWorse(c, m)
      BY <2>2, Zenon DEF Recovery
    <3>2. CASE Severity(m) > Severity(mode) /\ mode' = m
      <4>1. Severity(m) \in Nat
        BY DEF Severity, Modes, ModeNormal, ModeDegraded, ModeProtected, ModeEmergency
      <4> QED
        BY <2>0, <3>2, <4>1
    <3> QED
      BY <3>1, <3>2, <2>1, Zenon DEF PromoteIfWorse, Store, Keep
  <2>3. ASSUME NEW c \in Callers, RecordPromote(c)
        PROVE  Severity(mode') >= Severity(mode)
    <3>1. CASE Severity(ModeDegraded) > Severity(mode) /\ mode' = ModeDegraded
      <4>1. Severity(ModeDegraded) \in Nat
        BY Zenon DEF Severity, ModeDegraded
      <4> QED
        BY <2>0, <3>1, <4>1
    <3> QED
      BY <2>3, <3>1, <2>1, Zenon DEF RecordPromote, Store
  <2> QED
    BY <1>1, <2>1, <2>2, <2>3, Zenon
       DEF Next, Mutate, Continue, Gauge, RecordDBError, NotifySend, NotifyDrop,
           NotifyRetry, NotifyDone, Watch, GaugeInit, GaugeRecv, vars
<1> QED
  BY <1>1, SpecTypeOK, PTL DEF Spec, OnlyRecoveryLowers
=============================================================================
