------------------------------- MODULE Degrade -------------------------------
(***************************************************************************)
(* common/degrade/degrade.go: the global degrade mode, its mutators and    *)
(* the fan-out of every transition to the watchers' channels, with the two *)
(* clients the RPC service has: recordDBErrorForDegrade in                 *)
(* cmd/rpc/internal/logic/call.go and the gauge goroutine of               *)
(* cmd/rpc/internal/svc/serviceContext.go.                                 *)
(*                                                                         *)
(* A mutator changes the mode and takes its snapshot of the watchers under *)
(* the mutex (one step).  notify runs after the unlock, one channel        *)
(* operation per step, so the fan-outs of two mutators interleave.         *)
(***************************************************************************)
EXTENDS DegradeModes, Sequences, SequencesExt

CONSTANTS Callers,    \* the goroutines that call a mutator
          Watchers,   \* the gauge goroutines
          ChanCap,    \* the capacity of a watcher's channel, 8 in Watch
          MaxCalls    \* bound: the number of calls in a behaviour

\* The calls that may change the mode.
Api == {"Set", "PromoteIfWorse", "DemoteIfBetter", "recordDBErrorForDegrade"}

ASSUME DegradeAssumption ==
    /\ ChanCap \in Nat \ {0}
    /\ MaxCalls \in Nat

VARIABLES mode,      \* m.mode
          watchers,  \* m.watchers: the registered watchers, in order
          chan,      \* the buffered values of each watcher's channel
          pc,        \* where each caller is
          todo,      \* the watchers its notify has still to serve
          val,       \* the mode its notify hands out
          wpc,       \* where each gauge goroutine is
          gauge,     \* the value each gauge goroutine last exported
          calls      \* history: the calls so far, in order

callerVars == <<pc, todo, val>>
watcherVars == <<watchers, wpc, gauge>>
vars == <<mode, watchers, chan, pc, todo, val, wpc, gauge, calls>>

\* New, then the self-test of NewServiceContext: without Redis it calls
\* Set(ModeDegraded), before any other goroutine exists.
Init ==
    /\ mode \in {ModeNormal, ModeDegraded}
    /\ watchers = << >>
    /\ chan = [w \in Watchers |-> << >>]
    /\ pc = [c \in Callers |-> "idle"]
    /\ todo = [c \in Callers |-> << >>]
    /\ val = [c \in Callers |-> ModeNormal]
    /\ wpc = [w \in Watchers |-> "start"]
    /\ gauge = [w \in Watchers |-> ModeNormal]
    /\ calls = << >>

-----------------------------------------------------------------------------
(* The mutators                                                            *)

Called(c, op) ==
    /\ pc[c] = "idle"
    /\ Len(calls) < MaxCalls
    /\ calls' = Append(calls, op)

\* The critical section of a mutator that stores m, and the start of notify.
Store(c, m) ==
    /\ mode' = m
    /\ pc' = [pc EXCEPT ![c] = "send"]
    /\ todo' = [todo EXCEPT ![c] = watchers]
    /\ val' = [val EXCEPT ![c] = m]

Keep(c) == UNCHANGED <<mode, callerVars>>

Set(c, m) ==
    /\ Called(c, "Set")
    /\ IF mode # m THEN Store(c, m) ELSE Keep(c)
    /\ UNCHANGED <<watcherVars, chan>>

\* Mutant: the new observation replaces the mode whatever the mode is.
PromoteIfWorse_Always(c, m) ==
    /\ Called(c, "PromoteIfWorse")
    /\ Store(c, m)
    /\ UNCHANGED <<watcherVars, chan>>

PromoteIfWorse(c, m) ==
    /\ Called(c, "PromoteIfWorse")
    /\ IF Severity(m) > Severity(mode) THEN Store(c, m) ELSE Keep(c)
    /\ UNCHANGED <<watcherVars, chan>>

DemoteIfBetter(c, m) ==
    /\ Called(c, "DemoteIfBetter")
    /\ IF Severity(m) < Severity(mode) THEN Store(c, m) ELSE Keep(c)
    /\ UNCHANGED <<watcherVars, chan>>

\* recordDBErrorForDegrade reads the mode without the lock ...
RecordDBError(c) ==
    /\ Called(c, "recordDBErrorForDegrade")
    /\ pc' = [pc EXCEPT ![c] = IF mode = ModeNormal THEN "record" ELSE @]
    /\ UNCHANGED <<mode, todo, val, watcherVars, chan>>

\* Mutant: an observation as severe as the mode counts as a transition.
RecordPromote_NotWorse(c) ==
    /\ pc[c] = "record"
    /\ IF Severity(ModeDegraded) >= Severity(mode)
       THEN Store(c, ModeDegraded)
       ELSE /\ pc' = [pc EXCEPT ![c] = "idle"]
            /\ UNCHANGED <<mode, todo, val>>
    /\ UNCHANGED <<watcherVars, chan, calls>>

\* ... and then calls PromoteIfWorse(ModeDegraded).
RecordPromote(c) ==
    /\ pc[c] = "record"
    /\ IF Severity(ModeDegraded) > Severity(mode)
       THEN Store(c, ModeDegraded)
       ELSE /\ pc' = [pc EXCEPT ![c] = "idle"]
            /\ UNCHANGED <<mode, todo, val>>
    /\ UNCHANGED <<watcherVars, chan, calls>>

-----------------------------------------------------------------------------
(* notify: for each channel of the snapshot, a non-blocking send; when the *)
(* buffer is full a non-blocking receive and one more non-blocking send.   *)

NextChannel(c) ==
    /\ pc' = [pc EXCEPT ![c] = "send"]
    /\ todo' = [todo EXCEPT ![c] = Tail(@)]

\* A non-blocking send.
Push(w, m) ==
    chan' = IF Len(chan[w]) < ChanCap
            THEN [chan EXCEPT ![w] = Append(@, m)]
            ELSE chan

\* Mutant: a full channel is skipped.
NotifySend_SkipsFull(c) ==
    /\ pc[c] = "send"
    /\ todo[c] # << >>
    /\ Push(Head(todo[c]), val[c])
    /\ NextChannel(c)
    /\ UNCHANGED <<mode, val, watcherVars, calls>>

NotifySend(c) ==
    /\ pc[c] = "send"
    /\ todo[c] # << >>
    /\ IF Len(chan[Head(todo[c])]) < ChanCap
       THEN Push(Head(todo[c]), val[c]) /\ NextChannel(c)
       ELSE /\ pc' = [pc EXCEPT ![c] = "drop"]
            /\ UNCHANGED <<chan, todo>>
    /\ UNCHANGED <<mode, val, watcherVars, calls>>

\* The watcher may have emptied the channel in the meantime.
NotifyDrop(c) ==
    /\ pc[c] = "drop"
    /\ LET w == Head(todo[c])
       IN  chan' = IF chan[w] # << >> THEN [chan EXCEPT ![w] = Tail(@)] ELSE chan
    /\ pc' = [pc EXCEPT ![c] = "retry"]
    /\ UNCHANGED <<mode, todo, val, watcherVars, calls>>

NotifyRetry(c) ==
    /\ pc[c] = "retry"
    /\ Push(Head(todo[c]), val[c])
    /\ NextChannel(c)
    /\ UNCHANGED <<mode, val, watcherVars, calls>>

NotifyDone(c) ==
    /\ pc[c] = "send"
    /\ todo[c] = << >>
    /\ pc' = [pc EXCEPT ![c] = "idle"]
    /\ UNCHANGED <<mode, todo, val, watcherVars, chan, calls>>

-----------------------------------------------------------------------------
(* The gauge goroutine                                                     *)

Watch(w) ==
    /\ wpc[w] = "start"
    /\ watchers' = Append(watchers, w)
    /\ wpc' = [wpc EXCEPT ![w] = "watched"]
    /\ UNCHANGED <<mode, callerVars, chan, gauge, calls>>

\* Mutant: the goroutine ranges over the channel without the first read.
GaugeInit_NoRead(w) ==
    /\ wpc[w] = "watched"
    /\ wpc' = [wpc EXCEPT ![w] = "ranging"]
    /\ UNCHANGED <<mode, callerVars, watchers, gauge, chan, calls>>

\* The first export reads the mode after the registration.
GaugeInit(w) ==
    /\ wpc[w] = "watched"
    /\ gauge' = [gauge EXCEPT ![w] = mode]
    /\ wpc' = [wpc EXCEPT ![w] = "ranging"]
    /\ UNCHANGED <<mode, callerVars, watchers, chan, calls>>

GaugeRecv(w) ==
    /\ wpc[w] = "ranging"
    /\ chan[w] # << >>
    /\ gauge' = [gauge EXCEPT ![w] = Head(chan[w])]
    /\ chan' = [chan EXCEPT ![w] = Tail(@)]
    /\ UNCHANGED <<mode, callerVars, watchers, wpc, calls>>

-----------------------------------------------------------------------------

Mutate(c) ==
    \/ \E m \in Modes : Set(c, m) \/ PromoteIfWorse(c, m) \/ DemoteIfBetter(c, m)
    \/ RecordDBError(c)

Continue(c) ==
    \/ RecordPromote(c)
    \/ NotifySend(c)
    \/ NotifyDrop(c)
    \/ NotifyRetry(c)
    \/ NotifyDone(c)

Gauge(w) == Watch(w) \/ GaugeInit(w) \/ GaugeRecv(w)

Next ==
    \/ \E c \in Callers : Mutate(c) \/ Continue(c)
    \/ \E w \in Watchers : Gauge(w)

Spec == Init /\ [][Next]_vars

\* Goroutines that can run are run.  Nothing forces a call.
Fairness ==
    /\ \A c \in Callers : WF_vars(Continue(c))
    /\ \A w \in Watchers : WF_vars(Gauge(w))

FairSpec == Spec /\ Fairness

-----------------------------------------------------------------------------

TypeOK ==
    /\ mode \in Modes
    /\ watchers \in Seq(Watchers)
    /\ chan \in [Watchers -> Seq(Modes)]
    /\ \A w \in Watchers : Len(chan[w]) <= ChanCap
    /\ pc \in [Callers -> {"idle", "record", "send", "drop", "retry"}]
    /\ todo \in [Callers -> Seq(Watchers)]
    /\ \A c \in Callers : pc[c] \in {"drop", "retry"} => todo[c] # << >>
    /\ val \in [Callers -> Modes]
    /\ wpc \in [Watchers -> {"start", "watched", "ranging"}]
    /\ gauge \in [Watchers -> Modes]
    /\ calls \in Seq(Api)

Notifying(c) == pc[c] \in {"send", "drop", "retry"}

\* No two transitions are being fanned out at once.
AtMostOneNotifier ==
    \A c, d \in Callers : Notifying(c) /\ Notifying(d) => c = d

Only(ops) == \A i \in 1..Len(calls) : calls[i] \in ops

\* call.go:280-291: with the calls the RPC service makes, recordDBErrorForDegrade
\* from any number of requests at once, two transitions are never fanned out
\* at once, although each request reads the mode before it takes the lock.
WiredAtMostOneNotifier ==
    Only({"recordDBErrorForDegrade"}) => AtMostOneNotifier

\* What the gauge goroutine will show once it has read its channel.
Newest(w) == IF chan[w] # << >> THEN Last(chan[w]) ELSE gauge[w]

\* Once no notify is running, the last value queued for a gauge goroutine (or,
\* with an empty queue, the value it exported) is the current mode.
Settled ==
    (\A c \in Callers : ~ Notifying(c)) =>
        \A w \in Watchers : wpc[w] = "ranging" => Newest(w) = mode

\* degrade.go:20, "Consumers always see the most recent mode": it holds as long
\* as no two transitions are fanned out at once, although a full channel drops
\* values and a goroutine may register in the middle of a fan-out.
ConsumersSeeMostRecentMode == []AtMostOneNotifier => []Settled

\* The gauge converges: under the same condition, after every transition the
\* exported values come to agree with the mode, and the last one stays.
GaugeConverges ==
    []AtMostOneNotifier => []<>(\A w \in Watchers : gauge[w] = mode)

Recovery == \E c \in Callers, m \in Modes : Set(c, m) \/ DemoteIfBetter(c, m)

\* degrade.go:164, "only the most severe observation wins", and the comment
\* at call.go:280: only Set and DemoteIfBetter lower the mode.  No detector's
\* report does, however stale the mode was that the detector read before it.
OnlyRecoveryLowers == [][Severity(mode') >= Severity(mode) \/ Recovery]_vars
=============================================================================
