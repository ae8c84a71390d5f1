----------------------------- MODULE DbSemaphore -----------------------------
(***************************************************************************)
(* common/db/semaphore.go: the counting semaphore every DB query of the    *)
(* RPC process runs under (WithToken).  A buffered channel of capacity     *)
(* Total holds one element per token that is out: Acquire sends, Release   *)
(* receives.                                                               *)
(*                                                                         *)
(* The channel is the Go runtime's.  A sender that finds it full parks in  *)
(* a FIFO queue; a receive from a full channel with parked senders moves   *)
(* the first sender's element into the buffer in the same step, so the     *)
(* length does not drop and no newcomer can overtake.  A goroutine parked  *)
(* in a select leaves the queue when another of its cases fires.           *)
(*                                                                         *)
(* The cumulative counters acquired and rejected are only reported by      *)
(* Stats and are left out; waiting is kept.  Total > 0: NewSemaphore       *)
(* returns nil for the other values and every method of nil is a no-op.    *)
(***************************************************************************)
EXTENDS Naturals, Sequences, FiniteSets, SequencesExt

CONSTANTS Procs,    \* the goroutines that call the semaphore
          Total     \* maxConcurrent of NewSemaphore

ASSUME SemaphoreAssumption ==
    /\ IsFiniteSet(Procs)
    /\ Total \in Nat \ {0}

VARIABLES pc,       \* where each goroutine is in Acquire / WithToken
          sendq,    \* the goroutines parked on the full channel, in order
          tokens,   \* len(s.tokens)
          waiting   \* the atomic counter s.waiting

vars == <<pc, sendq, tokens, waiting>>

\* idle      outside the semaphore
\* entered   in Acquire, waiting incremented, select not evaluated yet
\* parked    blocked in the select
\* sent      its element is in the channel, Acquire has not returned yet
\* canceled  ctx.Done() was chosen, Acquire has not returned yet
\* running   holds a token and executes f (or the caller's own section)
PcValues == {"idle", "entered", "parked", "sent", "canceled", "running"}

Holders == {p \in Procs : pc[p] \in {"sent", "running"}}

InAcquire == {p \in Procs : pc[p] \in {"entered", "parked", "sent", "canceled"}}

Init ==
    /\ pc = [p \in Procs |-> "idle"]
    /\ sendq = << >>
    /\ tokens = 0
    /\ waiting = 0

-----------------------------------------------------------------------------
(* Acquire                                                                 *)

\* waiting is incremented before the select.
AcquireEnter(p) ==
    /\ pc[p] = "idle"
    /\ pc' = [pc EXCEPT ![p] = "entered"]
    /\ waiting' = waiting + 1
    /\ UNCHANGED <<sendq, tokens>>

\* Mutant: the channel has no capacity.
AcquireSend_Unbounded(p) ==
    /\ pc[p] = "entered"
    /\ tokens' = tokens + 1
    /\ pc' = [pc EXCEPT ![p] = "sent"]
    /\ UNCHANGED <<sendq, waiting>>

\* A select whose send case is ready.
AcquireSend(p) ==
    /\ pc[p] = "entered"
    /\ tokens < Total
    /\ tokens' = tokens + 1
    /\ pc' = [pc EXCEPT ![p] = "sent"]
    /\ UNCHANGED <<sendq, waiting>>

\* A select with no ready case parks the goroutine on the channel.
AcquirePark(p) ==
    /\ pc[p] = "entered"
    /\ tokens = Total
    /\ sendq' = Append(sendq, p)
    /\ pc' = [pc EXCEPT ![p] = "parked"]
    /\ UNCHANGED <<tokens, waiting>>

\* Mutant: a canceled goroutine stays in the queue.
AcquireCancel_StaysQueued(p) ==
    /\ pc[p] \in {"entered", "parked"}
    /\ pc' = [pc EXCEPT ![p] = "canceled"]
    /\ UNCHANGED <<sendq, tokens, waiting>>

\* ctx.Done() fires: at once, or after the goroutine parked.  A request's
\* context may end at any time, so there is no further condition.
AcquireCancel(p) ==
    /\ pc[p] \in {"entered", "parked"}
    /\ IF pc[p] = "parked"
       THEN \E i \in 1..Len(sendq) : sendq[i] = p /\ sendq' = RemoveAt(sendq, i)
       ELSE UNCHANGED sendq
    /\ pc' = [pc EXCEPT ![p] = "canceled"]
    /\ UNCHANGED <<tokens, waiting>>

\* WithToken goes on to f when Acquire returned nil and returns its error
\* otherwise.
AfterAcquire(outcome) == IF outcome = "sent" THEN "running" ELSE "idle"

\* Mutant: waiting is decremented on success only.
AcquireReturn_LeaksWaiting(p) ==
    /\ pc[p] \in {"sent", "canceled"}
    /\ pc' = [pc EXCEPT ![p] = AfterAcquire(@)]
    /\ waiting' = IF pc[p] = "sent" THEN waiting - 1 ELSE waiting
    /\ UNCHANGED <<sendq, tokens>>

\* Mutant: WithToken ignores the error of Acquire.
AcquireReturn_IgnoresError(p) ==
    /\ pc[p] \in {"sent", "canceled"}
    /\ pc' = [pc EXCEPT ![p] = "running"]
    /\ waiting' = waiting - 1
    /\ UNCHANGED <<sendq, tokens>>

\* The deferred decrement runs on both ways out of Acquire.
AcquireReturn(p) ==
    /\ pc[p] \in {"sent", "canceled"}
    /\ pc' = [pc EXCEPT ![p] = AfterAcquire(@)]
    /\ waiting' = waiting - 1
    /\ UNCHANGED <<sendq, tokens>>

-----------------------------------------------------------------------------
(* TryAcquire and Release                                                  *)

\* The select has a default case: without room TryAcquire changes nothing.
TryAcquire(p) ==
    /\ pc[p] = "idle"
    /\ tokens < Total
    /\ tokens' = tokens + 1
    /\ pc' = [pc EXCEPT ![p] = "running"]
    /\ UNCHANGED <<sendq, waiting>>

\* Mutant: a released token does not wake a parked goroutine.
Release_NoHandoff(p) ==
    /\ pc[p] = "running"
    /\ pc' = [pc EXCEPT ![p] = "idle"]
    /\ tokens' = IF tokens > 0 THEN tokens - 1 ELSE tokens
    /\ UNCHANGED <<sendq, waiting>>

\* f returned or panicked and the deferred Release receives one element.
\* With parked senders the first of them completes its send.  An empty
\* channel takes the default case, which only logs.
Release(p) ==
    /\ pc[p] = "running"
    /\ IF sendq # << >>
       THEN /\ pc' = [pc EXCEPT ![p] = "idle", ![Head(sendq)] = "sent"]
            /\ sendq' = Tail(sendq)
            /\ UNCHANGED tokens
       ELSE /\ pc' = [pc EXCEPT ![p] = "idle"]
            /\ tokens' = IF tokens > 0 THEN tokens - 1 ELSE tokens
            /\ UNCHANGED sendq
    /\ UNCHANGED waiting

-----------------------------------------------------------------------------

Step(p) ==
    \/ AcquireEnter(p)
    \/ AcquireSend(p)
    \/ AcquirePark(p)
    \/ AcquireCancel(p)
    \/ AcquireReturn(p)
    \/ TryAcquire(p)
    \/ Release(p)

Next == \E p \in Procs : Step(p)

Spec == Init /\ [][Next]_vars

\* A goroutine that can run is run, and a query under a token ends: the
\* driver returns a result or an error, or f panics.
Fairness ==
    \A p \in Procs : WF_vars(AcquireSend(p) \/ AcquirePark(p) \/ AcquireReturn(p) \/ Release(p))

FairSpec == Spec /\ Fairness

-----------------------------------------------------------------------------

TypeOK ==
    /\ pc \in [Procs -> PcValues]
    /\ sendq \in Seq(Procs)
    /\ tokens \in 0..Total
    /\ waiting \in 0..Cardinality(Procs)

\* The comment at semaphore.go:38: the channel's length is the number of
\* goroutines that hold a token.  A canceled Acquire that kept a token, or a
\* Release that ran for a caller without one, would break it.
TokensAreHolders == tokens = Cardinality(Holders)

\* The comment at semaphore.go:66: waiting is the number of goroutines
\* inside Acquire, whichever way each of them leaves.
WaitingIsExact == waiting = Cardinality(InAcquire)

\* No lost wakeup: goroutines are parked only while every token is out, and
\* the queue holds exactly the parked goroutines, each once.
ParkedOnlyWhenFull ==
    /\ sendq # << >> => tokens = Total
    /\ \A i, j \in 1..Len(sendq) : sendq[i] = sendq[j] => i = j
    /\ \A p \in Procs : pc[p] = "parked" <=> \E i \in 1..Len(sendq) : sendq[i] = p

Abstract == INSTANCE Permits WITH holders <- Holders

\* The semaphore is a bounded set of permits: at most Total goroutines hold
\* one, and a permit changes hands only by being taken, given or passed.
ImplementsPermits == Abstract!Spec

\* A goroutine blocked in Acquire is not starved: it gets a token or its
\* context ends, however many others keep arriving.
ParkedIsServed == \A p \in Procs : pc[p] = "parked" ~> pc[p] # "parked"
=============================================================================
