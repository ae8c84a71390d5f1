-------------------------- MODULE DbSemaphoreProofs --------------------------
(***************************************************************************)
(* For every set of goroutines and every Total > 0: the types, the token   *)
(* accounting, the queue discipline and the refinement of Permits.         *)
(*                                                                         *)
(* None of the three invariants is inductive alone.  Release hands its     *)
(* token to Head(sendq): that this keeps the count needs the head to be    *)
(* parked (ParkedOnlyWhenFull), and that the queue is empty whenever the   *)
(* count drops needs the count.                                            *)
(***************************************************************************)
EXTENDS DbSemaphore, FiniteSetTheorems, SequenceTheorems, TLAPS

IInv == TypeOK /\ TokensAreHolders /\ WaitingIsExact /\ ParkedOnlyWhenFull

-----------------------------------------------------------------------------
(* Lemmas on counting.                                                     *)

\* A set of goroutines is finite and its size is a natural number.
LEMMA ProcsSubsetFinite ==
    ASSUME NEW S \in SUBSET Procs
    PROVE  /\ IsFiniteSet(S)
           /\ Cardinality(S) \in Nat
           /\ Cardinality(S) <= Cardinality(Procs)
           /\ Cardinality(Procs) \in Nat
BY SemaphoreAssumption, FS_Subset, FS_CardinalityType, Zenon

\* One goroutine more, one goroutine less.
LEMMA CountAdd ==
    ASSUME NEW S \in SUBSET Procs, NEW p \in Procs, p \notin S
    PROVE  Cardinality(S \cup {p}) = Cardinality(S) + 1
BY ProcsSubsetFinite, FS_AddElement, Zenon

\* One goroutine less.
LEMMA CountRemove ==
    ASSUME NEW S \in SUBSET Procs, NEW p \in S
    PROVE  Cardinality(S \ {p}) = Cardinality(S) - 1
BY ProcsSubsetFinite, FS_RemoveElement, Zenon

\* A set with an element is not counted as zero.
LEMMA CountPositive ==
    ASSUME NEW S \in SUBSET Procs, NEW p \in S
    PROVE  Cardinality(S) > 0
<1>1. Cardinality(S) \in Nat /\ Cardinality(S \ {p}) \in Nat
  <2>1. S \ {p} \in SUBSET Procs
    BY Zenon
  <2> QED
    BY <2>1, ProcsSubsetFinite, Zenon
<1>2. Cardinality(S \ {p}) = Cardinality(S) - 1
  BY CountRemove, Zenon
<1> QED
  BY <1>1, <1>2

\* waiting stays in range because it counts a set of goroutines.
LEMMA CountInRange ==
    ASSUME NEW S \in SUBSET Procs
    PROVE  Cardinality(S) \in 0..Cardinality(Procs)
BY ProcsSubsetFinite

-----------------------------------------------------------------------------
(* A goroutine that gives up leaves the queue from the middle.             *)

\* What is left of a queue without its i-th element.
LEMMA RemoveAtProperties ==
    ASSUME NEW s \in Seq(Procs), NEW i \in 1..Len(s)
    PROVE  /\ RemoveAt(s, i) \in Seq(Procs)
           /\ Len(RemoveAt(s, i)) = Len(s) - 1
           /\ \A j \in 1..(Len(s) - 1) :
                RemoveAt(s, i)[j] = IF j < i THEN s[j] ELSE s[j + 1]
<1> DEFINE l == SubSeq(s, 1, i - 1)
           r == SubSeq(s, i + 1, Len(s))
<1>1. Len(s) \in Nat
  BY LenProperties, Zenon
<1>2. /\ l \in Seq(Procs)
      /\ Len(l) = i - 1
      /\ \A j \in 1..(i - 1) : l[j] = s[j]
  <2>1. CASE i = 1
    BY <2>1, <1>1, SubSeqEmpty, EmptySeq
  <2>2. CASE i # 1
    BY <2>2, <1>1, SubSeqProperties
  <2> QED
    BY <2>1, <2>2, Zenon
<1>3. /\ r \in Seq(Procs)
      /\ Len(r) = Len(s) - i
      /\ \A j \in 1..(Len(s) - i) : r[j] = s[j + i]
  <2>1. CASE i = Len(s)
    BY <2>1, <1>1, SubSeqEmpty, EmptySeq
  <2>2. CASE i # Len(s)
    BY <2>2, <1>1, SubSeqProperties
  <2> QED
    BY <2>1, <2>2, Zenon
<1>4. /\ l \o r \in Seq(Procs)
      /\ Len(l \o r) = Len(l) + Len(r)
      /\ \A j \in 1..(Len(l) + Len(r)) :
           (l \o r)[j] = IF j <= Len(l) THEN l[j] ELSE r[j - Len(l)]
  BY <1>2, <1>3, ConcatProperties, Zenon
<1>5. RemoveAt(s, i) = l \o r
  BY Zenon DEF RemoveAt
<1> HIDE DEF l, r
<1>6. ASSUME NEW j \in 1..(Len(s) - 1)
      PROVE  (l \o r)[j] = IF j < i THEN s[j] ELSE s[j + 1]
  <2>1. CASE j < i
    BY <2>1, <1>1, <1>2, <1>3, <1>4
  <2>2. CASE j >= i
    <3>1. j - (i - 1) \in 1..(Len(s) - i)
      BY <2>2, <1>1
    <3>2. (l \o r)[j] = r[j - (i - 1)]
      BY <2>2, <1>1, <1>2, <1>3, <1>4
    <3>3. r[j - (i - 1)] = s[(j - (i - 1)) + i]
      BY <3>1, <1>3, Zenon
    <3>4. (j - (i - 1)) + i = j + 1
      BY <1>1
    <3> QED
      BY <2>2, <3>2, <3>3, <3>4, <1>1
  <2>3. j < i \/ j >= i
    BY <1>1
  <2> QED
    BY <2>1, <2>2, <2>3, Zenon
<1>7. Len(l \o r) = Len(s) - 1
  BY <1>1, <1>2, <1>3, <1>4
<1> QED
  BY <1>4, <1>5, <1>6, <1>7, Zenon

-----------------------------------------------------------------------------
(* The inductive invariant.                                                *)

\* NewSemaphore: an empty channel and nobody inside.
LEMMA InitIInv == Init => IInv
<1> SUFFICES ASSUME Init PROVE IInv
  BY Zenon
<1>1. Holders = {} /\ InAcquire = {}
  BY Zenon DEF Init, Holders, InAcquire
<1>2. Cardinality({}) = 0
  BY FS_EmptySet
<1>3. TokensAreHolders /\ WaitingIsExact
  BY <1>1, <1>2 DEF Init, TokensAreHolders, WaitingIsExact
<1>4. ParkedOnlyWhenFull
  BY DEF Init, ParkedOnlyWhenFull
<1>5. TypeOK
  <2>1. waiting \in 0..Cardinality(Procs)
    BY <1>1, <1>3, CountInRange, Zenon DEF WaitingIsExact
  <2> QED
    BY <2>1, SemaphoreAssumption DEF Init, TypeOK, PcValues
<1> QED
  BY <1>3, <1>4, <1>5, Zenon DEF IInv

\* The entry of Acquire counts the caller as waiting.
LEMMA EnterIInv ==
    ASSUME IInv, NEW p \in Procs, AcquireEnter(p)
    PROVE  IInv'
<1> USE DEF IInv
<1>1. Holders' = Holders
  BY Zenon DEF AcquireEnter, Holders, TypeOK
<1>2. InAcquire' = InAcquire \cup {p} /\ p \notin InAcquire
  BY Zenon DEF AcquireEnter, InAcquire, TypeOK
<1>3. TokensAreHolders'
  BY <1>1 DEF AcquireEnter, TokensAreHolders
<1>4. WaitingIsExact'
  <2>1. InAcquire \in SUBSET Procs
    BY DEF InAcquire
  <2> QED
    BY <1>2, <2>1, CountAdd DEF AcquireEnter, WaitingIsExact
<1>5. ParkedOnlyWhenFull'
  BY DEF AcquireEnter, ParkedOnlyWhenFull, TypeOK
<1>6. TypeOK'
  <2>1. waiting' \in 0..Cardinality(Procs)
    BY <1>4, CountInRange, Zenon DEF WaitingIsExact, InAcquire
  <2> QED
    BY <2>1 DEF AcquireEnter, TypeOK, PcValues
<1> QED
  BY <1>3, <1>4, <1>5, <1>6, Zenon

\* A send that finds room: one token, one holder.
LEMMA SendIInv ==
    ASSUME IInv, NEW p \in Procs, AcquireSend(p)
    PROVE  IInv'
<1> USE DEF IInv
<1>1. Holders' = Holders \cup {p} /\ p \notin Holders
  BY Zenon DEF AcquireSend, Holders, TypeOK
<1>2. InAcquire' = InAcquire
  BY Zenon DEF AcquireSend, InAcquire, TypeOK
<1>3. TokensAreHolders'
  <2>1. Holders \in SUBSET Procs
    BY Zenon DEF Holders
  <2> QED
    BY <1>1, <2>1, CountAdd, Zenon DEF AcquireSend, TokensAreHolders
<1>4. WaitingIsExact'
  BY <1>2, Zenon DEF AcquireSend, WaitingIsExact
<1>5. ParkedOnlyWhenFull'
  BY DEF AcquireSend, ParkedOnlyWhenFull, TypeOK
<1>6. TypeOK'
  BY SemaphoreAssumption DEF AcquireSend, TypeOK, PcValues
<1> QED
  BY <1>3, <1>4, <1>5, <1>6, Zenon

\* A goroutine parks at the end of the queue of a full channel.
LEMMA ParkIInv ==
    ASSUME IInv, NEW p \in Procs, AcquirePark(p)
    PROVE  IInv'
<1> USE DEF IInv
<1>1. Holders' = Holders
  BY Zenon DEF AcquirePark, Holders, TypeOK
<1>2. InAcquire' = InAcquire
  BY Zenon DEF AcquirePark, InAcquire, TypeOK
<1>3. TokensAreHolders'
  BY <1>1, Zenon DEF AcquirePark, TokensAreHolders
<1>4. WaitingIsExact'
  BY <1>2, Zenon DEF AcquirePark, WaitingIsExact
<1>5. /\ sendq' \in Seq(Procs)
      /\ Len(sendq) \in Nat
      /\ Len(sendq') = Len(sendq) + 1
      /\ \A i \in 1..Len(sendq) : sendq'[i] = sendq[i]
      /\ sendq'[Len(sendq) + 1] = p
  BY AppendProperties, LenProperties DEF AcquirePark, TypeOK
<1>6. TypeOK'
  BY <1>5, Zenon DEF AcquirePark, TypeOK, PcValues
<1>7. \A i \in 1..Len(sendq) : sendq[i] # p
  BY Zenon DEF AcquirePark, ParkedOnlyWhenFull, TypeOK
<1>8. \A i, j \in 1..Len(sendq') : sendq'[i] = sendq'[j] => i = j
  <2> SUFFICES ASSUME NEW i \in 1..Len(sendq'), NEW j \in 1..Len(sendq'),
                      sendq'[i] = sendq'[j]
               PROVE  i = j
    BY Zenon
  <2>1. /\ i \in 1..Len(sendq) \/ i = Len(sendq) + 1
        /\ j \in 1..Len(sendq) \/ j = Len(sendq) + 1
    BY <1>5
  <2>2. \A k, l \in 1..Len(sendq) : sendq[k] = sendq[l] => k = l
    BY Zenon DEF ParkedOnlyWhenFull
  <2> QED
    BY <2>1, <2>2, <1>5, <1>7, Zenon
<1>9. \A q \in Procs : pc'[q] = "parked" <=> \E i \in 1..Len(sendq') : sendq'[i] = q
  <2> SUFFICES ASSUME NEW q \in Procs
               PROVE  pc'[q] = "parked" <=> \E i \in 1..Len(sendq') : sendq'[i] = q
    BY Zenon
  <2>1. CASE q = p
    BY <2>1, <1>5 DEF AcquirePark, TypeOK
  <2>2. CASE q # p
    <3>1. pc'[q] = pc[q]
      BY <2>2, Zenon DEF AcquirePark, TypeOK
    <3>2. pc[q] = "parked" <=> \E i \in 1..Len(sendq) : sendq[i] = q
      BY Zenon DEF ParkedOnlyWhenFull
    <3>3. (\E i \in 1..Len(sendq) : sendq[i] = q)
            <=> \E i \in 1..Len(sendq') : sendq'[i] = q
      BY <2>2, <1>5
    <3> QED
      BY <3>1, <3>2, <3>3, Zenon
  <2> QED
    BY <2>1, <2>2, Zenon
<1>10. ParkedOnlyWhenFull'
  BY <1>8, <1>9, Zenon DEF AcquirePark, ParkedOnlyWhenFull
<1> QED
  BY <1>3, <1>4, <1>6, <1>10, Zenon

\* A goroutine that gives up leaves the queue, if it was in it.
LEMMA CancelIInv ==
    ASSUME IInv, NEW p \in Procs, AcquireCancel(p)
    PROVE  IInv'
<1> USE DEF IInv
<1>1. Holders' = Holders
  BY DEF AcquireCancel, Holders, TypeOK
<1>2. InAcquire' = InAcquire
  BY DEF AcquireCancel, InAcquire, TypeOK
<1>3. TokensAreHolders'
  BY <1>1 DEF AcquireCancel, TokensAreHolders
<1>4. WaitingIsExact'
  BY <1>2 DEF AcquireCancel, WaitingIsExact
<1>5. \A q \in Procs : q # p => pc'[q] = pc[q]
  BY DEF AcquireCancel, TypeOK
<1>6. pc' \in [Procs -> PcValues] /\ pc'[p] = "canceled"
  BY Zenon DEF AcquireCancel, TypeOK, PcValues
<1>7. CASE pc[p] # "parked"
  <2>1. sendq' = sendq /\ tokens' = tokens /\ waiting' = waiting
    BY <1>7, Zenon DEF AcquireCancel
  <2>2. TypeOK'
    BY <1>6, <2>1, Zenon DEF TypeOK
  <2>3. ParkedOnlyWhenFull'
    BY <1>5, <1>6, <1>7, <2>1, Zenon DEF ParkedOnlyWhenFull
  <2> QED
    BY <1>3, <1>4, <2>2, <2>3, Zenon
<1>8. CASE pc[p] = "parked"
  <2>1. PICK k \in 1..Len(sendq) : sendq[k] = p /\ sendq' = RemoveAt(sendq, k)
    BY <1>8, Zenon DEF AcquireCancel
  <2>2. /\ sendq' \in Seq(Procs)
        /\ Len(sendq) \in Nat
        /\ Len(sendq') = Len(sendq) - 1
        /\ \A j \in 1..(Len(sendq) - 1) :
             sendq'[j] = IF j < k THEN sendq[j] ELSE sendq[j + 1]
    BY <2>1, RemoveAtProperties, LenProperties, Zenon DEF TypeOK
  <2>3. TypeOK'
    BY <1>6, <2>2, Zenon DEF AcquireCancel, TypeOK
  <2>4. \A i, j \in 1..Len(sendq) : sendq[i] = sendq[j] => i = j
    BY Zenon DEF ParkedOnlyWhenFull
  <2>5. \A i, j \in 1..Len(sendq') : sendq'[i] = sendq'[j] => i = j
    <3> SUFFICES ASSUME NEW i \in 1..Len(sendq'), NEW j \in 1..Len(sendq'),
                        sendq'[i] = sendq'[j]
                 PROVE  i = j
      BY Zenon
    <3> DEFINE f(x) == IF x < k THEN x ELSE x + 1
    <3>1. /\ f(i) \in 1..Len(sendq) /\ sendq'[i] = sendq[f(i)]
          /\ f(j) \in 1..Len(sendq) /\ sendq'[j] = sendq[f(j)]
      BY <2>2
    <3>2. f(i) = f(j)
      BY <3>1, <2>4, Zenon
    <3> QED
      BY <3>2, <2>2
  <2>6. ASSUME NEW q \in Procs
        PROVE  pc'[q] = "parked" <=> \E i \in 1..Len(sendq') : sendq'[i] = q
    <3>1. CASE q = p
      <4>1. \A i \in 1..Len(sendq') : sendq'[i] # p
        <5> SUFFICES ASSUME NEW i \in 1..Len(sendq'), sendq'[i] = p
                     PROVE  FALSE
          BY Zenon
        <5> DEFINE f == IF i < k THEN i ELSE i + 1
        <5>1. f \in 1..Len(sendq) /\ f # k /\ sendq'[i] = sendq[f]
          BY <2>2
        <5> QED
          BY <5>1, <2>1, <2>4, Zenon
      <4> QED
        BY <3>1, <4>1, <1>6, Zenon
    <3>2. CASE q # p
      <4>1. pc[q] = "parked" <=> \E i \in 1..Len(sendq) : sendq[i] = q
        BY Zenon DEF ParkedOnlyWhenFull
      <4>2. ASSUME NEW i \in 1..Len(sendq), sendq[i] = q
            PROVE  \E j \in 1..Len(sendq') : sendq'[j] = q
        <5> DEFINE g == IF i < k THEN i ELSE i - 1
        <5>1. i # k
          BY <3>2, <4>2, <2>1, Zenon
        <5>2. g \in 1..Len(sendq') /\ sendq'[g] = sendq[i]
          BY <5>1, <2>2
        <5> QED
          BY <5>2, <4>2, Zenon
      <4>3. ASSUME NEW j \in 1..Len(sendq'), sendq'[j] = q
            PROVE  \E i \in 1..Len(sendq) : sendq[i] = q
        <5> DEFINE f == IF j < k THEN j ELSE j + 1
        <5>1. f \in 1..Len(sendq) /\ sendq'[j] = sendq[f]
          BY <2>2
        <5> QED
          BY <5>1, <4>3, Zenon
      <4> QED
        BY <3>2, <1>5, <4>1, <4>2, <4>3, Zenon
    <3> QED
      BY <3>1, <3>2, Zenon
  <2>7. sendq' # << >> => tokens' = Total
    <3>1. sendq # << >>
      BY <2>1, <2>2, EmptySeq DEF TypeOK
    <3> QED
      BY <3>1, Zenon DEF AcquireCancel, ParkedOnlyWhenFull
  <2>8. ParkedOnlyWhenFull'
    BY <2>5, <2>6, <2>7, Zenon DEF ParkedOnlyWhenFull
  <2> QED
    BY <1>3, <1>4, <2>3, <2>8, Zenon
<1> QED
  BY <1>7, <1>8, Zenon

\* Acquire returns: the deferred decrement runs on both ways out.
LEMMA ReturnIInv ==
    ASSUME IInv, NEW p \in Procs, AcquireReturn(p)
    PROVE  IInv'
<1> USE DEF IInv
<1>1. Holders' = Holders
  BY DEF AcquireReturn, AfterAcquire, Holders, TypeOK
<1>2. InAcquire' = InAcquire \ {p} /\ p \in InAcquire
  BY Zenon DEF AcquireReturn, AfterAcquire, InAcquire, TypeOK
<1>3. TokensAreHolders'
  BY <1>1, Zenon DEF AcquireReturn, AfterAcquire, TokensAreHolders
<1>4. WaitingIsExact'
  <2>1. InAcquire \in SUBSET Procs
    BY Zenon DEF InAcquire
  <2> QED
    BY <1>2, <2>1, CountRemove, Zenon DEF AcquireReturn, AfterAcquire, WaitingIsExact
<1>5. ParkedOnlyWhenFull'
  BY Zenon DEF AcquireReturn, AfterAcquire, ParkedOnlyWhenFull, TypeOK
<1>6. TypeOK'
  <2>1. waiting' \in 0..Cardinality(Procs)
    BY <1>4, CountInRange DEF WaitingIsExact, InAcquire
  <2> QED
    BY <2>1, Zenon DEF AcquireReturn, AfterAcquire, TypeOK, PcValues
<1> QED
  BY <1>3, <1>4, <1>5, <1>6, Zenon

\* TryAcquire takes a token without entering Acquire.
LEMMA TryIInv ==
    ASSUME IInv, NEW p \in Procs, TryAcquire(p)
    PROVE  IInv'
<1> USE DEF IInv
<1>1. Holders' = Holders \cup {p} /\ p \notin Holders
  BY Zenon DEF TryAcquire, Holders, TypeOK
<1>2. InAcquire' = InAcquire
  BY Zenon DEF TryAcquire, InAcquire, TypeOK
<1>3. TokensAreHolders'
  <2>1. Holders \in SUBSET Procs
    BY Zenon DEF Holders
  <2> QED
    BY <1>1, <2>1, CountAdd, Zenon DEF TryAcquire, TokensAreHolders
<1>4. WaitingIsExact'
  BY <1>2, Zenon DEF TryAcquire, WaitingIsExact
<1>5. ParkedOnlyWhenFull'
  BY DEF TryAcquire, ParkedOnlyWhenFull, TypeOK
<1>6. TypeOK'
  BY SemaphoreAssumption DEF TryAcquire, TypeOK, PcValues
<1> QED
  BY <1>3, <1>4, <1>5, <1>6, Zenon

\* With nobody parked the token goes back to the channel.
LEMMA ReleaseFreeIInv ==
    ASSUME IInv, NEW p \in Procs, Release(p), sendq = << >>
    PROVE  IInv'
<1> USE DEF IInv
<1>1. Holders' = Holders \ {p} /\ p \in Holders
  BY Zenon DEF Release, Holders, TypeOK
<1>2. InAcquire' = InAcquire
  BY Zenon DEF Release, InAcquire, TypeOK
<1>3. tokens > 0
  <2>1. Holders \in SUBSET Procs
    BY Zenon DEF Holders
  <2> QED
    BY <1>1, <2>1, CountPositive, Zenon DEF TokensAreHolders
<1>4. TokensAreHolders'
  <2>1. Holders \in SUBSET Procs
    BY Zenon DEF Holders
  <2> QED
    BY <1>1, <1>3, <2>1, CountRemove, Zenon DEF Release, TokensAreHolders
<1>5. WaitingIsExact'
  BY <1>2, Zenon DEF Release, WaitingIsExact
<1>6. ParkedOnlyWhenFull'
  BY DEF Release, ParkedOnlyWhenFull, TypeOK
<1>7. TypeOK'
  BY <1>3, SemaphoreAssumption DEF Release, TypeOK, PcValues
<1> QED
  BY <1>4, <1>5, <1>6, <1>7, Zenon

\* With goroutines parked the token passes to the first of them, which the
\* queue discipline says is parked and so not yet counted as a holder.
LEMMA ReleasePassIInv ==
    ASSUME IInv, NEW p \in Procs, Release(p), sendq # << >>
    PROVE  IInv'
<1> USE DEF IInv
<1> DEFINE h == Head(sendq)
<1>1. /\ Len(sendq) \in Nat /\ Len(sendq) > 0
      /\ h = sendq[1]
      /\ Tail(sendq) \in Seq(Procs)
      /\ Len(Tail(sendq)) = Len(sendq) - 1
      /\ \A i \in 1..(Len(sendq) - 1) : Tail(sendq)[i] = sendq[i + 1]
  BY HeadTailProperties, LenProperties, EmptySeq DEF TypeOK
<1>2. h \in Procs /\ pc[h] = "parked" /\ h # p
  <2>1. h \in Procs
    BY <1>1, ElementOfSeq DEF TypeOK
  <2> QED
    BY <2>1, <1>1 DEF ParkedOnlyWhenFull, Release
<1> HIDE DEF h
<1>3. /\ pc' = [pc EXCEPT ![p] = "idle", ![h] = "sent"]
      /\ sendq' = Tail(sendq)
      /\ tokens' = tokens
      /\ waiting' = waiting
      /\ pc[p] = "running"
  BY Zenon DEF Release, h
<1>4. Holders' = (Holders \ {p}) \cup {h} /\ p \in Holders /\ h \notin Holders
  BY <1>2, <1>3, Zenon DEF Holders, TypeOK
<1>5. InAcquire' = InAcquire
  BY <1>2, <1>3, Zenon DEF InAcquire, TypeOK
<1>6. TokensAreHolders'
  <2>1. Holders \in SUBSET Procs /\ Holders \ {p} \in SUBSET Procs
    BY Zenon DEF Holders
  <2>2. Cardinality(Holders \ {p}) = Cardinality(Holders) - 1
    BY <1>4, <2>1, CountRemove, Zenon
  <2>3. Cardinality((Holders \ {p}) \cup {h}) = Cardinality(Holders \ {p}) + 1
    BY <1>2, <1>4, <2>1, CountAdd, Zenon
  <2>4. Cardinality(Holders) \in Nat
    BY <2>1, ProcsSubsetFinite, Zenon
  <2> QED
    BY <1>3, <1>4, <2>2, <2>3, <2>4 DEF TokensAreHolders
<1>7. WaitingIsExact'
  BY <1>3, <1>5, Zenon DEF WaitingIsExact
<1>8. TypeOK'
  BY <1>1, <1>2, <1>3, Zenon DEF TypeOK, PcValues
<1>9. \A i, j \in 1..Len(sendq) : sendq[i] = sendq[j] => i = j
  BY Zenon DEF ParkedOnlyWhenFull
<1>10. \A i, j \in 1..Len(sendq') : sendq'[i] = sendq'[j] => i = j
  <2> SUFFICES ASSUME NEW i \in 1..Len(sendq'), NEW j \in 1..Len(sendq'),
                      sendq'[i] = sendq'[j]
               PROVE  i = j
    BY Zenon
  <2>1. sendq[i + 1] = sendq[j + 1] /\ i + 1 \in 1..Len(sendq) /\ j + 1 \in 1..Len(sendq)
    BY <1>1, <1>3
  <2>2. i + 1 = j + 1
    BY <2>1, <1>9, Zenon
  <2> QED
    BY <2>2, <1>1, <1>3
<1>11. ASSUME NEW q \in Procs
       PROVE  pc'[q] = "parked" <=> \E i \in 1..Len(sendq') : sendq'[i] = q
  <2>1. ASSUME NEW i \in 1..Len(sendq'), sendq'[i] = q
        PROVE  pc'[q] = "parked"
    <3>1. i + 1 \in 1..Len(sendq) /\ sendq[i + 1] = q /\ 1 \in 1..Len(sendq)
      BY <2>1, <1>1, <1>3
    <3>2. pc[q] = "parked"
      BY <3>1, Zenon DEF ParkedOnlyWhenFull
    <3>3. q # h
      <4>1. i + 1 # 1
        BY <1>1, <1>3
      <4> QED
        BY <3>1, <4>1, <1>1, <1>9, Zenon
    <3> QED
      BY <3>2, <3>3, <1>3, Zenon DEF TypeOK
  <2>2. ASSUME pc'[q] = "parked"
        PROVE  \E i \in 1..Len(sendq') : sendq'[i] = q
    <3>1. pc[q] = "parked" /\ q # h
      BY <2>2, <1>2, <1>3, Zenon DEF TypeOK
    <3>2. PICK k \in 1..Len(sendq) : sendq[k] = q
      BY <3>1, Zenon DEF ParkedOnlyWhenFull
    <3>3. k # 1
      BY <3>1, <3>2, <1>1, Zenon
    <3>4. k - 1 \in 1..Len(sendq') /\ sendq'[k - 1] = q
      BY <3>2, <3>3, <1>1, <1>3
    <3> QED
      BY <3>4, Zenon
  <2> QED
    BY <2>1, <2>2, Zenon
<1>12. ParkedOnlyWhenFull'
  BY <1>3, <1>10, <1>11, Zenon DEF ParkedOnlyWhenFull
<1> QED
  BY <1>6, <1>7, <1>8, <1>12, Zenon

\* Every step of every goroutine keeps the invariant.
LEMMA NextIInv == IInv /\ [Next]_vars => IInv'
<1> SUFFICES ASSUME IInv, [Next]_vars PROVE IInv'
  BY Zenon
<1>1. CASE UNCHANGED vars
  BY <1>1, Zenon DEF vars, IInv, TypeOK, TokensAreHolders, WaitingIsExact,
              ParkedOnlyWhenFull, Holders, InAcquire
<1>2. ASSUME NEW p \in Procs, Step(p)
      PROVE  IInv'
  <2>1. ASSUME Release(p) PROVE IInv'
    BY <2>1, ReleaseFreeIInv, ReleasePassIInv, Zenon
  <2> QED
    BY <1>2, <2>1, EnterIInv, SendIInv, ParkIInv, CancelIInv, ReturnIInv, TryIInv, Zenon DEF Step
<1> QED
  BY <1>1, <1>2, Zenon DEF Next

\* Every reachable state satisfies the inductive invariant.
THEOREM SpecIInv == Spec => []IInv
BY InitIInv, NextIInv, PTL DEF Spec

\* semaphore.go: the state keeps its types; tokens never exceeds Total.
THEOREM SpecTypeOK == Spec => []TypeOK
<1>1. IInv => TypeOK
  BY Zenon DEF IInv
<1> QED
  BY <1>1, SpecIInv, PTL

\* semaphore.go:38: len(s.tokens) is the number of goroutines that hold a
\* token, for any number of goroutines and tokens.
THEOREM SpecTokensAreHolders == Spec => []TokensAreHolders
<1>1. IInv => TokensAreHolders
  BY Zenon DEF IInv
<1> QED
  BY <1>1, SpecIInv, PTL

\* semaphore.go:66: waiting counts the goroutines inside Acquire.
THEOREM SpecWaitingIsExact == Spec => []WaitingIsExact
<1>1. IInv => WaitingIsExact
  BY Zenon DEF IInv
<1> QED
  BY <1>1, SpecIInv, PTL

\* Nobody is parked while a token is free.
THEOREM SpecParkedOnlyWhenFull == Spec => []ParkedOnlyWhenFull
<1>1. IInv => ParkedOnlyWhenFull
  BY Zenon DEF IInv
<1> QED
  BY <1>1, SpecIInv, PTL

-----------------------------------------------------------------------------
(* The semaphore implements Permits.                                       *)

\* Every step takes, gives or passes a permit, or leaves them alone.
LEMMA StepIsPermitStep ==
    ASSUME IInv, NEW p \in Procs, Step(p)
    PROVE  [Abstract!Next]_Holders
<1> USE DEF IInv
<1>1. ASSUME AcquireEnter(p) \/ AcquirePark(p) \/ AcquireCancel(p) \/ AcquireReturn(p)
      PROVE  Holders' = Holders
  BY <1>1, Zenon DEF AcquireEnter, AcquirePark, AcquireCancel, AcquireReturn, AfterAcquire,
                     Holders, TypeOK
<1>2. ASSUME AcquireSend(p) \/ TryAcquire(p)
      PROVE  Abstract!Take(p)
  <2>1. Holders' = Holders \cup {p} /\ p \notin Holders
    BY <1>2, Zenon DEF AcquireSend, TryAcquire, Holders, TypeOK
  <2>2. Cardinality(Holders) < Total
    BY <1>2, Zenon DEF AcquireSend, TryAcquire, TokensAreHolders
  <2>3. Abstract!Cardinality(Holders) = Cardinality(Holders)
    BY Zenon DEF Abstract!Cardinality, Cardinality
  <2> QED
    BY <2>1, <2>2, <2>3, Zenon DEF Abstract!Take
<1>3. ASSUME Release(p), sendq = << >>
      PROVE  Abstract!Give(p)
  BY <1>3, Zenon DEF Release, Holders, TypeOK, Abstract!Give
<1>4. ASSUME Release(p), sendq # << >>
      PROVE  \E q \in Procs : Abstract!Pass(p, q)
  <2> DEFINE h == Head(sendq)
  <2>1. /\ Len(sendq) \in Nat /\ Len(sendq) > 0
        /\ h = sendq[1]
    BY <1>4, HeadTailProperties, LenProperties, EmptySeq DEF TypeOK
  <2>2. h \in Procs /\ pc[h] = "parked"
    <3>1. h \in Procs
      BY <2>1, ElementOfSeq DEF TypeOK
    <3> QED
      BY <3>1, <2>1 DEF ParkedOnlyWhenFull
  <2> HIDE DEF h
  <2>3. pc' = [pc EXCEPT ![p] = "idle", ![h] = "sent"] /\ pc[p] = "running"
    BY <1>4, Zenon DEF Release, h
  <2>4. Holders' = (Holders \ {p}) \cup {h} /\ p \in Holders /\ h \notin Holders
    BY <2>2, <2>3, Zenon DEF Holders, TypeOK
  <2> QED
    BY <2>2, <2>4, Zenon DEF Abstract!Pass
<1> QED
  BY <1>1, <1>2, <1>3, <1>4, Zenon DEF Step, Abstract!Next

\* At most Total goroutines hold a permit and a permit changes hands only as
\* Permits allows, for any number of goroutines and tokens.
THEOREM SpecImplementsPermits == Spec => ImplementsPermits
<1>1. Init => Abstract!Init
  BY Zenon DEF Init, Abstract!Init, Holders
<1>2. IInv /\ [Next]_vars => [Abstract!Next]_Holders
  <2> SUFFICES ASSUME IInv, [Next]_vars PROVE [Abstract!Next]_Holders
    BY Zenon
  <2>1. CASE UNCHANGED vars
    BY <2>1, Zenon DEF vars, Holders
  <2> QED
    BY <2>1, StepIsPermitStep, Zenon DEF Next
<1> QED
  BY <1>1, <1>2, SpecIInv, PTL DEF Spec, ImplementsPermits, Abstract!Spec
=============================================================================
