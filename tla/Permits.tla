------------------------------- MODULE Permits -------------------------------
(***************************************************************************)
(* What a counting semaphore promises its callers, and nothing about how:  *)
(* a bounded set of permit holders.  A permit is taken while fewer than    *)
(* Total are out, given back, or passed from a holder straight to a        *)
(* caller that was waiting for it.  DbSemaphore implements this.           *)
(***************************************************************************)
EXTENDS Naturals, FiniteSets

CONSTANTS Procs,    \* the goroutines that call the semaphore
          Total     \* maxConcurrent of NewSemaphore

VARIABLE holders    \* the goroutines that hold a permit

Init == holders = {}

Take(p) ==
    /\ p \notin holders
    /\ Cardinality(holders) < Total
    /\ holders' = holders \cup {p}

Give(p) ==
    /\ p \in holders
    /\ holders' = holders \ {p}

Pass(p, q) ==
    /\ p \in holders
    /\ q \notin holders
    /\ holders' = (holders \ {p}) \cup {q}

Next ==
    \/ \E p \in Procs : Take(p) \/ Give(p)
    \/ \E p, q \in Procs : Pass(p, q)

Spec == Init /\ [][Next]_holders
=============================================================================
