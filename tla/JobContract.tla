----------------------------- MODULE JobContract -----------------------------
(***************************************************************************)
(* What the durable queue promises its callers, with no word of rows,      *)
(* leases or workers: a job waits, is handed out, comes back or ends, and  *)
(* a unique key belongs to at most one job from its admission to its end.  *)
(***************************************************************************)
CONSTANTS Ids, Keys, NoKey, Free

VARIABLES
    life,   \* where each job is in its life
    slot    \* the job each key belongs to, or Free

vars == <<life, slot>>

Lives == {"unborn", "waiting", "running", "failed", "closed", "pruned"}

TypeOK == life \in [Ids -> Lives] /\ slot \in [Keys -> Ids \union {Free}]

Init == life = [j \in Ids |-> "unborn"] /\ slot = [k \in Keys |-> Free]

Takes(j, k) ==
    IF k = NoKey THEN UNCHANGED slot
    ELSE slot[k] = Free /\ slot' = [slot EXCEPT ![k] = j]

Admit(j, k) ==
    /\ life[j] = "unborn"
    /\ life' = [life EXCEPT ![j] = "waiting"]
    /\ Takes(j, k)

\* A batch of waiting jobs is handed out.
HandOut(B) ==
    /\ \A j \in B : life[j] = "waiting"
    /\ life' = [j \in Ids |-> IF j \in B THEN "running" ELSE life[j]]
    /\ UNCHANGED slot

ComeBack(j) ==
    /\ life[j] = "running"
    /\ life' = [life EXCEPT ![j] = "waiting"]
    /\ UNCHANGED slot

\* The end frees the job's key; a job that was never handed out can only be closed.
End(j, how) ==
    /\ \/ life[j] = "running" /\ how \in {"failed", "closed"}
       \/ life[j] = "waiting" /\ how = "closed"
    /\ life' = [life EXCEPT ![j] = how]
    /\ slot' = [k \in Keys |-> IF slot[k] = j THEN Free ELSE slot[k]]

\* Only a failed job is taken up again, and only if its key is free.
Reopen(j, k) ==
    /\ life[j] = "failed"
    /\ life' = [life EXCEPT ![j] = "waiting"]
    /\ Takes(j, k)

Forget(S) ==
    /\ \A j \in S : life[j] \in {"failed", "closed"}
    /\ life' = [j \in Ids |-> IF j \in S THEN "pruned" ELSE life[j]]
    /\ UNCHANGED slot

Next ==
    \/ \E j \in Ids, k \in Keys \union {NoKey} : Admit(j, k) \/ Reopen(j, k)
    \/ \E j \in Ids : ComeBack(j) \/ \E how \in {"failed", "closed"} : End(j, how)
    \/ \E S \in SUBSET Ids : HandOut(S) \/ Forget(S)

Spec == Init /\ [][Next]_vars
=============================================================================
