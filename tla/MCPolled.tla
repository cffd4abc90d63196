------------------------------- MODULE MCPolled -------------------------------
(***************************************************************************)
(* What goes on by polls and timers, whatever notifications are lost and   *)
(* whoever crashes: a client that follows a stream two runs write, at once *)
(* or one after the other, and a schedule with two replicas, one of which  *)
(* closes or crashes.  They share no variable, so a behaviour exercises    *)
(* one of them, the part it starts with, and leaves the other as it        *)
(* begins, where nothing that fairness asks for is enabled.                *)
(***************************************************************************)
EXTENDS Stream, Schedule, TLC

CONSTANTS w1, w2, c1, job

VARIABLE part

MCWriters == {w1, w2}
MCReaders == {c1}

MCJobs == <<job>>
MCPeriod == job :> 1
MCMortal == {w1}

MCInit == part \in {"stream", "schedule"} /\ StreamInit /\ SchedInit

MCNext ==
    \/ part = "stream" /\ StreamNext /\ UNCHANGED <<part, schedVars>>
    \/ part = "schedule" /\ SchedNext /\ UNCHANGED <<part, streamVars>>

(***************************************************************************)
(* Clocks advance, timers keep firing on the replicas that are not         *)
(* stopped, and a statement that is tried again and again does not throw   *)
(* every time: hence strong fairness of the steps of such a replica.       *)
(***************************************************************************)
SchedFairness ==
    /\ WF_schedVars(part = "schedule" /\ Elapse)
    /\ \A r \in Stays :
         /\ WF_schedVars(part = "schedule" /\ \E slot \in Slots : StartSweep(r, slot))
         /\ \A slot \in Slots : WF_schedVars(\E s \in SweepsOf(r) : s.slot = slot /\ Advances(s))
         /\ \A i \in DOMAIN Jobs :
              /\ SF_schedVars(\E s \in SweepsOf(r) : s.next = i /\ InsertFirst(s))
              /\ SF_schedVars(\E s \in SweepsOf(r) : s.next = i /\ Select(s))
              /\ SF_schedVars(\E s \in SweepsOf(r) : s.next = i /\ MoveForward(s))

MCSpec == MCInit /\ [][MCNext]_<<part, streamVars, schedVars>> /\ StreamFairness /\ SchedFairness

\* What there is to be read is read, and what has come due is done.
PolledGetsOn == ReaderGetsOn /\ DueTickIsTaken
=============================================================================
