------------------------------- MODULE Signals -------------------------------
(***************************************************************************)
(* The reactive graph of packages/ketjs-view/src/signal.ts: signals,       *)
(* computed values, effects and batches, under any program that uses them. *)
(* All of it is synchronous, so that what matters is what calls what: a    *)
(* write flushes inside the call of set(), effects run inside the flush or *)
(* inside their own creation, and write, create and stop others there.     *)
(* sgStack is the call stack, and the code on top of it does what it wants. *)
(*                                                                         *)
(* Values are left out: what matters is whether a signal changed after it  *)
(* was read.  A write changes its signal; equal writes do nothing and are  *)
(* left out, as are peek and untracked reads.  The code inside a computed  *)
(* only reads, a cleanup touches no signal, and an effect always returns   *)
(* one.                                                                    *)
(***************************************************************************)
EXTENDS Naturals, Sequences

CONSTANTS
    Sources,        \* the signals a program writes
    Computeds,      \* the computed values
    Effects,        \* the ordinary effects
    MaxRuns,        \* MAX_EFFECT_RUNS_PER_FLUSH
    MaxDepth        \* bound: the calls inside calls

ASSUME SignalsAssumption ==
    /\ MaxRuns \in Nat \ {0} /\ MaxDepth \in Nat
    /\ Computeds \intersect (Sources \union Effects) = {}

VARIABLES
    sgNode,         \* the Effect object of each effect and computed
    sgPending,      \* pending
    sgStack         \* the calls under way, the innermost last

sgVars == <<sgNode, sgPending, sgStack>>

Nodes == Computeds \union Effects
Readable == Sources \union Computeds

\* What a run has read, and whether any of it changed afterwards.
View == [read : SUBSET Readable, stale : BOOLEAN]
NoView == [read |-> {}, stale |-> FALSE]
Reads(view, s) == IF view.stale THEN view ELSE [view EXCEPT !.read = @ \union {s}]
Changed(view, s) == IF s \in view.read THEN [read |-> {}, stale |-> TRUE] ELSE view

\* view is that of the last run, if it is sure: it returned, and was neither inside another
\* run of the same effect nor around one (nested).
Node == [state : {"new", "live", "stopped"}, deps : SUBSET Readable, runs : 0 .. MaxRuns + 1,
         cleanup : BOOLEAN, view : View, sure : BOOLEAN, nested : BOOLEAN]

\* A run of a node, the body of a batch, or the loop of a flush.
RunFrame == [call : {"run"}, node : Nodes, eager : BOOLEAN, view : View]
Frame == RunFrame \union [call : {"batch", "flush"}]
BatchFrame == [call |-> "batch"]
FlushFrame == [call |-> "flush"]

SgInit ==
    /\ sgNode = [n \in Nodes |-> [state |-> "new", deps |-> {}, runs |-> 0, cleanup |-> FALSE,
                                  view |-> NoView, sure |-> FALSE, nested |-> FALSE]]
    /\ sgPending = {}
    /\ sgStack = <<>>

-----------------------------------------------------------------------------
InRun(n) == \E i \in DOMAIN sgStack : sgStack[i].call = "run" /\ sgStack[i].node = n
Top == sgStack[Len(sgStack)]
Below(stack) == SubSeq(stack, 1, Len(stack) - 1)
In(call) == sgStack # <<>> /\ Top.call = call

\* The program itself is on top, and not inside a computed.
Acts == sgStack = <<>> \/ In("batch") \/ (In("run") /\ Top.node \in Effects)
Deeper == Len(sgStack) < MaxDepth

\* active: the innermost run there is.
Active(i) == sgStack[i].call = "run" /\ \A j \in DOMAIN sgStack : j > i => sgStack[j].call # "run"

\* Mutant: a write does not queue the effect that makes it.
ReadersButActive(nodes, s) ==
    { n \in Nodes : s \in nodes[n].deps /\ ~\E i \in DOMAIN sgStack : Active(i) /\ sgStack[i].node = n }

Subscribers(nodes, s) == { n \in Nodes : s \in nodes[n].deps }

\* flush(), called over the stack: nothing while one is under way or a batch is open.
Queues(pending, stack) ==
    LET busy == \E i \in DOMAIN stack : stack[i].call \in {"flush", "batch"} IN
    IF busy \/ pending = {} THEN stack ELSE Append(stack, FlushFrame)

\* A signal changes: who has read it sees an old value from here on, and its readers are queued.
NodesAfter(nodes, s) == [n \in Nodes |-> [nodes[n] EXCEPT !.view = Changed(@, s)]]
StackAfter(stack, s) ==
    [i \in DOMAIN stack |-> IF stack[i].call = "run" THEN [stack[i] EXCEPT !.view = Changed(@, s)] ELSE stack[i]]

\* set()
Sets(s, nodes, stack) ==
    /\ sgNode' = NodesAfter(nodes, s)
    /\ sgPending' = sgPending \union Subscribers(nodes, s)
    /\ sgStack' = Queues(sgPending', StackAfter(stack, s))

\* signal(): a read subscribes the run it is made in.
SgRead(s) ==
    /\ In("run") \/ In("batch")
    /\ s \in Computeds => sgNode[s].state # "new"
    /\ \E i \in DOMAIN sgStack :
        /\ Active(i) /\ sgStack[i].node # s
        /\ sgNode' = [sgNode EXCEPT ![sgStack[i].node].deps = @ \union {s}]
        /\ sgStack' = [sgStack EXCEPT ![i].view = Reads(@, s)]
    /\ UNCHANGED sgPending

SgWrite(s) == Acts /\ Sets(s, sgNode, sgStack)

SgBatch ==
    /\ Acts /\ Deeper
    /\ sgStack' = Append(sgStack, BatchFrame)
    /\ UNCHANGED <<sgNode, sgPending>>

SgBatchEnds ==
    /\ In("batch")
    /\ sgStack' = Queues(sgPending, Below(sgStack))
    /\ UNCHANGED <<sgNode, sgPending>>

-----------------------------------------------------------------------------
(* runEffect                                                               *)

\* The cleanup of the last run is called, and its subscriptions are given up.
RunBegun(node) ==
    [node EXCEPT !.deps = {}, !.cleanup = FALSE, !.state = "live", !.view = NoView, !.sure = FALSE]

Call(n, eager) == [call |-> "run", node |-> n, eager |-> eager, view |-> NoView]

\* effect() and computed(): the first run is inside the call.
SgCreate(n) ==
    /\ Acts /\ Deeper /\ sgNode[n].state = "new"
    /\ sgNode' = [sgNode EXCEPT ![n] = RunBegun(@)]
    /\ sgStack' = Append(sgStack, Call(n, TRUE))
    /\ UNCHANGED sgPending

\* A run that has another run of the same effect inside it ends after it.
Around(n) == \E i \in 1 .. Len(sgStack) - 1 : sgStack[i].call = "run" /\ sgStack[i].node = n

RunEnded(node, n, frame) ==
    [node EXCEPT !.cleanup = n \in Effects, !.view = IF node.nested THEN NoView ELSE frame.view,
                 !.sure = ~node.nested, !.nested = node.nested /\ Around(n)]

\* fn returns; a computed sets its signal to what it returned, which may be what it was.
SgRunEnds ==
    /\ In("run")
    /\ LET n == Top.node
           nodes == [sgNode EXCEPT ![n] = RunEnded(@, n, Top)] IN
       \/ /\ sgNode' = nodes
          /\ sgStack' = Below(sgStack)
          /\ UNCHANGED sgPending
       \/ n \in Computeds /\ Sets(n, nodes, Below(sgStack))

\* The last run it had is nothing to go by.
Unsure(node) == [node EXCEPT !.view = NoView, !.sure = FALSE]

\* disposing: the cleanup is called, and the effect leaves the graph.
Stopped(node) == [RunBegun(node) EXCEPT !.state = "stopped", !.runs = 0, !.nested = FALSE]

\* fn throws, or an effect it made run does and it lets that through.  A creation is
\* undone; a later run leaves its effect subscribed to what it has read.
SgThrows ==
    /\ In("run")
    /\ LET n == Top.node IN
       IF Top.eager
       THEN /\ sgNode' = [sgNode EXCEPT ![n] = Stopped(@)]
            /\ sgPending' = sgPending \ {n}
       ELSE /\ sgNode' = [sgNode EXCEPT ![n] = Unsure(@)]
            /\ UNCHANGED sgPending
    /\ sgStack' = Below(sgStack)

\* The disposer of an effect, which its creation returned; any code may call it, the
\* effect itself too.
SgStop(n) ==
    /\ Acts /\ sgNode[n].state = "live"
    /\ \A i \in DOMAIN sgStack : sgStack[i].call = "run" /\ sgStack[i].node = n => ~sgStack[i].eager
    /\ sgNode' = [sgNode EXCEPT ![n] = Stopped(@)]
    /\ sgPending' = sgPending \ {n}
    /\ UNCHANGED sgStack

-----------------------------------------------------------------------------
(* The loop of flush(): one effect at a time, computed values first.       *)

\* Mutant: in whatever order they were queued.
NextInAnyOrder == sgPending

NextPending == IF sgPending \intersect Computeds # {} THEN sgPending \intersect Computeds ELSE sgPending

RunsAgain(n) == sgNode[n].runs < MaxRuns /\ sgNode[n].state # "stopped"

Rerun(node, n) == [RunBegun(node) EXCEPT !.runs = @ + 1, !.nested = InRun(n)]

\* A cycle is reported, a stopped effect is not run.
Skipped(node) == [Unsure(node) EXCEPT !.runs = IF @ > MaxRuns THEN @ ELSE @ + 1]

SgFlushRun(n) ==
    /\ In("flush")
    /\ n \in NextPending
    /\ sgPending' = sgPending \ {n}
    /\ IF RunsAgain(n)
       THEN /\ sgNode' = [sgNode EXCEPT ![n] = Rerun(@, n)]
            /\ sgStack' = Append(sgStack, Call(n, FALSE))
       ELSE /\ sgNode' = [sgNode EXCEPT ![n] = Skipped(@)]
            /\ UNCHANGED sgStack

\* The next flush counts runs anew.
SgFlushEnds ==
    /\ In("flush") /\ sgPending = {}
    /\ sgNode' = [n \in Nodes |-> [sgNode[n] EXCEPT !.runs = 0]]
    /\ sgStack' = Below(sgStack)
    /\ UNCHANGED sgPending

SgNext ==
    \/ \E s \in Readable : SgRead(s)
    \/ \E s \in Sources : SgWrite(s)
    \/ \E n \in Nodes : SgCreate(n) \/ SgStop(n) \/ SgFlushRun(n)
    \/ SgBatch \/ SgBatchEnds \/ SgRunEnds \/ SgThrows \/ SgFlushEnds

SgSpec == SgInit /\ [][SgNext]_sgVars

-----------------------------------------------------------------------------
SgTypeOK ==
    /\ sgNode \in [Nodes -> Node]
    /\ sgPending \subseteq Nodes
    /\ sgStack \in Seq(Frame)

UpToDate(n) == sgNode[n].state = "live" /\ sgNode[n].sure => ~sgNode[n].view.stale

\* Once the program is back at the top, whatever wrote, stopped, created, threw or was batched on
\* the way, no effect or computed is left with a value that has changed since it read it:
\* the last run of each saw what is there now (unless it threw, was cut off as a cycle, or
\* ran inside itself).
SettledAtRest == sgStack = <<>> => sgPending = {} /\ \A n \in Nodes : UpToDate(n)

\* "Computed values settle before ordinary effects observe the graph": when a flush runs an
\* effect, every computed has seen the signals as they are, however long the chain between
\* them.  What was stopped is not run again, although a run that was under way when it was stopped
\* may have subscribed it once more.
EffectsRunSettled ==
    [][ Len(sgStack') > Len(sgStack) /\ Top'.call = "run" /\ ~Top'.eager
          => LET n == Top'.node IN
             /\ sgNode[n].state = "live"
             /\ n \in Effects => \A c \in Computeds : UpToDate(c) ]_sgVars

\* view-effects-data.md: "A returned cleanup runs before the next execution and on stop()."
CleanupIsCalled ==
    [][ \A n \in Effects : In("run") /\ Top.node = n /\ Len(sgStack') < Len(sgStack) /\ sgNode'[n].cleanup
          => ~sgNode[n].cleanup /\ sgNode[n].state = "live" ]_sgVars
=============================================================================
