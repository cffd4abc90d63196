------------------------------ MODULE RateLimit ------------------------------
(***************************************************************************)
(* The durable ceiling of packages/ketjs/src/server/ratelimit.ts: the      *)
(* processes that serve one tenant claim slots of one policy and one key   *)
(* over its row of ket_rate, and a worker prunes the table.  Each          *)
(* statement is a step, and a caller keeps the `now` it began with.        *)
(***************************************************************************)
EXTENDS Naturals, FiniteSets

CONSTANTS
    RateCallers,    \* the calls of claimRateSlot there can be at a time
    RateLimitOf,    \* the policy's limit
    RateWindow,     \* its windowMs
    RateAge,        \* the olderThanMs of pruneRateSlots
    RateAttempts,   \* the attempts of a call, 8 in the code
    RateLag,        \* bound: how far the `now` of a call is behind, slow or skewed
    RateInstants,   \* bound: the clock stops here
    NoRate          \* no row, no call

ASSUME RateAssumption ==
    /\ RateLimitOf \in Nat \ {0} /\ RateWindow \in Nat \ {0} /\ RateAge \in Nat
    /\ RateAttempts \in Nat \ {0} /\ RateLag \in Nat /\ RateInstants \in Nat
    /\ RateLag <= RateAge /\ IsFiniteSet(RateCallers)

VARIABLES
    rtClock,        \* the latest clock
    rtRow,          \* the row of ket_rate for the policy and key
    rtCalls,        \* the calls under way
    rtGranted       \* how many slots were granted in a window to calls of an instant

rtVars == <<rtClock, rtRow, rtCalls, rtGranted>>

RtTimes == 0 .. RateInstants
RtRow == [start : RtTimes, count : Nat]

\* What a call knows: its instant, the row it read last and the attempts it has begun.
RtCall == [at : RtTimes, held : RtRow \union {NoRate}, step : {"select", "write"}, attempt : 1 .. RateAttempts]

ASSUME RateNulls == NoRate \notin RtRow /\ NoRate \notin RtCall

RtInit ==
    /\ rtClock = 0
    /\ rtRow = NoRate
    /\ rtCalls = [c \in RateCallers |-> NoRate]
    /\ rtGranted = [w \in RtTimes |-> [t \in RtTimes |-> 0]]

-----------------------------------------------------------------------------
RtCalling(c, step) == rtCalls[c] # NoRate /\ rtCalls[c].step = step

\* The call returns.
RtEnds(c) == rtCalls' = [rtCalls EXCEPT ![c] = NoRate]

RtGrants(c, start) ==
    /\ RtEnds(c)
    /\ rtGranted' = [rtGranted EXCEPT ![start][rtCalls[c].at] = @ + 1]

\* A lost race is tried again; the last one refuses.
RtAgain(c) ==
    IF rtCalls[c].attempt = RateAttempts THEN RtEnds(c)
    ELSE rtCalls' = [rtCalls EXCEPT ![c].attempt = @ + 1, ![c].step = "select", ![c].held = NoRate]

RtAsk(c, at) ==
    /\ rtCalls[c] = NoRate
    /\ at <= rtClock /\ rtClock <= at + RateLag
    /\ rtCalls' = [rtCalls EXCEPT ![c] = [at |-> at, held |-> NoRate, step |-> "select", attempt |-> 1]]
    /\ UNCHANGED <<rtClock, rtRow, rtGranted>>

\* A window begun by a clock ahead of the call's has not ended for it either.
RtInWindow(row, at) == at < row.start + RateWindow

RtSpent(row, at) == RtInWindow(row, at) /\ row.count >= RateLimitOf

\* SELECT window_start, count: a window that is spent refuses at once.
RtSelect(c) ==
    /\ RtCalling(c, "select")
    /\ IF rtRow # NoRate /\ RtSpent(rtRow, rtCalls[c].at)
       THEN RtEnds(c)
       ELSE rtCalls' = [rtCalls EXCEPT ![c].held = rtRow, ![c].step = "write"]
    /\ UNCHANGED <<rtClock, rtRow, rtGranted>>

\* INSERT .. ON CONFLICT DO NOTHING
RtInsert(c) ==
    /\ RtCalling(c, "write") /\ rtCalls[c].held = NoRate
    /\ IF rtRow = NoRate
       THEN /\ rtRow' = [start |-> rtCalls[c].at, count |-> 1]
            /\ RtGrants(c, rtCalls[c].at)
       ELSE RtAgain(c) /\ UNCHANGED <<rtRow, rtGranted>>
    /\ UNCHANGED rtClock

RtNextRow(held, at) ==
    IF RtInWindow(held, at) THEN [held EXCEPT !.count = @ + 1] ELSE [start |-> at, count |-> 1]

\* Mutant: the UPDATE names the window alone.
RtSameWindow(held) == rtRow # NoRate /\ rtRow.start = held.start

RtUnmoved(held) == rtRow = held

\* UPDATE .. WHERE window_start = and count = what was read
RtMove(c) ==
    /\ RtCalling(c, "write") /\ rtCalls[c].held # NoRate
    /\ LET held == rtCalls[c].held
           next == RtNextRow(held, rtCalls[c].at)
       IN IF RtUnmoved(held)
          THEN rtRow' = next /\ RtGrants(c, next.start)
          ELSE RtAgain(c) /\ UNCHANGED <<rtRow, rtGranted>>
    /\ UNCHANGED rtClock

\* A statement throws and with it the call.
RtFails(c) ==
    /\ rtCalls[c] # NoRate
    /\ RtEnds(c)
    /\ UNCHANGED <<rtClock, rtRow, rtGranted>>

\* pruneRateSlots
RtPrune ==
    /\ rtRow # NoRate /\ rtRow.start + RateAge < rtClock
    /\ rtRow' = NoRate
    /\ UNCHANGED <<rtClock, rtCalls, rtGranted>>

RtElapse ==
    /\ rtClock < RateInstants
    /\ \A c \in RateCallers : rtCalls[c] # NoRate => rtClock < rtCalls[c].at + RateLag
    /\ rtClock' = rtClock + 1
    /\ UNCHANGED <<rtRow, rtCalls, rtGranted>>

RtNext ==
    \/ \E c \in RateCallers : \/ \E at \in RtTimes : RtAsk(c, at)
                              \/ RtSelect(c) \/ RtInsert(c) \/ RtMove(c) \/ RtFails(c)
    \/ RtPrune \/ RtElapse

RtSpec == RtInit /\ [][RtNext]_rtVars

-----------------------------------------------------------------------------
RtTypeOK ==
    /\ rtClock \in RtTimes
    /\ rtRow \in RtRow \union {NoRate}
    /\ rtCalls \in [RateCallers -> RtCall \union {NoRate}]
    /\ rtGranted \in [RtTimes -> [RtTimes -> Nat]]

\* The slots granted in the windows ws to calls that began at the instants ts, each by its
\* number; a number more than the limit shows.
RtSlots(ws, ts) ==
    { g \in ws \X ts \X (1 .. RateLimitOf * Cardinality(RateCallers) + 1) : g[3] <= rtGranted[g[1]][g[2]] }
RtTotal(ws, ts) == Cardinality(RtSlots(ws, ts))

\* However the calls of several processes interleave, no window grants more slots than the
\* limit, and the row counts every one of them: no slot is spent twice or in neither window
\* when one caller begins a new window while another still counts in the old one.
RateWithinLimit ==
    /\ \A w \in RtTimes : RtTotal({w}, RtTimes) <= RateLimitOf
    /\ rtRow # NoRate => rtRow.count = RtTotal({rtRow.start}, RtTimes)

\* ratelimit.ts:17 has it that "the real worst case across a boundary is twice the limit":
\* the calls made within one window's length, wherever it begins, get at most that many slots.
RateTwice ==
    \A t \in RtTimes :
        RtTotal(RtTimes, { s \in RtTimes : t <= s /\ s < t + RateWindow }) <= 2 * RateLimitOf

\* It is so although counters are pruned meanwhile (those of windows that are shorter than
\* what the prune keeps), of calls that are no more than an instant behind the clock: one that
\* is further behind may count in a third window, begun ahead of it.
RateTwiceAtMost == RateWindow <= RateAge /\ RateLag <= 1 => RateTwice

\* What a rate limit promises: both of the above.
RateKept == RateWithinLimit /\ RateTwiceAtMost
=============================================================================
