-------------------------------- MODULE Stream --------------------------------
(***************************************************************************)
(* Resumable streams (packages/ketjs/src/server/stream.ts) over the        *)
(* ket_stream table (streamstore.ts), and the readers that follow one      *)
(* through the SSE endpoint of http.ts.                                    *)
(*                                                                         *)
(* One stream is modelled.  Its writers are the runs that open it: a job   *)
(* that is retried, or taken over while it still runs, opens it again.     *)
(* Chunk n of writer w stands for whatever w wrote n-th; an id <<s, i>>    *)
(* is what a reader is given, s + i / 1000, for chunk i of the row at s.   *)
(***************************************************************************)
EXTENDS Naturals, Sequences, FiniteSets

CONSTANTS
    Writers,    \* runs that may open the stream
    Readers,    \* clients of the endpoint
    NoWriter,   \* nobody
    LastChunk,  \* bound: chunks a writer writes
    FlushEvery, \* chunks that flush the buffer at once
    Reconnections \* bound: how often a reader connects

ASSUME StreamAssumption ==
    /\ IsFiniteSet(Writers) /\ NoWriter \notin Writers
    /\ LastChunk \in Nat /\ Reconnections \in Nat
    /\ FlushEvery \in Nat \ {0}

VARIABLES
    log,        \* ket_stream: the row at each sequence number
    writers,    \* each writer's closure
    readers     \* each reader's connection, and what it has received

streamVars == <<log, writers, readers>>

\* Every writer takes a sequence number per batch and one for its end.
Seqs == 0 .. Cardinality(Writers) * (LastChunk + 1)
Ids == Seqs \X (1 .. FlushEvery)

Free == [by |-> NoWriter]
Row == [by : Writers, first : 1 .. LastChunk + 1, size : 0 .. FlushEvery, ended : BOOLEAN]
Taken(s) == log[s] # Free
EndRow(s) == Taken(s) /\ log[s].ended
BatchRow(s) == Taken(s) /\ ~log[s].ended

Batch == [at : Seqs, first : 1 .. LastChunk, size : 1 .. FlushEvery]
WriterSteps == {"none", "open", "ending", "ended", "failed", "gone"}
ReaderSteps == {"away", "reading", "yielding", "waiting", "told"}

Unopened == [step |-> "none", seq |-> 0, wrote |-> 0, buffer |-> 0, chain |-> <<>>, broken |-> FALSE]

StreamInit ==
    /\ log = [s \in Seqs |-> Free]
    /\ writers = [w \in Writers |-> Unopened]
    /\ readers = [c \in Readers |->
          [ step |-> "away", cursor |-> 0, hand |-> {}, done |-> FALSE, last |-> <<0, 1>>,
            got |-> {}, left |-> Reconnections ]]

-----------------------------------------------------------------------------
(* The writer *)

\* head: one past the highest sequence number there is.
HeadSeq == IF \E s \in Seqs : Taken(s)
           THEN 1 + CHOOSE s \in Seqs : Taken(s) /\ \A r \in Seqs : Taken(r) => r <= s
           ELSE 0

OpenStream(w) ==
    /\ writers[w].step = "none"
    /\ writers' = [writers EXCEPT ![w].step = "open", ![w].seq = HeadSeq]
    /\ UNCHANGED <<log, readers>>

\* flushNow: the buffer becomes a batch at the end of the chain; on a chain that
\* has been rejected it is never appended.
Flushed(writer) ==
    IF writer.buffer = 0 THEN writer
    ELSE [writer EXCEPT
            !.seq = writer.seq + 1,
            !.buffer = 0,
            !.chain = IF writer.broken THEN <<>>
                      ELSE Append(writer.chain,
                             [ at |-> writer.seq, first |-> writer.wrote - writer.buffer + 1,
                               size |-> writer.buffer ])]

Write(w) ==
    LET written == [writers[w] EXCEPT !.wrote = writers[w].wrote + 1,
                                      !.buffer = writers[w].buffer + 1]
    IN  /\ writers[w].step = "open" /\ writers[w].wrote < LastChunk
        /\ writers' = [writers EXCEPT ![w] =
              IF written.buffer >= FlushEvery THEN Flushed(written) ELSE written]
        /\ UNCHANGED <<log, readers>>

\* The timer of a buffer that is not empty, or flush().
Flush(w) ==
    /\ writers[w].step = "open" /\ writers[w].buffer > 0
    /\ writers' = [writers EXCEPT ![w] = Flushed(writers[w])]
    /\ UNCHANGED <<log, readers>>

\* announce: readers asleep wake, except those the notification does not reach;
\* a reader that is not asleep has no waiter and misses it.
Announce ==
    \E heard \in SUBSET {c \in Readers : readers[c].step = "waiting"} :
        readers' = [c \in Readers |-> IF c \in heard THEN [readers[c] EXCEPT !.step = "reading"]
                                                      ELSE readers[c]]

\* INSERT of a row; the primary key refuses a second one at the same number.
Insert(s, row) == ~Taken(s) /\ log' = [log EXCEPT ![s] = row]

BatchOf(w, b) == [by |-> w, first |-> b.first, size |-> b.size, ended |-> FALSE]
EndOf(w) == [by |-> w, first |-> writers[w].wrote + 1, size |-> 0, ended |-> TRUE]

\* Mutant: the appends are not chained; any batch that was flushed may land first.
SendableAny(w) == DOMAIN writers[w].chain

\* chain.then: a batch is appended once the one before it has been.
Sendable(w) == DOMAIN writers[w].chain \intersect {1}

WithoutBatch(seq, i) == SubSeq(seq, 1, i - 1) \o SubSeq(seq, i + 1, Len(seq))

AppendBatch(w) ==
    \E i \in Sendable(w) :
        LET b == writers[w].chain[i]
        IN  /\ Insert(b.at, BatchOf(w, b))
            /\ writers' = [writers EXCEPT ![w].chain = WithoutBatch(writers[w].chain, i)]
            /\ Announce

\* The INSERT is refused, fails, or loses its answer after it has committed: the
\* chain is rejected and what was queued behind it is never sent.
AppendThrows(w) ==
    \E i \in Sendable(w) :
        LET b == writers[w].chain[i]
        IN  /\ UNCHANGED log \/ Insert(b.at, BatchOf(w, b))
            /\ writers' = [writers EXCEPT ![w].chain = <<>>, ![w].broken = TRUE]
            /\ UNCHANGED readers

\* end: the rest is flushed and awaited before the end is marked.
End(w) ==
    /\ writers[w].step = "open"
    /\ writers' = [writers EXCEPT ![w] = [Flushed(writers[w]) EXCEPT !.step = "ending"]]
    /\ UNCHANGED <<log, readers>>

ChainSettled(w) == writers[w].chain = <<>> /\ ~writers[w].broken

MarkEnd(w) ==
    /\ writers[w].step = "ending" /\ ChainSettled(w)
    /\ Insert(writers[w].seq, EndOf(w))
    /\ writers' = [writers EXCEPT ![w].step = "ended", ![w].seq = writers[w].seq + 1]
    /\ Announce

\* end throws: an append has failed, or the INSERT of the end, as in AppendThrows.
EndThrows(w) ==
    /\ writers[w].step = "ending" /\ writers[w].chain = <<>>
    /\ UNCHANGED log \/ (ChainSettled(w) /\ Insert(writers[w].seq, EndOf(w)))
    /\ writers' = [writers EXCEPT ![w].step = "failed"]
    /\ UNCHANGED readers

\* The process dies, and its closure with it: what it has not appended is gone.
WriterCrash(w) ==
    /\ writers[w].step \in {"open", "ending"}
    /\ writers' = [writers EXCEPT ![w] = [Unopened EXCEPT !.step = "gone"]]
    /\ UNCHANGED <<log, readers>>

WriterNext ==
    \E w \in Writers :
        \/ OpenStream(w) \/ Write(w) \/ Flush(w) \/ AppendBatch(w) \/ AppendThrows(w)
        \/ End(w) \/ MarkEnd(w) \/ EndThrows(w) \/ WriterCrash(w)

-----------------------------------------------------------------------------
(* The reader: one connection to the endpoint is one tail *)

ReaderGoes(c, step) == readers' = [readers EXCEPT ![c].step = step]
Following(c) == readers[c].step \in {"reading", "yielding", "waiting"}

\* Math.floor of an id: the index within the batch is dropped.
Floor(id) == id[1]

\* GET with ?from=<the last id received>, or without one the first time.
Connect(c) ==
    /\ readers[c].step = "away" /\ readers[c].left > 0
    /\ readers' = [readers EXCEPT
          ![c].step = "reading", ![c].left = readers[c].left - 1,
          ![c].cursor = IF readers[c].got = {} THEN 0 ELSE Floor(readers[c].last)]
    /\ UNCHANGED <<log, writers>>

\* The chunks of the rows there are.
Stored == {id \in Ids : BatchRow(id[1]) /\ id[2] <= log[id[1]].size}

\* since: what there is from the cursor on.
Unread(from) == {id \in Stored : id[1] >= from}

\* The end row is exempt from the cursor.
Done(from) == \E s \in Seqs : EndRow(s)

\* The batch after the last one read.
Past(ids, from) ==
    IF ids = {} THEN from
    ELSE 1 + CHOOSE s \in Seqs : (\E id \in ids : id[1] = s) /\ \A id \in ids : id[1] <= s

Read(c) ==
    LET from == readers[c].cursor
    IN  /\ readers[c].step = "reading"
        /\ readers' = [readers EXCEPT
              ![c].step = "yielding", ![c].hand = Unread(from),
              ![c].done = Done(from), ![c].cursor = Past(Unread(from), from)]
        /\ UNCHANGED <<log, writers>>

Before(x, y) == x[1] < y[1] \/ (x[1] = y[1] /\ x[2] < y[2])

\* The next chunk of the read reaches the client.
Yield(c) ==
    \E id \in readers[c].hand :
        /\ readers[c].step = "yielding"
        /\ \A other \in readers[c].hand : ~Before(other, id)
        /\ readers' = [readers EXCEPT
              ![c].hand = readers[c].hand \ {id}, ![c].last = id,
              ![c].got = readers[c].got \union {id}]
        /\ UNCHANGED <<log, writers>>

\* After the last chunk the tail returns if the stream has ended, or sleeps.
Sleep(c) ==
    /\ readers[c].step = "yielding" /\ readers[c].hand = {}
    /\ ReaderGoes(c, IF readers[c].done THEN "told" ELSE "waiting")
    /\ UNCHANGED <<log, writers>>

\* Mutant: a tail that relies on being told.
PollNever(c) == FALSE /\ UNCHANGED streamVars

\* The sleep ends by itself after pollMs.
Poll(c) ==
    /\ readers[c].step = "waiting"
    /\ ReaderGoes(c, "reading")
    /\ UNCHANGED <<log, writers>>

\* The connection is cut, the tail times out, a read throws, or the server shuts down.
Drop(c) ==
    /\ Following(c)
    /\ readers' = [readers EXCEPT ![c].step = "away", ![c].cursor = 0, ![c].hand = {}, ![c].done = FALSE]
    /\ UNCHANGED <<log, writers>>

ReaderNext ==
    \E c \in Readers :
        Connect(c) \/ Read(c) \/ Yield(c) \/ Sleep(c) \/ Poll(c) \/ Drop(c)

StreamNext == WriterNext \/ ReaderNext

StreamSpec == StreamInit /\ [][StreamNext]_streamVars

\* A statement returns or throws, the flush timer fires, and a tail runs on: it
\* yields what it has read and its sleep ends with the poll interval.  Nothing is
\* assumed of writing, ending, or connecting.
StreamFairness ==
    /\ \A w \in Writers : WF_streamVars(Flush(w)) /\ WF_streamVars(AppendBatch(w) \/ AppendThrows(w))
    /\ \A c \in Readers :
          WF_streamVars(Read(c)) /\ WF_streamVars(Yield(c)) /\ WF_streamVars(Sleep(c)) /\ WF_streamVars(Poll(c))

FairStreamSpec == StreamSpec /\ StreamFairness

-----------------------------------------------------------------------------
(* Properties *)

\* Every variable stays in its type.
StreamTypeOK ==
    /\ log \in [Seqs -> Row \union {Free}]
    /\ \A w \in Writers :
          /\ writers[w].step \in WriterSteps
          /\ writers[w].seq \in 0 .. Cardinality(Writers) * (LastChunk + 1)
          /\ writers[w].wrote \in 0 .. LastChunk
          /\ writers[w].buffer \in 0 .. FlushEvery - 1
          /\ writers[w].broken \in BOOLEAN
          /\ writers[w].chain \in Seq(Batch)
    /\ \A c \in Readers :
          /\ readers[c].step \in ReaderSteps
          /\ readers[c].cursor \in Seqs
          /\ readers[c].hand \subseteq Ids
          /\ readers[c].done \in BOOLEAN
          /\ readers[c].last \in Ids
          /\ readers[c].got \subseteq Ids
          /\ readers[c].left \in 0 .. Reconnections

\* What is durable has no holes, and a writer's chunks are in it in the order
\* written and once, whatever fails and whoever writes beside it: a cursor that has
\* passed a number never has to look back.  The chain of appends in stream.ts.
LogInOrder ==
    \A s \in Seqs : Taken(s) =>
        /\ s > 0 => Taken(s - 1)
        /\ \A r \in Seqs : BatchRow(s) /\ BatchRow(r) /\ r < s /\ log[r].by = log[s].by
                              => log[r].first < log[s].first
        /\ BatchRow(s) /\ log[s].first > 1 =>
              \E r \in Seqs : /\ r < s /\ BatchRow(r) /\ log[r].by = log[s].by
                              /\ log[r].first + log[r].size = log[s].first

\* The end of a writer is durable only after everything it wrote: end() in stream.ts.
EndedIsComplete ==
    \A s \in Seqs : EndRow(s) /\ log[s].first > 1 =>
        \E r \in Seqs : /\ r < s /\ BatchRow(r) /\ log[r].by = log[s].by
                        /\ log[r].first + log[r].size = log[s].first

\* The log a reader follows is whole: both of the above.
LogIsWhole == LogInOrder /\ EndedIsComplete

\* A reader receives no chunk before the ones ahead of it in the stream, over all its
\* connections: "never a gap", http.ts.
NeverAGap ==
    \A c \in Readers : \A id \in readers[c].got :
        \A ahead \in Stored : Before(ahead, id) => ahead \in readers[c].got

\* A reader told that the stream is over has received all of it, up to an end.
ToldMeansAll ==
    \A c \in Readers : readers[c].step = "told" =>
        \E s \in Seqs : EndRow(s) /\ \A id \in Stored : id[1] < s => id \in readers[c].got

\* Neither on its way nor when told that it has come to the end: both of the above.
ReaderMissesNothing == NeverAGap /\ ToldMeansAll

\* The stream in the store and as its readers receive it.
StreamKept == LogIsWhole /\ ReaderMissesNothing

\* A connected reader is told of the end, wherever its cursor is and whichever
\* notification is lost, unless its connection is.
EndReachesReader ==
    \A c \in Readers : ((\E s \in Seqs : EndRow(s)) /\ Following(c)) ~> ~Following(c)

HasGot(c, w, n) ==
    \E id \in readers[c].got : /\ log[id[1]].by = w
                               /\ log[id[1]].first + id[2] - 1 = n

\* What is written reaches a reader that stays connected, with no end() and no flush(),
\* unless its writer fails or dies.
ChunkReachesReader ==
    \A c \in Readers, w \in Writers : \A n \in 1 .. LastChunk :
        (writers[w].wrote >= n /\ Following(c)) ~>
            (HasGot(c, w, n) \/ ~Following(c) \/ writers[w].broken \/ writers[w].step = "gone")

\* A connected reader gets on: to what is written, and to the end.
ReaderGetsOn == EndReachesReader /\ ChunkReachesReader
=============================================================================
