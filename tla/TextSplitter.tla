----------------------------- MODULE TextSplitter -----------------------------
(***************************************************************************)
(* RecursiveTextSplitter.split: the loop that cuts a text into overlapping *)
(* chunks.  A text is its length, a chunk the half-open interval           *)
(* [from, to) it was sliced from; one action is one turn of the loop.      *)
(***************************************************************************)
EXTENDS Integers, Sequences

CONSTANTS Lengths,         \* lengths of the texts to split
          Sizes, Overlaps, \* constructor arguments; 0 also stands for None
          ChunkSize,       \* settings.CHUNK_SIZE
          ChunkOverlap     \* settings.CHUNK_OVERLAP

ASSUME SplitterAssumption == /\ Lengths \subseteq Nat
                             /\ Sizes \subseteq Nat
                             /\ Overlaps \subseteq Nat
                             /\ ChunkSize \in Nat \ {0}
                             /\ ChunkOverlap \in Nat

Interval == [from : Nat, to : Nat]

VARIABLES length,         \* len(text)
          size, overlap,  \* self._chunk_size, self._chunk_overlap
          start, chunks,
          done            \* the loop was left

config == <<length, size, overlap>>
splitVars == <<config, start, chunks, done>>

\* Python's "given or default": 0 falls back like None does.
Or(given, default) == IF given = 0 THEN default ELSE given

Least(a, b) == IF a <= b THEN a ELSE b

SplitInit == /\ length \in Lengths
             /\ size \in {Or(s, ChunkSize) : s \in Sizes}
             /\ overlap \in {Or(o, ChunkOverlap) : o \in Overlaps}
             /\ start = 0
             /\ chunks = <<>>
             /\ done = FALSE

MutFollowing(end) == end + 1                            \* mutant: off by one

MutBackward(end) == IF end > overlap THEN end - overlap ELSE 0    \* mutant: no start + 1

\* max(end - overlap, start + 1), where end - overlap may be negative.
Following(end) == IF end > start + overlap THEN end - overlap ELSE start + 1

\* The loop body: slice, and stop when the slice reached the end of the text.
Cut == /\ ~done /\ start < length
       /\ LET end == Least(start + size, length)
          IN  /\ chunks' = Append(chunks, [from |-> start, to |-> end])
              /\ IF end = length THEN done' = TRUE /\ UNCHANGED start
                 ELSE start' = Following(end) /\ UNCHANGED done
       /\ UNCHANGED config

\* The loop condition fails: only an empty text gets here.
Leave == ~done /\ start >= length /\ done' = TRUE /\ UNCHANGED <<config, start, chunks>>

\* The list was returned.
Returned == done /\ UNCHANGED splitVars

SplitNext == Cut \/ Leave \/ Returned

SplitSpec == SplitInit /\ [][SplitNext]_splitVars
-----------------------------------------------------------------------------
SplitTypeOK == /\ length \in Nat
               /\ size \in Nat \ {0}
               /\ overlap \in Nat
               /\ start \in Nat
               /\ chunks \in Seq(Interval)
               /\ done \in BOOLEAN

\* Every chunk is a non-empty slice of the text no longer than the chunk size,
\* so an embedding request never gets an empty or oversized string.
ChunksFit == \A i \in DOMAIN chunks : /\ chunks[i].from < chunks[i].to
                                      /\ chunks[i].to <= chunks[i].from + size
                                      /\ chunks[i].to <= length

\* No character is lost: the first chunk starts the text, each next one starts
\* inside or right after its predecessor and further on, the last ends it.
NothingLost == /\ chunks # <<>> => chunks[1].from = 0
               /\ \A i \in 1..(Len(chunks) - 1) :
                     /\ chunks[i].from < chunks[i + 1].from
                     /\ chunks[i + 1].from <= chunks[i].to
               /\ done => IF length = 0 THEN chunks = <<>>
                          ELSE chunks # <<>> /\ chunks[Len(chunks)].to = length

\* No chunk lies within its predecessor: only the last one reaches the end of
\* the text, whatever the overlap.
NoneRedundant == \A i \in 1..(Len(chunks) - 1) :
                    chunks[i].to < length /\ chunks[i].to < chunks[i + 1].to

\* The list a slide by max(size - overlap, 1) gives: the reference the loop is
\* checked against.
Stride == IF size > overlap THEN size - overlap ELSE 1
Slide == \A i \in DOMAIN chunks :
            chunks[i] = [from |-> (i - 1) * Stride, to |-> Least((i - 1) * Stride + size, length)]

\* The loop ends after as many turns as the slide needs and never more than the
\* text has characters, also for an overlap as large as the chunk or larger.
TurnsBounded == /\ Len(chunks) <= length
                /\ done /\ length > 0 => (Len(chunks) - 1) * Stride + size >= length
                /\ Len(chunks) > 1 => (Len(chunks) - 2) * Stride + size < length
=============================================================================
