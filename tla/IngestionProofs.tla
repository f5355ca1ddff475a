--------------------------- MODULE IngestionProofs ---------------------------
(***************************************************************************)
(* Theorems about the ingestion of documents: TextSplitter, for texts of   *)
(* any length and any chunk size and overlap, and Documents, for any       *)
(* number of documents, sessions and deletes.                              *)
(***************************************************************************)
EXTENDS Documents, TextSplitter, TLAPS

(***************************************************************************)
(* TextSplitter.                                                           *)
(***************************************************************************)

\* While the loop runs, the next chunk starts inside or right after the last
\* one, which was cut at full size before the end of the text.
InStep == ~done =>
  /\ start = Len(chunks) * Stride
  /\ chunks # <<>> => /\ chunks[Len(chunks)].to < length
                      /\ chunks[Len(chunks)].to = chunks[Len(chunks)].from + size
                      /\ chunks[Len(chunks)].from < start
                      /\ start <= chunks[Len(chunks)].to

SplitIInv == SplitTypeOK /\ ChunksFit /\ NothingLost /\ NoneRedundant /\ Slide /\ InStep
-----------------------------------------------------------------------------
\* The stride is a positive number no greater than the chunk size.
LEMMA StrideType ==
  ASSUME SplitTypeOK
  PROVE  Stride \in Nat /\ 1 <= Stride /\ Stride <= size
BY DEF SplitTypeOK, Stride

\* The slice the loop takes when it is not over: at least one character, at most
\* size of them; the next one starts a stride later.
LEMMA CutFacts ==
  ASSUME SplitTypeOK, start < length, NEW end, end = Least(start + size, length)
  PROVE  /\ end \in Nat
         /\ start < end /\ end <= length /\ end <= start + size
         /\ end # length => /\ end = start + size
                            /\ Following(end) = start + Stride
BY DEF SplitTypeOK, Least, Following, Stride

LEMMA InitSplitIInv == SplitInit => SplitIInv
<1> SUFFICES ASSUME SplitInit PROVE SplitIInv
  OBVIOUS
<1>1. SplitTypeOK
  <2>1. size \in Nat \ {0} /\ overlap \in Nat /\ length \in Nat
    BY SplitterAssumption DEF SplitInit, Or
  <2>2. chunks \in Seq(Interval)
    BY DEF SplitInit
  <2> QED
    BY <2>1, <2>2 DEF SplitInit, SplitTypeOK
<1>2. Len(chunks) = 0 /\ chunks = <<>> /\ start = 0 /\ done = FALSE
  BY DEF SplitInit
<1>3. ChunksFit /\ NothingLost /\ NoneRedundant /\ Slide
  BY <1>2 DEF ChunksFit, NothingLost, NoneRedundant, Slide
<1>4. InStep
  BY <1>1, <1>2, StrideType DEF InStep
<1> QED
  BY <1>1, <1>3, <1>4 DEF SplitIInv

\* One turn of the loop preserves the invariant.
LEMMA CutSplitIInv ==
  ASSUME SplitIInv, Cut
  PROVE  SplitIInv'
<1> DEFINE end == Least(start + size, length)
           n == Len(chunks)
           c == [from |-> start, to |-> end]
<1> USE DEF SplitIInv
<1>1. /\ ~done /\ start < length /\ start \in Nat /\ length \in Nat /\ size \in Nat \ {0}
      /\ n \in Nat /\ chunks \in Seq(Interval) /\ Stride \in Nat /\ 1 <= Stride /\ Stride <= size
  BY StrideType DEF Cut, SplitTypeOK
<1>2. /\ end \in Nat /\ start < end /\ end <= length /\ end <= start + size
      /\ end # length => end = start + size /\ Following(end) = start + Stride
  BY <1>1, CutFacts
<1>3. /\ length' = length /\ size' = size /\ overlap' = overlap /\ Stride' = Stride
      /\ chunks' = Append(chunks, c)
      /\ end = length => done' = TRUE /\ start' = start
      /\ end # length => done' = done /\ start' = start + Stride
      /\ done' <=> end = length
  BY <1>1, <1>2 DEF Cut, config, Stride
<1>4. c \in Interval /\ c.from = start /\ c.to = end
  BY <1>1, <1>2 DEF Interval
<1>5. /\ Len(chunks') = n + 1 /\ chunks' # <<>> /\ chunks' \in Seq(Interval)
      /\ DOMAIN chunks = 1..n /\ DOMAIN chunks' = 1..(n + 1)
      /\ \A i \in 1..n : chunks'[i] = chunks[i]
      /\ chunks'[n + 1] = c
  BY <1>1, <1>3, <1>4
<1>6. \A i \in 1..n : chunks[i].from \in Nat /\ chunks[i].to \in Nat
  <2>1. \A i \in 1..n : chunks[i] \in Interval
    BY <1>1
  <2> QED
    BY <2>1 DEF Interval
<1>7. /\ start = n * Stride
      /\ n # 0 => /\ chunks[n].to < length
                  /\ chunks[n].to = chunks[n].from + size
                  /\ chunks[n].from < start
                  /\ start <= chunks[n].to
  BY <1>1 DEF InStep
<1> HIDE DEF end, n, c
<1>8. SplitTypeOK'
  <2>1. done' \in BOOLEAN
    BY DEF Cut, SplitTypeOK
  <2>2. start' \in Nat
    BY <1>1, <1>3
  <2> QED
    BY <1>1, <1>3, <1>5, <2>1, <2>2 DEF SplitTypeOK
<1>9. ChunksFit'
  BY <1>1, <1>2, <1>3, <1>4, <1>5, <1>6 DEF ChunksFit
<1>10. NothingLost'
  <2>1. chunks'[1].from = 0
    BY <1>1, <1>4, <1>5, <1>7 DEF NothingLost, n
  <2>2. ASSUME NEW i \in 1..n PROVE chunks'[i].from < chunks'[i + 1].from /\ chunks'[i + 1].from <= chunks'[i].to
    BY <1>1, <1>4, <1>5, <1>7 DEF NothingLost, n
  <2>3. done' => length # 0 /\ chunks'[n + 1].to = length
    BY <1>1, <1>3, <1>4, <1>5
  <2> QED
    BY <1>1, <1>3, <1>5, <2>1, <2>2, <2>3 DEF NothingLost
<1>11. NoneRedundant'
  <2> SUFFICES ASSUME NEW i \in 1..n
               PROVE  chunks'[i].to < length /\ chunks'[i].to < chunks'[i + 1].to
    BY <1>1, <1>3, <1>5 DEF NoneRedundant
  <2>1. CASE i < n
    BY <1>1, <1>5, <2>1 DEF NoneRedundant, n
  <2>2. CASE i = n
    BY <1>1, <1>2, <1>4, <1>5, <1>6, <1>7, <2>2
  <2> QED
    BY <1>1, <2>1, <2>2
<1>12. Slide'
  <2>1. c = [from |-> ((n + 1) - 1) * Stride, to |-> Least(((n + 1) - 1) * Stride + size, length)]
    BY <1>1, <1>7 DEF c, end
  <2>2. \A i \in 1..n : chunks[i] = [from |-> (i - 1) * Stride, to |-> Least((i - 1) * Stride + size, length)]
    BY <1>5 DEF Slide
  <2>3. ASSUME NEW i \in DOMAIN chunks'
        PROVE  chunks'[i] = [from |-> (i - 1) * Stride, to |-> Least((i - 1) * Stride + size, length)]
    <3>1. CASE i = n + 1
      BY <1>5, <2>1, <3>1
    <3>2. CASE i \in 1..n
      BY <1>5, <2>2, <3>2
    <3> QED
      BY <1>1, <1>5, <3>1, <3>2
  <2> QED
    BY <1>3, <2>3 DEF Slide, Least
<1>13. InStep'
  <2>1. n * Stride + Stride = (n + 1) * Stride
    BY <1>1
  <2>2. ~done' => start' = (n + 1) * Stride /\ end # length
    BY <1>1, <1>3, <1>7, <2>1
  <2> QED
    BY <1>1, <1>2, <1>3, <1>4, <1>5, <2>2 DEF InStep
<1> QED
  BY <1>8, <1>9, <1>10, <1>11, <1>12, <1>13

\* Every step preserves the invariant.
LEMMA NextSplitIInv == SplitIInv /\ [SplitNext]_splitVars => SplitIInv'
<1> SUFFICES ASSUME SplitIInv, [SplitNext]_splitVars PROVE SplitIInv'
  OBVIOUS
<1>1. CASE Cut
  BY <1>1, CutSplitIInv
<1>2. CASE Leave
  <2>1. length' = length /\ size' = size /\ overlap' = overlap /\ start' = start /\ chunks' = chunks /\ done' = TRUE
    BY <1>2 DEF Leave, config
  <2>2. chunks = <<>> /\ length = 0
    <3>1. length \in Nat /\ start \in Nat /\ chunks \in Seq(Interval) /\ start >= length /\ ~done
      BY <1>2 DEF Leave, SplitIInv, SplitTypeOK
    <3>2. chunks = <<>>
      <4>1. SUFFICES ASSUME chunks # <<>> PROVE FALSE
        OBVIOUS
      <4>2. chunks[Len(chunks)] \in Interval
        BY <3>1, <4>1
      <4> QED
        BY <3>1, <4>1, <4>2 DEF SplitIInv, InStep, Interval
    <3>3. start = 0
      <4>1. Stride \in Nat
        BY StrideType DEF SplitIInv
      <4> QED
        BY <3>1, <3>2, <4>1 DEF SplitIInv, InStep
    <3> QED
      BY <3>1, <3>2, <3>3
  <2> QED
    BY <2>1, <2>2 DEF SplitIInv, SplitTypeOK, ChunksFit, NothingLost, NoneRedundant, Slide, Stride, InStep
<1>3. CASE UNCHANGED splitVars
  BY <1>3 DEF splitVars, config, SplitIInv, SplitTypeOK, ChunksFit, NothingLost, NoneRedundant, Slide, Stride, InStep
<1> QED
  BY <1>1, <1>2, <1>3 DEF SplitNext, Returned

\* The invariant holds in every behaviour.
THEOREM AlwaysSplitIInv == SplitSpec => []SplitIInv
BY InitSplitIInv, NextSplitIInv, PTL DEF SplitSpec
-----------------------------------------------------------------------------
\* No text, size or overlap makes split lose a character or leave a gap.
THEOREM SplitLosesNothing == SplitSpec => []NothingLost
<1>1. SplitIInv => NothingLost
  BY DEF SplitIInv
<1> QED
  BY <1>1, AlwaysSplitIInv, PTL

LEMMA Multiples == ASSUME NEW m \in Nat, NEW k \in Nat, 1 <= k PROVE m <= m * k
<1>1. k - 1 \in Nat /\ m * (k - 1) \in Nat
  OBVIOUS
<1>2. m * k = m + m * (k - 1)
  OBVIOUS
<1> QED
  BY <1>1, <1>2

\* The loop takes the turns the slide needs and no more, a character a turn at
\* worst, for every text, chunk size and overlap.
THEOREM SplitTurns == SplitSpec => []TurnsBounded
<1>1. ASSUME SplitIInv PROVE TurnsBounded
  <2> DEFINE n == Len(chunks)
  <2>1. /\ n \in Nat /\ length \in Nat /\ size \in Nat /\ Stride \in Nat /\ 1 <= Stride
        /\ DOMAIN chunks = 1..n /\ (n = 0 <=> chunks = <<>>)
    BY <1>1, StrideType DEF SplitIInv, SplitTypeOK
  <2>2. \A i \in 1..n : /\ chunks[i].from = (i - 1) * Stride
                        /\ chunks[i].to = Least((i - 1) * Stride + size, length)
                        /\ (i - 1) * Stride \in Nat
    BY <1>1, <2>1 DEF SplitIInv, Slide
  <2>3. \A i \in 1..n : chunks[i].from < chunks[i].to /\ chunks[i].to <= length
    BY <1>1, <2>1 DEF SplitIInv, ChunksFit
  <2> HIDE DEF n
  <2>4. n <= length
    <3>1. CASE n = 0
      BY <2>1, <3>1
    <3>2. CASE n # 0
      <4>1. n \in 1..n /\ n - 1 \in Nat
        BY <2>1, <3>2
      <4>2. (n - 1) * Stride < length /\ (n - 1) * Stride \in Nat
        BY <2>1, <2>2, <2>3, <4>1 DEF Least
      <4>3. n - 1 <= (n - 1) * Stride
        BY <2>1, <4>1, Multiples
      <4> QED
        BY <2>1, <4>2, <4>3
    <3> QED
      BY <3>1, <3>2
  <2>5. ASSUME done, length > 0 PROVE (n - 1) * Stride + size >= length
    <3>1. n \in 1..n /\ chunks[n].to = length
      BY <1>1, <2>1, <2>5 DEF SplitIInv, NothingLost, n
    <3> QED
      BY <2>1, <2>2, <3>1 DEF Least
  <2>6. ASSUME n > 1 PROVE (n - 2) * Stride + size < length
    <3>1. n - 1 \in 1..n /\ chunks[n - 1].to < length
      BY <1>1, <2>1, <2>6 DEF SplitIInv, NoneRedundant, n
    <3>2. chunks[n - 1].to = Least((n - 2) * Stride + size, length)
      <4>1. (n - 1) - 1 = n - 2
        BY <2>1
      <4> QED
        BY <2>2, <3>1, <4>1
    <3>3. (n - 2) * Stride \in Nat
      <4>1. n - 2 \in Nat
        BY <2>1, <2>6
      <4> QED
        BY <2>1, <4>1
    <3> QED
      BY <2>1, <3>1, <3>2, <3>3 DEF Least
  <2> QED
    BY <2>4, <2>5, <2>6 DEF TurnsBounded, n
<1> QED
  BY <1>1, AlwaysSplitIInv, PTL

\* Every chunk fits: non-empty, within the text, no longer than the chunk size.
THEOREM SplitFits == SplitSpec => []ChunksFit
<1>1. SplitIInv => ChunksFit
  BY DEF SplitIInv
<1> QED
  BY <1>1, AlwaysSplitIInv, PTL

\* The loop computes the slide: chunk i starts at (i - 1) * max(size - overlap, 1).
THEOREM SplitSlides == SplitSpec => []Slide
<1>1. SplitIInv => Slide
  BY DEF SplitIInv
<1> QED
  BY <1>1, AlwaysSplitIInv, PTL

\* No chunk is contained in the one before it.
THEOREM SplitNoneRedundant == SplitSpec => []NoneRedundant
<1>1. SplitIInv => NoneRedundant
  BY DEF SplitIInv
<1> QED
  BY <1>1, AlwaysSplitIInv, PTL
-----------------------------------------------------------------------------
(***************************************************************************)
(* Documents.                                                              *)
(***************************************************************************)

\* A document's chunks are written before its ingestion ends, its row last; and
\* chunks that are missing before the row is written were asked to go.
Placed ==
  /\ \A d \in points : ingest[d] \in {"saving", "done", "failed"}
  /\ \A d \in rows : ingest[d] \in {"done", "failed"}
  /\ \A d \in Doc : ingest[d] = "saving" /\ d \notin points =>
        \E e \in Eraser : erase[e] # "idle" /\ NamesPoints(e, d)

\* Where a delete of each kind can be, and what it knows there.
OnItsWay ==
  \A e \in Eraser :
     /\ request[e].kind = "document" => /\ erase[e] # "rows"
                                        /\ erase[e] # "idle" => ingest[request[e].doc] = "done"
     /\ request[e].kind = "session" => erase[e] \notin {"row", "not_found"}
     /\ erase[e] = "row" => backend = "postgres" /\ request[e].doc \notin points
     /\ \A d \in settled[e] : ingest[d] = "done"
     /\ erase[e] = "idle" => settled[e] = {}
     /\ \A d \in found[e] : NamesPoints(e, d) /\ erase[e] # "idle"

\* A delete that is about to remove points found all that it is for.
FoundAll ==
  \A e \in Eraser : erase[e] = "points" =>
     IF request[e].kind = "document" THEN request[e].doc \in found[e]
     ELSE \A d \in settled[e] \cap points : NamesPoints(e, d) => d \in found[e]

\* Once the rows of its session are dropped they stay away.
RowsDropped ==
  \A e \in Eraser : request[e].kind = "session" /\ erase[e] \notin {"idle", "rows"} /\ backend = "memory" =>
     \A d \in settled[e] : attr[d].session = request[e].session /\ attr[d].ephemeral => d \notin rows

\* The delete that took a document's chunks, where it may leave the row.
Took(e, d) ==
  /\ NamesPoints(e, d)
  /\ \/ request[e].kind = "document" /\ erase[e] \in {"row", "failed"}
     \/ request[e].kind = "document" /\ erase[e] = "done" /\ backend = "postgres"
     \/ /\ request[e].kind = "session" /\ erase[e] \in {"done", "failed"}
        /\ ~attr[d].ephemeral \/ backend = "postgres" \/ d \notin settled[e]

\* Chunks whose row is there or on its way are missing only if a delete took them.
Taken == \A d \in Doc : (ingest[d] = "saving" \/ d \in rows) /\ d \notin points =>
            \E e \in Eraser : Took(e, d)

IInv == /\ TypeOK /\ Placed /\ OnItsWay /\ FoundAll /\ RowsDropped /\ Taken
        /\ ChunksLeaveOnRequest /\ RowsLeaveOnRequest /\ OrphanChunks /\ DeletedStaysOut /\ SessionSwept
-----------------------------------------------------------------------------
LEMMA InitIInv == Init => IInv
  BY DocumentsAssumption DEF Init, IInv, TypeOK, Placed, OnItsWay, FoundAll, RowsDropped, Taken, ChunksLeaveOnRequest,
     RowsLeaveOnRequest, OrphanChunks, DeletedStaysOut, SessionSwept

\* A request names a document or a session.
LEMMA RequestNames == ASSUME TypeOK, NEW e \in Eraser
                      PROVE  /\ request[e].kind \in {"document", "session"}
                             /\ request[e].kind = "document" => request[e].doc \in Doc
  BY DEF TypeOK, Request

\* A step of an ingestion: it moves one document on, and adds its points when
\* they are upserted and its row when that is saved.
Moves(d, to) ==
  /\ UNCHANGED <<given, erase, found, settled>>
  /\ to \in {"embedding", "creating", "upserting", "saving", "done", "failed"}
  /\ ingest[d] \notin {"done", "failed"}
  /\ ingest' = [ingest EXCEPT ![d] = to]
  /\ collections' \subseteq Collection
  /\ \/ points' = points
     \/ points' = points \cup {d} /\ ingest[d] = "upserting" /\ to \in {"saving", "failed"}
  /\ \/ rows' = rows
     \/ rows' = rows \cup {d} /\ ingest[d] = "saving"
  /\ ingest[d] = "saving" => to \in {"done", "failed"}
  /\ to = "saving" => d \in points'
  /\ to = "done" => ingest[d] = "saving" /\ d \in rows'

LEMMA IngestStep == ASSUME IInv, NEW d \in Doc, NEW to, Moves(d, to)
                    PROVE  IInv'
<1> USE DEF Moves
<1>1. TypeOK /\ Placed /\ OnItsWay
  BY DEF IInv
<1>2. /\ backend' = backend /\ attr' = attr /\ request' = request
      /\ erase' = erase /\ found' = found /\ settled' = settled
  BY DEF given
<1>3. /\ ingest'[d] = to
      /\ \A x \in Doc : x # d => ingest'[x] = ingest[x]
      /\ \A x \in Doc : ingest[x] = "done" => ingest'[x] = "done"
      /\ points \subseteq points' /\ rows \subseteq rows' /\ points' \subseteq points \cup {d} /\ rows' \subseteq rows \cup {d}
      /\ points \subseteq Doc /\ rows \subseteq Doc
  BY <1>1 DEF TypeOK
<1>4. \A e \in Eraser, x \in Doc : NamesPoints(e, x)' <=> NamesPoints(e, x)
  BY <1>2 DEF NamesPoints
<1>5. \A x \in Doc : ingest[x] = "done" => /\ x \in points' => x \in points
                                           /\ x \in rows' => x \in rows
  BY <1>3
<1>6. TypeOK'
  <2>1. ingest' \in [Doc -> {"idle", "embedding", "creating", "upserting", "saving", "done", "failed"}]
    BY <1>1 DEF TypeOK
  <2> QED BY <1>1, <1>2, <1>3, <2>1 DEF TypeOK
<1>7. Placed'
  <2>1. \A x \in points' : ingest'[x] \in {"saving", "done", "failed"}
    BY <1>1, <1>3 DEF Placed
  <2>2. \A x \in rows' : ingest'[x] \in {"done", "failed"}
    BY <1>1, <1>3 DEF Placed
  <2>3. ASSUME NEW x \in Doc, ingest'[x] = "saving", x \notin points'
        PROVE  \E e \in Eraser : erase[e] # "idle" /\ NamesPoints(e, x)
    BY <1>1, <1>3, <2>3 DEF Placed
  <2> QED BY <1>2, <1>4, <2>1, <2>2, <2>3 DEF Placed
<1>8. OnItsWay'
  <2> SUFFICES ASSUME NEW e \in Eraser
               PROVE  /\ request[e].kind = "document" => /\ erase[e] # "rows"
                                                         /\ erase[e] # "idle" => ingest'[request[e].doc] = "done"
                      /\ request[e].kind = "session" => erase[e] \notin {"row", "not_found"}
                      /\ erase[e] = "row" => backend = "postgres" /\ request[e].doc \notin points'
                      /\ \A x \in settled[e] : ingest'[x] = "done"
                      /\ erase[e] = "idle" => settled[e] = {}
                      /\ \A x \in found[e] : NamesPoints(e, x) /\ erase[e] # "idle"
    BY <1>1, <1>2, <1>4 DEF OnItsWay, TypeOK
  <2>1. settled[e] \subseteq Doc
    BY <1>1 DEF TypeOK
  <2> QED BY <1>1, <1>3, <1>5, <2>1, RequestNames DEF OnItsWay
<1>9. FoundAll'
  <2>1. \A e \in Eraser : settled[e] \cap points' = settled[e] \cap points
    BY <1>1, <1>3, <1>5 DEF OnItsWay, TypeOK
  <2>2. \A e \in Eraser : settled[e] \subseteq Doc
    BY <1>1 DEF TypeOK
  <2> QED BY <1>2, <1>4, <2>1, <2>2 DEF FoundAll, IInv
<1>10. RowsDropped'
  BY <1>1, <1>2, <1>5 DEF RowsDropped, IInv, OnItsWay, TypeOK
<1>11. ChunksLeaveOnRequest'
  <2> SUFFICES ASSUME NEW x \in Doc, ingest'[x] = "done", x \notin points'
               PROVE  \E e \in Eraser : erase[e] # "idle" /\ NamesPoints(e, x)
    BY <1>2, <1>4 DEF ChunksLeaveOnRequest
  <2>1. ingest[x] \in {"saving", "done"} /\ x \notin points
    BY <1>3
  <2> QED BY <1>1, <2>1 DEF Placed, IInv, ChunksLeaveOnRequest
<1>12. RowsLeaveOnRequest'
  <2>1. \A x \in Doc : ingest'[x] = "done" /\ x \notin rows' => ingest[x] = "done" /\ x \notin rows
    BY <1>3
  <2> QED BY <1>2, <2>1 DEF RowsLeaveOnRequest, IInv
<1>13. OrphanChunks'
  <2>1. \A x \in points' \ rows' : ingest'[x] \in {"saving", "failed"} \/ (x \in points \ rows /\ ingest[x] = ingest'[x])
    BY <1>1, <1>3 DEF Placed
  <2> QED BY <1>2, <2>1 DEF OrphanChunks, IInv
<1>14. DeletedStaysOut'
  BY <1>1, <1>2, <1>5, RequestNames DEF DeletedStaysOut, IInv, OnItsWay
<1>15. SessionSwept'
  BY <1>1, <1>2, <1>5 DEF SessionSwept, IInv, OnItsWay, TypeOK
<1>16. Taken'
  <2>1. \A e \in Eraser, x \in Doc : Took(e, x) => Took(e, x)'
    BY <1>2, <1>4 DEF Took
  <2>2. ASSUME NEW x \in Doc, ingest'[x] = "saving" \/ x \in rows', x \notin points'
        PROVE  (ingest[x] = "saving" \/ x \in rows) /\ x \notin points
    BY <1>3, <2>2
  <2> QED BY <2>1, <2>2 DEF Taken, IInv
<1> QED BY <1>6, <1>7, <1>8, <1>9, <1>10, <1>11, <1>12, <1>13, <1>14, <1>15, <1>16 DEF IInv

LEMMA AttributesOf == ASSUME TypeOK, NEW d \in Doc PROVE attr[d].collection \in Collection
  BY DEF TypeOK, Attributes

LEMMA IngestIInv == ASSUME IInv, NEW d \in Doc, Ingest(d) \/ FailIngest(d) PROVE IInv'
<1>1. TypeOK /\ attr[d].collection \in Collection
  BY AttributesOf DEF IInv
<1>2. CASE Embed(d)
  <2>1. Moves(d, "embedding")
    BY <1>1, <1>2 DEF Moves, Embed, GoTo, stores, TypeOK
  <2> QED BY <2>1, IngestStep
<1>3. CASE ListCollections(d)
  <2>1. PICK to \in {"upserting", "creating"} : GoTo(d, "embedding", to)
    BY <1>3 DEF ListCollections
  <2>2. Moves(d, to)
    BY <1>1, <1>3, <2>1 DEF Moves, ListCollections, GoTo, stores, TypeOK
  <2> QED BY <2>2, IngestStep
<1>4. CASE CreateCollection(d)
  <2>1. PICK to \in {"failed", "upserting"} : GoTo(d, "creating", to)
    BY <1>4 DEF CreateCollection
  <2>2. Moves(d, to)
    BY <1>1, <1>4, <2>1 DEF Moves, CreateCollection, GoTo, TypeOK
  <2> QED BY <2>2, IngestStep
<1>5. CASE UpsertPoints(d)
  <2>1. Moves(d, "saving")
    BY <1>1, <1>5 DEF Moves, UpsertPoints, GoTo, TypeOK
  <2> QED BY <2>1, IngestStep
<1>6. CASE SaveRow(d)
  <2>1. Moves(d, "done")
    BY <1>1, <1>6 DEF Moves, SaveRow, GoTo, TypeOK
  <2> QED BY <2>1, IngestStep
<1>7. CASE FailIngest(d)
  <2>1. Moves(d, "failed")
    BY <1>1, <1>7 DEF Moves, FailIngest, stores, TypeOK
  <2> QED BY <2>1, IngestStep
<1> QED BY <1>2, <1>3, <1>4, <1>5, <1>6, <1>7 DEF Ingest

\* A step of a delete keeps what does not change.
LEMMA EraseFrame ==
  ASSUME IInv, UNCHANGED <<given, collections, ingest>>
  PROVE  /\ TypeOK /\ Placed /\ OnItsWay /\ FoundAll /\ RowsDropped /\ Taken
         /\ ChunksLeaveOnRequest /\ RowsLeaveOnRequest /\ OrphanChunks /\ DeletedStaysOut /\ SessionSwept
         /\ backend' = backend /\ attr' = attr /\ request' = request
         /\ collections' = collections /\ ingest' = ingest
         /\ \A e \in Eraser, d \in Doc : NamesPoints(e, d)' <=> NamesPoints(e, d)
         /\ points \subseteq Doc /\ rows \subseteq Doc
         /\ \A e \in Eraser : settled[e] \subseteq Doc /\ found[e] \subseteq Doc
  BY DEF IInv, given, NamesPoints, TypeOK

LEMMA StartEraseIInv == ASSUME IInv, NEW e \in Eraser, StartErase(e) PROVE IInv'
<1>1. /\ UNCHANGED <<given, collections, ingest>> /\ points' = points /\ rows' = rows /\ found' = found
      /\ erase[e] = "idle"
      /\ request[e].kind = "document" => ingest[request[e].doc] = "done"
      /\ erase' = [erase EXCEPT ![e] = IF request[e].kind = "document" THEN "scroll" ELSE "rows"]
      /\ settled' = [settled EXCEPT ![e] = {d \in Doc : ingest[d] = "done"}]
  BY DEF StartErase, stores
<1>2. /\ TypeOK /\ Placed /\ OnItsWay /\ FoundAll /\ RowsDropped /\ Taken
      /\ ChunksLeaveOnRequest /\ RowsLeaveOnRequest /\ OrphanChunks /\ DeletedStaysOut /\ SessionSwept
  BY <1>1, EraseFrame
<1>3. /\ backend' = backend /\ attr' = attr /\ request' = request
      /\ collections' = collections /\ ingest' = ingest
  BY <1>1, EraseFrame
<1>4. \A x \in Eraser, d \in Doc : NamesPoints(x, d)' <=> NamesPoints(x, d)
  BY <1>1, EraseFrame
<1>5. /\ erase'[e] = IF request[e].kind = "document" THEN "scroll" ELSE "rows"
      /\ settled'[e] = {d \in Doc : ingest[d] = "done"}
      /\ \A x \in Eraser : x # e => erase'[x] = erase[x] /\ settled'[x] = settled[x]
      /\ \A x \in Eraser : erase[x] # "idle" => erase'[x] = erase[x] /\ settled'[x] = settled[x]
  BY <1>1, <1>2 DEF TypeOK
<1>6. TypeOK'
  <2>1. erase' \in [Eraser -> {"idle", "rows", "scroll", "points", "row", "done", "not_found", "failed"}]
    BY <1>1, <1>2 DEF TypeOK
  <2>2. settled' \in [Eraser -> SUBSET Doc]
    BY <1>1, <1>2 DEF TypeOK
  <2> QED BY <1>1, <1>2, <1>3, <2>1, <2>2 DEF TypeOK
<1>7. Placed'
  BY <1>1, <1>2, <1>3, <1>4, <1>5 DEF Placed
<1>8. OnItsWay'
  <2>1. found[e] = {}
    BY <1>1, <1>2 DEF OnItsWay
  <2> QED BY <1>1, <1>2, <1>3, <1>4, <1>5, <2>1, RequestNames DEF OnItsWay, TypeOK
<1>9. FoundAll'
  BY <1>1, <1>2, <1>3, <1>4, <1>5 DEF FoundAll, TypeOK
<1>10. RowsDropped'
  BY <1>1, <1>2, <1>3, <1>5 DEF RowsDropped
<1>11. ChunksLeaveOnRequest'
  BY <1>1, <1>2, <1>3, <1>4, <1>5 DEF ChunksLeaveOnRequest
<1>12. RowsLeaveOnRequest'
  BY <1>1, <1>2, <1>3, <1>5 DEF RowsLeaveOnRequest
<1>13. OrphanChunks'
  BY <1>1, <1>2, <1>3, <1>5 DEF OrphanChunks
<1>14. DeletedStaysOut'
  BY <1>1, <1>2, <1>3, <1>5 DEF DeletedStaysOut
<1>15. SessionSwept'
  BY <1>1, <1>2, <1>3, <1>5 DEF SessionSwept
<1>16. Taken'
  <2>1. \A x \in Eraser, d \in Doc : Took(x, d) => Took(x, d)'
    BY <1>1, <1>3, <1>4, <1>5 DEF Took
  <2> QED BY <1>1, <1>2, <1>3, <2>1 DEF Taken
<1> QED BY <1>6, <1>7, <1>8, <1>9, <1>10, <1>11, <1>12, <1>13, <1>14, <1>15, <1>16 DEF IInv

\* The other steps of a delete: it goes on, documents it names lose points or
\* rows, and what it found, if that changes, is what its filter matches.
Erases(e, to) ==
  /\ UNCHANGED <<given, collections, ingest, settled>>
  /\ erase[e] \notin {"idle", "done", "not_found", "failed"}
  /\ to \in {"scroll", "points", "row", "done", "not_found", "failed"}
  /\ erase' = [erase EXCEPT ![e] = to]
  /\ points' \subseteq points /\ rows' \subseteq rows
  /\ found' \in [Eraser -> SUBSET Doc]
  /\ \A x \in Eraser : x # e => found'[x] = found[x]
  /\ \A d \in found'[e] : NamesPoints(e, d)
  /\ \A d \in points \ points' : NamesPoints(e, d) /\ erase[e] = "points" /\ to \in {"row", "done", "failed"}
  /\ erase[e] = "row" => to \in {"done", "failed"}
  /\ \A d \in rows \ rows' : /\ backend = "memory"
                             /\ IF request[e].kind = "document" THEN request[e].doc = d /\ d \notin points'
                                ELSE /\ attr[d].ephemeral /\ request[e].session = attr[d].session
                                     /\ to \in {"scroll", "points", "failed"}
  /\ to = "row" => request[e].kind = "document" /\ backend = "postgres" /\ request[e].doc \notin points'
  /\ to = "not_found" => request[e].kind = "document"
  /\ to = "points" => \A d \in points : NamesPoints(e, d) => d \in found'[e]
  /\ to = "points" /\ request[e].kind = "document" => request[e].doc \in found'[e]
  /\ request[e].kind = "session" /\ backend = "memory" =>
        IF erase[e] = "rows"
        THEN \A d \in rows' : ~(attr[d].session = request[e].session /\ attr[d].ephemeral)
        ELSE erase[e] \in {"scroll", "points"}
  /\ to = "done" /\ request[e].kind = "document" =>
        /\ request[e].doc \notin points'
        /\ backend = "memory" => request[e].doc \notin rows'
  /\ to = "done" /\ request[e].kind = "session" => \A d \in settled[e] \cap points' : ~NamesPoints(e, d)

LEMMA EraseStep == ASSUME IInv, NEW e \in Eraser, NEW to, Erases(e, to)
                   PROVE  IInv'
<1> USE DEF Erases
<1>1. /\ TypeOK /\ Placed /\ OnItsWay /\ FoundAll /\ RowsDropped /\ Taken
      /\ ChunksLeaveOnRequest /\ RowsLeaveOnRequest /\ OrphanChunks /\ DeletedStaysOut /\ SessionSwept
  BY EraseFrame
<1>2. /\ backend' = backend /\ attr' = attr /\ request' = request
      /\ collections' = collections /\ ingest' = ingest /\ settled' = settled
  BY EraseFrame
<1>3. \A x \in Eraser, d \in Doc : NamesPoints(x, d)' <=> NamesPoints(x, d)
  BY EraseFrame
<1>4. /\ erase'[e] = to /\ to # "idle" /\ erase[e] # "idle" /\ to # "rows"
      /\ \A x \in Eraser : x # e => erase'[x] = erase[x]
      /\ \A x \in Eraser : erase'[x] = "idle" <=> erase[x] = "idle"
      /\ erase' \in [Eraser -> {"idle", "rows", "scroll", "points", "row", "done", "not_found", "failed"}]
  BY <1>1 DEF TypeOK
<1>5. points' \subseteq points /\ rows' \subseteq rows /\ points \subseteq Doc /\ rows \subseteq Doc
  BY <1>1 DEF TypeOK
<1>6. \A x \in Eraser : settled[x] \subseteq Doc /\ found[x] \subseteq Doc /\ found'[x] \subseteq Doc
  BY <1>1 DEF TypeOK
<1>7. TypeOK'
  BY <1>1, <1>2, <1>4, <1>5 DEF TypeOK
<1>8. Placed'
  <2>1. ASSUME NEW d \in Doc, ingest[d] = "saving", d \notin points'
        PROVE  \E x \in Eraser : erase'[x] # "idle" /\ NamesPoints(x, d)
    BY <1>1, <1>4, <2>1 DEF Placed
  <2> QED BY <1>1, <1>2, <1>3, <1>5, <2>1 DEF Placed
<1>9. OnItsWay'
  BY <1>1, <1>2, <1>3, <1>4, <1>5, <1>6, RequestNames DEF OnItsWay
<1>10. FoundAll'
  <2>1. ASSUME NEW x \in Eraser, erase'[x] = "points"
        PROVE  IF request[x].kind = "document" THEN request[x].doc \in found'[x]
               ELSE \A d \in settled[x] \cap points' : NamesPoints(x, d) => d \in found'[x]
    BY <1>1, <1>4, <1>5, <2>1 DEF FoundAll
  <2> QED BY <1>2, <1>3, <1>6, <2>1 DEF FoundAll
<1>11. RowsDropped'
  BY <1>1, <1>2, <1>4, <1>5 DEF RowsDropped
<1>12. ChunksLeaveOnRequest'
  <2>1. ASSUME NEW d \in Doc, ingest[d] = "done", d \notin points'
        PROVE  \E x \in Eraser : erase'[x] # "idle" /\ NamesPoints(x, d)
    BY <1>1, <1>4, <2>1 DEF ChunksLeaveOnRequest
  <2> QED BY <1>2, <1>3, <2>1 DEF ChunksLeaveOnRequest
<1>13. RowsLeaveOnRequest'
  BY <1>1, <1>2, <1>4 DEF RowsLeaveOnRequest
<1>14. OrphanChunks'
  <2> SUFFICES ASSUME NEW d \in points', d \notin rows', ingest[d] \notin {"saving", "failed"}
               PROVE  \E x \in Eraser : /\ request[x].kind = "session"
                                        /\ request[x].session = attr[d].session
                                        /\ attr[d].ephemeral /\ backend = "memory"
                                        /\ erase'[x] \notin {"idle", "rows"}
                                        /\ \/ erase'[x] \in {"scroll", "points", "failed"}
                                           \/ request[x].collection # attr[d].collection
                                           \/ d \notin settled[x]
    BY <1>2 DEF OrphanChunks
  <2>1. CASE d \in rows
    <3>1. d \in rows \ rows' /\ d \in points'
      BY <2>1
    <3>2. /\ backend = "memory" /\ request[e].kind # "document"
          /\ attr[d].ephemeral /\ request[e].session = attr[d].session /\ to \in {"scroll", "points", "failed"}
      BY <3>1
    <3>3. request[e].kind = "session"
      BY <1>1, <3>2, RequestNames
    <3>4. erase'[e] \notin {"idle", "rows"} /\ erase'[e] \in {"scroll", "points", "failed"}
      BY <1>4, <3>2
    <3> QED BY <3>2, <3>3, <3>4
  <2>2. CASE d \notin rows
    <3>1. PICK x \in Eraser : /\ request[x].kind = "session"
                              /\ request[x].session = attr[d].session
                              /\ attr[d].ephemeral /\ backend = "memory"
                              /\ erase[x] \notin {"idle", "rows"}
                              /\ \/ erase[x] \in {"scroll", "points", "failed"}
                                 \/ request[x].collection # attr[d].collection
                                 \/ d \notin settled[x]
      BY <1>1, <1>5, <2>2 DEF OrphanChunks
    <3>2. CASE x # e
      BY <1>4, <3>1, <3>2
    <3>3. CASE x = e
      BY <1>4, <1>5, <3>1, <3>3 DEF NamesPoints
    <3> QED BY <3>2, <3>3
  <2> QED BY <2>1, <2>2
<1>15. DeletedStaysOut'
  BY <1>1, <1>2, <1>4, <1>5 DEF DeletedStaysOut
<1>16. SessionSwept'
  BY <1>1, <1>2, <1>4, <1>5, <1>11 DEF SessionSwept, RowsDropped, NamesPoints
<1>17. Taken'
  <2> SUFFICES ASSUME NEW d \in Doc, ingest[d] = "saving" \/ d \in rows', d \notin points'
               PROVE  \E x \in Eraser : Took(x, d)'
    BY <1>2 DEF Taken
  <2>1. CASE d \in points
    <3>1. NamesPoints(e, d) /\ erase[e] = "points" /\ to \in {"row", "done", "failed"} /\ NamesPoints(e, d)'
      BY <1>3, <2>1
    <3>2. CASE request[e].kind = "document"
      <4>1. d = request[e].doc
        BY <3>1, <3>2 DEF NamesPoints
      <4>2. ingest[d] = "done" /\ d \in rows'
        BY <1>1, <3>1, <3>2, <4>1 DEF OnItsWay
      <4>3. backend \in {"memory", "postgres"}
        BY <1>1, DocumentsAssumption DEF TypeOK
      <4>4. to = "done" => backend = "postgres"
        BY <3>2, <4>1, <4>2, <4>3
      <4> QED BY <1>2, <1>4, <3>1, <3>2, <4>4 DEF Took
    <3>3. CASE request[e].kind = "session"
      <4>1. to # "row"
        BY <3>3
      <4>2. ASSUME attr[d].ephemeral, backend # "postgres", d \in settled[e]
            PROVE  FALSE
        <5>1. backend = "memory" /\ attr[d].session = request[e].session
          BY <1>1, <3>1, <3>3, <4>2, DocumentsAssumption DEF TypeOK, NamesPoints
        <5>2. d \notin rows
          BY <1>1, <3>1, <3>3, <4>2, <5>1 DEF RowsDropped
        <5>3. ingest[d] = "done"
          BY <1>1, <4>2 DEF OnItsWay
        <5> QED BY <5>2, <5>3
      <4> QED BY <1>2, <1>4, <3>1, <3>3, <4>1, <4>2 DEF Took
    <3> QED BY <1>1, <3>2, <3>3, RequestNames
  <2>2. CASE d \notin points
    <3>1. PICK x \in Eraser : Took(x, d)
      BY <1>1, <2>2 DEF Taken
    <3>2. CASE x # e
      BY <1>2, <1>3, <1>4, <3>1, <3>2 DEF Took
    <3>3. CASE x = e
      <4>1. request[e].kind = "document" /\ erase[e] = "row" /\ backend = "postgres" /\ NamesPoints(e, d)
        BY <1>1, <3>1, <3>3 DEF Took, OnItsWay
      <4> QED BY <1>2, <1>3, <1>4, <4>1 DEF Took
    <3> QED BY <3>2, <3>3
  <2> QED BY <2>1, <2>2
<1> QED BY <1>7, <1>8, <1>9, <1>10, <1>11, <1>12, <1>13, <1>14, <1>15, <1>16, <1>17 DEF IInv

LEMMA DropSessionRowsIInv == ASSUME IInv, NEW e \in Eraser, DropSessionRows(e) PROVE IInv'
<1>1. /\ UNCHANGED <<given, collections, points, ingest, found, settled>>
      /\ erase[e] = "rows" /\ erase' = [erase EXCEPT ![e] = "scroll"]
      /\ rows' = Without(SessionRows(request[e].session))
  BY DEF DropSessionRows
<1>2. TypeOK /\ OnItsWay
  BY DEF IInv
<1>3. request[e].kind = "session"
  BY <1>1, <1>2, RequestNames DEF OnItsWay
<1>4. rows' = IF backend = "memory"
              THEN rows \ {d \in rows : attr[d].session = request[e].session /\ attr[d].ephemeral}
              ELSE rows
  BY <1>1 DEF Without, SessionRows
<1>5. found[e] \subseteq Doc /\ \A d \in found[e] : NamesPoints(e, d)
  BY <1>2 DEF OnItsWay, TypeOK
<1>6. Erases(e, "scroll")
  BY <1>1, <1>2, <1>3, <1>4, <1>5 DEF Erases, TypeOK
<1> QED BY <1>6, EraseStep

\* The filter matches the points that the request names.
LEMMA MatchingNames == ASSUME NEW e \in Eraser
                       PROVE  Matching(request[e]) = {d \in points : NamesPoints(e, d)}
  BY DEF Matching, NamesPoints

LEMMA ScrollIInv == ASSUME IInv, NEW e \in Eraser, Scroll(e) PROVE IInv'
<1> DEFINE q == request[e]
           all == {d \in points : NamesPoints(e, d)}
<1>1. /\ UNCHANGED <<given, stores, ingest, settled>>
      /\ erase[e] = "scroll"
      /\ found' = [found EXCEPT ![e] = all]
      /\ erase' = [erase EXCEPT ![e] = IF q.collection \notin collections THEN "failed"
                                       ELSE IF all # {} THEN "points"
                                       ELSE IF q.kind = "document" THEN "not_found" ELSE "done"]
  BY MatchingNames DEF Scroll
<1>2. /\ TypeOK /\ Placed /\ OnItsWay
      /\ all \subseteq points /\ all \subseteq Doc
      /\ q.kind \in {"document", "session"}
  BY RequestNames DEF IInv, TypeOK
<1>3. collections' = collections /\ points' = points /\ rows' = rows
  BY <1>1 DEF stores
<1>4. PICK to \in {"failed", "points", "not_found", "done"} :
        /\ erase' = [erase EXCEPT ![e] = to]
        /\ to = "points" => all # {}
        /\ to = "not_found" => q.kind = "document"
        /\ to = "done" => all = {} /\ q.kind = "session"
  BY <1>1, <1>2
<1>5. \A d \in all : q.kind = "document" => d = q.doc
  BY DEF NamesPoints
<1>6. found' \in [Eraser -> SUBSET Doc] /\ found'[e] = all /\ \A x \in Eraser : x # e => found'[x] = found[x]
  BY <1>1, <1>2 DEF TypeOK
<1>7. Erases(e, to)
  <2>1. \A d \in all : NamesPoints(e, d)
    OBVIOUS
  <2>2. to = "points" => /\ \A d \in points : NamesPoints(e, d) => d \in found'[e]
                         /\ q.kind = "document" => q.doc \in found'[e]
    BY <1>4, <1>5, <1>6
  <2>3. to = "done" => q.kind = "session" /\ \A d \in settled[e] \cap points' : ~NamesPoints(e, d)
    BY <1>3, <1>4
  <2> HIDE DEF all
  <2> QED BY <1>1, <1>2, <1>3, <1>4, <1>6, <2>1, <2>2, <2>3 DEF Erases
<1> QED BY <1>7, EraseStep

LEMMA DeletePointsIInv == ASSUME IInv, NEW e \in Eraser, DeletePoints(e) PROVE IInv'
<1> DEFINE q == request[e]
<1>1. /\ UNCHANGED <<given, collections, ingest, found, settled>>
      /\ erase[e] = "points"
      /\ points' = points \ found[e]
      /\ rows' = IF q.kind = "document" /\ backend = "memory" THEN rows \ {q.doc} ELSE rows
      /\ erase' = [erase EXCEPT ![e] = IF q.kind = "document" /\ backend = "postgres" THEN "row" ELSE "done"]
  BY DEF DeletePoints, Without
<1>2. TypeOK /\ OnItsWay /\ FoundAll /\ q.kind \in {"document", "session"} /\ backend \in {"memory", "postgres"}
  BY DocumentsAssumption, RequestNames DEF IInv, TypeOK
<1>3. found[e] \subseteq Doc /\ \A d \in found[e] : NamesPoints(e, d)
  BY <1>2 DEF OnItsWay, TypeOK
<1>4. IF q.kind = "document" THEN q.doc \in found[e]
      ELSE \A d \in settled[e] \cap points : NamesPoints(e, d) => d \in found[e]
  BY <1>1, <1>2 DEF FoundAll
<1>5. CASE q.kind = "document" /\ backend = "postgres"
  <2>1. Erases(e, "row")
    BY <1>1, <1>2, <1>3, <1>4, <1>5 DEF Erases, TypeOK
  <2> QED BY <2>1, EraseStep
<1>6. CASE q.kind = "document" /\ backend = "memory"
  <2>1. Erases(e, "done")
    BY <1>1, <1>2, <1>3, <1>4, <1>6 DEF Erases, TypeOK
  <2> QED BY <2>1, EraseStep
<1>7. CASE q.kind = "session"
  <2>1. Erases(e, "done")
    BY <1>1, <1>2, <1>3, <1>4, <1>7 DEF Erases, TypeOK
  <2> QED BY <2>1, EraseStep
<1> QED BY <1>2, <1>5, <1>6, <1>7

LEMMA DeleteRowIInv == ASSUME IInv, NEW e \in Eraser, DeleteRow(e) PROVE IInv'
<1>1. TypeOK /\ OnItsWay
  BY DEF IInv
<1>2. /\ UNCHANGED <<given, collections, points, ingest, found, settled>>
      /\ erase[e] = "row" /\ erase' = [erase EXCEPT ![e] = "done"]
      /\ backend = "postgres" /\ request[e].doc \notin points /\ request[e].kind = "document"
  BY <1>1, RequestNames DEF DeleteRow, OnItsWay
<1>3. rows' = rows
  BY <1>2 DEF DeleteRow, Without
<1>4. found[e] \subseteq Doc /\ \A d \in found[e] : NamesPoints(e, d)
  BY <1>1 DEF OnItsWay, TypeOK
<1>5. Erases(e, "done")
  BY <1>1, <1>2, <1>3, <1>4 DEF Erases, TypeOK
<1> QED BY <1>5, EraseStep

LEMMA FailEraseIInv == ASSUME IInv, NEW e \in Eraser, FailErase(e) PROVE IInv'
<1>1. TypeOK /\ OnItsWay /\ backend \in {"memory", "postgres"}
  BY DocumentsAssumption DEF IInv, TypeOK
<1>2. /\ UNCHANGED <<given, collections, rows, ingest, found, settled>>
      /\ erase[e] \in {"scroll", "points", "rows", "row"}
      /\ erase[e] \in {"rows", "row"} => backend = "postgres"
      /\ erase' = [erase EXCEPT ![e] = "failed"]
      /\ points' = points \/ (points' = points \ found[e] /\ erase[e] = "points")
  BY DEF FailErase
<1>3. found[e] \subseteq Doc /\ \A d \in found[e] : NamesPoints(e, d)
  BY <1>1 DEF OnItsWay, TypeOK
<1>4. Erases(e, "failed")
  BY <1>1, <1>2, <1>3 DEF Erases, TypeOK
<1> QED BY <1>4, EraseStep

LEMMA StutterIInv == ASSUME IInv, UNCHANGED vars PROVE IInv'
<1>1. /\ UNCHANGED <<given, collections, ingest>>
      /\ points' = points /\ rows' = rows /\ erase' = erase /\ found' = found /\ settled' = settled
  BY DEF vars, stores
<1>2. /\ backend' = backend /\ attr' = attr /\ request' = request
      /\ collections' = collections /\ ingest' = ingest
  BY <1>1, EraseFrame
<1>3. /\ TypeOK /\ Placed /\ OnItsWay /\ FoundAll /\ RowsDropped /\ Taken
      /\ ChunksLeaveOnRequest /\ RowsLeaveOnRequest /\ OrphanChunks /\ DeletedStaysOut /\ SessionSwept
  BY DEF IInv
<1>4. TypeOK' /\ Placed' /\ OnItsWay' /\ FoundAll' /\ RowsDropped'
  BY <1>1, <1>2, <1>3 DEF TypeOK, Placed, OnItsWay, FoundAll, RowsDropped, NamesPoints
<1>5. Taken'
  BY <1>1, <1>2, <1>3 DEF Taken, Took, NamesPoints
<1>6. ChunksLeaveOnRequest' /\ RowsLeaveOnRequest' /\ OrphanChunks' /\ DeletedStaysOut' /\ SessionSwept'
  BY <1>1, <1>2, <1>3
     DEF ChunksLeaveOnRequest, RowsLeaveOnRequest, OrphanChunks, DeletedStaysOut, SessionSwept, NamesPoints
<1> QED BY <1>4, <1>5, <1>6 DEF IInv

LEMMA NextIInv == ASSUME IInv, [Next]_vars PROVE IInv'
  BY IngestIInv, StartEraseIInv, DropSessionRowsIInv, ScrollIInv, DeletePointsIInv, DeleteRowIInv, FailEraseIInv,
     StutterIInv DEF Next, Erase, Finished

LEMMA Inductive == Spec => []IInv
  BY InitIInv, NextIInv, PTL DEF Spec
-----------------------------------------------------------------------------
(* The theorems. *)

\* Every variable of ingestion and deletion keeps its type, for any number of
\* requests, collections and sessions (ingestion_service.py, document_service.py).
THEOREM TypeCorrect == Spec => []TypeOK
<1>1. IInv => TypeOK
  BY DEF IInv
<1> QED BY <1>1, Inductive, PTL

\* No request's filter, race or failure takes the chunks of a document that
\* nobody named (qdrant_client.py: delete_by_document_id, delete_by_session_id).
THEOREM ChunksKept == Spec => []ChunksLeaveOnRequest
<1>1. IInv => ChunksLeaveOnRequest
  BY DEF IInv
<1> QED BY <1>1, Inductive, PTL

\* Nor its row, and a session delete takes rows of ephemeral documents only
\* (document_service.py: delete_session_documents).
THEOREM RowsKept == Spec => []RowsLeaveOnRequest
<1>1. IInv => RowsLeaveOnRequest
  BY DEF IInv
<1> QED BY <1>1, Inductive, PTL

\* The ways to chunks without a row are the named ones: an ingestion that did
\* not finish, or a session delete that stopped or passed by (the two stores of
\* ingestion_service.py and document_service.py).
THEOREM OrphansExplained == Spec => []OrphanChunks
<1>1. IInv => OrphanChunks
  BY DEF IInv
<1> QED BY <1>1, Inductive, PTL

\* A row without chunks was left by a delete that took them and stopped, or for
\* one of the named reasons did not drop the row (document_service.py: delete,
\* delete_session_documents).
THEOREM OrphanRowsExplained == Spec => []OrphanRows
<1>1. IInv => OrphanRows
  BY DEF IInv, TypeOK, Taken, Took, OrphanRows
<1> QED BY <1>1, Inductive, PTL

\* A document whose delete was answered has no chunks, whatever else runs; and
\* no row when the repository is the dictionary (document_service.py: delete).
THEOREM DeletedIsOut == Spec => []DeletedStaysOut
<1>1. IInv => DeletedStaysOut
  BY DEF IInv
<1> QED BY <1>1, Inductive, PTL

\* A session delete that was answered leaves nothing, in its collection, of the
\* ephemeral documents that were there (delete_session_documents).
THEOREM SessionIsSwept == Spec => []SessionSwept
<1>1. IInv => SessionSwept
  BY DEF IInv
<1> QED BY <1>1, Inductive, PTL
=============================================================================
