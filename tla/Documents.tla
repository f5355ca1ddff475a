------------------------------- MODULE Documents -------------------------------
(***************************************************************************)
(* A document lives in two stores that no transaction joins: its chunks    *)
(* are points in Qdrant, its metadata is a row of the document repository  *)
(* (PostgreSQL, or a dictionary in the process).  Ingestion writes points, *)
(* then the row; DELETE /documents removes points, then the row; deleting  *)
(* a chat session's documents removes rows, then points.  Every call to a  *)
(* store or to the embedding provider suspends the request, so each is an  *)
(* action of its own.                                                      *)
(*                                                                         *)
(* The chunks of one document are upserted by one call, and a scroll is    *)
(* taken to be one page (limit=100), so a set of documents stands for the  *)
(* set of points.                                                          *)
(***************************************************************************)
EXTENDS Naturals, FiniteSets

CONSTANTS Doc,         \* ingestion requests, and the document each one makes
          Eraser,      \* delete requests
          Collection,
          Session, NoSession,
          Backends,    \* DocumentRepository implementations to consider
          Faults       \* calls to the stores and the provider may fail

ASSUME DocumentsAssumption == /\ Backends \subseteq {"memory", "postgres"}
                              /\ Faults \in BOOLEAN
                              /\ NoSession \notin Session

\* The metadata chat uploads (build_chat_document_metadata) and
\* /documents/ingest attach: only chat uploads are ephemeral.
Attributes == {a \in [collection : Collection, session : Session \cup {NoSession},
                      ephemeral : BOOLEAN] : a.ephemeral => a.session # NoSession}

\* What a delete request names.
Request == [kind : {"document"}, doc : Doc, collection : Collection]
           \cup [kind : {"session"}, session : Session, collection : Collection]

VARIABLES backend,      \* the DocumentRepository that is wired in
          collections,  \* collections that exist in Qdrant
          points,       \* documents with points in their collection
          rows,         \* documents with a row in the repository
          attr,         \* what each ingestion request carries
          ingest,       \* where each ingestion is
          request,      \* what each delete request names
          erase,        \* where each delete is
          found,        \* documents whose points a delete's scroll returned
          settled       \* history: documents ingested before a delete began

stores == <<collections, points, rows>>
given == <<backend, attr, request>>
vars == <<given, stores, ingest, erase, found, settled>>

Init == /\ backend \in Backends
        /\ collections = {}
        /\ points = {}
        /\ rows = {}
        /\ attr \in [Doc -> Attributes]
        /\ ingest = [d \in Doc |-> "idle"]
        /\ request \in [Eraser -> Request]
        /\ erase = [e \in Eraser |-> "idle"]
        /\ found = [e \in Eraser |-> {}]
        /\ settled = [e \in Eraser |-> {}]

GoTo(d, from, to) == ingest[d] = from /\ ingest' = [ingest EXCEPT ![d] = to]
-----------------------------------------------------------------------------
(* Ingestion: IngestionService._index_text. *)

\* Extraction and splitting found text; the chunks go to the provider.
Embed(d) == /\ GoTo(d, "idle", "embedding")
            /\ UNCHANGED <<given, stores, erase, found, settled>>

\* The vectors are back; ensure_collection asks which collections exist.
ListCollections(d) ==
  /\ GoTo(d, "embedding", IF attr[d].collection \in collections THEN "upserting" ELSE "creating")
  /\ UNCHANGED <<given, stores, erase, found, settled>>

\* Creating a collection that exists is an error of Qdrant, raised to the caller.
CreateCollection(d) ==
  /\ GoTo(d, "creating", IF attr[d].collection \in collections THEN "failed" ELSE "upserting")
  /\ collections' = collections \cup {attr[d].collection}
  /\ UNCHANGED <<given, points, rows, erase, found, settled>>

UpsertPoints(d) == /\ GoTo(d, "upserting", "saving")
                   /\ points' = points \cup {d}
                   /\ UNCHANGED <<given, collections, rows, erase, found, settled>>

MutSaveRow(d) == /\ GoTo(d, "saving", "done")         \* mutant: the row is not committed
                 /\ UNCHANGED <<given, stores, erase, found, settled>>

SaveRow(d) == /\ GoTo(d, "saving", "done")
              /\ rows' = rows \cup {d}
              /\ UNCHANGED <<given, collections, points, erase, found, settled>>

\* The pending call raises; what it asked for may have been done all the same.
\* The in-memory repository does not fail.
FailIngest(d) ==
  /\ Faults
  /\ ingest[d] \in {"idle", "embedding", "creating", "upserting"}
                   \cup (IF backend = "postgres" THEN {"saving"} ELSE {})
  /\ ingest' = [ingest EXCEPT ![d] = "failed"]
  /\ \/ UNCHANGED stores
     \/ /\ ingest[d] = "creating"
        /\ collections' = collections \cup {attr[d].collection}
        /\ UNCHANGED <<points, rows>>
     \/ ingest[d] = "upserting" /\ points' = points \cup {d} /\ UNCHANGED <<collections, rows>>
     \/ ingest[d] = "saving" /\ rows' = rows \cup {d} /\ UNCHANGED <<collections, points>>
  /\ UNCHANGED <<given, erase, found, settled>>
-----------------------------------------------------------------------------
(* DocumentService.delete and delete_session_documents. *)

MutWithout(gone) == rows                \* mutant: the delete is lost for every backend

\* The dictionary drops the rows.  PostgresDocumentRepository calls
\* self._session.delete(record) without awaiting it: AsyncSession.delete is a
\* coroutine function, so nothing is deleted, and the commit is of nothing.
Without(gone) == IF backend = "memory" THEN rows \ gone ELSE rows

MutSessionRows(s) == {d \in rows : attr[d].session = s}   \* mutant: ephemeral_only is ignored

\* A session's rows, in whichever collection they are.
SessionRows(s) == {d \in rows : attr[d].session = s /\ attr[d].ephemeral}

MutMatchAll(q) == {d \in points : attr[d].collection = q.collection}   \* mutant: no filter
MutMatchIds(q) == {attr[d].session : d \in {x \in points : attr[x].collection = q.collection}}
                                        \* mutant: collects the wrong field

\* The filter of a scroll: a document id, or a session id.
Matching(q) == {d \in points : /\ attr[d].collection = q.collection
                               /\ IF q.kind = "document" THEN d = q.doc
                                  ELSE attr[d].session = q.session}

\* Clients learn a document's id from the reply of its ingestion.
StartErase(e) ==
  /\ erase[e] = "idle"
  /\ request[e].kind = "document" => ingest[request[e].doc] = "done"
  /\ erase' = [erase EXCEPT ![e] = IF request[e].kind = "document" THEN "scroll" ELSE "rows"]
  /\ settled' = [settled EXCEPT ![e] = {d \in Doc : ingest[d] = "done"}]
  /\ UNCHANGED <<given, stores, ingest, found>>

DropSessionRows(e) ==
  /\ erase[e] = "rows"
  /\ rows' = Without(SessionRows(request[e].session))
  /\ erase' = [erase EXCEPT ![e] = "scroll"]
  /\ UNCHANGED <<given, collections, points, ingest, found, settled>>

MutScrollFirst(e) ==                    \* mutant: the scroll stops after its first record
  /\ erase[e] = "scroll"
  /\ \E some \in SUBSET Matching(request[e]) :
        /\ Cardinality(some) = (IF Matching(request[e]) = {} THEN 0 ELSE 1)
        /\ found' = [found EXCEPT ![e] = some]
        /\ erase' = [erase EXCEPT ![e] = IF some = {} THEN "done" ELSE "points"]
  /\ UNCHANGED <<given, stores, ingest, settled>>

\* Nothing found: 404 for a document, a plain answer for a session.  A scroll
\* in a collection that does not exist raises.
Scroll(e) ==
  LET q == request[e]
  IN  /\ erase[e] = "scroll"
      /\ found' = [found EXCEPT ![e] = Matching(q)]
      /\ erase' = [erase EXCEPT ![e] =
                     IF q.collection \notin collections THEN "failed"
                     ELSE IF Matching(q) # {} THEN "points"
                     ELSE IF q.kind = "document" THEN "not_found" ELSE "done"]
      /\ UNCHANGED <<given, stores, ingest, settled>>

MutDeletePoints(e) ==                   \* mutant: an answer before the row is deleted
  /\ erase[e] = "points"
  /\ points' = points \ found[e]
  /\ erase' = [erase EXCEPT ![e] = "done"]
  /\ UNCHANGED <<given, collections, rows, ingest, found, settled>>

\* The points go; with the in-memory repository the row goes in the same step.
DeletePoints(e) ==
  LET q == request[e]
  IN  /\ erase[e] = "points"
      /\ points' = points \ found[e]
      /\ rows' = IF q.kind = "document" /\ backend = "memory" THEN Without({q.doc}) ELSE rows
      /\ erase' = [erase EXCEPT ![e] = IF q.kind = "document" /\ backend = "postgres"
                                       THEN "row" ELSE "done"]
      /\ UNCHANGED <<given, collections, ingest, found, settled>>

DeleteRow(e) == /\ erase[e] = "row"
                /\ rows' = Without({request[e].doc})
                /\ erase' = [erase EXCEPT ![e] = "done"]
                /\ UNCHANGED <<given, collections, points, ingest, found, settled>>

\* The pending call raises; Qdrant may have deleted the points all the same.
FailErase(e) ==
  /\ Faults
  /\ erase[e] \in {"scroll", "points"} \cup (IF backend = "postgres" THEN {"rows", "row"} ELSE {})
  /\ erase' = [erase EXCEPT ![e] = "failed"]
  /\ points' \in {points} \cup (IF erase[e] = "points" THEN {points \ found[e]} ELSE {})
  /\ UNCHANGED <<given, collections, rows, ingest, found, settled>>
-----------------------------------------------------------------------------
Ingest(d) == Embed(d) \/ ListCollections(d) \/ CreateCollection(d) \/ UpsertPoints(d) \/ SaveRow(d)
Erase(e) == DropSessionRows(e) \/ Scroll(e) \/ DeletePoints(e) \/ DeleteRow(e)

\* Every request was answered; nobody can ask for a document that failed.
Finished == /\ \A d \in Doc : ingest[d] \in {"done", "failed"}
            /\ \A e \in Eraser : \/ erase[e] \in {"done", "not_found", "failed"}
                                 \/ erase[e] = "idle" /\ request[e].kind = "document" /\ ingest[request[e].doc] = "failed"
            /\ UNCHANGED vars

Next == \/ \E d \in Doc : Ingest(d) \/ FailIngest(d)
        \/ \E e \in Eraser : StartErase(e) \/ Erase(e) \/ FailErase(e)
        \/ Finished

Spec == Init /\ [][Next]_vars

-----------------------------------------------------------------------------
TypeOK ==
  /\ backend \in Backends
  /\ collections \subseteq Collection
  /\ points \subseteq Doc
  /\ rows \subseteq Doc
  /\ attr \in [Doc -> Attributes]
  /\ ingest \in [Doc -> {"idle", "embedding", "creating", "upserting", "saving", "done", "failed"}]
  /\ request \in [Eraser -> Request]
  /\ erase \in [Eraser -> {"idle", "rows", "scroll", "points", "row", "done", "not_found", "failed"}]
  /\ found \in [Eraser -> SUBSET Doc]
  /\ settled \in [Eraser -> SUBSET Doc]

\* Some delete request names document d: itself, or its session in its collection.
NamesPoints(e, d) == /\ request[e].collection = attr[d].collection
                     /\ IF request[e].kind = "document" THEN request[e].doc = d
                        ELSE request[e].session = attr[d].session

\* A document whose ingestion was answered keeps its chunks until a request
\* that names it, or its session, deletes them: no other request's filter,
\* race or failure takes them away.
ChunksLeaveOnRequest ==
  \A d \in Doc : ingest[d] = "done" /\ d \notin points =>
     \E e \in Eraser : erase[e] # "idle" /\ NamesPoints(e, d)

\* The same for the row: a permanent document (no ephemeral flag) keeps its row
\* whatever sessions are deleted (tests/test_session_documents.py).
RowsLeaveOnRequest ==
  \A d \in Doc : ingest[d] = "done" /\ d \notin rows =>
     \E e \in Eraser : /\ erase[e] # "idle"
                       /\ IF request[e].kind = "document" THEN request[e].doc = d
                          ELSE attr[d].ephemeral /\ request[e].session = attr[d].session

\* Chunks without a row come from an ingestion that did not finish, or from a
\* session delete that dropped the row of an ephemeral document, which only the
\* dictionary does, and did not (yet) reach the chunks.
OrphanChunks ==
  \A d \in points \ rows :
     \/ ingest[d] \in {"saving", "failed"}
     \/ \E e \in Eraser : /\ request[e].kind = "session"
                          /\ request[e].session = attr[d].session
                          /\ attr[d].ephemeral /\ backend = "memory"
                          /\ erase[e] \notin {"idle", "rows"}
                          /\ \/ erase[e] \in {"scroll", "points", "failed"}
                             \/ request[e].collection # attr[d].collection
                             \/ d \notin settled[e]

\* A row without chunks was left by a delete that named the document and took its
\* chunks: one that stopped before the row or is about to get there, a session
\* delete for a permanent document or one that passed an upload, and with
\* PostgreSQL every delete.  A retry answers 404 and leaves the row to stay
\* (document_service.py:53).
OrphanRows ==
  \A d \in rows \ points : \E e \in Eraser :
     /\ NamesPoints(e, d)
     /\ \/ request[e].kind = "document" /\ erase[e] \in {"row", "failed"}
        \/ request[e].kind = "document" /\ erase[e] = "done" /\ backend = "postgres"
        \/ /\ request[e].kind = "session" /\ erase[e] \in {"done", "failed"}
           /\ ~attr[d].ephemeral \/ backend = "postgres" \/ d \notin settled[e]

\* "Delete a document and all its vector chunks." (document_service.py:49):
\* after a 200 the document is in neither store, and no ingestion or other
\* delete brings it back.
DeletedIsGone ==
  \A e \in Eraser : request[e].kind = "document" /\ erase[e] = "done" =>
     request[e].doc \notin points \cup rows

\* What the code keeps of it: the chunks never come back, and neither does the
\* row when the repository is the dictionary.
DeletedStaysOut ==
  \A e \in Eraser : request[e].kind = "document" /\ erase[e] = "done" =>
     /\ request[e].doc \notin points
     /\ backend = "memory" => request[e].doc \notin rows

\* A session delete that succeeded left no chunks, in the collection it names,
\* of the ephemeral documents that were there when it began, nor, with the
\* dictionary, their rows.
SessionSwept ==
  \A e \in Eraser : request[e].kind = "session" /\ erase[e] = "done" =>
     \A d \in settled[e] : attr[d].session = request[e].session /\ attr[d].ephemeral =>
        /\ backend = "memory" => d \notin rows
        /\ attr[d].collection = request[e].collection => d \notin points
=============================================================================
