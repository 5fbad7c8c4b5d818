-------------------------- MODULE DocumentRevisions --------------------------
(***************************************************************************)
(* Documents, their revisions and their chunks: the ingestion of an        *)
(* uploaded file (app/ingestion.py), and ensure_document, insert_chunks,   *)
(* invalidate_document, restore_document and delete_document of app/db.py. *)
(*                                                                         *)
(* An upload runs ensure_document and insert_chunks in one transaction, at *)
(* READ COMMITTED and without locking what it reads.  What keeps two of    *)
(* them apart is the unique key (document_id, revision_no), what keeps one *)
(* from a deletion are the foreign keys of document_revisions and of       *)
(* knowledge_chunks, which cascade.  A DELETE of chunks takes the rows     *)
(* that were committed when it began, and waits for the transactions that  *)
(* have deleted some of them; it does not see rows that were inserted      *)
(* since.  The DELETE of a cascade sees all that is committed by then.     *)
(*                                                                         *)
(* All documents here have one owner, department, creator and scope, the   *)
(* rest of the key by which the code looks a document up.  The chunks of   *)
(* one revision are one element, since they are written in one transaction *)
(* and deleted by one statement.  One server process handles one upload at *)
(* a time; several uploads at once are those of several processes.         *)
(***************************************************************************)
EXTENDS Integers

CONSTANTS
    Doc, Path, Content,
    Blank,                     \* the contents that give no chunk
    Upload, Deletion,          \* requests
    MaxRevision,               \* bound of the exploration
    NoDoc, NoPath, NoContent

Request == Upload \cup Deletion
Chunk == Doc \X (1..MaxRevision)

ASSUME RequestAssumption == Upload \cap Deletion = {}
ASSUME SentinelAssumption ==
    NoDoc \notin Doc /\ NoPath \notin Path /\ NoContent \notin Content
ASSUME BoundAssumption == MaxRevision \in Nat \ {0}

VARIABLES documents, revisions, chunks, req

vars == <<documents, revisions, chunks, req>>

Unused == [path |-> NoPath, content |-> NoContent, revision |-> 0, status |-> "unused"]
Idle == [pc |-> "idle", doc |-> NoDoc, path |-> NoPath, content |-> NoContent,
         revision |-> 0, sees |-> {}, cleared |-> {}]

DocumentRow ==
    [path : Path \cup {NoPath}, content : Content \cup {NoContent}, revision : 0..MaxRevision,
     status : {"unused", "active", "invalid", "deleted"}]

RequestState ==
    [pc : {"idle", "embedded", "inserting", "replacing", "clearing", "cleared"},
     doc : Doc \cup {NoDoc}, path : Path \cup {NoPath}, content : Content \cup {NoContent},
     revision : 0..MaxRevision, sees : SUBSET Chunk, cleared : SUBSET Chunk]

TypeOK ==
    /\ documents \in [Doc -> DocumentRow]
    /\ revisions \in [Doc -> SUBSET ((1..MaxRevision) \X Content)]
    /\ chunks \subseteq Chunk
    /\ req \in [Request -> RequestState]

Init ==
    /\ documents = [d \in Doc |-> Unused]
    /\ revisions = [d \in Doc |-> {}]
    /\ chunks = {}
    /\ req = [r \in Request |-> Idle]

Exists(d) == documents[d].status \in {"active", "invalid"}
BySource(p) == {d \in Doc : Exists(d) /\ documents[d].path = p}
ByContent(c) == {d \in Doc : Exists(d) /\ documents[d].content = c}
ChunksOf(d) == {c \in chunks : c[1] = d}
Written(d, n, content) == IF content \in Blank THEN {} ELSE {<<d, n>>}

\* A transaction commits or rolls back, and its row locks go.
End(r) == req' = [req EXCEPT ![r] = Idle]

(***************************************************************************)
(* An upload.                                                              *)
(***************************************************************************)

\* find_reusable_document finds nothing; the chunks are embedded, which takes
\* long and is no part of a transaction.
Embed(u, p, c) ==
    /\ req[u].pc = "idle"
    /\ ByContent(c) = {}
    /\ req' = [req EXCEPT ![u] = [Idle EXCEPT !.pc = "embedded", !.path = p, !.content = c]]
    /\ UNCHANGED <<documents, revisions, chunks>>

\* ensure_document: another upload has stored the content since.
EnsureReuse(u) ==
    /\ req[u].pc = "embedded"
    /\ \/ \E d \in BySource(req[u].path) : documents[d].content = req[u].content
       \/ BySource(req[u].path) = {} /\ ByContent(req[u].content) # {}
    /\ End(u)
    /\ UNCHANGED <<documents, revisions, chunks>>

EnsureNew(u) ==
    /\ req[u].pc = "embedded"
    /\ BySource(req[u].path) = {}
    /\ ByContent(req[u].content) = {}
    /\ req' = [req EXCEPT ![u] = [req[u] EXCEPT !.pc = "inserting"]]
    /\ UNCHANGED <<documents, revisions, chunks>>

\* The source is known with another content: the next revision follows the
\* one that is read here.
EnsureSource(u, d) ==
    /\ req[u].pc = "embedded"
    /\ d \in BySource(req[u].path)
    /\ documents[d].content # req[u].content
    /\ documents[d].revision < MaxRevision
    /\ req' = [req EXCEPT ![u] = [req[u] EXCEPT !.pc = "replacing", !.doc = d,
                                                !.revision = documents[d].revision + 1]]
    /\ UNCHANGED <<documents, revisions, chunks>>

\* Mutant: revisions are numbered from the column's default.
InsertDefault(u, d) ==
    LET c == req[u].content IN
    /\ req[u].pc = "inserting"
    /\ documents[d] = Unused
    /\ ByContent(c) = {}
    /\ documents' = [documents EXCEPT ![d] =
                        [path |-> req[u].path, content |-> c, revision |-> 0, status |-> "active"]]
    /\ revisions' = [revisions EXCEPT ![d] = {<<0, c>>}]
    /\ chunks' = chunks \cup Written(d, 0, c)
    /\ End(u)

\* INSERT INTO documents, its first revision and its chunks, under a new UUID.
Insert(u, d) ==
    LET c == req[u].content IN
    /\ req[u].pc = "inserting"
    /\ documents[d] = Unused
    /\ ByContent(c) = {}
    /\ documents' = [documents EXCEPT ![d] =
                        [path |-> req[u].path, content |-> c, revision |-> 1, status |-> "active"]]
    /\ revisions' = [revisions EXCEPT ![d] = {<<1, c>>}]
    /\ chunks' = chunks \cup Written(d, 1, c)
    /\ End(u)

\* DELETE FROM knowledge_chunks begins: these are the rows it is going to delete.
ClearBegins(u) ==
    /\ req[u].pc = "replacing"
    /\ req' = [req EXCEPT ![u] = [req[u] EXCEPT !.pc = "clearing", !.sees = ChunksOf(req[u].doc)]]
    /\ UNCHANGED <<documents, revisions, chunks>>

\* It ends when nobody else has them locked, and keeps those still there locked.
ClearEnds(r) ==
    /\ req[r].pc = "clearing"
    /\ \A q \in Request \ {r} : req[q].cleared \cap req[r].sees = {}
    /\ req' = [req EXCEPT ![r] = [req[r] EXCEPT !.pc = "cleared",
                                                !.sees = {}, !.cleared = req[r].sees \cap chunks]]
    /\ UNCHANGED <<documents, revisions, chunks>>

\* Mutant: no unique key on (document_id, revision_no).
ReplaceAnyNumber(u) ==
    LET d == req[u].doc
        c == req[u].content
        n == req[u].revision IN
    /\ req[u].pc = "cleared"
    /\ Exists(d)
    /\ ByContent(c) \subseteq {d}
    /\ documents' = [documents EXCEPT ![d] =
                        [documents[d] EXCEPT !.content = c, !.revision = n, !.status = "active"]]
    /\ revisions' = [revisions EXCEPT ![d] = revisions[d] \cup {<<n, c>>}]
    /\ chunks' = (chunks \ req[u].cleared) \cup Written(d, n, c)
    /\ End(u)

\* Mutant: the chunks of the revision before are not deleted.
ReplaceKeepsChunks(u) ==
    LET d == req[u].doc
        c == req[u].content
        n == req[u].revision IN
    /\ req[u].pc = "cleared"
    /\ Exists(d)
    /\ \A e \in revisions[d] : e[1] # n
    /\ ByContent(c) \subseteq {d}
    /\ documents' = [documents EXCEPT ![d] =
                        [documents[d] EXCEPT !.content = c, !.revision = n, !.status = "active"]]
    /\ revisions' = [revisions EXCEPT ![d] = revisions[d] \cup {<<n, c>>}]
    /\ chunks' = chunks \cup Written(d, n, c)
    /\ End(u)

\* The document is updated, the revision and the chunks are inserted, and the
\* transaction commits.  A document that is gone, a revision that is there and
\* a content that is stored elsewhere violate a key: then only Abort is left.
Replace(u) ==
    LET d == req[u].doc
        c == req[u].content
        n == req[u].revision IN
    /\ req[u].pc = "cleared"
    /\ Exists(d)
    /\ \A e \in revisions[d] : e[1] # n
    /\ ByContent(c) \subseteq {d}
    /\ documents' = [documents EXCEPT ![d] =
                        [documents[d] EXCEPT !.content = c, !.revision = n, !.status = "active"]]
    /\ revisions' = [revisions EXCEPT ![d] = revisions[d] \cup {<<n, c>>}]
    /\ chunks' = (chunks \ req[u].cleared) \cup Written(d, n, c)
    /\ End(u)

\* An embedding or a statement fails, or the connection is lost.
Abort(r) ==
    /\ req[r].pc # "idle"
    /\ End(r)
    /\ UNCHANGED <<documents, revisions, chunks>>

(***************************************************************************)
(* The other operations on a document.                                     *)
(***************************************************************************)

\* delete_document finds the document and begins to delete its chunks.
DeleteBegins(r, d) ==
    /\ req[r].pc = "idle"
    /\ Exists(d)
    /\ req' = [req EXCEPT ![r] = [Idle EXCEPT !.pc = "clearing", !.doc = d, !.sees = ChunksOf(d)]]
    /\ UNCHANGED <<documents, revisions, chunks>>

\* Mutant: the key of the chunks does not cascade.
DeleteAlone(r) ==
    LET d == req[r].doc IN
    /\ req[r].pc = "cleared"
    /\ documents' = [documents EXCEPT ![d] = [documents[d] EXCEPT !.status = "deleted"]]
    /\ revisions' = [revisions EXCEPT ![d] = {}]
    /\ chunks' = chunks \ req[r].cleared
    /\ End(r)

\* The row of documents goes, if it is still there, and by cascade its
\* revisions and the chunks written meanwhile, once nobody has them locked.
DeleteEnds(r) ==
    LET d == req[r].doc IN
    /\ req[r].pc = "cleared"
    /\ \A q \in Request \ {r} : req[q].cleared \cap ChunksOf(d) = {}
    /\ documents' = [documents EXCEPT ![d] = [documents[d] EXCEPT !.status = "deleted"]]
    /\ revisions' = [revisions EXCEPT ![d] = {}]
    /\ chunks' = chunks \ ChunksOf(d)
    /\ End(r)

Invalidate(d) ==
    /\ documents[d].status = "active"
    /\ documents' = [documents EXCEPT ![d] = [documents[d] EXCEPT !.status = "invalid"]]
    /\ UNCHANGED <<revisions, chunks, req>>

Restore(d) ==
    /\ documents[d].status = "invalid"
    /\ documents' = [documents EXCEPT ![d] = [documents[d] EXCEPT !.status = "active"]]
    /\ UNCHANGED <<revisions, chunks, req>>

(***************************************************************************)
(* The specification.                                                      *)
(***************************************************************************)

UploadStep(u) ==
    \/ \E p \in Path, c \in Content : Embed(u, p, c)
    \/ EnsureReuse(u)
    \/ EnsureNew(u)
    \/ \E d \in Doc : EnsureSource(u, d) \/ Insert(u, d)
    \/ ClearBegins(u)
    \/ ClearEnds(u)
    \/ Replace(u)
    \/ Abort(u)

DeletionStep(r) ==
    \/ \E d \in Doc : DeleteBegins(r, d)
    \/ ClearEnds(r)
    \/ DeleteEnds(r)
    \/ Abort(r)

Next ==
    \/ \E u \in Upload : UploadStep(u)
    \/ \E r \in Deletion : DeletionStep(r)
    \/ \E d \in Doc : Invalidate(d) \/ Restore(d)

Spec == Init /\ [][Next]_vars

(***************************************************************************)
(* Properties.                                                             *)
(***************************************************************************)

\* The chunks of a document are those of its current revision, all of them and
\* no other: what a search returns is never a mixture of two revisions, though
\* uploads overlap each other and deletions and nothing is locked when read.
ChunksAreCurrent ==
    \A d \in Doc : Exists(d) =>
        ChunksOf(d) = Written(d, documents[d].revision, documents[d].content)

\* The history of a document has every number up to the current one once, and
\* its last entry is what is stored: no upload is lost without a trace.
HistoryIsComplete ==
    \A d \in Doc : Exists(d) =>
        LET n == documents[d].revision IN
        /\ \A k \in 1..n : \E e \in revisions[d] : {f \in revisions[d] : f[1] = k} = {e}
        /\ \A e \in revisions[d] : e[1] \in 1..n
        /\ <<n, documents[d].content>> \in revisions[d]

\* "永久删除文档及其分块" (app/db.py:905): after a document has been deleted,
\* none of its chunks is left, though delete_document deletes them before it
\* locks the document and a re-upload can write new ones in between.
DeletedWithChunks ==
    \A d \in Doc : documents[d].status = "deleted" => ChunksOf(d) = {}
=============================================================================
