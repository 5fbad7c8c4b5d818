----------------------- MODULE DocumentRevisionsProofs -----------------------
(***************************************************************************)
(* Proofs about DocumentRevisions.  An upload that read revision n - 1 may *)
(* be too late in many ways; if it is not, that is, if n is still the next *)
(* number when it commits, then it has deleted every chunk there is.       *)
(***************************************************************************)
EXTENDS DocumentRevisions, TLAPS

(***************************************************************************)
(* Types.                                                                  *)
(***************************************************************************)

Targeting == {"replacing", "clearing", "cleared"}

\* What a request in the state q knows: an upload has its file, and whoever
\* replaces or deletes has a document that was stored once, of which alone it
\* deletes chunks.
Knows(r, q) ==
    /\ r \in Upload /\ q.pc # "idle" => q.path \in Path /\ q.content \in Content
    /\ r \in Upload /\ q.pc \in Targeting => q.revision # 0
    /\ q.pc \in Targeting => q.doc \in Doc /\ documents[q.doc].status # "unused"
    /\ q.pc \notin Targeting => q.sees = {} /\ q.cleared = {}
    /\ \A c \in q.sees \cup q.cleared : c[1] = q.doc

RequestsKnow == \A r \in Request : Knows(r, req[r])

TypeInv == TypeOK /\ RequestsKnow

LEMMA IdleType == Idle \in RequestState
BY BoundAssumption DEF Idle, RequestState

LEMMA WrittenType ==
    ASSUME NEW d \in Doc, NEW n \in 1..MaxRevision, NEW x
    PROVE  Written(d, n, x) \subseteq Chunk /\ \A c \in Written(d, n, x) : c[1] = d
BY DEF Written, Chunk

\* A step of one request that leaves the tables alone.
LEMMA RequestTypes ==
    ASSUME TypeInv, NEW r \in Request, NEW next \in RequestState, Knows(r, next),
           req' = [req EXCEPT ![r] = next], UNCHANGED <<documents, revisions, chunks>>
    PROVE  TypeInv'
<1>1. TypeOK'
  BY DEF TypeInv, TypeOK
<1>2. \A q \in Request : req'[q] = IF q = r THEN next ELSE req[q]
  BY DEF TypeInv, TypeOK
<1>3. RequestsKnow'
  BY <1>2 DEF TypeInv, RequestsKnow, Knows
<1>4. QED
  BY <1>1, <1>3 DEF TypeInv

\* A request ends, and no document becomes unused.
LEMMA EndTypes ==
    ASSUME TypeInv, NEW r \in Request, End(r),
           \A d \in Doc : documents[d].status # "unused" => documents'[d].status # "unused"
    PROVE  /\ req' \in [Request -> RequestState] /\ RequestsKnow'
           /\ \A q \in Request : req'[q] = IF q = r THEN Idle ELSE req[q]
<1>1. req' \in [Request -> RequestState]
  BY IdleType DEF TypeInv, TypeOK, End
<1>2. \A q \in Request : req'[q] = IF q = r THEN Idle ELSE req[q]
  BY DEF TypeInv, TypeOK, End
<1>3. RequestsKnow'
  BY <1>2 DEF TypeInv, RequestsKnow, Knows, Targeting, Idle
<1>4. QED
  BY <1>1, <1>2, <1>3

LEMMA TypeInductive == TypeInv /\ [Next]_vars => TypeInv'
<1> SUFFICES ASSUME TypeInv, [Next]_vars PROVE TypeInv'
  OBVIOUS
<1>t. TypeOK /\ RequestsKnow
  BY DEF TypeInv
<1>b. Upload \subseteq Request /\ Deletion \subseteq Request
  BY DEF Request
<1>a. \A r \in Request : req[r] \in RequestState /\ Knows(r, req[r])
  BY <1>t DEF TypeOK, RequestsKnow
<1>1. ASSUME NEW u \in Upload, NEW p \in Path, NEW c \in Content, Embed(u, p, c) PROVE TypeInv'
  <2> DEFINE next == [Idle EXCEPT !.pc = "embedded", !.path = p, !.content = c]
  <2>0. /\ Idle \in RequestState /\ next \in RequestState /\ next.pc = "embedded"
        /\ next.path = p /\ next.content = c /\ next.sees = {} /\ next.cleared = {}
    BY IdleType DEF Idle, RequestState
  <2>1. next \in RequestState /\ Knows(u, next)
    BY <2>0 DEF Knows, Targeting
  <2>2. req' = [req EXCEPT ![u] = next] /\ UNCHANGED <<documents, revisions, chunks>>
    BY <1>1 DEF Embed
  <2> HIDE DEF next
  <2>3. QED
    BY <1>b, RequestTypes, <2>1, <2>2
<1>2. ASSUME NEW r \in Request, End(r), UNCHANGED <<documents, revisions, chunks>> PROVE TypeInv'
  BY <1>t, <1>2, EndTypes DEF TypeInv, TypeOK
<1>3. ASSUME NEW u \in Upload, EnsureNew(u) PROVE TypeInv'
  <2> DEFINE next == [req[u] EXCEPT !.pc = "inserting"]
  <2>1. req' = [req EXCEPT ![u] = next] /\ UNCHANGED <<documents, revisions, chunks>>
        /\ req[u].pc = "embedded"
    BY <1>3 DEF EnsureNew
  <2>2. next \in RequestState /\ Knows(u, next)
    BY <1>a, <1>b, <2>1 DEF RequestState, Knows, Targeting
  <2> HIDE DEF next
  <2>3. QED
    BY <1>b, RequestTypes, <2>1, <2>2
<1>4. ASSUME NEW u \in Upload, NEW d \in Doc, EnsureSource(u, d) PROVE TypeInv'
  <2> DEFINE n == documents[d].revision + 1
             next == [req[u] EXCEPT !.pc = "replacing", !.doc = d, !.revision = n]
  <2>1. documents[d].status # "unused" /\ n \in 1..MaxRevision /\ req[u].pc = "embedded"
    BY <1>4, <1>t, BoundAssumption DEF EnsureSource, BySource, Exists, TypeOK, DocumentRow
  <2>2. req' = [req EXCEPT ![u] = next] /\ UNCHANGED <<documents, revisions, chunks>>
    BY <1>4 DEF EnsureSource
  <2> HIDE DEF n
  <2>5. /\ next \in RequestState /\ next.pc = "replacing" /\ next.doc = d /\ next.revision = n
        /\ next.path = req[u].path /\ next.content = req[u].content
        /\ next.sees = req[u].sees /\ next.cleared = req[u].cleared
    <3>1. n \in 0..MaxRevision /\ req[u] \in RequestState
      BY <1>a, <1>b, <2>1, BoundAssumption
    <3>2. QED
      BY <3>1 DEF RequestState
  <2>6. /\ req[u].path \in Path /\ req[u].content \in Content
        /\ req[u].sees = {} /\ req[u].cleared = {} /\ n # 0
    BY <1>a, <1>b, <2>1 DEF Knows, Targeting
  <2>3. next \in RequestState /\ Knows(u, next)
    BY <2>1, <2>5, <2>6 DEF Knows, Targeting
  <2> HIDE DEF next
  <2>4. QED
    BY <1>b, RequestTypes, <2>2, <2>3
<1>5. ASSUME NEW u \in Upload, NEW d \in Doc, Insert(u, d) PROVE TypeInv'
  <2> DEFINE c == req[u].content
             row == [path |-> req[u].path, content |-> c, revision |-> 1, status |-> "active"]
  <2>1. c \in Content /\ req[u].path \in Path /\ 1 \in 1..MaxRevision /\ u \in Request
    BY <1>5, <1>a, <1>b, BoundAssumption DEF Insert, Knows
  <2>2. row \in DocumentRow
    BY <2>1 DEF DocumentRow
  <2>3. /\ documents' = [documents EXCEPT ![d] = row]
        /\ revisions' = [revisions EXCEPT ![d] = {<<1, c>>}]
        /\ chunks' = chunks \cup Written(d, 1, c) /\ End(u)
    BY <1>5 DEF Insert
  <2>4. row.status # "unused"
    OBVIOUS
  <2> HIDE DEF row
  <2>5. \A e \in Doc : documents[e].status # "unused" => documents'[e].status # "unused"
    BY <1>t, <2>3, <2>4 DEF TypeOK
  <2>6. chunks' \subseteq Chunk
    BY <1>t, <2>1, <2>3, WrittenType DEF TypeOK
  <2>7. documents' \in [Doc -> DocumentRow]
        /\ revisions' \in [Doc -> SUBSET ((1..MaxRevision) \X Content)]
    BY <1>t, <2>1, <2>2, <2>3 DEF TypeOK
  <2>8. QED
    BY <2>1, <2>3, <2>5, <2>6, <2>7, EndTypes DEF TypeInv, TypeOK
<1>6. ASSUME NEW u \in Upload, ClearBegins(u) PROVE TypeInv'
  <2> DEFINE d == req[u].doc
             next == [req[u] EXCEPT !.pc = "clearing", !.sees = ChunksOf(d)]
  <2>1. ChunksOf(d) \in SUBSET Chunk /\ \A c \in ChunksOf(d) : c[1] = d
    BY <1>t DEF TypeOK, ChunksOf
  <2>2. req' = [req EXCEPT ![u] = next] /\ UNCHANGED <<documents, revisions, chunks>>
        /\ req[u].pc = "replacing"
    BY <1>6 DEF ClearBegins
  <2>3. next \in RequestState /\ Knows(u, next)
    BY <1>a, <1>b, <2>1, <2>2 DEF RequestState, Knows, Targeting
  <2> HIDE DEF next
  <2>4. QED
    BY <1>b, RequestTypes, <2>2, <2>3
<1>7. ASSUME NEW r \in Request, ClearEnds(r) PROVE TypeInv'
  <2> DEFINE x == req[r].sees \cap chunks
             next == [req[r] EXCEPT !.pc = "cleared", !.sees = {}, !.cleared = x]
  <2>1. req' = [req EXCEPT ![r] = next] /\ UNCHANGED <<documents, revisions, chunks>>
        /\ req[r].pc = "clearing"
    BY <1>7 DEF ClearEnds
  <2>2. x \in SUBSET Chunk /\ \A c \in x : c[1] = req[r].doc
    BY <1>t, <1>a DEF TypeOK, Knows
  <2> HIDE DEF x
  <2>3. next \in RequestState /\ Knows(r, next)
    BY <1>a, <2>1, <2>2 DEF RequestState, Knows, Targeting
  <2> HIDE DEF next
  <2>4. QED
    BY RequestTypes, <2>1, <2>3
<1>8. ASSUME NEW u \in Upload, Replace(u) PROVE TypeInv'
  <2> DEFINE d == req[u].doc
             c == req[u].content
             n == req[u].revision
             row == [documents[d] EXCEPT !.content = c, !.revision = n, !.status = "active"]
  <2>1. /\ u \in Request /\ d \in Doc /\ c \in Content /\ req[u].pc = "cleared"
        /\ n \in 1..MaxRevision
    BY <1>8, <1>a, <1>b, BoundAssumption DEF Replace, Knows, Targeting, RequestState
  <2>2. /\ documents' = [documents EXCEPT ![d] = row]
        /\ revisions' = [revisions EXCEPT ![d] = revisions[d] \cup {<<n, c>>}]
        /\ chunks' = (chunks \ req[u].cleared) \cup Written(d, n, c) /\ End(u)
    BY <1>8 DEF Replace
  <2>3. row \in DocumentRow /\ row.status # "unused"
    <3>1. documents[d] \in DocumentRow /\ n \in 0..MaxRevision
      BY <1>t, <2>1 DEF TypeOK
    <3> HIDE DEF d, n, c
    <3>2. QED
      BY <2>1, <3>1 DEF DocumentRow
  <2> HIDE DEF row
  <2>4. \A e \in Doc : documents[e].status # "unused" => documents'[e].status # "unused"
    BY <1>t, <2>2, <2>3 DEF TypeOK
  <2>5. chunks' \subseteq Chunk
    BY <1>t, <2>1, <2>2, WrittenType DEF TypeOK
  <2>6. documents' \in [Doc -> DocumentRow]
    BY <1>t, <2>1, <2>2, <2>3 DEF TypeOK
  <2>7. revisions' \in [Doc -> SUBSET ((1..MaxRevision) \X Content)]
    BY <1>t, <2>1, <2>2 DEF TypeOK
  <2>8. QED
    BY <2>1, <2>2, <2>4, <2>5, <2>6, <2>7, EndTypes DEF TypeInv, TypeOK
<1>9. ASSUME NEW r \in Request, NEW d \in Doc, DeleteBegins(r, d), r \notin Upload PROVE TypeInv'
  <2> DEFINE next == [Idle EXCEPT !.pc = "clearing", !.doc = d, !.sees = ChunksOf(d)]
  <2>1. ChunksOf(d) \in SUBSET Chunk /\ \A c \in ChunksOf(d) : c[1] = d
    BY <1>t DEF TypeOK, ChunksOf
  <2>2. /\ req' = [req EXCEPT ![r] = next] /\ UNCHANGED <<documents, revisions, chunks>>
        /\ documents[d].status # "unused"
    BY <1>9 DEF DeleteBegins, Exists
  <2>0. /\ next \in RequestState /\ next.pc = "clearing" /\ next.doc = d
        /\ next.sees = ChunksOf(d) /\ next.cleared = {}
    <3>1. Idle \in RequestState
      BY IdleType
    <3>2. QED
      BY <2>1, <3>1 DEF RequestState, Idle
  <2>3. next \in RequestState /\ Knows(r, next)
    BY <1>9, <2>0, <2>1, <2>2 DEF Knows, Targeting
  <2> HIDE DEF next
  <2>4. QED
    BY RequestTypes, <2>2, <2>3
<1>10. ASSUME NEW r \in Request, DeleteEnds(r) PROVE TypeInv'
  <2> DEFINE d == req[r].doc
             row == [documents[d] EXCEPT !.status = "deleted"]
  <2>1. /\ d \in Doc /\ chunks' \subseteq chunks /\ End(r)
        /\ documents' = [documents EXCEPT ![d] = row] /\ revisions' = [revisions EXCEPT ![d] = {}]
    BY <1>10, <1>a DEF DeleteEnds, Knows, Targeting
  <2>2. row \in DocumentRow /\ row.status # "unused"
    BY <1>t, <2>1 DEF TypeOK, DocumentRow
  <2> HIDE DEF row
  <2>3. \A e \in Doc : documents[e].status # "unused" => documents'[e].status # "unused"
    BY <1>t, <2>1, <2>2 DEF TypeOK
  <2>4. QED
    BY <1>t, <2>1, <2>2, <2>3, EndTypes DEF TypeInv, TypeOK
<1>11. ASSUME NEW d \in Doc, Invalidate(d) \/ Restore(d) PROVE TypeInv'
  <2>1. PICK st \in {"active", "invalid"} :
           documents' = [documents EXCEPT ![d] = [documents[d] EXCEPT !.status = st]]
    BY <1>11 DEF Invalidate, Restore
  <2> DEFINE row == [documents[d] EXCEPT !.status = st]
  <2>2. row \in DocumentRow /\ row.status # "unused"
    BY <1>t DEF TypeOK, DocumentRow
  <2>3. documents' = [documents EXCEPT ![d] = row] /\ UNCHANGED <<revisions, chunks, req>>
    BY <1>11, <2>1 DEF Invalidate, Restore
  <2> HIDE DEF row
  <2>4. \A e \in Doc : documents[e].status # "unused" => documents'[e].status # "unused"
    BY <1>t, <2>2, <2>3 DEF TypeOK
  <2>5. QED
    BY <1>t, <2>2, <2>3, <2>4 DEF TypeInv, TypeOK, RequestsKnow, Knows
<1>12. CASE UNCHANGED vars
  BY <1>12, <1>t DEF vars, TypeInv, TypeOK, RequestsKnow, Knows
<1>13. ASSUME NEW u \in Upload, UploadStep(u) PROVE TypeInv'
  BY <1>b, <1>1, <1>2, <1>3, <1>4, <1>5, <1>6, <1>7, <1>8, <1>13
     DEF UploadStep, EnsureReuse, Abort
<1>14. ASSUME NEW r \in Deletion, DeletionStep(r) PROVE TypeInv'
  BY <1>b, <1>2, <1>7, <1>9, <1>10, <1>14, RequestAssumption DEF DeletionStep, Abort
<1>15. QED
  BY <1>11, <1>12, <1>13, <1>14 DEF Next

\* The types, and what a request in progress knows, are kept by every step.
LEMMA TypeInvariant == Spec => []TypeInv
<1>1. Init => TypeInv
  BY IdleType, BoundAssumption DEF Init, TypeInv, TypeOK, RequestsKnow, Knows, Targeting, Idle,
     Unused, DocumentRow
<1>2. QED
  BY <1>1, TypeInductive, PTL DEF Spec

\* Every reachable state has its types, for any number of documents, uploads
\* and deletions.
THEOREM TypeCorrect == Spec => []TypeOK
<1>1. TypeInv => TypeOK
  BY DEF TypeInv
<1>2. QED
  BY <1>1, TypeInvariant, PTL

(***************************************************************************)
(* Revisions and chunks.                                                   *)
(***************************************************************************)

\* A history S has the numbers up to n once, and ends with c.
History(S, n, c) ==
    /\ \A k \in 1..n : \E e \in S : {f \in S : f[1] = k} = {e}
    /\ \A e \in S : e[1] \in 1..n
    /\ <<n, c>> \in S

Numbered(d) == History(revisions[d], documents[d].revision, documents[d].content)

\* What holds of one document; one that is not stored has no chunks.
Coherent(d) ==
    /\ ~Exists(d) => ChunksOf(d) = {}
    /\ Exists(d) =>
          /\ ChunksOf(d) = Written(d, documents[d].revision, documents[d].content)
          /\ Numbered(d)

\* The number of an upload in the state q was the next one when the upload read
\* it.  While it still is, the upload sees, and then has deleted, all chunks.
InTime(q) ==
    q.pc \in Targeting /\ Exists(q.doc) =>
        /\ q.revision <= documents[q.doc].revision + 1
        /\ q.revision = documents[q.doc].revision + 1 =>
              /\ q.pc = "clearing" => ChunksOf(q.doc) \subseteq q.sees
              /\ q.pc = "cleared" => ChunksOf(q.doc) \subseteq q.cleared

DocumentInv ==
    /\ \A d \in Doc : Coherent(d)
    /\ \A u \in Upload : InTime(req[u])

\* A document keeps its rows, or its status alone changes.
LEMMA CoherentFrame ==
    ASSUME NEW d \in Doc, Coherent(d),
           documents'[d].content = documents[d].content,
           documents'[d].revision = documents[d].revision,
           Exists(d)' <=> Exists(d),
           revisions'[d] = revisions[d], ChunksOf(d)' = ChunksOf(d)
    PROVE  Coherent(d)'
<1>1. Numbered(d) => Numbered(d)'
  BY DEF Numbered
<1>2. QED
  BY <1>1 DEF Coherent, Written

\* An upload stays in time when its document has a higher number, or no chunk
\* it did not have.
LEMMA InTimeFrame ==
    ASSUME TypeInv, TypeInv', NEW u \in Upload, InTime(req[u]), req'[u] = req[u],
           NEW d, d = req[u].doc,
           req[u].pc \in Targeting /\ Exists(d)' =>
               /\ Exists(d)
               /\ documents[d].revision <= documents'[d].revision
               /\ documents'[d].revision = documents[d].revision => ChunksOf(d)' \subseteq ChunksOf(d)
    PROVE  InTime(req[u])'
<1>1. u \in Request /\ (req[u].pc \in Targeting => d \in Doc)
  BY DEF TypeInv, RequestsKnow, Knows, Request
<1>2. req[u].revision \in Int
  BY <1>1, BoundAssumption DEF TypeInv, TypeOK, RequestState
<1>3. SUFFICES ASSUME req[u].pc \in Targeting, Exists(d)'
               PROVE  /\ req[u].revision <= documents'[d].revision + 1
                      /\ req[u].revision = documents'[d].revision + 1 =>
                            /\ req[u].pc = "clearing" => ChunksOf(d)' \subseteq req[u].sees
                            /\ req[u].pc = "cleared" => ChunksOf(d)' \subseteq req[u].cleared
  BY DEF InTime
<1>4. documents[d].revision \in Int /\ documents'[d].revision \in Int
  BY <1>1, <1>3, BoundAssumption DEF TypeInv, TypeOK, DocumentRow
<1>5. /\ req[u].revision <= documents[d].revision + 1
      /\ documents[d].revision <= documents'[d].revision
  BY <1>3 DEF InTime
<1>6. ASSUME req[u].revision = documents'[d].revision + 1
      PROVE  /\ req[u].revision = documents[d].revision + 1
             /\ documents'[d].revision = documents[d].revision
  BY <1>2, <1>4, <1>5, <1>6
<1>7. req[u].revision <= documents'[d].revision + 1
  BY <1>2, <1>4, <1>5
<1>8. QED
  BY <1>3, <1>6, <1>7 DEF InTime

\* A step of one request that leaves the tables alone.
LEMMA RequestInv ==
    ASSUME TypeInv, DocumentInv, NEW r \in Request, NEW next, r \in Upload => InTime(next),
           req' = [req EXCEPT ![r] = next], UNCHANGED <<documents, revisions, chunks>>
    PROVE  DocumentInv'
<1>1. \A q \in Request : req'[q] = IF q = r THEN next ELSE req[q]
  BY DEF TypeInv, TypeOK
<1>2. \A d \in Doc : Coherent(d)'
  BY DEF DocumentInv, Coherent, Exists, ChunksOf, Written, Numbered
<1>3. ASSUME NEW u \in Upload PROVE InTime(req[u])'
  <2>1. u \in Request /\ InTime(req'[u])
    BY <1>1 DEF Request, DocumentInv
  <2>2. QED
    BY <2>1 DEF InTime, Exists, ChunksOf
<1>4. QED
  BY <1>2, <1>3 DEF DocumentInv

\* A step on one document, which ends at most one request.
LEMMA TableInv ==
    ASSUME TypeInv, TypeInv', DocumentInv, NEW d \in Doc, Coherent(d)',
           \A q \in Request : req'[q] = req[q] \/ req'[q].pc = "idle",
           \A e \in Doc \ {d} : /\ documents'[e] = documents[e] /\ revisions'[e] = revisions[e]
                                /\ ChunksOf(e)' = ChunksOf(e),
           Exists(d)' =>
               \/ documents[d].status = "unused"
               \/ /\ Exists(d)
                  /\ documents[d].revision <= documents'[d].revision
                  /\ documents'[d].revision = documents[d].revision => ChunksOf(d)' \subseteq ChunksOf(d)
    PROVE  DocumentInv'
<1>1. ASSUME NEW e \in Doc PROVE Coherent(e)'
  <2>1. CASE e = d
    BY <2>1
  <2>2. CASE e # d
    <3>1. /\ documents'[e] = documents[e] /\ revisions'[e] = revisions[e]
          /\ ChunksOf(e)' = ChunksOf(e) /\ Coherent(e)
      BY <2>2 DEF DocumentInv
    <3>2. QED
      BY <3>1, CoherentFrame DEF Exists
  <2>3. QED
    BY <2>1, <2>2
<1>2. ASSUME NEW u \in Upload PROVE InTime(req[u])'
  <2>0. u \in Request
    BY DEF Request
  <2>1. CASE req'[u].pc = "idle"
    BY <2>1 DEF InTime, Targeting
  <2>2. CASE req'[u] = req[u]
    <3>f. PICK f : f = req[u].doc
      OBVIOUS
    <3>1. InTime(req[u])
      BY DEF DocumentInv
    <3>2. req[u].pc \in Targeting => f \in Doc /\ documents[f].status # "unused"
      BY <2>0, <3>f DEF TypeInv, RequestsKnow, Knows
    <3>3. ASSUME req[u].pc \in Targeting, Exists(f)'
          PROVE  /\ Exists(f)
                 /\ documents[f].revision <= documents'[f].revision
                 /\ documents'[f].revision = documents[f].revision => ChunksOf(f)' \subseteq ChunksOf(f)
      <4>1. CASE f = d
        BY <3>2, <3>3, <4>1
      <4>2. CASE f # d
        <5>1. f \in Doc /\ documents'[f] = documents[f] /\ ChunksOf(f)' = ChunksOf(f)
          BY <3>2, <3>3, <4>2
        <5>2. documents[f].revision \in Int
          BY <5>1, BoundAssumption DEF TypeInv, TypeOK, DocumentRow
        <5>3. QED
          BY <3>3, <5>1, <5>2 DEF Exists
      <4>3. QED
        BY <4>1, <4>2
    <3>4. QED
      BY <2>2, <3>f, <3>1, <3>3, InTimeFrame
  <2>3. QED
    BY <2>0, <2>1, <2>2
<1>3. QED
  BY <1>1, <1>2 DEF DocumentInv

LEMMA InsertInv ==
    ASSUME TypeInv, TypeInv', DocumentInv, NEW u \in Upload, NEW d \in Doc, Insert(u, d)
    PROVE  DocumentInv'
<1>c. PICK c : c = req[u].content
  OBVIOUS
<1>r. PICK row : row = [path |-> req[u].path, content |-> c, revision |-> 1, status |-> "active"]
  OBVIOUS
<1>1. /\ documents[d].status = "unused" /\ documents' = [documents EXCEPT ![d] = row]
      /\ revisions' = [revisions EXCEPT ![d] = {<<1, c>>}]
      /\ chunks' = chunks \cup Written(d, 1, c) /\ End(u) /\ u \in Request
  BY <1>c, <1>r DEF Insert, Unused, Request
<1>2. \A q \in Request : req'[q] = req[q] \/ req'[q].pc = "idle"
  BY <1>1 DEF TypeInv, TypeOK, End, Idle
<1>3. /\ \A e \in Doc \ {d} : documents'[e] = documents[e] /\ revisions'[e] = revisions[e]
      /\ documents'[d] = row /\ revisions'[d] = {<<1, c>>}
  BY <1>1 DEF TypeInv, TypeOK
<1>4. \A x \in Written(d, 1, c) : x[1] = d
  BY DEF Written
<1>5. ChunksOf(d) = {}
  BY <1>1 DEF DocumentInv, Coherent, Exists
<1>6. ChunksOf(d)' = Written(d, 1, c) /\ \A e \in Doc \ {d} : ChunksOf(e)' = ChunksOf(e)
  BY <1>1, <1>4, <1>5 DEF ChunksOf
<1>7. /\ documents'[d].status = "active" /\ documents'[d].revision = 1
      /\ documents'[d].content = c
  BY <1>r, <1>3
<1>8. Numbered(d)'
  <2>1. 1..1 = {1}
    OBVIOUS
  <2>2. QED
    BY <1>3, <1>7, <2>1 DEF Numbered, History
<1>9. Coherent(d)'
  BY <1>6, <1>7, <1>8 DEF Coherent, Written, Exists
<1>10. QED
  BY <1>1, <1>2, <1>3, <1>6, <1>9, TableInv

\* A fresh number that is at most the next one is the next one.
LEMMA ReplaceInTime ==
    ASSUME TypeInv, DocumentInv, NEW u \in Upload, Replace(u)
    PROVE  LET d == req[u].doc IN
           /\ d \in Doc /\ Exists(d) /\ documents[d].revision \in Nat
           /\ req[u].revision = documents[d].revision + 1
           /\ ChunksOf(d) \subseteq req[u].cleared
           /\ \A x \in req[u].cleared : x[1] = d
<1> DEFINE d == req[u].doc
           m == documents[d].revision
           n == req[u].revision
<1>1. u \in Request /\ req[u].pc = "cleared" /\ Exists(d) /\ \A e \in revisions[d] : e[1] # n
  BY DEF Replace, Request
<1>2. d \in Doc /\ n # 0 /\ \A x \in req[u].cleared : x[1] = d
  BY <1>1 DEF TypeInv, RequestsKnow, Knows, Targeting
<1>3. m \in Nat /\ n \in Nat
  BY <1>1, <1>2, BoundAssumption DEF TypeInv, TypeOK, DocumentRow, RequestState
<1>4. /\ n <= m + 1
      /\ n = m + 1 => ChunksOf(d) \subseteq req[u].cleared
  BY <1>1 DEF DocumentInv, InTime, Targeting
<1>5. n \notin 1..m
  <2>1. \A k \in 1..m : \E e \in revisions[d] : {f \in revisions[d] : f[1] = k} = {e}
    BY <1>1, <1>2 DEF DocumentInv, Coherent, Numbered, History
  <2>2. \A k \in 1..m : \E e \in revisions[d] : e[1] = k
    BY <2>1
  <2>3. QED
    BY <1>1, <2>2
<1>6. n = m + 1
  BY <1>2, <1>3, <1>4, <1>5
<1>7. QED
  BY <1>1, <1>2, <1>3, <1>4, <1>6

LEMMA ReplaceInv ==
    ASSUME TypeInv, TypeInv', DocumentInv, NEW u \in Upload, Replace(u)
    PROVE  DocumentInv'
<1>d. PICK d, c, n, gone : d = req[u].doc /\ c = req[u].content /\ n = req[u].revision /\ gone = req[u].cleared
  OBVIOUS
<1>r. PICK m, row :
         /\ m = documents[d].revision
         /\ row = [documents[d] EXCEPT !.content = c, !.revision = n, !.status = "active"]
  OBVIOUS
<1>1. /\ d \in Doc /\ Exists(d) /\ m \in Nat /\ n = m + 1
      /\ ChunksOf(d) \subseteq gone /\ \A x \in gone : x[1] = d
  BY <1>d, <1>r, ReplaceInTime
<1>2. /\ documents' = [documents EXCEPT ![d] = row]
      /\ revisions' = [revisions EXCEPT ![d] = revisions[d] \cup {<<n, c>>}]
      /\ chunks' = (chunks \ gone) \cup Written(d, n, c) /\ End(u) /\ u \in Request
  BY <1>d, <1>r DEF Replace, Request
<1>3. \A q \in Request : req'[q] = req[q] \/ req'[q].pc = "idle"
  BY <1>2 DEF TypeInv, TypeOK, End, Idle
<1>4. documents[d] \in DocumentRow
  BY <1>1 DEF TypeInv, TypeOK
<1>5. row.content = c /\ row.revision = n /\ row.status = "active"
  BY <1>r, <1>4 DEF DocumentRow
<1>6. Numbered(d)
  BY <1>1 DEF DocumentInv, Coherent
<1>7. /\ \A e \in Doc \ {d} : documents'[e] = documents[e] /\ revisions'[e] = revisions[e]
      /\ documents'[d] = row /\ revisions'[d] = revisions[d] \cup {<<n, c>>}
  BY <1>1, <1>2 DEF TypeInv, TypeOK
<1>8. \A x \in Written(d, n, c) : x[1] = d
  BY DEF Written
<1>9. ChunksOf(d)' = Written(d, n, c) /\ \A e \in Doc \ {d} : ChunksOf(e)' = ChunksOf(e)
  BY <1>1, <1>2, <1>8 DEF ChunksOf
<1>10. Numbered(d)'
  <2>o. PICK old, new : old = revisions[d] /\ new = revisions[d] \cup {<<n, c>>}
    OBVIOUS
  <2>1. /\ \A k \in 1..m : \E e \in old : {f \in old : f[1] = k} = {e}
        /\ \A e \in old : e[1] \in 1..m
    BY <1>r, <2>o, <1>6 DEF Numbered, History
  <2>2. 1..n = 1..m \cup {n} /\ n \notin 1..m
    BY <1>1
  <2>3. \A k \in 1..m : {f \in new : f[1] = k} = {f \in old : f[1] = k}
    BY <2>o, <2>2
  <2>4. {f \in new : f[1] = n} = {<<n, c>>}
    BY <2>o, <2>1, <2>2
  <2>5. \A k \in 1..n : \E e \in new : {f \in new : f[1] = k} = {e}
    <3>1. ASSUME NEW k \in 1..m PROVE \E e \in new : {f \in new : f[1] = k} = {e}
      BY <2>o, <2>1, <2>3
    <3>2. \E e \in new : {f \in new : f[1] = n} = {e}
      BY <2>o, <2>4
    <3>3. QED
      BY <2>2, <3>1, <3>2
  <2>6. \A e \in new : e[1] \in 1..n
    BY <2>o, <2>1, <2>2
  <2>7. documents'[d].revision = n /\ documents'[d].content = c /\ revisions'[d] = new
    BY <2>o, <1>5, <1>7
  <2>8. QED
    <3>1. History(new, n, c)
      BY <2>o, <2>5, <2>6 DEF History
    <3>2. QED
      BY <2>7, <3>1 DEF Numbered
<1>11. Coherent(d)'
  BY <1>5, <1>7, <1>9, <1>10 DEF Coherent, Written, Exists
<1>12. m <= n /\ m # n
  BY <1>1
<1>13. /\ documents[d].revision <= documents'[d].revision
       /\ documents'[d].revision # documents[d].revision
  BY <1>r, <1>5, <1>7, <1>12
<1>14. QED
  BY <1>1, <1>3, <1>7, <1>9, <1>11, <1>13, TableInv

LEMMA DeleteInv ==
    ASSUME TypeInv, TypeInv', DocumentInv, NEW r \in Request, DeleteEnds(r)
    PROVE  DocumentInv'
<1>d. PICK d : d = req[r].doc
  OBVIOUS
<1>1. /\ d \in Doc /\ End(r)
      /\ documents' = [documents EXCEPT ![d] = [documents[d] EXCEPT !.status = "deleted"]]
      /\ revisions' = [revisions EXCEPT ![d] = {}] /\ chunks' = chunks \ ChunksOf(d)
  BY <1>d DEF DeleteEnds, TypeInv, RequestsKnow, Knows, Targeting
<1>2. \A q \in Request : req'[q] = req[q] \/ req'[q].pc = "idle"
  BY <1>1 DEF TypeInv, TypeOK, End, Idle
<1>3. documents[d] \in DocumentRow
  BY <1>1 DEF TypeInv, TypeOK
<1>4. /\ \A e \in Doc \ {d} : documents'[e] = documents[e] /\ revisions'[e] = revisions[e]
      /\ documents'[d].status = "deleted"
  BY <1>1, <1>3 DEF TypeInv, TypeOK, DocumentRow
<1>5. ChunksOf(d)' = {} /\ \A e \in Doc \ {d} : ChunksOf(e)' = ChunksOf(e)
  BY <1>1 DEF ChunksOf
<1>6. Coherent(d)' /\ ~Exists(d)'
  BY <1>4, <1>5 DEF Coherent, Exists
<1>7. QED
  BY <1>1, <1>2, <1>4, <1>5, <1>6, TableInv

LEMMA StatusInv ==
    ASSUME TypeInv, TypeInv', DocumentInv, NEW d \in Doc, Invalidate(d) \/ Restore(d)
    PROVE  DocumentInv'
<1>1. PICK st \in {"active", "invalid"} :
         /\ documents' = [documents EXCEPT ![d] = [documents[d] EXCEPT !.status = st]]
         /\ Exists(d) /\ UNCHANGED <<revisions, chunks, req>>
  BY DEF Invalidate, Restore, Exists
<1>2. documents[d] \in DocumentRow
  BY DEF TypeInv, TypeOK
<1>3. /\ \A e \in Doc \ {d} : documents'[e] = documents[e]
      /\ documents'[d].content = documents[d].content
      /\ documents'[d].revision = documents[d].revision
      /\ documents'[d].status = st
  BY <1>1, <1>2 DEF TypeInv, TypeOK, DocumentRow
<1>4. \A e \in Doc : ChunksOf(e)' = ChunksOf(e)
  BY <1>1 DEF ChunksOf
<1>5. Coherent(d)'
  BY <1>1, <1>3, <1>4, CoherentFrame DEF DocumentInv, Exists
<1>6. documents[d].revision \in Int
  BY <1>2, BoundAssumption DEF DocumentRow
<1>7. documents[d].revision <= documents'[d].revision
  BY <1>3, <1>6
<1>8. QED
  BY <1>1, <1>3, <1>4, <1>5, <1>7, TableInv

LEMMA DocumentInductive == TypeInv /\ TypeInv' /\ DocumentInv /\ [Next]_vars => DocumentInv'
<1> SUFFICES ASSUME TypeInv, TypeInv', DocumentInv, [Next]_vars PROVE DocumentInv'
  OBVIOUS
<1>b. Upload \subseteq Request /\ Deletion \subseteq Request
  BY DEF Request
<1>a. \A r \in Request : req[r] \in RequestState
  BY DEF TypeInv, TypeOK
<1>1. ASSUME NEW u \in Upload, NEW p \in Path, NEW c \in Content, Embed(u, p, c) PROVE DocumentInv'
  <2> DEFINE next == [Idle EXCEPT !.pc = "embedded", !.path = p, !.content = c]
  <2>1. InTime(next)
    BY DEF InTime, Idle, Targeting
  <2>2. req' = [req EXCEPT ![u] = next] /\ UNCHANGED <<documents, revisions, chunks>>
    BY <1>1 DEF Embed
  <2> HIDE DEF next
  <2>3. QED
    BY <1>b, RequestInv, <2>1, <2>2
<1>2. ASSUME NEW r \in Request, End(r), UNCHANGED <<documents, revisions, chunks>> PROVE DocumentInv'
  <2>1. InTime(Idle)
    BY DEF InTime, Idle, Targeting
  <2>2. QED
    BY <1>2, <2>1, RequestInv DEF End
<1>3. ASSUME NEW u \in Upload, EnsureNew(u) PROVE DocumentInv'
  <2> DEFINE next == [req[u] EXCEPT !.pc = "inserting"]
  <2>1. InTime(next)
    BY <1>a, <1>b DEF InTime, Targeting, RequestState
  <2>2. req' = [req EXCEPT ![u] = next] /\ UNCHANGED <<documents, revisions, chunks>>
    BY <1>3 DEF EnsureNew
  <2> HIDE DEF next
  <2>3. QED
    BY <1>b, RequestInv, <2>1, <2>2
<1>4. ASSUME NEW u \in Upload, NEW d \in Doc, EnsureSource(u, d) PROVE DocumentInv'
  <2> DEFINE n == documents[d].revision + 1
             next == [req[u] EXCEPT !.pc = "replacing", !.doc = d, !.revision = n]
  <2>1. next.pc = "replacing" /\ next.doc = d /\ next.revision = n
    BY <1>a, <1>b DEF RequestState
  <2>2. n \in Int
    BY BoundAssumption DEF TypeInv, TypeOK, DocumentRow
  <2>3. req' = [req EXCEPT ![u] = next] /\ UNCHANGED <<documents, revisions, chunks>>
    BY <1>4 DEF EnsureSource
  <2>4. InTime(next)
    BY <2>1, <2>2 DEF InTime
  <2> HIDE DEF next
  <2>5. QED
    BY <1>b, RequestInv, <2>3, <2>4
<1>6. ASSUME NEW u \in Upload, ClearBegins(u) PROVE DocumentInv'
  <2> DEFINE d == req[u].doc
             next == [req[u] EXCEPT !.pc = "clearing", !.sees = ChunksOf(d)]
  <2>1. /\ next.pc = "clearing" /\ next.doc = d /\ next.revision = req[u].revision
        /\ next.sees = ChunksOf(d)
    BY <1>a, <1>b DEF RequestState
  <2>2. /\ req[u].pc = "replacing" /\ InTime(req[u])
        /\ req' = [req EXCEPT ![u] = next] /\ UNCHANGED <<documents, revisions, chunks>>
    BY <1>6 DEF ClearBegins, DocumentInv
  <2> HIDE DEF next
  <2>3. InTime(next)
    BY <2>1, <2>2 DEF InTime, Targeting
  <2>4. QED
    BY <1>b, RequestInv, <2>2, <2>3
<1>7. ASSUME NEW r \in Request, ClearEnds(r) PROVE DocumentInv'
  <2> DEFINE d == req[r].doc
             x == req[r].sees \cap chunks
             next == [req[r] EXCEPT !.pc = "cleared", !.sees = {}, !.cleared = x]
  <2>1. /\ next.pc = "cleared" /\ next.doc = d /\ next.revision = req[r].revision
        /\ next.cleared = x
    BY <1>a DEF RequestState
  <2>2. /\ req[r].pc = "clearing"
        /\ req' = [req EXCEPT ![r] = next] /\ UNCHANGED <<documents, revisions, chunks>>
    BY <1>7 DEF ClearEnds
  <2>3. ChunksOf(d) \subseteq chunks
    BY DEF ChunksOf
  <2> HIDE DEF next
  <2>4. r \in Upload => InTime(next)
    BY <2>1, <2>2, <2>3 DEF DocumentInv, InTime, Targeting
  <2>5. QED
    BY RequestInv, <2>2, <2>4
<1>9. ASSUME NEW r \in Deletion, NEW d \in Doc, DeleteBegins(r, d) PROVE DocumentInv'
  <2> DEFINE next == [Idle EXCEPT !.pc = "clearing", !.doc = d, !.sees = ChunksOf(d)]
  <2>1. r \in Request /\ r \notin Upload
    BY <1>b, RequestAssumption
  <2>2. req' = [req EXCEPT ![r] = next] /\ UNCHANGED <<documents, revisions, chunks>>
    BY <1>9 DEF DeleteBegins
  <2> HIDE DEF next
  <2>3. QED
    BY RequestInv, <2>1, <2>2
<1>12. CASE UNCHANGED vars
  BY <1>12 DEF vars, DocumentInv, Coherent, InTime, Exists, ChunksOf, Written, Numbered
<1>13. ASSUME NEW u \in Upload, UploadStep(u) PROVE DocumentInv'
  BY <1>b, <1>1, <1>2, <1>3, <1>4, <1>6, <1>7, <1>13, InsertInv, ReplaceInv
     DEF UploadStep, EnsureReuse, Abort
<1>14. ASSUME NEW r \in Deletion, DeletionStep(r) PROVE DocumentInv'
  BY <1>b, <1>2, <1>7, <1>9, <1>14, DeleteInv DEF DeletionStep, Abort
<1>15. QED
  BY <1>12, <1>13, <1>14, StatusInv DEF Next

LEMMA DocumentsInit == Init => DocumentInv
<1> SUFFICES ASSUME Init PROVE DocumentInv
  OBVIOUS
<1>1. \A d \in Doc : Coherent(d)
  BY DEF Init, Coherent, Exists, Unused, ChunksOf
<1>2. \A u \in Upload : InTime(req[u])
  BY DEF Init, InTime, Targeting, Idle, Request
<1>3. QED
  BY <1>1, <1>2 DEF DocumentInv

\* However many uploads and deletions overlap, the chunks of a document are
\* those of its current revision.
THEOREM ChunksCurrent == Spec => []ChunksAreCurrent
<1>1. DocumentInv => ChunksAreCurrent
  BY DEF DocumentInv, Coherent, ChunksAreCurrent
<1>2. QED
  BY <1>1, DocumentsInit, DocumentInductive, TypeInvariant, PTL DEF Spec

\* However many uploads overlap, a document's history has no gap and no number
\* twice, and ends with what is stored.
THEOREM HistoryComplete == Spec => []HistoryIsComplete
<1>1. DocumentInv => HistoryIsComplete
  BY DEF DocumentInv, Coherent, Numbered, History, HistoryIsComplete
<1>2. QED
  BY <1>1, DocumentsInit, DocumentInductive, TypeInvariant, PTL DEF Spec

\* Whatever re-uploads overlap its deletion, a deleted document leaves no chunk.
THEOREM DeletionIsComplete == Spec => []DeletedWithChunks
<1>1. DocumentInv => DeletedWithChunks
  BY DEF DocumentInv, Coherent, Exists, DeletedWithChunks
<1>2. QED
  BY <1>1, DocumentsInit, DocumentInductive, TypeInvariant, PTL DEF Spec
=============================================================================
