------------------------------ MODULE Passages ------------------------------
(***************************************************************************)
(* How a text becomes chunks and how chunks that were found become the     *)
(* context of an answer: split_text of app/ingestion.py, and hybrid_search *)
(* and expand_context of app/db.py.  A behaviour is one call of one of     *)
(* them, and a step is one turn of its loop; the initial states are the    *)
(* arguments within the bounds.                                            *)
(*                                                                         *)
(* A character of a text is TRUE if the text may be cut before it (a space *)
(* or a line break).  Positions count from 0, as in the code.              *)
(***************************************************************************)
EXTENDS Integers, Sequences, FiniteSets

CONSTANTS
    MaxText, MaxSize,      \* bounds: the length of a text, the size of a window
    Hit, Document,         \* the chunks a search may find, and the documents they are of
    MaxCandidates,         \* bound: the hits a search asks for
    MaxShare,              \* the places a document may take, 3 in the code
    Parent,                \* the parent blocks of the results that are expanded
    HitLength, ParentLength, Blanks,   \* bounds: their lengths
    MaxHits, MaxTokens     \* bounds: the results that are expanded, their budget

ASSUME PassageAssumption ==
    /\ MaxText \in Nat /\ MaxSize \in Nat \ {0}
    /\ MaxCandidates \in Nat /\ MaxShare \in Nat \ {0}
    /\ HitLength \subseteq Nat /\ ParentLength \subseteq Nat /\ Blanks \subseteq Nat
    /\ MaxHits \in Nat /\ MaxTokens \in Nat

VARIABLES
    call,         \* the function that was called, with its arguments
    result,       \* what it has collected
    position,     \* the start of the next window, or the results already expanded
    pending,      \* the hits of a search that have not had their turn
    used, seen,   \* the tokens that are spent, and the keys of what was met
    returned      \* the call has returned its result

vars == <<call, result, position, pending, used, seen, returned>>

Larger(a, b) == IF a < b THEN b ELSE a
Smaller(a, b) == IF a < b THEN a ELSE b

(***************************************************************************)
(* split_text: windows <<start, end>>, the end excluded.                   *)
(***************************************************************************)

\* The text is stripped, so neither end of it is a space.
Text == UNION {[1..n -> BOOLEAN] : n \in 0..MaxText}
Stripped == {t \in Text : t # << >> => ~t[1] /\ ~t[Len(t)]}

\* Where a window ends: at the last cut in its second half, if there is one.
WindowEnds(text, size, start) ==
    LET full == Smaller(Len(text), start + size)
        cuts == {b \in start..(full - 1) : text[b + 1] /\ b > start + size \div 2}
    IN  IF full < Len(text) /\ cuts # {} THEN {b \in cuts : \A c \in cuts : c <= b} ELSE {full}

\* Mutants: the window after begins one character late; or not after this one.
NextStartLate(end, overlap, start) == Larger(end - overlap, start) + 1
NextStartStuck(end, overlap, start) == Larger(end - overlap, start)

NextStart(end, overlap, start) == Larger(end - overlap, start + 1)

CutWindow(end) ==
    /\ call.fn = "split" /\ ~returned
    /\ position < Len(call.text)
    /\ end \in WindowEnds(call.text, call.size, position)
    /\ result' = Append(result, <<position, end>>)
    /\ returned' = (end = Len(call.text))
    /\ position' = IF returned' THEN position ELSE NextStart(end, call.overlap, position)
    /\ UNCHANGED <<call, pending, used, seen>>

(***************************************************************************)
(* hybrid_search: two lists of hits, of one user's documents, become one.  *)
(***************************************************************************)

Rank(list, h) == CHOOSE i \in 1..Len(list) : list[i] = h
In(list, h) == \E i \in 1..Len(list) : list[i] = h
Share(list, h) == IF In(list, h) THEN <<1, 60 + Rank(list, h)>> ELSE <<0, 1>>

\* Reciprocal ranks of both lists, as a fraction.
Score(vector, keyword, h) ==
    LET a == Share(vector, h)
        b == Share(keyword, h)
    IN  <<a[1] * b[2] + b[1] * a[2], a[2] * b[2]>>

Above(s, t) == s[1] * t[2] > t[1] * s[2]

\* The order in which the dictionary of hits is filled.
MetBefore(vector, keyword, g, h) ==
    IF In(vector, g) THEN In(vector, h) => Rank(vector, g) < Rank(vector, h)
    ELSE ~In(vector, h) /\ Rank(keyword, g) < Rank(keyword, h)

\* A stable sort: of equals, the one that was met first.
Before(vector, keyword, g, h) ==
    LET s == Score(vector, keyword, g)
        t == Score(vector, keyword, h)
    IN  Above(s, t) \/ (~Above(t, s) /\ MetBefore(vector, keyword, g, h))

OfDocument(list, doc, d) == {i \in 1..Len(list) : doc[list[i]] = d}

\* Mutant: a document is dropped after the share, not at it.
HasRoomOneMore(list, doc, d) == Cardinality(OfDocument(list, doc, d)) <= MaxShare
HasRoom(list, doc, d) == Cardinality(OfDocument(list, doc, d)) < MaxShare

\* The best of the hits that are left has its turn.
TryCandidate(h) ==
    /\ call.fn = "search" /\ ~returned
    /\ h \in pending
    /\ \A g \in pending \ {h} : Before(call.vector, call.keyword, h, g)
    /\ pending' = pending \ {h}
    /\ result' = IF HasRoom(result, call.doc, call.doc[h]) THEN Append(result, h) ELSE result
    /\ returned' = (Len(result') = call.limit)
    /\ UNCHANGED <<call, position, used, seen>>

(***************************************************************************)
(* expand_context: a hit stands in its parent, unless that is gone or too  *)
(* large for what is left of the budget.  Lengths are in characters.  The  *)
(* spaces around a text are not counted; `blanks` of them end a part that  *)
(* is cut off.                                                             *)
(***************************************************************************)

\* _estimate_tokens
Tokens(length) == Larger(1, (length + 1) \div 2)

HasParent(i) == call.hits[i].parent \in DOMAIN call.parents
ContextKey(i) == IF HasParent(i) THEN <<"parent", call.hits[i].parent>> ELSE <<"hit", i>>

\* Mutant: a hit that falls back to its own text is not measured again.
ContextTokensUnmeasured(i, left) ==
    LET hit == call.hits[i]
        whole == Tokens(IF HasParent(i) THEN call.parents[hit.parent] ELSE hit.length)
    IN  IF whole <= left THEN whole ELSE Tokens(hit.length)

\* The parent if it fits, else the hit's own text, else the part of it that fits.
ContextTokens(i, left) ==
    LET hit == call.hits[i]
        whole == Tokens(IF HasParent(i) THEN call.parents[hit.parent] ELSE hit.length)
        part == Smaller(hit.length, Larger(2, 2 * left))
    IN  IF whole <= left THEN whole
        ELSE IF Tokens(hit.length) <= left THEN Tokens(hit.length)
        ELSE Tokens(part - hit.blanks)

\* The loop of expand_context comes to its next result.
AtResult(i) == call.fn = "expand" /\ ~returned /\ i \in 1..Len(call.hits) /\ i = position + 1

\* Its parent, or itself, was met before.
SkipSeen(i) ==
    /\ AtResult(i)
    /\ ContextKey(i) \in seen
    /\ position' = i
    /\ UNCHANGED <<call, result, pending, used, seen, returned>>

\* Nothing is left of the budget: the loop ends.
BudgetSpent(i) ==
    /\ AtResult(i)
    /\ ContextKey(i) \notin seen
    /\ used >= call.max
    /\ seen' = seen \cup {ContextKey(i)}
    /\ returned' = TRUE
    /\ UNCHANGED <<call, result, position, pending, used>>

TakeContext(i) ==
    LET tokens == ContextTokens(i, call.max - used) IN
    /\ AtResult(i)
    /\ ContextKey(i) \notin seen
    /\ used < call.max
    /\ result' = Append(result, [hit |-> i, key |-> ContextKey(i), tokens |-> tokens])
    /\ used' = used + tokens
    /\ seen' = seen \cup {ContextKey(i)}
    /\ position' = i
    /\ UNCHANGED <<call, pending, returned>>

(***************************************************************************)
(* The calls.                                                              *)
(***************************************************************************)

SplitCalls ==
    [fn : {"split"}, text : Stripped, size : 1..MaxSize, overlap : 0..MaxSize]

\* A list has at most as many hits as are asked for, none of them twice.
Lists(limit) ==
    UNION {{l \in [1..n -> Hit] : \A i, j \in 1..n : l[i] = l[j] => i = j} : n \in 0..limit}

SearchCalls ==
    UNION {[fn : {"search"}, vector : Lists(n), keyword : Lists(n), doc : [Hit -> Document],
            limit : {n}] : n \in 1..MaxCandidates}

\* What is found was ranked again meanwhile, and some parents may be gone.
Found == [parent : Parent, length : HitLength, blanks : Blanks]

ExpandCalls ==
    [fn : {"expand"}, hits : UNION {[1..n -> Found] : n \in 1..MaxHits},
     parents : UNION {[P -> ParentLength] : P \in SUBSET Parent}, max : 1..MaxTokens]

HitsOf(vector, keyword) == {h \in Hit : In(vector, h) \/ In(keyword, h)}

Init ==
    /\ call \in SplitCalls \cup SearchCalls \cup ExpandCalls
    /\ result = << >> /\ position = 0 /\ used = 0 /\ seen = {} /\ returned = FALSE
    /\ pending = IF call.fn = "search" THEN HitsOf(call.vector, call.keyword) ELSE {}

\* The loop has come to the end of what it runs over.
LoopEnds ==
    /\ ~returned
    /\ \/ call.fn = "split" /\ position >= Len(call.text)
       \/ call.fn = "search" /\ pending = {}
       \/ call.fn = "expand" /\ position = Len(call.hits)
    /\ returned' = TRUE
    /\ UNCHANGED <<call, result, position, pending, used, seen>>

\* A call that has returned is over; without this step TLC would take it for a
\* deadlock, and so finds a call that does not return.
Over == returned /\ UNCHANGED vars

Next ==
    \/ \E end \in 1..MaxText : CutWindow(end)
    \/ \E h \in Hit : TryCandidate(h)
    \/ \E i \in 1..MaxHits : SkipSeen(i) \/ BudgetSpent(i) \/ TakeContext(i)
    \/ LoopEnds
    \/ Over

Spec == Init /\ [][Next]_vars

(***************************************************************************)
(* Properties.                                                             *)
(***************************************************************************)

\* No character of a text is lost at a window's border, wherever the cuts are
\* and even with an overlap as large as the window; a chunk keeps to its size;
\* and with an overlap of half a window at most, none lies within another.
SplitLosesNothing ==
    call.fn = "split" =>
        /\ \A i \in DOMAIN result :
             /\ result[i][1] < result[i][2] /\ result[i][2] <= Len(call.text)
             /\ result[i][2] - result[i][1] <= call.size
        /\ \A i, j \in DOMAIN result : i < j =>
             /\ result[i][1] < result[j][1]
             /\ call.overlap <= call.size \div 2 => result[i][2] < result[j][2]
        /\ returned => \A p \in 0..(Len(call.text) - 1) :
             \E i \in DOMAIN result : p \in result[i][1]..(result[i][2] - 1)

Both(h) == In(call.vector, h) /\ In(call.keyword, h)
Better(g, h) ==
    \A l \in {call.vector, call.keyword} : In(l, h) => In(l, g) /\ Rank(l, g) < Rank(l, h)

\* A document has at most its share of the candidates.
ShareIsKept ==
    call.fn = "search" =>
        /\ Len(result) <= call.limit
        /\ \A d \in Document : Cardinality(OfDocument(result, call.doc, d)) <= MaxShare

\* A hit is only left out if the share of its document or the limit is reached.
OmissionsHaveReason ==
    call.fn = "search" /\ returned =>
        \A h \in HitsOf(call.vector, call.keyword) : ~In(result, h) =>
            \/ Len(result) = call.limit
            \/ Cardinality(OfDocument(result, call.doc, call.doc[h])) = MaxShare

\* No candidate stands before one that is better in every list; and a hit of
\* both lists stands before those of one, at any ranks.
BestComeFirst ==
    call.fn = "search" =>
        \A i, j \in DOMAIN result : i < j =>
            /\ ~Better(result[j], result[i])
            /\ Both(result[j]) => Both(result[i])

\* The candidates are diverse and in order, and none is missing without reason.
CandidatesAreDiverse == ShareIsKept /\ OmissionsHaveReason /\ BestComeFirst

\* The context keeps to its budget whatever the lengths are and whichever
\* parents are gone; the best hit is always in it; a parent stands in it once;
\* and a hit is left out only if the budget is spent or another of the same
\* parent came before.
ContextFitsBudget ==
    call.fn = "expand" =>
        /\ used <= call.max
        /\ \A i, j \in DOMAIN result : result[i].key = result[j].key => i = j
        /\ returned =>
             /\ result # << >> /\ result[1].hit = 1
             /\ \A h \in DOMAIN call.hits :
                  \/ used = call.max
                  \/ \E i \in DOMAIN result :
                       \/ result[i].hit = h
                       \/ result[i].hit < h /\ result[i].key = <<"parent", call.hits[h].parent>>

\* Every turn of a loop returns or gets closer to the end of what the loop runs
\* over: no text, window and overlap keep split_text busy for ever.
Closer ==
    \/ returned'
    \/ call.fn = "split" /\ position < position' /\ position' <= Len(call.text)
    \/ call.fn = "search" /\ pending' \subseteq pending /\ pending' # pending
    \/ call.fn = "expand" /\ position < position' /\ position' <= Len(call.hits)

LoopsAdvance == [][Closer]_vars
=============================================================================
