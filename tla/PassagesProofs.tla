--------------------------- MODULE PassagesProofs ---------------------------
(***************************************************************************)
(* What split_text, hybrid_search and expand_context return, for texts,    *)
(* lists and budgets of any size.  Each loop has an invariant of its own,  *)
(* which says what has been collected so far and what is still to come.    *)
(***************************************************************************)
EXTENDS Passages, FiniteSetTheorems, SequenceTheorems, TLAPS

Calls == SplitCalls \cup SearchCalls \cup ExpandCalls

\* Only the step of a call's own function changes its loop.
LEMMA CallsStay ==
    ASSUME [Next]_vars PROVE call' = call
BY DEF Next, vars, CutWindow, TryCandidate, AtResult, SkipSeen, BudgetSpent, TakeContext,
       LoopEnds, Over

LEMMA CallInvariant == Spec => [](call \in Calls)
<1>1. Init => call \in Calls
  BY DEF Init, Calls
<1>2. call \in Calls /\ [Next]_vars => (call \in Calls)'
  BY CallsStay
<1>3. QED
  BY <1>1, <1>2, PTL DEF Spec

(***************************************************************************)
(* split_text.                                                             *)
(***************************************************************************)

LEMMA SplitArguments ==
    ASSUME call \in Calls, call.fn = "split"
    PROVE  /\ Len(call.text) \in Nat
           /\ call.size \in Nat \ {0}
           /\ call.overlap \in Nat
<1>1. call \in SplitCalls
  BY DEF Calls, SplitCalls, SearchCalls, ExpandCalls
<1>2. call.text \in Text /\ call.size \in 1..MaxSize /\ call.overlap \in 0..MaxSize
  BY <1>1 DEF SplitCalls, Stripped
<1>3. call.text \in Seq(BOOLEAN)
  BY <1>2, SeqDef DEF Text
<1>4. QED
  BY <1>2, <1>3, LenProperties, PassageAssumption

\* A window is not empty, keeps to its size, and ends at the end of the text
\* or in its second half.
LEMMA WindowBounds ==
    ASSUME NEW text, NEW size \in Nat \ {0}, NEW start \in Nat,
           Len(text) \in Nat, start < Len(text),
           NEW end \in WindowEnds(text, size, start)
    PROVE  /\ end \in Nat
           /\ start < end /\ end <= Len(text) /\ end - start <= size
           /\ end = Len(text) \/ end > start + size \div 2
<1>1. size \div 2 \in Nat /\ size \div 2 < size
  OBVIOUS
<1>2. QED
  BY <1>1 DEF WindowEnds, Smaller

\* The next window begins after this one's beginning and not after its end.
LEMMA NextStartBounds ==
    ASSUME NEW start \in Nat, NEW end \in Nat, start < end, NEW overlap \in Nat
    PROVE  /\ NextStart(end, overlap, start) \in Nat
           /\ start < NextStart(end, overlap, start)
           /\ NextStart(end, overlap, start) <= end
           /\ end <= NextStart(end, overlap, start) + overlap
BY DEF NextStart, Larger

\* Every character before p is in a window.
CoveredTo(p) ==
    \A x \in 0..(p - 1) : \E i \in DOMAIN result : x \in result[i][1]..(result[i][2] - 1)

\* The windows so far lie in the text, one after the other.
WindowsInOrder ==
    /\ \A i \in DOMAIN result :
         /\ result[i][1] < result[i][2] /\ result[i][2] <= Len(call.text)
         /\ result[i][2] - result[i][1] <= call.size
    /\ \A i, j \in DOMAIN result : i < j =>
         /\ result[i][1] < result[j][1]
         /\ call.overlap <= call.size \div 2 => result[i][2] < result[j][2]

\* While the loop runs, what is before the next window is covered, and the next
\* window will end after those before it.
SplitGoesOn ==
    ~returned =>
        /\ CoveredTo(position)
        /\ \A i \in DOMAIN result :
             /\ result[i][1] < position /\ result[i][2] < Len(call.text)
             /\ call.overlap <= call.size \div 2 => result[i][2] <= position + call.size \div 2

SplitInv ==
    call.fn = "split" =>
        /\ result \in Seq(Nat \X Nat)
        /\ position \in Nat
        /\ WindowsInOrder
        /\ SplitGoesOn
        /\ returned => CoveredTo(Len(call.text))

\* The step that cuts a window keeps the invariant of the loop.
LEMMA CutWindowKeepsInv ==
    ASSUME call \in Calls, SplitInv, NEW end, CutWindow(end)
    PROVE  SplitInv'
<1> DEFINE L == Len(call.text)
           half == call.size \div 2
           n == Len(result)
<1>1. /\ call.fn = "split" /\ call' = call /\ ~returned
      /\ position \in Nat /\ position < L
      /\ result \in Seq(Nat \X Nat)
      /\ end \in WindowEnds(call.text, call.size, position)
      /\ result' = Append(result, <<position, end>>)
      /\ returned' = (end = L)
      /\ position' = IF returned' THEN position ELSE NextStart(end, call.overlap, position)
  BY DEF CutWindow, SplitInv
<1>2. L \in Nat /\ call.size \in Nat \ {0} /\ call.overlap \in Nat /\ half \in Nat
  BY <1>1, SplitArguments
<1>3. /\ end \in Nat /\ position < end /\ end <= L /\ end - position <= call.size
      /\ end = L \/ end > position + half
  BY <1>1, <1>2, WindowBounds
<1>4. ~returned' => /\ position' \in Nat /\ position < position' /\ position' <= end
                    /\ end <= position' + call.overlap
  BY <1>1, <1>2, <1>3, NextStartBounds
<1>5. position' \in Nat
  BY <1>1, <1>4
<1>6. /\ n \in Nat /\ DOMAIN result = 1..n /\ DOMAIN result' = 1..(n + 1)
      /\ result' \in Seq(Nat \X Nat)
      /\ \A i \in 1..n : result'[i] = result[i]
      /\ result'[n + 1] = <<position, end>>
      /\ \A i \in 1..n : result[i][1] \in Nat /\ result[i][2] \in Nat
  BY <1>1, <1>3
<1>7. /\ WindowsInOrder
      /\ CoveredTo(position)
      /\ \A i \in 1..n : /\ result[i][1] < position /\ result[i][2] < L
                         /\ call.overlap <= half => result[i][2] <= position + half
  BY <1>1, <1>6 DEF SplitInv, SplitGoesOn
<1> HIDE DEF n
<1>8. WindowsInOrder'
  <2>1. ASSUME NEW i \in DOMAIN result'
        PROVE  /\ result'[i][1] < result'[i][2] /\ result'[i][2] <= L
               /\ result'[i][2] - result'[i][1] <= call.size
    <3>1. CASE i \in 1..n
      BY <1>6, <1>7, <3>1 DEF WindowsInOrder
    <3>2. CASE i = n + 1
      BY <1>3, <1>6, <3>2
    <3>3. QED
      BY <1>6, <3>1, <3>2
  <2>2. ASSUME NEW i \in DOMAIN result', NEW j \in DOMAIN result', i < j
        PROVE  /\ result'[i][1] < result'[j][1]
               /\ call.overlap <= half => result'[i][2] < result'[j][2]
    <3>1. CASE j \in 1..n
      <4>1. i \in 1..n
        BY <1>6, <2>2, <3>1
      <4>2. QED
        BY <1>6, <1>7, <2>2, <3>1, <4>1 DEF WindowsInOrder
    <3>2. CASE j = n + 1
      <4>1. i \in 1..n
        BY <1>6, <2>2, <3>2
      <4>2. call.overlap <= half => result[i][2] < end
        <5>1. result[i][2] \in Nat /\ result[i][2] < L
          BY <1>6, <1>7, <4>1
        <5>2. call.overlap <= half => result[i][2] <= position + half
          BY <1>7, <4>1
        <5> HIDE DEF half, L
        <5>3. position \in Nat /\ half \in Nat /\ end \in Nat /\ L \in Nat
              /\ (end = L \/ end > position + half)
          BY <1>1, <1>2, <1>3
        <5>4. QED
          BY <5>1, <5>2, <5>3
      <4>3. result'[i] = result[i] /\ result'[j] = <<position, end>>
        BY <1>6, <3>2, <4>1
      <4>4. result[i][1] < position
        BY <1>7, <4>1
      <4>5. QED
        BY <4>2, <4>3, <4>4
    <3>3. QED
      BY <1>6, <3>1, <3>2
  <2>3. QED
    BY <1>1, <2>1, <2>2 DEF WindowsInOrder
<1>9. ASSUME NEW x \in 0..(end - 1)
      PROVE  \E i \in DOMAIN result' : x \in result'[i][1]..(result'[i][2] - 1)
  <2>1. CASE x \in 0..(position - 1)
    <3>1. PICK i \in 1..n : x \in result[i][1]..(result[i][2] - 1)
      BY <1>6, <1>7, <2>1 DEF CoveredTo
    <3>2. i \in DOMAIN result' /\ result'[i] = result[i]
      BY <1>6
    <3>3. QED
      BY <3>1, <3>2
  <2>2. CASE x \in position..(end - 1)
    <3>1. n + 1 \in DOMAIN result' /\ result'[n + 1] = <<position, end>>
      BY <1>6
    <3>2. x \in result'[n + 1][1]..(result'[n + 1][2] - 1)
      BY <2>2, <3>1
    <3>3. QED
      BY <3>1, <3>2
  <2>3. QED
    BY <1>1, <1>3, <2>1, <2>2
<1>10. SplitGoesOn'
  <2> SUFFICES ASSUME ~returned'
               PROVE  /\ CoveredTo(position)'
                      /\ \A i \in DOMAIN result' :
                           /\ result'[i][1] < position' /\ result'[i][2] < L
                           /\ call.overlap <= half => result'[i][2] <= position' + half
    BY <1>1 DEF SplitGoesOn
  <2>1. CoveredTo(position)'
    <3>1. position' \in Nat /\ position' <= end /\ end \in Nat
      BY <1>3, <1>4
    <3>2. \A p \in Nat : p <= end => 0..(p - 1) \subseteq 0..(end - 1)
      BY <3>1
    <3>3. 0..(position' - 1) \subseteq 0..(end - 1)
      BY <3>1, <3>2
    <3>4. QED
      BY <1>9, <3>3 DEF CoveredTo
  <2>2. end < L
    <3>1. end # L
      BY <1>1, Zenon
    <3>2. QED
      BY <1>2, <1>3, <3>1
  <2>3. ASSUME NEW i \in 1..n
        PROVE  /\ result'[i][1] < position' /\ result'[i][2] < L
               /\ call.overlap <= half => result'[i][2] <= position' + half
    <3>1. result'[i] = result[i] /\ result[i][1] \in Nat /\ result[i][2] \in Nat
      BY <1>6
    <3>2. /\ result[i][1] < position /\ result[i][2] < L
          /\ call.overlap <= half => result[i][2] <= position + half
      BY <1>7
    <3>3. position \in Nat /\ position' \in Nat /\ position < position'
      BY <1>1, <1>4
    <3>4. QED
      BY <1>2, <3>1, <3>2, <3>3
  <2>4. /\ position < position' /\ end < L
        /\ call.overlap <= half => end <= position' + half
    BY <1>2, <1>3, <1>4, <2>2
  <2>5. ASSUME NEW i \in DOMAIN result'
        PROVE  /\ result'[i][1] < position' /\ result'[i][2] < L
               /\ call.overlap <= half => result'[i][2] <= position' + half
    <3>1. CASE i \in 1..n
      BY <2>3, <3>1
    <3>2. CASE i = n + 1
      <4>1. result'[i] = <<position, end>>
        BY <1>6, <3>2
      <4>2. QED
        BY <2>4, <4>1
    <3>3. QED
      BY <1>6, <3>1, <3>2
  <2>6. QED
    BY <2>1, <2>5
<1>11. returned' => CoveredTo(Len(call.text))'
  BY <1>1, <1>9 DEF CoveredTo
<1>12. QED
  BY <1>1, <1>5, <1>6, <1>8, <1>10, <1>11 DEF SplitInv

\* The loop invariant of split_text.
LEMMA SplitInvariant == Spec => []SplitInv
<1>1. Init => SplitInv
  BY DEF Init, SplitInv, WindowsInOrder, SplitGoesOn, CoveredTo
<1>2. call \in Calls /\ SplitInv /\ [Next]_vars => SplitInv'
  <2> SUFFICES ASSUME call \in Calls, SplitInv, [Next]_vars, call'.fn = "split" PROVE SplitInv'
    BY DEF SplitInv
  <2>1. call' = call
    BY CallsStay
  <2>2. CASE \E end \in 1..MaxText : CutWindow(end)
    BY <2>2, CutWindowKeepsInv
  <2>3. CASE LoopEnds
    <3>1. /\ position >= Len(call.text) /\ ~returned
          /\ UNCHANGED <<result, position>>
      BY <2>1, <2>3 DEF LoopEnds
    <3>2. SplitInv /\ Len(call.text) \in Nat
      BY <2>1, SplitArguments
    <3>3. position \in Nat /\ CoveredTo(position)
      BY <2>1, <3>1, <3>2 DEF SplitInv, SplitGoesOn
    <3>4. CoveredTo(Len(call.text))
      BY <3>1, <3>2, <3>3 DEF CoveredTo
    <3>5. returned'
      BY <2>3 DEF LoopEnds
    <3>6. QED
      BY <2>1, <3>1, <3>2, <3>4, <3>5 DEF SplitInv, WindowsInOrder, SplitGoesOn, CoveredTo
  <2>4. CASE UNCHANGED <<result, position, returned>>
    BY <2>1, <2>4 DEF SplitInv, WindowsInOrder, SplitGoesOn, CoveredTo
  <2>5. QED
    BY <2>1, <2>2, <2>3, <2>4
       DEF Next, vars, TryCandidate, AtResult, SkipSeen, BudgetSpent, TakeContext, Over
<1>3. QED
  BY <1>1, <1>2, CallInvariant, PTL DEF Spec

\* Whatever the text, the window and the overlap, split_text loses no character,
\* keeps its chunks to their size and its windows in order.
THEOREM TextsStayWhole == Spec => []SplitLosesNothing
<1>1. call \in Calls /\ SplitInv => SplitLosesNothing
  BY DEF SplitInv, SplitLosesNothing, WindowsInOrder, CoveredTo
<1>2. QED
  BY <1>1, SplitInvariant, CallInvariant, PTL

(***************************************************************************)
(* hybrid_search: the order.                                               *)
(***************************************************************************)

\* The lists of a search are sequences in which every hit has its rank.
LEMMA SearchArguments ==
    ASSUME call \in Calls, call.fn = "search"
    PROVE  /\ call.limit \in Nat \ {0} /\ call.limit <= MaxCandidates
           /\ call.doc \in [Hit -> Document]
           /\ \A l \in {call.vector, call.keyword} :
                Len(l) \in Nat /\ Len(l) <= call.limit
<1>1. call \in SearchCalls
  BY DEF Calls, SplitCalls, SearchCalls, ExpandCalls
<1>2. PICK n \in 1..MaxCandidates :
         call \in [fn : {"search"}, vector : Lists(n), keyword : Lists(n),
                   doc : [Hit -> Document], limit : {n}]
  BY <1>1 DEF SearchCalls
<1>3. n \in Nat \ {0} /\ n <= MaxCandidates /\ call.limit = n
  BY <1>2, PassageAssumption
<1>4. ASSUME NEW l \in Lists(n) PROVE Len(l) \in Nat /\ Len(l) <= n
  <2>1. PICK m \in 0..n : l \in [1..m -> Hit]
    BY DEF Lists
  <2>2. m \in Nat /\ m <= n
    BY <1>3
  <2>3. l \in Seq(Hit) /\ Len(l) = m
    BY <2>1, <2>2, SeqDef
  <2>4. QED
    BY <2>2, <2>3
<1>5. QED
  BY <1>2, <1>3, <1>4

LEMMA RankInRange ==
    ASSUME NEW l, NEW h, In(l, h), Len(l) \in Nat
    PROVE  Rank(l, h) \in Nat /\ 1 <= Rank(l, h) /\ Rank(l, h) <= Len(l)
<1>1. PICK i \in 1..Len(l) : l[i] = h
  BY DEF In
<1>2. Rank(l, h) \in 1..Len(l)
  BY <1>1 DEF Rank
<1>3. QED
  BY <1>2

\* Products keep an order.
LEMMA ProductOrder ==
    ASSUME NEW a \in Nat, NEW b \in Nat, NEW c \in Nat, a <= b
    PROVE  a * c <= b * c
OBVIOUS

LEMMA ProductStrictOrder ==
    ASSUME NEW a \in Nat, NEW b \in Nat, NEW c \in Nat \ {0}, a < b
    PROVE  a * c < b * c
OBVIOUS

\* Two reciprocals of ranks up to 61 add up to more than any one.
LEMMA TwoAboveOne ==
    ASSUME NEW p \in Nat, NEW q \in Nat, NEW r \in Nat, p <= 121, q <= 121, 61 <= r, 0 < p
    PROVE  (p + q) * r > p * q
<1>1. p * q <= 121 * q
  BY ProductOrder
<1>2. q * p <= 121 * p
  BY ProductOrder
<1>3. 61 * (p + q) <= r * (p + q)
  BY ProductOrder
<1>4. p * q = q * p /\ r * (p + q) = (p + q) * r /\ p * q \in Nat /\ (p + q) * r \in Nat
  OBVIOUS
<1>5. QED
  BY <1>1, <1>2, <1>3, <1>4

\* A sum of two reciprocals grows when both its ranks become better.
LEMMA BetterSum ==
    ASSUME NEW p \in Nat \ {0}, NEW q \in Nat \ {0}, NEW r \in Nat, NEW s \in Nat, p < r, q < s
    PROVE  (p + q) * (r * s) > (r + s) * (p * q)
<1>1. q * (p * r) < s * (p * r)
  BY ProductStrictOrder
<1>2. p * (q * s) < r * (q * s)
  BY ProductStrictOrder
<1>3. (p + q) * (r * s) = s * (p * r) + r * (q * s)
  OBVIOUS
<1>4. (r + s) * (p * q) = q * (p * r) + p * (q * s)
  OBVIOUS
<1>5. QED
  BY <1>1, <1>2, <1>3, <1>4

\* The denominator of the share of a list.
Place(l, h) == 60 + Rank(l, h)

LEMMA PlaceInRange ==
    ASSUME NEW l, NEW h, In(l, h), Len(l) \in Nat
    PROVE  Place(l, h) \in Nat /\ 61 <= Place(l, h) /\ Place(l, h) <= 60 + Len(l)
BY RankInRange DEF Place

\* What the score of a hit is, by the lists that have it.
LEMMA Scores ==
    ASSUME NEW v, NEW k, NEW h, Len(v) \in Nat, Len(k) \in Nat
    PROVE  /\ In(v, h) /\ In(k, h) =>
                Score(v, k, h) = <<Place(k, h) + Place(v, h), Place(v, h) * Place(k, h)>>
           /\ In(v, h) /\ ~In(k, h) => Score(v, k, h) = <<1, Place(v, h)>>
           /\ ~In(v, h) /\ In(k, h) => Score(v, k, h) = <<1, Place(k, h)>>
<1> USE DEF Score, Share
<1>1. CASE In(v, h) /\ In(k, h)
  <2>1. Place(v, h) \in Nat /\ Place(k, h) \in Nat
    BY <1>1, PlaceInRange
  <2>2. Share(v, h) = <<1, Place(v, h)>> /\ Share(k, h) = <<1, Place(k, h)>>
    BY <1>1 DEF Place
  <2>3. Score(v, k, h) = <<1 * Place(k, h) + 1 * Place(v, h), Place(v, h) * Place(k, h)>>
    BY <2>2
  <2>4. QED
    BY <1>1, <2>1, <2>3
<1>2. CASE In(v, h) /\ ~In(k, h)
  <2>1. Place(v, h) \in Nat
    BY <1>2, PlaceInRange
  <2>2. Share(v, h) = <<1, Place(v, h)>> /\ Share(k, h) = <<0, 1>>
    BY <1>2 DEF Place
  <2>3. Score(v, k, h) = <<1 * 1 + 0 * Place(v, h), Place(v, h) * 1>>
    BY <2>2
  <2>4. QED
    BY <1>2, <2>1, <2>3
<1>3. CASE ~In(v, h) /\ In(k, h)
  <2>1. Place(k, h) \in Nat
    BY <1>3, PlaceInRange
  <2>2. Share(v, h) = <<0, 1>> /\ Share(k, h) = <<1, Place(k, h)>>
    BY <1>3 DEF Place
  <2>3. Score(v, k, h) = <<0 * Place(k, h) + 1 * 1, 1 * Place(k, h)>>
    BY <2>2
  <2>4. QED
    BY <1>3, <2>1, <2>3
<1>4. QED
  BY <1>1, <1>2, <1>3

\* A hit that scores above another never has its turn after it.
LEMMA AboveComesFirst ==
    ASSUME NEW v, NEW k, NEW g, NEW h, Len(v) \in Nat, Len(k) \in Nat,
           In(v, g) \/ In(k, g), In(v, h) \/ In(k, h),
           Above(Score(v, k, g), Score(v, k, h))
    PROVE  ~Before(v, k, h, g)
<1> DEFINE s == Score(v, k, g)
           t == Score(v, k, h)
<1>1. ASSUME NEW x, In(v, x) \/ In(k, x)
      PROVE  Score(v, k, x)[1] \in Nat /\ Score(v, k, x)[2] \in Nat
  <2>1. /\ In(v, x) => Place(v, x) \in Nat
        /\ In(k, x) => Place(k, x) \in Nat
    BY PlaceInRange
  <2>2. CASE In(v, x) /\ In(k, x)
    <3>1. Place(v, x) * Place(k, x) \in Nat /\ Place(k, x) + Place(v, x) \in Nat
      BY <2>1, <2>2
    <3>2. QED
      BY <2>2, <3>1, Scores
  <2>3. CASE ~(In(v, x) /\ In(k, x))
    BY <1>1, <2>1, <2>3, Scores
  <2>4. QED
    BY <2>2, <2>3
<1>2. s[1] \in Nat /\ s[2] \in Nat /\ t[1] \in Nat /\ t[2] \in Nat
  BY <1>1
<1> HIDE DEF s, t
<1>3. s[1] * t[2] \in Nat /\ t[1] * s[2] \in Nat
  BY <1>2
<1>4. Above(s, t) => ~Above(t, s)
  BY <1>3 DEF Above
<1>5. QED
  BY <1>4 DEF Before, s, t

\* A hit of both lists scores above a hit of one, if the lists have at most 61.
LEMMA BothAbove ==
    ASSUME NEW v, NEW k, NEW g, NEW h, Len(v) \in Nat, Len(k) \in Nat,
           Len(v) <= 61, Len(k) <= 61,
           In(v, g) /\ In(k, g), In(v, h) \/ In(k, h), ~(In(v, h) /\ In(k, h))
    PROVE  Above(Score(v, k, g), Score(v, k, h))
<1>1. PICK r \in Nat : 61 <= r /\ Score(v, k, h) = <<1, r>>
  <2>1. CASE In(v, h)
    BY <2>1, PlaceInRange, Scores
  <2>2. CASE In(k, h)
    BY <2>2, PlaceInRange, Scores
  <2>3. QED
    BY <2>1, <2>2
<1> DEFINE p == Place(k, g)
           q == Place(v, g)
<1>2. p \in Nat /\ q \in Nat /\ 0 < p /\ p <= 121 /\ q <= 121
  <2>1. 61 <= p /\ p <= 60 + Len(k) /\ p \in Nat
    BY PlaceInRange
  <2>2. q <= 60 + Len(v) /\ q \in Nat
    BY PlaceInRange
  <2> HIDE DEF p, q
  <2>3. QED
    BY <2>1, <2>2
<1>3. Score(v, k, g) = <<p + q, q * p>>
  BY Scores
<1> HIDE DEF p, q
<1>4. (p + q) * r > p * q
  BY <1>1, <1>2, TwoAboveOne
<1>5. 1 * (q * p) = p * q
  BY <1>2
<1>6. QED
  BY <1>1, <1>3, <1>4, <1>5 DEF Above

\* A hit that is better in every list that has the other scores above it.
LEMMA BetterAbove ==
    ASSUME NEW v, NEW k, NEW g, NEW h, Len(v) \in Nat, Len(k) \in Nat,
           \A l \in {v, k} : In(l, h) => In(l, g) /\ Rank(l, g) < Rank(l, h),
           In(v, h) \/ In(k, h)
    PROVE  Above(Score(v, k, g), Score(v, k, h))
<1>1. \A l \in {v, k} : In(l, h) =>
         /\ Place(l, g) \in Nat \ {0} /\ Place(l, h) \in Nat \ {0}
         /\ Place(l, g) < Place(l, h)
  <2> SUFFICES ASSUME NEW l \in {v, k}, In(l, h)
               PROVE  /\ Place(l, g) \in Nat \ {0} /\ Place(l, h) \in Nat \ {0}
                      /\ Place(l, g) < Place(l, h)
    OBVIOUS
  <2>1. In(l, g) /\ Rank(l, g) < Rank(l, h) /\ Len(l) \in Nat
    OBVIOUS
  <2>2. /\ Rank(l, g) \in Nat /\ 1 <= Rank(l, g)
        /\ Rank(l, h) \in Nat /\ 1 <= Rank(l, h)
    BY <2>1, RankInRange
  <2>3. QED
    BY <2>1, <2>2 DEF Place
<1> DEFINE gv == Place(v, g)
           gk == Place(k, g)
           hv == Place(v, h)
           hk == Place(k, h)
<1>2. CASE In(v, h) /\ In(k, h)
  <2>1. Score(v, k, g) = <<gk + gv, gv * gk>> /\ Score(v, k, h) = <<hk + hv, hv * hk>>
    BY <1>2, Scores
  <2>2. /\ gv \in Nat \ {0} /\ gk \in Nat \ {0} /\ hv \in Nat /\ hk \in Nat
        /\ gv < hv /\ gk < hk
    BY <1>1, <1>2
  <2> HIDE DEF gv, gk, hv, hk
  <2>3. (gk + gv) * (hk * hv) > (hk + hv) * (gk * gv)
    BY <2>2, BetterSum
  <2>4. hk * hv = hv * hk /\ gk * gv = gv * gk
    BY <2>2
  <2>5. QED
    BY <2>1, <2>3, <2>4 DEF Above
\* The other is in one list only; the better one may be in both.
<1>3. ASSUME NEW p \in Nat \ {0}, NEW r \in Nat \ {0}, p < r,
             NEW q \in Nat \ {0},
             \/ Score(v, k, g) = <<1, p>>
             \/ Score(v, k, g) = <<p + q, q * p>>
             \/ Score(v, k, g) = <<q + p, p * q>>,
             Score(v, k, h) = <<1, r>>
      PROVE  Above(Score(v, k, g), Score(v, k, h))
  <2>1. p * q < r * q
    BY <1>3, ProductStrictOrder
  <2>2. (p + q) * r = p * r + r * q /\ p * r \in Nat /\ p * q = q * p /\ r * q \in Nat
    OBVIOUS
  <2>3. (p + q) * r > 1 * (q * p) /\ (q + p) * r > 1 * (p * q) /\ 1 * r > 1 * p
    BY <1>3, <2>1, <2>2
  <2>4. QED
    BY <1>3, <2>3 DEF Above
<1>4. CASE In(v, h) /\ ~In(k, h)
  <2>1. In(v, g) /\ gv \in Nat \ {0} /\ hv \in Nat \ {0} /\ gv < hv
    BY <1>1, <1>4
  <2>2. Score(v, k, h) = <<1, hv>>
    BY <1>4, Scores
  <2>3. CASE In(k, g)
    <3>1. gk \in Nat \ {0} /\ Score(v, k, g) = <<gk + gv, gv * gk>>
      BY <2>1, <2>3, PlaceInRange, Scores
    <3>2. QED
      BY <1>3, <2>1, <2>2, <3>1
  <2>4. CASE ~In(k, g)
    <3>1. Score(v, k, g) = <<1, gv>>
      BY <2>1, <2>4, Scores
    <3>2. QED
      BY <1>3, <2>1, <2>2, <3>1
  <2>5. QED
    BY <2>3, <2>4
<1>5. CASE ~In(v, h) /\ In(k, h)
  <2>1. In(k, g) /\ gk \in Nat \ {0} /\ hk \in Nat \ {0} /\ gk < hk
    BY <1>1, <1>5
  <2>2. Score(v, k, h) = <<1, hk>>
    BY <1>5, Scores
  <2>3. CASE In(v, g)
    <3>1. gv \in Nat \ {0} /\ Score(v, k, g) = <<gk + gv, gv * gk>>
      BY <2>1, <2>3, PlaceInRange, Scores
    <3>2. QED
      BY <1>3, <2>1, <2>2, <3>1
  <2>4. CASE ~In(v, g)
    <3>1. Score(v, k, g) = <<1, gk>>
      BY <2>1, <2>4, Scores
    <3>2. QED
      BY <1>3, <2>1, <2>2, <3>1
  <2>5. QED
    BY <2>3, <2>4
<1>6. QED
  BY <1>2, <1>4, <1>5

(***************************************************************************)
(* hybrid_search: the loop.                                                *)
(***************************************************************************)

\* A hit that is added takes one place of its own document and of no other.
LEMMA ShareGrows ==
    ASSUME NEW list \in Seq(Hit), NEW doc, NEW h \in Hit, NEW d
    PROVE  /\ Cardinality(OfDocument(list, doc, d)) \in Nat
           /\ doc[h] = d => Cardinality(OfDocument(Append(list, h), doc, d))
                              = Cardinality(OfDocument(list, doc, d)) + 1
           /\ doc[h] # d => Cardinality(OfDocument(Append(list, h), doc, d))
                              = Cardinality(OfDocument(list, doc, d))
<1> DEFINE n == Len(list)
           new == Append(list, h)
<1>1. /\ n \in Nat /\ Len(new) = n + 1 /\ new[n + 1] = h
      /\ \A i \in 1..n : new[i] = list[i]
  OBVIOUS
<1> HIDE DEF n, new
<1>2. IsFiniteSet(OfDocument(list, doc, d))
  <2>1. OfDocument(list, doc, d) \subseteq 1..n
    BY DEF OfDocument, n
  <2>2. IsFiniteSet(1..n)
    BY <1>1, FS_Interval
  <2>3. QED
    BY <2>1, <2>2, FS_Subset
<1>3. Cardinality(OfDocument(list, doc, d)) \in Nat
  BY <1>2, FS_CardinalityType
<1>4. CASE doc[h] = d
  <2>1. OfDocument(new, doc, d) = OfDocument(list, doc, d) \cup {n + 1}
    BY <1>1, <1>4 DEF OfDocument, n
  <2>2. n + 1 \notin OfDocument(list, doc, d)
    BY <1>1 DEF OfDocument, n
  <2>3. QED
    BY <1>2, <1>3, <1>4, <2>1, <2>2, FS_AddElement DEF new
<1>5. CASE doc[h] # d
  <2>1. OfDocument(new, doc, d) = OfDocument(list, doc, d)
    BY <1>1, <1>5 DEF OfDocument, n
  <2>2. QED
    BY <1>3, <1>5, <2>1 DEF new
<1>6. QED
  BY <1>4, <1>5

TakenOf(d) == Cardinality(OfDocument(result, call.doc, d))

\* A hit that had its turn is a candidate, unless its document has its share.
TurnsHaveReason ==
    \A h \in HitsOf(call.vector, call.keyword) \ pending :
        In(result, h) \/ TakenOf(call.doc[h]) = MaxShare

\* The candidates are in order and before all that is still pending.
CandidatesInOrder ==
    /\ \A i, j \in DOMAIN result :
         i < j => Before(call.vector, call.keyword, result[i], result[j])
    /\ \A i \in DOMAIN result, h \in pending :
         Before(call.vector, call.keyword, result[i], h)

SearchInv ==
    call.fn = "search" =>
        /\ result \in Seq(HitsOf(call.vector, call.keyword))
        /\ pending \subseteq HitsOf(call.vector, call.keyword)
        /\ Len(result) <= call.limit
        /\ ~returned => Len(result) < call.limit
        /\ returned => pending = {} \/ Len(result) = call.limit
        /\ \A d \in Document : TakenOf(d) <= MaxShare
        /\ TurnsHaveReason
        /\ CandidatesInOrder

LEMMA TryCandidateKeepsInv ==
    ASSUME call \in Calls, SearchInv, NEW h, TryCandidate(h)
    PROVE  SearchInv'
<1> DEFINE hits == HitsOf(call.vector, call.keyword)
           d == call.doc[h]
           n == Len(result)
<1>1. /\ call.fn = "search" /\ call' = call /\ ~returned
      /\ h \in pending /\ pending' = pending \ {h}
      /\ \A g \in pending \ {h} : Before(call.vector, call.keyword, h, g)
      /\ result' = IF HasRoom(result, call.doc, d) THEN Append(result, h) ELSE result
  BY DEF TryCandidate
<1>2. returned' = (Len(result') = call.limit)
  BY DEF TryCandidate
<1>3. /\ result \in Seq(hits) /\ pending \subseteq hits
      /\ n < call.limit
      /\ \A e \in Document : TakenOf(e) <= MaxShare
      /\ TurnsHaveReason /\ CandidatesInOrder
  BY <1>1 DEF SearchInv
<1>4. /\ call.limit \in Nat /\ call.doc \in [Hit -> Document] /\ MaxShare \in Nat
      /\ hits \subseteq Hit /\ h \in hits /\ h \in Hit /\ d \in Document /\ n \in Nat
      /\ result \in Seq(Hit)
  <2>1. call.limit \in Nat /\ call.doc \in [Hit -> Document] /\ MaxShare \in Nat
    BY <1>1, SearchArguments, PassageAssumption
  <2>2. hits \subseteq Hit /\ h \in hits /\ h \in Hit
    BY <1>1, <1>3 DEF HitsOf
  <2>3. result \in Seq(Hit)
    BY <1>3, <2>2, SeqMonotonic
  <2> HIDE DEF hits
  <2>4. QED
    BY <2>1, <2>2, <2>3
<1>5. HasRoom(result, call.doc, d) <=> TakenOf(d) < MaxShare
  BY DEF HasRoom, TakenOf
<1>6. \A e : TakenOf(e) \in Nat
  BY <1>4, ShareGrows DEF TakenOf
<1> HIDE DEF hits
<1>7. hits' = hits
  BY <1>1 DEF hits
<1>8. CASE TakenOf(d) < MaxShare
  <2>1. result' = Append(result, h)
    BY <1>1, <1>5, <1>8
  <2>2. /\ result' \in Seq(hits) /\ Len(result') = n + 1
        /\ DOMAIN result = 1..n /\ DOMAIN result' = 1..(n + 1)
        /\ result'[n + 1] = h /\ \A i \in 1..n : result'[i] = result[i]
    BY <1>3, <1>4, <2>1
  <2>3. \A e : /\ e = d => TakenOf(e)' = TakenOf(e) + 1
               /\ e # d => TakenOf(e)' = TakenOf(e)
    BY <1>1, <1>4, <2>1, ShareGrows DEF TakenOf
  <2> HIDE DEF d, n
  <2>4. \A e \in Document : TakenOf(e)' <= MaxShare
    BY <1>3, <1>4, <1>6, <1>8, <2>3
  <2>5. TurnsHaveReason'
    <3> SUFFICES ASSUME NEW g \in hits \ pending'
                 PROVE  In(result', g) \/ TakenOf(call.doc[g])' = MaxShare
      BY <1>1, <1>7 DEF TurnsHaveReason, TakenOf, hits
    <3>1. CASE g = h
      BY <1>4, <2>2, <3>1 DEF In
    <3>2. CASE g # h
      <4>1. g \in hits \ pending
        BY <1>1, <3>2
      <4>2. In(result, g) \/ TakenOf(call.doc[g]) = MaxShare
        BY <1>3, <4>1 DEF TurnsHaveReason, hits
      <4>3. In(result, g) => In(result', g)
        BY <1>4, <2>2 DEF In, n
      <4>4. \A e : TakenOf(e) = MaxShare => TakenOf(e)' = MaxShare
        BY <1>4, <1>8, <2>3
      <4>5. QED
        BY <1>1, <4>2, <4>3, <4>4
    <3>3. QED
      BY <3>1, <3>2
  <2>6. CandidatesInOrder'
    <3>1. ASSUME NEW i \in 1..(n + 1), NEW j \in 1..(n + 1), i < j
          PROVE  Before(call.vector, call.keyword, result'[i], result'[j])
      <4>1. i \in 1..n /\ result'[i] = result[i]
        BY <1>4, <2>2, <3>1
      <4>2. CASE j \in 1..n
        BY <1>3, <2>2, <3>1, <4>1, <4>2 DEF CandidatesInOrder
      <4>3. CASE j = n + 1
        BY <1>1, <1>3, <2>2, <4>1, <4>3 DEF CandidatesInOrder
      <4>4. QED
        BY <1>4, <4>2, <4>3
    <3>2. ASSUME NEW i \in 1..(n + 1), NEW g \in pending'
          PROVE  Before(call.vector, call.keyword, result'[i], g)
      <4>1. CASE i \in 1..n
        BY <1>1, <1>3, <2>2, <4>1, <3>2 DEF CandidatesInOrder
      <4>2. CASE i = n + 1
        BY <1>1, <2>2, <4>2, <3>2
      <4>3. QED
        BY <1>4, <4>1, <4>2
    <3>3. QED
      BY <1>1, <2>2, <3>1, <3>2 DEF CandidatesInOrder
  <2>7. n + 1 <= call.limit /\ (n + 1 # call.limit => n + 1 < call.limit)
    BY <1>3, <1>4 DEF n
  <2>8. pending' \subseteq hits
    BY <1>1, <1>3
  <2>9. (returned' => Len(result') = call.limit) /\ (~returned' => Len(result') # call.limit)
    BY <1>2, Zenon
  <2>10. QED
    BY <1>1, <1>7, <2>2, <2>4, <2>5, <2>6, <2>7, <2>8, <2>9 DEF SearchInv, hits
<1>9. CASE ~(TakenOf(d) < MaxShare)
  <2>1. result' = result
    BY <1>1, <1>5, <1>9
  <2>2. TakenOf(d) = MaxShare
    BY <1>3, <1>4, <1>6, <1>9
  <2>3. \A e : TakenOf(e)' = TakenOf(e)
    BY <1>1, <2>1 DEF TakenOf
  <2>4. TurnsHaveReason'
    <3> SUFFICES ASSUME NEW g \in hits \ pending'
                 PROVE  In(result, g) \/ TakenOf(call.doc[g]) = MaxShare
      BY <1>1, <1>7, <2>1 DEF TurnsHaveReason, TakenOf, hits
    <3>1. CASE g = h
      BY <2>2, <3>1
    <3>2. CASE g # h
      BY <1>1, <1>3, <3>2 DEF TurnsHaveReason, hits
    <3>3. QED
      BY <3>1, <3>2
  <2>5. CandidatesInOrder'
    BY <1>1, <1>3, <2>1 DEF CandidatesInOrder
  <2>6. pending' \subseteq hits
    BY <1>1, <1>3
  <2>7. returned' => Len(result') = call.limit
    BY <1>2, Zenon
  <2>8. QED
    BY <1>1, <1>3, <1>4, <1>7, <2>1, <2>3, <2>4, <2>5, <2>6, <2>7 DEF SearchInv, hits
<1>10. QED
  BY <1>8, <1>9

\* The loop invariant of hybrid_search.
LEMMA SearchInvariant == Spec => []SearchInv
<1>1. Init => SearchInv
  <2> SUFFICES ASSUME Init, call.fn = "search" PROVE SearchInv
    BY DEF SearchInv
  <2> DEFINE hits == HitsOf(call.vector, call.keyword)
  <2>1. call \in Calls /\ result = << >> /\ returned = FALSE /\ pending = hits
    BY DEF Init, Calls
  <2>2. call.limit \in Nat \ {0} /\ MaxShare \in Nat
    BY <2>1, SearchArguments, PassageAssumption
  <2>3. \A d : TakenOf(d) = 0
    <3>1. \A d : OfDocument(result, call.doc, d) = {}
      BY <2>1 DEF OfDocument
    <3>2. QED
      BY <3>1, FS_EmptySet DEF TakenOf
  <2>4. result \in Seq(hits) /\ Len(result) = 0 /\ DOMAIN result = {}
    BY <2>1
  <2>5. TurnsHaveReason
    BY <2>1 DEF TurnsHaveReason
  <2>6. CandidatesInOrder
    BY <2>4 DEF CandidatesInOrder
  <2> HIDE DEF hits
  <2>7. QED
    BY <2>1, <2>2, <2>3, <2>4, <2>5, <2>6 DEF SearchInv, hits
<1>2. call \in Calls /\ SearchInv /\ [Next]_vars => SearchInv'
  <2> SUFFICES ASSUME call \in Calls, SearchInv, [Next]_vars, call'.fn = "search"
               PROVE  SearchInv'
    BY DEF SearchInv
  <2> USE DEF SearchInv, TakenOf, TurnsHaveReason, CandidatesInOrder
  <2>1. call' = call
    BY CallsStay
  <2>2. CASE \E h \in Hit : TryCandidate(h)
    BY <2>2, TryCandidateKeepsInv
  <2>3. CASE LoopEnds
    <3>1. pending = {} /\ returned' /\ UNCHANGED <<result, pending>>
      BY <2>1, <2>3 DEF LoopEnds
    <3>2. QED
      BY <2>1, <3>1
  <2>4. CASE UNCHANGED <<result, pending, returned>>
    BY <2>1, <2>4
  <2>5. QED
    BY <2>1, <2>2, <2>3, <2>4
       DEF Next, vars, CutWindow, AtResult, SkipSeen, BudgetSpent, TakeContext, Over
<1>3. QED
  BY <1>1, <1>2, CallInvariant, PTL DEF Spec

\* However many hits a search asks for and however they are spread over the
\* documents: none takes more than its share, and no hit is left out without
\* reason.
THEOREM SharesAreKept == Spec => [](ShareIsKept /\ OmissionsHaveReason)
<1>1. call \in Calls /\ SearchInv => ShareIsKept
  BY DEF SearchInv, ShareIsKept, TakenOf
<1>2. call \in Calls /\ SearchInv => OmissionsHaveReason
  BY DEF SearchInv, OmissionsHaveReason, TurnsHaveReason, TakenOf
<1>3. QED
  BY <1>1, <1>2, SearchInvariant, CallInvariant, PTL

\* Of two candidates the first is never worse in every list, whatever the limit.
LEMMA BetterIsEarlier ==
    ASSUME call \in Calls, SearchInv, call.fn = "search",
           NEW i \in DOMAIN result, NEW j \in DOMAIN result, i < j
    PROVE  ~Better(result[j], result[i])
<1>1. Before(call.vector, call.keyword, result[i], result[j])
  BY DEF SearchInv, CandidatesInOrder
<1>2. result[i] \in HitsOf(call.vector, call.keyword)
      /\ result[j] \in HitsOf(call.vector, call.keyword)
  BY DEF SearchInv
<1>3. Len(call.vector) \in Nat /\ Len(call.keyword) \in Nat
  BY SearchArguments
<1>4. ASSUME Better(result[j], result[i])
      PROVE  Above(Score(call.vector, call.keyword, result[j]),
                   Score(call.vector, call.keyword, result[i]))
  BY <1>2, <1>3, <1>4, BetterAbove DEF Better, HitsOf
<1>5. \A h : Better(h, result[i]) => In(call.vector, h) \/ In(call.keyword, h)
  BY <1>2 DEF Better, HitsOf
<1>6. QED
  BY <1>1, <1>2, <1>3, <1>4, <1>5, AboveComesFirst DEF HitsOf

\* The candidates of a search are diverse, complete and in order.  With lists of
\* more than 61 hits, one that both found could come after one that a single
\* list found, since 1/122 + 1/122 is 1/61; the code asks for 20.
THEOREM CandidatesStayDiverse ==
    ASSUME MaxCandidates <= 61
    PROVE  Spec => []CandidatesAreDiverse
<1>1. call \in Calls /\ SearchInv => BestComeFirst
  <2> SUFFICES ASSUME call \in Calls, SearchInv, call.fn = "search",
                      NEW i \in DOMAIN result, NEW j \in DOMAIN result, i < j
               PROVE  /\ ~Better(result[j], result[i])
                      /\ Both(result[j]) => Both(result[i])
    BY DEF BestComeFirst
  <2>1. ~Better(result[j], result[i])
    BY BetterIsEarlier
  <2>2. ASSUME Both(result[j]), ~Both(result[i]) PROVE FALSE
    <3>1. Before(call.vector, call.keyword, result[i], result[j])
      BY DEF SearchInv, CandidatesInOrder
    <3>2. result[i] \in HitsOf(call.vector, call.keyword)
      BY DEF SearchInv
    <3>3. \A l \in {call.vector, call.keyword} : Len(l) \in Nat /\ Len(l) <= 61
      <4>1. call.limit \in Nat /\ call.limit <= MaxCandidates
        BY SearchArguments
      <4>2. QED
        BY <4>1, SearchArguments, PassageAssumption
    <3>4. Above(Score(call.vector, call.keyword, result[j]),
                Score(call.vector, call.keyword, result[i]))
      BY <2>2, <3>2, <3>3, BothAbove DEF Both, HitsOf
    <3>5. QED
      BY <2>2, <3>1, <3>2, <3>3, <3>4, AboveComesFirst DEF Both, HitsOf
  <2>3. QED
    BY <2>1, <2>2
<1>2. QED
  BY <1>1, SharesAreKept, SearchInvariant, CallInvariant, PTL DEF CandidatesAreDiverse

(***************************************************************************)
(* expand_context.                                                         *)
(***************************************************************************)

LEMMA ExpandArguments ==
    ASSUME call \in Calls, call.fn = "expand"
    PROVE  /\ Len(call.hits) \in Nat \ {0} /\ DOMAIN call.hits = 1..Len(call.hits)
           /\ call.max \in Nat \ {0}
           /\ \A i \in 1..Len(call.hits) :
                /\ call.hits[i].length \in Nat /\ call.hits[i].blanks \in Nat
                /\ HasParent(i) => call.parents[call.hits[i].parent] \in Nat
<1>1. call \in ExpandCalls
  BY DEF Calls, SplitCalls, SearchCalls, ExpandCalls
<1>2. PICK n \in 1..MaxHits : call.hits \in [1..n -> Found]
  BY <1>1 DEF ExpandCalls
<1>3. n \in Nat \ {0}
  BY PassageAssumption
<1>4. call.hits \in Seq(Found) /\ Len(call.hits) = n /\ DOMAIN call.hits = 1..n
  BY <1>2, <1>3, SeqDef
<1>5. call.max \in Nat \ {0}
  BY <1>1, PassageAssumption DEF ExpandCalls
<1>6. PICK P \in SUBSET Parent : call.parents \in [P -> ParentLength]
  BY <1>1 DEF ExpandCalls
<1>7. ASSUME NEW i \in 1..n
      PROVE  /\ call.hits[i].length \in Nat /\ call.hits[i].blanks \in Nat
             /\ HasParent(i) => call.parents[call.hits[i].parent] \in Nat
  <2>1. call.hits[i] \in Found
    BY <1>2
  <2>2. HasParent(i) => call.parents[call.hits[i].parent] \in ParentLength
    BY <1>6 DEF HasParent
  <2>3. QED
    BY <2>1, <2>2, PassageAssumption DEF Found
<1>8. QED
  BY <1>3, <1>4, <1>5, <1>7

\* What is taken fits into what is left of the budget, if anything is left.
LEMMA ContextFits ==
    ASSUME call \in Calls, call.fn = "expand", NEW i \in 1..Len(call.hits),
           NEW left \in Nat \ {0}
    PROVE  /\ ContextTokens(i, left) \in Nat \ {0}
           /\ ContextTokens(i, left) <= left
<1> DEFINE hit == call.hits[i]
           length == IF HasParent(i) THEN call.parents[hit.parent] ELSE hit.length
           part == Smaller(hit.length, Larger(2, 2 * left))
<1>1. hit.length \in Nat /\ hit.blanks \in Nat /\ length \in Nat
  BY ExpandArguments
<1>2. \A x \in Int : Tokens(x) \in Nat \ {0}
  BY DEF Tokens, Larger
<1>3. part \in Nat /\ part <= 2 * left
  BY <1>1 DEF Smaller, Larger
<1>4. part - hit.blanks \in Int /\ part - hit.blanks <= 2 * left
  BY <1>1, <1>3
<1>5. \A x \in Int : x <= 2 * left => Tokens(x) <= left
  BY DEF Tokens, Larger
<1>6. ContextTokens(i, left) =
        IF Tokens(length) <= left THEN Tokens(length)
        ELSE IF Tokens(hit.length) <= left THEN Tokens(hit.length)
        ELSE Tokens(part - hit.blanks)
  BY DEF ContextTokens
<1> DEFINE rest == part - hit.blanks
           own == hit.length
<1>7. /\ Tokens(length) \in Nat \ {0} /\ Tokens(own) \in Nat \ {0}
      /\ Tokens(rest) \in Nat \ {0} /\ Tokens(rest) <= left
  <2> HIDE DEF length, rest, own
  <2>1. length \in Int /\ own \in Int /\ rest \in Int /\ rest <= 2 * left
    BY <1>1, <1>4 DEF rest, own
  <2>2. QED
    BY <1>2, <1>5, <2>1
<1> HIDE DEF hit, length, part
<1>8. QED
  BY <1>6, <1>7

Keys == {ContextKey(i) : i \in 1..Len(call.hits)}
Contexts == [hit : 1..Len(call.hits), key : Keys, tokens : Nat]

\* Every result that had its turn is in the context, or another of its parent
\* was before it.
TurnsAreMet ==
    \A h \in 1..position : \E i \in DOMAIN result :
        \/ result[i].hit = h
        \/ result[i].hit < h /\ result[i].key = <<"parent", call.hits[h].parent>>

\* What is in the context was met, stands in it once, and is what was seen.
ContextIsWhatWasMet ==
    /\ \A i \in DOMAIN result :
         result[i].hit <= position /\ result[i].key = ContextKey(result[i].hit)
    /\ \A i, j \in DOMAIN result : result[i].key = result[j].key => i = j
    /\ ~returned => seen = {result[i].key : i \in DOMAIN result}

ExpandInv ==
    call.fn = "expand" =>
        /\ result \in Seq(Contexts)
        /\ position \in 0..Len(call.hits)
        /\ used \in Nat /\ used <= call.max
        /\ position = 0 => used = 0
        /\ position > 0 => result # << >> /\ result[1].hit = 1
        /\ ContextIsWhatWasMet
        /\ TurnsAreMet
        /\ returned => position > 0 /\ (used = call.max \/ position = Len(call.hits))

LEMMA TakeContextKeepsInv ==
    ASSUME call \in Calls, ExpandInv, NEW i, TakeContext(i)
    PROVE  ExpandInv'
<1> DEFINE n == Len(result)
           tokens == ContextTokens(i, call.max - used)
           new == [hit |-> i, key |-> ContextKey(i), tokens |-> tokens]
<1>1. /\ call.fn = "expand" /\ call' = call /\ ~returned /\ returned' = returned
      /\ i \in 1..Len(call.hits) /\ i = position + 1
      /\ ContextKey(i) \notin seen /\ used < call.max
      /\ result' = Append(result, new) /\ used' = used + tokens
      /\ seen' = seen \cup {ContextKey(i)} /\ position' = i
  BY DEF TakeContext, AtResult
<1>2. /\ result \in Seq(Contexts) /\ position \in 0..Len(call.hits)
      /\ used \in Nat /\ used <= call.max
      /\ position > 0 => result # << >> /\ result[1].hit = 1
      /\ ContextIsWhatWasMet /\ TurnsAreMet
  BY <1>1 DEF ExpandInv
<1>3. Len(call.hits) \in Nat \ {0} /\ call.max \in Nat \ {0}
  BY <1>1, ExpandArguments
<1>4. call.max - used \in Nat \ {0}
  BY <1>1, <1>2, <1>3
<1>5. tokens \in Nat \ {0} /\ tokens <= call.max - used
  BY <1>1, <1>4, ContextFits
<1> HIDE DEF tokens
<1>6. used' \in Nat /\ used' <= call.max
  BY <1>1, <1>2, <1>3, <1>5
<1>7. new \in Contexts
  BY <1>1, <1>5 DEF Contexts, Keys
<1>8. /\ n \in Nat /\ DOMAIN result = 1..n /\ DOMAIN result' = 1..(n + 1)
      /\ result' \in Seq(Contexts) /\ result' # << >>
      /\ result'[n + 1] = new /\ \A k \in 1..n : result'[k] = result[k]
  BY <1>1, <1>2, <1>7
<1>9. new.hit = i /\ new.key = ContextKey(i)
  OBVIOUS
<1> HIDE DEF n, new
<1>10. result'[1].hit = 1
  <2>1. CASE n = 0
    <3>1. result = << >>
      BY <1>2, <1>8, <2>1, EmptySeq DEF n
    <3>2. position = 0
      BY <1>2, <1>3, <3>1
    <3>3. QED
      BY <1>1, <1>8, <1>9, <2>1, <3>2
  <2>2. CASE n # 0
    <3>1. 1 \in 1..n /\ result'[1] = result[1]
      BY <1>8, <2>2
    <3>2. result[1].hit <= position /\ result[1] \in Contexts
      BY <1>2, <1>8, <3>1 DEF ContextIsWhatWasMet
    <3>3. position > 0
      BY <1>2, <1>3, <3>2 DEF Contexts
    <3>4. QED
      BY <1>2, <3>1, <3>3
  <2>3. QED
    BY <2>1, <2>2
<1>11. \A k \in 1..n : result[k].key # ContextKey(i)
  BY <1>1, <1>2, <1>8 DEF ContextIsWhatWasMet
<1>12. ASSUME NEW k \in 1..n
       PROVE  result[k].hit \in Nat /\ result[k].hit <= position
  <2>1. result[k] \in Contexts /\ result[k].hit <= position
    BY <1>2, <1>8 DEF ContextIsWhatWasMet
  <2>2. QED
    BY <1>3, <2>1 DEF Contexts
<1>13. \A k : ContextKey(k)' = ContextKey(k)
  BY <1>1 DEF ContextKey, HasParent
<1>14. ContextIsWhatWasMet'
  <2>1. ASSUME NEW k \in 1..(n + 1)
        PROVE  result'[k].hit <= position' /\ result'[k].key = ContextKey(result'[k].hit)
    <3>1. CASE k \in 1..n
      <4>1. result'[k] = result[k]
        BY <1>8, <3>1
      <4>2. result[k].key = ContextKey(result[k].hit)
        BY <1>2, <1>8, <3>1 DEF ContextIsWhatWasMet
      <4>3. result[k].hit \in Nat /\ result[k].hit <= position
        BY <1>12, <3>1
      <4>4. position \in Nat /\ position' = position + 1
        BY <1>1, <1>2, <1>3
      <4>5. QED
        BY <4>1, <4>2, <4>3, <4>4
    <3>2. CASE k = n + 1
      BY <1>1, <1>8, <1>9, <3>2
    <3>3. QED
      BY <1>8, <3>1, <3>2
  <2>2. ASSUME NEW k \in 1..(n + 1), NEW l \in 1..(n + 1), result'[k].key = result'[l].key
        PROVE  k = l
    <3>1. CASE k \in 1..n /\ l \in 1..n
      BY <1>2, <1>8, <2>2, <3>1 DEF ContextIsWhatWasMet
    <3>2. CASE k = n + 1 \/ l = n + 1
      BY <1>8, <1>9, <1>11, <2>2, <3>2
    <3>3. QED
      BY <1>8, <3>1, <3>2
  <2>3. seen' = {result'[k].key : k \in 1..(n + 1)}
    <3>1. seen = {result[k].key : k \in 1..n}
      BY <1>1, <1>2, <1>8 DEF ContextIsWhatWasMet
    <3>2. QED
      BY <1>1, <1>8, <1>9, <3>1
  <2>4. QED
    BY <1>8, <1>13, <2>1, <2>2, <2>3 DEF ContextIsWhatWasMet
<1>15. TurnsAreMet'
  <2> SUFFICES ASSUME NEW h \in 1..i
               PROVE  \E k \in 1..(n + 1) :
                        \/ result'[k].hit = h
                        \/ /\ result'[k].hit < h
                           /\ result'[k].key = <<"parent", call.hits[h].parent>>
    BY <1>1, <1>8 DEF TurnsAreMet
  <2>1. CASE h = i
    BY <1>8, <1>9, <2>1
  <2>2. CASE h # i
    <3>1. h \in 1..position
      BY <1>1, <1>2, <1>3, <2>2
    <3>2. PICK k \in 1..n :
             \/ result[k].hit = h
             \/ result[k].hit < h /\ result[k].key = <<"parent", call.hits[h].parent>>
      BY <1>2, <1>8, <3>1 DEF TurnsAreMet
    <3>3. QED
      BY <1>8, <3>2
  <2>3. QED
    BY <2>1, <2>2
<1>16. Contexts' = Contexts
  BY <1>1 DEF Contexts, Keys, ContextKey, HasParent
<1>17. QED
  BY <1>1, <1>3, <1>6, <1>8, <1>10, <1>14, <1>15, <1>16 DEF ExpandInv

LEMMA SkipSeenKeepsInv ==
    ASSUME call \in Calls, ExpandInv, NEW i, SkipSeen(i)
    PROVE  ExpandInv'
<1>1. /\ call.fn = "expand" /\ call' = call /\ ~returned /\ returned' = returned
      /\ i \in 1..Len(call.hits) /\ i = position + 1
      /\ ContextKey(i) \in seen
      /\ result' = result /\ used' = used /\ seen' = seen /\ position' = i
  BY DEF SkipSeen, AtResult
<1>2. /\ result \in Seq(Contexts) /\ position \in 0..Len(call.hits)
      /\ position > 0 => result # << >> /\ result[1].hit = 1
      /\ ContextIsWhatWasMet /\ TurnsAreMet
  BY <1>1 DEF ExpandInv
<1>3. Len(call.hits) \in Nat
  BY <1>1, ExpandArguments
<1>4. PICK k \in DOMAIN result : result[k].key = ContextKey(i)
  BY <1>1, <1>2 DEF ContextIsWhatWasMet
<1>5. /\ result[k] \in Contexts /\ result[k].hit <= position
      /\ result[k].key = ContextKey(result[k].hit)
  BY <1>2 DEF ContextIsWhatWasMet
<1>6. result[k].hit \in Nat \ {0} /\ result[k].hit < i /\ position > 0
  BY <1>1, <1>2, <1>3, <1>5 DEF Contexts
<1>7. ContextKey(i) = <<"parent", call.hits[i].parent>>
  BY <1>4, <1>5, <1>6 DEF ContextKey
<1>8. TurnsAreMet'
  <2> SUFFICES ASSUME NEW h \in 1..i
               PROVE  \E j \in DOMAIN result :
                        \/ result[j].hit = h
                        \/ result[j].hit < h /\ result[j].key = <<"parent", call.hits[h].parent>>
    BY <1>1 DEF TurnsAreMet
  <2>1. CASE h = i
    BY <1>4, <1>6, <1>7, <2>1
  <2>2. CASE h # i
    <3>1. h \in 1..position
      BY <1>1, <1>2, <1>3, <2>2
    <3>2. QED
      BY <1>2, <3>1 DEF TurnsAreMet
  <2>3. QED
    BY <2>1, <2>2
<1>9. ContextIsWhatWasMet'
  <2>1. \A j \in DOMAIN result : result[j].hit <= i
    <3> SUFFICES ASSUME NEW j \in DOMAIN result PROVE result[j].hit <= i
      OBVIOUS
    <3>1. result[j] \in Contexts /\ result[j].hit <= position
      BY <1>2 DEF ContextIsWhatWasMet
    <3>2. QED
      BY <1>1, <1>2, <1>3, <3>1 DEF Contexts
  <2>2. \A j : ContextKey(j)' = ContextKey(j)
    BY <1>1 DEF ContextKey, HasParent
  <2>3. QED
    BY <1>1, <1>2, <2>1, <2>2 DEF ContextIsWhatWasMet
<1>10. Contexts' = Contexts
  BY <1>1 DEF Contexts, Keys, ContextKey, HasParent
<1>11. QED
  BY <1>1, <1>2, <1>3, <1>6, <1>8, <1>9, <1>10 DEF ExpandInv

\* A step that returns and leaves what was collected.
LEMMA ReturningKeepsInv ==
    ASSUME call \in Calls, ExpandInv, call.fn = "expand", call' = call,
           UNCHANGED <<result, position, used>>, returned',
           used >= call.max \/ position = Len(call.hits)
    PROVE  ExpandInv'
<1>1. /\ Len(call.hits) \in Nat \ {0} /\ call.max \in Nat \ {0}
      /\ used \in Nat /\ used <= call.max /\ position \in 0..Len(call.hits)
      /\ position = 0 => used = 0
  BY ExpandArguments DEF ExpandInv
<1>2. position > 0 /\ (used = call.max \/ position = Len(call.hits))
  BY <1>1
<1>3. Contexts' = Contexts
  BY DEF Contexts, Keys, ContextKey, HasParent
<1>4. ContextIsWhatWasMet' /\ TurnsAreMet'
  BY DEF ExpandInv, ContextIsWhatWasMet, TurnsAreMet, ContextKey, HasParent
<1>5. QED
  BY <1>2, <1>3, <1>4 DEF ExpandInv

\* The loop invariant of expand_context.
LEMMA ExpandInvariant == Spec => []ExpandInv
<1>1. Init => ExpandInv
  <2> SUFFICES ASSUME Init, call.fn = "expand" PROVE ExpandInv
    BY DEF ExpandInv
  <2>1. /\ call \in Calls /\ result = << >> /\ position = 0 /\ used = 0 /\ seen = {}
        /\ returned = FALSE
    BY DEF Init, Calls
  <2>2. Len(call.hits) \in Nat \ {0} /\ call.max \in Nat \ {0}
    BY <2>1, ExpandArguments
  <2>3. result \in Seq(Contexts) /\ DOMAIN result = {}
    BY <2>1
  <2>4. ContextIsWhatWasMet /\ TurnsAreMet
    BY <2>1, <2>3 DEF ContextIsWhatWasMet, TurnsAreMet
  <2>5. QED
    BY <2>1, <2>2, <2>3, <2>4 DEF ExpandInv
<1>2. call \in Calls /\ ExpandInv /\ [Next]_vars => ExpandInv'
  <2> SUFFICES ASSUME call \in Calls, ExpandInv, [Next]_vars, call'.fn = "expand"
               PROVE  ExpandInv'
    BY DEF ExpandInv
  <2>1. call' = call
    BY CallsStay
  <2>2. CASE \E i \in 1..MaxHits : TakeContext(i)
    BY <2>2, TakeContextKeepsInv
  <2>3. CASE \E i \in 1..MaxHits : SkipSeen(i)
    BY <2>3, SkipSeenKeepsInv
  <2>4. CASE \E i \in 1..MaxHits : BudgetSpent(i)
    BY <2>1, <2>4, ReturningKeepsInv DEF BudgetSpent, AtResult
  <2>5. CASE LoopEnds
    BY <2>1, <2>5, ReturningKeepsInv DEF LoopEnds
  <2>6. CASE UNCHANGED vars
    <3>1. UNCHANGED <<call, result, position, used, seen, returned>>
      BY <2>6 DEF vars
    <3>2. Contexts' = Contexts
      BY <3>1 DEF Contexts, Keys, ContextKey, HasParent
    <3>3. ContextIsWhatWasMet' = ContextIsWhatWasMet
      BY <3>1 DEF ContextIsWhatWasMet, ContextKey, HasParent
    <3>4. TurnsAreMet' = TurnsAreMet
      BY <3>1 DEF TurnsAreMet
    <3>5. QED
      BY <3>1, <3>2, <3>3, <3>4 DEF ExpandInv
  <2>7. QED
    BY <2>1, <2>2, <2>3, <2>4, <2>5, <2>6 DEF Next, CutWindow, TryCandidate, Over
<1>3. QED
  BY <1>1, <1>2, CallInvariant, PTL DEF Spec

\* Whatever the lengths, the budget and the parents that are gone: the context
\* keeps to its budget, has the best hit, and leaves none out without reason.
THEOREM ContextKeepsToBudget == Spec => []ContextFitsBudget
<1>1. call \in Calls /\ ExpandInv => ContextFitsBudget
  <2> SUFFICES ASSUME call \in Calls, ExpandInv, call.fn = "expand" PROVE ContextFitsBudget
    BY DEF ContextFitsBudget
  <2>1. /\ used <= call.max
        /\ \A i, j \in DOMAIN result : result[i].key = result[j].key => i = j
    BY DEF ExpandInv, ContextIsWhatWasMet
  <2>2. ASSUME returned
        PROVE  /\ result # << >> /\ result[1].hit = 1
               /\ \A h \in DOMAIN call.hits :
                    \/ used = call.max
                    \/ \E i \in DOMAIN result :
                         \/ result[i].hit = h
                         \/ /\ result[i].hit < h
                            /\ result[i].key = <<"parent", call.hits[h].parent>>
    <3>1. position > 0 /\ (used = call.max \/ position = Len(call.hits))
      BY <2>2 DEF ExpandInv
    <3>2. DOMAIN call.hits = 1..Len(call.hits)
      BY ExpandArguments
    <3>3. QED
      BY <3>1, <3>2 DEF ExpandInv, TurnsAreMet
  <2>3. QED
    BY <2>1, <2>2 DEF ContextFitsBudget
<1>2. QED
  BY <1>1, ExpandInvariant, CallInvariant, PTL

(***************************************************************************)
(* The loops end.                                                          *)
(***************************************************************************)

\* No text, lists or budget keep a loop busy: each of its turns returns or gets
\* closer to the end of what it runs over, which is finite.
THEOREM LoopsComeToAnEnd == Spec => LoopsAdvance
<1>1. ASSUME call \in Calls, SplitInv, NEW end, CutWindow(end) PROVE Closer
  <2>1. /\ call.fn = "split" /\ call' = call
        /\ position \in Nat /\ position < Len(call.text)
        /\ end \in WindowEnds(call.text, call.size, position)
        /\ position' = IF returned' THEN position ELSE NextStart(end, call.overlap, position)
    BY <1>1 DEF CutWindow, SplitInv
  <2>2. ~returned' => end # Len(call.text)
    BY <1>1, Zenon DEF CutWindow
  <2>3. /\ Len(call.text) \in Nat /\ call.size \in Nat \ {0} /\ call.overlap \in Nat
    BY <1>1, <2>1, SplitArguments
  <2>4. end \in Nat /\ position < end /\ end <= Len(call.text)
    BY <2>1, <2>3, WindowBounds
  <2>5. ASSUME ~returned' PROVE position < position' /\ position' <= Len(call.text)
    <3>1. /\ position' \in Nat /\ position < position' /\ position' <= end
      BY <2>1, <2>3, <2>4, <2>5, NextStartBounds
    <3>2. QED
      BY <2>2, <2>3, <2>4, <2>5, <3>1
  <2>6. QED
    BY <2>1, <2>5 DEF Closer
<1>2. ASSUME NEW h, TryCandidate(h) PROVE Closer
  BY <1>2 DEF TryCandidate, Closer
<1>3. ASSUME call \in Calls, ExpandInv, NEW i, SkipSeen(i) \/ TakeContext(i) PROVE Closer
  <2>1. /\ call.fn = "expand" /\ position' = i /\ i = position + 1 /\ i \in 1..Len(call.hits)
    BY <1>3 DEF SkipSeen, TakeContext, AtResult
  <2>2. position \in 0..Len(call.hits) /\ Len(call.hits) \in Nat
    BY <1>3, <2>1, ExpandArguments DEF ExpandInv
  <2>3. position < position' /\ position' <= Len(call.hits)
    BY <2>1, <2>2
  <2>4. QED
    BY <2>1, <2>3 DEF Closer
<1>4. ASSUME LoopEnds \/ \E i \in 1..MaxHits : BudgetSpent(i) PROVE Closer
  BY <1>4 DEF LoopEnds, BudgetSpent, Closer
<1>5. call \in Calls /\ SplitInv /\ ExpandInv /\ [Next]_vars => [Closer]_vars
  BY <1>1, <1>2, <1>3, <1>4 DEF Next, Over
<1>6. QED
  BY <1>5, CallInvariant, SplitInvariant, ExpandInvariant, PTL DEF Spec, LoopsAdvance
=============================================================================
