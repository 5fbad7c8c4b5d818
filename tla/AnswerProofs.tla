---------------------------- MODULE AnswerProofs ----------------------------
(***************************************************************************)
(* Proofs about what an answer of the KnowledgeAgent rests on.             *)
(***************************************************************************)
EXTENDS KnowledgeAgentProofs

Searching == {"rag", "rerank"}
Collecting == Retrieve \/ Rerank \/ ChildEnds
Admitting == ActRetrieve \/ ActInvestigate

\* Only a search and an investigation add evidence, and only an admission
\* counts a call and remembers what was tried.
LEMMA Collected ==
    ASSUME TypeInv, [Next]_vars, ~Collecting, ~Admitting
    PROVE  /\ st'.results = st.results /\ st'.tools = st.tools /\ st'.visited = st.visited
           /\ pc' \in Opening => pc \in Opening
           /\ pc' \in Searching => pc \in Searching
<1> USE DEF Opening, Searching
<1>1. st \in AgentState
  BY DEF TypeInv, TypeOK
<1>2. CASE Controls
  <2>1. CASE Refresh
    BY <1>1, <2>1 DEF Refresh, Refused, AgentState
  <2>2. CASE RefreshFails \/ Prompt
    BY <2>2 DEF RefreshFails, Prompt, Close
  <2>3. CASE BeginRound
    BY <1>1, <2>3 DEF BeginRound, RoundBegun, Refused, AgentState
  <2>4. CASE Decide \/ PlannerFails
    BY <1>1, <2>4 DEF Decide, PlannerFails, Chosen, AgentState
  <2>5. CASE TraceCheck \/ TraceSend
    BY <1>1, <2>5 DEF TraceCheck, TraceSend, Passes, AgentState
  <2>6. CASE ActAnswer \/ ActRefuse \/ ActReplan
    BY <1>1, <2>6 DEF ActAnswer, ActRefuse, ActReplan, Replan, Refuse, Refused, AgentState
  <2> QED
    BY <1>2, <2>1, <2>2, <2>3, <2>4, <2>5, <2>6 DEF Controls
<1>3. CASE Searches
  <2>1. CASE ActRepeated \/ RetrieveFails \/ RetrieveSend \/ CodeOpens \/ CodeRefused
    BY <2>1 DEF ActRepeated, RetrieveFails, RetrieveSend, CodeOpens, CodeRefused, Replan, Close
  <2>2. CASE ChildRound \/ ChildSend \/ ChildStep \/ ChildFails
    BY <2>2 DEF ChildRound, ChildSend, ChildStep, ChildFails, Close
  <2>3. CASE RetrieveCheck \/ ChildCheck
    BY <1>1, <2>3 DEF RetrieveCheck, ChildCheck, Passes, AgentState
  <2> QED
    BY <1>3, <2>1, <2>2, <2>3 DEF Searches, Collecting, Admitting
<1>4. CASE Answers
  <2>1. CASE FinalRefresh
    BY <1>1, <2>1 DEF FinalRefresh, Refused, AgentState
  <2>2. CASE DoneCheck
    BY <1>1, <2>2 DEF DoneCheck, Passes, AgentState
  <2>3. CASE Answers /\ ~FinalRefresh /\ ~DoneCheck
    BY <2>3 DEF Answers, PromptAnswer, Generate, GenerateFails, Validate, DeltaCheck, DeltaSend, DoneSend,
       CheckFails, Close
  <2> QED
    BY <1>4, <2>1, <2>2, <2>3
<1>5. CASE Environment
  BY <1>5 DEF Environment, EndAccess, ChangeProjects, MoveDepartment, Reimport, Change, agent
<1>6. CASE UNCHANGED vars
  BY <1>6 DEF vars
<1> QED
  BY <1>2, <1>3, <1>4, <1>5, <1>6 DEF Next, Step

(***************************************************************************)
(* Ids.                                                                    *)
(***************************************************************************)

\* The id of a document search is the number of tool calls so far, that of an
\* investigation the number of code attempts; a call under way has a number
\* that no evidence has yet.
Numbered(e) ==
    \/ \E n \in Nat : /\ e.id = <<"rag", n>> /\ 1 <= n /\ n <= st.tools
                      /\ pc \in Searching => n < st.tools
    \/ \E n \in Nat : /\ e.id = <<"code", n>> /\ n <= Attempts("query_code_wiki")
                      /\ pc \in Opening => n < Attempts("query_code_wiki")

IdsInv ==
    /\ \A e \in Evidence : Numbered(e)
    /\ pc \in Searching => 1 <= st.tools
    /\ EvidenceIdsDiffer

\* An admission raises both counters it may raise before its result is numbered.
LEMMA AdmittedCounts ==
    ASSUME TypeInv, Admitting, st' # st
    PROVE  /\ st'.results = st.results /\ st'.tools = st.tools + 1
           /\ Attempts("query_code_wiki")' \in Nat
           /\ Attempts("query_code_wiki") <= Attempts("query_code_wiki")'
           /\ pc' \in Opening => Attempts("query_code_wiki") < Attempts("query_code_wiki")'
<1>1. st \in AgentState /\ IsFiniteSet(st.visited)
  BY DEF TypeInv, TypeOK
<1>2. Signature \notin st.visited
  BY DEF Admitting, ActRetrieve, ActInvestigate, Close
<1>3. st' \in {Admitted, Refused(Admitted)}
  BY DEF Admitting, ActRetrieve, ActInvestigate, Close
<1>4. /\ st'.results = st.results /\ st'.tools = st.tools + 1
      /\ st'.visited = st.visited \cup {Signature}
  BY <1>1, <1>3 DEF Admitted, Refused, AgentState
<1> DEFINE code == {v \in st.visited : v[1] = "query_code_wiki"}
           new == {v \in st'.visited : v[1] = "query_code_wiki"}
<1>5. IsFiniteSet(code)
  BY <1>1, FS_Subset
<1>6. new = code \/ new = code \cup {Signature}
  BY <1>4
<1>7. Cardinality(code) \in Nat /\ Cardinality(code \cup {Signature}) = Cardinality(code) + 1
  BY <1>2, <1>5, FS_CardinalityType, FS_AddElement
<1>8. pc' \in Opening => new = code \cup {Signature}
  <2>1. pc' \in Opening => dec.action = "query_code_wiki"
    BY DEF Opening, Admitting, ActRetrieve, ActInvestigate, Close
  <2>2. Signature[1] = dec.action
    BY DEF Signature
  <2> QED
    BY <1>4, <2>1, <2>2
<1>9. Attempts("query_code_wiki") = Cardinality(code) /\ Attempts("query_code_wiki")' = Cardinality(new)
  BY DEF Attempts
<1>10. /\ Cardinality(new) \in Nat /\ Cardinality(code) <= Cardinality(new)
       /\ pc' \in Opening => Cardinality(code) < Cardinality(new)
  <2>1. CASE new = code /\ pc' \notin Opening
    <3>1. Cardinality(new) = Cardinality(code) /\ Cardinality(code) \in Nat
      BY <1>7, <2>1, Zenon
    <3> HIDE DEF code, new
    <3> QED
      BY <2>1, <3>1
  <2>2. CASE new = code \cup {Signature}
    <3>1. Cardinality(new) = Cardinality(code) + 1 /\ Cardinality(code) \in Nat
      BY <1>7, <2>2, Zenon
    <3> HIDE DEF code, new
    <3> QED
      BY <3>1
  <2> QED
    BY <1>6, <1>8, <2>1, <2>2, Zenon
<1> HIDE DEF code, new
<1> QED
  BY <1>4, <1>9, <1>10

\* A result with a number of its own keeps the ids apart.
LEMMA AppendedId ==
    ASSUME TypeInv, IdsInv, NEW r \in ToolResult, st'.results = Append(st.results, r),
           r.item # NoItem => r.item.id # Ghost /\ \A e \in Evidence : e.id # r.item.id
    PROVE  EvidenceIdsDiffer'
<1> DEFINE n == Len(st.results)
<1>1. st.results \in Seq(ToolResult) /\ Len(st.results) \in Nat
  BY DEF TypeInv, TypeOK, AgentState
<1>2. /\ DOMAIN st.results = 1..n
      /\ st'.results[n + 1] = r
      /\ \A i \in 1..n : st'.results[i] = st.results[i]
      /\ \A i \in DOMAIN st'.results : i \in 1..n \/ i = n + 1
  BY AppendedEvidence
<1>5. \A e \in Evidence : e.id # Ghost
  BY DEF IdsInv, Numbered, Ghost
<1>6. NoItem.id = Ghost
  BY DEF NoItem
<1>7. ASSUME NEW i \in 1..n, st.results[i].item # NoItem
      PROVE  st.results[i].item \in Evidence
  BY <1>2, <1>7 DEF Evidence
<1>8. ASSUME NEW i \in 1..n, st.results[i].item # NoItem PROVE st.results[i].item.id # r.item.id
  BY <1>5, <1>6, <1>7, <1>8
<1>9. ASSUME NEW i \in 1..n, r.item # NoItem PROVE st.results[i].item.id # r.item.id
  BY <1>6, <1>7, <1>9
<1>10. ASSUME NEW i \in DOMAIN st'.results, NEW j \in DOMAIN st'.results,
              st'.results[i].item # NoItem, st'.results[i].item.id = st'.results[j].item.id
       PROVE  i = j
  <2>1. CASE i \in 1..n /\ j \in 1..n
    BY <1>2, <1>10, <2>1 DEF IdsInv, EvidenceIdsDiffer
  <2>2. CASE i \in 1..n /\ j = n + 1
    BY <1>2, <1>8, <1>10, <2>2
  <2>3. CASE i = n + 1 /\ j \in 1..n
    BY <1>2, <1>9, <1>10, <2>3
  <2> QED
    BY <1>2, <2>1, <2>2, <2>3
<1> QED
  BY <1>10 DEF EvidenceIdsDiffer

LEMMA IdsStep ==
    ASSUME TypeInv, BudgetInv, TargetInv, IdsInv, [Next]_vars
    PROVE  IdsInv'
<1>1. /\ st \in AgentState /\ st.tools \in Nat /\ Attempts("query_code_wiki") \in Nat
      /\ scope.department \in Department \cup {None}
  BY AttemptsType DEF TypeInv, TypeOK, AgentState, Scope
<1>2. CASE ~Collecting /\ ~Admitting
  <2>1. /\ st'.results = st.results /\ st'.tools = st.tools /\ st'.visited = st.visited
        /\ pc' \in Opening => pc \in Opening
        /\ pc' \in Searching => pc \in Searching
    BY <1>2, Collected
  <2>2. Evidence' = Evidence /\ Attempts("query_code_wiki")' = Attempts("query_code_wiki")
    BY <2>1 DEF Evidence, Attempts
  <2> QED
    BY <2>1, <2>2 DEF IdsInv, Numbered, EvidenceIdsDiffer
<1>3. CASE Admitting
  <2>1. CASE st' = st
    <3>1. Admitted # st /\ Refused(Admitted) # st
      <4>1. Admitted.tools = st.tools + 1 /\ Refused(Admitted).tools = st.tools + 1
        BY <1>1 DEF Admitted, Refused, AgentState
      <4> QED
        BY <1>1, <4>1
    <3>2. pc' = "closed"
      BY <1>3, <2>1, <3>1 DEF Admitting, ActRetrieve, ActInvestigate, Close
    <3>3. Evidence' = Evidence /\ Attempts("query_code_wiki")' = Attempts("query_code_wiki")
      BY <2>1 DEF Evidence, Attempts
    <3> QED
      BY <2>1, <3>2, <3>3 DEF IdsInv, Numbered, EvidenceIdsDiffer, Opening, Searching
  <2>2. CASE st' # st
    <3>1. Evidence' = Evidence
      BY <1>3, <2>2, AdmittedCounts DEF Evidence
    <3>2. ASSUME NEW e \in Evidence PROVE Numbered(e)'
      BY <1>1, <1>3, <2>2, AdmittedCounts DEF IdsInv, Numbered
    <3> QED
      BY <1>1, <1>3, <2>2, <3>1, <3>2, AdmittedCounts DEF IdsInv, EvidenceIdsDiffer
  <2> QED
    BY <2>1, <2>2
<1>4. CASE Retrieve \/ Rerank
  <2>1. pc \in Searching /\ pc' \notin Opening
    BY <1>4 DEF Retrieve, Rerank, Searching, Opening
  <2>2. CASE pc' = "rerank" /\ st' = st
    <3>1. Evidence' = Evidence /\ Attempts("query_code_wiki")' = Attempts("query_code_wiki")
      BY <2>2 DEF Evidence, Attempts
    <3> QED
      BY <2>1, <2>2, <3>1 DEF IdsInv, Numbered, EvidenceIdsDiffer
  <2>3. ASSUME NEW r \in ToolResult, pc' = "ragCheck",
               st' = [st EXCEPT !.results = Append(st.results, r)],
               r.item = NoItem \/ r.item.id = <<"rag", st.tools>>
        PROVE  IdsInv'
    <3>1. st'.results = Append(st.results, r) /\ st'.tools = st.tools /\ st'.visited = st.visited
      BY <1>1, <2>3 DEF AgentState
    <3>2. \A e \in Evidence : e.id # <<"rag", st.tools>>
      BY <1>1, <2>1 DEF IdsInv, Numbered
    <3>3. r.item # NoItem => r.item.id # Ghost /\ \A e \in Evidence : e.id # r.item.id
      BY <1>1, <2>1, <2>3, <3>2 DEF IdsInv, Ghost
    <3>4. Evidence' \subseteq Evidence \cup ({r.item} \ {NoItem}) /\ EvidenceIdsDiffer'
      BY <3>1, <3>3, AppendedId, AppendedEvidence
    <3>5. Attempts("query_code_wiki")' = Attempts("query_code_wiki")
      BY <3>1 DEF Attempts
    <3>6. pc' \notin Searching
      BY <2>3 DEF Searching
    <3>7. ASSUME NEW e \in Evidence PROVE Numbered(e)'
      BY <1>1, <2>1, <3>1, <3>5, <3>6 DEF IdsInv, Numbered
    <3>8. r.item # NoItem => Numbered(r.item)'
      BY <1>1, <2>1, <2>3, <3>1, <3>6 DEF IdsInv, Numbered
    <3> QED
      BY <3>4, <3>6, <3>7, <3>8 DEF IdsInv
  <2> QED
    BY <1>4, <2>2, <2>3, SearchResult
<1>5. CASE ChildEnds
  <2>1. pc = "child" /\ st'.visited = st.visited /\ pc' \notin Opening \cup Searching
    BY <1>1, <1>5 DEF ChildEnds, Charged, Recorded, Close, Opening, Searching, AgentState
  <2>2. CASE st' = st
    <3>1. Evidence' = Evidence /\ Attempts("query_code_wiki")' = Attempts("query_code_wiki")
      BY <2>2 DEF Evidence, Attempts
    <3> QED
      BY <2>1, <2>2, <3>1 DEF IdsInv, Numbered, EvidenceIdsDiffer
  <2>3. CASE st' = Recorded(Charged, "query_code_wiki", CodeStatus, CodeItem)
    <3>1. PICK r \in ToolResult :
            r = [capability |-> "query_code_wiki", status |-> CodeStatus, item |-> CodeItem]
      <4>1. CodeStatus \in {"success", "partial", "empty"}
        BY DEF CodeStatus, TypeInv, TypeOK, LoopTypeOK, LoopState
      <4> QED
        BY <4>1, CodeItemType DEF ToolResult, Capability
    <3>2. r.item = NoItem \/ r.item.id = <<"code", Attempts("query_code_wiki")>>
      BY <3>1 DEF CodeItem, NoItem
    <3>3. loop.calls \in Nat
      BY DEF TypeInv, TypeOK, LoopTypeOK, LoopState
    <3>4. st'.results = Append(st.results, r) /\ st'.tools = st.tools + loop.calls
      BY <1>1, <2>3, <3>1 DEF Charged, Recorded, AgentState
    <3>5. \A e \in Evidence : e.id # <<"code", Attempts("query_code_wiki")>>
      BY <1>1, <2>1 DEF IdsInv, Numbered, Opening
    <3>6. r.item # NoItem => r.item.id # Ghost /\ \A e \in Evidence : e.id # r.item.id
      BY <3>2, <3>5 DEF Ghost
    <3>7. Evidence' \subseteq Evidence \cup ({r.item} \ {NoItem}) /\ EvidenceIdsDiffer'
      BY <3>4, <3>6, AppendedId, AppendedEvidence
    <3>8. Attempts("query_code_wiki")' = Attempts("query_code_wiki")
      BY <2>1 DEF Attempts
    <3>9. ASSUME NEW e \in Evidence PROVE Numbered(e)'
      BY <1>1, <2>1, <3>3, <3>4, <3>8 DEF IdsInv, Numbered, Opening
    <3>10. r.item # NoItem => Numbered(r.item)'
      BY <1>1, <2>1, <3>2, <3>8 DEF Numbered
    <3> QED
      BY <2>1, <3>7, <3>9, <3>10 DEF IdsInv
  <2> QED
    BY <1>5, <2>2, <2>3 DEF ChildEnds, Close
<1> QED
  BY <1>2, <1>3, <1>4, <1>5 DEF Collecting

\* However the planner, the tools and the investigations alternate, no two
\* pieces of evidence get one id, although two counters number them.
THEOREM IdsStayApart == Spec => []EvidenceIdsDiffer
<1> DEFINE Inv == TypeInv /\ BudgetInv /\ TargetInv /\ IdsInv
<1>1. Init => Inv
  <2>1. ASSUME Init PROVE BudgetInv /\ TargetInv
    BY <2>1, BudgetAssumption DEF Init, BudgetInv, BudgetsAreShared, TargetInv, Deciding, Opening, Off
  <2>2. ASSUME Init PROVE IdsInv
    BY <2>2 DEF Init, IdsInv, Searching, Evidence, EvidenceIdsDiffer
  <2> QED
    BY <2>1, <2>2, InitType
<1>2. Inv /\ [Next]_vars => Inv'
  BY TypeStep, BudgetStep, TargetStep, IdsStep
<1>3. Inv => EvidenceIdsDiffer
  BY DEF IdsInv
<1> QED
  BY <1>1, <1>2, <1>3, PTL DEF Spec

(***************************************************************************)
(* Documents of one department.                                            *)
(***************************************************************************)

Answering == {"final", "prompt", "generate", "delta", "deltaSend", "done", "doneSend", "closed"}

Writing == {"prompt", "generate", "delta", "deltaSend"}

ReadyInv ==
    /\ st.ready => pc \in Answering
    /\ pc \in Writing => st.ready

Renewing ==
    \/ Refresh \/ BeginRound \/ TraceCheck \/ RetrieveCheck \/ ChildCheck \/ DoneCheck
    \/ FinalRefresh \/ Generate \/ Validate \/ DeltaCheck

\* What is neither evidence nor a renewal leaves the scope as it is, and the
\* claims too, if it does not end the request.
LEMMA ScopeKept ==
    ASSUME TypeInv, [Next]_vars, ~Collecting, ~Renewing, ~ActAnswer
    PROVE  /\ scope' = scope /\ claims' \in {claims, {}}
           /\ \/ st'.refused /\ ~st'.ready
              \/ st'.ready = st.ready /\ st'.refused = st.refused
           /\ pc \in Answering => pc' \in Answering
           /\ pc' \in Writing => pc \in Writing /\ UNCHANGED <<st, claims, kept>>
           /\ pc' \in {"delta", "deltaSend"} => pc \in {"delta", "deltaSend"} /\ shown' = shown
<1> USE DEF Answering, Writing
<1>1. st \in AgentState
  BY DEF TypeInv, TypeOK
<1>2. CASE Controls
  <2>1. CASE RefreshFails \/ Prompt \/ TraceSend
    BY <2>1 DEF RefreshFails, Prompt, TraceSend, Close
  <2>2. CASE Decide \/ PlannerFails
    BY <1>1, <2>2 DEF Decide, PlannerFails, Chosen, AgentState
  <2>3. CASE ActRefuse \/ ActReplan
    BY <1>1, <2>3 DEF ActRefuse, ActReplan, Replan, Refuse, Refused, AgentState
  <2> QED
    BY <1>2, <2>1, <2>2, <2>3 DEF Controls, Renewing
<1>3. CASE Searches
  <2>1. CASE ActRepeated \/ RetrieveFails \/ RetrieveSend \/ CodeOpens \/ CodeRefused
    BY <2>1 DEF ActRepeated, RetrieveFails, RetrieveSend, CodeOpens, CodeRefused, Replan, Close
  <2>2. CASE ChildRound \/ ChildSend \/ ChildStep \/ ChildFails
    BY <2>2 DEF ChildRound, ChildSend, ChildStep, ChildFails, Close
  <2>3. CASE ActRetrieve \/ ActInvestigate
    BY <1>1, <2>3 DEF ActRetrieve, ActInvestigate, Admitted, Refused, Close, AgentState
  <2> QED
    BY <1>3, <2>1, <2>2, <2>3 DEF Searches, Collecting, Renewing
<1>4. CASE Answers
  BY <1>4 DEF Answers, Renewing, PromptAnswer, GenerateFails, DeltaSend, DoneSend, CheckFails, Close
<1>5. CASE Environment
  BY <1>5 DEF Environment, EndAccess, ChangeProjects, MoveDepartment, Reimport, Change, agent
<1>6. CASE UNCHANGED vars
  BY <1>6 DEF vars
<1> QED
  BY <1>2, <1>3, <1>4, <1>5, <1>6 DEF Next, Step

\* A renewal takes the department over only if no document is at stake.
LEMMA Renewed ==
    ASSUME TypeInv, ReadyInv, Renewing
    PROVE  /\ claims' = claims /\ st'.results = st.results
           /\ st'.refused \/ (st'.ready = st.ready /\ st'.refused = st.refused)
           /\ st'.ready => pc' \in Answering
           /\ \/ st'.refused
              \/ scope' = scope
              \/ scope'.department = scope.department
              \/ ~HasRag(IF st.ready THEN Approved ELSE Evidence)
<1> USE DEF Answering
<1>1. st \in AgentState /\ Approved \subseteq Evidence
  BY DEF TypeInv, TypeOK, Approved, OfIds
<1>2. ASSUME Valid(Investigated, HasRag(Evidence)), scope' = Current
      PROVE  scope'.department = scope.department \/ ~HasRag(IF st.ready THEN Approved ELSE Evidence)
  BY <1>1, <1>2 DEF Valid, Current, HasRag
<1>3. ASSUME NEW n, Passes(n)
      PROVE  /\ claims' = claims /\ st'.results = st.results
             /\ st'.ready = st.ready /\ st'.refused = st.refused /\ pc' = n
             /\ scope'.department = scope.department \/ ~HasRag(IF st.ready THEN Approved ELSE Evidence)
  BY <1>1, <1>2, <1>3 DEF Passes, Authorized, AgentState
<1>4. CASE Refresh
  BY <1>1, <1>4 DEF Refresh, Refused, AgentState, ReadyInv, Current
<1>5. CASE BeginRound
  <2>1. scope'.department = scope.department \/ ~HasRag(IF st.ready THEN Approved ELSE Evidence)
    BY <1>2, <1>5 DEF BeginRound, Authorized
  <2> QED
    BY <1>1, <1>5, <2>1 DEF BeginRound, RoundBegun, Refused, AgentState, ReadyInv
<1>6. CASE TraceCheck \/ RetrieveCheck \/ ChildCheck \/ DoneCheck
  BY <1>3, <1>6 DEF TraceCheck, RetrieveCheck, ChildCheck, DoneCheck, ReadyInv
<1>7. CASE FinalRefresh
  <2>1. /\ claims' = claims /\ pc' \in Answering /\ pc' # "closed"
        /\ \/ st' = st \/ st' = Refused(st)
           \/ st' = [st EXCEPT !.allowed = st.allowed \cap grant.projects]
           \/ st' = Refused([st EXCEPT !.allowed = st.allowed \cap grant.projects])
    BY <1>7 DEF FinalRefresh
  <2>2. /\ st'.results = st.results
        /\ st'.refused \/ (st'.ready = st.ready /\ st'.refused = st.refused)
    BY <1>1, <2>1 DEF Refused, AgentState
  <2>3. \/ scope' = scope
        \/ st.ready /\ scope' = Current /\ ~(grant.department # scope.department /\ HasRag(Approved))
    BY <1>7 DEF FinalRefresh
  <2>4. scope' = Current => scope'.department = grant.department
    BY DEF Current
  <2> QED
    BY <2>1, <2>2, <2>3, <2>4
<1>8. CASE Generate \/ Validate \/ DeltaCheck
  <2>1. UNCHANGED <<claims, st>> /\ pc' \in Answering /\ st.ready
    BY <1>8 DEF Generate, Validate, DeltaCheck, ReadyInv, Writing
  <2>2. AnswerAuthorized /\ scope' = Current =>
          scope'.department = scope.department \/ ~HasRag(Approved)
    BY DEF AnswerAuthorized, Valid, Current
  <2>3. scope' = scope \/ (AnswerAuthorized /\ scope' = Current)
    BY <1>8 DEF Generate, Validate, DeltaCheck
  <2> QED
    BY <2>1, <2>2, <2>3
<1> QED
  BY <1>4, <1>5, <1>6, <1>7, <1>8 DEF Renewing

LEMMA ReadyStep ==
    ASSUME TypeInv, ReadyInv, [Next]_vars
    PROVE  ReadyInv'
<1> USE DEF Answering, Writing
<1>1. st \in AgentState
  BY DEF TypeInv, TypeOK
<1>2. CASE Collecting
  <2>1. pc' \notin Writing /\ st'.ready = st.ready /\ pc \notin Answering
    BY <1>1, <1>2 DEF Collecting, Retrieve, Rerank, ChildEnds, Recorded, Charged, Close, AgentState
  <2> QED
    BY <2>1 DEF ReadyInv
<1>3. CASE ActAnswer
  BY <1>1, <1>3 DEF ActAnswer, Replan, Refuse, Refused, AgentState, ReadyInv
<1>4. CASE Renewing
  <2>1. st'.ready => pc' \in Answering
    BY <1>4, Renewed
  <2>2. pc' \in Writing => st'.ready
    <3>1. CASE FinalRefresh
      BY <1>1, <3>1 DEF FinalRefresh, AgentState
    <3>2. CASE Generate \/ Validate \/ DeltaCheck
      BY <3>2 DEF Generate, Validate, DeltaCheck, ReadyInv
    <3>3. CASE Refresh \/ BeginRound \/ TraceCheck \/ RetrieveCheck \/ ChildCheck \/ DoneCheck
      BY <3>3 DEF Refresh, BeginRound, TraceCheck, RetrieveCheck, ChildCheck, DoneCheck, Passes
    <3> QED
      BY <1>4, <3>1, <3>2, <3>3 DEF Renewing
  <2> QED
    BY <2>1, <2>2 DEF ReadyInv
<1>5. CASE ~Collecting /\ ~ActAnswer /\ ~Renewing
  <2>1. /\ ~st'.ready \/ st'.ready = st.ready
        /\ pc \in Answering => pc' \in Answering
        /\ pc' \in Writing => pc \in Writing /\ st' = st
    BY <1>5, ScopeKept
  <2> QED
    BY <2>1 DEF ReadyInv
<1> QED
  BY <1>2, <1>3, <1>4, <1>5

\* Documents are marked with the department they are searched for, and nothing
\* else is collected as a document.
LEMMA CollectingKeeps ==
    ASSUME TypeInv, ReadyInv, RagOfOneDepartment, Collecting
    PROVE  RagOfOneDepartment'
<1>1. st \in AgentState
  BY DEF TypeInv, TypeOK
<1>2. /\ scope' = scope /\ st'.ready = st.ready /\ st'.refused = st.refused /\ ~st.ready
  BY <1>1 DEF Collecting, Retrieve, Rerank, ChildEnds, Recorded, Charged, Close, AgentState, ReadyInv, Answering
<1>3. \A e \in Evidence' \ Evidence : e.type = "rag" => e.department = scope.department
  <2>1. CASE st' = st
    BY <2>1 DEF Evidence
  <2>2. ASSUME NEW r \in ToolResult, st'.results = Append(st.results, r),
               r.item.type = "rag" => r.item.department = scope.department
        PROVE  \A e \in Evidence' \ Evidence : e.type = "rag" => e.department = scope.department
    BY <2>2, AppendedEvidence
  <2>3. CASE Retrieve \/ Rerank
    <3>1. ASSUME NEW r \in ToolResult, st' = [st EXCEPT !.results = Append(st.results, r)],
                 r.item = NoItem \/ r.item.department = scope.department
          PROVE  \A e \in Evidence' \ Evidence : e.type = "rag" => e.department = scope.department
      <4>1. st'.results = Append(st.results, r)
        BY <1>1, <3>1 DEF AgentState
      <4>2. NoItem.type # "rag"
        BY DEF NoItem
      <4> QED
        BY <2>2, <3>1, <4>1, <4>2
    <3> QED
      BY <2>1, <2>3, <3>1, SearchResult
  <2>4. CASE st' = Recorded(Charged, "query_code_wiki", CodeStatus, CodeItem)
    <3> DEFINE r == [capability |-> "query_code_wiki", status |-> CodeStatus, item |-> CodeItem]
    <3>1. CodeStatus \in {"success", "partial", "empty"}
      BY DEF CodeStatus, TypeInv, TypeOK, LoopTypeOK, LoopState
    <3>2. r \in ToolResult
      BY <3>1, CodeItemType DEF ToolResult, Capability
    <3>3. st'.results = Append(st.results, r)
      BY <1>1, <2>4 DEF Recorded, Charged, AgentState
    <3>4. r.item.type # "rag"
      BY DEF CodeItem, NoItem
    <3> HIDE DEF r
    <3> QED
      BY <2>2, <3>2, <3>3, <3>4
  <2> QED
    BY <2>1, <2>3, <2>4 DEF Collecting, ChildEnds, Close
<1> QED
  BY <1>2, <1>3 DEF RagOfOneDepartment

LEMMA RagStep ==
    ASSUME TypeInv, ReadyInv, RagOfOneDepartment, [Next]_vars
    PROVE  RagOfOneDepartment'
<1>1. Approved \subseteq Evidence /\ Approved' \subseteq Evidence'
  BY DEF Approved, OfIds
<1>2. CASE Collecting
  BY <1>2, CollectingKeeps
<1>3. CASE ~Collecting
  <2>1. Evidence' = Evidence
    <3>1. st'.results = st.results
      BY <1>3, Collected, AdmittedCounts
    <3> QED
      BY <3>1 DEF Evidence
  <2>2. claims' = claims => Approved' = Approved
    BY <2>1 DEF Approved, OfIds
  <2>3. claims' = {} => Approved' = {}
    BY DEF Approved, OfIds, Cited
  <2>4. CASE Renewing
    <3>1. /\ claims' = claims
          /\ st'.refused \/ (st'.ready = st.ready /\ st'.refused = st.refused)
          /\ \/ st'.refused \/ scope'.department = scope.department
             \/ ~HasRag(IF st.ready THEN Approved ELSE Evidence)
      BY <2>4, Renewed
    <3> QED
      BY <2>1, <2>2, <3>1 DEF RagOfOneDepartment, HasRag
  <2>5. CASE ActAnswer
    <3>1. st \in AgentState /\ pc = "act"
      BY <2>5 DEF ActAnswer, TypeInv, TypeOK
    <3>2. scope' = scope /\ ~st.ready /\ (st'.refused \/ st'.refused = st.refused)
      BY <2>5, <3>1 DEF ActAnswer, Replan, Refuse, Refused, AgentState, ReadyInv, Answering
    <3> QED
      BY <1>1, <2>1, <3>2 DEF RagOfOneDepartment
  <2>6. CASE ~Renewing /\ ~ActAnswer
    <3>1. /\ scope' = scope /\ claims' \in {claims, {}}
          /\ st'.refused \/ (st'.ready = st.ready /\ st'.refused = st.refused)
      BY <1>3, <2>6, ScopeKept
    <3> QED
      BY <2>1, <2>2, <2>3, <3>1 DEF RagOfOneDepartment
  <2> QED
    BY <2>4, <2>5, <2>6
<1> QED
  BY <1>2, <1>3

\* Whoever is moved to another department, documents found for one are neither
\* sent to the planner nor put into an answer under the other.
THEOREM DepartmentsStayApart == Spec => []RagOfOneDepartment
<1> DEFINE Inv == TypeInv /\ ReadyInv /\ RagOfOneDepartment
<1>1. Init => Inv
  <2>1. ASSUME Init PROVE ReadyInv /\ RagOfOneDepartment
    BY <2>1 DEF Init, ReadyInv, Writing, RagOfOneDepartment, Evidence
  <2> QED
    BY <2>1, InitType
<1>2. Inv /\ [Next]_vars => Inv'
  BY TypeStep, ReadyStep, RagStep
<1>3. Inv => RagOfOneDepartment
  OBVIOUS
<1> QED
  BY <1>1, <1>2, <1>3, PTL DEF Spec

(***************************************************************************)
(* What is cited.                                                          *)
(***************************************************************************)

\* A sound piece of evidence of a usable result.
Supported(i) == \E r \in Usable : r.item.id = i /\ r.item.sound

GateInv ==
    st.ready => HybridComplete /\ \A c \in claims : \A i \in c.ids : Supported(i)

\* What is written has claims left, all of them approved, and the projects
\* they rest on are those of the authorization as last read.
WriteInv ==
    /\ pc \in Writing =>
         kept # {} /\ kept \subseteq claims /\ CodeProjects(Approved) \subseteq scope.projects
    /\ pc \in {"delta", "deltaSend"} =>
         Cited(kept) \subseteq shown /\ shown \subseteq Cited(kept) \cup Written(kept)

LEMMA RequestKept ==
    ASSUME [Next]_vars
    PROVE  req' = req
<1>1. CASE Controls
  BY <1>1 DEF Controls, Refresh, RefreshFails, BeginRound, Prompt, Decide, PlannerFails, Chosen,
     TraceCheck, TraceSend, Passes, ActAnswer, ActRefuse, ActReplan, Close
<1>2. CASE Searches
  BY <1>2 DEF Searches, ActRepeated, ActRetrieve, ActInvestigate, Retrieve, Rerank,
     RetrieveFails, RetrieveCheck, RetrieveSend, CodeOpens, CodeRefused, ChildRound, ChildCheck, ChildSend,
     ChildStep, ChildFails, ChildEnds, Passes, Close
<1>3. CASE Answers
  BY <1>3 DEF Answers, FinalRefresh, PromptAnswer, Generate, GenerateFails, Validate, DeltaCheck,
     DeltaSend, DoneCheck, DoneSend, CheckFails, Passes, Close
<1>4. CASE Environment
  BY <1>4 DEF Environment, EndAccess, ChangeProjects, MoveDepartment, Reimport, Change, agent
<1> QED
  BY <1>1, <1>2, <1>3, <1>4 DEF Next, Step, vars

\* The gate lets ids through that some usable result and some sound piece of
\* evidence have; as no two pieces share an id, these are one.
LEMMA GateSupports ==
    ASSUME TypeInv, EvidenceIdsDiffer, NEW e \in Available
    PROVE  Supported(e.id)
<1>1. PICK j \in DOMAIN st.results : st.results[j].item = e /\ e # NoItem /\ e.sound
  BY DEF Available, Evidence
<1>2. PICK r \in Usable : r.item.id = e.id
  BY DEF Available
<1>3. PICK k \in DOMAIN st.results : r = st.results[k]
  BY DEF Usable, Succeeded
<1>4. j = k
  BY <1>1, <1>2, <1>3 DEF EvidenceIdsDiffer
<1> QED
  BY <1>1, <1>2, <1>3, <1>4 DEF Supported

LEMMA GateStep ==
    ASSUME TypeInv, ReadyInv, EvidenceIdsDiffer, GateInv, [Next]_vars
    PROVE  GateInv'
<1>1. st \in AgentState
  BY DEF TypeInv, TypeOK
<1>2. CASE Collecting
  <2>1. ~st'.ready
    BY <1>1, <1>2 DEF Collecting, Retrieve, Rerank, ChildEnds, Recorded, Charged, Close, AgentState,
       ReadyInv, Answering
  <2> QED
    BY <2>1 DEF GateInv
<1>3. CASE ~Collecting
  <2>1. st'.results = st.results
    BY <1>3, Collected, AdmittedCounts
  <2>2. Usable' = Usable /\ Succeeded' = Succeeded
    BY <2>1 DEF Usable, Succeeded
  <2>3. HybridComplete' = HybridComplete /\ \A i : Supported(i)' = Supported(i)
    BY <2>2, RequestKept DEF HybridComplete, Supported
  <2>4. CASE ActAnswer
    <3>1. ~st'.ready \/ (HybridComplete /\ CanAnswer(dec) /\ claims' = dec.claims)
      BY <1>1, <2>4 DEF ActAnswer, Replan, Refuse, Refused, AgentState, ReadyInv, Answering
    <3>2. ASSUME CanAnswer(dec), NEW c \in dec.claims, NEW i \in c.ids PROVE Supported(i)
      BY <3>2, GateSupports DEF CanAnswer
    <3> QED
      BY <2>3, <3>1, <3>2 DEF GateInv
  <2>5. CASE ~ActAnswer
    <3>1. claims' \in {claims, {}} /\ (st'.ready => st.ready \/ st'.refused)
      BY <1>3, <2>5, ScopeKept, Renewed
    <3>2. st'.ready => st.ready
      <4>1. CASE Renewing
        <5>1. CASE FinalRefresh
          BY <1>1, <5>1 DEF FinalRefresh, Refused, AgentState
        <5>2. CASE Generate \/ Validate \/ DeltaCheck
          BY <5>2 DEF Generate, Validate, DeltaCheck
        <5>3. CASE Refresh \/ BeginRound
          BY <1>1, <5>3 DEF Refresh, BeginRound, RoundBegun, Refused, AgentState
        <5>4. CASE TraceCheck \/ RetrieveCheck \/ ChildCheck \/ DoneCheck
          BY <1>1, <5>4 DEF TraceCheck, RetrieveCheck, ChildCheck, DoneCheck, Passes, AgentState
        <5> QED
          BY <4>1, <5>1, <5>2, <5>3, <5>4 DEF Renewing
      <4>2. CASE ~Renewing
        BY <1>3, <2>5, <4>2, ScopeKept
      <4> QED
        BY <4>1, <4>2
    <3> QED
      BY <2>3, <3>1, <3>2 DEF GateInv
  <2> QED
    BY <2>4, <2>5
<1> QED
  BY <1>2, <1>3

LEMMA WriteStep ==
    ASSUME TypeInv, ReadyInv, WriteInv, [Next]_vars
    PROVE  WriteInv'
<1> USE DEF Writing
<1>1. st \in AgentState
  BY DEF TypeInv, TypeOK
<1>2. ASSUME UNCHANGED <<st, claims>> PROVE Approved' = Approved
  BY <1>2 DEF Approved, OfIds, Evidence
<1>3. CASE Collecting
  BY <1>3 DEF Collecting, Retrieve, Rerank, ChildEnds, Close, WriteInv
<1>4. CASE ActAnswer
  BY <1>4 DEF ActAnswer, Replan, Refuse, WriteInv
<1>5. CASE FinalRefresh
  <2>1. CASE pc' = "prompt"
    <3>1. /\ kept' # {} /\ kept' \subseteq claims' /\ claims' = claims /\ scope' = Current
          /\ CodeProjects(Approved) \subseteq grant.projects
          /\ st' = [st EXCEPT !.allowed = st.allowed \cap grant.projects]
      BY <1>5, <2>1 DEF FinalRefresh, Fits
    <3>2. st'.results = st.results
      BY <1>1, <3>1 DEF AgentState
    <3>3. Approved' = Approved
      BY <3>1, <3>2 DEF Approved, OfIds, Evidence
    <3> QED
      BY <2>1, <3>1, <3>3 DEF WriteInv, Current, CodeProjects
  <2>2. CASE pc' # "prompt"
    BY <1>5, <2>2 DEF FinalRefresh, WriteInv
  <2> QED
    BY <2>1, <2>2
<1>6. CASE Generate \/ Validate \/ DeltaCheck
  <2>1. UNCHANGED <<st, claims, kept>> /\ pc \in Writing
    BY <1>6 DEF Generate, Validate, DeltaCheck
  <2>2. scope' = scope \/ (AnswerAuthorized /\ scope' = Current)
    BY <1>6 DEF Generate, Validate, DeltaCheck
  <2>3. AnswerAuthorized => CodeProjects(Approved) \subseteq Current.projects
    BY DEF AnswerAuthorized, Valid, Current
  <2>4. CodeProjects(Approved)' = CodeProjects(Approved)
    BY <1>2, <2>1 DEF CodeProjects
  <2>5. pc' \in {"delta", "deltaSend"} =>
          Cited(kept) \subseteq shown' /\ shown' \subseteq Cited(kept) \cup Written(kept)
    <3>1. CASE Generate
      BY <3>1 DEF Generate
    <3>2. CASE Validate
      <4>1. PICK cited : shown' = Contract(cited)
        BY <3>2 DEF Validate
      <4>2. /\ Cited(kept) \subseteq Contract(cited)
            /\ Contract(cited) \subseteq Cited(kept) \cup Written(kept)
        BY DEF Contract, Holds
      <4> QED
        BY <4>1, <4>2
    <3>3. CASE DeltaCheck
      BY <3>3 DEF DeltaCheck, WriteInv
    <3> QED
      BY <1>6, <3>1, <3>2, <3>3
  <2> QED
    BY <2>1, <2>2, <2>3, <2>4, <2>5 DEF WriteInv
<1>7. CASE Refresh \/ BeginRound \/ TraceCheck \/ RetrieveCheck \/ ChildCheck \/ DoneCheck
  BY <1>7 DEF Refresh, BeginRound, TraceCheck, RetrieveCheck, ChildCheck, DoneCheck, Passes, WriteInv
<1>8. CASE ~Collecting /\ ~ActAnswer /\ ~Renewing
  <2>1. /\ scope' = scope
        /\ pc' \in Writing => pc \in Writing /\ UNCHANGED <<st, claims, kept>>
        /\ pc' \in {"delta", "deltaSend"} => pc \in {"delta", "deltaSend"} /\ shown' = shown
    BY <1>8, ScopeKept
  <2>2. pc' \in Writing => CodeProjects(Approved)' = CodeProjects(Approved)
    BY <1>2, <2>1 DEF CodeProjects
  <2> QED
    BY <2>1, <2>2 DEF WriteInv
<1> QED
  BY <1>3, <1>4, <1>5, <1>6, <1>7, <1>8 DEF Renewing

LEMMA SupportSuffices ==
    ASSUME TypeInv, ReadyInv, GateInv, WriteInv
    PROVE  AnswerIsSupported
<1> SUFFICES ASSUME pc \in {"delta", "deltaSend"}
             PROVE  /\ kept # {} /\ HybridComplete
                    /\ Cited(kept) \subseteq shown /\ shown \subseteq Cited(kept) \cup Written(kept)
                    /\ \A i \in Cited(kept) : \E r \in Usable :
                          /\ r.item.id = i /\ r.item.sound
                          /\ r.item.type = "code_wiki" => r.item.project \in scope.projects
  BY DEF AnswerIsSupported
<1>1. /\ st.ready /\ HybridComplete /\ kept # {} /\ kept \subseteq claims
      /\ Cited(kept) \subseteq shown /\ shown \subseteq Cited(kept) \cup Written(kept)
  BY DEF ReadyInv, Writing, GateInv, WriteInv
<1>2. \A c \in claims : \A i \in c.ids : Supported(i)
  BY <1>1 DEF GateInv
<1>3. Cited(kept) \subseteq Cited(claims)
  BY <1>1 DEF Cited
<1>4. ASSUME NEW i \in Cited(kept)
      PROVE  \E r \in Usable :
                /\ r.item.id = i /\ r.item.sound
                /\ r.item.type = "code_wiki" => r.item.project \in scope.projects
  <2>1. PICK r \in Usable : r.item.id = i /\ r.item.sound
    BY <1>1, <1>2 DEF Cited, Supported
  <2>2. r.item \in Evidence
    BY <2>1 DEF Usable, Succeeded, Evidence, NoItem
  <2>3. r.item \in Approved
    BY <1>3, <2>1, <2>2 DEF Approved, OfIds
  <2>4. r.item.type = "code_wiki" => r.item.project \in scope.projects
    BY <2>3 DEF WriteInv, Writing, CodeProjects
  <2> QED
    BY <2>1, <2>4
<1> QED
  BY <1>1, <1>4

\* Whatever the planner claims and the answer's model writes, an answer that is
\* sent cites the evidence of its approved claims, each piece sound, of a usable
\* result and of a project that was authorized when last read; what else it
\* cites is only what the wording of these claims cites.
THEOREM AnswersAreSupported == Spec => []AnswerIsSupported
<1> DEFINE Inv == /\ TypeInv /\ BudgetInv /\ TargetInv /\ IdsInv /\ ReadyInv
                  /\ GateInv /\ WriteInv
<1>1. Init => Inv
  <2>1. ASSUME Init PROVE BudgetInv /\ TargetInv
    BY <2>1, BudgetAssumption DEF Init, BudgetInv, BudgetsAreShared, TargetInv, Deciding, Opening, Off
  <2>2. ASSUME Init PROVE IdsInv /\ ReadyInv
    BY <2>2 DEF Init, IdsInv, Searching, Evidence, EvidenceIdsDiffer, ReadyInv, Writing
  <2>3. ASSUME Init PROVE GateInv /\ WriteInv
    BY <2>3 DEF Init, GateInv, WriteInv, Writing
  <2> QED
    BY <2>1, <2>2, <2>3, InitType
<1>2. Inv /\ [Next]_vars => Inv'
  <2> SUFFICES ASSUME Inv, [Next]_vars PROVE Inv'
    OBVIOUS
  <2>1. EvidenceIdsDiffer
    BY DEF IdsInv
  <2> QED
    BY <2>1, TypeStep, BudgetStep, TargetStep, IdsStep, ReadyStep, GateStep, WriteStep
<1>3. Inv => AnswerIsSupported
  BY SupportSuffices
<1> QED
  BY <1>1, <1>2, <1>3, PTL DEF Spec
=============================================================================
