------------------------ MODULE KnowledgeAgentProofs ------------------------
(***************************************************************************)
(* Proofs about KnowledgeAgent.                                            *)
(***************************************************************************)
EXTENDS KnowledgeAgent, FiniteSetTheorems, TLAPS

\* A part of the answer is sent only while there is one.
PartsLeft == pc \in {"delta", "deltaSend", "childSend"} => todo # 0

\* An investigation starts with something left to spend.
BudgetLeft == pc = "code" => ToolsLeft(st) > 0 /\ RoundsLeft(st) > 0

\* Attempts are counted, so what was tried is finite.
TypeInv == TypeOK /\ PartsLeft /\ BudgetLeft /\ IsFiniteSet(st.visited)

(***************************************************************************)
(* Types.                                                                  *)
(***************************************************************************)

LEMMA OffType == Off \in LoopState
BY DEF Off, LoopState

LEMMA FinishedType ==
    ASSUME NEW l \in LoopState, NEW r \in Reason \cup {"round_budget_exhausted", "agent_completed"}
    PROVE  Finished(l, r) \in LoopState
BY DEF Finished, LoopState

LEMMA CompletedType ==
    ASSUME NEW l \in LoopState
    PROVE  [l EXCEPT !.completed = l.completed + 1] \in LoopState
<1>1. ASSUME NEW n \in Nat PROVE [l EXCEPT !.completed = n] \in LoopState
  BY Zenon DEF LoopState
<1>2. l.completed + 1 \in Nat
  BY DEF LoopState
<1> QED
  BY <1>1, <1>2

\* The state of an investigation after each of its steps.
LEMMA InvestigateType ==
    ASSUME LoopTypeOK, Investigate
    PROVE  LoopTypeOK'
<1> USE CodeBudgetAssumption DEF LoopTypeOK
<1>1. CASE ReplyNothing
  <2>1. [loop EXCEPT !.completed = loop.completed + 1] \in LoopState
    BY CompletedType
  <2> QED
    BY <1>1, <2>1, FinishedType DEF ReplyNothing
<1>2. CASE ReplyFinish
  <2>1. PICK sufficient \in BOOLEAN :
          loop' = Finished([loop EXCEPT !.completed = loop.completed + 1,
                                       !.sufficient = sufficient], "agent_completed")
    BY <1>2 DEF ReplyFinish
  <2>2. ASSUME NEW n \in Nat
        PROVE  [loop EXCEPT !.completed = n, !.sufficient = sufficient] \in LoopState
    BY DEF LoopState
  <2>3. loop.completed + 1 \in Nat
    BY DEF LoopState
  <2> QED
    BY <2>1, <2>2, <2>3, FinishedType
<1>3. CASE ReplyCalls
  <2> PICK n \in 1..MaxBatch : \E calls \in [1..n -> Call] :
         loop' = [loop EXCEPT !.at = "calls", !.queue = calls, !.executed = 0, !.blocked = None]
    BY <1>3 DEF ReplyCalls
  <2> PICK calls \in [1..n -> Call] :
         loop' = [loop EXCEPT !.at = "calls", !.queue = calls, !.executed = 0, !.blocked = None]
    OBVIOUS
  <2> calls \in Seq(Call)
    OBVIOUS
  <2> QED
    BY DEF LoopState
<1>4. CASE Block
  <2> DEFINE reason == Refusal(loop, Head(loop.queue))
  <2>1. reason \in Reason \cup {None}
    BY DEF Refusal, Reason
  <2>2. loop.queue \in Seq(Call) /\ Tail(loop.queue) \in Seq(Call)
    BY <1>4 DEF Block, LoopState
  <2> QED
    BY <1>4, <2>1, <2>2 DEF Block, LoopState
<1>5. CASE Execute
  <2>1. PICK r \in Outcomes(Head(loop.queue)) : loop' = Noted(loop, Head(loop.queue), r)
    BY <1>5 DEF Execute
  <2>2. Tail(loop.queue) \in Seq(Call) /\ Head(loop.queue) \in Call
    BY <1>5 DEF Execute, LoopState
  <2>3. loop.calls + 1 \in Nat /\ loop.executed + 1 \in Nat
    BY DEF LoopState
  <2>4. (loop.progress \/ r.progress) \in BOOLEAN /\ (loop.cited \/ r.cited) \in BOOLEAN
    OBVIOUS
  <2> QED
    BY <2>1, <2>2, <2>3, <2>4 DEF LoopState, Noted
<1>6. CASE EndRound
  <2> DEFINE c == [loop EXCEPT !.completed = loop.completed + 1]
             n == [c EXCEPT !.unchanged = UnchangedRounds(loop), !.progress = FALSE]
  <2>1. c \in LoopState
    BY CompletedType
  <2>2. UnchangedRounds(loop) \in Nat
    BY DEF UnchangedRounds, LoopState
  <2>3. n \in LoopState
    BY <2>1, <2>2 DEF LoopState
  <2>4. loop.blocked # None => loop.blocked \in Reason
    BY DEF LoopState
  <2>5. [n EXCEPT !.at = "round"] \in LoopState
    BY <2>3 DEF LoopState
  <2>6. loop' = IF loop.blocked # None /\ loop.executed = 0 THEN Finished(c, loop.blocked)
                ELSE IF n.unchanged >= 2 THEN Finished(n, "no_new_evidence")
                ELSE IF n.calls >= n.maxCalls THEN Finished(n, "tool_budget_exhausted")
                ELSE IF n.completed >= n.maxRounds THEN Finished(n, "round_budget_exhausted")
                ELSE [n EXCEPT !.at = "round"]
    BY <1>6, Zenon DEF EndRound, Evaluated
  <2> HIDE DEF c, n
  <2>7. {"no_new_evidence", "tool_budget_exhausted"} \subseteq Reason
    BY DEF Reason
  <2> QED
    BY <2>1, <2>3, <2>4, <2>5, <2>6, <2>7, FinishedType
<1>7. CASE StreamFails
  BY <1>7 DEF StreamFails, LoopState
<1> QED
  BY <1>1, <1>2, <1>3, <1>4, <1>5, <1>6, <1>7 DEF Investigate

LEMMA NoDecisionType == NoDecision \in Decision
BY MessageAssumption DEF NoDecision, Decision

LEMMA NoItemType == NoItem \in Item
BY DEF NoItem, Item, Ghost, Id

LEMMA EvidenceType ==
    ASSUME st \in AgentState
    PROVE  Evidence \subseteq Item
<1>1. \A i \in DOMAIN st.results : st.results[i] \in ToolResult
  BY DEF AgentState
<1>2. \A r \in ToolResult : r.item \in Item
  BY DEF ToolResult
<1> QED
  BY <1>1, <1>2 DEF Evidence

LEMMA KnownType ==
    ASSUME st \in AgentState
    PROVE  Known \subseteq Id
<1>1. \A e \in Item : e.id \in Id
  BY DEF Item
<1> QED
  BY <1>1, EvidenceType DEF Known

LEMMA AttemptsType ==
    ASSUME IsFiniteSet(st.visited), NEW a
    PROVE  Attempts(a) \in Nat
<1>1. IsFiniteSet({v \in st.visited : v[1] = a})
  BY FS_Subset
<1> QED
  BY <1>1, FS_CardinalityType DEF Attempts

LEMMA PlannedType ==
    ASSUME st \in AgentState, req \in RequestState
    PROVE  Planned \subseteq Decision
<1>1. Remaining \subseteq Capability
  BY DEF Remaining, Sources
<1>2. AllowedActions \subseteq Capability \cup {"answer", "refuse", "replan"}
  BY <1>1 DEF AllowedActions
<1>3. \A a : Wording(a) \subseteq Query
  BY MessageAssumption DEF Wording
<1>4. \A c \in AnswerClaims : c \in SUBSET Claim /\ Cited(c) \in SUBSET Id
  <2>1. Ghost \in Id /\ Known \subseteq Id
    BY KnownType DEF Ghost, Id
  <2>2. \A i, w \in SUBSET Id : [ids |-> i, text |-> w] \in Claim
    BY DEF Claim
  <2>3. AnswerClaims \subseteq SUBSET Claim
    BY <2>1, <2>2 DEF AnswerClaims
  <2> QED
    BY <2>3 DEF Cited, Claim
<1>5. req.anchor \in Project \cup {None}
  BY DEF RequestState
<1> SUFFICES ASSUME NEW d \in Planned
             PROVE  d \in Decision
  OBVIOUS
<1> DEFINE code == [action : {"query_code_wiki"} \cap AllowedActions, target : Project \cup {req.anchor},
     query : Wording("query_code_wiki"), remaining : {Remaining}, claims : {{}}, support : {{}}]
     rag == [action : {"retrieve_rag"} \cap AllowedActions, target : {req.anchor},
          query : Wording("retrieve_rag"), remaining : {Remaining}, claims : {{}}, support : {{}}]
     stop == [action : {"refuse", "replan"} \cap AllowedActions, target : {None},
          query : {Message}, remaining : {Remaining}, claims : {{}}, support : {{}}]
     answer(c) == [action : {"answer"} \cap AllowedActions, target : {None}, query : {Message},
                 remaining : {Remaining}, claims : {c}, support : {Cited(c), Known}]
<1>6. d \in code \/ d \in rag \/ d \in stop \/ \E c \in AnswerClaims : d \in answer(c)
  BY DEF Planned
<1>7. code \subseteq Decision
  BY <1>1, <1>2, <1>3, <1>5 DEF Decision
<1>8. rag \subseteq Decision
  BY <1>1, <1>2, <1>3, <1>5 DEF Decision
<1>9. stop \subseteq Decision
  BY <1>1, <1>2, MessageAssumption DEF Decision
<1>10. \A c \in AnswerClaims : answer(c) \subseteq Decision
  BY <1>1, <1>2, <1>4, MessageAssumption, KnownType DEF Decision
<1> QED
  BY <1>6, <1>7, <1>8, <1>9, <1>10

LEMMA FallbackType ==
    ASSUME st \in AgentState, req \in RequestState
    PROVE  Fallback \in Decision
<1>1. Remaining \subseteq Capability
  BY DEF Remaining, Sources
<1>2. OnlyTarget \in Project \cup {None}
  <2>1. req.anchor \in Project \cup {None} /\ st.allowed \subseteq Project
    BY DEF RequestState, AgentState
  <2>2. Cardinality(st.allowed) = 1 => st.allowed # {}
    BY FS_EmptySet
  <2> QED
    BY <2>1, <2>2 DEF OnlyTarget
<1>3. req.anchor \in Project \cup {None}
  BY DEF RequestState
<1>4. ASSUME NEW a \in Capability \cup {"refuse"}, NEW p \in Project \cup {None}
      PROVE  [NoDecision EXCEPT !.action = a, !.target = p, !.remaining = Remaining] \in Decision
  BY <1>1, NoDecisionType DEF Decision
<1> QED
  BY <1>1, <1>2, <1>3, <1>4 DEF Fallback, Capability

LEMMA DecType ==
    ASSUME TypeInv, [Next]_vars
    PROVE  dec' \in Decision
<1> USE NoDecisionType DEF TypeInv, TypeOK
<1>1. CASE Decide
  BY <1>1, PlannedType DEF Decide, Chosen
<1>2. CASE PlannerFails
  BY <1>2, FallbackType DEF PlannerFails, Chosen
<1>3. CASE Controls /\ ~Decide /\ ~PlannerFails
  BY <1>3 DEF Controls, Refresh, RefreshFails, BeginRound, Prompt, TraceCheck, TraceSend,
     ActAnswer, ActRefuse, ActReplan, Passes, Replan, Refuse, Close
<1>4. CASE Searches
  BY <1>4 DEF Searches, ActRepeated, ActRetrieve, ActInvestigate, Retrieve, Rerank, RetrieveFails,
     RetrieveCheck, RetrieveSend, CodeOpens, CodeRefused, ChildRound, ChildCheck, ChildSend,
     ChildStep, ChildFails, ChildEnds, Passes, Replan, Close
<1>5. CASE Answers
  BY <1>5 DEF Answers, FinalRefresh, PromptAnswer, Generate, GenerateFails, Validate, DeltaCheck,
     DeltaSend, DoneCheck, DoneSend, CheckFails, Passes, Close
<1>6. CASE Environment
  BY <1>6 DEF Environment, EndAccess, ChangeProjects, MoveDepartment, Reimport, Change, agent
<1>7. CASE UNCHANGED vars
  BY <1>7 DEF vars
<1> QED
  BY <1>1, <1>2, <1>3, <1>4, <1>5, <1>6, <1>7 DEF Next, Step

(***************************************************************************)
(* The agent's state is changed in few ways.                               *)
(***************************************************************************)

LEMMA NarrowedType ==
    ASSUME NEW s \in AgentState, NEW projects
    PROVE  [s EXCEPT !.allowed = s.allowed \cap projects] \in AgentState
BY DEF AgentState

LEMMA RefusedType ==
    ASSUME NEW s \in AgentState
    PROVE  Refused(s) \in AgentState
BY DEF Refused, AgentState

LEMMA RoundBegunType ==
    ASSUME NEW s \in AgentState
    PROVE  RoundBegun(s) \in AgentState
<1>1. s.rounds + 1 \in Nat
  BY DEF AgentState
<1>2. [s EXCEPT !.rounds = s.rounds + 1] \in AgentState
  BY <1>1 DEF AgentState
<1> QED
  BY <1>2, RefusedType DEF RoundBegun

LEMMA RecordedType ==
    ASSUME NEW s \in AgentState, NEW a \in Capability,
           NEW status \in {"success", "partial", "empty"}, NEW item \in Item
    PROVE  Recorded(s, a, status, item) \in AgentState
<1>1. [capability |-> a, status |-> status, item |-> item] \in ToolResult
  BY DEF ToolResult
<1>2. Append(s.results, [capability |-> a, status |-> status, item |-> item]) \in Seq(ToolResult)
  BY <1>1 DEF AgentState
<1> QED
  BY <1>2 DEF Recorded, AgentState

LEMMA AdmittedType ==
    ASSUME TypeOK, IsFiniteSet(st.visited), dec.action \in Capability
    PROVE  Admitted \in AgentState /\ IsFiniteSet(Admitted.visited)
<1>1. Signature \in Capability \X (Project \cup {None}) \X Query
  BY DEF TypeOK, Decision, Signature
<1>2. st.visited \cup {Signature} \in SUBSET (Capability \X (Project \cup {None}) \X Query)
  BY <1>1 DEF TypeOK, AgentState
<1>3. st.tools + 1 \in Nat
  BY DEF TypeOK, AgentState
<1>4. IsFiniteSet(st.visited \cup {Signature})
  BY FS_AddElement
<1> QED
  BY <1>2, <1>3, <1>4 DEF TypeOK, AgentState, Admitted

LEMMA ChargedType ==
    ASSUME TypeOK
    PROVE  Charged \in AgentState
<1>1. st.tools + loop.calls \in Nat /\ loop.commit \in Commit \cup {None}
  BY DEF TypeOK, LoopTypeOK, LoopState, AgentState
<1> QED
  BY <1>1 DEF TypeOK, AgentState, Charged

LEMMA CodeItemType ==
    ASSUME TypeInv
    PROVE  CodeItem \in Item
<1>1. Attempts("query_code_wiki") \in Nat
  BY AttemptsType DEF TypeInv
<1>2. <<"code", Attempts("query_code_wiki")>> \in Id
  BY <1>1 DEF Id
<1>3. loop.target \in Project \cup {None} /\ loop.commit \in Commit \cup {None}
  BY DEF TypeInv, TypeOK, LoopTypeOK, LoopState
<1>4. ASSUME NEW id \in Id
      PROVE  [NoItem EXCEPT !.id = id, !.type = "code_wiki",
                        !.project = loop.target, !.commit = loop.commit, !.sound = TRUE] \in Item
  BY <1>3 DEF NoItem, Item
<1> QED
  BY <1>2, <1>4, NoItemType DEF CodeItem

LEMMA RagItemType ==
    ASSUME TypeOK, NEW sound \in BOOLEAN
    PROVE  RagItem(sound) \in Item
<1>1. <<"rag", st.tools>> \in Id
  BY DEF TypeOK, AgentState, Id
<1>2. scope.department \in Department
  BY DEF TypeOK, Scope
<1>3. ASSUME NEW id \in Id, NEW d \in Department
      PROVE  [NoItem EXCEPT !.id = id, !.type = "rag", !.department = d, !.sound = sound] \in Item
  BY DEF NoItem, Item
<1> QED
  BY <1>1, <1>2, <1>3 DEF RagItem

\* Steps of the searches and answers that leave the agent's state alone.
LEMMA StKept ==
    ASSUME [Next]_vars,
           ~(Refresh \/ BeginRound \/ Decide \/ PlannerFails \/ TraceCheck \/ ActAnswer \/ ActRefuse \/ ActReplan
             \/ ActRetrieve \/ ActInvestigate \/ Retrieve \/ Rerank \/ RetrieveCheck \/ ChildCheck \/ ChildEnds
             \/ FinalRefresh \/ DoneCheck)
    PROVE  st' = st
<1>1. CASE Controls
  BY <1>1 DEF Controls, RefreshFails, Prompt, TraceSend, Close
<1>2. CASE Searches
  BY <1>2 DEF Searches, ActRepeated, RetrieveFails, RetrieveSend, CodeOpens, CodeRefused, ChildRound,
     ChildSend, ChildStep, ChildFails, Replan, Close
<1>3. CASE Answers
  BY <1>3 DEF Answers, PromptAnswer, Generate, GenerateFails, Validate, DeltaCheck, DeltaSend, DoneSend,
     CheckFails, Close
<1>4. CASE Environment
  BY <1>4 DEF Environment, EndAccess, ChangeProjects, MoveDepartment, Reimport, Change, agent
<1>5. CASE UNCHANGED vars
  BY <1>5 DEF vars
<1> QED
  BY <1>1, <1>2, <1>3, <1>4, <1>5 DEF Next, Step

LEMMA StType ==
    ASSUME TypeInv, [Next]_vars
    PROVE  st' \in AgentState /\ IsFiniteSet(st'.visited)
<1> USE DEF TypeInv, TypeOK
<1> DEFINE narrow == [st EXCEPT !.allowed = st.allowed \cap grant.projects]
<1>1. narrow \in AgentState /\ IsFiniteSet(narrow.visited)
  BY NarrowedType DEF AgentState
<1>2. Refused(narrow) \in AgentState /\ IsFiniteSet(Refused(narrow).visited)
      /\ Refused(st) \in AgentState /\ IsFiniteSet(Refused(st).visited)
  BY <1>1, RefusedType DEF AgentState, Refused
<1>3. ASSUME NEW s \in AgentState, NEW p \in Project, NEW m \in ScopeMode, IsFiniteSet(s.visited)
      PROVE  LET t == [s EXCEPT !.scopeMode = m]
                 u == [t EXCEPT !.investigated = s.investigated \cup {p}]
             IN  /\ t \in AgentState /\ IsFiniteSet(t.visited)
                 /\ u \in AgentState /\ IsFiniteSet(u.visited)
  BY <1>3 DEF AgentState
<1>4. ASSUME NEW n, Passes(n)
      PROVE  st' \in AgentState /\ IsFiniteSet(st'.visited)
  BY <1>1, <1>4 DEF Passes
<1>5. ASSUME NEW d \in Decision, NEW suggested \in ScopeMode, Chosen(d, suggested)
      PROVE  st' \in AgentState /\ IsFiniteSet(st'.visited)
  <2>1. ScopeAfter(suggested) \in ScopeMode
    BY DEF ScopeAfter, ScopeMode, RequestState
  <2>2. d.action = "query_code_wiki" /\ d.target \in st.allowed => d.target \in Project
    BY DEF AgentState
  <2>3. PICK m : m = ScopeAfter(suggested)
    OBVIOUS
  <2>4. \/ st' = [st EXCEPT !.scopeMode = m]
        \/ /\ d.target \in Project
           /\ st' = [[st EXCEPT !.scopeMode = m] EXCEPT !.investigated = st.investigated \cup {d.target}]
    <3>1. CASE d.action = "query_code_wiki" /\ d.target \notin st.allowed
      BY <1>5, <2>3, <3>1, Zenon DEF Chosen
    <3>2. CASE d.action = "query_code_wiki" /\ d.target \in st.allowed
      BY <1>5, <2>2, <2>3, <3>2, Zenon DEF Chosen
    <3>3. CASE d.action # "query_code_wiki"
      BY <1>5, <2>3, <3>3, Zenon DEF Chosen
    <3> QED
      BY <3>1, <3>2, <3>3
  <2>5. st \in AgentState /\ IsFiniteSet(st.visited) /\ m \in ScopeMode
    BY <2>1, <2>3
  <2>6. [st EXCEPT !.scopeMode = m] \in AgentState /\ IsFiniteSet([st EXCEPT !.scopeMode = m].visited)
    BY <1>3, <2>5, AnchorAssumption
  <2>7. d.target \in Project =>
          LET u == [[st EXCEPT !.scopeMode = m] EXCEPT !.investigated = st.investigated \cup {d.target}]
          IN  u \in AgentState /\ IsFiniteSet(u.visited)
    BY <1>3, <2>5
  <2> QED
    BY <2>4, <2>6, <2>7
<1>6. CASE Refresh
  BY <1>1, <1>2, <1>6 DEF Refresh
<1>7. CASE BeginRound
  <2>1. st' = RoundBegun(narrow)
    BY <1>7 DEF BeginRound
  <2>2. st'.visited = narrow.visited
    BY <2>1, <1>1 DEF RoundBegun, Refused, AgentState
  <2> QED
    BY <1>1, <2>1, <2>2, RoundBegunType
<1>8. CASE Decide \/ PlannerFails
  BY <1>5, <1>8, PlannedType, FallbackType DEF Decide, PlannerFails, ScopeMode
<1>9. CASE TraceCheck \/ RetrieveCheck \/ ChildCheck \/ DoneCheck
  BY <1>4, <1>9 DEF TraceCheck, RetrieveCheck, ChildCheck, DoneCheck
<1>10. CASE ActAnswer
  <2>1. [st EXCEPT !.ready = TRUE] \in AgentState /\ IsFiniteSet([st EXCEPT !.ready = TRUE].visited)
    BY DEF AgentState
  <2> QED
    BY <1>2, <1>10, <2>1 DEF ActAnswer, Replan, Refuse
<1>11. CASE ActRefuse \/ ActReplan
  BY <1>2, <1>11 DEF ActRefuse, ActReplan, Replan, Refuse
<1>12. CASE ActRetrieve \/ ActInvestigate
  <2>1. dec.action \in Capability
    BY <1>12 DEF ActRetrieve, ActInvestigate, Capability
  <2>2. Admitted \in AgentState /\ IsFiniteSet(Admitted.visited)
    BY <2>1, AdmittedType
  <2>3. Refused(Admitted) \in AgentState /\ IsFiniteSet(Refused(Admitted).visited)
    BY <2>2, RefusedType DEF AgentState, Refused
  <2> QED
    BY <1>12, <2>2, <2>3 DEF ActRetrieve, ActInvestigate, Close
<1>13. ASSUME NEW s \in AgentState, NEW a \in Capability, IsFiniteSet(s.visited),
           NEW status \in {"success", "partial", "empty"}, NEW item \in Item
       PROVE  Recorded(s, a, status, item) \in AgentState
              /\ IsFiniteSet(Recorded(s, a, status, item).visited)
  BY <1>13, RecordedType DEF Recorded, AgentState
<1>14. CASE Retrieve \/ Rerank
  BY <1>13, <1>14, NoItemType, RagItemType DEF Retrieve, Rerank, Capability
<1>15. CASE ChildEnds
  <2>1. Charged \in AgentState /\ IsFiniteSet(Charged.visited)
    BY ChargedType DEF Charged, AgentState
  <2>2. CodeStatus \in {"success", "partial", "empty"}
    BY DEF CodeStatus, LoopTypeOK, LoopState
  <2>3. st' = st \/ st' = Recorded(Charged, "query_code_wiki", CodeStatus, CodeItem)
    BY <1>15 DEF ChildEnds, Close
  <2> QED
    BY <1>13, <2>1, <2>2, <2>3, CodeItemType DEF Capability
<1>16. CASE FinalRefresh
  BY <1>1, <1>2, <1>16 DEF FinalRefresh
<1> QED
  BY <1>6, <1>7, <1>8, <1>9, <1>10, <1>11, <1>12, <1>14, <1>15, <1>16, StKept

\* What a document search adds: nothing, or a document of the department it
\* was made for.
LEMMA SearchResult ==
    ASSUME TypeInv, Retrieve \/ Rerank
    PROVE  \/ pc' = "rerank" /\ st' = st
           \/ /\ pc' = "ragCheck"
              /\ \E r \in ToolResult :
                    /\ st' = [st EXCEPT !.results = Append(st.results, r)]
                    /\ \/ r.item = NoItem
                       \/ /\ r.item.id = <<"rag", st.tools>>
                          /\ r.item.department = scope.department
<1>1. CASE Retrieve /\ pc' = "rerank"
  BY <1>1 DEF Retrieve
<1>2. CASE st' = Recorded(st, "retrieve_rag", "empty", NoItem) /\ pc' = "ragCheck"
  <2> DEFINE r == [capability |-> "retrieve_rag", status |-> "empty", item |-> NoItem]
  <2>1. r \in ToolResult
    BY NoItemType DEF ToolResult, Capability
  <2>2. st' = [st EXCEPT !.results = Append(st.results, r)] /\ r.item = NoItem
    BY <1>2 DEF Recorded
  <2> QED
    BY <1>2, <2>1, <2>2
<1>3. ASSUME NEW sound \in BOOLEAN, pc' = "ragCheck",
             st' = Recorded(st, "retrieve_rag", "success", RagItem(sound))
      PROVE  \E r \in ToolResult :
               /\ st' = [st EXCEPT !.results = Append(st.results, r)]
               /\ r.item.id = <<"rag", st.tools>> /\ r.item.department = scope.department
  <2> DEFINE r == [capability |-> "retrieve_rag", status |-> "success", item |-> RagItem(sound)]
  <2>1. r \in ToolResult
    BY RagItemType DEF ToolResult, Capability, TypeInv
  <2>2. r.item.id = <<"rag", st.tools>> /\ r.item.department = scope.department
    BY DEF RagItem, NoItem
  <2>3. st' = [st EXCEPT !.results = Append(st.results, r)]
    BY <1>3 DEF Recorded
  <2> QED
    BY <2>1, <2>2, <2>3
<1>4. CASE Retrieve /\ pc' # "rerank"
  BY <1>2, <1>4 DEF Retrieve
<1>5. CASE Rerank
  BY <1>2, <1>3, <1>5 DEF Rerank
<1> QED
  BY <1>1, <1>4, <1>5

LEMMA AppendedEvidence ==
    ASSUME TypeInv, NEW r \in ToolResult, st'.results = Append(st.results, r)
    PROVE  /\ DOMAIN st.results = 1..Len(st.results)
           /\ DOMAIN st'.results = 1..(Len(st.results) + 1)
           /\ st'.results[Len(st.results) + 1] = r
           /\ \A i \in 1..Len(st.results) : st'.results[i] = st.results[i]
           /\ \A i \in DOMAIN st'.results : i \in 1..Len(st.results) \/ i = Len(st.results) + 1
           /\ Evidence \subseteq Evidence'
           /\ Evidence' \subseteq Evidence \cup ({r.item} \ {NoItem})
<1>1. st.results \in Seq(ToolResult) /\ Len(st.results) \in Nat
  BY DEF TypeInv, TypeOK, AgentState
<1>2. /\ DOMAIN st.results = 1..Len(st.results)
      /\ DOMAIN st'.results = 1..(Len(st.results) + 1)
      /\ st'.results[Len(st.results) + 1] = r
      /\ \A i \in 1..Len(st.results) : st'.results[i] = st.results[i]
  BY <1>1
<1>3. \A i \in DOMAIN st'.results : i \in 1..Len(st.results) \/ i = Len(st.results) + 1
  BY <1>1, <1>2
<1> QED
  BY <1>2, <1>3 DEF Evidence

LEMMA LoopType ==
    ASSUME TypeInv, [Next]_vars
    PROVE  LoopTypeOK'
<1> USE OffType DEF TypeInv, TypeOK, LoopTypeOK
<1>1. CASE Controls
  BY <1>1 DEF Controls, Refresh, RefreshFails, BeginRound, Prompt, Decide, PlannerFails, Chosen,
     TraceCheck, TraceSend, ActAnswer, ActRefuse, ActReplan, Passes, Close
<1>2. CASE CodeOpens
  <2>1. RoundsLeft(st) \in Nat /\ ToolsLeft(st) \in Nat
    BY <1>2, BudgetAssumption DEF RoundsLeft, ToolsLeft, AgentState, BudgetLeft, CodeOpens
  <2>2. Least(RoundsLeft(st), CodeRounds) \in Nat /\ Least(ToolsLeft(st), CodeTools) \in Nat
    BY <2>1, CodeBudgetAssumption DEF Least
  <2>3. dec.target \in Project /\ head[dec.target] \in Commit
    BY <1>2 DEF CodeOpens, Grant
  <2>4. ASSUME NEW l \in LoopState,
               NEW p \in Project, NEW c \in Commit, NEW r \in Nat, NEW n \in Nat
        PROVE  [l EXCEPT !.at = "round", !.target = p, !.commit = c, !.maxRounds = r,
                         !.maxCalls = n] \in LoopState
    BY Zenon DEF LoopState
  <2> QED
    BY <1>2, <2>2, <2>3, <2>4 DEF CodeOpens, Opened
<1>3. CASE ChildRound
  BY <1>3 DEF ChildRound, Round, LoopState
<1>4. CASE ChildStep
  BY <1>4, InvestigateType DEF ChildStep
<1>5. CASE Searches /\ ~CodeOpens /\ ~ChildRound /\ ~ChildStep
  BY <1>5 DEF Searches, ActRepeated, ActRetrieve, ActInvestigate, Retrieve, Rerank, RetrieveFails,
     RetrieveCheck, RetrieveSend, CodeRefused, ChildCheck, ChildSend,
     ChildFails, ChildEnds, Passes, Close
<1>6. CASE Answers
  BY <1>6 DEF Answers, FinalRefresh, PromptAnswer, Generate, GenerateFails, Validate, DeltaCheck,
     DeltaSend, DoneCheck, DoneSend, CheckFails, Passes, Close
<1>7. CASE Environment
  BY <1>7 DEF Environment, EndAccess, ChangeProjects, MoveDepartment, Reimport, Change, agent
<1>8. CASE UNCHANGED vars
  BY <1>8 DEF vars
<1> QED
  BY <1>1, <1>2, <1>3, <1>4, <1>5, <1>6, <1>7, <1>8 DEF Next, Step


\* What a step of the agent does to the request, the authorization it holds
\* and what is known of its end.
LEMMA StepEffects ==
    ASSUME Step
    PROVE  /\ UNCHANGED <<grant, head, changes, req>>
           /\ scope' = scope \/ (scope' = Current /\ grant.active)
           /\ late' \in {late, late + 1}
           /\ outcome' \in {outcome, "done", "revoked", "failed", "guard"}
<1>1. CASE Controls
  BY <1>1 DEF Step, Controls, Refresh, RefreshFails, BeginRound, Prompt, Decide, PlannerFails, Chosen,
     TraceCheck, TraceSend, ActAnswer, ActRefuse, ActReplan, Passes, Close, Sent, Authorized, Valid
<1>2. CASE Searches
  BY <1>2 DEF Step, Searches, ActRepeated, ActRetrieve, ActInvestigate, Retrieve, Rerank, RetrieveFails,
     RetrieveCheck, RetrieveSend, CodeOpens, CodeRefused, ChildRound, ChildCheck, ChildSend,
     ChildStep, ChildFails, ChildEnds, Passes, Close, Sent, Authorized, Valid
<1>3. CASE Answers
  BY <1>3 DEF Step, Answers, FinalRefresh, PromptAnswer, Generate, GenerateFails, Validate, DeltaCheck,
     DeltaSend, DoneCheck, DoneSend, CheckFails, Passes, Close, Sent, Authorized, AnswerAuthorized, Valid
<1> QED
  BY <1>1, <1>2, <1>3 DEF Step

LEMMA GrantType ==
    ASSUME grant \in Grant, EndAccess \/ ChangeProjects \/ MoveDepartment \/ Reimport
    PROVE  grant' \in Grant
<1>1. CASE EndAccess
  BY <1>1 DEF EndAccess, Grant
<1>2. CASE ChangeProjects
  <2>1. PICK p \in Project :
          grant' = [grant EXCEPT !.projects = (grant.projects \ {p}) \cup ({p} \ grant.projects)]
    BY <1>2 DEF ChangeProjects
  <2>2. PICK ps : ps = (grant.projects \ {p}) \cup ({p} \ grant.projects)
    OBVIOUS
  <2>3. ps \in SUBSET Project
    BY <2>2 DEF Grant
  <2> QED
    BY <2>1, <2>2, <2>3 DEF Grant
<1>3. CASE MoveDepartment
  BY <1>3 DEF MoveDepartment, Grant
<1>4. CASE Reimport
  BY <1>4 DEF Reimport
<1> QED
  BY <1>1, <1>2, <1>3, <1>4

\* The variables other than loop, st and dec.
LEMMA OthersType ==
    ASSUME TypeInv, [Next]_vars
    PROVE  /\ grant' \in Grant /\ head' \in [Project -> Commit] /\ changes' \in Nat
           /\ req' \in RequestState /\ scope' \in Scope
           /\ late' \in Nat /\ outcome' \in {"none", "done", "revoked", "failed", "guard"}
<1> USE DEF TypeInv, TypeOK
<1>1. Current \in Scope
  BY DEF Current, Scope, Grant
<1>2. CASE Step
  BY <1>1, <1>2, StepEffects
<1>3. CASE Environment
  <2>1. Change /\ changes' \in Nat
    BY <1>3 DEF Environment, EndAccess, ChangeProjects, MoveDepartment, Reimport, Change
  <2>4. grant' \in Grant
    BY <1>3, GrantType DEF Environment
  <2>9. head' \in [Project -> Commit]
    BY <1>3 DEF Environment, EndAccess, ChangeProjects, MoveDepartment, Reimport
  <2> QED
    BY <2>1, <2>4, <2>9 DEF Change, agent
<1>4. CASE UNCHANGED vars
  BY <1>4 DEF vars
<1> QED
  BY <1>2, <1>3, <1>4 DEF Next

LEMMA AnswerType ==
    ASSUME TypeInv, [Next]_vars
    PROVE  /\ claims' \in SUBSET Claim /\ kept' \in SUBSET Claim
           /\ shown' \in SUBSET Id
<1> USE DEF TypeInv, TypeOK
<1>1. CASE Controls
  BY <1>1 DEF Controls, Refresh, RefreshFails, BeginRound, Prompt, Decide, PlannerFails, Chosen,
     TraceCheck, TraceSend, ActAnswer, ActRefuse, ActReplan, Passes, Close, Replan, Refuse, Decision
<1>2. CASE Searches
  BY <1>2 DEF Searches, ActRepeated, ActRetrieve, ActInvestigate, Retrieve, Rerank, RetrieveFails,
     RetrieveCheck, RetrieveSend, CodeOpens, CodeRefused, ChildRound, ChildCheck, ChildSend,
     ChildStep, ChildFails, ChildEnds, Passes, Close, Replan
<1>3. CASE FinalRefresh
  BY <1>3 DEF FinalRefresh, Fits
<1>4. CASE Validate
  <2>1. Cited(kept) \subseteq Id /\ Written(kept) \subseteq Id
    BY DEF Cited, Written, Claim
  <2>2. \A S \in SUBSET (Known \cup {Ghost}) : Contract(S) \in SUBSET Id
    BY <2>1, KnownType DEF Contract, Ghost, Id
  <2> QED
    BY <1>4, <2>2 DEF Validate
<1>5. CASE Answers /\ ~FinalRefresh /\ ~Validate
  BY <1>5 DEF Answers, PromptAnswer, Generate, GenerateFails, DeltaCheck,
     DeltaSend, DoneCheck, DoneSend, CheckFails, Passes, Close
<1>6. CASE Environment
  BY <1>6 DEF Environment, EndAccess, ChangeProjects, MoveDepartment, Reimport, Change, agent
<1>7. CASE UNCHANGED vars
  BY <1>7 DEF vars
<1> QED
  BY <1>1, <1>2, <1>3, <1>4, <1>5, <1>6, <1>7 DEF Next, Step

\* Where the generator is, and what it has left to do there.
LEMMA PlaceType ==
    ASSUME TypeInv, [Next]_vars
    PROVE  pc' \in Label /\ todo' \in Nat /\ PartsLeft'
<1>0. pc \in Label /\ todo \in Nat /\ (pc \in {"delta", "deltaSend", "childSend"} => todo # 0)
  BY DEF TypeInv, TypeOK, PartsLeft
<1> USE <1>0, BudgetAssumption DEF PartsLeft
<1>1. CASE Controls
  <2>1. CASE Refresh \/ RefreshFails \/ BeginRound \/ Prompt
    BY <2>1 DEF Refresh, RefreshFails, BeginRound, Prompt, Close, Label
  <2>2. CASE Decide \/ PlannerFails
    BY <2>2 DEF Decide, PlannerFails, Chosen, Label
  <2>3. CASE TraceCheck \/ TraceSend
    BY <2>3 DEF TraceCheck, TraceSend, Passes, Label
  <2>4. CASE ActAnswer \/ ActRefuse \/ ActReplan
    BY <2>4 DEF ActAnswer, ActRefuse, ActReplan, Replan, Refuse, Label
  <2> QED
    BY <1>1, <2>1, <2>2, <2>3, <2>4 DEF Controls
<1>2. CASE Searches
  <2>1. CASE ActRepeated \/ ActRetrieve \/ ActInvestigate
    BY <2>1 DEF ActRepeated, ActRetrieve, ActInvestigate, Close, Replan, Label
  <2>2. CASE RetrieveFails \/ RetrieveCheck \/ RetrieveSend \/ CodeOpens \/ CodeRefused
    BY <2>2 DEF RetrieveFails, RetrieveCheck, RetrieveSend, CodeOpens, CodeRefused, Passes,
       Close, Label
  <2>6. CASE Retrieve \/ Rerank
    BY <2>6 DEF Retrieve, Rerank, Label
  <2>3. CASE ChildRound \/ ChildStep \/ ChildFails \/ ChildEnds
    BY <2>3 DEF ChildRound, ChildStep, ChildFails, ChildEnds, Close, Label
  <2>4. CASE ChildCheck
    BY <2>4 DEF ChildCheck, Passes, Label
  <2>5. CASE ChildSend
    BY <2>5 DEF ChildSend, Label
  <2> QED
    BY <1>2, <2>1, <2>2, <2>3, <2>4, <2>5, <2>6 DEF Searches
<1>3. CASE Answers
  BY <1>3 DEF Answers, FinalRefresh, PromptAnswer, Generate, GenerateFails, Validate, DeltaCheck,
     DeltaSend, DoneCheck, DoneSend, CheckFails, Passes, Close, Label
<1>4. CASE Environment
  BY <1>4 DEF Environment, EndAccess, ChangeProjects, MoveDepartment, Reimport, Change, agent
<1>5. CASE UNCHANGED vars
  BY <1>5 DEF vars
<1> QED
  BY <1>1, <1>2, <1>3, <1>4, <1>5 DEF Next, Step

LEMMA BudgetLeftStep ==
    ASSUME TypeInv, [Next]_vars
    PROVE  BudgetLeft'
<1>1. CASE ActInvestigate
  <2>1. pc' = "code" => st' = Admitted /\ ~(ToolsLeft(Admitted) <= 0 \/ RoundsLeft(Admitted) <= 0)
    BY <1>1 DEF ActInvestigate, Close
  <2>2. Admitted \in AgentState
    BY <1>1, AdmittedType DEF ActInvestigate, Capability, TypeInv
  <2>3. ToolsLeft(Admitted) \in Int /\ RoundsLeft(Admitted) \in Int
    BY <2>2, BudgetAssumption DEF ToolsLeft, RoundsLeft, AgentState
  <2>4. pc' = "code" => ToolsLeft(Admitted) > 0 /\ RoundsLeft(Admitted) > 0
    BY <2>1, <2>3
  <2> QED
    BY <2>1, <2>4 DEF BudgetLeft, ToolsLeft, RoundsLeft
<1>2. pc' = "code" => ActInvestigate \/ (pc = "code" /\ st' = st)
  <2>1. CASE Controls
    BY <2>1 DEF Controls, Refresh, RefreshFails, BeginRound, Prompt, Decide, PlannerFails, Chosen,
       TraceCheck, TraceSend, ActAnswer, ActRefuse, ActReplan, Passes, Close, Replan, Refuse
  <2>2. CASE Searches
    BY <2>2 DEF Searches, ActRepeated, ActRetrieve, Retrieve, Rerank, RetrieveFails,
       RetrieveCheck, RetrieveSend, CodeOpens, CodeRefused, ChildRound, ChildCheck, ChildSend,
       ChildStep, ChildFails, ChildEnds, Passes, Close, Replan
  <2>3. CASE Answers
    BY <2>3 DEF Answers, FinalRefresh, PromptAnswer, Generate, GenerateFails, Validate, DeltaCheck,
       DeltaSend, DoneCheck, DoneSend, CheckFails, Passes, Close
  <2>4. CASE Environment
    BY <2>4 DEF Environment, EndAccess, ChangeProjects, MoveDepartment, Reimport, Change, agent
  <2>5. CASE UNCHANGED vars
    BY <2>5 DEF vars
  <2> QED
    BY <2>1, <2>2, <2>3, <2>4, <2>5 DEF Next, Step
<1> QED
  BY <1>1, <1>2 DEF TypeInv, BudgetLeft, ToolsLeft, RoundsLeft

LEMMA InitType ==
    ASSUME Init
    PROVE  TypeInv
<1> USE FirstAssumption, AnchorAssumption DEF Init
<1>1. loop \in LoopState
  BY OffType
<1>2. grant \in Grant /\ head \in [Project -> Commit] /\ scope \in Scope
  BY DEF Grant, Scope, Current
<1>3. req \in RequestState
  BY DEF Request, RequestState
<1>4. st \in AgentState /\ IsFiniteSet(st.visited)
  <2>1. st.visited = {} /\ grant.projects \subseteq Project
    OBVIOUS
  <2> QED
    BY <2>1, FS_EmptySet DEF AgentState, ScopeMode
<1>5. dec \in Decision
  BY NoDecisionType
<1> QED
  BY <1>1, <1>2, <1>3, <1>4, <1>5 DEF TypeInv, TypeOK, LoopTypeOK, PartsLeft, BudgetLeft, Label

LEMMA TypeStep ==
    ASSUME TypeInv, [Next]_vars
    PROVE  TypeInv'
BY LoopType, OthersType, StType, DecType, AnswerType, PlaceType, BudgetLeftStep DEF TypeInv, TypeOK

\* Every step of the agent, its investigations and the rest of the system
\* keeps the types of app/knowledge_agent.py and app/agent_loop.py.
THEOREM TypeCorrect == Spec => []TypeOK
<1>1. Init => TypeInv
  BY InitType
<1>2. TypeInv /\ [Next]_vars => TypeInv'
  BY TypeStep
<1>3. TypeInv => TypeOK
  BY DEF TypeInv
<1> QED
  BY <1>1, <1>2, <1>3, PTL DEF Spec

(***************************************************************************)
(* A check stands before everything that is sent.                          *)
(***************************************************************************)

\* After one event without authorization, the next is only reached through a
\* check that has read the authorization as it is.
Checked ==
    /\ pc \in {"plan", "traceSend", "ragSend", "childSend", "doneSend"} =>
         Valid(Investigated, HasRag(Evidence))
    /\ pc \in {"prompt", "deltaSend"} => AnswerAuthorized

\* Something found or looked into is no longer authorized: the next checkpoint
\* ends the stream.
Stale == ~Valid(Investigated, HasRag(Evidence))

\* The authorization to read documents is the one last read.
Settled == Valid({}, TRUE)

\* The reranker is asked without a check.  If something was sent late before,
\* it is still authorized, or what was sent late makes the next checkpoint fail.
LateInv ==
    /\ late \in Nat /\ late <= 2
    /\ late # 0 => Checked
    /\ late # 0 /\ pc \notin {"ragCheck", "closed"} => Stale \/ Settled
    /\ late = 2 /\ pc # "closed" => pc = "ragCheck" /\ Stale

LEMMA PassesChecked ==
    ASSUME UNCHANGED grant, NEW next, Passes(next)
    PROVE  Valid(Investigated, HasRag(Evidence))'
<1>1. st'.results = st.results /\ st'.investigated = st.investigated
  BY DEF Passes
<1>2. Evidence' = Evidence
  BY <1>1 DEF Evidence
<1>3. Investigated' = Investigated
  BY <1>1, <1>2 DEF Investigated, CodeProjects
<1>4. scope' = Current /\ Authorized
  BY DEF Passes
<1> QED
  BY <1>2, <1>3, <1>4 DEF Authorized, Valid, Current, HasRag

LEMMA BeginRoundChecked ==
    ASSUME UNCHANGED grant, BeginRound
    PROVE  Valid(Investigated, HasRag(Evidence))'
<1>1. st'.results = st.results /\ st'.investigated = st.investigated
  BY DEF BeginRound, RoundBegun, Refused
<1>2. Evidence' = Evidence
  BY <1>1 DEF Evidence
<1>3. Investigated' = Investigated
  BY <1>1, <1>2 DEF Investigated, CodeProjects
<1>4. scope' = Current /\ Authorized
  BY DEF BeginRound
<1> QED
  BY <1>2, <1>3, <1>4 DEF Authorized, Valid, Current, HasRag

LEMMA FinalRefreshChecked ==
    ASSUME UNCHANGED grant, FinalRefresh, pc' = "prompt"
    PROVE  AnswerAuthorized'
<1>1. /\ grant.active /\ scope' = Current
      /\ ~(grant.department # scope.department /\ HasRag(Approved))
      /\ CodeProjects(Approved) \subseteq grant.projects
      /\ st' = [st EXCEPT !.allowed = st.allowed \cap grant.projects]
      /\ claims' = claims
  BY DEF FinalRefresh
<1>2. st'.results = st.results
  BY <1>1
<1>3. Evidence' = Evidence
  BY <1>2 DEF Evidence
<1>4. Approved' = Approved
  BY <1>1, <1>3 DEF Approved, OfIds
<1> QED
  BY <1>1, <1>4 DEF AnswerAuthorized, Valid, Current, HasRag, CodeProjects

LEMMA DeltaCheckChecked ==
    ASSUME UNCHANGED grant, DeltaCheck
    PROVE  AnswerAuthorized'
<1>1. AnswerAuthorized /\ scope' = Current /\ claims' = claims /\ st' = st
  BY DEF DeltaCheck
<1>2. Approved' = Approved
  BY <1>1 DEF Approved, OfIds, Evidence
<1> QED
  BY <1>1, <1>2 DEF AnswerAuthorized, Valid, Current, HasRag, CodeProjects

\* Only a search and an investigation add evidence; no project that was looked
\* into is forgotten.
LEMMA ResultsKept ==
    ASSUME TypeInv, Step
    PROVE  /\ st.investigated \subseteq st'.investigated
           /\ Retrieve \/ Rerank \/ ChildEnds \/ st'.results = st.results
<1>1. st \in AgentState
  BY DEF TypeInv, TypeOK
<1>2. CASE Controls
  <2>1. CASE Refresh \/ BeginRound
    BY <1>1, <2>1 DEF Refresh, BeginRound, RoundBegun, Refused, AgentState
  <2>2. CASE RefreshFails \/ Prompt \/ TraceSend
    BY <2>2 DEF RefreshFails, Prompt, TraceSend, Close
  <2>3. ASSUME NEW d, NEW suggested, Chosen(d, suggested)
        PROVE  st.investigated \subseteq st'.investigated /\ st'.results = st.results
    <3>1. PICK m : m = ScopeAfter(suggested)
      OBVIOUS
    <3>2. \/ st' = [st EXCEPT !.scopeMode = m]
          \/ st' = [[st EXCEPT !.scopeMode = m] EXCEPT !.investigated = st.investigated \cup {d.target}]
      BY <2>3, <3>1, Zenon DEF Chosen
    <3> QED
      BY <1>1, <3>2 DEF AgentState
  <2>4. CASE Decide \/ PlannerFails
    BY <2>3, <2>4 DEF Decide, PlannerFails
  <2>5. CASE TraceCheck \/ ActAnswer \/ ActRefuse \/ ActReplan
    BY <1>1, <2>5 DEF TraceCheck, Passes, ActAnswer, ActRefuse, ActReplan, Replan, Refuse, Refused, AgentState
  <2> QED
    BY <1>2, <2>1, <2>2, <2>4, <2>5 DEF Controls
<1>3. CASE Searches
  <2>1. CASE ActRepeated \/ RetrieveFails \/ RetrieveSend \/ CodeOpens \/ CodeRefused
    BY <2>1 DEF ActRepeated, RetrieveFails, RetrieveSend, CodeOpens, CodeRefused, Replan, Close
  <2>2. CASE ChildRound \/ ChildSend \/ ChildStep \/ ChildFails
    BY <2>2 DEF ChildRound, ChildSend, ChildStep, ChildFails, Close
  <2>3. CASE ActRetrieve \/ ActInvestigate \/ RetrieveCheck \/ ChildCheck
    BY <1>1, <2>3 DEF ActRetrieve, ActInvestigate, Admitted, Refused, Close, RetrieveCheck, ChildCheck,
       Passes, AgentState
  <2>4. CASE Retrieve \/ Rerank \/ ChildEnds
    BY <1>1, <2>4 DEF Retrieve, Rerank, ChildEnds, Recorded, Charged, Close, AgentState
  <2> QED
    BY <1>3, <2>1, <2>2, <2>3, <2>4 DEF Searches
<1>4. CASE Answers
  <2>1. CASE FinalRefresh \/ DoneCheck
    BY <1>1, <2>1 DEF FinalRefresh, DoneCheck, Passes, Refused, AgentState
  <2>2. CASE Answers /\ ~FinalRefresh /\ ~DoneCheck
    BY <2>2 DEF Answers, PromptAnswer, Generate, GenerateFails, Validate, DeltaCheck, DeltaSend, DoneSend,
       CheckFails, Close
  <2> QED
    BY <1>4, <2>1, <2>2
<1> QED
  BY <1>2, <1>3, <1>4 DEF Step

\* What was found, and what was looked into, stays.
LEMMA FindingsGrow ==
    ASSUME TypeInv, Step
    PROVE  st.investigated \subseteq st'.investigated /\ Evidence \subseteq Evidence'
<1>1. st \in AgentState
  BY DEF TypeInv, TypeOK
<1>2. \/ st'.results = st.results
      \/ \E r \in ToolResult : st'.results = Append(st.results, r)
  <2>1. CASE Retrieve \/ Rerank
    <3>1. CASE st' = st
      BY <3>1
    <3>2. ASSUME NEW r \in ToolResult, st' = [st EXCEPT !.results = Append(st.results, r)]
          PROVE  st'.results = Append(st.results, r)
      BY <1>1, <3>2 DEF AgentState
    <3> QED
      BY <2>1, <3>1, <3>2, SearchResult
  <2>2. CASE ChildEnds
    <3> DEFINE r == [capability |-> "query_code_wiki", status |-> CodeStatus, item |-> CodeItem]
    <3>1. CodeStatus \in {"success", "partial", "empty"}
      BY DEF CodeStatus, TypeInv, TypeOK, LoopTypeOK, LoopState
    <3>2. r \in ToolResult
      BY <3>1, CodeItemType DEF ToolResult, Capability
    <3>3. st' = st \/ st'.results = Append(st.results, r)
      BY <1>1, <2>2 DEF ChildEnds, Recorded, Charged, Close, AgentState
    <3> QED
      BY <3>2, <3>3
  <2>3. CASE ~(Retrieve \/ Rerank \/ ChildEnds)
    BY <2>3, ResultsKept
  <2> QED
    BY <2>1, <2>2, <2>3
<1>3. st.investigated \subseteq st'.investigated
  BY ResultsKept
<1>4. Evidence \subseteq Evidence'
  <2>1. CASE st'.results = st.results
    BY <2>1 DEF Evidence
  <2>2. CASE \E r \in ToolResult : st'.results = Append(st.results, r)
    BY <2>2, AppendedEvidence
  <2> QED
    BY <1>2, <2>1, <2>2
<1> QED
  BY <1>3, <1>4

\* What is stale stays so until a check reads the authorization again; then
\* all is settled.
LEMMA StaleOrSettled ==
    ASSUME TypeInv, Step
    PROVE  /\ Settled => Settled'
           /\ Stale => Stale' \/ Settled'
           /\ scope' = scope /\ Stale => Stale'
<1>1. UNCHANGED grant /\ (scope' = scope \/ (scope' = Current /\ grant.active))
  BY StepEffects
<1>2. ASSUME scope' = Current, grant.active
      PROVE  Settled'
  BY <1>1, <1>2 DEF Settled, Valid, Current
<1>3. ASSUME scope' = scope
      PROVE  (Settled => Settled') /\ (Stale => Stale')
  <2>1. Investigated \subseteq Investigated' /\ (HasRag(Evidence) => HasRag(Evidence)')
    BY FindingsGrow DEF Investigated, CodeProjects, HasRag
  <2> QED
    BY <1>1, <1>3, <2>1 DEF Settled, Stale, Valid
<1> QED
  BY <1>1, <1>2, <1>3

\* The steps that send leave their place, and those that lead to one check.
LEMMA LateStep ==
    ASSUME TypeInv, LateInv, [Next]_vars
    PROVE  LateInv'
<1> USE DEF LateInv
<1>1. CASE Step
  <2> DEFINE Here == {"plan", "traceSend", "ragSend", "childSend", "doneSend", "prompt", "deltaSend"}
             Last == {"ragCheck", "closed"}
  <2>1. UNCHANGED grant
    BY <1>1 DEF Step
  <2>2. ASSUME late' = late, pc \in Last => pc' = "closed", Checked'
        PROVE  LateInv'
    BY <1>1, <2>2, StaleOrSettled
  <2>3. ASSUME late' = late \/ (late' = late + 1 /\ Stale), late # 0 => late' = late,
               pc \notin Last, pc' \notin Here, pc' # "ragCheck"
        PROVE  LateInv'
    <3>1. Checked'
      BY <2>3 DEF Checked
    <3>2. late' \in Nat /\ late' <= 1 /\ (late' # 0 => Stale \/ Settled)
      BY <2>3
    <3> QED
      BY <1>1, <3>1, <3>2, StaleOrSettled
  <2>4. CASE Prompt \/ TraceSend \/ RetrieveSend \/ ChildSend \/ DoneSend
    <3>1. Sent(Investigated, HasRag(Evidence))
      BY <2>4 DEF Prompt, TraceSend, RetrieveSend, ChildSend, DoneSend
    <3>2. pc \notin Last /\ pc' \notin Here /\ pc' # "ragCheck" /\ (Checked => ~Stale)
      BY <2>4 DEF Prompt, TraceSend, RetrieveSend, ChildSend, DoneSend, Close, Checked, Stale
    <3> QED
      BY <2>3, <3>1, <3>2 DEF Sent, Stale
  <2>5. CASE PromptAnswer \/ DeltaSend
    <3>1. Sent(CodeProjects(Approved), HasRag(Approved))
      BY <2>5 DEF PromptAnswer, DeltaSend
    <3>2. pc \notin Last /\ pc' \notin Here /\ pc' # "ragCheck" /\ (Checked => AnswerAuthorized)
      BY <2>5 DEF PromptAnswer, DeltaSend, Checked
    <3>3. ~AnswerAuthorized => Stale
      BY DEF AnswerAuthorized, Stale, Valid, Investigated, CodeProjects, HasRag, Approved, OfIds
    <3> QED
      BY <2>3, <3>1, <3>2, <3>3 DEF Sent, AnswerAuthorized
  <2>6. CASE Rerank
    <3>1. pc = "rerank" /\ pc' = "ragCheck" /\ scope' = scope
      BY <2>6 DEF Rerank
    <3>2. late' = late \/ (late' = late + 1 /\ ~Settled)
      BY <2>6 DEF Rerank, Sent, Settled
    <3>3. late <= 1 /\ late' <= 2 /\ (late' = 2 => Stale)
      BY <3>1, <3>2
    <3>4. late' = 2 => Stale'
      BY <1>1, <3>1, <3>3, StaleOrSettled
    <3> QED
      BY <3>1, <3>2, <3>3, <3>4 DEF Checked
  <2>7. ASSUME NEW next \in {"traceSend", "ragSend", "childSend", "doneSend"}, Passes(next)
        PROVE  Checked' /\ late' = late /\ pc' = next
    <3>1. late' = late /\ pc' = next
      BY <2>7 DEF Passes
    <3> QED
      BY <2>1, <2>7, <3>1, PassesChecked DEF Checked
  <2>8. CASE RetrieveCheck
    <3>1. Passes("ragSend") /\ ~Stale
      BY <2>8 DEF RetrieveCheck, Passes, Authorized, Stale
    <3>2. Settled'
      BY <2>1, <3>1 DEF Passes, Authorized, Settled, Valid, Current
    <3> QED
      BY <2>7, <2>8, <3>1, <3>2 DEF RetrieveCheck
  <2>9. CASE TraceCheck \/ ChildCheck \/ DoneCheck
    <3>1. pc \notin Last
      BY <2>9 DEF TraceCheck, ChildCheck, DoneCheck
    <3> QED
      BY <2>2, <2>7, <2>9, <3>1 DEF TraceCheck, ChildCheck, DoneCheck
  <2>10. CASE BeginRound
    <3>1. late' = late /\ pc' \notin Here \ {"plan"} /\ pc \notin Last
      BY <2>10 DEF BeginRound
    <3>2. Checked'
      BY <2>1, <2>10, <3>1, BeginRoundChecked DEF Checked
    <3> QED
      BY <2>2, <3>1, <3>2
  <2>11. CASE FinalRefresh
    <3>1. late' = late /\ pc' \notin Here \ {"prompt"} /\ pc \notin Last
      BY <2>11 DEF FinalRefresh
    <3>2. Checked'
      BY <2>1, <2>11, <3>1, FinalRefreshChecked DEF Checked
    <3> QED
      BY <2>2, <3>1, <3>2
  <2>12. CASE DeltaCheck
    <3>1. late' = late /\ pc' = "deltaSend" /\ pc \notin Last
      BY <2>12 DEF DeltaCheck
    <3>2. Checked'
      BY <2>1, <2>12, <3>1, DeltaCheckChecked DEF Checked
    <3> QED
      BY <2>2, <3>1, <3>2
  <2>13. ASSUME late' = late, pc' \notin Here, pc \in Last => pc' = "closed"
         PROVE  LateInv'
    BY <2>2, <2>13 DEF Checked
  <2>14. CASE Controls /\ ~Prompt /\ ~TraceSend /\ ~BeginRound /\ ~TraceCheck
    <3>1. late' = late /\ pc' \notin Here /\ pc \notin Last
      BY <2>14 DEF Controls, Refresh, RefreshFails, Decide, PlannerFails, Chosen, ActAnswer, ActRefuse,
         ActReplan, Close, Replan, Refuse
    <3> QED
      BY <2>13, <3>1
  <2>15. CASE Searches /\ ~Rerank /\ ~RetrieveSend /\ ~ChildSend /\ ~RetrieveCheck /\ ~ChildCheck
    <3>1. late' = late /\ pc' \notin Here /\ pc \notin Last
      BY <2>15 DEF Searches, ActRepeated, ActRetrieve, ActInvestigate, Retrieve, RetrieveFails,
         CodeOpens, CodeRefused, ChildRound, ChildStep, ChildFails, ChildEnds, Close, Replan
    <3> QED
      BY <2>13, <3>1
  <2>16. CASE /\ Answers /\ ~FinalRefresh /\ ~PromptAnswer /\ ~DeltaCheck /\ ~DeltaSend
              /\ ~DoneCheck /\ ~DoneSend
    <3>1. late' = late /\ pc' \notin Here /\ (pc \in Last => pc' = "closed")
      BY <2>16 DEF Answers, Generate, GenerateFails, Validate, CheckFails, Close
    <3> QED
      BY <2>13, <3>1
  <2> QED
    BY <1>1, <2>4, <2>5, <2>6, <2>8, <2>9, <2>10, <2>11, <2>12, <2>14, <2>15, <2>16
       DEF Step, Controls, Searches, Answers
<1>2. CASE Environment
  <2>1. late' = 0
    BY <1>2 DEF Environment, EndAccess, ChangeProjects, MoveDepartment, Reimport, Change
  <2> QED
    BY <2>1
<1>3. CASE UNCHANGED vars
  <2>1. Checked' = Checked /\ Stale' = Stale /\ Settled' = Settled
    BY <1>3 DEF vars, Checked, Valid, AnswerAuthorized, Investigated, Evidence, CodeProjects, HasRag,
       Approved, OfIds, Stale, Settled
  <2> QED
    BY <1>3, <2>1 DEF vars
<1> QED
  BY <1>1, <1>2, <1>3 DEF Next

\* However the authorization changes, at most one event or prompt that rests
\* on what was withdrawn leaves the server after a change; the reranker's
\* request of a search under way can follow it, and then nothing more.
THEOREM LateEventsBounded == Spec => []LateEventsAreFew
<1>1. Init => TypeInv /\ LateInv
  <2>1. Init => LateInv
    BY DEF Init, LateInv
  <2> QED
    BY <2>1, InitType
<1>2. TypeInv /\ LateInv /\ [Next]_vars => TypeInv' /\ LateInv'
  BY TypeStep, LateStep
<1>3. LateInv => LateEventsAreFew
  BY DEF LateInv, LateEventsAreFew
<1> QED
  BY <1>1, <1>2, <1>3, PTL DEF Spec

(***************************************************************************)
(* One budget for the agent and its investigations.                        *)
(***************************************************************************)

Investigating == {"child", "childSend"}

\* A round that is begun is within the budget.
BudgetInv ==
    /\ BudgetsAreShared
    /\ loop.at # "off" => pc \in Investigating
    /\ loop.at \in {"round", "asked", "calls"} => loop.completed < loop.maxRounds

\* A call is run only under the budget, and a round ends it.
LEMMA InvestigateBudget ==
    ASSUME LoopTypeOK, Investigate, loop.calls <= loop.maxCalls, loop.completed <= loop.maxRounds,
           loop.at \in {"round", "asked", "calls"} => loop.completed < loop.maxRounds
    PROVE  /\ loop'.maxCalls = loop.maxCalls /\ loop'.maxRounds = loop.maxRounds
           /\ loop'.calls <= loop'.maxCalls /\ loop'.completed <= loop'.maxRounds
           /\ loop'.at \in {"round", "asked", "calls"} => loop'.completed < loop'.maxRounds
           /\ loop'.at # "off"
           /\ loop'.target = loop.target /\ loop'.commit = loop.commit
<1>1. /\ loop.maxCalls \in Nat /\ loop.maxRounds \in Nat /\ loop.calls \in Nat /\ loop.completed \in Nat
      /\ loop \in LoopState
  BY DEF LoopTypeOK, LoopState
<1> USE <1>1 DEF LoopState
<1>2. CASE ReplyNothing
  BY <1>2 DEF ReplyNothing, Finished
<1>3. CASE ReplyFinish
  BY <1>3 DEF ReplyFinish, Finished
<1>4. CASE ReplyCalls
  BY <1>4 DEF ReplyCalls
<1>5. CASE Block
  BY <1>5 DEF Block
<1>6. CASE Execute
  <2>1. loop.calls < loop.maxCalls
    BY <1>6, ReasonAssumption DEF Execute, Refusal, Reason
  <2>2. /\ loop'.calls = loop.calls + 1 /\ loop'.completed = loop.completed /\ loop'.at = "calls"
        /\ loop'.maxCalls = loop.maxCalls /\ loop'.maxRounds = loop.maxRounds
        /\ loop'.target = loop.target /\ loop'.commit = loop.commit
    BY <1>6 DEF Execute, Noted
  <2> QED
    BY <1>6, <2>1, <2>2 DEF Execute
<1>7. CASE EndRound
  <2>1. /\ loop'.completed = loop.completed + 1 /\ loop'.calls = loop.calls
        /\ loop'.maxCalls = loop.maxCalls /\ loop'.maxRounds = loop.maxRounds
        /\ loop'.target = loop.target /\ loop'.commit = loop.commit
        /\ loop'.at = "end" \/ (loop'.at = "round" /\ ~(loop.completed + 1 >= loop.maxRounds))
    BY <1>7 DEF EndRound, Evaluated, Finished
  <2>2. loop.completed < loop.maxRounds
    BY <1>7 DEF EndRound
  <2> QED
    BY <2>1, <2>2
<1>8. CASE StreamFails
  BY <1>8 DEF StreamFails
<1> QED
  BY <1>2, <1>3, <1>4, <1>5, <1>6, <1>7, <1>8 DEF Investigate

\* The steps that spend nothing.
LEMMA BudgetKept ==
    ASSUME TypeInv, [Next]_vars,
           ~(BeginRound \/ ActRetrieve \/ ActInvestigate \/ CodeOpens \/ ChildRound \/ ChildStep \/ ChildEnds)
    PROVE  /\ st'.rounds = st.rounds /\ st'.tools = st.tools
           /\ loop' = Off \/ (loop' = loop /\ (pc \in Investigating => pc' \in Investigating))
<1> USE DEF Investigating
<1>1. st \in AgentState
  BY DEF TypeInv, TypeOK
<1>2. CASE Controls
  <2>1. CASE Refresh
    BY <1>1, <2>1 DEF Refresh, Refused, AgentState
  <2>2. CASE RefreshFails \/ Prompt
    BY <2>2 DEF RefreshFails, Prompt, Close
  <2>3. CASE Decide \/ PlannerFails
    BY <1>1, <2>3 DEF Decide, PlannerFails, Chosen, AgentState
  <2>4. CASE TraceCheck \/ TraceSend
    BY <1>1, <2>4 DEF TraceCheck, TraceSend, Passes, AgentState
  <2>5. CASE ActAnswer \/ ActRefuse \/ ActReplan
    BY <1>1, <2>5 DEF ActAnswer, ActRefuse, ActReplan, Replan, Refuse, Refused, AgentState
  <2> QED
    BY <1>2, <2>1, <2>2, <2>3, <2>4, <2>5 DEF Controls
<1>3. CASE Searches
  <2>1. CASE ActRepeated \/ RetrieveFails \/ RetrieveSend \/ CodeRefused \/ ChildSend \/ ChildFails
    BY <2>1 DEF ActRepeated, RetrieveFails, RetrieveSend, CodeRefused, ChildSend, ChildFails, Replan, Close
  <2>2. CASE Retrieve \/ Rerank
    BY <1>1, <2>2 DEF Retrieve, Rerank, Recorded, AgentState
  <2>3. CASE RetrieveCheck \/ ChildCheck
    BY <1>1, <2>3 DEF RetrieveCheck, ChildCheck, Passes, AgentState
  <2> QED
    BY <1>3, <2>1, <2>2, <2>3 DEF Searches
<1>4. CASE Answers
  <2>1. CASE FinalRefresh
    BY <1>1, <2>1 DEF FinalRefresh, Refused, AgentState
  <2>2. CASE DoneCheck
    BY <1>1, <2>2 DEF DoneCheck, Passes, AgentState
  <2>3. CASE Answers /\ ~FinalRefresh /\ ~DoneCheck
    BY <2>3 DEF Answers, PromptAnswer, Generate, GenerateFails, Validate, DeltaCheck, DeltaSend, DoneSend,
       CheckFails, Close
  <2> QED
    BY <1>4, <2>1, <2>2, <2>3
<1>5. CASE Environment
  BY <1>5 DEF Environment, EndAccess, ChangeProjects, MoveDepartment, Reimport, Change, agent
<1>6. CASE UNCHANGED vars
  BY <1>6 DEF vars
<1> QED
  BY <1>2, <1>3, <1>4, <1>5, <1>6 DEF Next, Step

LEMMA BudgetStep ==
    ASSUME TypeInv, BudgetInv, [Next]_vars
    PROVE  BudgetInv'
<1> USE DEF BudgetInv, BudgetsAreShared
<1>1. /\ st.rounds \in Nat /\ st.tools \in Nat /\ MaxRounds \in Nat /\ MaxTools \in Nat
      /\ st \in AgentState /\ LoopTypeOK
      /\ loop.calls \in Nat /\ loop.maxCalls \in Nat /\ loop.maxRounds \in Nat /\ loop.completed \in Nat
  BY BudgetAssumption DEF TypeInv, TypeOK, AgentState, LoopTypeOK, LoopState
<1>2. Off.at = "off"
  BY DEF Off
<1>3. CASE BeginRound
  <2>1. loop' = loop /\ loop.at = "off"
    BY <1>3 DEF BeginRound, Investigating
  <2>2. st'.tools = st.tools /\ (st'.rounds = st.rounds \/ (st'.rounds = st.rounds + 1 /\ ~(st.rounds >= MaxRounds)))
    BY <1>1, <1>3 DEF BeginRound, RoundBegun, Refused, AgentState
  <2> QED
    BY <1>1, <2>1, <2>2
<1>4. CASE ActRetrieve \/ ActInvestigate
  <2>1. loop'.at = "off"
    BY <1>2, <1>4 DEF ActRetrieve, ActInvestigate, Investigating, Close
  <2>2. Admitted.rounds = st.rounds /\ Admitted.tools = st.tools + 1
    BY <1>1 DEF Admitted, AgentState
  <2>3. Refused(Admitted).rounds = st.rounds /\ Refused(Admitted).tools = st.tools + 1
    BY <1>1 DEF Admitted, Refused, AgentState
  <2>4. st' = st \/ (st.tools < MaxTools /\ st' \in {Admitted, Refused(Admitted)})
    BY <1>1, <1>4 DEF ActRetrieve, ActInvestigate, Close
  <2> QED
    BY <1>1, <2>1, <2>2, <2>3, <2>4
<1>5. CASE CodeOpens
  <2>1. /\ RoundsLeft(st) > 0 /\ ToolsLeft(st) > 0 /\ st' = st /\ pc' = "child"
        /\ loop' = Opened(dec.target, head[dec.target], RoundsLeft(st), ToolsLeft(st))
    BY <1>5 DEF CodeOpens, TypeInv, BudgetLeft
  <2>2. /\ loop'.calls = 0 /\ loop'.completed = 0
        /\ loop'.maxRounds = Least(RoundsLeft(st), CodeRounds)
        /\ loop'.maxCalls = Least(ToolsLeft(st), CodeTools)
    BY <2>1 DEF Opened, Off
  <2>3. RoundsLeft(st) = MaxRounds - st.rounds - 1 /\ ToolsLeft(st) = MaxTools - st.tools
    BY DEF RoundsLeft, ToolsLeft
  <2> QED
    BY <1>1, <2>1, <2>2, <2>3, CodeBudgetAssumption DEF Least, Investigating
<1>6. CASE ChildRound
  BY <1>1, <1>6 DEF ChildRound, Round, Investigating, LoopTypeOK, LoopState
<1>7. CASE ChildStep
  <2>1. Investigate /\ st' = st /\ pc' = pc /\ pc = "child"
    BY <1>7 DEF ChildStep
  <2>2. loop.at # "off"
    BY <2>1 DEF Investigate, ReplyNothing, ReplyFinish, ReplyCalls, Block, Execute, EndRound, StreamFails
  <2> QED
    BY <1>1, <2>1, <2>2, InvestigateBudget DEF Investigating
<1>8. CASE ChildEnds
  <2>1. loop' = Off
    BY <1>8 DEF ChildEnds, Close
  <2>2. st' = st \/ (Charged.tools <= MaxTools /\ st' = Recorded(Charged, "query_code_wiki", CodeStatus, CodeItem))
    BY <1>8 DEF ChildEnds, Close
  <2>3. Charged.rounds = st.rounds /\ Charged \in AgentState
    BY ChargedType, <1>1 DEF Charged, AgentState, TypeInv
  <2>4. ASSUME NEW s \in AgentState, NEW a, NEW status, NEW item
        PROVE  Recorded(s, a, status, item).rounds = s.rounds /\ Recorded(s, a, status, item).tools = s.tools
    BY DEF Recorded, AgentState
  <2> QED
    BY <1>1, <1>2, <2>1, <2>2, <2>3, <2>4
<1>9. CASE ~(BeginRound \/ ActRetrieve \/ ActInvestigate \/ CodeOpens \/ ChildRound \/ ChildStep \/ ChildEnds)
  BY <1>1, <1>2, <1>9, BudgetKept
<1> QED
  BY <1>3, <1>4, <1>5, <1>6, <1>7, <1>8, <1>9

\* No planner, model or change of authorization takes the agent and its
\* investigations over the budget of the request.
THEOREM BudgetsHold == Spec => []BudgetsAreShared
<1>1. Init => TypeInv /\ BudgetInv
  <2>1. ASSUME Init PROVE BudgetInv
    BY <2>1, BudgetAssumption DEF Init, BudgetInv, BudgetsAreShared, Off
  <2> QED
    BY <2>1, InitType
<1>2. TypeInv /\ BudgetInv /\ [Next]_vars => (TypeInv /\ BudgetInv)'
  BY TypeStep, BudgetStep
<1>3. BudgetInv => BudgetsAreShared
  BY DEF BudgetInv
<1> QED
  BY <1>1, <1>2, <1>3, PTL DEF Spec

(***************************************************************************)
(* What the checks of KnowledgeAgentState rest on.                         *)
(***************************************************************************)

Deciding == {"trace", "traceSend", "act"}
Opening == {"code", "child", "childSend"}

\* An investigation is of a project that is a candidate as long as it runs:
\* a checkpoint that would take the project away ends the stream.
TargetInv ==
    /\ pc \in Deciding /\ dec.action \in Capability => st.tools < MaxTools
    /\ pc \in Deciding \cup Opening /\ dec.action = "query_code_wiki" =>
         dec.target \in st.allowed /\ dec.target \in st.investigated
    /\ pc \in Opening => dec.action = "query_code_wiki"
    /\ loop.at # "off" => loop.target = dec.target /\ loop.commit \in Commit

\* What the planner or its fallback chooses to do is on offer.
LEMMA ChosenOnOffer ==
    ASSUME NEW d \in Planned \cup {Fallback}, d.action \in Capability
    PROVE  st.tools < MaxTools
<1>1. Remaining # {} => st.tools < MaxTools
  BY DEF Remaining, Sources
<1>2. CASE d = Fallback
  <2>1. d.action = IF OnlyTarget # None /\ "query_code_wiki" \in Remaining THEN "query_code_wiki"
                   ELSE IF ~(OnlyTarget # None /\ "query_code_wiki" \in Remaining)
                           /\ "retrieve_rag" \in Remaining
                   THEN "retrieve_rag" ELSE "refuse"
    BY <1>2 DEF Fallback, NoDecision
  <2> QED
    BY <1>1, <2>1 DEF Capability
<1>3. CASE d \in Planned
  <2>1. d.action \in AllowedActions
    BY <1>3 DEF Planned
  <2> QED
    BY <1>1, <2>1 DEF AllowedActions, Capability
<1> QED
  BY <1>2, <1>3

LEMMA ChosenTarget ==
    ASSUME TypeInv, BudgetInv, TargetInv, pc = "decide",
           NEW d \in Planned \cup {Fallback}, NEW suggested \in ScopeMode, Chosen(d, suggested)
    PROVE  TargetInv'
<1>1. st \in AgentState
  BY DEF TypeInv, TypeOK
<1>2. loop' = loop /\ loop.at = "off"
  BY DEF Chosen, BudgetInv, Investigating
<1>3. CASE d.action = "query_code_wiki" /\ d.target \notin st.allowed
  <2>1. pc' = "loop"
    BY <1>3 DEF Chosen
  <2> QED
    BY <1>2, <2>1 DEF TargetInv, Deciding, Opening
<1>4. CASE ~(d.action = "query_code_wiki" /\ d.target \notin st.allowed)
  <2>1. pc' = "trace" /\ dec' = d
    BY <1>4 DEF Chosen
  <2>2. PICK m : m = ScopeAfter(suggested)
    OBVIOUS
  <2>3. st' = IF d.action = "query_code_wiki"
              THEN [[st EXCEPT !.scopeMode = m]
                       EXCEPT !.investigated = st.investigated \cup {d.target}]
              ELSE [st EXCEPT !.scopeMode = m]
    BY <1>4, <2>2, Zenon DEF Chosen
  <2>4. /\ st'.tools = st.tools /\ st'.allowed = st.allowed
        /\ d.action = "query_code_wiki" => d.target \in st'.investigated
    BY <1>1, <2>3 DEF AgentState
  <2> QED
    BY <1>2, <1>4, <2>1, <2>4, ChosenOnOffer DEF TargetInv, Deciding, Opening
<1> QED
  BY <1>3, <1>4

\* A checkpoint in the middle of an investigation keeps its target.
LEMMA PassesTarget ==
    ASSUME TypeInv, BudgetInv, TargetInv, NEW next, Passes(next),
           \/ pc = "trace" /\ next = "traceSend"
           \/ pc = "child" /\ next = "childSend"
           \/ pc \notin Deciding \cup Opening /\ next \notin Deciding \cup Opening
    PROVE  TargetInv'
<1>1. st \in AgentState
  BY DEF TypeInv, TypeOK
<1>2. /\ st'.tools = st.tools /\ st'.investigated = st.investigated
      /\ st'.allowed = st.allowed \cap grant.projects
      /\ dec' = dec /\ loop' = loop /\ pc' = next
  BY <1>1 DEF Passes, AgentState
<1>3. st.investigated \subseteq grant.projects
  BY DEF Passes, Authorized, Valid, Investigated
<1> QED
  BY <1>2, <1>3 DEF TargetInv, Deciding, Opening

LEMMA TargetStep ==
    ASSUME TypeInv, BudgetInv, TargetInv, [Next]_vars
    PROVE  TargetInv'
<1>1. st \in AgentState /\ Off.at = "off"
  BY DEF TypeInv, TypeOK, Off
<1>2. pc \notin Investigating => loop.at = "off"
  BY DEF BudgetInv
<1>3. ASSUME pc' \notin Deciding \cup Opening, loop' = Off \/ (loop' = loop /\ pc \notin Investigating)
      PROVE  TargetInv'
  BY <1>1, <1>2, <1>3 DEF TargetInv
<1>4. CASE Decide \/ PlannerFails
  BY <1>4, ChosenTarget DEF Decide, PlannerFails, ScopeMode
<1>5. CASE TraceCheck \/ RetrieveCheck \/ ChildCheck \/ DoneCheck
  BY <1>5, PassesTarget DEF TraceCheck, RetrieveCheck, ChildCheck, DoneCheck, Deciding, Opening
<1>6. CASE TraceSend \/ ChildSend
  <2>1. /\ UNCHANGED <<loop, st, dec>>
        /\ \/ pc = "traceSend" /\ pc' = "act"
           \/ pc = "childSend" /\ pc' = "child"
    BY <1>6 DEF TraceSend, ChildSend
  <2> QED
    BY <2>1 DEF TargetInv, Deciding, Opening
<1>7. CASE ChildRound \/ ChildStep
  <2>1. UNCHANGED <<st, dec, pc>> /\ pc = "child" /\ loop.at # "off"
    BY <1>7 DEF ChildRound, ChildStep, Round, Investigate, ReplyNothing, ReplyFinish, ReplyCalls, Block,
       Execute, EndRound, StreamFails
  <2>2. CASE ChildRound
    <3>1. loop'.target = loop.target /\ loop'.commit = loop.commit
      BY <2>2 DEF ChildRound, Round
    <3> QED
      BY <2>1, <3>1 DEF TargetInv, Deciding, Opening
  <2>3. CASE ChildStep
    <3>1. loop'.target = loop.target /\ loop'.commit = loop.commit
      BY <2>1, <2>3, InvestigateBudget DEF ChildStep, BudgetInv, BudgetsAreShared, TypeInv, TypeOK
    <3> QED
      BY <2>1, <3>1 DEF TargetInv, Deciding, Opening
  <2> QED
    BY <1>7, <2>2, <2>3
<1>8. CASE ActRetrieve
  BY <1>3, <1>8 DEF ActRetrieve, Close, Deciding, Opening, Investigating
<1>9. CASE ActInvestigate
  <2>1. pc' = "code" => /\ st' = Admitted /\ dec' = dec /\ loop' = loop /\ pc = "act"
                        /\ dec.action = "query_code_wiki"
    BY <1>9 DEF ActInvestigate, Close
  <2>2. Admitted.allowed = st.allowed /\ Admitted.investigated = st.investigated
    BY <1>1 DEF Admitted, AgentState
  <2>3. CASE pc' = "code"
    BY <1>2, <2>1, <2>2, <2>3 DEF TargetInv, Deciding, Opening, Investigating
  <2>4. CASE pc' # "code"
    BY <1>3, <1>9, <2>4 DEF ActInvestigate, Close, Deciding, Opening, Investigating
  <2> QED
    BY <2>3, <2>4
<1>10. CASE CodeOpens
  <2>1. /\ loop' = Opened(dec.target, head[dec.target], RoundsLeft(st), ToolsLeft(st))
        /\ UNCHANGED <<st, dec>> /\ pc = "code" /\ pc' = "child" /\ dec.target \in grant.projects
    BY <1>10 DEF CodeOpens
  <2>2. loop'.target = dec.target /\ loop'.commit = head[dec.target]
    BY <2>1 DEF Opened, Off
  <2>3. head[dec.target] \in Commit
    BY <2>1 DEF TypeInv, TypeOK, Grant
  <2> QED
    BY <2>1, <2>2, <2>3 DEF TargetInv, Deciding, Opening
<1>11. CASE Refresh \/ RefreshFails \/ BeginRound \/ Prompt
  BY <1>3, <1>11 DEF Refresh, RefreshFails, BeginRound, Prompt, Close, Deciding, Opening, Investigating
<1>12. CASE ActAnswer \/ ActRefuse \/ ActReplan \/ ActRepeated
  BY <1>3, <1>12 DEF ActAnswer, ActRefuse, ActReplan, ActRepeated, Replan, Refuse, Deciding, Opening,
     Investigating
<1>13. CASE Retrieve \/ Rerank
  BY <1>3, <1>13 DEF Retrieve, Rerank, Deciding, Opening, Investigating
<1>14. CASE RetrieveFails \/ RetrieveSend \/ CodeRefused \/ ChildFails
  BY <1>3, <1>14 DEF RetrieveFails, RetrieveSend, CodeRefused, ChildFails, Close, Deciding, Opening,
     Investigating
<1>15. CASE ChildEnds
  BY <1>3, <1>15 DEF ChildEnds, Close, Deciding, Opening
<1>16. CASE FinalRefresh
  BY <1>3, <1>16 DEF FinalRefresh, Deciding, Opening, Investigating
<1>17. CASE Answers /\ ~FinalRefresh /\ ~DoneCheck /\ ~CheckFails
  BY <1>3, <1>17 DEF Answers, PromptAnswer, Generate, GenerateFails, Validate, DeltaCheck, DeltaSend,
     DoneSend, Close, Deciding, Opening, Investigating
<1>18. CASE CheckFails
  BY <1>3, <1>18 DEF CheckFails, Close, Deciding, Opening
<1>19. CASE Environment \/ UNCHANGED vars
  BY <1>19 DEF Environment, EndAccess, ChangeProjects, MoveDepartment, Reimport, Change, agent, vars,
     TargetInv
<1> QED
  BY <1>4, <1>5, <1>6, <1>7, <1>8, <1>9, <1>10, <1>11, <1>12, <1>13, <1>14, <1>15, <1>16, <1>17, <1>18,
     <1>19 DEF Next, Step, Controls, Searches, Answers

\* The result of an investigation always passes record_tool_result.
LEMMA ResultRecordable ==
    ASSUME TypeInv, BudgetInv, TargetInv, pc = "child", loop.at = "end"
    PROVE  Charged.tools <= MaxTools /\ Recordable(Charged, CodeItem)
<1>1. /\ st \in AgentState /\ loop \in LoopState /\ st.tools \in Nat
      /\ loop.calls \in Nat /\ loop.maxCalls \in Nat /\ MaxTools \in Nat
  BY BudgetAssumption DEF TypeInv, TypeOK, LoopTypeOK, AgentState, LoopState
<1>2. /\ Charged.tools = st.tools + loop.calls /\ Charged.commit = loop.commit
      /\ Charged.allowed = st.allowed
  BY <1>1 DEF Charged, AgentState
<1>3. Charged.tools <= MaxTools
  BY <1>1, <1>2 DEF BudgetInv, BudgetsAreShared
<1>4. loop.target \in st.allowed /\ loop.commit \in Commit
  BY DEF TargetInv, Deciding, Opening
<1>5. loop.target # None /\ loop.commit # None
  BY <1>1, <1>4, NoneAssumption DEF AgentState
<1>6. CodeItem.type = "code_wiki" => CodeItem.project = loop.target /\ CodeItem.commit = loop.commit
  BY DEF CodeItem, NoItem
<1> QED
  BY <1>2, <1>3, <1>4, <1>5, <1>6 DEF Recordable

LEMMA GuardStep ==
    ASSUME TypeInv, BudgetInv, TargetInv, GuardsNeverFire, [Next]_vars
    PROVE  GuardsNeverFire'
<1> USE DEF GuardsNeverFire
<1>1. CASE ActRetrieve \/ ActInvestigate
  <2>1. st.tools < MaxTools /\ st.tools \in Nat /\ MaxTools \in Nat
    BY <1>1, BudgetAssumption
    DEF ActRetrieve, ActInvestigate, TargetInv, Deciding, Capability, TypeInv, TypeOK, AgentState
  <2> QED
    BY <1>1, <2>1 DEF ActRetrieve, ActInvestigate
<1>2. CASE ChildEnds
  BY <1>2, ResultRecordable DEF ChildEnds
<1>3. CASE Controls
  BY <1>3 DEF Controls, Refresh, RefreshFails, BeginRound, Prompt, Decide, PlannerFails, Chosen,
     TraceCheck, TraceSend, ActAnswer, ActRefuse, ActReplan, Passes, Close
<1>4. CASE Searches /\ ~ActRetrieve /\ ~ActInvestigate /\ ~ChildEnds
  BY <1>4 DEF Searches, ActRepeated, Retrieve, Rerank, RetrieveFails, RetrieveCheck, RetrieveSend, CodeOpens,
     CodeRefused, ChildRound, ChildCheck, ChildSend, ChildStep, ChildFails, Passes, Close
<1>5. CASE Answers
  BY <1>5 DEF Answers, FinalRefresh, PromptAnswer, Generate, GenerateFails, Validate, DeltaCheck,
     DeltaSend, DoneCheck, DoneSend, CheckFails, Passes, Close
<1>6. CASE Environment \/ UNCHANGED vars
  BY <1>6 DEF Environment, EndAccess, ChangeProjects, MoveDepartment, Reimport, Change, agent, vars
<1> QED
  BY <1>1, <1>2, <1>3, <1>4, <1>5, <1>6 DEF Next, Step

\* A check of KnowledgeAgentState for a loop gone wrong never ends a request.
THEOREM GuardsHold == Spec => []GuardsNeverFire
<1> DEFINE Inv == TypeInv /\ BudgetInv /\ TargetInv /\ GuardsNeverFire
<1>1. Init => Inv
  <2>1. ASSUME Init PROVE BudgetInv /\ TargetInv /\ GuardsNeverFire
    BY <2>1, BudgetAssumption DEF Init, BudgetInv, BudgetsAreShared, TargetInv, Deciding, Opening,
       GuardsNeverFire, Off
  <2> QED
    BY <2>1, InitType
<1>2. Inv /\ [Next]_vars => Inv'
  BY TypeStep, BudgetStep, TargetStep, GuardStep
<1>3. Inv => GuardsNeverFire
  OBVIOUS
<1> QED
  BY <1>1, <1>2, <1>3, PTL DEF Spec

(***************************************************************************)
(* The stream runs down.                                                   *)
(***************************************************************************)

\* The most steps that a round of an investigation takes.
RoundSteps == MaxBatch + 5

\* The steps that are left of a round of the investigation l, when the agent is
\* at p and n of its events are to be sent.
LeftOfRound(l, p, n) ==
    CASE l.at = "round" -> RoundSteps
      [] l.at = "asked" -> MaxBatch + 2 + (IF p = "childSend" THEN 1 ELSE 2 * n)
      [] l.at = "calls" -> 1 + Len(l.queue)

LeftOfInvestigation(l, p, n) ==
    IF l.at \in {"round", "asked", "calls"}
    THEN (l.maxRounds - l.completed - 1) * RoundSteps + LeftOfRound(l, p, n) ELSE 0

\* An answer is written and sent; a step of planning may start an investigation.
AnswerSteps == 3 * Parts
InvestigationSteps == CodeRounds * RoundSteps

\* The steps that are left from the place p on, if no other round of the agent
\* is begun; k are left of the investigation under way.
LeftAt(p, n, k) ==
    CASE p = "closed" -> 0
      [] p = "doneSend" -> 1
      [] p = "done" -> 2
      [] p = "deltaSend" -> 1 + 2 * n
      [] p = "delta" -> 2 + 2 * n
      [] p = "generate" -> 3 + 2 * Parts + n
      [] p = "prompt" -> 4 + AnswerSteps
      [] p = "final" -> 5 + AnswerSteps
      [] p = "checkpoint" -> 6 + AnswerSteps
      [] p = "loop" -> 7 + AnswerSteps
      [] p = "ragSend" -> 8 + AnswerSteps
      [] p = "ragCheck" -> 9 + AnswerSteps
      [] p = "rerank" -> 10 + AnswerSteps
      [] p = "rag" -> 11 + AnswerSteps
      [] p \in Investigating -> 8 + AnswerSteps + k
      [] p = "code" -> 9 + AnswerSteps + InvestigationSteps
      [] p = "act" -> 12 + AnswerSteps + InvestigationSteps
      [] p = "traceSend" -> 13 + AnswerSteps + InvestigationSteps
      [] p = "trace" -> 14 + AnswerSteps + InvestigationSteps
      [] p = "decide" -> 15 + AnswerSteps + InvestigationSteps
      [] p = "plan" -> 16 + AnswerSteps + InvestigationSteps

AgentRoundSteps == 11 + InvestigationSteps

\* A bound of the steps the agent can still take, whatever anyone answers.
StepsLeft ==
    (MaxRounds - st.rounds) * AgentRoundSteps
        + LeftAt(pc, todo, LeftOfInvestigation(loop, pc, todo))

\* What is sent, and what is asked for, is bounded.
TurnInv ==
    /\ pc = "childSend" => loop.at = "asked" /\ todo = 1
    /\ pc = "child" /\ loop.at = "asked" => todo <= 1
    /\ loop.at = "calls" => Len(loop.queue) <= MaxBatch

\* Every step of the agent leaves fewer of them, and no step of anyone else more.
RunsDown ==
    /\ Step => StepsLeft' < StepsLeft
    /\ Environment => StepsLeft' = StepsLeft

StreamRunsDown == [][RunsDown]_vars

LEMMA StepCounts ==
    /\ MaxBatch \in Nat \ {0} /\ RoundSteps = MaxBatch + 5 /\ RoundSteps \in Nat
    /\ Parts \in Nat \ {0} /\ AnswerSteps = 3 * Parts /\ AnswerSteps \in Nat
    /\ CodeRounds \in Nat \ {0} /\ InvestigationSteps = CodeRounds * RoundSteps
    /\ InvestigationSteps \in Nat
    /\ AgentRoundSteps = 11 + InvestigationSteps /\ AgentRoundSteps \in Nat
<1>1. MaxBatch \in Nat \ {0} /\ Parts \in Nat \ {0} /\ CodeRounds \in Nat \ {0}
  BY CodeBudgetAssumption, BudgetAssumption
<1>2. RoundSteps = MaxBatch + 5 /\ RoundSteps \in Nat
  BY <1>1 DEF RoundSteps
<1>3. AnswerSteps = 3 * Parts /\ AnswerSteps \in Nat
  BY <1>1 DEF AnswerSteps
<1>4. InvestigationSteps = CodeRounds * RoundSteps /\ InvestigationSteps \in Nat
  BY <1>1, <1>2 DEF InvestigationSteps
<1>5. AgentRoundSteps = 11 + InvestigationSteps /\ AgentRoundSteps \in Nat
  BY <1>4 DEF AgentRoundSteps
<1>6. QED
  BY <1>1, <1>2, <1>3, <1>4, <1>5

\* A round less is its steps less.
LEMMA OneRoundLess ==
    ASSUME NEW a \in Nat, NEW b \in Nat
    PROVE  a * b \in Nat /\ (a + 1) * b = a * b + b
OBVIOUS

LEMMA RoundsAdd ==
    ASSUME NEW a \in Nat, NEW d \in Nat, NEW b \in Nat
    PROVE  d * b \in Nat /\ (a + d) * b = a * b + d * b
OBVIOUS

LEMMA LeftAtValues ==
    ASSUME NEW p, NEW n, NEW k
    PROVE  /\ p = "closed" => LeftAt(p, n, k) = 0
           /\ p = "doneSend" => LeftAt(p, n, k) = 1
           /\ p = "done" => LeftAt(p, n, k) = 2
           /\ p = "deltaSend" => LeftAt(p, n, k) = 1 + 2 * n
           /\ p = "delta" => LeftAt(p, n, k) = 2 + 2 * n
           /\ p = "generate" => LeftAt(p, n, k) = 3 + 2 * Parts + n
           /\ p = "prompt" => LeftAt(p, n, k) = 4 + AnswerSteps
           /\ p = "final" => LeftAt(p, n, k) = 5 + AnswerSteps
           /\ p = "checkpoint" => LeftAt(p, n, k) = 6 + AnswerSteps
           /\ p = "loop" => LeftAt(p, n, k) = 7 + AnswerSteps
           /\ p = "ragSend" => LeftAt(p, n, k) = 8 + AnswerSteps
           /\ p = "ragCheck" => LeftAt(p, n, k) = 9 + AnswerSteps
           /\ p = "rerank" => LeftAt(p, n, k) = 10 + AnswerSteps
           /\ p = "rag" => LeftAt(p, n, k) = 11 + AnswerSteps
           /\ p \in Investigating => LeftAt(p, n, k) = 8 + AnswerSteps + k
           /\ p = "code" => LeftAt(p, n, k) = 9 + AnswerSteps + InvestigationSteps
           /\ p = "act" => LeftAt(p, n, k) = 12 + AnswerSteps + InvestigationSteps
           /\ p = "traceSend" => LeftAt(p, n, k) = 13 + AnswerSteps + InvestigationSteps
           /\ p = "trace" => LeftAt(p, n, k) = 14 + AnswerSteps + InvestigationSteps
           /\ p = "decide" => LeftAt(p, n, k) = 15 + AnswerSteps + InvestigationSteps
           /\ p = "plan" => LeftAt(p, n, k) = 16 + AnswerSteps + InvestigationSteps
BY DEF LeftAt, Investigating

\* What is left is a number, and before anything ends it is not 0.
LEMMA LeftType ==
    ASSUME NEW l \in LoopState, NEW n \in Nat, NEW p \in Label,
           l.at \in {"round", "asked", "calls"} => l.completed < l.maxRounds
    PROVE  /\ LeftOfInvestigation(l, p, n) \in Nat
           /\ LeftAt(p, n, LeftOfInvestigation(l, p, n)) \in Nat
           /\ p # "closed" => LeftAt(p, n, LeftOfInvestigation(l, p, n)) > 0
           /\ l.at \in {"round", "asked", "calls"} => LeftOfInvestigation(l, p, n) > 0
<1> DEFINE k == LeftOfInvestigation(l, p, n)
<1>1. k \in Nat /\ (l.at \in {"round", "asked", "calls"} => k > 0)
  <2>1. CASE l.at \in {"round", "asked", "calls"}
    <3>1. l.maxRounds - l.completed - 1 \in Nat
      BY <2>1 DEF LoopState
    <3>2. (l.maxRounds - l.completed - 1) * RoundSteps \in Nat
      BY <3>1, StepCounts, OneRoundLess
    <3>3. LeftOfRound(l, p, n) \in Nat /\ LeftOfRound(l, p, n) > 0
      <4>1. Len(l.queue) \in Nat
        BY DEF LoopState
      <4>2. CASE l.at = "round"
        BY <4>2, StepCounts DEF LeftOfRound
      <4>3. CASE l.at = "asked"
        BY <4>3, StepCounts DEF LeftOfRound
      <4>4. CASE l.at = "calls"
        BY <4>1, <4>4 DEF LeftOfRound
      <4>5. QED
        BY <2>1, <4>2, <4>3, <4>4
    <3>4. k = (l.maxRounds - l.completed - 1) * RoundSteps + LeftOfRound(l, p, n)
      BY <2>1 DEF LeftOfInvestigation
    <3>5. QED
      BY <3>2, <3>3, <3>4
  <2>2. CASE l.at \notin {"round", "asked", "calls"}
    BY <2>2 DEF LeftOfInvestigation
  <2>3. QED
    BY <2>1, <2>2
<1> HIDE DEF k
<1>2. LeftAt(p, n, k) \in Nat /\ (p # "closed" => LeftAt(p, n, k) > 0)
  <2>1. CASE p \in {"closed", "doneSend", "done", "deltaSend", "delta", "generate"}
    BY <2>1, StepCounts, LeftAtValues
  <2>2. CASE p \in {"prompt", "final", "checkpoint", "loop", "ragSend", "ragCheck", "rerank", "rag"}
    BY <2>2, StepCounts, LeftAtValues
  <2>3. CASE p \in Investigating
    BY <1>1, <2>3, StepCounts, LeftAtValues
  <2>4. CASE p \in {"code", "act", "traceSend", "trace", "decide", "plan"}
    BY <2>4, StepCounts, LeftAtValues
  <2>5. QED
    BY <2>1, <2>2, <2>3, <2>4 DEF Label, Investigating
<1>3. QED
  BY <1>1, <1>2 DEF k

\* Investigations are only entered and left by their own steps.
LEMMA OutsideInvestigation ==
    ASSUME TypeInv, [Next]_vars,
           ~(CodeOpens \/ ChildRound \/ ChildCheck \/ ChildSend \/ ChildStep)
    PROVE  /\ loop' \in {loop, Off}
           /\ pc' \notin Investigating \/ UNCHANGED <<loop, pc, todo>>
<1> USE DEF Investigating
<1>1. CASE Controls
  <2>1. CASE Refresh \/ RefreshFails \/ BeginRound \/ Prompt
    BY <2>1 DEF Refresh, RefreshFails, BeginRound, Prompt, Close
  <2>2. CASE Decide \/ PlannerFails
    BY <2>2 DEF Decide, PlannerFails, Chosen
  <2>3. CASE TraceCheck \/ TraceSend
    BY <2>3 DEF TraceCheck, TraceSend, Passes
  <2>4. CASE ActAnswer \/ ActRefuse \/ ActReplan
    BY <2>4 DEF ActAnswer, ActRefuse, ActReplan, Replan, Refuse
  <2> QED
    BY <1>1, <2>1, <2>2, <2>3, <2>4 DEF Controls
<1>2. CASE Searches
  <2>1. CASE ActRepeated \/ ActRetrieve \/ ActInvestigate
    BY <2>1 DEF ActRepeated, ActRetrieve, ActInvestigate, Replan, Close
  <2>2. CASE Retrieve \/ Rerank \/ RetrieveFails \/ RetrieveCheck \/ RetrieveSend \/ CodeRefused
    BY <2>2 DEF Retrieve, Rerank, RetrieveFails, RetrieveCheck, RetrieveSend, CodeRefused, Passes, Close
  <2>3. CASE ChildFails \/ ChildEnds
    BY <2>3 DEF ChildFails, ChildEnds, Close
  <2> QED
    BY <1>2, <2>1, <2>2, <2>3 DEF Searches
<1>3. CASE Answers
  BY <1>3 DEF Answers, FinalRefresh, PromptAnswer, Generate, GenerateFails, Validate, DeltaCheck,
     DeltaSend, DoneCheck, DoneSend, CheckFails, Passes, Close
<1>4. CASE Environment
  BY <1>4 DEF Environment, EndAccess, ChangeProjects, MoveDepartment, Reimport, Change, agent
<1>5. CASE UNCHANGED vars
  BY <1>5 DEF vars
<1> QED
  BY <1>1, <1>2, <1>3, <1>4, <1>5 DEF Next, Step

LEMMA TurnStep ==
    ASSUME TypeInv, TurnInv, [Next]_vars
    PROVE  TurnInv'
<1> USE DEF TurnInv, Investigating
<1>1. loop \in LoopState
  BY DEF TypeInv, TypeOK, LoopTypeOK
<1>2. Off.at = "off"
  BY DEF Off
<1>3. CASE CodeOpens
  <2>1. loop'.at = "round" /\ pc' = "child"
    BY <1>3 DEF CodeOpens, Opened, Off
  <2>2. QED
    BY <2>1
<1>4. CASE ChildRound
  <2>1. loop'.at \in {"asked", "revoked"} /\ pc' = "child" /\ todo' \in {0, 1}
    BY <1>1, <1>4 DEF ChildRound, Round, LoopState
  <2>2. QED
    BY <2>1
<1>5. CASE ChildCheck
  <2>1. loop' = loop /\ todo' = todo /\ loop.at = "asked" /\ todo > 0 /\ pc' = "childSend" /\ pc = "child"
    BY <1>5 DEF ChildCheck, Passes
  <2>2. todo \in Nat
    BY DEF TypeInv, TypeOK
  <2>3. todo' = 1
    BY <2>1, <2>2
  <2>4. QED
    BY <2>1, <2>3
<1>6. CASE ChildSend
  BY <1>6 DEF ChildSend
<1>7. CASE ChildStep
  <2>1. pc' = "child" /\ todo' = 0 /\ Investigate /\ pc = "child"
    BY <1>7 DEF ChildStep
  <2>2. loop'.at = "calls" => Len(loop'.queue) <= MaxBatch
    <3>1. CASE ReplyNothing \/ ReplyFinish \/ StreamFails
      BY <1>1, <3>1 DEF ReplyNothing, ReplyFinish, StreamFails, Finished, LoopState
    <3>2. CASE ReplyCalls
      <4>1. PICK n \in 1..MaxBatch : \E calls \in [1..n -> Call] : loop'.queue = calls
        BY <1>1, <3>2 DEF ReplyCalls, LoopState
      <4>2. n \in Nat /\ n <= MaxBatch
        BY StepCounts
      <4>3. loop'.queue \in [1..n -> Call]
        BY <4>1
      <4>4. Len(loop'.queue) = n
        BY <4>2, <4>3
      <4>5. QED
        BY <4>2, <4>4
    <3>3. CASE Block \/ Execute
      <4>1. loop'.queue = Tail(loop.queue) /\ loop.queue # << >> /\ loop.at = "calls"
        BY <1>1, <3>3 DEF Block, Execute, Noted, LoopState
      <4>2. loop.queue \in Seq(Call) /\ Len(loop.queue) <= MaxBatch
        BY <1>1, <4>1 DEF LoopState
      <4>3. Len(Tail(loop.queue)) = Len(loop.queue) - 1 /\ Len(loop.queue) \in Nat
        BY <4>1, <4>2
      <4>4. QED
        BY <4>1, <4>2, <4>3, StepCounts
    <3>4. CASE EndRound
      <4>1. loop'.at # "calls"
        BY <1>1, <3>4 DEF EndRound, Evaluated, Finished, LoopState
      <4>2. QED
        BY <4>1
    <3>5. QED
      BY <2>1, <3>1, <3>2, <3>3, <3>4 DEF Investigate
  <2>3. QED
    BY <2>1, <2>2
<1>8. CASE ~(CodeOpens \/ ChildRound \/ ChildCheck \/ ChildSend \/ ChildStep)
  <2>1. loop' \in {loop, Off} /\ (pc' \notin Investigating \/ UNCHANGED <<loop, pc, todo>>)
    BY <1>8, OutsideInvestigation
  <2>2. QED
    BY <1>2, <2>1
<1>9. QED
  BY <1>3, <1>4, <1>5, <1>6, <1>7, <1>8

\* Only BeginRound begins a round.
LEMMA RoundsKept ==
    ASSUME TypeInv, [Next]_vars, ~BeginRound
    PROVE  st'.rounds = st.rounds
<1>1. st \in AgentState
  BY DEF TypeInv, TypeOK
<1>2. CASE ActRetrieve \/ ActInvestigate
  BY <1>1, <1>2 DEF ActRetrieve, ActInvestigate, Admitted, Refused, Close, AgentState
<1>3. CASE CodeOpens \/ ChildRound \/ ChildStep
  BY <1>3 DEF CodeOpens, ChildRound, ChildStep
<1>4. CASE ChildEnds
  <2>1. st' = st \/ st' = Recorded(Charged, "query_code_wiki", CodeStatus, CodeItem)
    BY <1>4 DEF ChildEnds, Close
  <2>2. Charged.rounds = st.rounds /\ Charged \in AgentState
    BY ChargedType, <1>1 DEF Charged, AgentState, TypeInv
  <2>3. ASSUME NEW s \in AgentState, NEW a, NEW status, NEW item
        PROVE  Recorded(s, a, status, item).rounds = s.rounds
    BY DEF Recorded, AgentState
  <2>4. QED
    BY <2>1, <2>2, <2>3
<1>5. QED
  BY <1>2, <1>3, <1>4, BudgetKept

\* Every step of an investigation leaves less of it.
LEMMA InvestigationFalls ==
    ASSUME TypeInv, BudgetInv, TurnInv,
           ChildRound \/ ChildCheck \/ ChildSend \/ ChildStep
    PROVE  LeftOfInvestigation(loop', pc', todo') < LeftOfInvestigation(loop, pc, todo)
<1> DEFINE a == loop.maxRounds - loop.completed - 1
           old == LeftOfInvestigation(loop, pc, todo)
           new == LeftOfInvestigation(loop', pc', todo')
<1> USE DEF Investigating
<1>1. /\ loop \in LoopState /\ todo \in Nat
      /\ loop.maxRounds \in Nat /\ loop.completed \in Nat
      /\ loop.queue \in Seq(Call) /\ Len(loop.queue) \in Nat
  BY DEF TypeInv, TypeOK, LoopTypeOK, LoopState
<1>2. ASSUME loop.at \in {"round", "asked", "calls"}
      PROVE  /\ a \in Nat /\ a * RoundSteps \in Nat
             /\ old = a * RoundSteps + LeftOfRound(loop, pc, todo)
  <2>1. loop.completed < loop.maxRounds
    BY <1>2 DEF BudgetInv
  <2>2. a \in Nat
    BY <1>1, <2>1
  <2>3. a * RoundSteps \in Nat
    BY <2>2, StepCounts, OneRoundLess
  <2>4. QED
    BY <1>2, <2>2, <2>3 DEF LeftOfInvestigation
\* A step within a round, and one that ends the investigation.
<1>3. ASSUME loop.at \in {"round", "asked", "calls"}, loop'.at \in {"round", "asked", "calls"},
             loop'.maxRounds = loop.maxRounds, loop'.completed = loop.completed,
             LeftOfRound(loop', pc', todo') \in Nat, LeftOfRound(loop, pc, todo) \in Nat,
             LeftOfRound(loop', pc', todo') < LeftOfRound(loop, pc, todo)
      PROVE  new < old
  <2>1. new = a * RoundSteps + LeftOfRound(loop', pc', todo')
    BY <1>3 DEF LeftOfInvestigation
  <2> HIDE DEF a, old, new
  <2>2. QED
    BY <1>2, <1>3, <2>1
<1>4. ASSUME loop.at \in {"round", "asked", "calls"}, loop'.at \in {"end", "failed", "revoked"}
      PROVE  new < old
  <2>1. new = 0
    BY <1>4 DEF LeftOfInvestigation
  <2>2. pc \in Label /\ loop.completed < loop.maxRounds
    BY <1>4 DEF TypeInv, TypeOK, BudgetInv
  <2>3. old \in Nat /\ old > 0
    BY <1>1, <1>4, <2>2, LeftType
  <2> HIDE DEF old, new
  <2>4. QED
    BY <2>1, <2>3
<1>5. MaxBatch \in Nat /\ RoundSteps = MaxBatch + 5
  BY StepCounts
<1>6. CASE ChildRound
  <2>1. /\ loop.at = "round" /\ loop'.at \in {"asked", "revoked"} /\ pc' = "child"
        /\ loop'.at = "asked" => todo' = 1
        /\ loop'.maxRounds = loop.maxRounds /\ loop'.completed = loop.completed
    BY <1>1, <1>6 DEF ChildRound, Round, LoopState
  <2>2. CASE loop'.at = "asked"
    <3>1. LeftOfRound(loop', pc', todo') = MaxBatch + 4
      BY <1>5, <2>1, <2>2 DEF LeftOfRound
    <3>2. LeftOfRound(loop, pc, todo) = MaxBatch + 5
      BY <1>5, <2>1 DEF LeftOfRound
    <3>3. QED
      BY <1>3, <1>5, <2>1, <2>2, <3>1, <3>2
  <2>3. CASE loop'.at = "revoked"
    BY <1>4, <2>1, <2>3
  <2>4. QED
    BY <2>1, <2>2, <2>3
<1>7. CASE ChildCheck
  <2>1. /\ loop' = loop /\ loop.at = "asked" /\ todo' = todo /\ todo > 0
        /\ pc = "child" /\ pc' = "childSend"
    BY <1>7 DEF ChildCheck, Passes
  <2>2. LeftOfRound(loop', pc', todo') = MaxBatch + 3
    BY <1>5, <2>1 DEF LeftOfRound
  <2>3. todo = 1
    BY <1>1, <2>1 DEF TurnInv
  <2>4. LeftOfRound(loop, pc, todo) = MaxBatch + 4
    BY <1>5, <2>1, <2>3 DEF LeftOfRound
  <2>5. QED
    BY <1>3, <1>5, <2>1, <2>2, <2>4
<1>8. CASE ChildSend
  <2>1. /\ loop' = loop /\ todo' = todo - 1 /\ pc = "childSend" /\ pc' = "child"
        /\ loop.at = "asked" /\ todo = 1
    BY <1>8 DEF ChildSend, TurnInv
  <2>2. LeftOfRound(loop', pc', todo') = MaxBatch + 2
    BY <1>5, <2>1 DEF LeftOfRound
  <2>3. LeftOfRound(loop, pc, todo) = MaxBatch + 3
    BY <1>5, <2>1 DEF LeftOfRound
  <2>4. QED
    BY <1>3, <1>5, <2>1, <2>2, <2>3
<1>9. CASE ChildStep
  <2>1. pc = "child" /\ pc' = "child" /\ todo = 0 /\ todo' = 0 /\ Investigate
    BY <1>9 DEF ChildStep
  <2>2. CASE ReplyNothing \/ ReplyFinish \/ StreamFails
    <3>1. loop.at \in {"round", "asked", "calls"} /\ loop'.at \in {"end", "failed", "revoked"}
      BY <1>1, <2>2 DEF ReplyNothing, ReplyFinish, StreamFails, Finished, LoopState
    <3>2. QED
      BY <1>4, <3>1
  <2>3. CASE ReplyCalls
    <3>1. /\ loop.at = "asked" /\ loop'.at = "calls"
          /\ loop'.maxRounds = loop.maxRounds /\ loop'.completed = loop.completed
      BY <1>1, <2>3 DEF ReplyCalls, LoopState
    <3>2. PICK n \in 1..MaxBatch : \E calls \in [1..n -> Call] : loop'.queue = calls
      BY <1>1, <2>3 DEF ReplyCalls, LoopState
    <3>3. n \in Nat /\ n <= MaxBatch
      BY <1>5
    <3>4. Len(loop'.queue) = n
      BY <3>2, <3>3
    <3>5. LeftOfRound(loop', pc', todo') = 1 + n
      BY <3>1, <3>4 DEF LeftOfRound
    <3>6. LeftOfRound(loop, pc, todo) = MaxBatch + 2
      BY <1>5, <2>1, <3>1 DEF LeftOfRound
    <3>7. QED
      BY <1>3, <1>5, <3>1, <3>3, <3>5, <3>6
  <2>4. CASE Block \/ Execute
    <3>1. /\ loop.at = "calls" /\ loop'.at = "calls" /\ loop.queue # << >>
          /\ loop'.queue = Tail(loop.queue)
          /\ loop'.maxRounds = loop.maxRounds /\ loop'.completed = loop.completed
      BY <1>1, <2>4 DEF Block, Execute, Noted, LoopState
    <3>2. Len(loop'.queue) = Len(loop.queue) - 1 /\ Len(loop.queue) > 0
      BY <1>1, <3>1
    <3>3. LeftOfRound(loop', pc', todo') = Len(loop.queue)
      BY <1>1, <3>1, <3>2 DEF LeftOfRound
    <3>4. LeftOfRound(loop, pc, todo) = 1 + Len(loop.queue)
      BY <3>1 DEF LeftOfRound
    <3>5. QED
      BY <1>1, <1>3, <3>1, <3>3, <3>4
  <2>5. CASE EndRound
    <3>1. /\ loop.at = "calls" /\ loop.queue = << >> /\ loop.completed < loop.maxRounds
          /\ loop'.maxRounds = loop.maxRounds /\ loop'.completed = loop.completed + 1
          /\ loop'.at = "end" \/ (loop'.at = "round" /\ ~(loop.completed + 1 >= loop.maxRounds))
      BY <1>1, <2>5 DEF EndRound, Evaluated, Finished, LoopState, BudgetInv
    <3>2. CASE loop'.at = "end"
      BY <1>4, <3>1, <3>2
    <3>3. CASE loop'.at = "round" /\ ~(loop.completed + 1 >= loop.maxRounds)
      <4> DEFINE b == loop.maxRounds - loop.completed - 2
      <4>1. b \in Nat /\ a = b + 1 /\ b = loop'.maxRounds - loop'.completed - 1
        BY <1>1, <3>1, <3>3
      <4>2. new = b * RoundSteps + LeftOfRound(loop', pc', todo')
        BY <3>3, <4>1 DEF LeftOfInvestigation
      <4>3. LeftOfRound(loop', pc', todo') = RoundSteps
        BY <3>3 DEF LeftOfRound
      <4>4. LeftOfRound(loop, pc, todo) \in Nat /\ LeftOfRound(loop, pc, todo) > 0
        BY <1>1, <3>1 DEF LeftOfRound
      <4>5. old = a * RoundSteps + LeftOfRound(loop, pc, todo)
        BY <1>2, <3>1
      <4> HIDE DEF a, b, old, new
      <4>6. b * RoundSteps \in Nat /\ a * RoundSteps = b * RoundSteps + RoundSteps /\ RoundSteps \in Nat
        BY <4>1, StepCounts, OneRoundLess
      <4>7. new < old
        BY <4>2, <4>3, <4>4, <4>5, <4>6
      <4>8. QED
        BY <4>7 DEF old, new
    <3>4. QED
      BY <3>1, <3>2, <3>3
  <2>6. QED
    BY <2>1, <2>2, <2>3, <2>4, <2>5 DEF Investigate
<1>10. QED
  BY <1>6, <1>7, <1>8, <1>9

\* What is left of an investigation is a number, before a step and after it.
LEMMA LeftNumbers ==
    ASSUME TypeInv, BudgetInv
    PROVE  /\ LeftOfInvestigation(loop, pc, todo) \in Nat
           /\ LeftAt(pc, todo, LeftOfInvestigation(loop, pc, todo)) \in Nat
           /\ pc # "closed" => LeftAt(pc, todo, LeftOfInvestigation(loop, pc, todo)) > 0
<1>1. loop \in LoopState /\ todo \in Nat /\ pc \in Label
  BY DEF TypeInv, TypeOK, LoopTypeOK
<1>2. loop.at \in {"round", "asked", "calls"} => loop.completed < loop.maxRounds
  BY DEF BudgetInv
<1>3. QED
  BY <1>1, <1>2, LeftType

\* An investigation is opened for no more rounds than the settings allow.
LEMMA OpenedIsBounded ==
    ASSUME TypeInv, CodeOpens
    PROVE  LeftOfInvestigation(loop', pc', todo') <= InvestigationSteps
<1>1. /\ loop'.at = "round" /\ loop'.completed = 0
      /\ loop'.maxRounds = Least(RoundsLeft(st), CodeRounds)
  BY DEF CodeOpens, Opened, Off
<1>2. RoundsLeft(st) \in Int /\ RoundsLeft(st) > 0
  BY BudgetAssumption DEF TypeInv, TypeOK, AgentState, BudgetLeft, RoundsLeft, CodeOpens
<1>3. PICK r \in Nat : r + 1 = loop'.maxRounds
  <2>1. loop'.maxRounds \in Nat \ {0}
    BY <1>1, <1>2, StepCounts DEF Least
  <2>2. loop'.maxRounds - 1 \in Nat /\ (loop'.maxRounds - 1) + 1 = loop'.maxRounds
    BY <2>1
  <2>3. QED
    BY <2>2
<1>4. r + 1 <= CodeRounds
  BY <1>1, <1>2, <1>3, StepCounts DEF Least
<1>5. LeftOfInvestigation(loop', pc', todo') = (r + 1) * RoundSteps
  <2>1. loop'.maxRounds - loop'.completed - 1 = r
    BY <1>1, <1>3
  <2>2. LeftOfInvestigation(loop', pc', todo') = r * RoundSteps + RoundSteps
    BY <1>1, <2>1 DEF LeftOfInvestigation, LeftOfRound
  <2>3. QED
    BY <2>2, StepCounts, OneRoundLess
<1>6. PICK d \in Nat : (r + 1) + d = CodeRounds
  <2>1. CodeRounds - (r + 1) \in Nat /\ (r + 1) + (CodeRounds - (r + 1)) = CodeRounds
    BY <1>4, StepCounts
  <2>2. QED
    BY <2>1
<1>7. CodeRounds * RoundSteps = (r + 1) * RoundSteps + d * RoundSteps /\ d * RoundSteps \in Nat
  BY <1>6, StepCounts, RoundsAdd
<1>8. (r + 1) * RoundSteps \in Nat
  BY StepCounts, OneRoundLess
<1>9. QED
  BY <1>5, <1>7, <1>8, StepCounts

\* A step that begins no round of the agent leaves fewer of its steps.
LEMMA PlaceFalls ==
    ASSUME TypeInv, BudgetInv, TurnInv, Step, ~BeginRound
    PROVE  LeftAt(pc', todo', LeftOfInvestigation(loop', pc', todo'))
             < LeftAt(pc, todo, LeftOfInvestigation(loop, pc, todo))
<1> DEFINE k == LeftOfInvestigation(loop, pc, todo)
           j == LeftOfInvestigation(loop', pc', todo')
           old == LeftAt(pc, todo, k)
           new == LeftAt(pc', todo', j)
<1> SUFFICES new < old
  OBVIOUS
<1>1. TypeInv' /\ BudgetInv'
  BY TypeStep, BudgetStep DEF Next
<1>2. k \in Nat /\ old \in Nat /\ (pc # "closed" => old > 0)
  BY LeftNumbers
<1>3. j \in Nat /\ new \in Nat
  <2>1. loop' \in LoopState /\ todo' \in Nat /\ pc' \in Label
    BY <1>1 DEF TypeInv, TypeOK, LoopTypeOK
  <2>2. loop'.at \in {"round", "asked", "calls"} => loop'.completed < loop'.maxRounds
    BY <1>1 DEF BudgetInv
  <2>3. QED
    BY <2>1, <2>2, LeftType
<1>4. todo \in Nat /\ pc \in Label
  BY DEF TypeInv, TypeOK
<1> HIDE DEF k, j
\* The stream ends.
<1>5. ASSUME pc # "closed", pc' = "closed"
      PROVE  new < old
  <2>1. new = 0
    BY <1>5, LeftAtValues
  <2> HIDE DEF old, new
  <2>2. QED
    BY <1>2, <1>5, <2>1
<1>6. CASE Controls
  <2>1. CASE Refresh
    <3>1. pc = "loop" /\ pc' \in {"final", "checkpoint"}
      BY <2>1 DEF Refresh
    <3>2. QED
      BY <3>1, LeftAtValues, StepCounts
  <2>2. CASE RefreshFails
    <3>1. pc # "closed" /\ pc' = "closed"
      BY <2>2 DEF RefreshFails, Close
    <3>2. QED
      BY <1>5, <3>1
  <2>3. CASE Prompt \/ TraceCheck \/ TraceSend
    <3>1. <<pc, pc'>> \in {<<"plan", "decide">>, <<"trace", "traceSend">>, <<"traceSend", "act">>}
      BY <2>3 DEF Prompt, TraceCheck, TraceSend, Passes
    <3>2. QED
      BY <3>1, LeftAtValues, StepCounts
  <2>4. CASE Decide \/ PlannerFails
    <3>1. pc = "decide" /\ pc' \in {"loop", "trace"}
      BY <2>4 DEF Decide, PlannerFails, Chosen
    <3>2. QED
      BY <3>1, LeftAtValues, StepCounts
  <2>5. CASE ActAnswer \/ ActRefuse \/ ActReplan
    <3>1. pc = "act" /\ pc' \in {"loop", "final"}
      BY <2>5 DEF ActAnswer, ActRefuse, ActReplan, Replan, Refuse
    <3>2. QED
      BY <3>1, LeftAtValues, StepCounts
  <2>6. QED
    BY <1>6, <2>1, <2>2, <2>3, <2>4, <2>5 DEF Controls
<1>7. CASE Searches
  <2>1. CASE ActRepeated
    <3>1. pc = "act" /\ pc' = "loop"
      BY <2>1 DEF ActRepeated, Replan
    <3>2. QED
      BY <3>1, LeftAtValues, StepCounts
  <2>2. CASE ActRetrieve \/ ActInvestigate
    <3>1. pc = "act" /\ pc' \in {"closed", "rag", "final", "code"}
      BY <2>2 DEF ActRetrieve, ActInvestigate, Close
    <3>2. CASE pc' = "closed"
      BY <1>5, <3>1, <3>2
    <3>3. CASE pc' \in {"rag", "final", "code"}
      BY <3>1, <3>3, LeftAtValues, StepCounts
    <3>4. QED
      BY <3>1, <3>2, <3>3
  <2>3. CASE Retrieve \/ Rerank \/ RetrieveCheck \/ RetrieveSend
    <3>1. <<pc, pc'>> \in {<<"rag", "rerank">>, <<"rag", "ragCheck">>, <<"rerank", "ragCheck">>,
                           <<"ragCheck", "ragSend">>, <<"ragSend", "loop">>}
      BY <2>3 DEF Retrieve, Rerank, RetrieveCheck, RetrieveSend, Passes
    <3>2. QED
      BY <3>1, LeftAtValues, StepCounts
  <2>4. CASE RetrieveFails \/ CodeRefused \/ ChildFails
    <3>1. pc # "closed" /\ pc' = "closed"
      BY <2>4 DEF RetrieveFails, CodeRefused, ChildFails, Close
    <3>2. QED
      BY <1>5, <3>1
  <2>5. CASE CodeOpens
    <3>1. pc = "code" /\ pc' \in Investigating
      BY <2>5 DEF CodeOpens, Investigating
    <3>2. j <= InvestigationSteps
      BY <2>5, OpenedIsBounded DEF j
    <3>3. new = 8 + AnswerSteps + j /\ old = 9 + AnswerSteps + InvestigationSteps
      BY <3>1, LeftAtValues
    <3> HIDE DEF old, new
    <3>4. new < old
      BY <1>3, <3>2, <3>3, StepCounts
    <3>5. QED
      BY <3>4 DEF old, new
  <2>6. CASE ChildRound \/ ChildCheck \/ ChildSend \/ ChildStep
    <3>1. pc \in Investigating /\ pc' \in Investigating
      BY <2>6 DEF ChildRound, ChildCheck, ChildSend, ChildStep, Passes, Investigating
    <3>2. j < k
      BY <2>6, InvestigationFalls DEF j, k
    <3>3. new = 8 + AnswerSteps + j /\ old = 8 + AnswerSteps + k
      BY <3>1, LeftAtValues
    <3> HIDE DEF old, new
    <3>4. new < old
      BY <1>2, <1>3, <3>2, <3>3, StepCounts
    <3>5. QED
      BY <3>4 DEF old, new
  <2>7. CASE ChildEnds
    <3>1. pc = "child" /\ pc' \in {"loop", "closed"}
      BY <2>7 DEF ChildEnds, Close
    <3>2. CASE pc' = "closed"
      BY <1>5, <3>1, <3>2
    <3>3. CASE pc' = "loop"
      <4>1. new = 7 + AnswerSteps /\ old = 8 + AnswerSteps + k
        BY <3>1, <3>3, LeftAtValues DEF Investigating
      <4> HIDE DEF old, new
      <4>2. new < old
        BY <1>2, <4>1, StepCounts
      <4>3. QED
        BY <4>2 DEF old, new
    <3>4. QED
      BY <3>1, <3>2, <3>3
  <2>8. QED
    BY <1>7, <2>1, <2>2, <2>3, <2>4, <2>5, <2>6, <2>7 DEF Searches
<1>8. CASE Answers
  <2>1. CASE FinalRefresh
    <3>1. pc = "final" /\ pc' \in {"done", "prompt"}
      BY <2>1 DEF FinalRefresh
    <3>2. QED
      BY <3>1, LeftAtValues, StepCounts
  <2>2. CASE PromptAnswer
    <3>1. pc = "prompt" /\ pc' = "generate" /\ todo' = Parts
      BY <2>2 DEF PromptAnswer
    <3>2. QED
      BY <3>1, LeftAtValues, StepCounts
  <2>3. CASE Generate
    <3>1. pc = "generate" /\ pc' = "generate" /\ todo' = todo - 1
      BY <2>3 DEF Generate
    <3>2. QED
      BY <1>4, <3>1, LeftAtValues, StepCounts
  <2>4. CASE GenerateFails \/ DoneSend \/ CheckFails
    <3>1. pc # "closed" /\ pc' = "closed"
      BY <2>4 DEF GenerateFails, DoneSend, CheckFails, Close
    <3>2. QED
      BY <1>5, <3>1
  <2>5. CASE Validate
    <3>1. pc = "generate" /\ todo = 0 /\ pc' = "delta" /\ todo' = Parts
      BY <2>5 DEF Validate
    <3>2. QED
      BY <3>1, LeftAtValues, StepCounts
  <2>6. CASE DeltaCheck
    <3>1. pc = "delta" /\ pc' = "deltaSend" /\ todo' = todo
      BY <2>6 DEF DeltaCheck
    <3>2. QED
      BY <1>4, <3>1, LeftAtValues
  <2>7. CASE DeltaSend
    <3>1. pc = "deltaSend" /\ todo' = todo - 1 /\ pc' = IF todo = 1 THEN "done" ELSE "delta"
      BY <2>7 DEF DeltaSend
    <3>2. QED
      BY <1>4, <3>1, LeftAtValues
  <2>8. CASE DoneCheck
    <3>1. pc = "done" /\ pc' = "doneSend"
      BY <2>8 DEF DoneCheck, Passes
    <3>2. QED
      BY <3>1, LeftAtValues
  <2>9. QED
    BY <1>8, <2>1, <2>2, <2>3, <2>4, <2>5, <2>6, <2>7, <2>8 DEF Answers
<1>9. QED
  BY <1>6, <1>7, <1>8 DEF Step

\* A round of the agent that is begun is paid for by the rounds that are left.
LEMMA BeginRoundFalls ==
    ASSUME TypeInv, BudgetInv, [Next]_vars, BeginRound
    PROVE  StepsLeft' < StepsLeft
<1> DEFINE k == LeftOfInvestigation(loop, pc, todo)
           j == LeftOfInvestigation(loop', pc', todo')
           old == LeftAt(pc, todo, k)
           new == LeftAt(pc', todo', j)
<1>1. /\ pc = "checkpoint" /\ pc' \in {"final", "plan"}
      /\ st' = RoundBegun([st EXCEPT !.allowed = st.allowed \cap grant.projects])
      /\ st'.refused => pc' = "final"
  BY DEF BeginRound
<1>2. st \in AgentState /\ MaxRounds \in Nat /\ st.rounds \in Nat /\ st.rounds <= MaxRounds
  BY BudgetAssumption DEF TypeInv, TypeOK, AgentState, BudgetInv, BudgetsAreShared
<1>3. /\ StepsLeft = (MaxRounds - st.rounds) * AgentRoundSteps + old
      /\ StepsLeft' = (MaxRounds - st'.rounds) * AgentRoundSteps + new
  BY DEF StepsLeft
<1>4. /\ old = 6 + AnswerSteps
      /\ pc' = "final" => new = 5 + AnswerSteps
      /\ pc' = "plan" => new = 16 + AnswerSteps + InvestigationSteps
  <2> HIDE DEF k, j
  <2>1. QED
    BY <1>1, LeftAtValues
<1> HIDE DEF k, j, old, new
<1>5. CASE st.rounds >= MaxRounds
  <2>1. st'.rounds = st.rounds /\ st'.refused
    BY <1>1, <1>2, <1>5 DEF RoundBegun, Refused, AgentState
  <2>2. (MaxRounds - st.rounds) * AgentRoundSteps \in Nat
    <3>1. MaxRounds - st.rounds \in Nat
      BY <1>2
    <3>2. QED
      BY <3>1, StepCounts, OneRoundLess
  <2>3. new = 5 + AnswerSteps
    BY <1>1, <1>4, <2>1
  <2> DEFINE rest == (MaxRounds - st.rounds) * AgentRoundSteps
  <2>4. StepsLeft = rest + old /\ StepsLeft' = rest + new
    BY <1>3, <2>1
  <2> HIDE DEF rest
  <2>5. rest \in Nat
    BY <2>2 DEF rest
  <2>6. QED
    BY <1>4, <2>3, <2>4, <2>5, StepCounts
<1>6. CASE ~(st.rounds >= MaxRounds)
  <2> DEFINE r == MaxRounds - st.rounds - 1
             rest == r * AgentRoundSteps
  <2>1. st'.rounds = st.rounds + 1
    BY <1>1, <1>2, <1>6 DEF RoundBegun, AgentState
  <2>2. r \in Nat /\ MaxRounds - st.rounds = r + 1 /\ MaxRounds - st'.rounds = r
    BY <1>2, <1>6, <2>1
  <2> HIDE DEF r
  <2>3. rest \in Nat /\ (r + 1) * AgentRoundSteps = rest + AgentRoundSteps
    BY <2>2, StepCounts, OneRoundLess
  <2>4. StepsLeft = (r + 1) * AgentRoundSteps + old /\ StepsLeft' = rest + new
    BY <1>3, <2>2
  <2>5. StepsLeft = rest + AgentRoundSteps + old
    BY <2>3, <2>4
  <2> HIDE DEF rest
  <2>6. new <= 16 + AnswerSteps + InvestigationSteps /\ new \in Nat
    BY <1>1, <1>4, StepCounts
  <2>7. QED
    BY <1>4, <2>3, <2>4, <2>5, <2>6, StepCounts
<1>7. QED
  BY <1>2, <1>5, <1>6

\* Any other step of the agent is paid for by the place it leaves.
LEMMA OtherStepFalls ==
    ASSUME TypeInv, BudgetInv, TurnInv, Step, ~BeginRound
    PROVE  StepsLeft' < StepsLeft
<1> DEFINE old == LeftAt(pc, todo, LeftOfInvestigation(loop, pc, todo))
           new == LeftAt(pc', todo', LeftOfInvestigation(loop', pc', todo'))
           rest == (MaxRounds - st.rounds) * AgentRoundSteps
<1>1. [Next]_vars
  BY DEF Next
<1>2. st'.rounds = st.rounds
  BY <1>1, RoundsKept
<1>3. StepsLeft = rest + old /\ StepsLeft' = rest + new
  BY <1>2 DEF StepsLeft
<1>4. rest \in Nat
  <2>1. MaxRounds - st.rounds \in Nat
    BY BudgetAssumption DEF TypeInv, TypeOK, AgentState, BudgetInv, BudgetsAreShared
  <2>2. QED
    BY <2>1, StepCounts, OneRoundLess
<1>5. new < old
  BY PlaceFalls
<1>6. old \in Nat /\ new \in Nat
  <2>1. TypeInv' /\ BudgetInv'
    BY <1>1, TypeStep, BudgetStep
  <2>2. loop' \in LoopState /\ todo' \in Nat /\ pc' \in Label
    BY <2>1 DEF TypeInv, TypeOK, LoopTypeOK
  <2>3. loop'.at \in {"round", "asked", "calls"} => loop'.completed < loop'.maxRounds
    BY <2>1 DEF BudgetInv
  <2>4. QED
    BY <2>2, <2>3, LeftType, LeftNumbers
<1> HIDE DEF old, new, rest
<1>7. QED
  BY <1>3, <1>4, <1>5, <1>6

LEMMA StepsLeftType ==
    ASSUME TypeInv, BudgetInv
    PROVE  StepsLeft \in Nat
<1> DEFINE rest == (MaxRounds - st.rounds) * AgentRoundSteps
           here == LeftAt(pc, todo, LeftOfInvestigation(loop, pc, todo))
<1>1. MaxRounds - st.rounds \in Nat
  BY BudgetAssumption DEF TypeInv, TypeOK, AgentState, BudgetInv, BudgetsAreShared
<1>2. rest \in Nat
  BY <1>1, StepCounts, OneRoundLess
<1>3. here \in Nat
  BY LeftNumbers
<1>4. StepsLeft = rest + here
  BY DEF StepsLeft
<1> HIDE DEF rest, here
<1>5. QED
  BY <1>2, <1>3, <1>4

LEMMA RunsDownStep ==
    ASSUME TypeInv, BudgetInv, TurnInv, [Next]_vars
    PROVE  RunsDown
<1>1. ASSUME Step PROVE StepsLeft' < StepsLeft
  BY <1>1, BeginRoundFalls, OtherStepFalls
<1>2. ASSUME Environment PROVE StepsLeft' = StepsLeft
  <2>1. UNCHANGED agent
    BY <1>2 DEF Environment, EndAccess, ChangeProjects, MoveDepartment, Reimport, Change
  <2>2. loop' = loop /\ st' = st /\ pc' = pc /\ todo' = todo
    BY <2>1 DEF agent
  <2>3. QED
    BY <2>2 DEF StepsLeft
<1>3. QED
  BY <1>1, <1>2 DEF RunsDown

\* A question takes a bounded number of steps of the server: StepsLeft is a
\* natural number that every step of the agent or of an investigation lowers,
\* and nothing that the rest of the system does raises it.  What the planner,
\* the models and the tools answer, rounds that end in a replan or start an
\* investigation, and any number of changes of the authorization are no way
\* to keep agentic_knowledge_stream going.
THEOREM StreamComesToAnEnd == Spec => [](StepsLeft \in Nat) /\ StreamRunsDown
<1> DEFINE Inv == TypeInv /\ BudgetInv /\ TurnInv
<1>1. Init => Inv
  <2>1. ASSUME Init PROVE BudgetInv /\ TurnInv
    BY <2>1, BudgetAssumption DEF Init, BudgetInv, BudgetsAreShared, TurnInv, Off
  <2> QED
    BY <2>1, InitType
<1>2. Inv /\ [Next]_vars => Inv'
  BY TypeStep, BudgetStep, TurnStep
<1>3. Inv => StepsLeft \in Nat
  BY StepsLeftType
<1>4. Inv /\ [Next]_vars => [RunsDown]_vars
  BY RunsDownStep
<1> HIDE DEF Inv
<1>5. QED
  BY <1>1, <1>2, <1>3, <1>4, PTL DEF Spec, StreamRunsDown
=============================================================================
