--------------------------- MODULE KnowledgeAgent ---------------------------
(***************************************************************************)
(* One question to the knowledge agent: agentic_knowledge_stream of        *)
(* app/main.py over KnowledgeAgentState (app/knowledge_agent.py), with the *)
(* planner of app/llm.py, document retrieval, the code investigations of   *)
(* CodeAgentLoop, and an authorization that others change meanwhile.       *)
(*                                                                         *)
(* The stream is a generator: every await and every yield lets the rest of *)
(* the system run, so each check of the authorization, each event sent and *)
(* each call of a model is an action of its own.  Events that say nothing  *)
(* of what was found (started, completed) are left out.                    *)
(*                                                                         *)
(* A tool result carries at most one piece of evidence: the pieces of one  *)
(* result share the prefix of their ids, their project and their commit.   *)
(***************************************************************************)
EXTENDS CodeAgentLoop

CONSTANTS
    Department,
    FirstCommit, FirstDepartment,   \* what holds when the question is asked
    Anchor,             \* the project that is selected, if one is
    Query,              \* wordings the planner may choose
    Message,            \* the user's own, which the fallback takes
    MaxRounds,          \* settings.knowledge_agent_max_rounds
    MaxTools,           \* settings.knowledge_agent_max_tool_calls
    RagSize, CodeSize,  \* how much of the answer's material a piece takes
    MaterialLimit,      \* settings.max_context_tokens * 4
    Parts,              \* how many parts an answer is written and sent in
    MaxChanges          \* bound: changes of the authorization or of a head

ASSUME BudgetAssumption ==
    MaxRounds \in Nat \ {0} /\ MaxTools \in Nat \ {0} /\ Parts \in Nat \ {0}
        /\ MaxChanges \in Nat
ASSUME MessageAssumption == Message \in Query
ASSUME FirstAssumption == FirstCommit \in Commit /\ FirstDepartment \in Department
ASSUME AnchorAssumption == Anchor \in Project
ASSUME NoDepartmentAssumption == None \notin Department \cup Query
ASSUME SizeAssumption == RagSize \in Nat /\ CodeSize \in Nat /\ MaterialLimit \in Nat

VARIABLES
    grant,     \* what resolve_scope would answer now
    head,      \* the current commit of each project
    changes,   \* how often these two have changed
    req,       \* the mode of the request and its anchor project
    scope,     \* resolved_scope: the authorization as last read
    st,        \* KnowledgeAgentState
    pc, todo,  \* where the generator is, and how many events are left there
    dec,       \* the planner's decision under way
    claims,    \* approved_claims
    kept,      \* those whose evidence fits in the answer's material
    shown,     \* the ids in brackets in the answer that is being sent
    late,      \* how much was sent, since the last change, without authorization (history)
    outcome

vars == <<loop, grant, head, changes, req, scope, st, pc, todo, dec,
          claims, kept, shown, late, outcome>>
agent == <<loop, req, scope, st, pc, todo, dec, claims, kept, shown, outcome>>

Capability == {"retrieve_rag", "query_code_wiki"}
Id == {"rag", "code"} \X Nat
Ghost == <<"rag", 0>>            \* an id a model made up
NoItem == [id |-> Ghost, type |-> "none", project |-> None, commit |-> None,
           department |-> None, sound |-> FALSE]
NoDecision == [action |-> "replan", target |-> None, query |-> Message, remaining |-> {},
               claims |-> {}, support |-> {}]

Item == [id : Id, type : {"rag", "code_wiki", "none"}, project : Project \cup {None},
         commit : Commit \cup {None}, department : Department \cup {None}, sound : BOOLEAN]
ToolResult == [capability : Capability, status : {"success", "partial", "empty"}, item : Item]
ScopeMode == {"strict_project", "soft_project"}

\* ClaimSupport: the evidence the planner gives for a claim, and the ids its
\* wording has in brackets.
Claim == [ids : SUBSET Id, text : SUBSET Id]
Decision == [action : Capability \cup {"answer", "refuse", "replan"},
             target : Project \cup {None}, query : Query, remaining : SUBSET Capability,
             claims : SUBSET Claim, support : SUBSET Id]
Label == {"loop", "checkpoint", "plan", "decide", "trace", "traceSend", "act", "rag", "rerank",
          "ragCheck", "ragSend", "code", "child", "childSend", "final", "prompt", "generate",
          "delta", "deltaSend", "done", "doneSend", "closed"}

Grant == [active : BOOLEAN, projects : SUBSET Project, department : Department]
Scope == [projects : SUBSET Project, department : Department]
RequestState == [mode : {"auto", "rag", "codewiki", "hybrid"}, anchor : Project \cup {None}]
AgentState ==
    [allowed : SUBSET Project, scopeMode : ScopeMode, rounds : Nat, tools : Nat,
     visited : SUBSET (Capability \X (Project \cup {None}) \X Query), results : Seq(ToolResult),
     investigated : SUBSET Project, commit : Commit \cup {None},
     ready : BOOLEAN, refused : BOOLEAN]

TypeOK ==
    /\ LoopTypeOK
    /\ grant \in Grant /\ head \in [Project -> Commit] /\ changes \in Nat
    /\ req \in RequestState /\ scope \in Scope /\ st \in AgentState
    /\ pc \in Label /\ todo \in Nat /\ dec \in Decision
    /\ claims \in SUBSET Claim /\ kept \in SUBSET Claim /\ shown \in SUBSET Id
    /\ late \in Nat /\ outcome \in {"none", "done", "revoked", "failed", "guard"}

(***************************************************************************)
(* What the state says.                                                    *)
(***************************************************************************)

Evidence == {st.results[i].item : i \in DOMAIN st.results} \ {NoItem}
OfIds(S) == {e \in Evidence : e.id \in S}
CodeProjects(E) == {e.project : e \in {x \in E : x.type = "code_wiki"}}
HasRag(E) == \E e \in E : e.type = "rag"
Cited(S) == UNION {c.ids : c \in S}
Written(S) == UNION {c.text : c \in S}
Approved == OfIds(Cited(claims))

Current == [projects |-> grant.projects, department |-> grant.department]

\* Mutant: a check that does not compare the department.
ValidAnyDepartment(projects, rag) == grant.active /\ projects \subseteq grant.projects

\* refresh_answer_authorization with force: would it return?
Valid(projects, rag) ==
    /\ grant.active
    /\ projects \subseteq grant.projects
    /\ rag => grant.department = scope.department

\* checkpoint_investigation_authorization.  The projects its callers add are
\* investigated ones.
Investigated == CodeProjects(Evidence) \cup st.investigated
Authorized ==
    /\ Valid(Investigated, HasRag(Evidence))
    /\ req.anchor # None => req.anchor \in st.allowed \cap grant.projects
AnswerAuthorized == Valid(CodeProjects(Approved), HasRag(Approved))

Sent(projects, rag) == late' = IF Valid(projects, rag) THEN late ELSE late + 1

Refused(s) == [s EXCEPT !.refused = TRUE, !.ready = FALSE]

\* Mutant: the last round is begun again and again.
RoundBegunAgain(s) == IF s.rounds >= MaxRounds THEN s ELSE [s EXCEPT !.rounds = s.rounds + 1]

\* begin_round
RoundBegun(s) == IF s.rounds >= MaxRounds THEN Refused(s) ELSE [s EXCEPT !.rounds = s.rounds + 1]

\* The generator ends with done, with AUTHORIZATION_REVOKED or with
\* KNOWLEDGE_AGENT_FAILED: "guard" if a check of KnowledgeAgentState raised
\* that, else "failed".
Close(o) ==
    /\ pc' = "closed" /\ outcome' = o
    /\ todo' = 0 /\ dec' = NoDecision /\ loop' = Off /\ claims' = {} /\ kept' = {} /\ shown' = {}
    /\ UNCHANGED <<req, scope, st>>

(***************************************************************************)
(* A round: the authorization, then the planner.                           *)
(***************************************************************************)

\* refresh_request_scope at the head of the loop.
Refresh ==
    /\ pc = "loop"
    /\ grant.active
    /\ scope' = Current
    /\ LET s == [st EXCEPT !.allowed = st.allowed \cap grant.projects] IN
         \/ /\ grant.department # scope.department /\ HasRag(Evidence)
            /\ st' = Refused(st) /\ pc' = "final"
         \/ /\ ~(grant.department # scope.department /\ HasRag(Evidence))
            /\ IF req.anchor # None /\ req.anchor \notin s.allowed
               THEN st' = Refused(s) /\ pc' = "final"
               ELSE st' = s /\ pc' = "checkpoint"
    /\ UNCHANGED <<loop, req, todo, dec, claims, kept, shown, late, outcome>>

RefreshFails ==
    /\ pc \in {"loop", "final"}
    /\ pc = "final" => st.ready
    /\ ~grant.active
    /\ Close("revoked")
    /\ UNCHANGED late

\* A checkpoint that passes narrows the candidates and goes on.
Passes(next) ==
    /\ Authorized
    /\ scope' = Current
    /\ st' = [st EXCEPT !.allowed = st.allowed \cap grant.projects]
    /\ pc' = next
    /\ UNCHANGED <<loop, req, todo, dec, claims, kept, shown, late, outcome>>

BeginRound ==
    /\ pc = "checkpoint"
    /\ Authorized
    /\ scope' = Current
    /\ st' = RoundBegun([st EXCEPT !.allowed = st.allowed \cap grant.projects])
    /\ pc' = IF st'.refused THEN "final" ELSE "plan"
    /\ UNCHANGED <<loop, req, todo, dec, claims, kept, shown, late, outcome>>

\* The evidence goes to the planner's model.
Prompt ==
    /\ pc = "plan"
    /\ pc' = "decide"
    /\ Sent(Investigated, HasRag(Evidence))
    /\ UNCHANGED <<loop, req, scope, st, todo, dec, claims, kept, shown, outcome>>

Attempts(a) == Cardinality({v \in st.visited : v[1] = a})

\* Mutant: the spent tool budget leaves the sources on offer.
SourcesUnmetered ==
    {a \in Capability :
        /\ a = "retrieve_rag" =>
             req.mode \in {"auto", "rag", "hybrid"} /\ st.scopeMode # "strict_project"
        /\ a = "query_code_wiki" =>
             /\ req.mode \in {"auto", "codewiki", "hybrid"}
             /\ req.anchor # None \/ st.allowed # {}}

Sources ==
    {a \in Capability :
        /\ st.tools < MaxTools
        /\ a = "retrieve_rag" =>
             req.mode \in {"auto", "rag", "hybrid"} /\ st.scopeMode # "strict_project"
        /\ a = "query_code_wiki" =>
             /\ req.mode \in {"auto", "codewiki", "hybrid"}
             /\ req.anchor # None \/ st.allowed # {}}

\* Each capability may be tried twice.
Remaining == {a \in Sources : Attempts(a) < 2}

AllowedActions ==
    Remaining \cup {a \in {"answer"} : Evidence # {}}
        \cup (IF Remaining = {} THEN {"refuse"} ELSE {"replan"})

\* What the planner may put in an answer: a claim for each of some ids, or
\* one for all of them; an id can be made up.  Their wording cites nothing, or
\* all there is and an id that is made up.
Known == {e.id : e \in Evidence}
AnswerClaims ==
    {{[ids |-> i, text |-> w] : i \in I} :
        I \in {{{Ghost}}, {Known}} \cup {{{i} : i \in S} : S \in SUBSET Known},
        w \in {{}, Known \cup {Ghost}}}

\* Only whether a signature is repeated counts, so the wording of a first
\* attempt can be called Message; the fallback always takes that one.
Wording(a) == IF Attempts(a) = 0 THEN {Message} ELSE Query

\* decide_next_knowledge_action as KnowledgeDecision.from_payload lets it
\* through; the routes a mode offers cover the actions it offers.
Planned ==
    [action : {"query_code_wiki"} \cap AllowedActions, target : Project \cup {req.anchor},
     query : Wording("query_code_wiki"), remaining : {Remaining}, claims : {{}}, support : {{}}]
    \cup [action : {"retrieve_rag"} \cap AllowedActions, target : {req.anchor},
          query : Wording("retrieve_rag"), remaining : {Remaining}, claims : {{}}, support : {{}}]
    \cup [action : {"refuse", "replan"} \cap AllowedActions, target : {None},
          query : {Message}, remaining : {Remaining}, claims : {{}}, support : {{}}]
    \cup UNION {[action : {"answer"} \cap AllowedActions, target : {None}, query : {Message},
                 remaining : {Remaining}, claims : {c}, support : {Cited(c), Known}] : c \in AnswerClaims}

\* When the planner fails: the anchor or the only candidate, if any.
OnlyTarget ==
    IF req.anchor # None THEN req.anchor
    ELSE IF Cardinality(st.allowed) = 1 THEN CHOOSE p \in st.allowed : TRUE ELSE None
Fallback ==
    LET code == OnlyTarget # None /\ "query_code_wiki" \in Remaining
        rag == ~code /\ "retrieve_rag" \in Remaining
    IN  [NoDecision EXCEPT
            !.action = IF code THEN "query_code_wiki" ELSE IF rag THEN "retrieve_rag" ELSE "refuse",
            !.target = IF code THEN OnlyTarget ELSE req.anchor,
            !.remaining = Remaining]

\* apply_scope_suggestion, and what the mode makes of it.  The candidates
\* scope differs from the soft one only in what the planner is told.
ScopeAfter(suggested) ==
    CASE req.mode = "codewiki" -> "strict_project"
      [] req.mode = "hybrid" -> "soft_project"
      [] req.mode \in {"auto", "rag"} ->
           IF suggested = "strict_project" /\ req.anchor = None THEN "soft_project" ELSE suggested

Chosen(d, suggested) ==
    LET s == [st EXCEPT !.scopeMode = ScopeAfter(suggested)]
        wrong == d.action = "query_code_wiki" /\ d.target \notin st.allowed
    IN  /\ IF wrong
           THEN pc' = "loop" /\ st' = s /\ UNCHANGED dec
           ELSE /\ pc' = "trace" /\ dec' = d
                /\ st' = IF d.action = "query_code_wiki"
                         THEN [s EXCEPT !.investigated = st.investigated \cup {d.target}]
                         ELSE s
        /\ UNCHANGED <<loop, req, scope, todo, claims, kept, shown, late, outcome>>

Decide == pc = "decide" /\ \E d \in Planned, suggested \in ScopeMode : Chosen(d, suggested)
PlannerFails == pc = "decide" /\ Chosen(Fallback, "soft_project")

\* _public_agent_trace, one event standing for many: each of them has a
\* checkpoint of its own.
TraceCheck == pc = "trace" /\ Passes("traceSend")
TraceSend ==
    /\ pc = "traceSend"
    /\ pc' = "act"
    /\ Sent(Investigated, HasRag(Evidence))
    /\ UNCHANGED <<loop, req, scope, st, todo, dec, claims, kept, shown, outcome>>

(***************************************************************************)
(* Answer, refuse, replan.                                                 *)
(***************************************************************************)

\* Next round; the reason is only observed.
Replan == pc' = "loop" /\ dec' = NoDecision /\ UNCHANGED <<st, claims>>
Refuse == pc' = "final" /\ dec' = NoDecision /\ st' = Refused(st) /\ UNCHANGED claims

Succeeded == {r \in {st.results[i] : i \in DOMAIN st.results} : r.status = "success"}
Usable ==
    Succeeded \cup {r \in {st.results[i] : i \in DOMAIN st.results} :
                      r.status = "partial" /\ r.capability = "query_code_wiki"}

\* The evidence the gate counts.
Available ==
    {e \in Evidence :
        /\ e.sound
        /\ e.id \in {r.item.id : r \in Usable}
        /\ e.type = "code_wiki" => e.project \in st.allowed /\ e.commit # None}

\* Mutant: only the supporting ids are compared with the evidence there is.
CanAnswerCited(d) ==
    /\ d.claims # {}
    /\ \A c \in d.claims : c.ids # {}
    /\ d.support # {} /\ d.support \subseteq Known
    /\ Cited(d.claims) = d.support

\* can_answer
CanAnswer(d) ==
    LET available == {e.id : e \in Available} IN
    /\ d.claims # {}
    /\ \A c \in d.claims : c.ids # {} /\ c.ids \subseteq available
    /\ d.support # {} /\ d.support \subseteq available
    /\ Cited(d.claims) = d.support

HybridComplete ==
    req.mode = "hybrid" => Capability \subseteq {r.capability : r \in Succeeded}

ActAnswer ==
    /\ pc = "act" /\ dec.action = "answer"
    /\ \/ ~HybridComplete /\ Replan
       \/ /\ HybridComplete /\ CanAnswer(dec)
          /\ st' = [st EXCEPT !.ready = TRUE]
          /\ claims' = dec.claims
          /\ pc' = "final" /\ dec' = NoDecision
       \/ HybridComplete /\ ~CanAnswer(dec) /\ dec.remaining # {} /\ Replan
       \/ HybridComplete /\ ~CanAnswer(dec) /\ dec.remaining = {} /\ Refuse
    /\ UNCHANGED <<loop, req, scope, todo, kept, shown, late, outcome>>

\* A refusal counts only when nothing is left to try.
ActRefuse ==
    /\ pc = "act" /\ dec.action = "refuse"
    /\ IF dec.remaining # {} THEN Replan ELSE Refuse
    /\ UNCHANGED <<loop, req, scope, todo, kept, shown, late, outcome>>

ActReplan ==
    /\ pc = "act" /\ dec.action = "replan"
    /\ IF dec.remaining = {} THEN Refuse ELSE Replan
    /\ UNCHANGED <<loop, req, scope, todo, kept, shown, late, outcome>>

(***************************************************************************)
(* Retrieval and code investigations.                                      *)
(***************************************************************************)

Signature == <<dec.action, dec.target, dec.query>>
Mismatch == st.scopeMode = "strict_project" /\ dec.action = "retrieve_rag"

\* A document search in a strict scope, or a repeated action.
ActRepeated ==
    /\ pc = "act" /\ dec.action \in Capability
    /\ Mismatch \/ (st.tools < MaxTools /\ Signature \in st.visited)
    /\ Replan
    /\ UNCHANGED <<loop, req, scope, todo, kept, shown, late, outcome>>

\* admit_action; it raises when the tool budget is spent.
Admitted == [st EXCEPT !.visited = st.visited \cup {Signature}, !.tools = st.tools + 1]

\* Mutant: an investigation is given the whole budget.
ToolsLeftWhole(s) == MaxTools

\* The tools and the rounds left to a code investigation: one round stays
\* with the agent.
ToolsLeft(s) == MaxTools - s.tools
RoundsLeft(s) == MaxRounds - s.rounds - 1

ActRetrieve ==
    /\ pc = "act" /\ dec.action = "retrieve_rag"
    /\ ~Mismatch
    /\ IF st.tools >= MaxTools THEN Close("guard") /\ UNCHANGED late
       ELSE /\ Signature \notin st.visited
            /\ pc' = "rag" /\ st' = Admitted
            /\ UNCHANGED <<loop, req, scope, todo, dec, claims, kept, shown, late, outcome>>

ActInvestigate ==
    /\ pc = "act" /\ dec.action = "query_code_wiki"
    /\ IF st.tools >= MaxTools THEN Close("guard") /\ UNCHANGED late
       ELSE /\ Signature \notin st.visited
            /\ IF ToolsLeft(Admitted) <= 0 \/ RoundsLeft(Admitted) <= 0
               THEN pc' = "final" /\ st' = Refused(Admitted) /\ dec' = NoDecision
               ELSE pc' = "code" /\ st' = Admitted /\ UNCHANGED dec
            /\ UNCHANGED <<loop, req, scope, todo, claims, kept, shown, late, outcome>>

\* record_tool_result: the check of scope and commit, and the result.
Recordable(s, item) ==
    item.type = "code_wiki" =>
        /\ item.project # None /\ item.commit # None
        /\ item.project \in s.allowed \cup {req.anchor}
        /\ (s.commit # None /\ item.project = req.anchor) => item.commit = s.commit
Recorded(s, capability, status, item) ==
    [s EXCEPT !.results = Append(s.results, [capability |-> capability, status |-> status,
                                             item |-> item])]

\* _retrieve_rag_capability, up to the search.
Retrieve ==
    /\ pc = "rag"
    /\ \/ /\ pc' = "ragCheck" /\ dec' = NoDecision
          /\ st' = Recorded(st, "retrieve_rag", "empty", NoItem)
       \/ pc' = "rerank" /\ UNCHANGED <<st, dec>>
    /\ UNCHANGED <<loop, req, scope, todo, claims, kept, shown, late, outcome>>

\* A chunk can lack a source reference.
RagItem(sound) == [NoItem EXCEPT !.id = <<"rag", st.tools>>, !.type = "rag",
                                 !.department = scope.department, !.sound = sound]

\* The chunks that were found go to the reranker, an external service, with no
\* check since the trace; it may drop them all.  One that is not configured
\* is not asked, and the search's own order stands, as after a failure.
Rerank ==
    /\ pc = "rerank"
    /\ \/ Sent({}, TRUE) /\ st' = Recorded(st, "retrieve_rag", "empty", NoItem)
       \/ /\ Sent({}, TRUE) \/ UNCHANGED late
          /\ \E sound \in BOOLEAN : st' = Recorded(st, "retrieve_rag", "success", RagItem(sound))
    /\ pc' = "ragCheck" /\ dec' = NoDecision
    /\ UNCHANGED <<loop, req, scope, todo, claims, kept, shown, outcome>>

RetrieveFails == pc \in {"rag", "rerank"} /\ Close("failed") /\ UNCHANGED late

RetrieveCheck == pc = "ragCheck" /\ Passes("ragSend")
RetrieveSend ==
    /\ pc = "ragSend"
    /\ pc' = "loop"
    /\ Sent(Investigated, HasRag(Evidence))
    /\ UNCHANGED <<loop, req, scope, st, todo, dec, claims, kept, shown, outcome>>

\* _code_wiki_evidence_stream resolves the scope and pins the current commit.
CodeOpens ==
    /\ pc = "code"
    /\ dec.target \in grant.projects
    /\ loop' = Opened(dec.target, head[dec.target], RoundsLeft(st), ToolsLeft(st))
    /\ pc' = "child"
    /\ UNCHANGED <<req, scope, st, todo, dec, claims, kept, shown, late, outcome>>

\* A membership that ended or a project that is gone raises an HTTP error,
\* which is not told from any other.
CodeRefused ==
    /\ pc = "code"
    /\ ~grant.active \/ dec.target \notin grant.projects
    /\ Close("failed")
    /\ UNCHANGED late

ChildRound ==
    /\ pc = "child"
    /\ Round(grant.active /\ loop.target \in grant.projects)
    /\ todo' = IF loop'.at = "asked" THEN 1 ELSE 0
    /\ UNCHANGED <<req, scope, st, pc, dec, claims, kept, shown, late, outcome>>

\* What the child yields goes out after a checkpoint of the agent.  Again one
\* event of a round stands for many.
ChildCheck == pc = "child" /\ loop.at = "asked" /\ todo > 0 /\ Passes("childSend")
ChildSend ==
    /\ pc = "childSend"
    /\ todo' = todo - 1
    /\ pc' = "child"
    /\ Sent(Investigated, HasRag(Evidence))
    /\ UNCHANGED <<loop, req, scope, st, dec, claims, kept, shown, outcome>>

ChildStep ==
    /\ pc = "child" /\ todo = 0
    /\ Investigate
    /\ UNCHANGED <<req, scope, st, pc, todo, dec, claims, kept, shown, late, outcome>>

\* _raise_child_agent_error keeps a revoked authorization apart.
ChildFails ==
    /\ pc = "child"
    /\ \/ loop.at = "revoked" /\ Close("revoked")
       \/ loop.at = "failed" /\ Close("failed")
    /\ UNCHANGED late

\* record_child_tool_calls, then the commit, then the result.
Charged == [st EXCEPT !.tools = st.tools + loop.calls, !.commit = loop.commit]
\* Mutant: code evidence is numbered by project instead of by attempt.
CodeItemByProject ==
    IF loop.cited
    THEN [NoItem EXCEPT !.id = <<"code", Cardinality(st.investigated)>>, !.type = "code_wiki",
                        !.project = loop.target, !.commit = loop.commit, !.sound = TRUE]
    ELSE NoItem

CodeItem ==
    IF loop.cited
    THEN [NoItem EXCEPT !.id = <<"code", Attempts("query_code_wiki")>>, !.type = "code_wiki",
                        !.project = loop.target, !.commit = loop.commit, !.sound = TRUE]
    ELSE NoItem
CodeStatus ==
    CASE ~loop.cited -> "empty"
      [] loop.cited /\ loop.sufficient -> "success"
      [] loop.cited /\ ~loop.sufficient -> "partial"

ChildEnds ==
    /\ pc = "child" /\ loop.at = "end"
    /\ IF Charged.tools <= MaxTools /\ Recordable(Charged, CodeItem)
       THEN /\ st' = Recorded(Charged, "query_code_wiki", CodeStatus, CodeItem)
            /\ loop' = Off /\ pc' = "loop" /\ dec' = NoDecision
            /\ UNCHANGED <<req, scope, todo, claims, kept, shown, late, outcome>>
       ELSE Close("guard") /\ UNCHANGED late

(***************************************************************************)
(* The answer.                                                             *)
(***************************************************************************)

Cost(S) ==
    RagSize * Cardinality({i \in S : i[1] = "rag"}) + CodeSize * Cardinality({i \in S : i[1] = "code"})

\* bounded_answer_material takes claim by claim those whose evidence still
\* fits.  They come in the order the planner gave them, so any largest choice
\* that fits can come out.
Fits(K) ==
    /\ K \subseteq claims
    /\ Cost(Cited(K)) <= MaterialLimit
    /\ \A c \in claims \ K : Cost(Cited(K) \cup c.ids) > MaterialLimit

\* The last look at the authorization before the answer is written.
FinalRefresh ==
    /\ pc = "final"
    /\ st.ready => grant.active
    /\ LET changed == \/ grant.department # scope.department /\ HasRag(Approved)
                      \/ ~(CodeProjects(Approved) \subseteq grant.projects)
           s == [st EXCEPT !.allowed = st.allowed \cap grant.projects]
       IN  \/ ~st.ready /\ pc' = "done" /\ UNCHANGED <<st, scope, kept>>
           \/ st.ready /\ changed /\ pc' = "done" /\ st' = Refused(s) /\ UNCHANGED <<scope, kept>>
           \/ /\ st.ready /\ ~changed
              /\ scope' = Current
              /\ \E K \in SUBSET claims : Fits(K) /\ kept' = K
              /\ IF kept' # {}
                 THEN pc' = "prompt" /\ st' = s
                 ELSE pc' = "done" /\ st' = Refused(s)
    /\ UNCHANGED <<loop, req, todo, dec, claims, shown, late, outcome>>

\* The approved evidence goes to the answer's model.
PromptAnswer ==
    /\ pc = "prompt"
    /\ pc' = "generate" /\ todo' = Parts
    /\ Sent(CodeProjects(Approved), HasRag(Approved))
    /\ UNCHANGED <<loop, req, scope, st, dec, claims, kept, shown, outcome>>

\* The model's text comes in parts, none of which is sent yet.  The
\* authorization is read again if half a second has passed.
Generate ==
    /\ pc = "generate" /\ todo > 0
    /\ todo' = todo - 1
    /\ \/ UNCHANGED scope
       \/ AnswerAuthorized /\ scope' = Current
    /\ UNCHANGED <<loop, req, st, pc, dec, claims, kept, shown, late, outcome>>

GenerateFails == pc = "generate" /\ Close("failed") /\ UNCHANGED late

\* validate_answer_contract: every citation is approved, and every claim is
\* found with its own.  It is looked for in lines whose citations are taken
\* out, so one whose wording has a citation never is.
Holds(cited) == cited \subseteq Cited(kept) /\ Cited(kept) \subseteq cited /\ Written(kept) = {}

\* If it fails, render_claim_contract_answer writes out the claims as the
\* planner worded them, each with its evidence.
Contract(cited) == IF Holds(cited) THEN cited ELSE Cited(kept) \cup Written(kept)

Validate ==
    /\ pc = "generate" /\ todo = 0
    /\ AnswerAuthorized
    /\ scope' = Current
    /\ \E cited \in SUBSET (Known \cup {Ghost}) : shown' = Contract(cited)
    /\ pc' = "delta" /\ todo' = Parts
    /\ UNCHANGED <<loop, req, st, dec, claims, kept, late, outcome>>

\* Mutant: the parts of the answer are sent under the half-second lease.
DeltaCheckLeased ==
    /\ pc = "delta"
    /\ pc' = "deltaSend"
    /\ UNCHANGED <<loop, req, scope, st, todo, dec, claims, kept, shown, late, outcome>>

DeltaCheck ==
    /\ pc = "delta"
    /\ AnswerAuthorized
    /\ scope' = Current
    /\ pc' = "deltaSend"
    /\ UNCHANGED <<loop, req, st, todo, dec, claims, kept, shown, late, outcome>>

\* Mutant: one part too many.
DeltaSendPastEnd ==
    /\ pc = "deltaSend"
    /\ todo' = todo - 1
    /\ pc' = IF todo = 0 THEN "done" ELSE "delta"
    /\ Sent(CodeProjects(Approved), HasRag(Approved))
    /\ UNCHANGED <<loop, req, scope, st, dec, claims, kept, shown, outcome>>

DeltaSend ==
    /\ pc = "deltaSend"
    /\ todo' = todo - 1
    /\ pc' = IF todo = 1 THEN "done" ELSE "delta"
    /\ Sent(CodeProjects(Approved), HasRag(Approved))
    /\ UNCHANGED <<loop, req, scope, st, dec, claims, kept, shown, outcome>>

\* done carries the state of the whole investigation, even for a refusal.
DoneCheck == pc = "done" /\ Passes("doneSend")
DoneSend ==
    /\ pc = "doneSend"
    /\ Sent(Investigated, HasRag(Evidence))
    /\ Close("done")

\* A check that fails ends the stream; so does one of the lease.
CheckFails ==
    /\ \/ pc \in {"checkpoint", "trace", "ragCheck", "done"} /\ ~Authorized
       \/ pc = "child" /\ loop.at = "asked" /\ todo > 0 /\ ~Authorized
       \/ pc \in {"generate", "delta"} /\ ~AnswerAuthorized
    /\ Close("revoked")
    /\ UNCHANGED late

(***************************************************************************)
(* The rest of the system.                                                 *)
(***************************************************************************)

Change ==
    /\ pc # "closed" /\ changes < MaxChanges
    /\ changes' = changes + 1 /\ late' = 0
    /\ UNCHANGED agent

\* The session is revoked or the membership ends.
EndAccess ==
    /\ Change
    /\ grant.active
    /\ grant' = [grant EXCEPT !.active = FALSE]
    /\ UNCHANGED head

\* A project leaves or enters what the user may see.
ChangeProjects ==
    /\ Change
    /\ \E p \in Project :
         grant' = [grant EXCEPT !.projects = (grant.projects \ {p}) \cup ({p} \ grant.projects)]
    /\ UNCHANGED head

MoveDepartment ==
    /\ Change
    /\ \E d \in Department \ {grant.department} : grant' = [grant EXCEPT !.department = d]
    /\ UNCHANGED head

\* An import of another commit becomes the current snapshot.  One before the
\* first look at the project is as good as one before the question.
Reimport ==
    /\ Change
    /\ \E p \in st.investigated, c \in Commit : c # head[p] /\ head' = [head EXCEPT ![p] = c]
    /\ UNCHANGED grant

Environment == EndAccess \/ ChangeProjects \/ MoveDepartment \/ Reimport

(***************************************************************************)
(* The specification.                                                      *)
(***************************************************************************)

\* The endpoints: codewiki and hybrid have an anchor project, rag has none,
\* and an anchor is one of the user's projects.
Request(projects) ==
    [mode : {"rag", "auto"}, anchor : {None}]
        \cup [mode : {"auto", "codewiki", "hybrid"}, anchor : {Anchor} \cap projects]

Init ==
    /\ loop = Off
    /\ grant \in [active : {TRUE}, projects : SUBSET Project, department : {FirstDepartment}]
    /\ head = [p \in Project |-> FirstCommit]
    /\ changes = 0
    /\ req \in Request(grant.projects)
    /\ scope = Current
    /\ st = [allowed |-> grant.projects,
             scopeMode |-> IF req.mode = "codewiki" THEN "strict_project" ELSE "soft_project",
             rounds |-> 0, tools |-> 0, visited |-> {}, results |-> << >>,
             investigated |-> {}, commit |-> None, ready |-> FALSE, refused |-> FALSE]
    /\ pc = "loop" /\ todo = 0
    /\ dec = NoDecision /\ claims = {} /\ kept = {} /\ shown = {}
    /\ late = 0 /\ outcome = "none"

Controls ==
    Refresh \/ RefreshFails \/ BeginRound \/ Prompt \/ Decide \/ PlannerFails
        \/ TraceCheck \/ TraceSend \/ ActAnswer \/ ActRefuse \/ ActReplan
Searches ==
    ActRepeated \/ ActRetrieve \/ ActInvestigate \/ Retrieve \/ Rerank \/ RetrieveFails
        \/ RetrieveCheck \/ RetrieveSend \/ CodeOpens \/ CodeRefused \/ ChildRound \/ ChildCheck \/ ChildSend
        \/ ChildStep \/ ChildFails \/ ChildEnds
Answers ==
    FinalRefresh \/ PromptAnswer \/ Generate \/ GenerateFails \/ Validate \/ DeltaCheck
        \/ DeltaSend \/ DoneCheck \/ DoneSend \/ CheckFails

Step == UNCHANGED <<grant, head, changes>> /\ (Controls \/ Searches \/ Answers)

Next == Step \/ Environment

\* The server pulls the generator; its model and database calls time out.
Spec == Init /\ [][Next]_vars /\ WF_vars(Step)

(***************************************************************************)
(* Properties.                                                             *)
(***************************************************************************)

\* After any change of the authorization at most one more event or prompt that
\* rests on what was withdrawn leaves the server: a checkpoint or a forced
\* renewal stands before every one of them, over awaits and yields.  A search
\* that was under way may add its request to the reranker; after both, the
\* next checkpoint ends the stream.
LateEventsAreFew == late <= IF pc \in {"ragCheck", "closed"} THEN 2 ELSE 1

\* The agent and the investigation it has started keep to one budget of tool
\* calls, and an investigation leaves the agent a round to use what it found
\* (app/main.py:2430-2432).
BudgetsAreShared ==
    /\ st.rounds <= MaxRounds /\ st.tools <= MaxTools
    /\ loop.at # "off" =>
         /\ loop.calls <= loop.maxCalls /\ st.tools + loop.maxCalls <= MaxTools
         /\ loop.completed <= loop.maxRounds /\ st.rounds + loop.maxRounds < MaxRounds

\* What KnowledgeAgentState raises for a loop over its budget or evidence of
\* another project never ends a request: the loop does not let it come to
\* that, whatever the planner, the investigation and the authorization do.
GuardsNeverFire == outcome # "guard"

\* Evidence of different tool calls never shares an id, so a citation names
\* one piece (ids are built from two different counters).
EvidenceIdsDiffer ==
    \A i, j \in DOMAIN st.results :
        st.results[i].item # NoItem /\ st.results[i].item.id = st.results[j].item.id => i = j

\* Documents found for one department are not put before the planner or into
\* an answer under the authorization of another.
RagOfOneDepartment ==
    ~st.refused =>
        \A e \in (IF st.ready THEN Approved ELSE Evidence) :
            e.type = "rag" => e.department = scope.department

\* An answer that is sent cites all the evidence of its approved claims, and
\* nothing else but what their wording cites: no id the answer's model chose.
\* Each piece of that evidence has a place and a content and comes from a call
\* that succeeded or from an unfinished code investigation, of a project still
\* authorized when last read; a hybrid answer follows a success of both kinds.
AnswerIsSupported ==
    pc \in {"delta", "deltaSend"} =>
        /\ kept # {} /\ HybridComplete
        /\ Cited(kept) \subseteq shown /\ shown \subseteq Cited(kept) \cup Written(kept)
        /\ \A i \in Cited(kept) : \E r \in Usable :
              /\ r.item.id = i /\ r.item.sound
              /\ r.item.type = "code_wiki" => r.item.project \in scope.projects

\* What render_claim_contract_answer promises of the answer it writes: nothing
\* but approved claims and citations (app/knowledge_agent.py:73).
CitationsAreApproved == pc \in {"delta", "deltaSend"} => shown \subseteq Cited(kept)

\* The evidence of a project is of one commit: record_tool_result is there to
\* stop evidence of several commits from mixing (app/knowledge_agent.py:294).
OneCommitPerProject ==
    \A e, f \in Evidence :
        e.type = "code_wiki" /\ f.type = "code_wiki" /\ e.project = f.project => e.commit = f.commit

\* Whatever the planner and the models answer, the stream ends.
StreamEnds == <>(pc = "closed")
=============================================================================
