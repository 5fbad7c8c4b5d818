--------------------------- MODULE CodeAgentLoop ---------------------------
(***************************************************************************)
(* One code investigation: _code_wiki_evidence_stream of app/main.py under *)
(* the budget and the stopping rules of AgentLoopState (app/agent_loop.py) *)
(* with the tools of app/code_agent.py.                                    *)
(*                                                                         *)
(* The model asks for tool calls; the loop decides which of them run and   *)
(* whether there is another round.  Of a call only what admit() tells      *)
(* apart is kept: its signature, whether it asks for the file list, and    *)
(* whether it asks for the whole first page of it.  Of a result only       *)
(* whether its fingerprint was new and it counted as evidence, and whether *)
(* a citation came with it.                                                *)
(*                                                                         *)
(* The stream is a generator that its caller pulls, so the actions below   *)
(* are steps of the KnowledgeAgent that extends this module.               *)
(***************************************************************************)
EXTENDS Integers, Sequences, FiniteSets

CONSTANTS
    Project, Commit,
    Call,           \* signatures of tool calls
    FileList,       \* the calls of list_project_files
    WholeList,      \* those without a query and from offset 0
    MaxBatch,       \* the most calls in one model message
    CodeRounds,     \* settings.code_agent_max_rounds
    CodeTools,      \* settings.code_agent_max_tool_calls
    None

ASSUME CallAssumption == WholeList \subseteq FileList /\ FileList \subseteq Call
ASSUME CodeBudgetAssumption ==
    CodeRounds \in Nat \ {0} /\ CodeTools \in Nat \ {0} /\ MaxBatch \in Nat \ {0}
ASSUME NoneAssumption == None \notin Project \cup Commit

VARIABLE loop

Reason == {"tool_budget_exhausted", "project_files_already_inspected",
           "same_query_repeated", "no_new_evidence"}
ASSUME ReasonAssumption == None \notin Reason

\* No investigation is under way.
Off == [at |-> "off", target |-> None, commit |-> None, maxRounds |-> 1, maxCalls |-> 1,
        signatures |-> {}, calls |-> 0, unchanged |-> 0, progress |-> FALSE, stop |-> None,
        completed |-> 0, queue |-> << >>, executed |-> 0, blocked |-> None,
        cited |-> FALSE, sufficient |-> FALSE]

LoopState ==
    [at : {"off", "round", "asked", "calls", "end", "failed", "revoked"},
     target : Project \cup {None}, commit : Commit \cup {None},
     maxRounds : Nat, maxCalls : Nat, signatures : SUBSET Call, calls : Nat,
     unchanged : Nat, progress : BOOLEAN,
     stop : Reason \cup {"round_budget_exhausted", "agent_completed", None},
     completed : Nat, queue : Seq(Call), executed : Nat, blocked : Reason \cup {None},
     cited : BOOLEAN, sufficient : BOOLEAN]

LoopTypeOK == loop \in LoopState

Least(a, b) == IF a < b THEN a ELSE b

\* The budgets of a child are what its caller has left, within the settings.
Opened(p, c, rounds, calls) ==
    [Off EXCEPT !.at = "round", !.target = p, !.commit = c,
                !.maxRounds = Least(rounds, CodeRounds), !.maxCalls = Least(calls, CodeTools)]

(***************************************************************************)
(* AgentLoopState.                                                         *)
(***************************************************************************)

\* admit: why a call is refused, or None.
Refusal(l, q) ==
    IF l.calls >= l.maxCalls THEN "tool_budget_exhausted"
    ELSE IF q \in WholeList /\ l.signatures \cap FileList # {}
         THEN "project_files_already_inspected"
    ELSE IF q \in l.signatures THEN "same_query_repeated"
    ELSE IF l.unchanged >= 2 THEN "no_new_evidence"
    ELSE None

\* What a tool may come back with: the file list carries no citation, and a
\* symbol without relations is a citation that counts as no evidence.
Outcomes(q) == {r \in [progress : BOOLEAN, cited : BOOLEAN] : r.cited => q \notin FileList}

\* record(), after admit() has counted the call.
Noted(l, q, r) ==
    [l EXCEPT !.queue = Tail(l.queue), !.signatures = l.signatures \cup {q}, !.calls = l.calls + 1,
              !.executed = l.executed + 1, !.progress = l.progress \/ r.progress,
              !.cited = l.cited \/ r.cited]

\* finish: the first reason stays.
Finished(l, reason) ==
    [l EXCEPT !.at = "end", !.stop = IF l.stop = None THEN reason ELSE l.stop]

UnchangedRounds(l) ==
    IF l.executed = 0 THEN l.unchanged ELSE IF l.progress THEN 0 ELSE l.unchanged + 1

\* evaluate_round, once the calls of a round are through.
Evaluated(l) ==
    LET c == [l EXCEPT !.completed = l.completed + 1]
        n == [c EXCEPT !.unchanged = UnchangedRounds(l), !.progress = FALSE]
    IN  IF l.blocked # None /\ l.executed = 0 THEN Finished(c, l.blocked)
        ELSE IF n.unchanged >= 2 THEN Finished(n, "no_new_evidence")
        ELSE IF n.calls >= n.maxCalls THEN Finished(n, "tool_budget_exhausted")
        ELSE IF n.completed >= n.maxRounds THEN Finished(n, "round_budget_exhausted")
        ELSE [n EXCEPT !.at = "round"]

(***************************************************************************)
(* The steps of the stream.                                                *)
(***************************************************************************)

\* Each round begins with a fresh look at the session and the projects.
Round(authorized) ==
    /\ loop.at = "round"
    /\ loop' = [loop EXCEPT !.at = IF authorized THEN "asked" ELSE "revoked"]

\* The model answers without a call: the investigation is over, and nothing
\* was said about its evidence.
ReplyNothing ==
    /\ loop.at = "asked"
    /\ loop' = Finished([loop EXCEPT !.completed = loop.completed + 1], "agent_completed")

\* finish_investigation; other calls of the message are skipped.
ReplyFinish ==
    /\ loop.at = "asked"
    /\ \E sufficient \in BOOLEAN :
         loop' = Finished([loop EXCEPT !.completed = loop.completed + 1,
                                       !.sufficient = sufficient], "agent_completed")

ReplyCalls ==
    /\ loop.at = "asked"
    /\ \E n \in 1..MaxBatch : \E calls \in [1..n -> Call] :
         loop' = [loop EXCEPT !.at = "calls", !.queue = calls, !.executed = 0, !.blocked = None]

\* A call the loop refuses; the round remembers the first reason.
Block ==
    /\ loop.at = "calls"
    /\ loop.queue # << >>
    /\ LET reason == Refusal(loop, Head(loop.queue)) IN
         /\ reason # None
         /\ loop' = [loop EXCEPT !.queue = Tail(loop.queue),
                                 !.blocked = IF loop.blocked = None THEN reason ELSE loop.blocked]

\* A call that runs against the pinned commit, and record().
Execute ==
    /\ loop.at = "calls"
    /\ loop.queue # << >>
    /\ Refusal(loop, Head(loop.queue)) = None
    /\ \E r \in Outcomes(Head(loop.queue)) : loop' = Noted(loop, Head(loop.queue), r)

EndRound ==
    /\ loop.at = "calls"
    /\ loop.queue = << >>
    /\ loop' = Evaluated(loop)

\* A model call or a tool raises.
StreamFails ==
    /\ loop.at \in {"asked", "calls"}
    /\ loop' = [loop EXCEPT !.at = "failed"]

Investigate ==
    ReplyNothing \/ ReplyFinish \/ ReplyCalls \/ Block \/ Execute \/ EndRound \/ StreamFails
=============================================================================
