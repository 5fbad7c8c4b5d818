# CodeRuleNexus in TLA+

This directory models CodeRuleNexus (Python, FastAPI, PostgreSQL): a server in which teams keep
documents and imported code repositories, and ask an agent questions about both. The modules here are
translated from `app/`. TLC checks them on small instances, and TLAPS proves the most important
properties for every value of the constants. `PROJECT.json` lists, for machines, what this file
explains: components, runs, mutants, the lines each definition models, hazards, findings, theorems.

    tlc -workers 2 -config Snapshots.cfg MCCodeSnapshots.tla     # a model-checking run
    tlapm CodeSnapshotsProofs.tla                                # a proof module

## 1. The system

Handlers are synchronous, so FastAPI runs each request on a thread of its own and requests interleave
anywhere between two statements. `app/db.py: connection()` gives one PostgreSQL transaction per
outermost `with` block (nested blocks join it) at READ COMMITTED: every statement sees what has been
committed when it starts, an `UPDATE` waits for the row lock of another writer and then looks at the
new row, and an exception rolls everything back. Almost every handler uses **two** transactions:
`request_scope` reads who the caller is and which role it has, then the operation runs with that
snapshot. That gap, the gap around password hashing, and the gap between file system and database
are where most of this code is hard.

The chat endpoints are different: `agentic_knowledge_stream` is an asynchronous generator. The server pulls it
event by event, and at every `await` and every `yield` the rest of the system goes on, so what the generator has read
of a session, a project or a department can be withdrawn before it uses it.

| component | state | operations | what makes it correct |
|---|---|---|---|
| Workspace membership (`access_control.py`) | `workspaces`, `workspace_members`, `workspace_invitations`, default workspace | create, invite, revoke, accept, change role, remove, leave, transfer, set default | exactly one active owner, who is the recorded one; invitations work once, and only the last one sent; nobody is demoted by accepting |
| Passwords and sessions (`auth.py`) | `users.auth_version`, `user_credentials`, `user_sessions` | register, log in, authenticate, log out, log out everywhere, change password | a session dies with the password it was opened with; idle and absolute limits |
| Code snapshots (`code_wiki.py`, `main.py`) | directories named after commits, `code_projects`, `code_project_snapshots`, an advisory lock | GitHub import, local upload, delete, read a pinned source | a published snapshot stays readable and unchanged until its project is deleted, though no transaction spans disk and database |
| Data handover (`auth.py`) | `user_data_handovers`, the owner columns of all resources | create, accept | all resources and roles move, the source account ends, at once |
| Rate limits (`auth.py`) | `auth_rate_limits`, attempts in memory | consume, check | no more than the limit per window, whatever the interleaving |
| Documents (`db.py`, `ingestion.py`) | `documents`, `knowledge_chunks`, `document_revisions`, status | upload, re-upload, invalidate, restore, delete, search | one current revision; chunks belong to it; equal content is reused |
| Agent loop (`agent_loop.py`, `main.py`) | round and call counters, seen signatures, rounds without progress | admit, record, evaluate, finish | budgets hold, no signature runs twice, the loop ends with one reason |
| Knowledge agent (`knowledge_agent.py`, `main.py`) | scope, rounds, tool calls, what was tried, results, claims | decide, search documents, investigate code, answer, refuse, replan | an answer rests on sound evidence of calls that succeeded, of projects and a department the user still has; the agent and its investigations share a budget |
| Answer stream (`main.py`) | the authorization as last read | checkpoint, renew, send, finish | what is sent is what the caller may still read, but for one event and one request to the reranker at most; the stream ends |
| Retrieval, splitting (`db.py`, `ingestion.py`) | none | cut a text, fuse two lists, expand hits | no text is lost between chunks; no document crowds out the others; the context keeps to its budget |
| Extraction, Code Wiki queries | none | parsing, read-only SQL | order of results |

Interactions: every handler goes through the middleware (sessions) and `request_scope` (membership);
a handover ends sessions, memberships and the ownership of documents and projects together; the knowledge agent
reads documents and pinned code snapshots while both may change, and starts code investigations on a part of its own budget; a deletion of a project and an import meet at the
advisory lock only.

**Hard behaviours**: stale role snapshots; row locks taken late or not at all; a slow password
verification between a read and a write; a rename and a commit that are not atomic, with crashes, half-finished
removals and commits whose outcome is unknown; readers that outlive what they pinned; an
authorization that is withdrawn between a check and what it was for; budgets that two loops share.
The full list, with lines, is `hazards` in `PROJECT.json`.

## 2. The modules

### WorkspaceMembership (core)

One `Request` is a handler between `request_scope` and its commit; `req[r]` is its progress and the scope
it holds. `ResolveScope` copies the caller's role; later actions use that copy (`req[r].role`) where the
code uses `scope.workspace_role`, and the tables where a statement reads them. A function is one action if
its statements cannot be told apart from one step (a single guarded `UPDATE`, or `SELECT ... FOR UPDATE` on
all it writes): `UpdateMemberRole`, `TransferOwnership`, `AcceptInvitation`, `RevokeInvitation`. Removing and
leaving are not: check (`RemoveCheck`), `UPDATE` with the row lock held (`RemoveDisable`,
`LeaveDisable`), commit with the default workspace repaired (`CommitDisable`). An invitation is checked
(`InviteCheck`) and then written by an upsert (`InviteWrite`). `Rollback` is every refusal and every exception.
`issued` and `consumed` are history, and so are `overtaken`, the workspaces that were transferred to a member while a request of that
member or its removal was under way, and `undercut`, the accounts that lost a membership by which another request of theirs went (the scope
it was given, or the replacement it had picked for a default). They name the two races of section 4 (1 and 7), and the properties say
that these two do all the damage there is. Personal workspaces cannot be shared, left or
transferred, so they are one value, `Personal`. The order in which `_repair_default_workspace` prefers
replacements is left open.

`CreateWorkspace` and `AcceptInvitation` need no scope in the code and have none here. The guard `RowFree` says
that a statement waits for a row lock; PostgreSQL re-evaluates the `WHERE` afterwards, which is why the guard of
`UpdateMemberRole` is read in the same step.

### AuthSessions

`LoginRead` and `LoginInsert` are the two halves of `login_user` around the Argon2 verification;
`Authenticate` is the middleware, after which the request acts (`ChangePassword`, `Logout`, `LogoutAll`,
`Finish`) in a later transaction. Passwords are generations. `Touched` is the conditional `CASE` by which
`authenticate_session` moves the idle limit at most once per `SlideAfter`. `DisableAccount` is the end of
`accept_data_handover` as sessions see it. `used`, `password` and `logouts` in a session row are history.

### CodeSnapshots and SnapshotStore

`disk[c]` is the directory of commit `c`: `none`, `whole`, or torn by a removal in progress: `gutted` (its HEAD
still verifies) or `headless`. `row` and `current` are the database. Imports and deletions are jobs: `ImportLock`,
`Promote` or `Reuse`, `Persist`; `DeleteLookup`, `DeleteLock`, `DeleteRows`, then one
`RemoveBegins`/`RemoveEnds` per directory, which is also what a failed import does to the directory it promoted
(`Recovery`). Readers `Pin` a commit, read its row, then its file (`ReadRow`, `ReadSource`). `source` is what the
project was imported from: GitHub imports verify the HEAD of a directory they find, local uploads do not, and only
they can fail between the rename and the `try` (`LookupFails`). Faults are chosen by the constant `Faults`:
`crash`, `os_error` (a removal fails half-way) and `in_doubt` (the database commits and the client sees an
error; `doubted` remembers where). `SnapshotStore` is the abstract specification: a set of
readable snapshots and a current version, changed by `Publish` and `Delete` only. Under `available <- Readable` the detailed
module implements it when nothing fails.

### DataHandover

A code (`token`) is created in two steps: `CreateLock` locks the source's row of `users` and checks it, `CreateWrite`
revokes the pending codes and inserts the new one. It is accepted in three: `AcceptLock` (`SELECT ... FOR UPDATE OF
h, u`: the code and the target), `AcceptSource` (the source's row, then its memberships are read and the role the
target gets in each is computed), `AcceptCommit` (everything moves, the source is disabled, the code is used up). The
target is an authenticated caller or an account that registers in the same transaction (`MayAccept`). `userLock` and
`tokenLock` are the row locks, kept until `Release`. The argument rests on a rule of PostgreSQL that the code uses without naming it: a row with a
foreign key to `users` needs a key-share lock on that user's row, which `FOR UPDATE` excludes; hence the guard `RowFree`
in `CreateResource` and `Join`. Role changes and dismissals (`Regrade`, `Dismiss`) write no key and are not held up. `Rollback`
is also the victim of the deadlock in which a creation and an acceptance of the same account wait for each other.
`late` is history: what a request that was authenticated before the handover still wrote after it.

### DocumentRevisions

`Embed` is `find_reusable_document` and the embedding of the chunks, outside any transaction; then one transaction runs
`ensure_document` (`EnsureReuse`, `EnsureNew`, `EnsureSource`) and `insert_chunks`. A new document is written by `Insert`; a known one
by the statement that deletes the old chunks (`ClearBegins` when its snapshot is taken, `ClearEnds` when it holds the locks) and by
`Replace`, where the guards are the keys of the tables: an upload that finds one violated can only `Abort`. `delete_document`
is `DeleteBegins`, the same `ClearEnds`, and `DeleteEnds`. `sees` is what a `DELETE` is going to delete, `cleared` what it has
deleted and locked. Nothing locks a row before it is read, so the order of these statements is free. All documents belong to one
owner, department, creator and scope, which are parts of every key the code looks up. The chunks of one revision are one element.
`DeleteEnds` also removes the chunks that `delete_document` did not see, because the schema adds a foreign key from
`knowledge_chunks` to `documents` with `ON DELETE CASCADE` (`auth.py:329`).

A server process runs one upload at a time, because `upload` is an `async` handler that calls `ingest_file` directly; several
uploads at once are those of several processes, which the tables' unique keys provide for. Deletions run on threads and meet even the
uploads of their own process.

### CodeAgentLoop and KnowledgeAgent

`KnowledgeAgent` is one question: `agentic_knowledge_stream`, `KnowledgeAgentState` (`st`), the planner's decision under
way (`dec`), the answer being written (`claims`, `kept`, `shown`) and the authorization as last read (`scope`), while
`Environment` changes what the next reading will find (`grant`: session, projects, department; `head`: the current commits).
`pc` is the place in the generator. A round is `Refresh`, `BeginRound`, `Prompt` (the evidence goes to the planner's
model), `Decide` or `PlannerFails` (the fallback), a trace event (`TraceCheck`, `TraceSend`), and one of
`ActAnswer`, `ActRefuse`, `ActReplan`, `ActRepeated`, `ActRetrieve`, `ActInvestigate`. An answer is `FinalRefresh`,
`PromptAnswer`, `Generate` part by part, `Validate`, then `DeltaCheck` and `DeltaSend` for each part. A document search is
`Retrieve` (which finds something or nothing), `Rerank` and a checkpoint. Whenever something that was found leaves the server, in an event, in the
prompt of the planner or of the answer's model, or in the request that posts chunks to the reranker (`main.py:2142`), `Sent` compares the
authorization with the one that holds at that moment; `late` counts what went out without since the last change (history). The query that
is embedded (`main.py:2134`) is the planner's text and is not counted.

`CodeAgentLoop` is the investigation the agent starts: `_code_wiki_evidence_stream` over `AgentLoopState`. `Refusal` is `admit`,
`Noted` is `record`, `Evaluated` is `evaluate_round`. It has no scheduler of its own, since it runs when the agent pulls it;
`KnowledgeAgent` extends it and adds a checkpoint before each of its events (`ChildCheck`).

What is abstracted: the planner is any decision that `KnowledgeDecision.from_payload` lets through, including made-up ids,
targets outside the scope and repeated wordings; a model's answer is any set of citations, and so is what
`Contract` makes of it. A claim is the ids the planner gives for it and the ids its wording has in brackets (`text`): a wording cites nothing, or all the
ids there are and one that is made up, the same in all claims of a decision. `Holds` is `validate_answer_contract`; where it
fails, `render_claim_contract_answer` writes the planner's wordings out as they are. A result carries one piece of
evidence, since the pieces of one result share prefix, project and commit. Of a wording only whether it
was tried counts, so the first one of a capability is called `Message`, which is also what the fallback takes. The
candidate scope is the soft one with another prompt. One trace event and one event of an investigation's round stand
for many, as each has a checkpoint of its own. Claims are a set and `bounded_answer_material` takes any largest part of
it that fits, because their order is the planner's. The half-second lease of `Generate` is nondeterministic. A head changes only for
projects the agent has begun to investigate (before that it makes no difference).

### Passages

Three functions whose state lives for one call: `split_text`, `hybrid_search` and `expand_context`. An initial state is a `call` with its
arguments; a step is one turn of the function's loop, in the order of the code: `CutWindow` (where a window ends is `WindowEnds`, where the
next begins `NextStart`); `TryCandidate`, the best hit that is left (`Before` is the stable sort by the sum of reciprocal ranks) with the share of
its document (`HasRoom`); `SkipSeen`, `BudgetSpent` or `TakeContext` for the next hit to expand. `result` collects, `position` and `pending` say
what the loop has still before it, and `LoopEnds` is its end. `Over` is a stutter of a call that has returned, so that the deadlock check finds calls
that do not return. A character is whether the text may be cut before it; a text, a parent or a hit in the expansion is its length; `blanks` is the
number of spaces that `strip` takes off a part that was cut. Scores are exact fractions where the code has floats.

## 3. Runs

`MC*.tla` only add symmetry sets, function-valued constants and one view: `MembershipRaces` takes states that differ in `overtaken`
and `undercut` alone for one, as no action reads these but to record them and its properties do not speak of them.

| run | shows |
|---|---|
| `MembershipRaces` | 3 accounts, 1 workspace, 2 overlapping requests, 2 tokens: an active owner is the recorded owner; open invitations are the last ones sent and unused; accepting keeps a standing role. |
| `MembershipOverlap` | 3 accounts, 2 workspaces of one name, 2 overlapping requests, 1 token: creations and transfers never give an account two workspaces of a name; a workspace loses its owner only by a transfer to a member on its way out; a default workspace becomes unreachable only if a membership ends under another request that goes by it. |
| `MembershipOwnerLost` (violation) | with two overlapping requests the owner can be lost. |
| `AuthSessions` | 1 account, 3 sessions, 2 logins and 2 requests at once, two password changes, one full logout, 5 instants: sessions know the current password; idle limits follow use. |
| `Handover` | 3 accounts, 3 codes, 2 requests, 1 resource, 1 share: a disabled account has neither resources nor roles, except what was written late; only the last code of an account is accepted, in the step that disables it. |
| `Snapshots` | GitHub and local projects, 2 commits, 2 imports, 2 deletions, a reader, no faults, fair: the abstract store is implemented, pinned reads succeed, registered directories are whole and untouched, the lock is released, orphans go. |
| `SnapshotsFaults` | all faults: the HEAD of every registered snapshot verifies unless its own commit was in doubt. |
| `SnapshotsGutted` (violation) | a removal that failed half-way and a re-import register a snapshot with files missing. |
| `Documents` | 2 documents, 2 files, 3 contents (one gives no chunk), 2 uploads at once, 1 deletion: chunks are those of the current revision; a history has no gap and ends with what is stored; no chunk outlives its document. |
| `KnowledgeAgent` | one question in every mode, 2 projects, 2 commits, 2 departments, 2 wordings, 4 rounds, 4 tool calls, investigations of 2 rounds and 2 calls, one change of the authorization or of a head: at most one event or prompt is late, and one request to the reranker with it; the budgets are shared and no guard of `KnowledgeAgentState` fires; ids do not collide; evidence is of one department and an answer is supported; the stream ends (fair). |
| `MixedCommits` (violation) | two investigations of one project, with an import in between, put evidence of two commits before the gate. |
| `Passages` | every text of up to 7 characters with windows up to 5 and any overlap, every pair of lists of 4 hits in 2 documents, every expansion of up to 3 hits under up to 6 tokens: nothing is lost, candidates are diverse and in order, the context fits its budget, every turn of a loop gets closer to its end. |

**Bounds.** Two requests suffice for every race here, because an anomaly needs one stale reader and one
writer; a third account gives a transfer a bystander. Two tokens let a second invitation overwrite a first.
Two workspaces of one name are the least for a name collision, and with two requests a creation overlaps a transfer. Two logins, two requests and three sessions let two password changes that verified the same password overlap and
leave a session to compare. Three accounts and three codes let an account that takes over another be taken over
itself and let a code be replaced while it is accepted; one role is enough there, since no property of that run
compares two. `AbsoluteLife = 4`, `IdleLife = 3`, `SlideAfter = 1`, `Horizon = 4` let a session be shown
with and without a write, die of idleness, and reach the absolute limit. Two commits, two imports and two deletions let a
re-import meet a deletion and let a second commit become current while the first is pinned. Two documents, two files and three
contents let one file take over the content of another, and three revisions let an upload be late by one and by two.
Four rounds and four tool calls let an agent search, investigate twice and answer, and let each budget run out first. `MaterialLimit = 3` with pieces
of size 1 and 2 lets an answer keep all, some or none of its claims. One change is enough for an event to be late, and a second
one starts the count again; the theorems cover any number. Four hits with a share of three let a document meet its share.
`Horizon`, `MaxGeneration`, `MaxLogoutAll`, `MaxRevision` and `MaxChanges` are the only counters capped, by guards of `Tick`, `ChangePassword`,
`LogoutAll`, `EnsureSource` and `Change`; `MaxText`, `MaxSize`, `MaxCandidates`, `MaxHits`, `MaxTokens`
and `MaxBatch` bound inputs.

**Deadlock** is checked for the snapshots and the documents, where a request can always be made or fail, and for `Passages`, where a call
must return. The membership, session
and handover runs say `CHECK_DEADLOCK FALSE`: there the instance runs out (all tokens drawn and every member gone, all session
rows used at the horizon, all codes used and all accounts disabled but one), as the real system does not. `KnowledgeAgent` and `MixedCommits`
say it because a question does end; that it ends at `closed` and not elsewhere is `StreamEnds`.

**Symmetry** is used where no property is temporal beyond an action property; the run with liveness has none.

**Fairness.** Two modules assume any. `KnowledgeAgent` assumes `WF_vars(Step)`: the server pulls the generator, and the calls of models and
of the database that it waits for have timeouts. A client that goes away only ends the stream sooner. `CodeSnapshots` assumes weak fairness of the work of a job that holds the lock
(`ImportWork`, `DeleteWork`, `RemoveWork`). A thread inside the `with repository_import_lock` block goes on, git and
HTTP calls there have timeouts, and the `finally` clause releases. Nothing says that a request is ever made or that a
busy lock is tried again (the code does not retry).

Each property has a mutant: a plausible bug in one definition (preceded by `Mutant:` in the module) under
which the run must find the property violated.

## 4. What disagrees with the code's own words

Three of these have a run that shows the counterexample:

1. *An owner can leave* (`MembershipOwnerLost`). `leave_workspace` tests the role in its scope and then updates
   without a condition on the role; a transfer in between makes the caller the owner, and the workspace has none.
   `remove_workspace_member` has the same gap. The comments at `access_control.py:592` and `:606` say it cannot. That there is no
   other way to lose an owner is `OwnerLostOnlyWhenOvertaken`.
2. *A damaged directory becomes a snapshot* (`SnapshotsGutted`): in the trace an import renames its directory into place, its commit fails,
   and the removal by which it recovers (`code_wiki.py:2006` to 2010) fails half-way, which is only logged. The next import of the commit keeps the
   directory it finds, though it has scanned a complete one. The removals of `delete_code_projects` (2095) can leave the same.
3. *An answer mixes two commits* (`MixedCommits`). `main.py:2472` sets `state.commit_id` to the commit of the new result right
   before `record_tool_result` compares the two, so the check against mixing (`knowledge_agent.py:294`, and
   `tests/test_knowledge_agent.py:419` for the class alone) never compares evidence with earlier evidence.

Five more were met while modelling and have no run of their own; the models contain the behaviour:

4. *A login outlives "log out everywhere"*. The schema comment (`auth.py:124`) says `auth_version`
   is incremented by a full logout; `revoke_all_sessions` only revokes the rows it finds. `LogoutAllEndsOlderLogins` as an INVARIANT of
   `AuthSessions.cfg` shows it.
5. *A dismissed member is promoted*: `accept_data_handover` compares the source's role with the role
   of the target's row even if that row is disabled, and revives the higher one. The comment at `auth.py:844` speaks of a
   higher role the target already has. `InheritsOnlyHeldRoles` as a PROPERTY of `Handover.cfg`, with a second role, shows it.
6. *A commit that succeeded is taken for a failed one*: the recovery of a failed import (`code_wiki.py:2008`) takes every exception for a
   failed commit. A run of `RecoveryKeepsActive` with `"in_doubt"` among the `Faults` shows it removing an active snapshot.
7. *A default workspace nobody can open*. `set_default_workspace` (`access_control.py:276`: the target must come from a valid membership)
   reads the membership in one statement and writes in the next; if the caller leaves in between, the repair has already run.
   `DefaultIsReachable` as the INVARIANT of `MembershipOwnerLost.cfg` shows it. That nothing but such a race does this is
   `DefaultLostOnlyWhenUndercut`.
8. *An answer cites what nobody approved*. `render_claim_contract_answer` (`knowledge_agent.py:73`) is there to write an answer of approved claims and
   citations only, and `main.py:2593` says that unapproved content is not seen. It copies `claim.text` as the planner worded it
   (`knowledge_agent.py:77`), and neither `from_payload` nor `can_answer` looks for ids in brackets there, so an id that is made up, or that
   is no evidence of an approved claim, is sent. Such a wording is even the sure way to that branch: `validate_answer_contract` takes the citations out of
   a line before it looks for the claim in it. `CitationsAreApproved` as an INVARIANT of `KnowledgeAgent.cfg` shows it; what does hold
   of the citations is `AnswerIsSupported`.

One remark on `expand_context`: a second hit of a parent that did not fit is dropped as a repetition (`db.py:772`), although
it was the first hit's own text that was used. `ContextFitsBudget` allows it, as nothing in the code says otherwise.

## 5. Proofs

| module | assumptions | theorems | argument |
|---|---|---|---|
| `WorkspaceMembershipProofs` | the sentinel values are outside their sets | `TypeCorrect`, `OwnerRowInvariant`, `OneActiveOwner`, `NamesStayDistinct`, `InvitationsAreOneShot`, `AcceptingNeverDemotes`, `OwnerIsKept`, `DefaultIsKept` | `OwnerRowIsRecorded` is inductive with the types: only a creation and a transfer write the owner role, and both write the owner of the row with it. For invitations the strengthening is that a token is in at most one open row and that a drawn token is recorded. `ProgressInv` says what every request under way may rely on, whatever the others do: its workspace exists, and a removal holds the row it disables. On it rest the two theorems about races. `SparesOwner`: unless its workspace has been overtaken, no request that may depart is its owner's and no removal is of its owner, however old the roles they read. `KeepsPromise`: unless its account has been undercut, what a request goes by still holds, that is its membership or the replacement it picked. Neither assumes anything about how many requests there are; what they exempt is lost indeed (section 4, 1 and 7). |
| `AuthSessionsProofs` | `SlideAfter < IdleLife`, positive lifetimes | `TypeCorrect`, `VersionsCoverPasswords`, `PasswordChangeEndsSessions`, `IdleLimitsFollowUse` | `VersionCoversPassword` is inductive: it speaks of logins in progress as well as of sessions, since a late insert turns the one into the other. `IdleInv` keeps what the row says and what was used at most `SlideAfter` apart. |
| `DataHandoverProofs` | sentinels outside their sets, roles are positive numbers | `TypeCorrect`, `OwnersActive`, `GrantsActive`, `AcceptedLatest` | `LocksInv` says what a request may rely on while it holds its locks (its code stays open, its target is not disabled, its source gains no role it has not read). `LocksFrame` proves once that a step which leaves those rows alone keeps it; every action is an instance. `PendingIsLatest` links the codes: an account has one pending code at most, and is active while it has. |
| `DocumentRevisionsProofs` | sentinels outside their sets, uploads are no deletions, `MaxRevision` positive | `TypeCorrect`, `ChunksCurrent`, `HistoryComplete`, `DeletionIsComplete` | Neither property is inductive without the other. `InTime`: the number an upload carries is at most the next one, and while it is the next one the upload has seen, and then deleted, every chunk of the document. A complete history makes any number that is free and at most the next one *be* the next one, so the unique key alone keeps late uploads out. `DeletionIsComplete` rests on the cascade of the foreign key. |
| `CodeSnapshotsProofs` | `Importer` and `Deleter` disjoint; then none for `TypeCorrect`, `HeadsVerify` and `DoubtlessSnapshotsUntouched`; `"in_doubt" \notin Faults` for `ActiveSnapshotsUntouched`; `Faults = {}` for the others | `TypeCorrect`, `HeadsVerify`, `DoubtlessSnapshotsUntouched`, `ActiveSnapshotsUntouched`, `SnapshotsStayWhole`, `PinsHold`, `SnapshotsImplementStore` | `LockInv`: whoever works holds the lock, what is being removed is not registered *or in doubt*, a promoted directory verifies. It holds with every fault, so a commit in doubt costs its own snapshot at most. With no faults `WholeInv` adds that a torn directory is being removed right now, and the refinement maps `Persist` to `Publish`, `DeleteRows` to `Delete` and every other step to a stutter. |
| `KnowledgeAgentProofs` | positive budgets, sentinels outside their sets, the user's wording is one of the planner's | `TypeCorrect`, `LateEventsBounded`, `BudgetsHold`, `GuardsHold`, `StreamComesToAnEnd` | `TypeInv` adds that a part is sent only while there is one and that an investigation starts with something to spend. `LateInv`: after something was sent late, every place that sends is only reached through a check that has read the authorization as it is (`Checked`), but for the reranker. There either documents may still be read (`Settled`), or something found is no longer authorized (`Stale`); then its request is the second and last thing that is late, and the next checkpoint ends the stream. `BudgetInv` follows an investigation through its rounds. `TargetInv`: what is being acted on was on offer, and an investigated project was allowed when it was chosen. `StepsLeft` counts what is left of the rounds, of the place the agent is at and, with `BudgetInv`, of the investigation under way; `TurnInv` bounds what a round of it can still do. Every step lowers it. |
| `AnswerProofs` (on top of it) | the same | `IdsStayApart`, `DepartmentsStayApart`, `AnswersAreSupported` | `IdsInv` ties every id to the counter it was drawn from and says that a call under way has a number no evidence has. `ReadyInv`: approval is only followed by writing. `GateInv` keeps, from the gate on, that every claimed id has a sound, usable result (here ids must be unique); `WriteInv` that what is written is part of the claims and within the projects last read, and that what is shown cites all their evidence and, besides it, their wordings' ids only. |
| `PassagesProofs` | `MaxCandidates <= 61` for `CandidatesStayDiverse` only | `TextsStayWhole`, `SharesAreKept`, `CandidatesStayDiverse`, `ContextKeepsToBudget`, `LoopsComeToAnEnd` | One invariant for each loop. `SplitInv`: what lies before the next window is covered, and every window so far ends early enough for the next one to end after it; the rule that a cut lies in the second half of a window is what makes that so. `SearchInv`: every candidate is before all hits that are pending, and a hit that had its turn is in or its document has its share; no transitivity of the order is needed. `ExpandInv`: what was seen is what was taken, so a hit that is skipped has an earlier one of its parent. |

The theorems hold for any number of accounts, workspaces, requests, sessions, codes, commits, jobs, readers, documents, files, projects,
departments, wordings, tool calls, changes, hits and characters. The bound of 61 is exact: with longer lists a hit at place 62 of both has
the score of a first place in one list. `RERANKER_CANDIDATE_LIMIT` is 20 (`config.py:24`) and nothing checks it, so a larger setting loses that
part of the order; shares and reasons are proved without the bound.

TLC alone checks `LockIsReleased`, `OrphansGo` and `StreamEnds`: liveness under fairness is beyond the prover. What is proved of ending is that
every turn of the loops of `Passages` gets closer to it (`LoopsComeToAnEnd`), and that a question takes the server a bounded number of steps
whatever the planner, the models, the tools and the authorization do (`StreamComesToAnEnd`: `StepsLeft` is a natural number that every step
of the agent lowers and no other step changes). That the agent always has a step until the stream is closed is left to `StreamEnds`.

## 6. What is not modelled

- CSRF tokens, cookies and hashing (comparisons of secrets); rate limits (each a single atomic step); the audit trail (best-effort
  inserts nobody reads); schema creation, settings, probes and error formatting.
- Parsing (Tree-sitter, SCIP, Markdown, PDF) and the split of documents by their structure; SQL conditions, embeddings, the
  reranker's scores; prompts and what models answer; the front end and the evaluation scripts.
- Code that no endpoint reaches: `_legacy_chat`, `_legacy_chat_stream` (`main.py` 1597 to 2130), `hybrid_knowledge_stream`
  (2634 to 2835), `_with_agentic_dispatch_trace` (168), all of `adaptive_retrieval.py` that only these use, and the branch of
  `_code_wiki_evidence_stream` that writes an answer of its own (1494 to 1547).
- In the agent: a client that disconnects (the generator is closed where it stands); the permissions of a single document, which the code
  does not read again after the search; what an investigation sends to its own model, which is not counted as
  late (each round reads the authorization first), nor is the query that is embedded. A refusal after the final refresh may end as
  `AUTHORIZATION_REVOKED`, since the check before `done` then fails too; the model does the same.
- Staging directories carry random names nobody else reads. An advisory lock lost with its database session is listed as a
  hazard and not modelled, nor is `scan_code_project` for server paths, which is off by default, nor the report of a batch deletion, nor
  the repair script, which runs with the server stopped.

## 7. Plan

What is left, in this order:

1. Several questions at once that share one user's session, composed with `AuthSessions` in place of `EndAccess`.
2. The search as a reader of documents that are replaced and invalidated while it runs (`db.py:745`).
3. The batch deletion with its audit trail, and the repair script as a third holder of the snapshot lock.
