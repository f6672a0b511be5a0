# Terfyn in TLA+

Terfyn runs LLM agents behind a reviewed capability boundary. A project declares agents, tools, policies and
workflows; `plan` and `apply` deploy them, `run` executes a workflow locally, pausing for a person where the
policy asks for one, and every run leaves a hash-chained trace. This directory holds TLA+ models of the parts of
that program whose correctness depends on interleaving, failure, replay or translation, the TLC configurations
that check them on small instances, and TLAPS proofs, for instances of every size, of the safety properties of every
part but the language; forks, graphs and effect edits under hypotheses named with the [proofs](#proofs).

The reference is the code under `src/`; paths below are relative to `src/internal/` unless they start with
`docs/`. `PROJECT.json` maps each definition to the lines it translates.

Contents: [The system](#the-system) · [Modules and the code](#modules-and-the-code) · [Runs](#runs) ·
[Bounds](#bounds) · [Fairness](#fairness) · [Proofs](#proofs) ·
[Where the code and its documents disagree](#where-the-code-and-its-documents-disagree) ·
[Not modelled](#not-modelled) · [Plan](#plan)

## The system

| component | state it keeps | operations | what is hard | what makes it correct |
|---|---|---|---|---|
| run lifecycle: `runtime/local`, `engine/execution.go`, `engine/hitl.go`, `cli/run.go`, `state/sqlite/{runtime,checkpoint}.go` | `runs` row, latest checkpoint, what a process remembers of its operator's decision | Invoke, Resume, claim, load, resolve, save, interrupt, finish, fail, prune | processes interleave at every statement and die anywhere | one executor per run, no gated call made twice, an interrupted run can be answered, a finished run stays finished |
| execution IR interpreter, concurrency: `execir/interp.go` (`execGraph`, `execFork`, `execLoopParallel`), `engine/execir_invoker.go` | goroutines, session memo, suspend flag, the one suspension cause of the attempt and of its checkpoint | schedule, invoke, gate, suspend, fail, time out, cancel, join, checkpoint, resume | branches pause, fail and finish in any order; only one cause fits in a checkpoint | resume neither loses nor repeats work; success means all of it was done; the run ends |
| execution IR interpreter, control flow: `execLoop`, `execWhile`, `execRetry`, `execBranch`, `invoke` | scope, iteration indices, memo, control records | walk, record a decision, replay it | a resume walks again from the start through nested loops | the walk returns to where it paused, by the same decisions, within the same bounds |
| steps: `engine/{steps,cost,retries,timeout,agent_tools}.go`, `policy/budget.go` | shared cost, wall clock, an agent's turn and pending calls | admit, complete, call a tool, retry, commit, expire | steps run side by side under one budget; models and tools hang, fail, or ask for too much | joint overspending never succeeds, caps and grants hold, every step ends |
| trace and audit: `trace`, `audit`, `state/sqlite/runtime.go` | rows of a trace with their hashes | append, verify | several writers; rows older than the chain; changes behind the program's back | what was written verifies, what verifies was written |
| deployment: `plan`, `apply`, `deploy`, `state/sqlite/artifact_ops.go`, `runtime/local/{prepare,snapshot}.go` | applied rows, current snapshot, snapshots and artifacts, runs' pins | plan, apply, no-op apply, pin, collect, hydrate | a plan ages while it is read and confirmed; a process that starts a run collects between the puts of another that does, and the reference to them | a plan is applied exactly or not at all, runs resume on the configuration they started with |
| policy merge: `policy/stricter.go`, `policy/hitl*.go` | the policy in force down a stack of calls | merge, ask what an operator may decide | sentinels and zeros that mean "unset" in one place and "nothing" in another | decisions intersect, denials hold, ceilings are the tightest |
| policy snapshot: `policy/snapshot.go`, `config/resolved.go`, `engine/policy_eval.go`, `cli/policy_snapshot.go` | two files under `.agentic/`, the pinned configuration | write, compare, pin, look up, resume | two files, no lock, no rename, read again at every workflow | a resumed or undisturbed run decides by what it pinned |
| policy evaluation, compilation, lint: `policy` | none | evaluate a tool call, a decision | two evaluators must agree | not modelled; see [Plan](#plan) |
| tools: registry, MCP and HTTP clients: `tools/{registry,mcp,http}` | a server per attempt, the outstanding request, the retry count | dispatch, start, initialize, call, read, close, back off, retry | lines meant for nobody, ids that collide, a server that goes silent or dies, a status that hides an answer, a request delivered twice | an answer goes to its own request, an answered request is not repeated, no call waits for ever |
| external runtimes and MCP server: `runtime/{agentcli,claudecode,gemini,mcpserver}` | the run row, the listener, handlers, the session's cost | start, open, dispatch, settle, shut down, finish | an agent posts calls at any time and ends at any time; arguments are cut before they are checked; appends to the trace fail; output, exit status and cost disagree | what a tool receives is what was checked, its trace says so, nothing runs on once the row is finished, the row says what happened and what it cost |
| formatter: `cli/fmt.go`, `lang/{lexer,parser,printer}*.go` | the file | read, parse, print, write | recovery from errors; comments attached by line | the formatted file is the same program, with its comments, and at rest |
| compiler: `lang/{check,lower}`, `execir`, `spec`, `effects`, `plan` | the deployed rows and programs | parse, check, lower twice, validate, bound, plan, apply, run, edit | what is reviewed (the projection, its bound, the plan) and what runs (the execution IR) are made separately | the run is the program as written and within what was reviewed |
| model providers: `models` | none | complete | transient failures | modelled as an environment |
| native tools, trace redaction, configuration files, command line, rendering, inspector, telemetry, test kit | | | | see [Not modelled](#not-modelled) |

**How they interact.** `cli` calls `runtime/local`, which pins a deployment snapshot, writes the run row and
starts `engine`. The engine lowers nothing at run time: it drives `execir.Interp`, which calls back into
`engineInvoker` (the `Invoker` interface) for every leaf, on one goroutine per branch. The invoker evaluates the
policy in force, writes step rows and trace events, calls models and tools, and records the suspension cause of
the attempt. The interpreter's verdict makes the engine finish the run, fail it, or checkpoint and interrupt it.
A workflow of one agent may be run by an external CLI instead: `runtime/agentcli` serves the agent's grants over a
loopback MCP server, whose handlers call the tools through the same registry. Programs come from `.agent` files:
`lang/lower` makes of each workflow resource steps, which `spec` validates, `effects` bounds and `plan` shows, and an
execution-IR program, which `apply` pins and the engine runs.
Processes share nothing but the SQLite database and the two files under `.agentic/`.

## Modules and the code

| module | models | state ↔ code |
|---|---|---|
| `DurableRun` | what a durable run promises (S7 of `docs/SOUNDNESS.md`): each call at most once, in order, a gated one only under a decision on the gate that was asked about, any number of pauses | abstract; implemented by the next two |
| `Invoker` | the invoker's suspension slot: `setPendingIfFirst`, `setNestedIfFirst`, `claimPending`, `claimNestedSeed` | a slot is `pending`/`nested`, a seed `pendingSeed`/`nestedSeed`; `EXTENDS`ed by both interpreters |
| `ExecGraph` | `execGraph` over `engineInvoker`, checkpoint and resume | `thr` the goroutines, `memo` `session.memo`, `inner` the child session's memo, `slot`/`seed`, `cp` the checkpoint |
| `ExecFork` | `execFork`/`execLoopParallel`, nested once, with `classifyConcurrent` | as above, per branch and inner branch |
| `ExecControl` | the sequential walk of two nested loops of any kinds, its keys and its replay | `at`, `idx`, `scope` the walk, `memo`/`control` the session |
| `RunLifecycle` | the run row and checkpoints under several processes | `row`, `cp` the store; `pc`, `job`, `shown`, `answer`, `pos` a process |
| `ExecGraphProofs`, `ExecForkProofs`, `ExecControlProofs`, `AgentLoopProofs`, `DeploymentProofs`, `ExternalRunProofs` | nothing: the theorems of the module in the name, see [Proofs](#proofs) | |
| `RunStoreProofs` | nothing: the theorems of `RunLifecycle` and of `AuditChain`, whose specification is `ChainSpec` so that both can be extended | |
| `PolicyProofs` | nothing: the theorems of `PolicySnapshot`, of `PolicyMerge`, whose specification is `StackSpec` for the same reason, and of `EffectPermits` | |
| `AgentLoop` | concurrent leaf steps against one budget and clock | `pc`, `turn`, `acc`, `calls` a step; `total` `liveCost`; `base` the cost it was admitted with |
| `AuditChain` | `AppendTraceEvent`, `VerifyRunChain` | `rows` a trace; a hash is the sequence of all that was hashed into it |
| `Deployment` | plan, apply, pin, collect, hydrate | `applied`, `current`, `snapshots`, `artifacts`, `runs`; `proc` what a process has planned or put; ghosts `raced`, `risky` the starts that another's delete fell into |
| `PolicyMerge` | `StricterOf` along a chain of workflow calls, and what an operator may do under the result | `frames` the call stack, each with its own and its merged policy |
| `ToolClient` | `tools/registry.go`, `tools/mcp`, `tools/http`: one call over any transport, its attempts and its server | `at`, `attempt` the retry loop; `server`, `wire` the current attempt's: a child read line by line, or a POST whose response (status and body) is read whole; ghosts `sent`, `settled` |
| `ExternalRun` | `runtime/agentcli` with both drivers and `runtime/mcpserver`; `EXTENDS ToolClient` | `row`, `phase`, `agent`, `door`, `graceOver` the run and its shutdown; `stage`, `ask` a handler and its arguments as the input limit left them; `events`, `lost` the call's trace and its failed appends; `session`, `charged` what was parsed |
| `LangSyntax` | tokens, lines with comments, trees: `token.go`, `lexer.go`, `ast*.go` | |
| `LangParser` | `parser.go`, `parser_resources.go`, with recovery | a parser is tokens, position and "has a diagnostic" |
| `LangPrinter` | `printer.go`, `printer_resources.go`, `printer_comments.go` | a printer is its lines, the comment index and the comments written |
| `Formatter` | `terfyn fmt` on a file, twice | `disk`, `parsed`, `outcome` |
| `LangLower` | `lang/lower`: resource steps and execution IR | operators |
| `LangCheck` | `lang/check`, schema lookup, assembly of graph and programs | operators |
| `ExecProgram` | `execir` as data: evaluation, wire form, digest, invocation bounds | operators |
| `EffectPermits` | what one policy's effect lists accept (`effects/enforce.go`), and the plan's items for a change of them (`plan/risk.go`); without recursion, so that it can be proved about | operators |
| `Effects`, `Validate` | `effects`; `spec/{refindex,resolve,workflow_graph,workflow_calls}.go` | operators |
| `PlanRisk` | `plan/{planner,risk,effects,workflow_hash}.go` | operators |
| `LangMeaning` | nothing: a reference that evaluates the tree itself, against which `Compiler` is checked | |
| `Compiler` | parse, check, validate, plan, apply, edit, run; composes the ten above | `source`, `stage`, `unit`; `applied`, `pinned` the store; `run` |
| `PolicySnapshot` | the two files and every reader of them | files with their torn states; a runner's pin and the configuration each lookup used |

The `MC*` modules hold the small instances. In every module an action is one operation of the code: a statement
or transaction of the store, an atomic section under the interpreter's or the invoker's mutex, a call leaving the
process, its return. Comments headed "Mutant" mark altered forms of the definition that follows; each is a
plausible slip in that code that the property named in `PROJECT.json` must notice.

Choices worth knowing:

- A process is not atomic anywhere the code is not. `Resume` is four steps (read-only checks, claim, start of the
  engine, load), and saving a checkpoint and updating the row are two.
- A tool call, an agent call and an approval are one kind of leaf to the interpreter. A subworkflow's body is a
  straight line of `Body` leaves, which is where a nested frame differs from a direct gate.
- A failed call in `ExecFork` and `ExecGraph` may be a genuine error or a deadline of its own; `isCanceled`
  cannot tell the latter from a sibling's cancel, and the models keep that confusion.
- The model provider and the tools in `AgentLoop`, SQLite's isolation in `AuditChain` and edits of the database
  file are external: modelled from how the code uses them, any answer allowed.
- Digests (SHA-256) are injective; what is joined into one before hashing is joined in the model too.
- The servers of tools and the external agent are external: any line, in any order, at any time, or none.
- A source text is lines of tokens with at most one comment each. The parser's many block productions have one
  control structure and are one operator over tables of fields. What a production reads is in `LangParser`, what it
  drops in recovery too; only wording of diagnostics is left out.
- The compile path has two readings of one source. `LangMeaning` is what the author wrote, and shares nothing with
  the code's path but arithmetic; `Compiler` compares it with the program after lowering, rebinding, projection,
  pinning and reading back.

## Runs

Twelve runs, with 40 properties; the times are TLC's with two workers.

| run | instance | what it shows |
|---|---|---|
| `graph` (17 s) | six nodes: a step with a deadline, a gate behind it, two gated subworkflow calls and an ungated one, a join; three slots; all four operator options | the graph, the invoker and the checkpoint implement `DurableRun` (`Refines`); nothing returns twice, and success has exactly one result of everything (`OneResultEach`); the run ends (`Settles`) |
| `fork` (8 s) | three branches on two slots: inner fork with a gate and then a gated call; a gated call; a subworkflow whose second leaf is gated | `Refines`: a pause loses nothing that was dispatched and asks about something that was not; `Settles` |
| `lifecycle` (21 s) | three processes, one run, two gates, approve/reject/none/auto-approve, store errors, crashes and pruning | `SingleExecutor`, `EffectOnce`, `FinishedStays`, and `IndInv`, the invariant the proofs use beside the type invariant |
| `control_flow` (16 s) | all nine nestings of for, while and retry, with a gate inside and a return out of both | no address is dispatched twice (`EffectOnce`), a replay comes back to where it paused and the divergence guard stays silent (`ReplayFaithful`), `Terminates` |
| `agent_steps` (60 s) | an agent with tools, one without and a tool step; budget 4, two turns, up to two calls a turn | joint overspending never succeeds and a step overshoots once (`BudgetHolds`); grants, fatal errors and the last turn (`FailsClosed`); `StepsEnd` though models and tools may hang |
| `audit_chain` (17 s) | two processes, three rows, one from before chaining, two edits | what the program wrote verifies (`WrittenVerifies`); what verifies, sequence numbers of 0 aside, is what it wrote (`VerifiedIsWritten`) |
| `deployment` (2 min) | two processes that both plan, apply, start the run and collect; three configurations, one run, whose row is pruned and started anew | an unfinished run hydrates from its pin though others apply, start and collect at the same time, unless a delete fell between its own puts (`SurvivingRunsHydrate`); `OneConfigPerRun`, `PlanIsExact` |
| `policy_merge` (4 s) | every chain of up to three out of 48 policies | decisions intersect and denials hold (`ReviewNeverWidens`), `TightestCeilings` |
| `policy_snapshot` (9 s) | two writers, one runner with a resume, two configurations, torn files | `ResumedFromPin`, `UndisturbedFromPin` |
| `external` (165 s) | one call at a time over any of four transports, two attempts, three lines per child, any status and two messages per response, both drivers | an answer is its own request's (`OwnAnswer`), an answered request is not delivered again (`AnsweredNotRepeated`), a tool receives granted arguments that schema and policy accept as they are after the limit, and the trace tells of it unless an append failed (`Audited`), nothing is under way behind a finished row unless the shutdown's grace ran out (`FinishedQuiet`), the row's status and cost are the session's (`OutcomeHonest`), calls end (`CallsEnd`) |
| `format` (10 s) | files of every declaration with comments on their lines, a header with effects and its brace below included; expressions of four operators in every grouping but a comparison of a comparison; files with a token, two tokens or a line missing or doubled | the printed file is the same program (`MeaningKept`); every comment is kept once and in its declaration, or at file scope from the two layouts `MayLeave` names (`CommentsStayHome`); fmt is at rest after one pass (`Idempotent`); what is not refused is written back word for word, whatever recovery skipped (`NothingDropped`) |
| `compile` (23 s) | 1023 files: a binding, a statement (nested or not) and a return, over a tool, an agent and two called workflows, and one project in its versions; every input and sequence of answers of a small set; one edit | the run is the program as written (`RunsAsWritten`) and reads no unbound name (`NoUnboundRead`); what it does was permitted (`PerformedWasPermitted`), within the invocation bounds (`WithinInvocationBounds`); an empty plan means nothing changed (`SilentPlanRunsSame`), and what is new was reported (`WideningWasReported`) |

`lifecycle` does not check for deadlock: when every process is dead or its operator has gone away the system stops.
Everywhere else a state without a successor would be an error; a finished run has an explicit stuttering action.
The modules with state keep a type invariant (`TypeOK`, `StackTypeOK`, `ChainTypeOK`), which the proofs establish; the
runs spend their properties on the others.

## Bounds

- *Ghost counters* count to two (`Twice`): the second dispatch is already the violation.
- *Graph and fork size.* A checkpoint holds one cause, direct or nested, and the slot rules compare two, so the
  cases are pairs of {direct, nested} gates meeting in one attempt, before or after a predecessor, with an
  ungated sibling still in flight. The six-node graph has all of them (two nested frames too, where the second is
  refused); three slots let three of its nodes be in flight at once and make the others queue. Subworkflow
  bodies of two leaves are the least that can pause with a non-empty memo. In `fork`, two slots for three branches
  force a launch after a pause. No bound is put on the number of pauses; the gates bound it.
- *Loops.* Limits 2 and 3 around a global cap of 2 make the authored limit bind in the outer loop and the cap in
  the inner; collections of length 0 to 3 straddle the cap.
- *Lifecycle.* Two gates give a stale decision something to be stale about; three processes are one that holds the
  run, one racing it and one that comes later. Processes are interchangeable (symmetry, safety only).
- *Agent steps.* Two turns are a turn with calls and a last one; unit prices with budget 4 let two steps exceed it
  jointly though neither does alone; the clock runs one unit past the deadline.
- *Audit.* Three rows are a tip, a middle and one to append; two edits can exchange two rows.
- *Deployment.* Two of the configurations share a manifest artifact and the third has no tool, so artifacts are
  shared, exclusive and absent. Two processes are a starter and a collector that is a starter too; processes
  are interchangeable (symmetry, safety only). 4.3 million states.
- *External runs.* `MaxAttempts` 2 is a first attempt and a retry. `MaxLines` 3 is noise or a colliding request, an
  answer, and a late line behind it; `MaxUnread` 1 makes the server wait for its reader. `MaxBody` 2 is a stream with a
  message that is not the answer before or after one that is; of the statuses each class that is told apart has one
  (200, 202, 400, 500). Costs 0 and 2 around a budget
  of 1. One call keeps `CallsEnd` within minutes; calls share only the listener, whose shutdown waits
  for all of them. The invariants are proved for any number of calls.
- *Formatter.* Each declaration kind and each block of it occurs in some file, each line once with a comment, each token
  once missing and once doubled (two in a row are a field with its value). Three
  operands give both groupings of any two operators; the fourth precedence level adds none.
- *Compiler.* `MaxLoopIterations` and `MaxWorkflowNesting` 2 (1000 and 8 in the code) are reached by the loops and
  calls of the files; `MaxInt` 1000 stands for Go's largest int, at which the bounds saturate. One edit is enough for a
  plan against a deployed version; `Versions` has a file for each kind of resource change.
- *Policies.* Decision lists unset, singleton, disjoint and overlapping; budgets and ceilings unset, below, at and
  above the default of 3 (the code's constant is larger; only its order to the others matters).

## Fairness

`ExecGraph`, `ExecFork` and `ExecControl` assume that Go eventually runs a runnable goroutine, that a call in
flight comes back somehow (a result, an error, a cancel), and that an operator answers an interrupted run. Which
answer is not assumed. `AgentLoop` assumes that steps run, that time passes, and that a context's deadline fires;
nothing there makes a model or a tool answer, which is the point of `StepsEnd`. `ExternalRun` assumes that the run
(its shutdown and the end of the grace included), its handlers and its clients take their steps, and that a context
ends when the agent that held the connection is gone; nothing makes a server answer or the agent end.
`RunLifecycle`, `AuditChain`, `Deployment` and `PolicySnapshot` assume no fairness and claim no liveness: a process
may die at any point, and the code has no repair for a run left `running` by one that did.

## Proofs

Eight modules hold theorems. Each holds for every value of the constants that the assumption named satisfies; where
a theorem has a hypothesis besides, it is in the statement. The assumptions are evaluated by TLC in the runs.

| module | theorem | states | assumptions |
|---|---|---|---|
| `RunStoreProofs` | `Invariance` | `Spec => [](TypeOK /\ IndInv)` | at least one gate; the four decisions |
| | `TypeCorrect`, `PausesAreDurable` | `Spec => []TypeOK`, `Spec => []InterruptedPresents` | |
| | `OneExecutor` | `Spec => []SingleExecutor` | |
| | `NoDuplicateEffect` | `Spec => []EffectOnce` | |
| | `FinishedIsFinal` | `Spec => FinishedStays` | |
| | `WrittenIsVerified` | `ChainSpec => []WrittenVerifies` | any processes, runs and data; any numbers of rows and edits |
| | `VerifiedWasWritten` | `ChainSpec => []VerifiedIsWritten` | of runs without a hashed row numbered 0 |
| | `ChainTyped` | `ChainSpec => []ChainTypeOK` | |
| `ExecGraphProofs` | `NoEffectTwice` | `Sheltered /\ Spec => []EffectOnce` | a finite graph of any shape, bodies of any length, any gates and deadlines, any positive number of slots |
| | `OneResult` | `Sheltered /\ Spec => []OneResultEach` | |
| | `ImplementsDurableRun` | `Sheltered /\ GatesWait /\ Spec => Refines` | |
| `ExecForkProofs` | `NoEffectTwice` | `Shielded /\ NoDeadline /\ Spec => []EffectOnce` | finitely many branches, inner forks and bodies of any length, any gates, any positive number of slots |
| | `SucceedsComplete` | `Shielded /\ NoDeadline /\ Spec => []SuccessComplete` | |
| | `ImplementsDurableRun` | `Shielded /\ NoDeadline /\ Spec => Refines` | |
| `ExecControlProofs` | `TypeCorrect` | `Spec => []TypeOK` | loops of the three kinds, any limits, a positive global one; values are numbers |
| | `DispatchedOnce` | `Spec => []EffectOnce` | |
| | `ReplaysFaithfully` | `Spec => []ReplayFaithful` | |
| `AgentLoopProofs` | `TypeCorrect` | `Spec => []TypeOK` | any steps of the three kinds, a positive cap; among the prices there is a dearest |
| | `BudgetKept` | `Spec => []BudgetHolds` | |
| | `ToolsFailClosed` | `Spec => []FailsClosed` | |
| `DeploymentProofs` | `TypeCorrect` | `Spec => []TypeOK` | configurations are functions on the resources, none of them empty |
| | `ExecutesOneConfig` | `Spec => []OneConfigPerRun` | |
| | `UnfinishedHydrate` | `Spec => []SurvivingRunsHydrate` | any number of processes that start runs and collect |
| | `AppliesExactly` | `Spec => PlanIsExact` | |
| `PolicyProofs` | `TypeCorrect` | `Spec => []TypeOK` | every configuration has the root workflow's policy |
| | `ResumesFromPin` | `Spec => []ResumedFromPin` | |
| | `QuietRunsFromPin` | `Spec => []UndisturbedFromPin` | |
| | `MergeTyped` | `StackSpec => []StackTypeOK` | any policies of the type, any nesting limit |
| | `CeilingsTightest` | `StackSpec => []TightestCeilings` | |
| | `ReviewIsStrictest` | `StackSpec => []ReviewNeverWidens` | |
| | `NewlyAcceptedIsTold` | what an edited policy newly accepts is reported, or asks | effect names are sequences; the approval mode is not edited |
| `ExternalRunProofs` | `TypeCorrect` | `Spec => []TypeOK` | any calls and costs; at least one attempt |
| | `EndsByOwnAnswer` | `Spec => []OwnAnswer` | |
| | `NotRepeated` | `Spec => []AnsweredNotRepeated` | |
| | `CallsAudited` | `Spec => []Audited` | |
| | `QuietWhenFinished` | `Spec => []FinishedQuiet` | |
| | `HonestOutcome` | `Spec => []OutcomeHonest` | |

The hypotheses are those under which the code keeps its promise; the next section has the counterexamples without.

- `Sheltered` (`ExecGraphProofs`): no callee is cut short by another step's pause. A subworkflow call whose leaves have
  a deadline is the only step with gates. To one with a gate behind its first leaf every gate is `Harmless`: the callee
  is launched no later than the gate's step, that step completed before the callee began, or it is itself a callee
  launched no later. All three are stated with `Above`, the steps a step needs directly or through others, as the least
  set closed under needs. The graph of the run `graph` is `Sheltered`.
- `Shielded` (`ExecForkProofs`): a subworkflow call with a gate behind its first leaf comes first in its branch; or
  every gate is of its own branch, or of a subworkflow call that comes first in its own. The fork of the run is.
- `NoDeadline` (`ExecForkProofs`): no call is given up at a deadline of its own, which the join of a fork takes for a
  sibling's cancel.
- `GatesWait`: no gated call has a deadline. Without it a call that was given up is asked about and made again, which
  `DurableRun` does not count as one call.
- The approval mode (`NewlyAcceptedIsTold`): `permissive` and `requireAllTools` stay as they are; the plan says nothing
  of a change of these two.

The arguments. Each module states its inductive invariant at the top, and its proof has a lemma per action, with a step
for each conjunct that the action can disturb.

*Run lifecycle.* `EffectOnce` alone is not inductive: a process about to apply an approval would have to know that
its position is fresh. The row is what protects it: whoever holds a run (from `StartRun` or the claim until it
lets go) sees `running`, and the compare-and-set of `ClaimRunForResume` succeeds only on `interrupted`, so there is
one holder (`SingleExecutor`). `HolderInv` says what a holder relies on: the row is its own, and its position, or
the checkpoint it has not loaded yet, counts exactly the calls made so far. `InterruptedPresents` carries that
knowledge across the gap in which nobody holds the run: the checkpoint that is the latest when the row becomes
`interrupted` is the one the pause wrote. It survives the best-effort writes of `failRun`, since only a holder
makes them. An absent row with no calls made covers `Invoke`; `SucceededRan` comes along. `IndInv` is the
conjunction; TLC checks it in the run `lifecycle`. `FinishedIsFinal` follows from `HolderInv`: every write to a row is
made by a holder or a claim, and neither finds a finished run.

*Graph.* `Progress(n)` is how far node n has come, wherever that is recorded: in the memo, by its goroutine, or in the
frame a resume will start from. A leaf has returned once if its node has come past it and never if not (`Results`), and
one that was dispatched has returned, is in flight or ended the run (`Dispatches`). `Kept` says that a checkpoint loses
nothing: `Progress` is what the checkpoint says. The one way to lose something is a seeded frame that was not taken up
before another gate paused the graph. `Carried` excludes it for `Sheltered` graphs: when a callee's frame is
checkpointed, the steps above it and the other callees launched with it are in the memo, and none of them can pause
again. Chains of needs take no induction: the completed steps are a set closed under needs, since a step is launched
only when what it needs has completed, so the least such set is within it (`AboveDone`). The refinement maps
`DurableRun`'s calls to the leaves and its counts to the dispatches; every action is a step
of it or a stutter.

*Fork.* The same measure, per branch and inner branch, with two levels of joins. `Begun` and `Settled` say what a branch
behind an inner fork may rely on: a failed inner leaf strikes the whole run, so if the run is not bound to fail, every
inner leaf is recorded (`Begun`) or some are suspended (`Settled`). A join reads the session-wide suspend flag, so a
branch whose inner fork is complete may still be stopped before its call, with a frame it has not taken up;
`NobodyAsks` shows that in a `Shielded` fork nobody else can ask while a frame waits, and with that `Kept` and
`Carried` are inductive. TLC checked the invariant on the run's instance and on two others before it was proved.

*Control flow.* `EffectOnce` needs that every dispatched address is in the memo, and the checkpoint's memo is all of it
(`MemoHolds`). `ReplayFaithful` relates two walks. The invariant `Traced` says that the walk is somewhere on a history: a
sequence of states from the first node on, each of which follows from the one before by the results in the memo, such
that everything recorded (results and control decisions) was recorded in passing one that is not the last. `Before`
orders states by iterations and places; the walk only goes forward (`NextLater`), and two states with one address are at
one place (`KeysDiffer`), so an address occurs once in a history. It follows that a replay finds its own results and its
own decisions (`SameDecision`: the divergence guard is silent), and that at the end of the history, and there only, a
call has no result (`EndIsFresh`, `BehindIsKnown`): that is where it paused. A resume goes back to the first state of
the same history.

*Agent steps.* While a step is in its loop the cost it was admitted with and its own are within the budget, since the
check comes before each call (`Spent`); the last one may overshoot. Calls are in flight below the cap only, and the
call in flight is the last one of the log (`Placed`), so an error that is fatal has nothing behind it (`Closed`).

*Audit chain.* A transaction's reads are current as long as nothing was committed since (`Reads`), which is what makes
an append extend the chain it read (`AppendSound`). What is behind the program's back moves, removes or alters rows and
makes no hashes (`Stored`, with one lemma for each kind of edit). `SoundIsChain`: a row that verifies carries the hash of
all events since the first hashed one, so the last is one whose whole chain was written. The steps from row to row are
made without an induction rule, by the least row for which the claim would fail (`Least`). `Ok` is that `BrokenSeq` is
0, and `BrokenSeq` is the number of the first row that breaks the chain; where no hashed row is numbered 0 (`ZeroIsBare`;
`AppendTraceEvent` never gives that number) the two say that no row breaks it. `ChainTyped` adds the order
of rows: an append continues from the last number, and a row added behind the program's back has the rows below it in
front, since in ordered rows those are the first ones, as many as `Below` counts (`BelowSplits`).

*Deployment.* A run's row keeps the digest it started with, and a collection passes over what unfinished rows refer to.
Between the puts and the row, `PinKept` says that what a process has put so far is there (`Kept`), as long as no other
process has deleted since: a put adds, and what is applied, started or finished elsewhere removes nothing (`Harmless`).
A delete in that interval is the race that `SurvivingRunsHydrate` names; it marks the process, not the outcome.

*Policies.* A run's pin, once made, is the configuration it compared (`FirstAttempt`), and a resume looks nowhere else.
Of the merge, the invariant speaks of every frame of the stack and not the top one alone, since a return makes another
frame the top; merging one more policy into the strictest of a set gives the strictest of the larger set
(`StrictestMerged`). Of an edit, covering names are prefixes: a permitted name that no old one covers is reported, and
if an old one covered it, it would cover the effect too (`CoversOn`).

*External runs.* Of a call: requests were sent in attempts up to the present one, and an answer that settles it ends it
(`Attempts`); of a response that is the first message of the body that matches (`FirstIsMatch`). Of the run: what is
open, charged and recorded, by the phase `Invoke` is in (`DoorInv`, `LedgerInv`), and that behind the shutdown no
handler is left or its grace is over. Of a handler (`HandlerInv`): what is known of its arguments and what the trace has,
by the stage it is in, so that the one place where a call leaves finds both checks done on the arguments that leave.

Only model-checked: liveness (`Settles`, `Terminates`, `StepsEnd`, `CallsEnd`), which is beyond the prover; and the
invariants of `Formatter` and `Compiler`. The language modules are recursive over trees (`RECURSIVE` operators), so
what they compute for every program is out of the prover's reach and stays with TLC; what of the plan needs no
recursion is in `EffectPermits` and is proved about.

## Where the code and its documents disagree

The passing runs use instances, or state properties, that these do not touch. Each is TLC's counterexample to the
property, under the configuration with the changes named:

- `ExecGraph.cfg` with the `Late...` definitions of `MCExecGraph`, `Sub = {w}`, `Timed = {}`, `MaxConc = 2` and
  `Options = {"approve"}`: `EffectOnce`. `suspendExecIR` (`engine/execir_invoker.go:858`) checkpoints the
  frame of a subworkflow that paused in this attempt, not one the attempt was seeded with and has not claimed. A gate
  that suspends the graph before that subworkflow is scheduled again drops the frame, and the next resume repeats its
  completed leaves. `docs/SOUNDNESS.md:112`: "must **not be reissued** during replay"; `docs/DESIGN_DOC.md:935`.
  `Sheltered` excludes this graph.
- `ExecFork.cfg` with `Branches = 2`, the `Plain...` definitions of `MCExecFork` and `Outcome = {"canceled"}`:
  `SuccessComplete`. `classifyConcurrent` (`execir/interp.go:343`) passes over a
  call's own timeout as over a cancelled sibling; with no other error the fork succeeds without that call. The comment
  at `:334` speaks of "a sibling abandoned by a real failure's cancel".
- `Deployment.cfg`: `NeverOrphans`. A run's artifacts, its snapshot and the row that refers to it are written in
  transactions of their own; another process that starts a run collects in between
  (`state/sqlite/artifact_ops.go:108`), in a behaviour of eight states. `SurvivingRunsHydrate` leaves out exactly the
  starts that a delete fell into. `runtime/local/prepare.go:63`: "it can never orphan an artifact a surviving run
  still needs to resume".
- `RunLifecycle.cfg` with `Proc = {p1, p2}`: `DecisionMatchesGate`. A decision is applied to whatever gate the latest
  checkpoint presents (`engine/hitl.go:55`). `cli/run.go:352`: "it resolves exactly the gate that was presented".
- `Formatter.cfg` with `Sources <- RestlessSources`: `Idempotent`. `(a == b) == c` is printed as `a == b == c`, which the
  parser refuses: comparisons do not associate, and `printBinOperand` (`lang/printer.go:385`) takes all operators for
  left-associative. A comment before the `effects` clause of a workflow with a description is moved into its body by the
  first run and out of the workflow by the second. `cli/fmt.go:27` promises that running fmt twice makes no further
  changes.
- `Formatter.cfg`: `CommentsStayHome` without `MayLeave`. The `}` of a header such as `effects { }` closes the
  declaration for `buildCommentIndex`, and comments in the body are printed at file scope, as are those between `limits`
  and a `{` on a later line; the comment at `lang/printer_comments.go:30` says that none "can escape its block to file
  scope".
- `Formatter.cfg`: `NothingDropped` without `OperationFieldTwice`. `op { schema 'x' schema 'y' }` is read as its second
  field, without a diagnostic (`lang/parser_resources.go:438-449`), and fmt then writes that one alone. Every other block
  has a diagnostic for a repeated field, and `lang/ast.go:48` says of an agent's that it "keeps the first occurrence and
  yields a duplicate-field diagnostic (the grammar admits each field once)".

`terfyn fmt --help` (`cli/fmt.go:30-32`) warns that ".agent comments are not preserved because the formatter reprints from
the parsed AST". The printer preserves them all: it writes from the tree and from an index of the source's comments
(`lang/printer_comments.go`), with `flushRemaining` as the last resort, and `CommentsStayHome` holds. The help text
describes an earlier printer.

Others, with the definition named, which the modules keep:

| how | property | the code | the document |
|---|---|---|---|
| `ExecFork.cfg` with `Branches = 2` and the `Nest...` definitions of `MCExecFork` | `EffectOnce` | `classifyConcurrent` gets the session-wide suspend flag (`execir/interp.go:347`): an inner fork that is complete reports a suspend of its sibling, the subworkflow call after it is not reached again and its frame is dropped | `docs/SOUNDNESS.md:112` |
| `ExecGraph.cfg` with the `Beside...` definitions of `MCExecGraph` | `OneResultEach` | a call's own deadline after a pause counts as abandoned (`:831`), and a subworkflow's completed leaves run again | comment `:832` "A sibling abandoned by the cancel above — re-runs on resume." |
| `RunLifecycle.cfg` | `UnansweredStaysOpen` | a resume without a decision has claimed the run and fails it | `engine/hitl.go:62` "resume with --decision or --auto-approve" |
| `Deployment.cfg` | `NoopKeepsMatch` | an apply with nothing to do commits its snapshot without the baseline check (`cli/apply.go:98`) | `deploy/snapshot.go:233` "so the two never diverge (issue #387)" |
| `Deployment.cfg` | `RejectsStalePlan` | the plan's rows and its baseline are two reads (`plan/planner.go:55`, `:126`) | `plan/plan.go:23` "Apply rejects the plan if the store diverges" |
| `PolicyMerge.cfg` with `Policy <- EditPolicies` | `EditsIntersect` | disjoint allow-lists of arguments join to a list that the next reader takes for unset (`policy/stricter.go:320`) | `docs/DESIGN_DOC.md:931` "the **intersection** of allowed decisions / edit allowances" |
| `PolicyMerge.cfg` with `Policy <- SwitchPolicies` | `SwitchWithinSides` | `switch` is allowed by a merged map neither side has (`policy/stricter.go:273`) | comment `:261` "preserving monotonicity (merged ⊆ each side)" |
| `PolicySnapshot.cfg` | `NeverWidened` | a fresh run looks policies up in the file when each workflow starts, after the comparison (`engine/policy_eval.go:44`) | `docs/SOUNDNESS.md:29` "must never widen it" |
| `ExternalRun.cfg` | `ErrorSessionFails` | a gemini session whose output is an error and whose exit status is 0 is recorded as succeeded (`runtime/gemini`) | `runtime/agentcli/external_run.go` "a session that ended in error" |

Met while modelling the compiler; the files of `MCCompiler` avoid them:

- A call in the collection of `for x in tool.op()` is missing from the resource steps, so from the effect bound.
- An `approval` inside `if`, `for` or `while` is passed over by `lowerControlStmts` (`lang/lower/lower.go:546`), so the
  calls in its `with` are missing from the bound, which its comment says is "preserve[d] faithfully".
- The digest joins `redactKeys` without quoting: `{"a,b"}` and `{"a", "b"}` have one digest (`execir/digest.go`).
- A name bound in both arms of an `if` and used in a later call at top level passes the checker and is refused by
  `validateWorkflowStepOrder`, the steps of the arms having fresh ids.
- `reserve` does not reserve the names that approvals bind; a positional argument's key `argN` overwrites a parameter
  called `argN`; a loop that rebinds a name to another type is checked with the first one.
- The plan is silent about `requireAllTools` true → false, `permissive` false → true, a tool's `requiresApproval`
  true → false, and a workflow that switches policy; `toolDecisionFromParsed` reads the new graph's policies for the
  old deployment too.

And the formatter: a comment at the end of a then-arm, or on `} else {`, moves (`lang/printer.go:301`); floats with an
exponent, strings with `\x07`, an approval's `with` without commas and empty `effects {}` do not survive as written.

And external runs: the wall-clock budget is never enforced, since nothing sets `RunContext.Elapsed`; the dispatcher's
`run` is a copy taken at the start (`runtime/mcpserver/dispatch.go:34` speaks of "the live run state"); an error after
`StartRun` leaves the row running for good (`runtime/agentcli/adapter.go:134`); `Close` may wait for a grandchild that
holds the killed server's pipes; `traceDenied` leaves no event of a refusal by schema, and of one by limit only
`limit_hit`; every append to the trace is best effort, and fails once the request's context is done, as it is when the
agent hung up; the comment at `runtime/mcpserver/dispatch.go:57` has "tool_selection before the policy check", and the
code appends it after (`:103-117`), so a denied call has no selection event; handlers that outlast the shutdown's two
seconds go on behind the finished row. A result that cannot be decoded, an HTTP 5xx and a lost connection are no answers
to the retry loop, and those calls are delivered again; so is an MCP call over HTTP whose status is not 200, though its
body be a JSON-RPC error (`tools/mcp/transport_http.go:170-175`, `tools/mcp/call.go:124`), where `tools/mcp/errors.go:5`
says of the server's error "do not retry as transport".

And the audit: `Ok` (`audit/verify.go:32-35`) "reports whether the chain has no breaks", and is `BrokenSeq == 0` with
`BrokenSeq` the number of the broken row, so a break at a row numbered 0 is none to `terfyn audit verify`. The program
numbers rows from 1; `VerifiedIsWritten` leaves out runs in which an edit of the database made a hashed row 0.

Smaller remarks:

- A tool with a HITL entry on one side of a merge only takes that side's entry whole.
- Comments that describe earlier code: `execir/interp.go:330` ("A suspend anywhere wins"; a genuine error does)
  and `:758-762`; `engine/steps.go:385`, before `finalizeAgentAtCap`; `engine/execir_invoker.go:769` ("cannot
  jointly exceed"; the total can, and then a step fails, which is `BudgetHolds`).
- The wall-clock budget counts from the first start of a run, the wait for its operator included
  (`engine/checkpoint.go:339`).
- A fresh run reads schemas from disk at use (`engine/agent_tools.go:28`, `engine/schema_validate.go:24`).
- A trace whose tail was cut verifies, by design; an append that fails loses its event, since most callers drop
  the error.
- An error between the claim and the engine (`runtime/local/runner.go:236`) leaves the run `running` for good.
- `terfyn fmt` rewrites files in place one after the other; an error in one leaves those before it rewritten.

## Not modelled

- *What native tools do* to files, repositories and the network; request encodings of model providers.
- *YAML*: decoding, environments, presets and merging of `project.yaml`; resources enter the models as graphs, or
  from `.agent` sources of one file.
- *The policy linter*, the plan's project and runtime risks, and everything that is wording, order or layout of output:
  `render`, `inspect`, `telemetry`, most of `cli`.
- *Agreement of the plain and the compiled policy evaluator.*
- *Redaction and truncation* of trace data and outputs; number formats.
- *Migrations and listing queries* of the store.
- *Schemas* beyond types, properties, `additionalProperties` and `false`.
- *MCP discovery*, and the resume of external runs, which the code refuses.
- *A repair of runs left `running`*: there is none in the code to model.

## Plan

Done, in this order, the most important behaviour first: `Invoker`, `ExecGraph`, `DurableRun` and the refinement,
`ExecFork`, `RunLifecycle` and its proofs, `ExecControl`, `AgentLoop`, `AuditChain`, `Deployment`, `PolicyMerge`,
`PolicySnapshot`; then `ToolClient` and `ExternalRun`; the language and `Formatter`; the compile path and `Compiler`;
then the proofs of every module whose operators are not recursive, of `ExecFork` last.

What is left:

1. The two policy evaluators against one another, and the presets; `jsonnum` and `trace` redaction as operators
   against a reference definition.
2. Projects of several files, and YAML resources, as inputs of `Compiler`.
3. Forks nested more than once, and a graph inside a fork.
