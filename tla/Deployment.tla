----------------------------- MODULE Deployment -----------------------------
(***************************************************************************)
(* The deployment state of one environment: plan and apply                  *)
(* (internal/plan, internal/apply, internal/cli/apply.go), the snapshots    *)
(* that runs pin and resumes hydrate (internal/deploy,                      *)
(* internal/runtime/local), and the garbage collection that a new run does  *)
(* when traces have a retention (internal/state/sqlite/artifact_ops.go).    *)
(*                                                                          *)
(* Processes share the database.  apply writes in one transaction; the      *)
(* reads of a plan, the writes that pin a snapshot and the two deletes of   *)
(* the collection are statements of their own.  Digests are taken as        *)
(* injective: a snapshot is named by the configuration it holds.            *)
(***************************************************************************)
EXTENDS Naturals, Sequences

CONSTANTS
  Process,     \* the processes that run terfyn commands
  Resource,    \* the resources a project may have
  Tools,       \* those of them that the capability manifest covers
  Config,      \* the configurations authors may apply or run
  Absent,      \* the value of a resource that is not there
  NoConfig,    \* the value of the environment's pointer before any apply
  Run          \* the runs

ASSUME DeploymentAssumption ==
  /\ Tools \subseteq Resource
  /\ \A c \in Config : c = [r \in Resource |-> c[r]] /\ \E r \in Resource : c[r] # Absent
  /\ NoConfig \notin Config

VARIABLES
  applied,     \* applied_resources of the environment
  current,     \* deployment_env_current: the snapshot deployed now
  snapshots,   \* deployment_snapshots
  artifacts,   \* deployment_artifacts
  runs,        \* runs[r]: [status, digest]; status "none" when there is no row
  proc,        \* proc[p]: the command p is executing
  used,        \* ghost: used[r], the configurations r has executed with
  raced,       \* ghost: the starting processes another's delete fell between the puts of
  risky        \* ghost: the runs that were started so

vars == <<applied, current, snapshots, artifacts, runs, proc, used, raced, risky>>
store == <<applied, current, snapshots, artifacts>>
ghosts == <<used, raced, risky>>

Idle == [at |-> "idle"]
NoRun == [status |-> "none", digest |-> NoConfig]

-----------------------------------------------------------------------------
(* Snapshots (internal/deploy/snapshot.go). *)

\* The artifacts a snapshot is made of, in the order Persist puts them: the
\* resolved graph (the execution IR and the schemas go with it), and the
\* capability manifest, which snapshots may share.
Parts(c) == <<[kind |-> "graph", of |-> c],
              [kind |-> "manifest", of |-> [r \in Tools |-> c[r]]]>>

Artifacts(c) == {Parts(c)[i] : i \in DOMAIN Parts(c)}

\* HydrateGraph finds the snapshot and what it decodes, everything but the
\* manifest.
Hydrates(c) == c \in snapshots /\ Parts(c)[1] \in artifacts

\* persistDeploymentSnapshot, inside a transaction.
Deploy(c) ==
  /\ artifacts' = artifacts \cup Artifacts(c)
  /\ snapshots' = snapshots \cup {c}
  /\ current' = c

-----------------------------------------------------------------------------
(* Plan and apply. *)

\* The resources a plan creates, updates or deletes.
Operations(seen, want) == {r \in Resource : seen[r] # want[r]}

\* executePlan.
Executed(rows, seen, want) ==
  [r \in Resource |-> IF r \in Operations(seen, want) THEN want[r] ELSE rows[r]]

Init ==
  /\ applied = [r \in Resource |-> Absent]
  /\ current = NoConfig
  /\ snapshots = {} /\ artifacts = {}
  /\ runs = [r \in Run |-> NoRun]
  /\ proc = [p \in Process |-> Idle]
  /\ used = [r \in Run |-> {}]
  /\ raced = {} /\ risky = {}

\* ComputePlan's first read: the rows that the operations are computed from.
ListApplied(p, c) ==
  /\ proc[p] = Idle
  /\ proc' = [proc EXCEPT ![p] = [at |-> "listed", want |-> c, seen |-> applied]]
  /\ UNCHANGED <<store, runs, ghosts>>

\* ComputePlan's second read: the fingerprint, the baseline of the plan.  With
\* operations to apply, the command asks for confirmation.
Fingerprint(p) ==
  /\ proc[p].at = "listed"
  /\ LET ops == Operations(proc[p].seen, proc[p].want) IN
       proc' = [proc EXCEPT ![p] = [at |-> IF ops = {} THEN "noop" ELSE "confirm",
                                    want |-> proc[p].want, seen |-> proc[p].seen, base |-> applied]]
  /\ UNCHANGED <<store, runs, ghosts>>

\* runApply with an empty plan: the snapshot and the pointer are written.
ApplyNothing(p) ==
  /\ proc[p].at = "noop"
  /\ Deploy(proc[p].want)
  /\ proc' = [proc EXCEPT ![p] = Idle]
  /\ UNCHANGED <<applied, runs, ghosts>>

\* Mutant: apply does not look at the baseline.
AnyBaseline(p) == TRUE

\* assertDeploymentBaseline.
BaselineHolds(p) == proc[p].base = applied

\* ApplyPlanAndFinalize: rows, snapshot and pointer in one transaction, or
\* ErrDeploymentStateChanged.
ApplyPlan(p) ==
  /\ proc[p].at = "confirm"
  /\ IF BaselineHolds(p)
       THEN /\ applied' = Executed(applied, proc[p].seen, proc[p].want)
            /\ Deploy(proc[p].want)
       ELSE UNCHANGED store
  /\ proc' = [proc EXCEPT ![p] = Idle]
  /\ UNCHANGED <<runs, ghosts>>

-----------------------------------------------------------------------------
(* Runs. *)

\* Invoke, DeleteRunsStartedBefore: finished runs past their retention go.
Sweep(p, c) ==
  /\ proc[p] = Idle
  /\ \E old \in SUBSET {r \in Run : runs[r].status = "finished"} :
       /\ runs' = [r \in Run |-> IF r \in old THEN NoRun ELSE runs[r]]
       /\ used' = [r \in Run |-> IF r \in old THEN {} ELSE used[r]]
  /\ proc' = [proc EXCEPT ![p] = [at |-> "snapshots", want |-> c]]
  /\ UNCHANGED <<store, raced, risky>>

\* Invoke of a project without a retention: nothing is collected.
Pin(p, c) ==
  /\ proc[p] = Idle
  /\ proc' = [proc EXCEPT ![p] = [at |-> "pin", want |-> c, puts |-> Parts(c)]]
  /\ UNCHANGED <<store, runs, ghosts>>

\* Mutant: a snapshot is kept for the environment only.
PointerOnly(c) == c = current

\* What pruneUnreferencedArtifacts keeps a snapshot for.
Referenced(c) == c = current \/ \E r \in Run : runs[r].digest = c

\* pruneUnreferencedArtifacts, the first delete.
PruneSnapshots(p) ==
  /\ proc[p].at = "snapshots"
  /\ snapshots' = {c \in snapshots : Referenced(c)}
  /\ proc' = [proc EXCEPT ![p].at = "artifacts"]
  /\ raced' = raced \cup {q \in Process : proc[q].at = "start"}
  /\ UNCHANGED <<applied, current, artifacts, runs, used, risky>>

\* A process has put artifacts that no snapshot need refer to yet.
Putting(q) == proc[q].at = "pin" /\ proc[q].puts # Parts(proc[q].want)

\* An artifact some snapshot refers to.
Needed(a) == \E c \in snapshots : a \in Artifacts(c)

\* pruneUnreferencedArtifacts, the second delete.
PruneArtifacts(p) ==
  /\ proc[p].at = "artifacts"
  /\ artifacts' = {a \in artifacts : Needed(a)}
  /\ proc' = [proc EXCEPT ![p] = [at |-> "pin", want |-> proc[p].want, puts |-> Parts(proc[p].want)]]
  /\ raced' = raced \cup {q \in Process : Putting(q)}
  /\ UNCHANGED <<applied, current, snapshots, runs, used, risky>>

\* Persist, on the plain store: the artifacts one after the other.
PutArtifact(p) ==
  /\ proc[p].at = "pin" /\ proc[p].puts # <<>>
  /\ artifacts' = artifacts \cup {Head(proc[p].puts)}
  /\ proc' = [proc EXCEPT ![p].puts = Tail(@)]
  /\ UNCHANGED <<applied, current, snapshots, runs, ghosts>>

\* ... then the snapshot.
PutSnapshot(p) ==
  /\ proc[p].at = "pin" /\ proc[p].puts = <<>>
  /\ snapshots' = snapshots \cup {proc[p].want}
  /\ proc' = [proc EXCEPT ![p].at = "start"]
  /\ UNCHANGED <<applied, current, artifacts, runs, ghosts>>

\* StartRun: the row refers to the snapshot, and the run executes the
\* configuration it was started with.
StartRun(p, r) ==
  /\ proc[p].at = "start"
  /\ runs[r] = NoRun
  /\ runs' = [runs EXCEPT ![r] = [status |-> "running", digest |-> proc[p].want]]
  /\ used' = [used EXCEPT ![r] = {proc[p].want}]
  /\ proc' = [proc EXCEPT ![p] = Idle]
  /\ raced' = raced \ {p}
  /\ risky' = IF p \in raced THEN risky \cup {r} ELSE risky \ {r}
  /\ UNCHANGED store

\* A run pauses at a gate, or ends.
Pause(r) ==
  /\ runs[r].status = "running"
  /\ \E s \in {"interrupted", "finished"} : runs' = [runs EXCEPT ![r].status = s]
  /\ UNCHANGED <<store, proc, ghosts>>

\* Mutant: the configuration deployed now.
DeployedConfig(r) == IF current = NoConfig THEN runs[r].digest ELSE current

\* prepareForResume: the configuration a resume executes is the pinned one.
ResumeConfig(r) == runs[r].digest

\* Resume; a snapshot that cannot be hydrated is an error.
Resume(r) ==
  /\ runs[r].status = "interrupted"
  /\ Hydrates(ResumeConfig(r))
  /\ runs' = [runs EXCEPT ![r].status = "running"]
  /\ used' = [used EXCEPT ![r] = @ \cup {ResumeConfig(r)}]
  /\ UNCHANGED <<store, proc, raced, risky>>

\* The process dies, the user declines, or a statement fails.
Quit(p) ==
  /\ proc[p] # Idle
  /\ proc' = [proc EXCEPT ![p] = Idle]
  /\ raced' = raced \ {p}
  /\ UNCHANGED <<store, runs, used, risky>>

Next ==
  \/ \E p \in Process :
       \/ \E c \in Config : ListApplied(p, c) \/ Sweep(p, c) \/ Pin(p, c)
       \/ Fingerprint(p) \/ ApplyNothing(p) \/ ApplyPlan(p)
       \/ PruneSnapshots(p) \/ PruneArtifacts(p) \/ PutArtifact(p) \/ PutSnapshot(p)
       \/ \E r \in Run : StartRun(p, r)
       \/ Quit(p)
  \/ \E r \in Run : Pause(r) \/ Resume(r)

Spec == Init /\ [][Next]_vars

-----------------------------------------------------------------------------
(* Properties. *)

\* Every variable has its type.
TypeOK ==
  /\ DOMAIN applied = Resource
  /\ current \in Config \cup {NoConfig}
  /\ snapshots \subseteq Config
  /\ artifacts \subseteq UNION {Artifacts(c) : c \in Config}
  /\ \A r \in Run : runs[r].status \in {"none", "running", "interrupted", "finished"}
  /\ used \in [Run -> SUBSET Config]
  /\ raced \subseteq Process /\ risky \subseteq Run

Unfinished(r) == runs[r].status \in {"running", "interrupted"}

\* A run that is not finished can be hydrated from the snapshot it pinned,
\* whatever any number of processes apply, collect and start at the same time
\* (pruneUnreferencedArtifacts is guarded by the rows of runs), unless another
\* process's collection deleted snapshots between the run's PutSnapshot and its
\* StartRun, or artifacts between its first PutArtifact and its PutSnapshot.
SurvivingRunsHydrate == \A r \in Run : Unfinished(r) /\ r \notin risky => Hydrates(runs[r].digest)

\* What prepare.go says of the collection: it can never orphan an artifact that a
\* surviving run needs.  It can, those that SurvivingRunsHydrate leaves out.
NeverOrphans == \A r \in Run : Unfinished(r) => Hydrates(runs[r].digest)

\* Whatever is applied while a run is paused, every part of the run executes
\* the configuration it was started with (prepareForResume).
OneConfigPerRun == \A r \in Run : used[r] \subseteq {runs[r].digest}

\* A plan whose reads saw one state of the rows either leaves the environment
\* as its author wanted it or changes nothing (the baseline check).
PlanIsExact ==
  [][\A p \in Process : ApplyPlan(p) /\ proc[p].seen = proc[p].base
       => (applied' = proc[p].want /\ current' = applied') \/ UNCHANGED store]_vars

\* What deploy/snapshot.go says of apply, that the applied rows and the current
\* snapshot never diverge, for an apply that finds nothing to do.
NoopKeepsMatch ==
  [][\A p \in Process : ApplyNothing(p) /\ applied = current => applied' = current']_vars

\* What plan.go says of the baseline: apply rejects a plan if the store has
\* diverged from what the plan was computed from.
RejectsStalePlan ==
  [][\A p \in Process : ApplyPlan(p) /\ proc[p].seen # applied => UNCHANGED store]_vars

=============================================================================
