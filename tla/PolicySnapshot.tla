--------------------------- MODULE PolicySnapshot ---------------------------
(***************************************************************************)
(* The two files under .agentic/ that carry what was reviewed from          *)
(* validate, plan and apply to run (internal/cli/policy_snapshot.go,        *)
(* internal/config/resolved.go, internal/policy/snapshot.go), and where the *)
(* engine takes a workflow's policy from (internal/engine/policy_eval.go).  *)
(*                                                                         *)
(* A writer resolves the source and writes resolved-config.json and then    *)
(* policy-snapshot.json with os.WriteFile, which truncates before it        *)
(* writes.  A runner resolves the source, compares it with both files, pins *)
(* it and executes; the policy of the root workflow, and of every workflow  *)
(* it calls, is looked up when it is needed: in the pinned configuration if *)
(* this attempt is a resume, else in policy-snapshot.json.  Nothing locks   *)
(* the files.  A writer may die, or its write fail, between any two steps.  *)
(***************************************************************************)
EXTENDS Naturals, FiniteSets

CONSTANTS
  Writer,     \* processes of validate, plan and apply
  Runner,     \* processes of run, each with one run to start and to resume
  Config,     \* resolved configurations, told apart by their digests
  Grants,     \* Grants[c]: the compiled policies of c, name |-> what it permits
  Root,       \* the policy name of the workflow that is run
  Callee,     \* the policy name of the workflow it calls
  NoFile,     \* the file does not exist
  Torn        \* the file is not the JSON of one writer

ASSUME GrantsAssumption == \A c \in Config : Root \in DOMAIN Grants[c]
ASSUME FileAssumption == NoFile \notin Config /\ Torn \notin Config

VARIABLES
  source,       \* what the working tree resolves to
  configFile,   \* the configuration whose digest resolved-config.json holds
  policyFile,   \* the one whose policies policy-snapshot.json holds
  wpc, wrc,     \* the writers' progress and ResolvedConfig
  rpc, rrc,     \* the runners' progress and ResolvedConfig
  pin,          \* pin[r]: the deployment snapshot in the run's row
  pinned,       \* pinned[r]: Executor.PinnedGraph of this attempt
  used,         \* ghost: the authority each workflow executed under
  quiet         \* ghost: policyFile has not changed since r compared it

vars == <<source, configFile, policyFile, wpc, wrc, rpc, rrc, pin, pinned, used, quiet>>
writer == <<wpc, wrc>>
runner == <<rpc, rrc, pin, pinned, used>>

File == Config \cup {NoFile, Torn}
Names == UNION {DOMAIN Grants[c] : c \in Config}
Authority == UNION {{Grants[c][n] : n \in DOMAIN Grants[c]} : c \in Config}

TypeOK ==
  /\ source \in Config
  /\ configFile \in File
  /\ policyFile \in File
  /\ wpc \in [Writer -> {"idle", "openConfig", "writeConfig", "openPolicy", "writePolicy"}]
  /\ wrc \in [Writer -> Config]
  /\ rpc \in [Runner -> {"idle", "config", "policy", "pin", "root", "running", "paused", "ended"}]
  /\ rrc \in [Runner -> Config]
  /\ pin \in [Runner -> Config \cup {NoFile}]
  /\ pinned \in [Runner -> BOOLEAN]
  /\ used \in [Runner -> SUBSET [name : Names, by : BOOLEAN, grants : Authority]]
  /\ quiet \in [Runner -> BOOLEAN]

Init ==
  /\ source \in Config
  /\ configFile = NoFile /\ policyFile = NoFile
  /\ wpc = [w \in Writer |-> "idle"] /\ wrc = [w \in Writer |-> source]
  /\ rpc = [r \in Runner |-> "idle"] /\ rrc = [r \in Runner |-> source]
  /\ pin = [r \in Runner |-> NoFile]
  /\ pinned = [r \in Runner |-> FALSE]
  /\ used = [r \in Runner |-> {}]
  /\ quiet = [r \in Runner |-> TRUE]

\* Somebody edits the project.
Edit ==
  /\ source' \in Config \ {source}
  /\ UNCHANGED <<configFile, policyFile, writer, runner, quiet>>

-----------------------------------------------------------------------------
(* validate, plan and apply: persistSnapshots.                             *)

Turn(w, from, to) == wpc[w] = from /\ wpc' = [wpc EXCEPT ![w] = to]

Resolve(w) ==
  /\ Turn(w, "idle", "openConfig")
  /\ wrc' = [wrc EXCEPT ![w] = source]
  /\ UNCHANGED <<source, configFile, policyFile, runner, quiet>>

\* What os.WriteFile leaves of a file it has truncated: the writer's own body,
\* or a mixture when somebody else wrote since.
Body(w, file) == IF file = Torn THEN {wrc[w]} ELSE {wrc[w], Torn}

OpenConfig(w) ==
  /\ Turn(w, "openConfig", "writeConfig")
  /\ configFile' = Torn
  /\ UNCHANGED <<source, policyFile, wrc, runner, quiet>>

WriteConfig(w) ==
  /\ Turn(w, "writeConfig", "openPolicy")
  /\ configFile' \in Body(w, configFile)
  /\ UNCHANGED <<source, policyFile, wrc, runner, quiet>>

Disturbed == quiet' = [r \in Runner |-> FALSE]

OpenPolicy(w) ==
  /\ Turn(w, "openPolicy", "writePolicy")
  /\ policyFile' = Torn
  /\ Disturbed
  /\ UNCHANGED <<source, configFile, wrc, runner>>

WritePolicy(w) ==
  /\ Turn(w, "writePolicy", "idle")
  /\ policyFile' \in Body(w, policyFile)
  /\ Disturbed
  /\ UNCHANGED <<source, configFile, wrc, runner>>

\* The process dies or the write fails.
Abort(w) ==
  /\ wpc[w] # "idle" /\ wpc' = [wpc EXCEPT ![w] = "idle"]
  /\ UNCHANGED <<source, configFile, policyFile, wrc, runner, quiet>>

-----------------------------------------------------------------------------
(* run and run --resume.                                                    *)

Goto(r, to) == rpc' = [rpc EXCEPT ![r] = to]

\* A refused command leaves the run as it was: not begun, or interrupted.
Refused(r) == IF pin[r] = NoFile THEN "idle" ELSE "paused"

\* The graph this attempt executes: hydrated from the pin, or as resolved.
Graph(r) == IF pinned[r] THEN pin[r] ELSE rrc[r]

Command(r) ==
  /\ rpc[r] \in {"idle", "paused"}
  /\ rrc' = [rrc EXCEPT ![r] = source]
  /\ Goto(r, "config")
  /\ UNCHANGED <<source, configFile, policyFile, writer, pin, pinned, used, quiet>>

AssertSnapshotMatchesStored(r) ==
  /\ rpc[r] = "config"
  /\ Goto(r, IF configFile \in {NoFile, rrc[r]} THEN "policy" ELSE Refused(r))
  /\ UNCHANGED <<source, configFile, policyFile, writer, rrc, pin, pinned, used, quiet>>

Compared(r, matches) ==
  /\ rpc[r] = "policy"
  /\ IF policyFile = NoFile \/ matches
       THEN /\ Goto(r, IF pin[r] = NoFile THEN "pin" ELSE "root")
            /\ pinned' = [pinned EXCEPT ![r] = pin[r] # NoFile]
            /\ quiet' = [quiet EXCEPT ![r] = TRUE]
       ELSE /\ Goto(r, Refused(r))
            /\ UNCHANGED <<pinned, quiet>>
  /\ UNCHANGED <<source, configFile, policyFile, writer, rrc, pin, used>>

\* Mutant: any file that parses is good enough.
AssertParses(r) == Compared(r, policyFile # Torn)

\* The digests of the compiled policies and of the resolved configuration.
AssertSnapshotMatchesCompiled(r) ==
  Compared(r, policyFile \in Config /\ Grants[policyFile] = Grants[rrc[r]] /\ policyFile = rrc[r])

Pinned(r, c) ==
  /\ rpc[r] = "pin"
  /\ pin' = [pin EXCEPT ![r] = c]
  /\ Goto(r, "root")
  /\ UNCHANGED <<source, configFile, policyFile, writer, rrc, pinned, used, quiet>>

\* pinDeploymentSnapshot and the run's row.
PinDeploymentSnapshot(r) == Pinned(r, rrc[r])

\* compiledWorkflowEvaluator: where the policy called name is found, Torn if
\* nowhere.  The code reads the file twice; it is never removed, so only the
\* second read matters unless the first finds no file.
\* Both names are of declared policies; for an undeclared `default` the code
\* takes an evaluator from the graph alone, which is the run's own, and reads
\* no file (policy_eval.go:31-33).
Origin(g, name, fromPin) ==
  IF fromPin \/ policyFile = NoFile THEN g
  ELSE IF policyFile \in Config /\ name \in DOMAIN Grants[policyFile] THEN policyFile
  ELSE Torn

Evaluated(r, name, c, to) ==
  /\ IF c = Torn
       THEN Goto(r, "ended") /\ UNCHANGED used
       ELSE /\ Goto(r, to)
            /\ used' = [used EXCEPT ![r] = @ \cup
                          {[name |-> name, by |-> pinned[r], grants |-> Grants[c][name]]}]
  /\ UNCHANGED <<source, configFile, policyFile, writer, rrc, pin, pinned, quiet>>

\* Mutant: the file is the authority, also for a resumed run.
FileEvaluator(r, name, to) == Evaluated(r, name, Origin(Graph(r), name, FALSE), to)

CompiledWorkflowEvaluator(r, name, to) ==
  Evaluated(r, name, Origin(Graph(r), name, pinned[r]), to)

\* Executor.Run takes the policy of the workflow that is run ...
RunRoot(r) == rpc[r] = "root" /\ CompiledWorkflowEvaluator(r, Root, "running")

\* ... and InvokeWorkflow, later, that of a workflow it calls.
CallWorkflow(r) ==
  /\ rpc[r] = "running"
  /\ Callee \in DOMAIN Grants[Graph(r)]
  /\ CompiledWorkflowEvaluator(r, Callee, "running")

\* The run is interrupted at a gate, or it ends.
Leave(r) ==
  /\ rpc[r] = "running"
  /\ rpc' \in {[rpc EXCEPT ![r] = "paused"], [rpc EXCEPT ![r] = "ended"]}
  /\ UNCHANGED <<source, configFile, policyFile, writer, rrc, pin, pinned, used, quiet>>

Write(w) ==
  \/ Resolve(w) \/ OpenConfig(w) \/ WriteConfig(w) \/ OpenPolicy(w) \/ WritePolicy(w)
  \/ Abort(w)

Run(r) ==
  \/ Command(r) \/ AssertSnapshotMatchesStored(r) \/ AssertSnapshotMatchesCompiled(r)
  \/ PinDeploymentSnapshot(r) \/ RunRoot(r) \/ CallWorkflow(r) \/ Leave(r)

Next == Edit \/ (\E w \in Writer : Write(w)) \/ (\E r \in Runner : Run(r))

Spec == Init /\ [][Next]_vars

-----------------------------------------------------------------------------
\* A resumed run executes every workflow, called ones included, under the
\* policies of the configuration it started with, whatever the source and the
\* two files have become (prepareForResume, compiledWorkflowEvaluator).
ResumedFromPin ==
  \A r \in Runner : \A u \in used[r] : u.by => u.grants = Grants[pin[r]][u.name]

\* A first attempt executes its workflows under the policies it pins unless
\* policy-snapshot.json was written after it was compared: the two comparisons
\* of run.go let nothing else through, not a torn file and not the two files of
\* two different writers.
UndisturbedFromPin ==
  \A r \in Runner : rpc[r] = "running" /\ ~pinned[r] /\ quiet[r] =>
    \A u \in used[r] : u.grants = Grants[pin[r]][u.name]

\* S1 of docs/SOUNDNESS.md, of every run that has pinned a snapshot: the files
\* under .agentic/ never widen what the pinned configuration permits.
NeverWidened ==
  \A r \in Runner : \A u \in used[r] : u.grants \subseteq Grants[pin[r]][u.name]
=============================================================================
