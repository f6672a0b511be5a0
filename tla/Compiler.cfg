CONSTANTS
    Templates <- CompilerTemplates
    Schemas <- CompilerSchemas
    Sources <- CompilerSources
    Versions <- CompilerVersions
    Started = {"Main"}
    Inputs <- CompilerInputs
    Answers <- CompilerAnswers
    MaxLoopIterations = 2
    MaxInt = 1000
    MaxWorkflowNesting = 2
    MaxEdits = 1
SPECIFICATION Spec
INVARIANTS
    RunsAsWritten
    NoUnboundRead
    PerformedWasPermitted
    WithinInvocationBounds
    SilentPlanRunsSame
    WideningWasReported
