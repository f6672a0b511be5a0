SPECIFICATION Spec
CONSTANTS
    Ops = {"&&", "||", "==", "<"}
    Sources <- FormatterSources
INVARIANTS
    MeaningKept
    NothingDropped
    CommentsStayHome
    Idempotent
