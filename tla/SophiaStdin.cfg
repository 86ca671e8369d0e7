SPECIFICATION FairSpec
CONSTANTS
    Input <- Mixed
    MaxChunk = 3
    PromptCap = 2
    CmdCap = 1
    MaxStmts = 2
    Commands <- AllKinds
\* A session can hang: SessionFate and PromptFate say where.
CHECK_DEADLOCK FALSE
INVARIANTS BytesRouted PipesInv
PROPERTIES CtrlDEndsCommand HangUpEndsCommand SessionFate PromptFate
