SPECIFICATION FairSpec
CONSTANTS
    AppTokens = {1, 2}
    SessionIds = {1, 2}
    Ui = "NBGL"
    Disciplined = FALSE
    MAX_NUMBER_OF_SCREENS = 16
INVARIANTS
    TypeOK
    OneAnswerPerCommand
    BusyWhileAsking
    PromptKeepsRequest
PROPERTIES
    SilentReleaseWasGranted
    DenyEndsCommand
    BlindNeedsSetting
    SignsInSession
    AnswerComes
    BecomesFree
