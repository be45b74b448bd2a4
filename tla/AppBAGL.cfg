SPECIFICATION FairSpec
CONSTANTS
    AppTokens = {1}
    SessionIds = {1}
    Ui = "BAGL"
    Disciplined = TRUE
    MAX_NUMBER_OF_SCREENS = 16
VIEW LiveState
INVARIANTS
    TypeOK
    OneAnswerPerCommand
    BusyWhileAsking
    PromptKeepsRequest
    FlowAnswersPrompt
    ReviewShowsTransaction
PROPERTIES
    SilentReleaseWasGranted
    BlindNeedsSetting
    SignsInSession
    AnswerComes
    BecomesFree
