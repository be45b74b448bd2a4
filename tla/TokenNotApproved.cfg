SPECIFICATION Spec
CONSTANTS
    AppTokens = {1}
    SessionIds = {1}
    Ui = "NBGL"
    Disciplined = FALSE
    MAX_NUMBER_OF_SCREENS = 16
INVARIANT ConnectedWasApproved
