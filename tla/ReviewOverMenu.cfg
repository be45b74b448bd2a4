SPECIFICATION Spec
CONSTANTS
    AppTokens = {}
    SessionIds = {1}
    Ui = "BAGL"
    Disciplined = FALSE
    MAX_NUMBER_OF_SCREENS = 16
INVARIANT ReviewShowsTransaction
