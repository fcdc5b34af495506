SPECIFICATION FairSpec
CONSTANTS
    player = player
    Clients = {c1, c2}
    Accounts = {player}
    LoginApps = {gate}
    account <- MCAccount
    home <- MCHome
    Baseapps = {1, 2}
    IdsPerBaseapp = 1
    Mortal = {}
    ConnectionLoss = TRUE
    NULL = NULL
PROPERTY AttemptIsAnswered
CHECK_DEADLOCK FALSE
