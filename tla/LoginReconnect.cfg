SPECIFICATION Spec
CONSTANTS
    player = player
    Clients = {c1, c2}
    Accounts = {player}
    LoginApps = {gate1, gate2}
    account <- MCAccount
    home <- MCHome
    Baseapps = {1, 2}
    IdsPerBaseapp = 2
    Mortal = {}
    ConnectionLoss = TRUE
    NULL = NULL
INVARIANT OneProxyPerAccount
CHECK_DEADLOCK FALSE
