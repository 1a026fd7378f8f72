\* One request, two servers, three tokens, two starts.
SPECIFICATION FairServerSpec
CONSTANTS
    s1 = s1
    s2 = s2
    shop = shop
    admin = admin
    guest = guest
    page = page
    notes = notes
    Nil = Nil
    App = {shop, admin, guest}
    Path = {page, notes}
    Limit = 1
    DefaultLimit = 2
    ServerId = {s1, s2}
    AppLists <- MCAppLists
    Configs <- MCConfigs
    Request = {r1}
    Calls <- MCCalls
    MaxToken = 3
    MaxStart = 2
INVARIANTS ServerTypeOK AnswersAreTruthful CommitsWereAdmitted TakenBackStaysOut PoolOutlivesRequests
PROPERTY ShutdownEnds
CHECK_DEADLOCK FALSE
