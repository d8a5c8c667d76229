CONSTANTS
    c1 = c1
    c2 = c2
    c3 = c3
    c4 = c4
    c5 = c5
    usd = usd
    eur = eur
    shop = shop
    Absent = Absent
    Nothing = Nothing
    Calls = {c1, c2, c3, c4, c5}
    Words = {usd, eur, shop}
    Day = 4
    Limit = 7
    Grain = 2
    IntentOf <- MCIntentOf
    Rulebooks <- MCRulebooks
    Routes <- MCRoutes
SPECIFICATION ServiceSpec
CHECK_DEADLOCK FALSE
INVARIANTS
    DeniedNeverCharged
