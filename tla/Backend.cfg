CONSTANTS
    t1 = t1  t2 = t2  u1 = u1  u2 = u2  w1 = w1  w2 = w2
    Users = {u1, u2}
    Tabs = {t1, t2}
    Browser <- SameBrowser
    Workspaces = {w1, w2}
    None = None
    Events = {"e1", "e2"}
    Hooks = {"h1", "h2"}
    Hosts = {"discord.com", "canary.discordapp.com"}
    Gens = {"g1", "g2"}
    Nobody = "nobody"
SPECIFICATION PartSpec
INVARIANTS AllTypesOK HomeIsOne RowsStayHome HooksHearRight AccountAsTold
PROPERTIES PagesSettle Told StaysRevoked
CHECK_DEADLOCK FALSE
