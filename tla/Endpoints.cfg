CONSTANTS
    r1 = r1  r2 = r2  r3 = r3
    t1 = t1  t2 = t2  t3 = t3
    ana = ana  us = us  anaLid = anaLid  usLid = usLid
    Requests = {r1, r2, r3}
    Tenants = {t1, t2, t3}
    Unsecured = {t3}
    NoTenant = NoTenant
    Contacts = {ana}
    Us = us
    LidOf <- MCLidOf
    Group = Group
    NoUser = NoUser
    LimitPerMin = 20
    ReplayWindow = 2
    MaxNow = 3
    MaxCalls = 4
SPECIFICATION Spec
SYMMETRY Symmetry
CHECK_DEADLOCK FALSE
INVARIANTS
    TypeOK AuthenticatedTenantIsServed GroupsStayOut RightConversation
    DirectTextsArrive LimiterIsExact
