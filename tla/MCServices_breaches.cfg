SPECIFICATION ServicesSpec
CONSTANTS
    Users = {"u1"}
    RotationRequests = {s1, s2}
    TokenLife = 3
    Second = 2
    MaxTokens = 3
    MaxClock = 4
    Credentials = {s1, s2}
    Counts = {0, 1}
    Devices = {"d1"}
    PasskeyRequests = {p1, p2, p3}
    ChallengeLife = 0
    MaxChallenges = 3
    PasskeyClock = 1
    Tenants = {"t1"}
    Members = {m1}
    Home <- OneTenant
    Names = {"viewer"}
    Permissions = {read, write}
    Defaults <- SystemDefaults
    RoleRequests = {s1, s2}
    AgentPool <- Pool
    Windows = {0, 2}
    AtRiskHours = 1
    DeskRequests = {s1, s2}
    MaxTickets = 2
    MaxHour = 2
    Opportunities = {"o1", "o2"}
    Customers = {"c1", "c2"}
    AdviceRequests = {s1, s2}
    CacheTTL = 2
    CacheMax = 1
    MaxMoment = 3
    Rules = {"r1", "r2"}
    Toggles = {s1, s2}
    ActionsOf <- Actions
    MaxEvents = 1
    Sellers = {"u1", "u2"}
    RuleIds = {"r1", "r2"}
    RuleTexts <- Texts
    Incoming = {"l1", "l2"}
    CompanyOf <- Companies
    FloatOf <- Floats
    MaxLoad = 1
    RoutingRequests = {s1, s2}
    ActivityIds = {s1, s2}
    DealIds = {s1, s2}
    CaseIds = {"c1"}
    ActivityTypes = {"call", "email"}
    Amounts = {1}
    Gaps = {45}
    MaxAge = 105
INVARIANT BreachesAreUnresolved
CHECK_DEADLOCK FALSE
