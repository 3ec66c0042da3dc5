\* Three requests with one key and two payloads; two rows and one message of a visitor; two
\* workspaces; two API instances, two identities, a limit of one hit in two ticks; one
\* attachment; three conversations and two messages in pages of one; two administrators.
CONSTANTS
    Request = {r1, r2, r3}
    Payload = {p1, p2}
    NoRequest = NoRequest
    MaxFaults = 2
    MaxMsg = 2
    MaxPost = 1
    Text = {"hi"}
    Take = 1
    MaxTrouble = 1
    Workspace = {"w1", "w2"}
    DevEnabled = TRUE
    MaxChange = 1
    MaxRequest = 1
    Instance = {1, 2}
    Identity = {"a", "b"}
    Limit = 1
    Window = 2
    MaxKeys = 1
    MaxHit = 3
    MaxTime = 3
    Attachment = {"a1"}
    MinTtl = 1
    DefaultTtl = 2
    MaxTtl = 3
    TypeLimit = 2
    SizeLimit = 5
    MaxLink = 1
    Conversation = {1, 2, 3}
    PageLimit = 1
    MaxMoment = 1
    MaxMessage = 2
    Admin = {"x", "y"}
    Agent = {"g", "h"}
    MaxUpdate = 2
SPECIFICATION ServicesSpec
INVARIANTS
    RequestsTakeEffectOnce
    
    RightsAreHeld
    LimitsAreShared
    
PROPERTIES
    StepsKeepPromises
CHECK_DEADLOCK FALSE
