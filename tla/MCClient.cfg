\* Two changes and two broken connections; one Supabase session and two pages; two
\* conversations with one message, send, change and failed request each; two inboxes of
\* three platforms; audiences below and above the limit; files of up to two rows; three
\* messages in two sessions; two agents, one of them a seed, in two tabs.
CONSTANTS
    MaxVersion = 2
    MaxToken = 2
    MaxBreak = 2
    Account = {"s1"}
    Path = {"/inbox"}
    Conv = {"c1", "c2"}
    MaxInbound = 1
    MaxSend = 1
    MaxPatch = 1
    MaxMiss = 1
    Inbox = {1, 2}
    Provider = {"META_INSTAGRAM", "EMAIL_SMTP_IMAP", "META_MESSENGER"}
    MaxOp = 1
    MaxOther = 1
    MaxFail = 1
    Segment = {20, 40}
    HighVolume = 30
    Throttle = {10, 15}
    Name = {"a", "b"}
    Phone = {1, 2, 3}
    Blocked = {2}
    MaxRow = 2
    MaxFile = 1
    Message <- MCMessage
    Setting <- MCSetting
    MaxTurn = 3
    MaxSession = 2
    Agent = {1, 2}
    Seed = {1}
    Tab = {"x", "y"}
    MaxEdit = 2
SPECIFICATION ClientSpec
INVARIANTS
    
    ActionsAreAuthorised
PROPERTIES
    
    ChangesAreShown
CHECK_DEADLOCK FALSE
