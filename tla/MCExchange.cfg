\* Two customers, one reply and three provider events; three mails, two of them with long ids;
\* four updates; three attempts; a download limit of two chunks; three keys and two processes;
\* five messages of four people, one agent's request at a time; a thread
\* of five letters of which a reply lists two.
CONSTANTS
    Customer = {"c1", "c2"}
    Reply = {1}
    MaxEvents = 3
    MessageIds = {1, 2, 3}
    LongId = {2, 3}
    PollBatch = 2
    MaxMail = 3
    MaxRebuild = 1
    MaxFail = 1
    PollLimit = 2
    MaxUpdate = 4
    MaxTrouble = 3
    Attempts = 3
    Limit = 2
    MaxToggle = 2
    Process = {1, 2}
    Account = {1, 2}
    MaxKey = 3
    MaxSecret = 4
    Messages <- MCInbound
    Members <- MCAgent
    InboxSettings <- MCSettings
    User = {u1}
    MaxRequests = 1
    MAX_EMAIL_REFERENCES = 2
    MaxLetter = 5
    MaxWaiting = 2
    MaxNew = 1
SPECIFICATION Spec
INVARIANTS
    
    NothingFetchedIsLost
    
    AccountsAreUsable
    

    
CHECK_DEADLOCK FALSE
