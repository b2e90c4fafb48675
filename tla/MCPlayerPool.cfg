\* Two logins, a mail, one slot: takeover, eviction, refusal.
SPECIFICATION FairSpec
CONSTANTS
    ch1 = ch1
    ch2 = ch2
    c1 = c1
    c2 = c2
    s1 = s1
    s2 = s2
    Characters <- MCCharacters
    Conns <- MCConns
    Slots <- OneSlot
    Nobody = Nobody
    Game = Game
    Reader = Reader
    Writer = Writer
    MaxLogins = 2
    MaxMails = 1
    MaxFailures = 1
    MaxSticky = 2
INVARIANTS
    TypeOK
    NeededSlotStays
    LoginFindsItsData
    OneVoice
    OnlineIsCounted
PROPERTIES
    OwnedOnceKeptWhole
    LoginSettled
CHECK_DEADLOCK FALSE
