SPECIFICATION BrainSpec
CONSTANTS
    Clients = {a}
    Paths = {x, y}
    Window = 2
    Recent = 3
    EventSpan = 3
    BurstHits = 5
    BurstWindow = 2
    BurstMax = 4
    CountLife = 2
    ScrapeMin = 3
    ScrapePercent = 50
    LoopLength = 2
    RefreshGap = 2
    Volume <- Steps
    RateLimit = 25
    Challenge = 55
    Block = 80
    ChallengeTtl = 2
    BlockTtl = 3
    Penalty = 20
    PenaltyCap = 80
    Forget = 4
    PersistInterval = 3
INVARIANTS BrainTypeOK ChallengeIsEarned
PROPERTY SilenceForgives
