SPECIFICATION FairSpec
CONSTANTS
    p1 = p1
    p2 = p2
    web = web
    bot = bot
    Homes <- StartedTwice
    Pollers = {p1, p2}
    Processes = {web, bot}
    Chats = {"c1"}
    Messages <- OneChat
    Cooldown = 1
    MaxErrors = 1
    LastUpdate = 2
INVARIANTS TypeOK NothingForgotten DispatchedOnce
PROPERTY QueueMovesOn
