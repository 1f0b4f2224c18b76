CONSTANTS
    p1 = p1
    text = text
    photo = photo
    h1 = h1
    h2 = h2
    h3 = h3
    People = {p1}
    Messages = {text, photo}
    Media = {photo}
    Who <- OneSender
    Chunks <- TwoChunks
    MaxPerChat = 1
    MaxEngines = 2
    MaxEvents = 4
SPECIFICATION Spec
CHECK_DEADLOCK FALSE
INVARIANTS
    TypeOK
    NothingForgotten
    RepliesFind
    HistoryAnswered
