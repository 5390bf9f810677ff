\* Requests that are over leave the manager at rest.
SPECIFICATION MCSpec
CONSTANTS
    r1 = r1
    r2 = r2
    r3 = r3
    Requests = {r1, r2, r3}
    Publishers = {r1, r2}
    NoSession = NoSession
    Creators = {c1, c2}
    Readers = {d1}
    MaxDrafts = 2
    DraftTTL = 1
    Whole = 1
    NoDraft = NoDraft
    MaxID = 4
    Keys = {k1, k2}
    StreamKeys = {k1}
    QueueSize = 1
    MaxAge = 2
    MinBackoff = 1
    MaxBackoff = 3
    Stable = 1
    MaxMessages = 2
    Emojis = {heart, star}
    Emotes = {emote}
    MaxKinds = 2
    MaxReactions = 2
INVARIANTS
    ClosedNotFound
    NothingLeftBehind
    DraftsKept
    ReactionsKept
PROPERTIES
    MessagesKept
    NothingLingers
CHECK_DEADLOCK FALSE
