SPECIFICATION FeedFairSpec
CONSTANTS
    Tokens = {yes, no}
    Levels = {bid, ask}
    InitialTokens = {yes}
    MaxSize = 1
    ChannelSlots = 1
    MaxNet = 2
    MaxRetry = 2
INVARIANT BooksFollowExchange
PROPERTY LockIsReleased
