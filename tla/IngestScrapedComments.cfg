SPECIFICATION Spec

CONSTANTS
    Feeds <- TwoFeeds
    Source = "scrape"
    PostBatch = 2
    CommentLimit = 2
    LongPosts = {1, 3}
    HotPosts = {1, 3}
    BrokenPages = {2}
    MaxComments = 1
    MaxAborts = 0

INVARIANTS
    ScrapedCommentsAreStored
