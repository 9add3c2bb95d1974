SPECIFICATION FairSpec

CONSTANTS
    Feeds <- QuietAndBusy
    Source = "praw"
    PostBatch = 2
    CommentLimit = 1
    LongPosts = {1, 3}
    HotPosts = {1}
    BrokenPages = {}
    MaxComments = 2
    MaxAborts = 1

INVARIANTS
    TypeOK
    NothingIsDropped
    CommentsHaveTheirPost

PROPERTIES
    PostsAreStored
