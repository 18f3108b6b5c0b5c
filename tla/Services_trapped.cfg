SPECIFICATION Spec
CONSTANTS
    RunningServices = {"review"}
    p1 = p1
    p2 = p2
    Products = {p1, p2}
    Quantity <- MCQuantity
    Baseline <- MCBaseline
    Leads = {45}
    Answers <- MCAnswers
    Turns = {"t1", "t2"}
    Streamed = {"t1"}
    Lines = {"l1"}
    Openings <- MCOpenings
    Drafts <- MCDrafts
    MaxTime = 1
    MaxMoves = 4
    HeaderWindow = 2
    Uploads <- MCUploads
    MaxBytes = 8
    MaxExpandedBytes = 40
    MaxEntries = 6
    MaxRatio = 10
    MaxSheets = 2
    MaxRows = 8
    MaxColumns = 4
    MaxCells = 20
    MaxOutput = 3
    Jobs = {"parse", "match", "talks"}
    QueueOf <- MCQueueOf
    Connections = 3
    MaxAttempts = 2
    MaxAgain = 1
    Layout = "layout"
    ReviewLines = {"tiered", "unpriced", "open", "unclear"}
    ReviewSheet <- MCReviewSheet
    Reading <- MCReading
    Described <- MCDescribed
    Rank <- MCRank
    NoProduct = "none"
    Excluded = "excluded"
    Undecided = "undecided"
    Typed = {0, 1, 3}
    MaxCommands = 3
INVARIANT NoLineTrapped
CHECK_DEADLOCK FALSE
