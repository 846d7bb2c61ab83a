SPECIFICATION FairSpec
CONSTANTS
    d1 = d1
    d2 = d2
    d3 = d3
    c1 = c1
    c2 = c2
    o1 = o1
    o2 = o2
    r1 = r1
    NoKey = NoKey
    Document = {d1, d2, d3}
    Key <- Names_
    Fold <- Folding
    Process = {o1, o2}
    CommitEvery = 2
    RunDocuments <- Loaded
    Reader = {r1}
    GroupSizes = {2, 3}
    RunDocument = {d1, d2}
    Proposal = {c1, c2}
    Quotes <- WordForWord
    SpanAt <- OneSpan
    Replies <- AnyReply
    FirstCorpus <- Rows
    Budgets <- Loads
INVARIANT PipelineTypeOK
INVARIANT Addressed
INVARIANT IndexExact
INVARIANT BuiltIsComplete
INVARIANT FetchHonest
INVARIANT ClaimsLandHome
INVARIANT ExtractionWhole
PROPERTY BuildResumes
CHECK_DEADLOCK FALSE
