SPECIFICATION ApiSpec
CONSTANTS
    d1 = d1
    d2 = d2
    d3 = d3
    m1 = m1
    p1 = p1
    t1 = t1
    t2 = t2
    NoPerson = NoPerson
    NoChannel = NoChannel
    NoMention = NoMention
    NoThread = NoThread
    Doc = {d1, d2, d3}
    Mention = {m1}
    Person = {p1}
    Channel = {}
    Claim = {1, 2, 3, 4, 5}
    Thread = {t1, t2}
    DocOf <- Places
    ChannelOf <- NoChannels
    AddressOf <- NoAddress
    MayBe <- Nobody
    ShortFormOf <- Nobody
    ClaimDoc <- Origin
    SpanOf <- OwnSpan
    SpansOf <- Spans
    SubjectMention <- Subject
    SubjectName <- SameName
    Predicate <- SamePred
    Contestable = {1, 2, 3, 4, 5}
    Object <- Values
    Linked <- Tickets
    Served = {d1, d2}
    Verbatim = {1, 2, 3}
    EvidenceWindow = 2
    RelatedEvidence = 1
    DisputePage = 1
    DisputeMaxPages = 2
    Retries = 1
    Budgets <- Loads
    ClaimPage = 2
    MaxClaimPages = 2
    MaxCachedBodies = 1
SYMMETRY Threads
INVARIANT ApiTypeOK
INVARIANT OneOfEach
INVARIANT AnswerGrounded
INVARIANT SupportedIsUndisputed
INVARIANT EvidenceKept
INVARIANT PanelIsCurrent
CHECK_DEADLOCK FALSE
