SPECIFICATION SweepSpec
CONSTANTS
    d1 = d1
    d2 = d2
    m1 = m1
    m2 = m2
    p1 = p1
    p2 = p2
    NoPerson = NoPerson
    NoChannel = NoChannel
    NoMention = NoMention
    Doc = {d1, d2}
    Mention = {m1, m2}
    Person = {p1, p2}
    Channel = {}
    Claim = {1, 2, 3}
    DocOf <- Places
    ChannelOf <- NoChannels
    AddressOf <- NoAddress
    MayBe <- Nobody
    ShortFormOf <- Nobody
    ClaimDoc <- Origin
    SpanOf <- OwnSpan
    SubjectMention <- Subject
    SubjectName <- SameName
    Predicate <- SamePred
    Contestable = {1, 2, 3}
    Object <- Values
    BatchSize = 1
    MaxSweeps = 3
    MaxChanges = 4
INVARIANT SweepTypeOK
INVARIANT SweepExact
CHECK_DEADLOCK FALSE
