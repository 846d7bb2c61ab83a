SPECIFICATION Spec
CONSTANTS
    d1 = d1
    d2 = d2
    m1 = m1
    m2 = m2
    m3 = m3
    p1 = p1
    p2 = p2
    ch = ch
    NoAsk = NoAsk
    NoDoc = NoDoc
    NoPerson = NoPerson
    NoChannel = NoChannel
    NoMention = NoMention
    Asks = {a1}
    Doc = {d1, d2}
    Corpus = {d1, d2}
    Mention = {}
    Person = {p1, p2}
    Channel = {ch}
    Claim = {1, 2}
    DocOf <- Places
    ChannelOf <- NoChannels
    AddressOf <- Addresses
    MayBe <- Nobody
    ShortFormOf <- Nobody
    ClaimDoc <- RivalDoc
    SpanOf <- OwnSpan
    SubjectMention <- NoSubject
    SubjectName <- SameName
    Predicate <- SamePred
    Contestable = {1, 2}
    Object <- Values
    TicketsOf <- OneTicket
    Budget = 2
    MaxQuestions = 2
    MaxFaults = 0
    MaxCrashes = 1
INVARIANT AssertedIsReadable
CHECK_DEADLOCK FALSE
