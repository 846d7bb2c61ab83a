SPECIFICATION Spec
CONSTANTS
    d1 = d1
    d2 = d2
    d3 = d3
    m1 = m1
    m2 = m2
    m3 = m3
    m4 = m4
    m5 = m5
    m6 = m6
    m7 = m7
    p1 = p1
    p2 = p2
    p3 = p3
    ch = ch
    NoPerson = NoPerson
    NoChannel = NoChannel
    NoRun = NoRun
    Doc = {d1, d2, d3}
    Mention = {m1, m2, m3, m4, m5, m6, m7}
    Person = {p1, p2, p3}
    Channel = {ch}
    DocOf <- Places
    ChannelOf <- Channels
    AddressOf <- Addresses
    MayBe <- Names
    ShortFormOf <- Nobody
    Run = {r1, r2}
    BatchSize = 4
    MaxLoads = 2
INVARIANT OneResolution
CHECK_DEADLOCK FALSE
