SPECIFICATION Spec
CONSTANTS
    d1 = d1
    d2 = d2
    d3 = d3
    NoKey = NoKey
    NoDoc = NoDoc
    Bare = Bare
    NoRoot = NoRoot
    Address = {1, 2, 3, 4}
    Doc = {d1, d2, d3}
    Name = {"ana li", "ana de li", "ana"}
    Full = {"ana li", "ana de li"}
    LocalName <- Locals
    Root = {10, 20, 30, 40}
    RootOf <- Roots
    SameOrg <- Spelled
    Mentions <- Letters
    EmailCap = 2
    DomainCap = 2
    MaxCommits = 4
    MaxFailures = 1
    MaxKills = 4
    MaxRebuilds = 2
INVARIANT TypeOK
INVARIANT AddressLeadsHome
INVARIANT PersistedStay
INVARIANT OneOrganisation
INVARIANT OneIdentityPerOrganisation
PROPERTY DecisionsKept
CHECK_DEADLOCK FALSE
