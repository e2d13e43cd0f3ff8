SPECIFICATION PoliciesSpec
CONSTANTS
    Mounted <- Mounts
    MaxRules = 3
    Document <- GitHubFiles
    Claims <- AllClaims
    Id <- Ids
    DecimalId = {"7", "8", "07"}
    NumericId = {"7", "8"}
    Any = "*"
    Value = {"a", "b", "c", ""}
    Empty = ""
    WellFormed <- Shapes
    Domain = {"corp", "Corp", "home"}
    CanonicalDomain = {"corp", "home"}
    Email = {"x@corp", "y@corp", "x@home", "X@corp"}
    CanonicalEmail = {"x@corp", "y@corp", "x@home"}
    DomainOf <- MailDomains
    User <- Users
    CanonicalUser = {"u1", "u2", "u3"}
    None = None
    OidcDocument <- OidcFiles
    ClaimName <- NamesOfClaims
    ValidClaimName = {"sub", "ref", "env", "aud"}
    Reserved = {"aud"}
    Sub = "sub"
    ClaimValue = {"a", "b", ""}
    ValidClaimValue = {"a", "b"}
    Issuer = {"x", "y", "z", "http"}
    ValidIssuer = {"x", "y", "z"}
    Audience = {"us", ""}
    ValidAudience = {"us"}
    OidcTask = {"build", "deploy", "bad"}
    ValidOidcTask = {"build", "deploy"}
    MaxProviders = 2
    MaxBindings = 3
    MaxClaims = 2
    NoClaim = NoClaim
    WorkloadDocument <- WorkloadFiles
    Segment = {"a", "b", "", "*"}
    ExactSegment = {"a", "b"}
    Role = {"x", "y", "*"}
    ExactRole = {"x", "y"}
    Task = {"job", "bad"}
    ValidTask = {"job"}
    NoTask = NoTask
INVARIANTS
    VerdictIsOrderFree OneRulePerClaims UsersAreNotShared
    OidcVerdictIsExact ExtraClaimsChangeNothing
    WorkloadVerdictIsExact SubjectsAreNotShared
PROPERTIES LoadingDecides
\* A loaded or refused set of policies is the end.
CHECK_DEADLOCK FALSE
