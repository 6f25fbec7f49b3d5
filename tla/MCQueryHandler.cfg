SPECIFICATION FairSpec
CONSTANTS
    www = www
    version = version
    prompt = prompt
    example = example
    bind = bind
    Names = {www, version, prompt}
    Types = {"A", "NS", "TXT"}
    Zones = {example}
    ZoneOf <- Domains
    NoZone = NoZone
    Blacklist = {bind}
    Addresses = {a1}
    Files <- Filed
    Replies <- Said
    Queries = {q1, q2}
    None = None
    MaxChanges = 2
    MaxLength = 3
    MaxWidth = 3
    MaxText = 7
INVARIANTS
    TypeOK
    SteadyNamesResolve
    AnswersBelong
    OnceForZones
    PromptsAnsweredWhole
    Inv
PROPERTY EveryQueryIsAnswered
