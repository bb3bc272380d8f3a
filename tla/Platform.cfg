SPECIFICATION Spec
CONSTANTS
    Parts = {"humanTasks", "signIn", "serviceTasks", "access", "catalog", "definitions",
             "taskRows", "runner", "dataStores", "messageDefinitions", "migration",
             "reports", "git", "imports", "forms", "progress", "history"}
    Unset = Unset
    u1 = u1
    u2 = u2
    g1 = g1
    g2 = g2
    t1 = t1
    p1 = p1
    p2 = p2
    th1 = th1
    th2 = th2
    Guest = guest
    Users = {u1, u2, guest}
    NoUser = NoUser
    Initiator = u1
    Groups = {g1, g2}
    DefaultGroup = g2
    Anybody = Anybody
    HTasks = {t1}
    NoTask = NoTask
    Definition <- OneDefinition
    Lanes <- LaneSet
    NoLane = NoLane
    Claims <- ClaimSets
    YamlGroups <- Yaml
    MaxChanges = 2
    Persons = {p1, p2}
    Threads = {th1, th2}
    NoToken = NoToken
    Rotates = TRUE
    MaxRefresh = 2
    MaxKeys = 2
    MaxServed = 2
    Retries = 2
    Backoff = 2
    Interval = 3
    Lookahead = 3
    Upstream = {0, 404, 429}
    Savers = {th1, th2}
    Parsed <- ParsedModels
    NameOf <- ProcessNames
    TaskSpecs <- SpecsOf
    NoHash = NoHash
    MaxRows = 4
    MaxSaves = 2
    MaxCommits = 4
    ContentsOf <- ModelVersions
    Owners <- OwnersOf
    MaxEvents = 2
    Contents = {"c"}
    FormKinds <- TwoForms
    Validates = FALSE
    TaskKinds <- Automatic
    MaxTasks = 2
    Tabs = {th1, th2}
    StoreModels = {"a/m", "b/n"}
    Upsearch <- StoreUpsearch
    Locations = {"", "a"}
    Bodies <- StoreBodies
    MaxRequests = 1
    MessageModels = {"a/m", "a/b/k"}
    GroupsAbove <- MessageUpsearch
    InGroup <- BelowGroup
    MessageGroups = {"a", "a/b"}
    Names = {"n"}
    MaxPersists = 2
    TaskKind <- RunKinds
    Before <- OneByOne
    HistoryCap = 2
    MaxSteps = 3
    People = {"ann", "svc"}
    Service = "svc"
    Teams = {"g1", "g2"}
    DefaultTeam = "g2"
    Configurations <- Configs
    Words <- WordSet
    Uris <- UriSet
    MaxEdits = 2
CHECK_DEADLOCK FALSE
INVARIANT TypesOK
 
INVARIANT SignInSound
 
 
 
INVARIANT DefinitionsSound
INVARIANT TaskRowsSound
INVARIANT RunnerSound
 
 
 
INVARIANT ReportsSound
INVARIANT GitSound
INVARIANT ImportsSound
INVARIANT FilesSound
INVARIANT ProgressSound
INVARIANT HistorySound
PROPERTY CompletedOnce
