\* Parts that share no state, each behaviour about one of them.
SPECIFICATION PartsSpec
CONSTANTS
    Parts = {"listener", "access", "services", "install", "places", "copy", "logs",
             "history", "checks", "config", "metrics", "docker", "alerts", "publish", "schedule"}
    t1 = t1
    t2 = t2
    \* McpListener
    Tab = {t1, t2}
    Boot = boot
    Port = {3030, 3031}
    FirstPort = 3030
    NoServer = NoServer
    Dead = Dead
    MaxKeys = 2
    \* McpAccess
    claude = claude
    k1 = k1
    robot = robot
    Assistant = {claude}
    Key = {k1}
    Account = {robot}
    KeyAccount <- MCKeyAccount
    Permission = {"sessions.manage", "settings.manage"}
    Tool <- MCTools
    Release = {r1, r2}
    FailureLimit = 1
    \* HostServices and HostInstall
    m1 = m1
    s1 = s1
    o1 = o1
    s2 = s2
    ServiceTab = {t1, t2}
    ServiceModule = {m1}
    Service = {s1, s2}
    TaskBase <- MCTaskBase
    EntryId = {e1, e2}
    Ask = {q1}
    InstallTab = {t1, t2}
    InstallModule = {m1}
    Package = {p1}
    Order = {o1, o2}
    QuestionLimit = 1
    \* Locations
    disk = disk
    docs = docs
    app = app
    c1 = c1
    c2 = c2
    Folder = {disk, docs, app}
    Holds <- MCHolds
    Spelling = {n1, n2}
    Spells <- MCSpells
    Drive = {disk}
    Barred = {app}
    FileModule = {m1}
    Asker = {c1, c2}
    ModuleOf <- MCModuleOf
    Declares <- MCDeclares
    AdminPage = {t1, t2}
    Wish = {w1, w2}
    \* CopyEngine
    key = key
    note = note
    safe = safe
    data = data
    sub = sub
    i1 = i1
    i2 = i2
    i3 = i3
    i4 = i4
    pw = pw
    tx = tx
    File = {key, note, safe}
    Subfolder = {sub, data}
    Inside <- MCInside
    SecretPath = {key}
    SecretFolder = {data}
    Ident = {i1, i2, i3, i4}
    Content = {pw, tx}
    SizeOf <- MCSize
    TimeOf <- MCTime
    Small = {pw}
    \* RunLogs
    l1 = l1
    x1 = x1
    LogRun = {l1, l2}
    Event = {x1, x2, x3}
    FlushEvery = 2
    DetailLimit = 1
    KeepRuns = 1
    \* HealthHistory
    Watched = {web}
    HourTicks = 2
    FoldAfter = 2
    KeepFor = 4
    LastTick = 5
    \* HealthChecks
    Timeout = 3
    SpeedTimeout = 4
    LegFloor = 1
    MaxRedirects = 2
    Samples = 2
    WarnDays = 14
    Status = {200, 302, 404}
    Expectation <- MCExpectation
    DaysLeft <- MCDaysLeft
    LastMoment = 20
    \* HealthConfig
    web = web
    ops = ops
    mail = mail
    MonitorName <- MCMonitors
    ChannelName <- MCChannels
    ConfigTab = {t1, t2}
    Document <- MCDocuments
    \* HostMetrics and DockerControl
    sda = sda
    eth0 = eth0
    Device = {sda, eth0}
    SourceOf <- MCSourceOf
    CounterEnd = 2
    Container = {web}
    ActionPage = {t1, t2}
    \* BackupAlerts
    Herald = {t1, t2}
    Ticker = t1
    AlertJob = {c1, c2}
    AlertRun = {l1, s1}
    Window = {0, 2}
    DigestEvery = 2
    LastHour = 3
    Never <- MCNever
    \* Publishing
    Version <- MCVersions
    \* BackupSchedule
    Schedules <- MCSchedules
    Starts <- MCStarts
    Span = 216
    Lag = {0, 1, 30}
INVARIANTS PartsTypeOK ListenerMatchesSettings CallsWereAllowed GrantsAreAccountedFor RequestsAreAnsweredOnce
    OnlyOwnIsRemoved ReachWasApproved DeclinesAreRemembered DoneMeansAccountedFor SecretsStay SkipsAreOnRecord
    WholeHoursAreKept ChecksEndInTime RoutesWereChosen RatesAreHonest DoneIsDone NobodyIsToldTwice
    PublishedIsUsable DueAtNextMoment
CHECK_DEADLOCK FALSE
