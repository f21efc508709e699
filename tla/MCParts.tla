------------------------------ MODULE MCParts -------------------------------
(***************************************************************************)
(* Instances of the parts of the system that share no state with each      *)
(* other.  A behaviour is about one of them, chosen in the initial state;  *)
(* where a part is large, it is about one side of it as well (focus).      *)
(***************************************************************************)
EXTENDS McpListener, McpAccess, HostServices, HostInstall, Locations, CopyEngine,
        RunLogs, HealthHistory, HealthChecks, HealthConfig, HostMetrics, DockerControl,
        BackupAlerts, Publishing, MCBackupSchedule, MCFigures, TLC

CONSTANTS
    Parts,                                     \* the parts to be checked
    t1, t2,                                    \* tabs
    claude, k1, robot,                         \* McpAccess
    m1, s1, s2, o1, disk, docs, app, c1, c2,   \* HostServices, Locations
    key, note, safe, data, sub, i1, i2, i3, i4, pw, tx,   \* CopyEngine
    web, ops, mail,                       \* HealthConfig
    l1, x1,                                    \* RunLogs
    sda, eth0                                  \* HostMetrics

VARIABLES part, focus

-----------------------------------------------------------------------------
(* Constants that are functions or records. *)

MCKeyAccount == [k \in {k1} |-> robot]
MCTools == {"list_services", "list_modules", "check_for_updates", "revoke_session", "set_module_enabled",
            "apply_update", "create_backup", "shutdown_server"}
MCTaskBase == [s \in {s1, s2} |-> "b"]      \* two services, one task name
MCHolds == {<<f, f>> : f \in {disk, docs, app}} \cup {<<disk, docs>>, <<disk, app>>}
MCSpells == [s \in Spelling |-> docs]
MCModuleOf == [c \in {c1, c2} |-> m1]
MCDeclares == [m \in {m1} |-> Verb]
MCInside == (key :> "top") @@ (note :> sub) @@ (safe :> data)
MCSize == [c \in {pw, tx} |-> 1]
MCTime == (pw :> 1) @@ (tx :> 2)
MCIdOf == (key :> i1) @@ (note :> i2) @@ (safe :> i3)
MCExpectation ==
    {[form |-> "unset", low |-> 0, high |-> 0], [form |-> "exact", low |-> 302, high |-> 0],
     [form |-> "class", low |-> 4, high |-> 0], [form |-> "range", low |-> 200, high |-> 302]}
MCDaysLeft == {-1, 3, 40}
MCMonitors == <<web>>
MCChannels == <<mail, ops>>
MCDocuments == {[channels |-> {mail}, monitors |-> {web}, picks |-> {mail}]}
MCNever == -9
MCVersions == [line : {1, 2, 3}, pre : {0}] \cup {[line |-> 2, pre |-> 9]}
MCSourceOf == (sda :> "diskIo") @@ (eth0 :> "networkIo")

-----------------------------------------------------------------------------
Others(p) ==
    /\ UNCHANGED <<part, focus>>
    /\ p # "listener" => UNCHANGED listenerVars
    /\ p # "access"   => UNCHANGED accessVars
    /\ p # "services" => UNCHANGED servicesVars
    /\ p # "install"  => UNCHANGED installVars
    /\ p # "places"   => UNCHANGED locationVars
    /\ p # "copy"     => UNCHANGED copyVars
    /\ p # "logs"     => UNCHANGED logVars
    /\ p # "history"  => UNCHANGED historyVars
    /\ p # "checks"   => UNCHANGED checkVars
    /\ p # "config"   => UNCHANGED configVars
    /\ p # "metrics"  => UNCHANGED metricsVars
    /\ p # "docker"   => UNCHANGED dockerVars
    /\ p # "alerts"   => UNCHANGED alertVars
    /\ p # "publish"  => UNCHANGED publishVars
    /\ p # "schedule" => UNCHANGED vars

\* Once something changed under a start, all that is left is a restart.
ListenerPart ==
    /\ part = "listener"
    /\ (~strayed /\ ListenerNext) \/ RestartProcess
    /\ Others("listener")

\* One tool is called; what other tools ask for stays as it is.
AccessPart ==
    /\ part = "access"
    /\ \/ \E c \in Assistant :
             \/ Turn(c)
             \/ \E k \in Key, arg \in Argument(focus) : Receive(c, k, focus, arg)
             \/ Dispatch(c) \/ VerifyKey(c) \/ ResolveAccount(c) \/ DecideCall(c) \/ TouchKey(c)
             \/ Examine(c) \/ RecordCall(c)
             \/ RevokeSession(c) \/ ActOnPlatform(c) \/ EndProcess(c)
             \/ WindowPasses(c)
       \/ \E k \in Key : RevokeKey(k) \/ \E m \in Mode : MintKey(k, m) \/ SetKeyMode(k, m)
       \/ \E a \in Account :
             \/ RevokeKeysForAccount(a)
             \/ \E s \in {"active", "inactive", "gone"} : ChangeAccount(a, s)
             \/ \E p \in Permission \cap {Needs(focus).permission} : ChangeRoles(a, p)
       \/ focus = "shutdown_server" /\ \E on \in BOOLEAN : AllowShutdown(on)
       \/ focus = "revoke_session" /\ \E s \in {"user", "admin", "gone"} : ChangeSession(s)
       \/ focus = "apply_update" /\ \E r \in Release : Publish(r)
    /\ Others("access")

\* The list and its grants, with two tabs at work; requests, with one of them
\* at the list, which does not work on it when the helper goes; or the switches
\* beside them.
ServicesPart ==
    /\ part = "services"
    /\ \/ /\ focus # "switches"
          /\ \/ \E w \in ServiceTab :
                   \/ \E s \in Service, c \in BOOLEAN : (focus = "list" \/ (w = t1 /\ s = s1)) /\ AddEntry(w, s, c)
                   \/ CreateGrants(w) \/ InsertEntry(w)
                   \/ \E id \in EntryId : (focus = "list" \/ w = t1) /\ RemoveEntry(w, id)
                   \/ RemoveGrants(w) \/ DeleteEntry(w)
             \/ StopProcess
       \/ (focus = "asks" => handler[t1] = Resting) /\ UninstallHelper
       \/ /\ focus = "switches"
          /\ \/ \E on \in BOOLEAN : SetUnbounded(on)
             \/ \E m \in ServiceModule : Suggest(m)
       \/ /\ focus = "asks"
          /\ \/ \E r \in Ask : Approve(t2, r)
             \/ \E id \in EntryId : SetUnattended(id, TRUE)
             \/ \E m \in ServiceModule, r \in Ask, id \in EntryId : RequestAction(m, r, id)
             \/ \E w \in Worker : Execute(w) \/ RunGrant(w) \/ SettleOutcome(w)
             \/ \E r \in Ask : Decline(r) \/ Expire(r) \/ Age(r)
    /\ Others("services")

\* Software comes and goes by hand while nothing else is going on with it, and
\* an old request, the first made, waits alone.
InstallPart ==
    /\ part = "install"
    /\ InstallNext
    /\ (present' # present /\ job' = job) => \A w \in DOMAIN job : job[w] = NoJob
    /\ orders'[o1] = NoOrder => \A o \in Order : orders'[o] = NoOrder
    /\ old \cup old' \subseteq {o1}
    /\ (old' # {} /\ orders'[o1].state \notin {"expired", "declined"}) => \A o \in Order \ {o1} : orders'[o] = NoOrder
    /\ Others("install")

\* Calls of one kind and the approvals they rest on; or suggestions.
Approvals == [path : {docs, app}, synthetic : {FALSE}] \cup [path : {disk}, synthetic : {TRUE}]
PlacesPart ==
    /\ part = "places"
    /\ \/ /\ focus # "wishes"
          /\ \/ \E f \in {docs, app} : AddRoot(CHOOSE a \in AdminPage : TRUE, f) \/ RemoveRoot(f)
             \/ \E a \in AdminPage : InsertRoot(a)
             \/ \E v \in {"read", SwitchFor(focus, "dest")}, on \in BOOLEAN : SetEverything(v, on)
             \/ \E wanted \in [DOMAIN Sides(focus) -> Approvals] : Request(c1, focus, wanted)
             \/ \E f \in Folder : CheckPlace(c1, f)
             \/ FindRoot(c1) \/ AskSwitch(c1) \/ BeginWork(c1) \/ EndWork(c1)
             \/ \E g \in {docs, app} : Relink(docs, g)
       \/ /\ focus = "wishes"
          /\ \/ RemoveRoot(docs)
             \/ \E a \in AdminPage, w \in Wish : AcceptSuggestion(a, w)
             \/ \E a \in AdminPage : InsertRoot(a) \/ AddSuggested(a) \/ MarkAccepted(a)
             \/ \E w \in Wish : DeclineSuggestion(w)
             \/ \E c \in Asker : (\E s \in Spelling : SuggestRoot(c, s)) \/ \E w \in Wish : InsertSuggestion(c, w)
    /\ Others("places")

\* One thing happens to the tree in each run, or the run is cancelled, and one
\* thing at a time cannot be read or looked at; or the exclusion is switched
\* before a run, or until the run has asked for it.
CopyPart ==
    /\ part = "copy"
    /\ \/ CopySteps /\ (aborted' => disturbed = {} /\ focus = "tree")
       \/ /\ disturbed = {} /\ ~aborted /\ copying # NoRun /\ focus = "tree"
          /\ \/ WriteFile(key, pw) \/ WriteFile(note, pw) \/ ReplaceFile(key, i4, pw)
             \/ DeleteFile(note) \/ MoveFile(key, note)
             \/ \E x \in {"top", sub, note} : hidden = {} /\ unreadable \subseteq {x} /\ ChangeAccess(x)
             \/ \E x \in {sub, note} : unreadable = {} /\ hidden \subseteq {x} /\ ChangeStat(x)
       \/ /\ focus = "switch" /\ copying.at \in {"off", "identities", "switch"}
          /\ \E on \in BOOLEAN : SetExclusion(on)
    /\ Others("copy")

\* One run reports, a copy and two errors; the other is there to be pruned for, or to be pruned.
LogsPart ==
    /\ part = "logs"
    /\ \/ \E r \in LogRun :
             OpenLog(r) \/ OpenedLog(r) \/ CloseLog(r) \/ AppendLands(r) \/ AppendFails(r) \/ DeleteLog(r)
       \/ LogCopied(l1, x1)
       \/ \E e \in Event \ {x1} : LogAlways(l1, e)
       \/ \E young \in 0..Cardinality(LogRun) : BeginPruneLogs(young)
       \/ StopLogging
    /\ Others("logs")

\* A monitor deleted beside a check or a fold is excused, and not followed.
HistoryPart == part = "history" /\ HistoryNext /\ mixed' = {} /\ Others("history")
ChecksPart == part = "checks" /\ ChecksNext /\ Others("checks")
ConfigPart == part = "config" /\ ConfigNext /\ Others("config")

\* An interface only comes and goes.
MetricsPart ==
    /\ part = "metrics"
    /\ \/ Move(sda)
       \/ \E d \in Device : Appear(d) \/ Vanish(d)
       \/ \E groups \in SUBSET Source : BeginSnapshot(groups)
       \/ \E s \in Source : ReadBefore(s) \/ ReadAfter(s)
       \/ WaitEnds \/ ShowRates
    /\ Others("metrics")

\* A verb on one page against another on the next.
DockerPart ==
    /\ part = "docker"
    /\ \/ \E c \in Container : ContainerAction(t1, c, focus) \/ ContainerAction(t2, c, "stop")
       \/ \E p \in ActionPage : CannotReach(p) \/ StopWaiting(p) \/ AnswerArrives(p) \/ EngineTakes(p)
       \/ \E j \in work, well \in BOOLEAN : EngineFinishes(j, well)
       \/ \E c \in Container : ElsewhereChanges(c, "exited") \/ ElsewhereChanges(c, "running")
       \/ StopEngine \/ StartEngine \/ ForgetRequests
    /\ Others("docker")

\* One job's alerts, raised from both sides; or the summaries of the runs of a job and its copy.  Alerts that overlapped
\* are excused, and not followed.
AlertsPart ==
    /\ part = "alerts" /\ overlapped = {} /\ (focus = "told" => overlapped' = {})
    /\ \/ /\ focus = "told"
          /\ \/ \E w \in Herald :
                   \/ HoldRow(w, c1)
                   \/ RunFails(w, l1) \/ LetGo(w) \/ Deliver(w, "email", "webhook") \/ Deliver(w, "webhook", "mark")
                   \/ MarkNotified(w) \/ CutShort(w)
             \/ FindStale
             \/ ReadForSave(c1) \/ (edit[c1] # NoRow /\ RemoveJob(c1))
             \/ \E s \in {x \in Settings : x.enabled /\ x.stale = 1 /\ x.by = edit[c1].by} : WriteJob(c1, s)
       \/ /\ focus = "digest"
          /\ \/ OpenDigest \/ ReadLines \/ SendDigest \/ MarkDigestSent
             \/ StartBackup(l1, c1) \/ StartBackup(s1, c2) \/ FinishBackup(l1)
             \/ \E on \in BOOLEAN : SetDigest(on)
             \/ CloneJob(c1, c2) \/ RemoveJob(c1)
       \/ StopTelling \/ HourGoes
    /\ Others("alerts")

\* Work is done on beta, from one tag to the next; main takes it over, or gets the
\* release's number.  Only a beta is pushed without its tag, which follows while it is served;
\* and a second removal is not declared.
PublishPart ==
    /\ part = "publish"
    /\ \/ heads["beta"].lists \notin DOMAIN tags /\ ChangeSurface("beta")
       \/ Push("main", TRUE)
       \/ \E along \in {TRUE, heads["beta"].lists.pre = 0} : Push("beta", along)
       \/ PushTag(live["beta"])
       \/ DeclareVersion("beta")
       \/ \E b \in Branch : CutTag(b)
       \/ \E v \in Version : v.line = 2 /\ v.pre = 0 /\ Bump("main", v, FALSE, TRUE)
       \/ /\ heads["beta"].lists \in DOMAIN tags
          /\ \E v \in Version :
                \E breaks \in {FALSE, (v.line # 2 \/ v.pre # 0) /\ \A w \in DOMAIN tags : ~tags[w].breaks} :
                   Bump("beta", v, breaks, breaks \/ v.pre = 0)
       \/ Promote("beta", "main") \/ Promote("main", "beta")
    /\ Others("publish")

\* Edits near the ends of the wait.
SchedulePart ==
    /\ part = "schedule"
    /\ \/ \E late \in Lag : TickMarks(late)
       \/ \E s \in Schedules, t \in {now, now + 1, due - 1, due} : EditSchedule(s, t)
    /\ Others("schedule")

PartsNext ==
    \/ ListenerPart \/ AccessPart \/ ServicesPart \/ InstallPart \/ PlacesPart \/ CopyPart \/ LogsPart
    \/ HistoryPart \/ ChecksPart \/ ConfigPart \/ MetricsPart \/ DockerPart \/ AlertsPart \/ PublishPart
    \/ SchedulePart

\* The initial states of the other parts are one each.
PartsInit ==
    /\ part \in Parts
    /\ focus \in CASE part = "access" -> Tool
                   [] part = "services" -> {"list", "asks", "switches"}
                   [] part = "places" -> Errand \cup {"wishes"}
                   [] part = "docker" -> Verbs
                   [] part = "copy" -> {"tree", "switch"}
                   [] part = "alerts" -> {"told", "digest"}
                   [] OTHER -> {"all"}
    /\ ListenerInit /\ ServicesInit /\ LocationsInit /\ LogsInit
    /\ HistoryInit /\ ChecksInit /\ ConfigInit
    /\ AccessInit /\ held = [a \in Account |-> {}]
    /\ part # "access" => release = CHOOSE r \in Release : TRUE
    /\ InstallInit /\ (part # "install" => present = {})
    /\ CopyInit /\ tree[safe] = [id |-> i3, has |-> pw]
    /\ \A f \in {key, note} : tree[f] = NoFile \/ (part = "copy" /\ tree[f] = [id |-> MCIdOf[f], has |-> tx])
    /\ MetricsInit /\ (part # "metrics" => DOMAIN counter = {})
    /\ DockerInit /\ (part # "docker" => engineUp /\ \A c \in Container : container[c] = "exited")
    /\ AlertsInit /\ \A j \in AlertJob :
          IF part = "alerts" /\ j = c1 THEN jobRow[j] = [enabled |-> TRUE, every |-> 2, stale |-> 1, by |-> {"email", "webhook"}, toldAt |-> Never]
          ELSE jobRow[j] = NoRow
    /\ PublishInit
    /\ Init /\ (part # "schedule" => schedule = (CHOOSE s \in Schedules : TRUE) /\ begin = (CHOOSE t \in Starts : TRUE))

PartsSpec == PartsInit /\ [][PartsNext]_<<part, focus, listenerVars, accessVars, servicesVars, installVars,
    locationVars, copyVars, logVars, historyVars, checkVars, configVars, metricsVars, dockerVars, alertVars, publishVars, vars>>

-----------------------------------------------------------------------------
(* Every part keeps its variables what they were declared to be. *)
PartsTypeOK ==
    CASE part = "listener" -> ListenerTypeOK
      [] part = "access"   -> AccessTypeOK
      [] part = "services" -> ServicesTypeOK
      [] part = "install"  -> InstallTypeOK
      [] part = "places"   -> LocationsTypeOK
      [] part = "copy"     -> CopyTypeOK
      [] part = "logs"     -> LogsTypeOK
      [] part = "history"  -> HistoryTypeOK
      [] part = "checks"   -> ChecksTypeOK
      [] part = "config"   -> ConfigTypeOK
      [] part = "metrics"  -> MetricsTypeOK
      [] part = "docker"   -> DockerTypeOK
      [] part = "alerts"   -> AlertsTypeOK
      [] part = "publish"  -> PublishTypeOK
      [] part = "schedule" -> TRUE
=============================================================================
