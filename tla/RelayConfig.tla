---------------------------- MODULE RelayConfig -----------------------------
(***************************************************************************)
(* What relay makes of its configuration (config.go, NewService,           *)
(* NewNotifier, HTTPHandler), and what a restart on a changed file does to *)
(* the notification jobs that were queued before it.                       *)
(*                                                                         *)
(* A job names its channel by site and channel name; the robot it goes to  *)
(* is looked up when it is sent.  Pauses, retries and receipts are in      *)
(* NotifyQueue: here a job that is tried is sent, fails, or stays queued.  *)
(* A save writes the whole store, or fails and leaves the file of it as it *)
(* was.                                                                    *)
(***************************************************************************)
EXTENDS Naturals, Sequences, FiniteSets, TLC, SequencesExt

CONSTANTS
    Site, Robot, Name, Path,
    Event,         \* names of events, with "callback_failed" and its old alias
    Raw,           \* what the file may hold, see RawConfig
    MaxRaised      \* bound: events raised in a behaviour

Unset == ""
DefaultPath == "/api/v1/harbor/webhook"

\* yaml as it is read: what is left out is Unset, also for the *bool flags.
Flag == {Unset, "true", "false"}
RawWebhook == [name : Name \cup {Unset}, path : Path \cup {Unset}, enabled : Flag]
RawChannel ==
    [name : Name \cup {Unset}, robot : Robot, enabled : Flag, events : SUBSET Event]

RawTarget ==
    [name : Site, siteName : Site \cup {Unset}, enabled : Flag, notifications : Seq(RawChannel)]

\* The single webhook of older files, the list of webhooks, and the targets.
RawConfig == [webhook : RawWebhook, webhooks : Seq(RawWebhook), targets : Seq(RawTarget)]

ASSUME ConfigAssumption ==
    /\ Raw \subseteq RawConfig
    /\ {"queued", "done", "failed", "callback_failed"} \subseteq Event
    /\ MaxRaised \in Nat

VARIABLES
    file,     \* relay.yaml
    stage,    \* "down", "starting" until HTTPHandler is built, "up"
    loaded,   \* history: the file this process has read
    jobs,     \* NotificationJobs that are pending or retrying, in the store of this
              \* process, or of the last one while relay is down
    disk,     \* the same in the file of the store
    gone,     \* history: jobs that failed for good
    sent,     \* history: messages robots got
    raised,   \* history: the events raised
    unsaved,  \* history: events whose jobs no save has succeeded with yet
    lost      \* history: those of them that were unsaved when their process ended

vars == <<file, stage, loaded, jobs, disk, gone, sent, raised, unsaved, lost>>

-----------------------------------------------------------------------------
(* config.go: defaults.                                                    *)

IsEnabled(x) == x.enabled # "false"

OrElse(v, default) == IF v = Unset THEN default ELSE v

Webhooks_legacyToo_bug(raw) ==
    LET ws == Append(raw.webhooks, raw.webhook)
    IN  [i \in DOMAIN ws |-> [ws[i] EXCEPT !.name = OrElse(@, "webhook-" \o ToString(i)),
                                           !.path = OrElse(@, DefaultPath)]]

Webhooks(raw) ==
    LET ws == IF raw.webhooks = <<>> THEN <<raw.webhook>> ELSE raw.webhooks
    IN  [i \in DOMAIN ws |-> [ws[i] EXCEPT !.name = OrElse(@, "webhook-" \o ToString(i)),
                                           !.path = OrElse(@, DefaultPath)]]

SiteOf(target) == OrElse(target.siteName, target.name)

Channels_fromZero_bug(target) ==
    [j \in DOMAIN target.notifications |->
        [target.notifications[j] EXCEPT
            !.name = OrElse(@, SiteOf(target) \o "-notify-" \o ToString(j - 1))]]

\* Names that are left out are made from the site and the position in the file.
Channels(target) ==
    [j \in DOMAIN target.notifications |->
        [target.notifications[j] EXCEPT
            !.name = OrElse(@, SiteOf(target) \o "-notify-" \o ToString(j))]]

LoadRelayConfig(raw) ==
    [webhooks |-> Webhooks(raw),
     targets |-> [i \in DOMAIN raw.targets |->
        [siteName |-> SiteOf(raw.targets[i]),
         enabled |-> raw.targets[i].enabled,
         notifications |-> Channels(raw.targets[i])]]]

-----------------------------------------------------------------------------
(* NewService, HTTPHandler: entry points.                                  *)

\* s.webhooks: enabled or not, the last webhook with a path is kept.
webhookAt(cfg, path) ==
    LET at == {i \in DOMAIN cfg.webhooks : cfg.webhooks[i].path = path}
    IN  cfg.webhooks[CHOOSE i \in at : \A k \in at : k <= i]

\* The mux holds the enabled ones and the paths of the API, and panics when a path
\* comes twice.  Paths are plain, without methods, hosts or wildcards of the mux.
Registered(cfg) == {i \in DOMAIN cfg.webhooks : IsEnabled(cfg.webhooks[i])}

FixedPaths == {"/healthz", "/api/v1/tasks", "/api/v1/tasks/", "/api/v1/agents",
               "/api/v1/notification-jobs"}

MuxPanics(cfg) == \E i \in Registered(cfg) :
    \/ cfg.webhooks[i].path \in FixedPaths
    \/ \E k \in Registered(cfg) \ {i} : cfg.webhooks[i].path = cfg.webhooks[k].path

Entries(cfg) == {cfg.webhooks[i].path : i \in Registered(cfg)}

-----------------------------------------------------------------------------
(* NewNotifier, MatchingChannels, GetChannel.  A channel is named by its   *)
(* place: the target, and the position in it.                              *)

At(cfg, place) == cfg.targets[place[1]].notifications[place[2]]

Places(cfg, targets) ==
    UNION {{i} \X DOMAIN cfg.targets[i].notifications : i \in targets}

\* Targets the notifier keeps: enabled ones with channels.
Notifying(cfg, site) ==
    {i \in DOMAIN cfg.targets : /\ cfg.targets[i].siteName = site
                                /\ IsEnabled(cfg.targets[i])
                                /\ cfg.targets[i].notifications # <<>>}

\* notificationsBySite: of several targets for a site the last one counts.
notificationsBySite(cfg, site) ==
    LET ts == Notifying(cfg, site)
    IN  Places(cfg, {i \in ts : \A k \in ts : k <= i})

\* notificationByKey, as the channels with a key: the channels of all such targets
\* count.
keyed_anySite_bug(cfg, site, name) ==
    {p \in Places(cfg, DOMAIN cfg.targets) : At(cfg, p).name = name}

keyed(cfg, site, name) ==
    {p \in Places(cfg, Notifying(cfg, site)) : At(cfg, p).name = name}

\* The last channel with a key is the one that is found.
GetChannel(cfg, site, name) ==
    {p \in keyed(cfg, site, name) : \A q \in keyed(cfg, site, name) :
        q[1] < p[1] \/ (q[1] = p[1] /\ q[2] <= p[2])}

canonicalEventName(event) == IF event = "callback_pending" THEN "callback_failed" ELSE event

supportsEvent_plain_bug(events, event) ==
    IF events = {} THEN event # "pulling" ELSE event \in events

supportsEvent(events, event) ==
    IF events = {}
    THEN event \in {"queued", "done", "failed", "callback_failed"}
    ELSE \E e \in events : canonicalEventName(e) = canonicalEventName(event)

MatchingChannels(cfg, site, event) ==
    {p \in notificationsBySite(cfg, site) :
        IsEnabled(At(cfg, p)) /\ supportsEvent(At(cfg, p).events, event)}

-----------------------------------------------------------------------------

cfg == LoadRelayConfig(loaded)

\* An event was raised: where, which, and by which configuration.
Raised == [site : Site, event : Event, by : Raw]

\* A job, and as history the robot of the channel it was queued for.
Positions == UNION {UNION {DOMAIN raw.targets[i].notifications : i \in DOMAIN raw.targets} :
                       raw \in Raw}
ChannelName == Name \cup {s \o "-notify-" \o ToString(j) : s \in Site, j \in Positions}
Job == [of : 1..MaxRaised, name : ChannelName, owner : Robot]

TypeOK ==
    /\ file \in Raw /\ loaded \in Raw
    /\ stage \in {"down", "starting", "up"}
    /\ raised \in Seq(Raised) /\ Len(raised) <= MaxRaised
    /\ jobs \in SUBSET Job /\ disk \in SUBSET Job
    /\ gone \in SUBSET [job : Job, by : Raw]
    /\ sent \in SUBSET [job : Job, by : Raw, robot : Robot]
    /\ unsaved \in SUBSET DOMAIN raised /\ lost \in SUBSET DOMAIN raised
    /\ \A j \in jobs \cup disk \cup {g.job : g \in gone} \cup {m.job : m \in sent} :
          j.of \in DOMAIN raised

Init ==
    /\ file \in Raw
    /\ stage = "down"
    /\ loaded = file
    /\ jobs = {} /\ disk = {} /\ gone = {} /\ sent = {}
    /\ raised = <<>> /\ unsaved = {} /\ lost = {}

tables == <<jobs, disk, gone, sent, raised, unsaved, lost>>

Edit ==
    /\ file' \in Raw \ {file}
    /\ UNCHANGED <<stage, loaded, tables>>

\* main up to StartBackground: from here on the dispatcher runs, on the jobs the file
\* of the store has.
Start ==
    /\ stage = "down"
    /\ stage' = "starting"
    /\ loaded' = file
    /\ jobs' = disk
    /\ lost' = lost \cup unsaved
    /\ unsaved' = {}
    /\ UNCHANGED <<file, disk, gone, sent, raised>>

\* net.Listen and HTTPHandler, which may panic.
Serve ==
    /\ stage = "starting"
    /\ stage' = IF MuxPanics(cfg) THEN "down" ELSE "up"
    /\ UNCHANGED <<file, loaded, tables>>

\* net.Listen fails, or the process ends.
Stop ==
    /\ stage # "down"
    /\ stage' = "down"
    /\ UNCHANGED <<file, loaded, tables>>

\* saveLocked at the end of an operation of the store, here after event n; none is 0.
Save(n) ==
    \/ disk' = jobs' /\ unsaved' = {}
    \/ disk' = disk /\ unsaved' = unsaved \cup ({n} \ {0})

\* notifyTaskEvent for a task that has not raised the event before.  Channels of
\* one name make the same job id, and the first one is kept.
NewJobs(config, n, places) ==
    {[of |-> n, name |-> At(config, p).name, owner |-> At(config, p).robot] :
        p \in {q \in places : \A o \in places :
                  o[2] < q[2] => At(config, o).name # At(config, q).name}}

\* The error of a save that fails is logged; without jobs there is none.
Raise(site, event) ==
    /\ stage = "up"
    /\ Len(raised) < MaxRaised
    /\ raised' = Append(raised, [site |-> site, event |-> event, by |-> loaded])
    /\ LET n == Len(raised) + 1
           new == NewJobs(cfg, n, MatchingChannels(cfg, site, event))
       IN  /\ jobs' = jobs \cup new
           /\ IF new = {} THEN UNCHANGED <<disk, unsaved>> ELSE Save(n)
    /\ UNCHANGED <<file, stage, loaded, gone, sent, lost>>

\* dispatchNotificationJob, up to an answer that settles the job.
Deliverable(j) ==
    {p \in GetChannel(cfg, raised[j.of].site, j.name) : IsEnabled(At(cfg, p))}

Fail(j) ==
    /\ Deliverable(j) = {}
    /\ gone' = gone \cup {[job |-> j, by |-> loaded]}
    /\ UNCHANGED sent

Send(j) ==
    /\ \E p \in Deliverable(j) :
          sent' = sent \cup {[job |-> j, by |-> loaded, robot |-> At(cfg, p).robot]}
    /\ UNCHANGED gone

Dispatch(j) ==
    /\ stage # "down"
    /\ Fail(j) \/ Send(j)
    /\ jobs' = jobs \ {j}
    /\ Save(0)
    /\ UNCHANGED <<file, stage, loaded, raised, lost>>

\* Any other operation of the store, of tasks and agents.
OtherSave ==
    /\ stage # "down"
    /\ UNCHANGED <<file, stage, loaded, jobs, gone, sent, raised, lost>>
    /\ Save(0)

Next ==
    \/ Edit \/ Start \/ Serve \/ Stop \/ OtherSave
    \/ \E site \in Site, event \in Event \ {"callback_pending"} : Raise(site, event)
    \/ \E j \in jobs : Dispatch(j)

Spec == Init /\ [][Next]_vars

-----------------------------------------------------------------------------
(* What the file says, read without the code's tables.                     *)

TargetsOf(raw, site) == {i \in DOMAIN raw.targets : SiteOf(raw.targets[i]) = site}

ChannelsOf(raw, site) ==
    UNION {ToSet(raw.targets[i].notifications) : i \in {t \in TargetsOf(raw, site) :
                                                        IsEnabled(raw.targets[t])}}

\* One target for the site, and no two of its channels with one name.
Identified(raw, site) ==
    /\ Cardinality(TargetsOf(raw, site)) <= 1
    /\ \A i \in TargetsOf(raw, site) :
          LET cs == Channels(raw.targets[i])
          IN  IsInjective([k \in DOMAIN cs |-> cs[k].name])

\* Both files name every channel of the site, and a name keeps its robot.
NamesKept(raw1, raw2, site) ==
    raw1 = raw2 \/ \A c \in ChannelsOf(raw1, site), d \in ChannelsOf(raw2, site) :
                      /\ c.name # Unset /\ d.name # Unset
                      /\ c.name = d.name => c.robot = d.robot

Subscribes(c, event) ==
    \/ event \in c.events
    \/ event = "callback_failed" /\ "callback_pending" \in c.events
    \/ c.events = {} /\ event \in {"queued", "done", "failed", "callback_failed"}

SiteOfJob(j) == raised[j.of].site

\* A message goes to the robot of the channel it was queued for, over restarts and
\* edits of the file, if the files give every channel of the site a name of its own
\* and do not move a name to another robot (GetChannel, notificationByKey).
ReachesItsChannel ==
    \A m \in sent :
        LET by == raised[m.job.of].by IN
        /\ Identified(by, SiteOfJob(m.job))
        /\ Identified(m.by, SiteOfJob(m.job))
        /\ NamesKept(by, m.by, SiteOfJob(m.job))
        => m.robot = m.job.owner

Subscribers(r) ==
    {c.robot : c \in {d \in ChannelsOf(r.by, r.site) : IsEnabled(d) /\ Subscribes(d, r.event)}}

\* Who the jobs of event n are for, of those in a table and those given up or sent.
OwnersOf(n, table) ==
    {j.owner : j \in {i \in table \cup {g.job : g \in gone} \cup {m.job : m \in sent} : i.of = n}}

\* An event has jobs only for enabled channels that subscribe to it, by the file that was
\* read when it was raised.  If the file identifies the channels of the site each of them
\* has one, over restarts and edits, in memory and in the file of the store, until it is
\* sent or given up: a job is lost without a trace only if the process ends before any
\* save has succeeded since it was queued (MatchingChannels, EnqueueNotificationJobs).
EverySubscriberHasAJob ==
    \A n \in DOMAIN raised :
        LET due == Subscribers(raised[n])
            identified == Identified(raised[n].by, raised[n].site)
        IN  /\ OwnersOf(n, jobs \cup disk) \subseteq due
            /\ identified /\ n \notin lost => due \subseteq OwnersOf(n, jobs)
            /\ identified /\ n \notin lost \cup unsaved => due \subseteq OwnersOf(n, disk)

\* A job is given up only by a process whose file has no enabled channel of its name
\* for its site (dispatchNotificationJob): other sites and other channels do not cost
\* a message, nor does a process that has only begun to start.
GivenUpOnlyIfRemoved ==
    \A g \in gone :
        LET site == SiteOfJob(g.job) IN
        Identified(g.by, site) =>
            ~\E i \in TargetsOf(g.by, site) :
                /\ IsEnabled(g.by.targets[i])
                /\ \E c \in ToSet(Channels(g.by.targets[i])) :
                      IsEnabled(c) /\ c.name = g.job.name

\* A queued job meets its own channel again in every process that finds it, or none.
JobsKeepTheirChannel == ReachesItsChannel /\ GivenUpOnlyIfRemoved

\* Relay serves the paths of the webhooks the file enables and none of them takes a path
\* of its API; it panics only on a file in which an enabled webhook has the path of
\* another one or of the API.  An enabled webhook is served with its own settings unless
\* a later one, enabled or not, has its path (NewService, HTTPHandler).
EntriesAreConfigured ==
    LET written == IF loaded.webhooks = <<>> THEN <<loaded.webhook>> ELSE loaded.webhooks
        pathOf(i) == OrElse(written[i].path, DefaultPath)
        on == {i \in DOMAIN written : written[i].enabled # "false"}
        taken(i) == pathOf(i) \in FixedPaths \cup {pathOf(k) : k \in on \ {i}}
    IN  /\ stage = "up" => /\ Entries(cfg) = {pathOf(i) : i \in on}
                           /\ ~\E i \in on : taken(i)
        /\ MuxPanics(cfg) => \E i \in on : taken(i)
        /\ \A i \in on : (\A k \in DOMAIN written : k > i => pathOf(k) # pathOf(i)) =>
              /\ webhookAt(cfg, pathOf(i)).enabled = written[i].enabled
              /\ written[i].name # Unset =>
                    webhookAt(cfg, pathOf(i)).name = written[i].name
=============================================================================
