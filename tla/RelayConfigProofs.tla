------------------------- MODULE RelayConfigProofs -------------------------
(***************************************************************************)
(* Proofs about RelayConfig, for every set of configuration files: a job   *)
(* is made for the channels that subscribe and for no other, it meets its  *)
(* own channel again in every later process, and the entry points are the  *)
(* ones the file enables.                                                  *)
(***************************************************************************)
EXTENDS RelayConfig, FiniteSetTheorems, TLAPS

-----------------------------------------------------------------------------
(* What loading a file gives.                                              *)

\* A place of a file is a target and a position in its channels.
InFile(raw, p) ==
    \E i \in DOMAIN raw.targets : \E k \in DOMAIN raw.targets[i].notifications : p = <<i, k>>

\* The channel that is written at a place.
Written(raw, p) == raw.targets[p[1]].notifications[p[2]]

\* Targets and their channels are records of the declared types.
LEMMA FilesAreTyped ==
    ASSUME NEW raw \in Raw
    PROVE  /\ raw \in RawConfig
           /\ DOMAIN raw.targets \subseteq Nat
           /\ IsFiniteSet(DOMAIN raw.targets)
           /\ \A i \in DOMAIN raw.targets :
                 /\ raw.targets[i] \in RawTarget
                 /\ SiteOf(raw.targets[i]) \in Site
                 /\ DOMAIN raw.targets[i].notifications \subseteq Nat
                 /\ \A k \in DOMAIN raw.targets[i].notifications :
                       raw.targets[i].notifications[k] \in RawChannel
<1>1. raw \in RawConfig
  BY ConfigAssumption
<1>2. raw.targets \in Seq(RawTarget)
  BY <1>1 DEF RawConfig
<1>3. DOMAIN raw.targets = 1..Len(raw.targets) /\ Len(raw.targets) \in Nat
  BY <1>2
<1>4. DOMAIN raw.targets \subseteq Nat /\ IsFiniteSet(DOMAIN raw.targets)
  BY <1>3, FS_Interval
<1>5. ASSUME NEW i \in DOMAIN raw.targets
      PROVE  /\ raw.targets[i] \in RawTarget
             /\ SiteOf(raw.targets[i]) \in Site
             /\ DOMAIN raw.targets[i].notifications \subseteq Nat
             /\ \A k \in DOMAIN raw.targets[i].notifications :
                   raw.targets[i].notifications[k] \in RawChannel
  <2>1. raw.targets[i] \in RawTarget
    BY <1>2, <1>3
  <2>2. raw.targets[i].notifications \in Seq(RawChannel)
    BY <2>1 DEF RawTarget
  <2>3. SiteOf(raw.targets[i]) \in Site
    BY <2>1 DEF RawTarget, SiteOf, OrElse
  <2>. QED BY <2>1, <2>2, <2>3
<1>. QED BY <1>1, <1>4, <1>5

\* Loading keeps targets, places, robots, flags and events; it gives names.
LEMMA LoadKeeps ==
    ASSUME NEW raw \in Raw
    PROVE  LET c == LoadRelayConfig(raw) IN
           /\ DOMAIN c.targets = DOMAIN raw.targets
           /\ \A i \in DOMAIN raw.targets :
                 /\ c.targets[i].siteName = SiteOf(raw.targets[i])
                 /\ c.targets[i].enabled = raw.targets[i].enabled
                 /\ c.targets[i].notifications = Channels(raw.targets[i])
                 /\ DOMAIN c.targets[i].notifications
                        = DOMAIN raw.targets[i].notifications
BY DEF LoadRelayConfig, Channels

\* A loaded channel has the robot, the flag and the events of the written one, and
\* its name if it has one.
LEMMA ChannelsKeep ==
    ASSUME NEW raw \in Raw, NEW i \in DOMAIN raw.targets,
           NEW k \in DOMAIN raw.targets[i].notifications
    PROVE  LET d == Channels(raw.targets[i])[k]
               w == raw.targets[i].notifications[k]
           IN  /\ d.robot = w.robot /\ d.enabled = w.enabled /\ d.events = w.events
               /\ w.name # Unset => d.name = w.name
               /\ d.name \in ChannelName
               /\ d.robot \in Robot
<1>1. raw.targets[i].notifications[k] \in RawChannel
  BY FilesAreTyped
<1>2. SiteOf(raw.targets[i]) \in Site
  BY FilesAreTyped
<1>3. k \in Positions
  BY DEF Positions
<1>. DEFINE w == raw.targets[i].notifications[k]
            made == SiteOf(raw.targets[i]) \o "-notify-" \o ToString(k)
            name == OrElse(w.name, made)
<1>4. made \in ChannelName
  BY <1>2, <1>3 DEF ChannelName
<1>5. Channels(raw.targets[i])[k] = [w EXCEPT !.name = name]
  BY DEF Channels
<1>. HIDE DEF made
<1>6. name \in ChannelName /\ (w.name # Unset => name = w.name)
  <2>1. w.name \in Name \cup {Unset} BY <1>1 DEF RawChannel
  <2>2. Name \subseteq ChannelName BY DEF ChannelName
  <2>3. name = IF w.name = Unset THEN made ELSE w.name BY DEF OrElse
  <2>. HIDE DEF name, w
  <2>. QED BY <1>4, <2>1, <2>2, <2>3
<1>. HIDE DEF name
<1>. QED BY <1>1, <1>5, <1>6 DEF RawChannel

\* The same, said of the place.
LEMMA PlacesKeep ==
    ASSUME NEW raw \in Raw, NEW p, InFile(raw, p)
    PROVE  LET d == At(LoadRelayConfig(raw), p)
               w == Written(raw, p)
           IN  /\ d.robot = w.robot /\ d.enabled = w.enabled /\ d.events = w.events
               /\ w.name # Unset => d.name = w.name
               /\ d.name \in ChannelName
               /\ d.robot \in Robot
               /\ d = Channels(raw.targets[p[1]])[p[2]]
               /\ p[1] \in DOMAIN raw.targets
               /\ p[2] \in DOMAIN raw.targets[p[1]].notifications
               /\ p = <<p[1], p[2]>>
<1>0. PICK i \in DOMAIN raw.targets :
         \E k \in DOMAIN raw.targets[i].notifications : p = <<i, k>>
  BY DEF InFile
<1>1. PICK k \in DOMAIN raw.targets[i].notifications : p = <<i, k>>
  BY <1>0
<1>2. p[1] = i /\ p[2] = k
  BY <1>1
<1>3. LoadRelayConfig(raw).targets[i].notifications = Channels(raw.targets[i])
  BY LoadKeeps
<1>4. At(LoadRelayConfig(raw), p) = Channels(raw.targets[i])[k]
  BY <1>2, <1>3 DEF At
<1>5. Written(raw, p) = raw.targets[i].notifications[k]
  BY <1>2 DEF Written
<1>. QED BY <1>1, <1>2, <1>4, <1>5, ChannelsKeep

\* The places of some targets of a loaded file.
LEMMA PlacesOf ==
    ASSUME NEW raw \in Raw, NEW T \in SUBSET (DOMAIN raw.targets)
    PROVE  \A p : p \in Places(LoadRelayConfig(raw), T) <=> InFile(raw, p) /\ p[1] \in T
<1>. DEFINE c == LoadRelayConfig(raw)
<1>1. \A i \in DOMAIN raw.targets :
         DOMAIN c.targets[i].notifications = DOMAIN raw.targets[i].notifications
  BY LoadKeeps
<1>. HIDE DEF c
<1>2. ASSUME NEW p, p \in Places(c, T)
      PROVE  InFile(raw, p) /\ p[1] \in T
  <2>1. PICK i \in T : p \in {i} \X DOMAIN c.targets[i].notifications
    BY <1>2 DEF Places
  <2>2. PICK k \in DOMAIN c.targets[i].notifications : p = <<i, k>>
    BY <2>1
  <2>3. k \in DOMAIN raw.targets[i].notifications
    BY <1>1, <2>2
  <2>. QED BY <2>2, <2>3 DEF InFile
<1>3. ASSUME NEW p, InFile(raw, p), p[1] \in T
      PROVE  p \in Places(c, T)
  <2>0. PICK i \in DOMAIN raw.targets :
           \E k \in DOMAIN raw.targets[i].notifications : p = <<i, k>>
    BY <1>3 DEF InFile
  <2>1. PICK k \in DOMAIN raw.targets[i].notifications : p = <<i, k>>
    BY <2>0
  <2>2. i \in T /\ k \in DOMAIN c.targets[i].notifications
    BY <1>1, <1>3, <2>1
  <2>3. p \in {i} \X DOMAIN c.targets[i].notifications
    BY <2>1, <2>2
  <2>. QED BY <2>2, <2>3 DEF Places
<1>4. \A p : p \in Places(c, T) <=> InFile(raw, p) /\ p[1] \in T
  BY <1>2, <1>3
<1>. QED BY <1>4 DEF c

\* The targets the notifier keeps for a site: written for it, enabled, with channels.
LEMMA NotifyingIs ==
    ASSUME NEW raw \in Raw, NEW site \in Site
    PROVE  \A i : i \in Notifying(LoadRelayConfig(raw), site) <=>
                    /\ i \in TargetsOf(raw, site)
                    /\ IsEnabled(raw.targets[i])
                    /\ Channels(raw.targets[i]) # <<>>
BY LoadKeeps DEF Notifying, TargetsOf, IsEnabled

\* The channels that are found by name.
LEMMA KeyedIs ==
    ASSUME NEW raw \in Raw, NEW site \in Site, NEW name
    PROVE  \A p : p \in keyed(LoadRelayConfig(raw), site, name) <=>
                    /\ InFile(raw, p)
                    /\ p[1] \in Notifying(LoadRelayConfig(raw), site)
                    /\ At(LoadRelayConfig(raw), p).name = name
<1>1. Notifying(LoadRelayConfig(raw), site) \subseteq DOMAIN raw.targets
  BY NotifyingIs DEF TargetsOf
<1>. QED BY <1>1, PlacesOf DEF keyed

\* The channels of the last target of a site that subscribe to an event.
LEMMA MatchingIs ==
    ASSUME NEW raw \in Raw, NEW site \in Site, NEW event
    PROVE  \A p : p \in MatchingChannels(LoadRelayConfig(raw), site, event) <=>
                    /\ InFile(raw, p)
                    /\ p[1] \in Notifying(LoadRelayConfig(raw), site)
                    /\ \A k \in Notifying(LoadRelayConfig(raw), site) : k <= p[1]
                    /\ IsEnabled(Written(raw, p))
                    /\ supportsEvent(Written(raw, p).events, event)
<1>. DEFINE c == LoadRelayConfig(raw)
            ts == Notifying(c, site)
            last == {i \in ts : \A k \in ts : k <= i}
<1>1. last \subseteq DOMAIN raw.targets
  BY NotifyingIs DEF TargetsOf
<1>2. \A p : p \in notificationsBySite(c, site) <=> InFile(raw, p) /\ p[1] \in last
  BY <1>1, PlacesOf DEF notificationsBySite
<1>3. \A p : InFile(raw, p) => /\ At(c, p).enabled = Written(raw, p).enabled
                              /\ At(c, p).events = Written(raw, p).events
  BY PlacesKeep
<1>. QED BY <1>2, <1>3 DEF MatchingChannels, IsEnabled

-----------------------------------------------------------------------------
(* Sites with one target and channels of different names.                  *)

\* An identified site has at most one target, and a name at most one place in it.
LEMMA IdentifiedIs ==
    ASSUME NEW raw \in Raw, NEW site \in Site, Identified(raw, site)
    PROVE  /\ \A i, k \in TargetsOf(raw, site) : i = k
           /\ \A p, q : /\ InFile(raw, p) /\ InFile(raw, q)
                        /\ p[1] \in TargetsOf(raw, site) /\ q[1] \in TargetsOf(raw, site)
                        /\ At(LoadRelayConfig(raw), p).name = At(LoadRelayConfig(raw), q).name
                        => p = q
<1>. DEFINE T == TargetsOf(raw, site)
<1>1. IsFiniteSet(T)
  <2>1. T \in SUBSET (DOMAIN raw.targets) /\ IsFiniteSet(DOMAIN raw.targets)
    BY FilesAreTyped DEF TargetsOf
  <2>. QED BY <2>1, FS_Subset
<1>2. Cardinality(T) <= 1 /\ Cardinality(T) \in Nat
  BY <1>1, FS_CardinalityType DEF Identified
<1>. HIDE DEF T
<1>3. \A i, k \in T : i = k
  <2>1. CASE Cardinality(T) = 0
    BY <1>1, <2>1, FS_EmptySet
  <2>2. CASE Cardinality(T) = 1
    <3>1. PICK x : T = {x}
      BY <1>1, <2>2, FS_Singleton
    <3>. QED BY <3>1
  <2>. QED BY <1>2, <2>1, <2>2
<1>4. ASSUME NEW p, NEW q, InFile(raw, p), InFile(raw, q), p[1] \in T, q[1] \in T,
             At(LoadRelayConfig(raw), p).name = At(LoadRelayConfig(raw), q).name
      PROVE  p = q
  <2>. DEFINE i == p[1]
              cs == Channels(raw.targets[i])
  <2>1. q[1] = i
    BY <1>3, <1>4
  <2>2. /\ p = <<i, p[2]>> /\ q = <<i, q[2]>>
        /\ p[2] \in DOMAIN raw.targets[i].notifications
        /\ q[2] \in DOMAIN raw.targets[i].notifications
        /\ At(LoadRelayConfig(raw), p) = cs[p[2]]
        /\ At(LoadRelayConfig(raw), q) = cs[q[2]]
    BY <1>4, <2>1, PlacesKeep
  <2>3. DOMAIN cs = DOMAIN raw.targets[i].notifications
    BY DEF Channels
  <2>4. IsInjective([k \in DOMAIN cs |-> cs[k].name])
    BY <1>4 DEF Identified, T
  <2>. DEFINE names == [k \in DOMAIN cs |-> cs[k].name]
  <2>. HIDE DEF cs
  <2>5. \A a, b \in DOMAIN cs : cs[a].name = cs[b].name => a = b
    BY <2>4 DEF IsInjective
  <2>6. p[2] = q[2]
    BY <1>4, <2>2, <2>3, <2>5
  <2>. QED BY <2>2, <2>6
<1>5. \A p, q : /\ InFile(raw, p) /\ InFile(raw, q)
                /\ p[1] \in T /\ q[1] \in T
                /\ At(LoadRelayConfig(raw), p).name = At(LoadRelayConfig(raw), q).name
                => p = q
  BY <1>4
<1>. QED BY <1>3, <1>5 DEF T

\* There, a channel that is found by name is the one that has it.
LEMMA FoundByName ==
    ASSUME NEW raw \in Raw, NEW site \in Site, Identified(raw, site),
           NEW p, InFile(raw, p), p[1] \in TargetsOf(raw, site),
           IsEnabled(raw.targets[p[1]])
    PROVE  p \in GetChannel(LoadRelayConfig(raw), site, At(LoadRelayConfig(raw), p).name)
<1>. DEFINE c == LoadRelayConfig(raw)
            name == At(c, p).name
<1>1. /\ p[2] \in DOMAIN raw.targets[p[1]].notifications
      /\ p[1] \in DOMAIN raw.targets
  BY PlacesKeep
<1>2. Channels(raw.targets[p[1]]) # <<>>
  <2>1. DOMAIN Channels(raw.targets[p[1]]) = DOMAIN raw.targets[p[1]].notifications
    BY DEF Channels
  <2>2. DOMAIN Channels(raw.targets[p[1]]) # {}
    BY <1>1, <2>1
  <2>. QED BY <2>2
<1>3. p[1] \in Notifying(c, site)
  BY <1>2, NotifyingIs
<1>4. p \in keyed(c, site, name)
  BY <1>3, KeyedIs
<1>5. ASSUME NEW q \in keyed(c, site, name)
      PROVE  q = p
  <2>1. InFile(raw, q) /\ q[1] \in Notifying(c, site) /\ At(c, q).name = name
    BY <1>5, KeyedIs
  <2>2. q[1] \in TargetsOf(raw, site)
    BY <2>1, NotifyingIs
  <2>. QED BY <2>1, <2>2, IdentifiedIs
<1>6. p[2] \in Nat
  BY <1>1, FilesAreTyped
<1>7. \A q \in keyed(c, site, name) : q[1] < p[1] \/ (q[1] = p[1] /\ q[2] <= p[2])
  BY <1>5, <1>6
<1>8. p \in GetChannel(c, site, name)
  BY <1>4, <1>7 DEF GetChannel
<1>. QED BY <1>8

\* A channel that is found by name is written in the file, for the site, in an enabled
\* target, and has the name.
LEMMA FoundIs ==
    ASSUME NEW raw \in Raw, NEW site \in Site, NEW name,
           NEW p \in GetChannel(LoadRelayConfig(raw), site, name)
    PROVE  /\ InFile(raw, p)
           /\ p[1] \in TargetsOf(raw, site)
           /\ IsEnabled(raw.targets[p[1]])
           /\ At(LoadRelayConfig(raw), p).name = name
<1>1. p \in keyed(LoadRelayConfig(raw), site, name)
  BY DEF GetChannel
<1>. QED BY <1>1, KeyedIs, NotifyingIs

\* A place of a target of the site names a channel of the site.
LEMMA ChannelsOfSite ==
    ASSUME NEW raw \in Raw, NEW site \in Site, NEW p, InFile(raw, p),
           p[1] \in TargetsOf(raw, site), IsEnabled(raw.targets[p[1]])
    PROVE  Written(raw, p) \in ChannelsOf(raw, site)
<1>1. p[2] \in DOMAIN raw.targets[p[1]].notifications
  BY PlacesKeep
<1>2. Written(raw, p) \in ToSet(raw.targets[p[1]].notifications)
  BY <1>1 DEF Written, ToSet
<1>. QED BY <1>2 DEF ChannelsOf

-----------------------------------------------------------------------------
(* The jobs of one event.                                                  *)

\* What NewJobs makes: a job for each place of the set that no earlier place has the
\* name of.
LEMMA NewJobsAre ==
    ASSUME NEW c, NEW n, NEW places
    PROVE  \A j : j \in NewJobs(c, n, places) <=>
                    \E p \in places :
                       /\ \A o \in places : o[2] < p[2] => At(c, o).name # At(c, p).name
                       /\ j = [of |-> n, name |-> At(c, p).name, owner |-> At(c, p).robot]
BY DEF NewJobs

\* The events a channel is told of are those it subscribes to (supportsEvent): the old
\* alias of callback_failed means the new name.
LEMMA SupportsIs ==
    ASSUME NEW c, NEW event, event # "callback_pending"
    PROVE  supportsEvent(c.events, event) <=> Subscribes(c, event)
<1>1. canonicalEventName(event) = event
  BY DEF canonicalEventName
<1>2. CASE c.events = {}
  BY <1>2 DEF supportsEvent, Subscribes
<1>3. CASE c.events # {}
  <2>1. \A e : canonicalEventName(e) = event <=>
                  e = event \/ (event = "callback_failed" /\ e = "callback_pending")
    BY DEF canonicalEventName
  <2>2. supportsEvent(c.events, event) <=> \E e \in c.events : canonicalEventName(e) = event
    BY <1>1, <1>3 DEF supportsEvent
  <2>. QED BY <1>3, <2>1, <2>2 DEF Subscribes
<1>. QED BY <1>2, <1>3

\* The robots that get a job are those of enabled channels that subscribe.
LEMMA OwnersSubscribe ==
    ASSUME NEW raw \in Raw, NEW site \in Site, NEW event, event # "callback_pending", NEW n
    PROVE  \A j \in NewJobs(LoadRelayConfig(raw), n,
                            MatchingChannels(LoadRelayConfig(raw), site, event)) :
              /\ j.of = n
              /\ \E d \in ChannelsOf(raw, site) :
                    IsEnabled(d) /\ Subscribes(d, event) /\ d.robot = j.owner
<1>. DEFINE c == LoadRelayConfig(raw)
            places == MatchingChannels(c, site, event)
<1>0. \A p : p \in places <=>
               /\ InFile(raw, p)
               /\ p[1] \in Notifying(c, site)
               /\ \A k \in Notifying(c, site) : k <= p[1]
               /\ IsEnabled(Written(raw, p))
               /\ Subscribes(Written(raw, p), event)
  BY MatchingIs, SupportsIs
<1>1. ASSUME NEW j \in NewJobs(c, n, places)
      PROVE  /\ j.of = n
             /\ \E d \in ChannelsOf(raw, site) :
                   IsEnabled(d) /\ Subscribes(d, event) /\ d.robot = j.owner
  <2>1. PICK p \in places : j = [of |-> n, name |-> At(c, p).name, owner |-> At(c, p).robot]
    BY <1>1, NewJobsAre
  <2>2. InFile(raw, p) /\ p[1] \in TargetsOf(raw, site) /\ IsEnabled(raw.targets[p[1]])
    BY <1>0, NotifyingIs
  <2>3. Written(raw, p) \in ChannelsOf(raw, site)
    BY <2>2, ChannelsOfSite
  <2>4. At(c, p).robot = Written(raw, p).robot
    BY <2>2, PlacesKeep
  <2>5. j.owner = Written(raw, p).robot /\ j.of = n
    BY <2>1, <2>4
  <2>. QED BY <1>0, <2>3, <2>5
<1>. QED BY <1>1

\* In an identified site all of them get one.
LEMMA SubscribersOwn ==
    ASSUME NEW raw \in Raw, NEW site \in Site, NEW event, event # "callback_pending",
           NEW n, Identified(raw, site)
    PROVE  \A d \in ChannelsOf(raw, site) : IsEnabled(d) /\ Subscribes(d, event) =>
              \E j \in NewJobs(LoadRelayConfig(raw), n,
                               MatchingChannels(LoadRelayConfig(raw), site, event)) :
                 j.owner = d.robot
<1>. DEFINE c == LoadRelayConfig(raw)
            places == MatchingChannels(c, site, event)
<1>0. \A p : p \in places <=>
               /\ InFile(raw, p)
               /\ p[1] \in Notifying(c, site)
               /\ \A k \in Notifying(c, site) : k <= p[1]
               /\ IsEnabled(Written(raw, p))
               /\ Subscribes(Written(raw, p), event)
  BY MatchingIs, SupportsIs
<1>1. ASSUME NEW d \in ChannelsOf(raw, site), IsEnabled(d), Subscribes(d, event)
      PROVE  \E j \in NewJobs(c, n, places) : j.owner = d.robot
  <2>1. PICK i \in TargetsOf(raw, site) :
           IsEnabled(raw.targets[i]) /\ d \in ToSet(raw.targets[i].notifications)
    BY DEF ChannelsOf
  <2>2. PICK k \in DOMAIN raw.targets[i].notifications :
           d = raw.targets[i].notifications[k]
    BY <2>1 DEF ToSet
  <2>. DEFINE p == <<i, k>>
  <2>3. InFile(raw, p) /\ Written(raw, p) = d
    BY <2>2 DEF InFile, Written, TargetsOf
  <2>4. i \in Notifying(c, site)
    <3>1. DOMAIN Channels(raw.targets[i]) = DOMAIN raw.targets[i].notifications
      BY DEF Channels
    <3>2. DOMAIN Channels(raw.targets[i]) # {}
      BY <3>1
    <3>3. Channels(raw.targets[i]) # <<>>
      BY <3>2
    <3>. QED BY <2>1, <3>3, NotifyingIs
  <2>5. \A t \in Notifying(c, site) : t = i
    BY NotifyingIs, IdentifiedIs
  <2>6. i \in Nat
    BY FilesAreTyped DEF TargetsOf
  <2>7. p \in places
    BY <1>0, <1>1, <2>3, <2>4, <2>5, <2>6
  <2>8. ASSUME NEW o \in places, o[2] < p[2]
        PROVE  At(c, o).name # At(c, p).name
    <3>1. InFile(raw, o) /\ o[1] \in TargetsOf(raw, site)
      BY <1>0, NotifyingIs
    <3>2. p[2] \in Nat
      BY <2>2, FilesAreTyped DEF TargetsOf
    <3>3. o # p
      BY <2>8, <3>2
    <3>. QED BY <2>3, <3>1, <3>3, IdentifiedIs
  <2>9. [of |-> n, name |-> At(c, p).name, owner |-> At(c, p).robot]
           \in NewJobs(c, n, places)
    BY <2>7, <2>8, NewJobsAre
  <2>10. At(c, p).robot = d.robot
    BY <2>3, PlacesKeep
  <2>. QED BY <2>9, <2>10
<1>. QED BY <1>1

\* Jobs made for channels of a file are jobs.
LEMMA NewJobsTyped ==
    ASSUME NEW raw \in Raw, NEW n \in 1..MaxRaised, NEW places,
           \A p \in places : InFile(raw, p)
    PROVE  \A j \in NewJobs(LoadRelayConfig(raw), n, places) : j \in Job /\ j.of = n
<1>. DEFINE c == LoadRelayConfig(raw)
<1>1. ASSUME NEW j \in NewJobs(c, n, places)
      PROVE  j \in Job /\ j.of = n
  <2>1. PICK p \in places : j = [of |-> n, name |-> At(c, p).name, owner |-> At(c, p).robot]
    BY <1>1, NewJobsAre
  <2>2. InFile(raw, p)
    OBVIOUS
  <2>3. At(c, p).name \in ChannelName /\ At(c, p).robot \in Robot
    BY <2>2, PlacesKeep
  <2>. HIDE DEF c
  <2>. QED BY <2>1, <2>3 DEF Job
<1>. QED BY <1>1

-----------------------------------------------------------------------------
(* The invariant.                                                          *)

Settled == {g.job : g \in gone} \cup {m.job : m \in sent}

AllJobs == jobs \cup disk \cup Settled

\* The jobs an event has made, by the file that was read then.
JobsOfRaise(n) ==
    LET c == LoadRelayConfig(raised[n].by)
    IN  NewJobs(c, n, MatchingChannels(c, raised[n].site, raised[n].event))

\* The channel of a job's name in a file.
ChannelIn(raw, j) == GetChannel(LoadRelayConfig(raw), SiteOfJob(j), j.name)

\* Queued, in the file, given up or sent: there are no jobs but those of events.
OnlyMade ==
    /\ \A n \in DOMAIN raised : raised[n].event # "callback_pending"
    /\ \A j \in AllJobs : j \in JobsOfRaise(j.of)

\* The jobs of an event that is not lost are all there.
NoneLost ==
    \A n \in DOMAIN raised : n \notin lost => JobsOfRaise(n) \subseteq jobs \cup Settled

\* Those of an event that was saved are in the file.
NoneLostInFile ==
    \A n \in DOMAIN raised :
        n \notin lost \cup unsaved => JobsOfRaise(n) \subseteq disk \cup Settled

MadeInv == OnlyMade /\ NoneLost /\ NoneLostInFile

\* A message went to the robot of an enabled channel with the job's name.
SentInv ==
    \A m \in sent : \E p \in ChannelIn(m.by, m.job) :
        /\ IsEnabled(At(LoadRelayConfig(m.by), p))
        /\ m.robot = At(LoadRelayConfig(m.by), p).robot

\* A job was given up by a process that found no enabled channel.
GoneInv ==
    \A g \in gone : \A p \in ChannelIn(g.by, g.job) :
        ~IsEnabled(At(LoadRelayConfig(g.by), p))

IInv == TypeOK /\ MadeInv /\ SentInv /\ GoneInv

\* The invariant holds before the first start.
LEMMA InvInit == Init => IInv
<1>. SUFFICES ASSUME Init PROVE IInv
  OBVIOUS
<1>1. raised = <<>> /\ DOMAIN raised = {} /\ raised \in Seq(Raised) /\ Len(raised) = 0
  BY DEF Init
<1>2. TypeOK
  BY <1>1, ConfigAssumption DEF Init, TypeOK
<1>3. AllJobs = {}
  BY DEF Init, AllJobs, Settled
<1>4. MadeInv /\ SentInv /\ GoneInv
  BY <1>1, <1>3 DEF Init, MadeInv, OnlyMade, NoneLost, NoneLostInFile, SentInv, GoneInv
<1>. QED BY <1>2, <1>4 DEF IInv

\* Edits of the file and ends of the process leave the tables alone.
LEMMA InvTables ==
    ASSUME IInv, UNCHANGED tables, file' \in Raw, loaded' \in Raw,
           stage' \in {"down", "starting", "up"}
    PROVE  IInv'
<1>1. UNCHANGED <<jobs, disk, gone, sent, raised, unsaved, lost>>
  BY DEF tables
<1>2. TypeOK'
  BY <1>1 DEF IInv, TypeOK
<1>3. UNCHANGED <<AllJobs, Settled>> /\ \A n : JobsOfRaise(n)' = JobsOfRaise(n)
  BY <1>1 DEF AllJobs, Settled, JobsOfRaise
<1>4. MadeInv'
  BY <1>1, <1>3 DEF IInv, MadeInv, OnlyMade, NoneLost, NoneLostInFile
<1>5. SentInv' /\ GoneInv'
  BY <1>1 DEF IInv, SentInv, GoneInv, ChannelIn, SiteOfJob
<1>. QED BY <1>2, <1>4, <1>5 DEF IInv

\* A process that starts has the jobs of the file: what was not saved is lost.
LEMMA InvStart == IInv /\ Start => IInv'
<1>. SUFFICES ASSUME IInv, Start PROVE IInv'
  OBVIOUS
<1>1. /\ UNCHANGED <<file, disk, gone, sent, raised>>
      /\ stage' = "starting" /\ loaded' = file
      /\ jobs' = disk /\ lost' = lost \cup unsaved /\ unsaved' = {}
  BY DEF Start
<1>2. Settled' = Settled /\ \A n : JobsOfRaise(n)' = JobsOfRaise(n)
  BY <1>1 DEF Settled, JobsOfRaise
<1>3. AllJobs' \subseteq AllJobs
  BY <1>1, <1>2 DEF AllJobs
<1>4. \A j \in AllJobs' : j.of \in DOMAIN raised
  BY <1>3 DEF IInv, TypeOK, AllJobs, Settled
<1>5. TypeOK'
  BY <1>1, <1>4 DEF IInv, TypeOK, AllJobs, Settled
<1>6. MadeInv'
  BY <1>1, <1>2, <1>3 DEF IInv, MadeInv, OnlyMade, NoneLost, NoneLostInFile
<1>7. SentInv' /\ GoneInv'
  BY <1>1 DEF IInv, SentInv, GoneInv, ChannelIn, SiteOfJob
<1>. QED BY <1>5, <1>6, <1>7 DEF IInv

\* A save keeps what the file has to have, whether it succeeds or not.
LEMMA SaveKeeps ==
    ASSUME NoneLostInFile, NEW n \in Nat, Save(n), NoneLost',
           lost' = lost, Settled \subseteq Settled',
           \A k \in DOMAIN raised' : k # n => k \in DOMAIN raised,
           \A k \in DOMAIN raised : JobsOfRaise(k)' = JobsOfRaise(k),
           \A k \in DOMAIN raised' : k # 0
    PROVE  NoneLostInFile'
<1>1. CASE disk' = jobs' /\ unsaved' = {}
  BY <1>1 DEF NoneLost, NoneLostInFile
<1>2. CASE disk' = disk /\ unsaved' = unsaved \cup ({n} \ {0})
  BY <1>2 DEF NoneLostInFile
<1>. QED BY <1>1, <1>2 DEF Save

\* Raising an event adds its jobs and changes no older one.
LEMMA InvRaise ==
    ASSUME IInv, NEW site \in Site, NEW event \in Event \ {"callback_pending"},
           Raise(site, event)
    PROVE  IInv'
<1>0. TypeOK /\ MadeInv /\ SentInv /\ GoneInv
  BY DEF IInv
<1>a. Len(raised) + 1 \in Nat
  BY <1>0 DEF TypeOK
<1>b. PICK n \in Nat : n = Len(raised) + 1
  BY <1>a
<1>c. PICK by : by = loaded
  OBVIOUS
<1>. DEFINE r == [site |-> site, event |-> event, by |-> by]
            new == NewJobs(LoadRelayConfig(by), n,
                           MatchingChannels(LoadRelayConfig(by), site, event))
<1>1. /\ raised \in Seq(Raised) /\ Len(raised) \in Nat /\ r \in Raised
      /\ by \in Raw
  BY <1>0, <1>c DEF TypeOK, Raised
<1>2. raised' = Append(raised, r) /\ UNCHANGED <<file, stage, loaded, gone, sent, lost>>
  BY <1>c DEF Raise
<1>3. /\ raised' \in Seq(Raised) /\ Len(raised') = n
      /\ DOMAIN raised = 1..Len(raised) /\ DOMAIN raised' = 1..n
      /\ \A k \in DOMAIN raised : k \in DOMAIN raised' /\ raised'[k] = raised[k] /\ k # n
      /\ \A k \in DOMAIN raised' : k \in DOMAIN raised \/ k = n
      /\ raised'[n] = r
  <2>. HIDE DEF r
  <2>. QED BY <1>1, <1>2, <1>b
<1>4. /\ jobs' = jobs \cup new
      /\ (new = {} /\ UNCHANGED <<disk, unsaved>>) \/ Save(n)
  BY <1>b, <1>c DEF Raise, cfg
<1>5. n <= MaxRaised /\ n \in 1..MaxRaised
  BY <1>1, <1>b, ConfigAssumption DEF Raise
<1>6. \A j \in new : j \in Job /\ j.of = n
  <2>. DEFINE places == MatchingChannels(LoadRelayConfig(by), site, event)
  <2>1. \A p \in places : InFile(by, p)
    BY <1>1, MatchingIs
  <2>. HIDE DEF places
  <2>2. \A j \in NewJobs(LoadRelayConfig(by), n, places) : j \in Job /\ j.of = n
    BY <1>1, <1>5, <2>1, NewJobsTyped
  <2>. QED BY <2>2 DEF places
<1>7. JobsOfRaise(n)' = new
  BY <1>2, <1>3 DEF JobsOfRaise
<1>. HIDE DEF new, r
<1>8. \A j \in AllJobs : j.of \in DOMAIN raised
  BY <1>0 DEF TypeOK, AllJobs, Settled
<1>9. Settled' = Settled /\ disk' \subseteq jobs' \cup disk
  BY <1>2, <1>4 DEF Settled, Save
<1>10. /\ \A j \in AllJobs' : j \in AllJobs \/ j \in new
       /\ \A j \in AllJobs' : j.of \in DOMAIN raised'
  <2>1. \A j \in AllJobs' : j \in AllJobs \/ j \in new
    BY <1>4, <1>9 DEF AllJobs
  <2>. QED BY <1>1, <1>b, <1>3, <1>6, <1>8, <2>1
<1>11. TypeOK'
  <2>1. jobs' \in SUBSET Job /\ disk' \in SUBSET Job
    BY <1>0, <1>4, <1>6, <1>9 DEF TypeOK
  <2>2. Len(raised') <= MaxRaised
    BY <1>3, <1>5
  <2>3. unsaved' \in SUBSET DOMAIN raised' /\ lost' \in SUBSET DOMAIN raised'
    <3>1. n \in DOMAIN raised' /\ lost' = lost
      BY <1>2, <1>3, <1>5
    <3>2. unsaved' \subseteq unsaved \cup {n}
      BY <1>4 DEF Save
    <3>. QED BY <1>0, <1>3, <3>1, <3>2 DEF TypeOK
  <2>. QED BY <1>0, <1>2, <1>3, <1>10, <2>1, <2>2, <2>3 DEF TypeOK, AllJobs, Settled
<1>12. MadeInv'
  <2>1. \A k \in DOMAIN raised : JobsOfRaise(k)' = JobsOfRaise(k)
    BY <1>3 DEF JobsOfRaise
  <2>2. \A k \in DOMAIN raised' : raised'[k].event # "callback_pending"
    <3>1. raised'[n].event # "callback_pending"
      BY <1>3 DEF r
    <3>. QED BY <1>0, <1>3, <3>1 DEF MadeInv, OnlyMade
  <2>3. \A j \in AllJobs' : j \in JobsOfRaise(j.of)'
    BY <1>0, <1>6, <1>7, <1>8, <1>10, <2>1 DEF MadeInv, OnlyMade
  <2>4. NoneLost'
    <3>1. \A k \in DOMAIN raised : k \notin lost => JobsOfRaise(k)' \subseteq jobs \cup Settled
      BY <1>0, <2>1 DEF MadeInv, NoneLost
    <3>2. JobsOfRaise(n)' \subseteq jobs'
      BY <1>4, <1>7
    <3>. QED BY <1>2, <1>3, <1>4, <1>9, <3>1, <3>2 DEF NoneLost
  <2>5. NoneLostInFile'
    <3>1. CASE new = {} /\ UNCHANGED <<disk, unsaved>>
      BY <1>0, <1>2, <1>3, <1>7, <1>9, <2>1, <3>1 DEF MadeInv, NoneLostInFile
    <3>2. CASE Save(n)
      <4>1. /\ \A k \in DOMAIN raised' : k # n => k \in DOMAIN raised
            /\ \A k \in DOMAIN raised' : k # 0
            /\ NoneLostInFile /\ lost' = lost /\ Settled \subseteq Settled'
        BY <1>0, <1>2, <1>3, <1>9 DEF MadeInv
      <4>. QED BY <1>b, <2>1, <2>4, <3>2, <4>1, SaveKeeps
    <3>. QED BY <1>4, <3>1, <3>2
  <2>. QED BY <2>2, <2>3, <2>4, <2>5 DEF MadeInv, OnlyMade
<1>13. \A j \in AllJobs : SiteOfJob(j)' = SiteOfJob(j)
  BY <1>3, <1>8 DEF SiteOfJob
<1>14. \A raw, j : j \in AllJobs => ChannelIn(raw, j)' = ChannelIn(raw, j)
  BY <1>13 DEF ChannelIn
<1>15. SentInv'
  BY <1>0, <1>2, <1>14 DEF SentInv, AllJobs, Settled
<1>16. GoneInv'
  BY <1>0, <1>2, <1>14 DEF GoneInv, AllJobs, Settled
<1>. QED BY <1>11, <1>12, <1>15, <1>16 DEF IInv

\* A job that is tried moves to the ones sent or given up, with what the file of this
\* process says of its channel.
LEMMA InvDispatch ==
    ASSUME IInv, NEW j \in jobs, Dispatch(j)
    PROVE  IInv'
<1>0. TypeOK /\ MadeInv /\ SentInv /\ GoneInv
  BY DEF IInv
<1>1. /\ UNCHANGED <<file, stage, loaded, raised, lost>>
      /\ jobs' = jobs \ {j}
      /\ loaded \in Raw
      /\ Save(0)
  BY <1>0 DEF Dispatch, TypeOK
<1>2. \A i : SiteOfJob(i)' = SiteOfJob(i)
  BY <1>1 DEF SiteOfJob
<1>3. \A raw, i : ChannelIn(raw, i)' = ChannelIn(raw, i)
  BY <1>2 DEF ChannelIn
<1>4. j \in Job /\ j.of \in DOMAIN raised /\ raised[j.of].site \in Site
  <2>1. j \in Job /\ j.of \in DOMAIN raised /\ raised \in Seq(Raised)
    BY <1>0 DEF TypeOK
  <2>2. raised[j.of] \in Raised
    BY <2>1
  <2>. QED BY <2>1, <2>2 DEF Raised
<1>5. Deliverable(j) = {p \in ChannelIn(loaded, j) : IsEnabled(At(LoadRelayConfig(loaded), p))}
  BY DEF Deliverable, ChannelIn, SiteOfJob, cfg
<1>6. ASSUME Settled' = Settled \cup {j},
              gone' \in SUBSET [job : Job, by : Raw],
              sent' \in SUBSET [job : Job, by : Raw, robot : Robot]
       PROVE  TypeOK' /\ MadeInv'
  <2>1. \A k : JobsOfRaise(k)' = JobsOfRaise(k)
    BY <1>1 DEF JobsOfRaise
  <2>2. /\ disk' \subseteq jobs \cup disk /\ jobs' \subseteq jobs
        /\ unsaved' \subseteq unsaved
    BY <1>1 DEF Save
  <2>3. AllJobs' \subseteq AllJobs
    BY <1>6, <2>2 DEF AllJobs
  <2>4. \A i \in AllJobs : i.of \in DOMAIN raised
    BY <1>0 DEF TypeOK, AllJobs, Settled
  <2>5. TypeOK'
    BY <1>0, <1>1, <1>6, <2>2, <2>3, <2>4 DEF TypeOK, AllJobs, Settled
  <2>6. NoneLost'
    BY <1>0, <1>1, <1>6, <2>1 DEF MadeInv, NoneLost
  <2>7. NoneLostInFile'
    <3>1. \A k \in DOMAIN raised : k # 0
      BY <1>0 DEF TypeOK
    <3>. QED BY <1>0, <1>1, <1>6, <2>1, <2>6, <3>1, SaveKeeps DEF MadeInv
  <2>8. OnlyMade'
    BY <1>0, <1>1, <2>1, <2>3 DEF MadeInv, OnlyMade
  <2>. QED BY <2>5, <2>6, <2>7, <2>8 DEF MadeInv
<1>7. CASE Fail(j)
  <2>1. gone' = gone \cup {[job |-> j, by |-> loaded]} /\ sent' = sent /\ Deliverable(j) = {}
    BY <1>7 DEF Fail
  <2>2. Settled' = Settled \cup {j}
    <3>1. PICK g : g = [job |-> j, by |-> loaded]
      OBVIOUS
    <3>2. g.job = j /\ gone' = gone \cup {g}
      BY <2>1, <3>1
    <3>. QED BY <2>1, <3>2 DEF Settled
  <2>3. gone' \in SUBSET [job : Job, by : Raw]
    BY <1>0, <1>1, <1>4, <2>1 DEF TypeOK
  <2>4. TypeOK' /\ MadeInv'
    BY <1>0, <1>6, <2>1, <2>2, <2>3 DEF TypeOK
  <2>5. SentInv'
    BY <1>0, <1>3, <2>1 DEF SentInv
  <2>6. GoneInv'
    BY <1>0, <1>3, <1>5, <2>1 DEF GoneInv
  <2>. QED BY <2>4, <2>5, <2>6 DEF IInv
<1>8. CASE Send(j)
  <2>1. PICK p \in Deliverable(j) :
           sent' = sent \cup {[job |-> j, by |-> loaded, robot |-> At(cfg, p).robot]}
    BY <1>8 DEF Send
  <2>2. gone' = gone
    BY <1>8 DEF Send
  <2>. DEFINE x == At(LoadRelayConfig(loaded), p).robot
  <2>3. sent' = sent \cup {[job |-> j, by |-> loaded, robot |-> x]}
    BY <2>1 DEF cfg
  <2>4. p \in ChannelIn(loaded, j) /\ IsEnabled(At(LoadRelayConfig(loaded), p))
    BY <1>5
  <2>5. InFile(loaded, p)
    BY <1>1, <1>4, <2>4, FoundIs DEF ChannelIn, SiteOfJob
  <2>6. x \in Robot
    BY <1>1, <2>5, PlacesKeep
  <2>7. Settled' = Settled \cup {j}
    <3>1. PICK m : m = [job |-> j, by |-> loaded, robot |-> x]
      OBVIOUS
    <3>2. m.job = j /\ sent' = sent \cup {m}
      BY <2>3, <3>1
    <3>. QED BY <2>2, <3>2 DEF Settled
  <2>8. SentInv'
    <3>1. ASSUME NEW m \in sent'
          PROVE  \E q \in ChannelIn(m.by, m.job) :
                    /\ IsEnabled(At(LoadRelayConfig(m.by), q))
                    /\ m.robot = At(LoadRelayConfig(m.by), q).robot
      <4>1. CASE m \in sent
        BY <1>0, <4>1 DEF SentInv
      <4>2. CASE m = [job |-> j, by |-> loaded, robot |-> x]
        BY <2>4, <4>2
      <4>. QED BY <2>3, <4>1, <4>2
    <3>. QED BY <1>3, <3>1 DEF SentInv
  <2>. HIDE DEF x
  <2>9. sent' \in SUBSET [job : Job, by : Raw, robot : Robot]
    BY <1>0, <1>1, <1>4, <2>3, <2>6 DEF TypeOK
  <2>10. TypeOK' /\ MadeInv'
    BY <1>0, <1>6, <2>2, <2>7, <2>9 DEF TypeOK
  <2>11. GoneInv'
    BY <1>0, <1>3, <2>2 DEF GoneInv
  <2>. QED BY <2>8, <2>10, <2>11 DEF IInv
<1>. QED BY <1>7, <1>8 DEF Dispatch

\* Other operations of the store save what there is.
LEMMA InvOther == IInv /\ OtherSave => IInv'
<1>. SUFFICES ASSUME IInv, OtherSave PROVE IInv'
  OBVIOUS
<1>0. TypeOK /\ MadeInv
  BY DEF IInv
<1>1. UNCHANGED <<file, stage, loaded, jobs, gone, sent, raised, lost>> /\ Save(0)
  BY DEF OtherSave
<1>2. Settled' = Settled /\ \A k : JobsOfRaise(k)' = JobsOfRaise(k)
  BY <1>1 DEF Settled, JobsOfRaise
<1>3. disk' \subseteq jobs \cup disk /\ unsaved' \subseteq unsaved
  BY <1>1 DEF Save
<1>4. AllJobs' \subseteq AllJobs
  BY <1>1, <1>2, <1>3 DEF AllJobs
<1>5. \A i \in AllJobs : i.of \in DOMAIN raised
  BY <1>0 DEF TypeOK, AllJobs, Settled
<1>6. TypeOK'
  BY <1>0, <1>1, <1>3, <1>4, <1>5 DEF TypeOK, AllJobs, Settled
<1>7. NoneLost' /\ OnlyMade'
  BY <1>0, <1>1, <1>2, <1>4 DEF MadeInv, NoneLost, OnlyMade
<1>8. NoneLostInFile'
  <2>1. \A k \in DOMAIN raised : k # 0
    BY <1>0 DEF TypeOK
  <2>. QED BY <1>0, <1>1, <1>2, <1>7, <2>1, SaveKeeps DEF MadeInv
<1>9. SentInv' /\ GoneInv'
  BY <1>1 DEF IInv, SentInv, GoneInv, ChannelIn, SiteOfJob
<1>. QED BY <1>6, <1>7, <1>8, <1>9 DEF IInv, MadeInv

\* Every step keeps the invariant.
LEMMA InvNext == IInv /\ [Next]_vars => IInv'
<1>. SUFFICES ASSUME IInv, [Next]_vars PROVE IInv'
  OBVIOUS
<1>0. file \in Raw /\ loaded \in Raw /\ stage \in {"down", "starting", "up"}
  BY DEF IInv, TypeOK
<1>1. CASE Edit
  BY <1>0, <1>1, InvTables DEF Edit
<1>2. CASE Start
  BY <1>2, InvStart
<1>3. CASE Serve
  BY <1>0, <1>3, InvTables DEF Serve
<1>4. CASE Stop
  BY <1>0, <1>4, InvTables DEF Stop
<1>5. ASSUME NEW site \in Site, NEW event \in Event \ {"callback_pending"},
             Raise(site, event)
      PROVE  IInv'
  BY <1>5, InvRaise
<1>6. ASSUME NEW j \in jobs, Dispatch(j)
      PROVE  IInv'
  BY <1>6, InvDispatch
<1>7. CASE OtherSave
  BY <1>7, InvOther
<1>8. CASE UNCHANGED vars
  BY <1>0, <1>8, InvTables DEF vars, tables
<1>. QED BY <1>1, <1>2, <1>3, <1>4, <1>5, <1>6, <1>7, <1>8 DEF Next

\* IInv is an invariant, for all files: the jobs of an event that was not lost are queued,
\* sent or given up, in the file too once a save has succeeded, and each is sent or given
\* up by what a file says of its name.
THEOREM Invariance == Spec => []IInv
BY InvInit, InvNext, PTL DEF Spec

\* The tables keep their types: every job names a channel of a file and an event that
\* was raised.
THEOREM TypeCorrect == Spec => []TypeOK
<1>1. IInv => TypeOK
  BY DEF IInv
<1>. QED BY <1>1, Invariance, PTL

-----------------------------------------------------------------------------
(* Jobs and their channels.                                                *)

\* A job has the name and the robot of a channel that is written for its site in the
\* file of its event.
LEMMA JobsAreOfChannels ==
    ASSUME IInv, NEW j \in AllJobs
    PROVE  LET r == raised[j.of] IN
           /\ j.of \in DOMAIN raised
           /\ r.by \in Raw /\ r.site \in Site
           /\ \E p : /\ InFile(r.by, p)
                     /\ p[1] \in TargetsOf(r.by, r.site)
                     /\ IsEnabled(r.by.targets[p[1]])
                     /\ j.name = At(LoadRelayConfig(r.by), p).name
                     /\ j.owner = At(LoadRelayConfig(r.by), p).robot
<1>0. TypeOK /\ MadeInv
  BY DEF IInv
<1>1. j.of \in DOMAIN raised /\ raised \in Seq(Raised)
  BY <1>0 DEF TypeOK, AllJobs, Settled
<1>2. raised[j.of] \in Raised
  BY <1>1
<1>. DEFINE r == raised[j.of]
            c == LoadRelayConfig(r.by)
            places == MatchingChannels(c, r.site, r.event)
<1>3. r.by \in Raw /\ r.site \in Site
  BY <1>2 DEF Raised
<1>4. j \in NewJobs(c, j.of, places)
  BY <1>0, <1>1 DEF MadeInv, OnlyMade, JobsOfRaise
<1>5. PICK p \in places :
         j = [of |-> j.of, name |-> At(c, p).name, owner |-> At(c, p).robot]
  BY <1>4, NewJobsAre
<1>6. /\ InFile(r.by, p)
      /\ p[1] \in TargetsOf(r.by, r.site)
      /\ IsEnabled(r.by.targets[p[1]])
  BY <1>3, MatchingIs, NotifyingIs
<1>7. j.name = At(c, p).name /\ j.owner = At(c, p).robot
  BY <1>5
<1>. QED BY <1>1, <1>3, <1>6, <1>7

\* A message reaches the robot its job was queued for.
LEMMA InvReaches == IInv => ReachesItsChannel
<1>. SUFFICES ASSUME IInv, NEW m \in sent,
                     Identified(raised[m.job.of].by, SiteOfJob(m.job)),
                     Identified(m.by, SiteOfJob(m.job)),
                     NamesKept(raised[m.job.of].by, m.by, SiteOfJob(m.job))
              PROVE  m.robot = m.job.owner
  BY DEF ReachesItsChannel
<1>. DEFINE j == m.job
            old == raised[j.of].by
            site == SiteOfJob(j)
<1>1. j \in AllJobs
  BY DEF AllJobs, Settled
<1>2. /\ old \in Raw /\ site \in Site
      /\ \E q : /\ InFile(old, q)
                /\ q[1] \in TargetsOf(old, site)
                /\ IsEnabled(old.targets[q[1]])
                /\ j.name = At(LoadRelayConfig(old), q).name
                /\ j.owner = At(LoadRelayConfig(old), q).robot
  BY <1>1, JobsAreOfChannels DEF SiteOfJob
<1>3. PICK q : /\ InFile(old, q)
               /\ q[1] \in TargetsOf(old, site)
               /\ IsEnabled(old.targets[q[1]])
               /\ j.name = At(LoadRelayConfig(old), q).name
               /\ j.owner = At(LoadRelayConfig(old), q).robot
  BY <1>2
<1>4. m.by \in Raw
  BY DEF IInv, TypeOK
<1>5. PICK p \in GetChannel(LoadRelayConfig(m.by), site, j.name) :
         m.robot = At(LoadRelayConfig(m.by), p).robot
  BY DEF IInv, SentInv, ChannelIn
<1>6. /\ InFile(m.by, p) /\ p[1] \in TargetsOf(m.by, site)
      /\ IsEnabled(m.by.targets[p[1]])
      /\ At(LoadRelayConfig(m.by), p).name = j.name
  <2>1. site \in Site /\ p \in GetChannel(LoadRelayConfig(m.by), site, j.name)
    BY <1>2, <1>5
  <2>. HIDE DEF j, site
  <2>. QED BY <1>4, <2>1, FoundIs
<1>. HIDE DEF j, site
<1>7. CASE old = m.by
  <2>1. p = q
    BY <1>2, <1>3, <1>4, <1>6, <1>7, IdentifiedIs DEF j, site
  <2>. QED BY <1>3, <1>5, <1>7, <2>1 DEF j
<1>8. CASE old # m.by
  <2>. DEFINE a == Written(old, q)
              b == Written(m.by, p)
  <2>1. a \in ChannelsOf(old, site) /\ b \in ChannelsOf(m.by, site)
    BY <1>2, <1>3, <1>4, <1>6, ChannelsOfSite
  <2>2. a.name # Unset /\ b.name # Unset /\ (a.name = b.name => a.robot = b.robot)
    <3>1. NamesKept(old, m.by, site)
      BY DEF j, site
    <3>. HIDE DEF old, a, b
    <3>. QED BY <1>8, <2>1, <3>1 DEF NamesKept
  <2>3. At(LoadRelayConfig(old), q).robot = a.robot /\ j.name = a.name
    BY <1>2, <1>3, <2>2, PlacesKeep
  <2>4. At(LoadRelayConfig(m.by), p).robot = b.robot /\ j.name = b.name
    BY <1>4, <1>6, <2>2, PlacesKeep
  <2>. QED BY <1>3, <1>5, <2>2, <2>3, <2>4 DEF j
<1>. QED BY <1>7, <1>8

\* Only a file that has no enabled channel for a job makes a process give it up.
LEMMA InvGivenUp == IInv => GivenUpOnlyIfRemoved
<1>. SUFFICES ASSUME IInv, NEW g \in gone,
                     Identified(g.by, SiteOfJob(g.job)),
                     NEW i \in TargetsOf(g.by, SiteOfJob(g.job)),
                     IsEnabled(g.by.targets[i]),
                     NEW c \in ToSet(Channels(g.by.targets[i])),
                     IsEnabled(c), c.name = g.job.name
              PROVE  FALSE
  BY DEF GivenUpOnlyIfRemoved
<1>1. g.by \in Raw
  BY DEF IInv, TypeOK
<1>2. SiteOfJob(g.job) \in Site
  <2>1. g.job \in AllJobs
    BY DEF AllJobs, Settled
  <2>. QED BY <2>1, JobsAreOfChannels DEF SiteOfJob
<1>3. PICK k \in DOMAIN Channels(g.by.targets[i]) : c = Channels(g.by.targets[i])[k]
  BY DEF ToSet
<1>4. i \in DOMAIN g.by.targets /\ k \in DOMAIN g.by.targets[i].notifications
  BY <1>3 DEF TargetsOf, Channels
<1>. DEFINE p == <<i, k>>
<1>5. InFile(g.by, p) /\ p[1] = i /\ p[2] = k
  BY <1>4 DEF InFile
<1>6. At(LoadRelayConfig(g.by), p) = c
  BY <1>1, <1>3, <1>5, PlacesKeep
<1>. HIDE DEF p
<1>7. p \in GetChannel(LoadRelayConfig(g.by), SiteOfJob(g.job), g.job.name)
  BY <1>1, <1>2, <1>5, <1>6, FoundByName
<1>. QED BY <1>6, <1>7 DEF IInv, GoneInv, ChannelIn

\* Over restarts and edits a job meets its own channel or none, if the files give
\* every channel of the site a name and do not move it; and it is given up only where
\* no enabled channel is left (GetChannel, dispatchNotificationJob).
THEOREM JobsMeetTheirChannel == Spec => []JobsKeepTheirChannel
<1>1. IInv => JobsKeepTheirChannel
  BY InvReaches, InvGivenUp DEF JobsKeepTheirChannel
<1>. QED BY <1>1, Invariance, PTL

\* The owners of an event's jobs are the robots of its subscribers.
LEMMA InvSubscribers == IInv => EverySubscriberHasAJob
<1>. SUFFICES ASSUME IInv, NEW n \in DOMAIN raised
              PROVE  /\ OwnersOf(n, jobs \cup disk) \subseteq Subscribers(raised[n])
                     /\ Identified(raised[n].by, raised[n].site) =>
                           /\ n \notin lost =>
                                 Subscribers(raised[n]) \subseteq OwnersOf(n, jobs)
                           /\ n \notin lost \cup unsaved =>
                                 Subscribers(raised[n]) \subseteq OwnersOf(n, disk)
  BY DEF EverySubscriberHasAJob
<1>1. TypeOK /\ MadeInv
  BY DEF IInv
<1>2. raised[n] \in Raised /\ raised[n].event # "callback_pending"
  BY <1>1 DEF TypeOK, MadeInv, OnlyMade
<1>3. PICK raw \in Raw, site \in Site, event \in Event :
         raw = raised[n].by /\ site = raised[n].site /\ event = raised[n].event
  BY <1>2 DEF Raised
<1>4. JobsOfRaise(n) = NewJobs(LoadRelayConfig(raw), n,
                               MatchingChannels(LoadRelayConfig(raw), site, event))
  BY <1>3 DEF JobsOfRaise
<1>5. \A o : o \in Subscribers(raised[n]) <=>
               \E d \in ChannelsOf(raw, site) :
                  IsEnabled(d) /\ Subscribes(d, event) /\ d.robot = o
  BY <1>3 DEF Subscribers
<1>6. \A j \in JobsOfRaise(n) : j.of = n /\ j.owner \in Subscribers(raised[n])
  BY <1>2, <1>3, <1>4, <1>5, OwnersSubscribe
<1>7. Identified(raw, site) =>
         \A o \in Subscribers(raised[n]) : \E j \in JobsOfRaise(n) : j.owner = o
  BY <1>2, <1>3, <1>4, <1>5, SubscribersOwn
<1>8. \A table : OwnersOf(n, table) =
                   {j.owner : j \in {i \in table \cup Settled : i.of = n}}
  BY DEF OwnersOf, Settled
<1>9. OwnersOf(n, jobs \cup disk) \subseteq Subscribers(raised[n])
  <2>1. \A j \in jobs \cup disk \cup Settled : j.of = n => j \in JobsOfRaise(n)
    BY <1>1 DEF MadeInv, OnlyMade, AllJobs
  <2>. QED BY <1>6, <1>8, <2>1
<1>10. ASSUME NEW table, JobsOfRaise(n) \subseteq table \cup Settled, Identified(raw, site)
       PROVE  Subscribers(raised[n]) \subseteq OwnersOf(n, table)
  BY <1>6, <1>7, <1>8, <1>10
<1>11. /\ n \notin lost => JobsOfRaise(n) \subseteq jobs \cup Settled
       /\ n \notin lost \cup unsaved => JobsOfRaise(n) \subseteq disk \cup Settled
  BY <1>1 DEF MadeInv, NoneLost, NoneLostInFile
<1>. QED BY <1>3, <1>9, <1>10, <1>11

\* An event makes jobs only for enabled channels that subscribe, for each of them if the
\* file identifies the channels of the site, and none is lost without a trace unless its
\* process ends before any save has succeeded (MatchingChannels, EnqueueNotificationJobs).
THEOREM SubscribersHaveJobs == Spec => []EverySubscriberHasAJob
BY InvSubscribers, Invariance, PTL

-----------------------------------------------------------------------------
(* Entry points.                                                           *)

\* The webhooks a file has, before names and paths are filled in.
Listed(raw) == IF raw.webhooks = <<>> THEN <<raw.webhook>> ELSE raw.webhooks

\* Loading keeps the webhooks in their order, with their flags and the names and paths
\* they have.
LEMMA WebhooksKeep ==
    ASSUME NEW raw \in Raw
    PROVE  LET ws == LoadRelayConfig(raw).webhooks IN
           /\ DOMAIN ws = DOMAIN Listed(raw)
           /\ DOMAIN Listed(raw) \subseteq Nat
           /\ \A i \in DOMAIN Listed(raw) :
                 /\ ws[i].path = OrElse(Listed(raw)[i].path, DefaultPath)
                 /\ ws[i].enabled = Listed(raw)[i].enabled
                 /\ Listed(raw)[i].name # Unset => ws[i].name = Listed(raw)[i].name
<1>1. raw.webhook \in RawWebhook /\ raw.webhooks \in Seq(RawWebhook)
  BY FilesAreTyped DEF RawConfig
<1>2. Listed(raw) \in Seq(RawWebhook)
  BY <1>1 DEF Listed
<1>3. DOMAIN Listed(raw) \subseteq Nat
  BY <1>2
<1>. DEFINE ws == LoadRelayConfig(raw).webhooks
<1>4. ws = [i \in DOMAIN Listed(raw) |->
              [Listed(raw)[i] EXCEPT !.name = OrElse(@, "webhook-" \o ToString(i)),
                                     !.path = OrElse(@, DefaultPath)]]
  BY DEF LoadRelayConfig, Webhooks, Listed
<1>5. ASSUME NEW i \in DOMAIN Listed(raw)
      PROVE  /\ ws[i].path = OrElse(Listed(raw)[i].path, DefaultPath)
             /\ ws[i].enabled = Listed(raw)[i].enabled
             /\ Listed(raw)[i].name # Unset => ws[i].name = Listed(raw)[i].name
  <2>. DEFINE w == Listed(raw)[i]
              made == "webhook-" \o ToString(i)
  <2>1. w \in RawWebhook
    BY <1>2
  <2>2. ws[i] = [w EXCEPT !.name = OrElse(w.name, made),
                          !.path = OrElse(w.path, DefaultPath)]
    BY <1>4
  <2>. HIDE DEF w, made, ws
  <2>3. /\ ws[i].name = OrElse(w.name, made)
        /\ ws[i].path = OrElse(w.path, DefaultPath)
        /\ ws[i].enabled = w.enabled
    BY <2>1, <2>2 DEF RawWebhook
  <2>. QED BY <2>3 DEF w, OrElse
<1>6. DOMAIN ws = DOMAIN Listed(raw)
  BY <1>4
<1>. QED BY <1>3, <1>5, <1>6

\* A process that serves has built its mux.
UpServes == stage = "up" => ~MuxPanics(cfg)

LEMMA ServingHasBuilt == Spec => []UpServes
<1>1. Init => UpServes
  BY DEF Init, UpServes
<1>2. UpServes /\ [Next]_vars => UpServes'
  <2>. SUFFICES ASSUME UpServes, [Next]_vars PROVE UpServes'
    OBVIOUS
  <2>1. CASE Edit \/ Stop \/ OtherSave
    BY <2>1 DEF Edit, Stop, OtherSave, UpServes, cfg
  <2>2. CASE Start
    BY <2>2 DEF Start, UpServes
  <2>3. CASE Serve
    BY <2>3 DEF Serve, UpServes, cfg
  <2>4. ASSUME NEW site \in Site, NEW event \in Event \ {"callback_pending"},
               Raise(site, event)
        PROVE  UpServes'
    BY <2>4 DEF Raise, UpServes, cfg
  <2>5. ASSUME NEW j \in jobs, Dispatch(j)
        PROVE  UpServes'
    BY <2>5 DEF Dispatch, UpServes, cfg
  <2>6. CASE UNCHANGED vars
    BY <2>6 DEF vars, UpServes, cfg
  <2>. QED BY <2>1, <2>2, <2>3, <2>4, <2>5, <2>6 DEF Next
<1>. QED BY <1>1, <1>2, PTL DEF Spec

\* A process that read a file it can read has the entry points of that file.
LEMMA EntriesOfFile == loaded \in Raw /\ UpServes => EntriesAreConfigured
<1>. SUFFICES ASSUME loaded \in Raw, UpServes PROVE EntriesAreConfigured
  OBVIOUS
<1>. DEFINE written == Listed(loaded)
            ws == cfg.webhooks
            pathOf(i) == OrElse(written[i].path, DefaultPath)
            on == {i \in DOMAIN written : written[i].enabled # "false"}
            taken(i) == pathOf(i) \in FixedPaths \cup {pathOf(k) : k \in on \ {i}}
<1>1. /\ DOMAIN ws = DOMAIN written
      /\ DOMAIN written \subseteq Nat
      /\ \A i \in DOMAIN written :
            /\ ws[i].path = pathOf(i)
            /\ ws[i].enabled = written[i].enabled
            /\ written[i].name # Unset => ws[i].name = written[i].name
  BY WebhooksKeep DEF cfg
<1>. HIDE DEF written
<1>2. \A i : i \in Registered(cfg) <=> i \in on
  BY <1>1 DEF Registered, IsEnabled
<1>3. Entries(cfg) = {pathOf(i) : i \in on}
  BY <1>1, <1>2 DEF Entries
<1>4. MuxPanics(cfg) <=> \E i \in on : taken(i)
  <2>1. \A i \in on : ws[i].path = pathOf(i)
    BY <1>1
  <2>. HIDE DEF on, pathOf
  <2>2. MuxPanics(cfg) <=> \E i \in on : \/ ws[i].path \in FixedPaths
                                         \/ \E k \in on \ {i} : ws[i].path = ws[k].path
    BY <1>2 DEF MuxPanics
  <2>. QED BY <2>1, <2>2
<1>5. ASSUME NEW i \in on, \A k \in DOMAIN written : k > i => pathOf(k) # pathOf(i)
      PROVE  /\ webhookAt(cfg, pathOf(i)).enabled = written[i].enabled
             /\ written[i].name # Unset =>
                   webhookAt(cfg, pathOf(i)).name = written[i].name
  <2>. DEFINE at == {k \in DOMAIN ws : ws[k].path = pathOf(i)}
  <2>1. /\ i \in Nat /\ i \in at
        /\ \A k \in at : k \in Nat /\ k <= i
    BY <1>1, <1>5
  <2>2. (CHOOSE k \in at : \A l \in at : l <= k) = i
    <3>. HIDE DEF at
    <3>1. \E k \in at : \A l \in at : l <= k
      BY <2>1
    <3>2. \A k \in at : (\A l \in at : l <= k) => k = i
      BY <2>1
    <3>. QED BY <3>1, <3>2
  <2>3. webhookAt(cfg, pathOf(i)) = ws[i]
    BY <2>2 DEF webhookAt
  <2>. QED BY <1>1, <2>3
<1>6. stage = "up" => ~\E i \in on : taken(i)
  BY <1>4 DEF UpServes
<1>. QED BY <1>3, <1>4, <1>5, <1>6 DEF EntriesAreConfigured, written, Listed

\* Relay serves the paths its file enables, each with the settings of the last webhook
\* that has it, and panics only on a file in which an enabled webhook has the path of
\* another one or of the API (NewService, HTTPHandler).
THEOREM EntriesCorrect == Spec => []EntriesAreConfigured
<1>1. TypeOK /\ UpServes => EntriesAreConfigured
  BY EntriesOfFile DEF TypeOK
<1>. QED BY <1>1, TypeCorrect, ServingHasBuilt, PTL
=============================================================================
