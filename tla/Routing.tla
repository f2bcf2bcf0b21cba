------------------------------ MODULE Routing -------------------------------
(***************************************************************************)
(* Which tasks a request is turned into (Service.buildTasks), given its    *)
(* webhook and its body.  A task is identified by its logical key: site,   *)
(* channel and digest, for the one repository of the body.                 *)
(*                                                                         *)
(* A repository pattern is the set of the repositories it matches.  Left   *)
(* out: references, tags and metadata of a task.  Two routes that give the *)
(* same key differ in the metadata only, and the first one is kept.        *)
(***************************************************************************)
CONSTANTS
    Webhook, Repository, Digest, Site,
    Routes,     \* set of routes, see Route
    Targets,    \* [Site -> target], see Target
    DefaultChannel

Route(channels) ==
    [enabled      : BOOLEAN,
     webhookNames : SUBSET Webhook,
     patterns     : SUBSET SUBSET Repository,
     channel      : channels,
     targetSites  : SUBSET Site]

Target == [enabled : BOOLEAN, patterns : SUBSET SUBSET Repository]

\* What relay reads from a body: the repository, and the digests that have a usable
\* tag (groupResourcesByDigest).  The webhook is not in the body: it is the one
\* configured at the path of the request.
Payload == [repository : Repository, digests : SUBSET Digest]

-----------------------------------------------------------------------------

AllowsWebhook(route, w) == route.webhookNames = {} \/ w \in route.webhookNames

matchesRepository(patterns, repo) ==
    patterns = {} \/ \E p \in patterns : repo \in p

Selected(route, w, p) ==
    /\ route.enabled
    /\ AllowsWebhook(route, w)
    /\ matchesRepository(route.patterns, p.repository)

\* The patterns of a target count only when there are no routes.
buildTasksFromRoutes(w, p) ==
    UNION {{s \in route.targetSites : s \in DOMAIN Targets /\ Targets[s].enabled}
              \X {route.channel} \X p.digests : route \in {r \in Routes : Selected(r, w, p)}}

buildTasksFromTargets(p) ==
    {s \in DOMAIN Targets : /\ Targets[s].enabled
                            /\ matchesRepository(Targets[s].patterns, p.repository)}
        \X {DefaultChannel} \X p.digests

buildTasks(w, p) ==
    IF Routes # {} THEN buildTasksFromRoutes(w, p) ELSE buildTasksFromTargets(p)
=============================================================================
