--------------------------- MODULE MCRelayConfig ----------------------------
(***************************************************************************)
(* Two sites and three robots, and the files an operator may write for     *)
(* them: channels with and without names, flags left out, set and cleared, *)
(* a channel inserted before another, a target disabled or written twice,  *)
(* webhooks with paths of their own, without, with one of the API, and      *)
(* with that of a disabled one.                                            *)
(***************************************************************************)
EXTENDS RelayConfig

channel(name, robot, enabled, events) ==
    [name |-> name, robot |-> robot, enabled |-> enabled, events |-> events]

target(name, site, enabled, notifications) ==
    [name |-> name, siteName |-> site, enabled |-> enabled, notifications |-> notifications]

hook(name, path, enabled) == [name |-> name, path |-> path, enabled |-> enabled]

file1(hooks, targets) ==
    [webhook |-> hook("", "", ""), webhooks |-> hooks, targets |-> targets]

onDone == channel("a", "r1", "", {"done"})
onTrouble == channel("b", "r2", "true", {"callback_pending", "pulling"})
other == channel("a", "r3", "", {})

named == file1(<<>>, <<target("s1", "", "", <<onDone, onTrouble>>),
                       target("s2", "", "true", <<other>>)>>)

\* b is removed, a is disabled for now, and the second target names its site.
fewer == file1(<<hook("w", "/w", ""), hook("v", "", "false")>>,
               <<target("s1", "", "", <<[onDone EXCEPT !.enabled = "false"]>>),
                 target("s1", "s2", "", <<other>>)>>)

\* The first site is closed, and the channel of the other one has another name.
closed == file1(<<hook("", "", ""), hook("w", "/w", "true")>>,
                <<target("s1", "", "false", <<onDone>>),
                  target("s2", "", "", <<[other EXCEPT !.name = "b"]>>)>>)

\* No names.
unnamed == file1(<<hook("w", "/w", "")>>,
                 <<target("s1", "", "", <<channel("", "r1", "", {"done"})>>)>>)

\* A channel was inserted before the one of unnamed.
inserted == file1(<<hook("w", "/w", ""), hook("v", "/w", "false"), hook("", "/healthz", "false")>>,
                  <<target("s1", "", "", <<channel("", "r2", "", {"pulling"}),
                                           channel("", "r1", "", {"done"})>>)>>)

\* Two enabled webhooks without a path, and a site that is written twice.
twice == file1(<<hook("w", "", ""), hook("v", "", "")>>,
               <<target("s1", "", "", <<onDone>>), target("s1", "", "", <<onTrouble>>),
                 target("s2", "", "", <<>>)>>)

\* A webhook on a path of the API.
onApi == [named EXCEPT !.webhook = hook("", "/healthz", "")]

allFiles == {named, fewer, closed, unnamed, inserted, twice, onApi}
=============================================================================
