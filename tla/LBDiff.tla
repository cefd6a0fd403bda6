------------------------------- MODULE LBDiff -------------------------------
(***************************************************************************)
(* What has to be done to a load balancer to make it the one specified.    *)
(* A load balancer is a function from sub-resources <<kind, name>> to      *)
(* their contents.  Backend sets, listeners and the shape are compared     *)
(* when they are about to be changed (cloudprovider UpdateLoadBalancer),   *)
(* routing policies, rule sets, hostnames and certificates once and before *)
(* everything else (lbManager.enqueue*Actions).                            *)
(***************************************************************************)
EXTENDS Naturals

CONSTANTS
    Sanitized       \* Sanitized[n]: getSanitizedName of the listener name n

\* Something to do to sub-resource x, which shall have the contents specified
\* for y (y is x but for listeners with names that are taken for each other).
Action(verb, x, y) == [verb |-> verb, id |-> x, as |-> y]

Of(lb, kind) == {x \in DOMAIN lb : x[1] = kind}

\* utils.MapCompare for one kind: what to create, to update and to delete.
\* (Faulty variant: it is given its arguments in the wrong order.)
Creates(lb, spec, kind) ==
    {Action("create", x, x) : x \in Of(spec, kind) \ Of(lb, kind)}
Updates(lb, spec, kind) ==
    {Action("update", x, x) :
        x \in {y \in Of(spec, kind) \cap Of(lb, kind) : spec[y] # lb[y]}}
DeletesSwapped(lb, spec, kind) ==
    {Action("delete", x, x) : x \in Of(spec, kind) \ Of(lb, kind)}
Deletes(lb, spec, kind) ==
    {Action("delete", x, x) : x \in Of(lb, kind) \ Of(spec, kind)}

\* getBackendSetChanges
BackendSetActions(lb, spec) ==
    Creates(lb, spec, "backendSet") \cup Updates(lb, spec, "backendSet")
        \cup Deletes(lb, spec, "backendSet")

\* hasLoadbalancerShapeChanged
ShapeActions(lb, spec) == Updates(lb, spec, "shape")

\* getListenerChanges.  Listeners are matched by sanitized name; of several
\* specified ones with the same, the last in the iteration over the map, any of
\* them, stands for all (winner).  (Faulty variant: only unchanged ones are kept.)
San(x) == Sanitized[x[2]]
SanitizedNames(listeners) == {San(x) : x \in listeners}
Winners(spec) ==
    {w \in [SanitizedNames(Of(spec, "listener")) -> Of(spec, "listener")] :
        \A s \in DOMAIN w : San(w[s]) = s}
ListenerActionsAnew(lb, spec, winner) ==
    LET actual == Of(lb, "listener")
        desired == Of(spec, "listener")
        kept == {x \in actual : x \in desired /\ lb[x] = spec[x]}
    IN  {Action("delete", x, x) : x \in actual \ kept}
        \cup {Action("create", x, x) :
                 x \in {y \in desired : San(y) \notin SanitizedNames(actual)}}
ListenerActions(lb, spec, winner) ==
    LET actual == Of(lb, "listener")
        desired == Of(spec, "listener")
        kept == {x \in actual : San(x) \in SanitizedNames(desired)}
    IN  {Action("delete", x, x) : x \in actual \ kept}
        \cup {Action("update", x, winner[San(x)]) :
                 x \in {y \in kept : lb[y] # spec[winner[San(y)]]}}
        \cup {Action("create", x, x) :
                 x \in {y \in desired : San(y) \notin SanitizedNames(actual)}}

\* UpdateLoadBalancer refuses to work on a load balancer with another reserved
\* address; that it is internal, or not, it does not look at.
AddressFits(lb, spec) == lb[<<"address", "address">>] = spec[<<"address", "address">>]

\* All that one call of cloudprovider UpdateLoadBalancer may set out to do.
Passes(lb, spec) ==
    {BackendSetActions(lb, spec) \cup ShapeActions(lb, spec)
        \cup ListenerActions(lb, spec, w) : w \in Winners(spec)}

\* The place of an action among those it is queued with: actionIndex in
\* cloudprovider UpdateLoadBalancer, the order of first appearance of its
\* subject in ActionDispatcher.  Within a place any order is possible.  (Faulty
\* variant: listeners before backend sets, whatever is done to them.)
RankListenersFirst(a) ==
    CASE a.id[1] = "shape" -> 0
      [] a.id[1] = "listener" -> 1
      [] a.id[1] = "backendSet" -> 2
      [] a.id[1] = "policy" -> 7
      [] a.id[1] = "ruleSet" -> 8
      [] a.id[1] = "hostname" -> 9
      [] OTHER -> 10
Rank(a) ==
    CASE a.id[1] = "shape" -> 0
      [] a.id[1] = "backendSet" /\ a.verb = "create" -> 1
      [] a.id[1] = "backendSet" /\ a.verb = "update" -> 2
      [] a.id[1] = "listener" /\ a.verb = "create" -> 3
      [] a.id[1] = "listener" /\ a.verb = "update" -> 4
      [] a.id[1] = "listener" /\ a.verb = "delete" -> 5
      [] a.id[1] = "backendSet" /\ a.verb = "delete" -> 6
      [] a.id[1] = "policy" -> 7
      [] a.id[1] = "ruleSet" -> 8
      [] a.id[1] = "hostname" -> 9
      [] OTHER -> 10
=============================================================================
