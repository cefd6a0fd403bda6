------------------------------ MODULE OciClient ------------------------------
(***************************************************************************)
(* The OCI client as the only worker uses it: a token bucket for reads and *)
(* one for writes, the cache of subnets, lookups page by page, calls that  *)
(* start a work request and the wait for its end.  A reconciliation finds  *)
(* a subnet (tryFindLoadbalancerSubnet, when none is configured), looks    *)
(* its load balancer up and changes it, call by call.                      *)
(*                                                                         *)
(* Time passes in ticks, and only its passing fills the buckets.  A call   *)
(* that fails has failed in each of the attempts of its retry policy,      *)
(* which take time but no tokens.                                          *)
(***************************************************************************)
EXTENDS Integers, FiniteSets

CONSTANTS
    Subnets,
    VcnOf,          \* VcnOf[s]: the network of subnet s
    Public,         \* subnets that allow public addresses
    Home,           \* the subnet of the instance the controller runs on
    None,
    Bucket,         \* tokens in a full bucket
    PerTick,        \* tokens that one tick brings
    PollTicks,      \* ticks between two polls of a work request
    MaxPages,       \* bound: pages of a list of load balancers
    MaxFaults       \* bound: calls that fail

ASSUME ClientAssumption ==
    /\ Home \in Subnets /\ Public \subseteq Subnets /\ None \notin Subnets
    /\ Bucket \in Nat \ {0} /\ PerTick \in Nat \ {0} /\ PollTicks \in Nat \ {0}
    /\ MaxPages \in Nat /\ MaxFaults \in Nat

VARIABLES
    reads, writes,  \* tokens
    waited,         \* ticks since the last poll or the start of the wait
    cache,          \* cache[s]: the subnet found under key s, or None
    live,           \* subnets that exist
    request,        \* the latest work request
    pc,             \* the call the worker is about to make
    page,           \* pages of the lookup read so far
    subnet,         \* the subnet found
    listed,         \* history: what ListSubnets has returned
    answer,         \* how the last call or wait has ended
    left,           \* history: nobody waits for the work request any more
    faults          \* how many calls have failed

tokenVars == <<reads, writes, waited>>
subnetVars == <<cache, subnet, listed>>
vars == <<tokenVars, subnetVars, live, request, pc, page, answer, left, faults>>

PC == {"idle", "attachments", "vnic", "subnet", "list", "lookup", "change", "wait"}
Request == {"none", "running", "succeeded", "failed"}
Answer == {"none", "done", "failed", "limited", "refused", "conflict", "panic"}

NoCache == [s \in Subnets |-> None]

Init ==
    /\ reads = Bucket /\ writes = Bucket /\ waited = 0
    /\ cache = NoCache /\ live = Subnets /\ request = "none"
    /\ pc = "idle" /\ page = 0 /\ subnet = None /\ listed = {}
    /\ answer = "none" /\ left = FALSE /\ faults = 0

-----------------------------------------------------------------------------
(* Time and OCI *)

\* The buckets hold no more than Bucket.  (Faulty variant: they do.)
FilledOver(tokens) == tokens + PerTick
Filled(tokens) == IF tokens + PerTick < Bucket THEN tokens + PerTick ELSE Bucket

Tick ==
    /\ reads' = Filled(reads) /\ writes' = Filled(writes)
    /\ waited' = IF pc = "wait" /\ waited < PollTicks THEN waited + 1 ELSE waited
    /\ UNCHANGED <<subnetVars, live, request, pc, page, answer, left, faults>>

RequestEnds ==
    /\ request = "running"
    /\ request' \in {"succeeded", "failed"}
    /\ left' = FALSE
    /\ UNCHANGED <<tokenVars, subnetVars, live, pc, page, answer, faults>>

\* Somebody deletes or creates another subnet.
ChangeSubnets ==
    /\ \E s \in Subnets \ {Home} : live' = IF s \in live THEN live \ {s} ELSE live \cup {s}
    /\ UNCHANGED <<tokenVars, subnetVars, request, pc, page, answer, left, faults>>

\* An entry is older than 24 hours.
Expire(s) ==
    /\ cache[s] # None
    /\ cache' = [cache EXCEPT ![s] = None]
    /\ UNCHANGED <<tokenVars, subnet, listed, live, request, pc, page, answer, left, faults>>

-----------------------------------------------------------------------------
(* The worker *)

Continue(to) == pc' = to /\ UNCHANGED answer
EndWith(a) == pc' = "idle" /\ answer' = a

Fault == faults < MaxFaults /\ faults' = faults + 1

\* A read that gets its token and its answer, and one that does not.
Read == reads > 0 /\ reads' = reads - 1 /\ UNCHANGED <<writes, waited>>
ReadOK == Read /\ UNCHANGED faults
ReadFails(a) ==
    \/ reads = 0 /\ a = "limited" /\ UNCHANGED <<tokenVars, faults>>
    \/ Read /\ Fault /\ a = "refused"
Errors == {"limited", "refused"}

\* A subnet is looked for each time: what is found is remembered nowhere.
Begin ==
    /\ pc = "idle"
    /\ pc' \in {"attachments", "lookup"} /\ answer' = "none"
    /\ subnet' = None /\ listed' = {}
    /\ UNCHANGED <<tokenVars, cache, live, request, page, left, faults>>

\* GetPrimaryVNICForInstance: the attachments of the instance, then the VNIC.
InstanceRead(from, to) ==
    /\ pc = from
    /\ \/ ReadOK /\ Continue(to)
       \/ \E a \in Errors : ReadFails(a) /\ EndWith(a)
    /\ UNCHANGED <<subnetVars, live, request, page, left>>
ListVnicAttachments == InstanceRead("attachments", "vnic")
GetVNIC == InstanceRead("vnic", "subnet")

\* What GetSubnet returns is dereferenced before its error is looked at: the
\* process dies of an error.
Restart ==
    /\ EndWith("panic")
    /\ reads' = Bucket /\ writes' = Bucket /\ waited' = 0
    /\ cache' = NoCache
    /\ UNCHANGED <<subnet, listed>>
GetSubnet ==
    /\ pc = "subnet"
    /\ \/ /\ cache[Home] # None
          /\ subnet' = cache[Home] /\ Continue("list")
          /\ UNCHANGED <<tokenVars, cache, listed, faults>>
       \/ /\ cache[Home] = None
          /\ ReadOK /\ Continue("list")
          /\ subnet' = Home /\ cache' = [cache EXCEPT ![Home] = Home]
          /\ UNCHANGED listed
       \/ /\ cache[Home] = None
          /\ (reads = 0 /\ UNCHANGED faults) \/ (reads > 0 /\ Fault)
          /\ Restart
    /\ UNCHANGED <<live, request, page, left>>

\* The subnets of the network of s.  (Faulty variant: all that there are.)
InVcnNot(s) == live
InVcn(s) == {t \in live : VcnOf[t] = VcnOf[s]}

\* Every subnet of the list is cached as the last one, whose variable they
\* share.  The first public one is chosen or, if there is none, Home.
ListSubnets ==
    /\ pc = "list"
    /\ \/ /\ ReadOK /\ Continue("lookup")
          /\ listed' = InVcn(subnet)
          /\ \E last \in listed' :
                /\ cache' = [s \in Subnets |-> IF s \in listed' THEN last ELSE cache[s]]
                /\ subnet' \in IF listed' \cap Public = {} THEN {Home}
                                ELSE listed' \cap Public
                /\ subnet' = last => listed' \cap Public \subseteq {last}
       \/ /\ \E a \in Errors : ReadFails(a) /\ EndWith(a)
          /\ UNCHANGED subnetVars
    /\ UNCHANGED <<live, request, page, left>>

\* GetLoadBalancerByName: a token for each page; found or not, it goes on.
GetLoadBalancerByName ==
    /\ pc = "lookup"
    /\ \/ ReadOK /\ Continue("change") /\ page' = 0
       \/ ReadOK /\ Continue("lookup") /\ page < MaxPages /\ page' = page + 1
       \/ (\E a \in Errors : ReadFails(a) /\ EndWith(a)) /\ page' = 0
    /\ UNCHANGED <<subnetVars, live, request, left>>

\* An error ends the update or, in its first pass, is ignored.
ChangeFails(a) == pc' \in {"idle", "change"} /\ answer' = a

\* GetLoadBalancer, before and between the passes.
GetLoadBalancer ==
    /\ pc = "change"
    /\ \/ ReadOK /\ Continue("change")
       \/ \E a \in Errors : ReadFails(a) /\ ChangeFails(a)
    /\ UNCHANGED <<subnetVars, live, request, page, left>>

\* getSubnets, at the start of each pass: the subnet found, or any one that is
\* configured, if the cache has none under its key.
GetSubnets ==
    /\ pc = "change"
    /\ \E s \in Subnets :
        /\ subnet \in {s, None} /\ cache[s] = None
        /\ \/ /\ ReadOK /\ s \in live /\ Continue("change")
              /\ cache' = [cache EXCEPT ![s] = s]
           \/ /\ ReadOK /\ s \notin live /\ ChangeFails("refused")
              /\ UNCHANGED cache
           \/ /\ \E a \in Errors : ReadFails(a) /\ ChangeFails(a)
              /\ UNCHANGED cache
    /\ UNCHANGED <<subnet, listed, live, request, page, left>>

\* A write: OCI carries out one work request of a load balancer at a time.  If
\* the answer is lost, there is a work request that nobody knows of.
Write == writes > 0 /\ writes' = writes - 1 /\ waited' = 0 /\ UNCHANGED reads
WriteFails ==
    \/ writes = 0 /\ ChangeFails("limited") /\ UNCHANGED <<tokenVars, request, left, faults>>
    \/ Write /\ Fault /\ ChangeFails("refused") /\ UNCHANGED <<request, left>>
    \/ /\ Write /\ Fault /\ ChangeFails("refused")
       /\ request # "running" /\ request' = "running" /\ left' = TRUE
    \/ /\ Write /\ request = "running" /\ ChangeFails("conflict")
       /\ UNCHANGED <<request, left, faults>>
Change ==
    /\ pc = "change"
    /\ \/ /\ Write /\ request # "running" /\ request' = "running"
          /\ Continue("wait")
          /\ UNCHANGED <<left, faults>>
       \/ WriteFails
    /\ UNCHANGED <<subnetVars, live, page>>

\* UpdateLoadBalancerShape, UpdateNetworkSecurityGroups: nobody waits.
ChangeUnawaited ==
    /\ pc = "change"
    /\ \/ /\ Write /\ request # "running" /\ request' = "running"
          /\ Continue("change") /\ left' = TRUE
          /\ UNCHANGED faults
       \/ WriteFails
    /\ UNCHANGED <<subnetVars, live, page>>

\* What a poll learns: "running" to go on.  (Faulty variants: what has not failed
\* has succeeded; a failure is overlooked.)
LearntDeaf == IF request = "succeeded" THEN "succeeded" ELSE "running"
LearntHasty == IF request = "failed" THEN "failed" ELSE "succeeded"
Learnt == request

\* AwaitWorkRequest, the first poll after the first interval.  Errors that are
\* retriable are waited out, an empty bucket is not one of them.  (Faulty
\* variant: the first poll is made at once.)
DueAtOnce == TRUE
Due == waited = PollTicks
AwaitWorkRequest ==
    /\ pc = "wait" /\ Due
    /\ LET again == reads > 0 /\ reads' = reads - 1 /\ waited' = 0 /\ UNCHANGED writes IN
       \/ /\ again /\ UNCHANGED <<left, faults>>
          /\ \/ Learnt = "running" /\ Continue("wait")
             \/ Learnt = "succeeded" /\ pc' = "change" /\ answer' = "done"
             \/ Learnt = "failed" /\ ChangeFails("failed")
       \/ again /\ Fault /\ Continue("wait") /\ UNCHANGED left
       \/ /\ again /\ Fault /\ ChangeFails("refused")
          /\ left' = (request = "running")
       \/ /\ reads = 0 /\ ChangeFails("limited")
          /\ left' = (request = "running")
          /\ UNCHANGED <<tokenVars, faults>>
    /\ UNCHANGED <<subnetVars, live, request, page>>

Finish ==
    /\ pc = "change" /\ EndWith("done")
    /\ UNCHANGED <<tokenVars, subnetVars, live, request, page, left, faults>>

Worker ==
    \/ Begin \/ ListVnicAttachments \/ GetVNIC \/ GetSubnet \/ ListSubnets
    \/ GetLoadBalancerByName \/ GetLoadBalancer \/ GetSubnets
    \/ Change \/ ChangeUnawaited \/ AwaitWorkRequest \/ Finish

Next ==
    \/ Tick \/ RequestEnds \/ ChangeSubnets
    \/ \E s \in Subnets : Expire(s)
    \/ Worker

Spec == Init /\ [][Next]_vars

\* Time passes, work requests end, a wait polls.
FairSpec == Spec /\ WF_vars(Tick) /\ WF_vars(RequestEnds) /\ WF_vars(AwaitWorkRequest)

-----------------------------------------------------------------------------
(* Properties *)

TypeOK ==
    /\ reads \in 0..Bucket /\ writes \in 0..Bucket /\ waited \in 0..PollTicks
    /\ cache \in [Subnets -> Subnets \cup {None}]
    /\ live \subseteq Subnets /\ Home \in live
    /\ request \in Request /\ pc \in PC /\ page \in 0..MaxPages
    /\ subnet \in Subnets \cup {None} /\ listed \subseteq Subnets
    /\ answer \in Answer /\ left \in BOOLEAN /\ faults \in 0..MaxFaults

\* However the worker has emptied the bucket before, a wait for a work request
\* is never given up for want of a token (loadbalancer.go:346-366,
\* ratelimter.go:22-68): each poll comes after an interval that brings one.
WaitNeverLimited == [][pc = "wait" /\ pc' # "wait" => answer' # "limited"]_vars

\* A work request that runs is waited for, unless its call is not awaited, its
\* answer was lost or its wait failed (loadbalancer.go:346-418): no other call
\* meets a conflict of its own making.
RunningIsAwaited == request = "running" => pc = "wait" \/ left

\* Discovery finds a subnet of the instance's own network, a public one if the
\* list had any, although the cache confuses the subnets of a network
\* (spec.go:354-387, networking.go:62-111).
FoundIsOwn ==
    pc \in {"lookup", "change", "wait"} /\ subnet # None =>
        /\ VcnOf[subnet] = VcnOf[Home]
        /\ subnet \in Public \/ (subnet = Home /\ listed \cap Public = {})

\* Every wait ends, if work requests do and errors stop.
WaitEnds == pc = "wait" ~> pc # "wait"
=============================================================================
