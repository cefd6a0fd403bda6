--------------------------- MODULE OciClientProofs ---------------------------
(***************************************************************************)
(* Invariance proofs about OciClient, for any number of subnets, any size  *)
(* of the buckets and any length of the intervals.                         *)
(***************************************************************************)
EXTENDS OciClient, TLAPS

\* A wait that has lasted a tick finds a token.
TokenForPoll == pc = "wait" /\ waited > 0 => reads > 0

\* The cache may confuse subnets of a network, but not networks.
CacheKeepsVcn == \A s \in Subnets : cache[s] # None => VcnOf[cache[s]] = VcnOf[s]
ListOwnVcn == pc = "list" => subnet # None /\ VcnOf[subnet] = VcnOf[Home]

ClientInv ==
    TypeOK /\ TokenForPoll /\ RunningIsAwaited
        /\ CacheKeepsVcn /\ ListOwnVcn /\ FoundIsOwn

USE DEF PC, Request, Answer

LEMMA FilledToken ==
  ASSUME NEW n \in 0..Bucket
  PROVE  Filled(n) \in 0..Bucket /\ Filled(n) > 0
BY ClientAssumption DEF Filled

LEMMA InitInv == Init => ClientInv
<1> SUFFICES ASSUME Init
             PROVE  ClientInv
  OBVIOUS
<1>1. cache \in [Subnets -> Subnets \cup {None}] /\ CacheKeepsVcn
  BY DEF Init, NoCache, CacheKeepsVcn
<1>2. /\ reads \in 0..Bucket /\ writes \in 0..Bucket /\ waited \in 0..PollTicks
      /\ page \in 0..MaxPages /\ faults \in 0..MaxFaults
  BY ClientAssumption DEF Init
<1>3. TypeOK
  BY <1>1, <1>2, ClientAssumption DEF Init, TypeOK
<1> QED BY <1>1, <1>3 DEF Init, ClientInv, TokenForPoll, RunningIsAwaited,
       ListOwnVcn, FoundIsOwn

LEMMA TickInv == ClientInv /\ Tick => ClientInv'
<1> SUFFICES ASSUME ClientInv, Tick
             PROVE  ClientInv'
  OBVIOUS
<1>1. reads' \in 0..Bucket /\ writes' \in 0..Bucket /\ reads' > 0
  BY FilledToken DEF ClientInv, TypeOK, Tick
<1>2. waited' \in 0..PollTicks
  BY ClientAssumption DEF ClientInv, TypeOK, Tick
<1>3. TypeOK'
  BY <1>1, <1>2 DEF ClientInv, TypeOK, Tick, subnetVars
<1>4. TokenForPoll'
  BY <1>1 DEF TokenForPoll
<1>5. (RunningIsAwaited /\ CacheKeepsVcn /\ ListOwnVcn /\ FoundIsOwn)'
  BY DEF ClientInv, Tick, subnetVars, RunningIsAwaited, CacheKeepsVcn,
     ListOwnVcn, FoundIsOwn
<1> QED BY <1>3, <1>4, <1>5 DEF ClientInv

LEMMA RequestEndsInv == ClientInv /\ RequestEnds => ClientInv'
BY DEF ClientInv, RequestEnds, tokenVars, subnetVars, TypeOK, TokenForPoll,
   RunningIsAwaited, CacheKeepsVcn, ListOwnVcn, FoundIsOwn

LEMMA ChangeSubnetsInv == ClientInv /\ ChangeSubnets => ClientInv'
<1> SUFFICES ASSUME ClientInv, ChangeSubnets
             PROVE  ClientInv'
  OBVIOUS
<1>1. live' \subseteq Subnets /\ Home \in live'
  BY DEF ClientInv, TypeOK, ChangeSubnets
<1> QED BY <1>1 DEF ClientInv, ChangeSubnets, tokenVars, subnetVars, TypeOK,
       TokenForPoll, RunningIsAwaited, CacheKeepsVcn, ListOwnVcn, FoundIsOwn

LEMMA ExpireInv ==
  ASSUME ClientInv, NEW s \in Subnets, Expire(s)
  PROVE  ClientInv'
<1>1. cache' \in [Subnets -> Subnets \cup {None}] /\ CacheKeepsVcn'
  BY DEF ClientInv, TypeOK, Expire, CacheKeepsVcn
<1> QED BY <1>1 DEF ClientInv, Expire, tokenVars, TypeOK, TokenForPoll,
       RunningIsAwaited, ListOwnVcn, FoundIsOwn

\* A read, whatever becomes of it, takes at most one token, if there is one.
LEMMA ReadType ==
  ASSUME TypeOK, NEW a, ReadOK \/ ReadFails(a)
  PROVE  /\ reads' \in 0..Bucket /\ writes' \in 0..Bucket
         /\ waited' \in 0..PollTicks /\ faults' \in 0..MaxFaults
BY ClientAssumption DEF TypeOK, ReadOK, ReadFails, Read, Fault, tokenVars

LEMMA InstanceReadInv ==
  ASSUME ClientInv, NEW from \in PC, NEW to \in PC, InstanceRead(from, to),
         from \in {"attachments", "vnic"}, to \in {"vnic", "subnet"}
  PROVE  ClientInv'
<1>1. /\ reads' \in 0..Bucket /\ writes' \in 0..Bucket
      /\ waited' \in 0..PollTicks /\ faults' \in 0..MaxFaults
  BY ReadType DEF InstanceRead, ClientInv
<1>2. pc' \in {"vnic", "subnet", "idle"} /\ answer' \in Answer /\ pc # "wait"
  BY DEF InstanceRead, Continue, EndWith, Errors, ClientInv, TypeOK
<1>3. UNCHANGED <<cache, subnet, listed, live, request, page, left>>
  BY DEF InstanceRead, subnetVars
<1> QED BY <1>1, <1>2, <1>3 DEF ClientInv, TypeOK, TokenForPoll,
       RunningIsAwaited, CacheKeepsVcn, ListOwnVcn, FoundIsOwn

LEMMA BeginInv == ClientInv /\ Begin => ClientInv'
BY DEF ClientInv, Begin, tokenVars, TypeOK, TokenForPoll, RunningIsAwaited,
   CacheKeepsVcn, ListOwnVcn, FoundIsOwn

LEMMA GetSubnetInv == ClientInv /\ GetSubnet => ClientInv'
<1> SUFFICES ASSUME ClientInv, GetSubnet
             PROVE  ClientInv'
  OBVIOUS
<1>1. UNCHANGED <<live, request, page, left>> /\ pc = "subnet"
  BY DEF GetSubnet
<1>2. CASE /\ cache[Home] # None /\ subnet' = cache[Home] /\ Continue("list")
           /\ UNCHANGED <<tokenVars, cache, listed, faults>>
  <2>1. subnet' \in Subnets /\ VcnOf[subnet'] = VcnOf[Home]
    BY <1>2, ClientAssumption DEF ClientInv, TypeOK, CacheKeepsVcn
  <2> QED BY <1>1, <1>2, <2>1, ClientAssumption DEF ClientInv, Continue,
         tokenVars, TypeOK, TokenForPoll, RunningIsAwaited, CacheKeepsVcn,
         ListOwnVcn, FoundIsOwn
<1>3. CASE /\ ReadOK /\ Continue("list") /\ subnet' = Home
           /\ cache' = [cache EXCEPT ![Home] = Home] /\ UNCHANGED listed
  <2>1. /\ reads' \in 0..Bucket /\ writes' \in 0..Bucket
        /\ waited' \in 0..PollTicks /\ faults' \in 0..MaxFaults
    BY <1>3, ReadType DEF ClientInv
  <2>2. cache' \in [Subnets -> Subnets \cup {None}] /\ CacheKeepsVcn'
    BY <1>3, ClientAssumption DEF ClientInv, TypeOK, CacheKeepsVcn
  <2> QED BY <1>1, <1>3, <2>1, <2>2, ClientAssumption DEF ClientInv, Continue,
         TypeOK, TokenForPoll, RunningIsAwaited, ListOwnVcn, FoundIsOwn
<1>4. CASE Restart /\ (UNCHANGED faults \/ Fault)
  <2>1. /\ reads' \in 0..Bucket /\ writes' \in 0..Bucket
        /\ waited' \in 0..PollTicks /\ faults' \in 0..MaxFaults
    BY <1>4, ClientAssumption DEF Restart, Fault, ClientInv, TypeOK
  <2>2. cache' \in [Subnets -> Subnets \cup {None}] /\ CacheKeepsVcn'
    BY <1>4 DEF Restart, NoCache, CacheKeepsVcn
  <2> QED BY <1>1, <1>4, <2>1, <2>2 DEF ClientInv, Restart, EndWith,
         TypeOK, TokenForPoll, RunningIsAwaited, ListOwnVcn, FoundIsOwn
<1> QED BY <1>2, <1>3, <1>4 DEF GetSubnet

LEMMA ListSubnetsInv == ClientInv /\ ListSubnets => ClientInv'
<1> SUFFICES ASSUME ClientInv, ListSubnets
             PROVE  ClientInv'
  OBVIOUS
<1>1. /\ UNCHANGED <<live, request, page, left>> /\ pc = "list"
      /\ subnet \in Subnets /\ VcnOf[subnet] = VcnOf[Home]
  BY DEF ListSubnets, ClientInv, TypeOK, ListOwnVcn
<1>2. ASSUME ReadOK, Continue("lookup"), listed' = InVcn(subnet),
             NEW last \in listed',
             cache' = [s \in Subnets |-> IF s \in listed' THEN last ELSE cache[s]],
             subnet' \in IF listed' \cap Public = {} THEN {Home}
                         ELSE listed' \cap Public
      PROVE  ClientInv'
  <2>1. /\ reads' \in 0..Bucket /\ writes' \in 0..Bucket
        /\ waited' \in 0..PollTicks /\ faults' \in 0..MaxFaults
    BY <1>2, ReadType DEF ClientInv
  <2>2. listed' \subseteq Subnets /\ \A s \in listed' : VcnOf[s] = VcnOf[Home]
    BY <1>1, <1>2 DEF InVcn, ClientInv, TypeOK
  <2>3. cache' \in [Subnets -> Subnets \cup {None}]
    BY <1>2, <2>2 DEF ClientInv, TypeOK
  <2>4. CacheKeepsVcn'
    BY <1>2, <2>2 DEF ClientInv, CacheKeepsVcn
  <2>5. /\ subnet' \in Subnets /\ VcnOf[subnet'] = VcnOf[Home]
        /\ subnet' \in Public \/ (subnet' = Home /\ listed' \cap Public = {})
    BY <1>2, <2>2, ClientAssumption
  <2> QED BY <1>1, <1>2, <2>1, <2>2, <2>3, <2>4, <2>5 DEF ClientInv, Continue,
         TypeOK, TokenForPoll, RunningIsAwaited, ListOwnVcn, FoundIsOwn
<1>3. ASSUME NEW a \in Errors, ReadFails(a), EndWith(a), UNCHANGED subnetVars
      PROVE  ClientInv'
  <2>1. /\ reads' \in 0..Bucket /\ writes' \in 0..Bucket
        /\ waited' \in 0..PollTicks /\ faults' \in 0..MaxFaults
    BY <1>3, ReadType DEF ClientInv
  <2> QED BY <1>1, <1>3, <2>1 DEF ClientInv, EndWith, Errors, subnetVars,
         TypeOK, TokenForPoll, RunningIsAwaited, CacheKeepsVcn, ListOwnVcn,
         FoundIsOwn
<1> QED BY <1>2, <1>3 DEF ListSubnets

\* Once a subnet is found, no call changes what is known of subnets: it is
\* enough to look at tokens, faults and the work request.
LEMMA AfterDiscovery ==
  ASSUME ClientInv, UNCHANGED <<subnetVars, live>>,
         pc \in {"lookup", "change", "wait"},
         pc' \in {"idle", "lookup", "change", "wait"},
         reads' \in 0..Bucket, writes' \in 0..Bucket, waited' \in 0..PollTicks,
         faults' \in 0..MaxFaults, page' \in 0..MaxPages, answer' \in Answer,
         request' \in Request, left' \in BOOLEAN,
         TokenForPoll', RunningIsAwaited'
  PROVE  ClientInv'
BY DEF ClientInv, subnetVars, TypeOK, CacheKeepsVcn, ListOwnVcn, FoundIsOwn

LEMMA GetLoadBalancerByNameInv == ClientInv /\ GetLoadBalancerByName => ClientInv'
<1> SUFFICES ASSUME ClientInv, GetLoadBalancerByName
             PROVE  ClientInv'
  OBVIOUS
<1>1. /\ reads' \in 0..Bucket /\ writes' \in 0..Bucket
      /\ waited' \in 0..PollTicks /\ faults' \in 0..MaxFaults
  BY ReadType DEF GetLoadBalancerByName, ClientInv
<1>2. /\ pc = "lookup" /\ pc' \in {"idle", "lookup", "change"}
      /\ answer' \in Answer /\ page' \in 0..MaxPages
      /\ UNCHANGED <<subnetVars, live, request, left>>
  BY ClientAssumption DEF GetLoadBalancerByName, Continue, EndWith, Errors,
     ClientInv, TypeOK
<1>3. request' \in Request /\ left' \in BOOLEAN /\ TokenForPoll' /\ RunningIsAwaited'
  BY <1>2 DEF ClientInv, TypeOK, TokenForPoll, RunningIsAwaited
<1> QED BY <1>1, <1>2, <1>3, AfterDiscovery

LEMMA GetLoadBalancerInv == ClientInv /\ GetLoadBalancer => ClientInv'
<1> SUFFICES ASSUME ClientInv, GetLoadBalancer
             PROVE  ClientInv'
  OBVIOUS
<1>1. /\ reads' \in 0..Bucket /\ writes' \in 0..Bucket
      /\ waited' \in 0..PollTicks /\ faults' \in 0..MaxFaults
  BY ReadType DEF GetLoadBalancer, ClientInv
<1>2. /\ pc = "change" /\ pc' \in {"idle", "change"} /\ answer' \in Answer
      /\ UNCHANGED <<subnetVars, live, request, page, left>>
  BY DEF GetLoadBalancer, Continue, ChangeFails, Errors, ClientInv, TypeOK
<1>3. /\ request' \in Request /\ left' \in BOOLEAN /\ page' \in 0..MaxPages
      /\ TokenForPoll' /\ RunningIsAwaited'
  BY <1>2 DEF ClientInv, TypeOK, TokenForPoll, RunningIsAwaited
<1> QED BY <1>1, <1>2, <1>3, AfterDiscovery

LEMMA GetSubnetsInv == ClientInv /\ GetSubnets => ClientInv'
<1> SUFFICES ASSUME ClientInv, GetSubnets
             PROVE  ClientInv'
  OBVIOUS
<1>1. /\ reads' \in 0..Bucket /\ writes' \in 0..Bucket
      /\ waited' \in 0..PollTicks /\ faults' \in 0..MaxFaults
  BY ReadType DEF GetSubnets, ClientInv
<1>2. /\ pc = "change" /\ pc' \in {"idle", "change"} /\ answer' \in Answer
      /\ UNCHANGED <<subnet, listed, live, request, page, left>>
  BY DEF GetSubnets, Continue, ChangeFails, Errors, ClientInv, TypeOK
<1>3. PICK s \in Subnets : cache' = cache \/ cache' = [cache EXCEPT ![s] = s]
  BY DEF GetSubnets
<1>4. cache' \in [Subnets -> Subnets \cup {None}] /\ CacheKeepsVcn'
  BY <1>3 DEF ClientInv, TypeOK, CacheKeepsVcn
<1> QED BY <1>1, <1>2, <1>4 DEF ClientInv, TypeOK, TokenForPoll,
       RunningIsAwaited, ListOwnVcn, FoundIsOwn

LEMMA WriteType ==
  ASSUME TypeOK, Write, UNCHANGED faults \/ Fault
  PROVE  /\ reads' \in 0..Bucket /\ writes' \in 0..Bucket
         /\ waited' = 0 /\ waited' \in 0..PollTicks /\ faults' \in 0..MaxFaults
BY ClientAssumption DEF TypeOK, Write, Fault

LEMMA WriteFailsInv ==
  ASSUME ClientInv, pc = "change", WriteFails, UNCHANGED <<subnetVars, live, page>>
  PROVE  ClientInv'
<1>1. /\ pc' \in {"idle", "change"} /\ answer' \in Answer
      /\ request' \in Request /\ left' \in BOOLEAN
      /\ request' = "running" => left'
  BY DEF WriteFails, ChangeFails, ClientInv, TypeOK, RunningIsAwaited
<1>2. /\ reads' \in 0..Bucket /\ writes' \in 0..Bucket
      /\ waited' \in 0..PollTicks /\ faults' \in 0..MaxFaults
  <2>1. CASE UNCHANGED <<tokenVars, faults>>
    BY <2>1 DEF ClientInv, TypeOK, tokenVars
  <2>2. CASE Write /\ (UNCHANGED faults \/ Fault)
    BY <2>2, WriteType DEF ClientInv
  <2> QED BY <2>1, <2>2 DEF WriteFails
<1>3. TokenForPoll' /\ RunningIsAwaited' /\ page' \in 0..MaxPages
  BY <1>1 DEF TokenForPoll, RunningIsAwaited, ClientInv, TypeOK
<1> QED BY <1>1, <1>2, <1>3, AfterDiscovery

LEMMA ChangeInv == ClientInv /\ (Change \/ ChangeUnawaited) => ClientInv'
<1> SUFFICES ASSUME ClientInv, Change \/ ChangeUnawaited
             PROVE  ClientInv'
  OBVIOUS
<1>1. pc = "change" /\ UNCHANGED <<subnetVars, live, page>>
  BY DEF Change, ChangeUnawaited
<1>2. CASE WriteFails
  BY <1>1, <1>2, WriteFailsInv
<1>3. CASE /\ Write /\ request' = "running" /\ UNCHANGED <<answer, faults>>
           /\ \/ pc' = "wait" /\ UNCHANGED left
              \/ pc' = "change" /\ left' = TRUE
  <2>1. /\ reads' \in 0..Bucket /\ writes' \in 0..Bucket
        /\ waited' = 0 /\ waited' \in 0..PollTicks /\ faults' \in 0..MaxFaults
    BY <1>3, WriteType DEF ClientInv
  <2>2. /\ answer' \in Answer /\ request' \in Request /\ left' \in BOOLEAN
        /\ page' \in 0..MaxPages /\ pc' \in {"idle", "lookup", "change", "wait"}
    BY <1>1, <1>3 DEF ClientInv, TypeOK
  <2>3. TokenForPoll' /\ RunningIsAwaited'
    BY <1>3, <2>1 DEF TokenForPoll, RunningIsAwaited
  <2> QED BY <1>1, <2>1, <2>2, <2>3, AfterDiscovery
<1> QED BY <1>2, <1>3 DEF Change, ChangeUnawaited, Continue

LEMMA AwaitInv == ClientInv /\ AwaitWorkRequest => ClientInv'
<1> SUFFICES ASSUME ClientInv, AwaitWorkRequest
             PROVE  ClientInv'
  OBVIOUS
<1>1. /\ pc = "wait" /\ waited = PollTicks
      /\ UNCHANGED <<subnetVars, live, request, page>>
  BY DEF AwaitWorkRequest, Due
<1>2. reads > 0
  BY <1>1, ClientAssumption DEF ClientInv, TokenForPoll
<1>3. /\ reads' = reads - 1 /\ waited' = 0 /\ UNCHANGED writes
      /\ UNCHANGED faults \/ Fault
  BY <1>2 DEF AwaitWorkRequest
<1>4. /\ reads' \in 0..Bucket /\ writes' \in 0..Bucket
      /\ waited' \in 0..PollTicks /\ faults' \in 0..MaxFaults
  BY <1>2, <1>3, ClientAssumption DEF Fault, ClientInv, TypeOK
<1>5. /\ pc' \in {"idle", "change", "wait"} /\ answer' \in Answer
      /\ left' \in BOOLEAN /\ RunningIsAwaited'
  BY <1>1, <1>2 DEF AwaitWorkRequest, Learnt, Continue, ChangeFails, ClientInv,
     TypeOK, RunningIsAwaited
<1>6. TokenForPoll' /\ request' \in Request /\ page' \in 0..MaxPages
  BY <1>1, <1>3 DEF TokenForPoll, ClientInv, TypeOK
<1> QED BY <1>1, <1>4, <1>5, <1>6, AfterDiscovery

LEMMA FinishInv == ClientInv /\ Finish => ClientInv'
BY DEF ClientInv, Finish, EndWith, tokenVars, subnetVars, TypeOK, TokenForPoll,
   RunningIsAwaited, CacheKeepsVcn, ListOwnVcn, FoundIsOwn

LEMMA StepInv == ClientInv /\ [Next]_vars => ClientInv'
<1> SUFFICES ASSUME ClientInv, [Next]_vars
             PROVE  ClientInv'
  OBVIOUS
<1>1. CASE Tick \/ RequestEnds \/ ChangeSubnets
  BY <1>1, TickInv, RequestEndsInv, ChangeSubnetsInv
<1>2. CASE \E s \in Subnets : Expire(s)
  BY <1>2, ExpireInv
<1>3. CASE ListVnicAttachments \/ GetVNIC
  BY <1>3, InstanceReadInv DEF ListVnicAttachments, GetVNIC
<1>4. CASE Begin \/ GetSubnet \/ ListSubnets
  BY <1>4, BeginInv, GetSubnetInv, ListSubnetsInv
<1>5. CASE GetLoadBalancerByName \/ GetLoadBalancer \/ GetSubnets
  BY <1>5, GetLoadBalancerByNameInv, GetLoadBalancerInv, GetSubnetsInv
<1>6. CASE Change \/ ChangeUnawaited \/ AwaitWorkRequest \/ Finish
  BY <1>6, ChangeInv, AwaitInv, FinishInv
<1>7. CASE UNCHANGED vars
  BY <1>7 DEF vars, tokenVars, subnetVars, ClientInv, TypeOK, TokenForPoll,
     RunningIsAwaited, CacheKeepsVcn, ListOwnVcn, FoundIsOwn
<1> QED BY <1>1, <1>2, <1>3, <1>4, <1>5, <1>6, <1>7 DEF Next, Worker

\* ClientInv holds in every state.
THEOREM ClientInvariant == Spec => []ClientInv
BY InitInv, StepInv, PTL DEF Spec

\* Buckets, polls, the subnet cache and the work request of the client keep their
\* types and bounds: no token beyond the burst, no poll that is overdue
\* (ratelimter.go:22-68, loadbalancer.go:346-366).
THEOREM ClientTypeCorrect == Spec => []TypeOK
BY ClientInvariant, PTL DEF ClientInv

\* Whatever the configuration of the rate limiter, however long the poll
\* interval, as long as an interval brings a token: the worker's own reads never
\* end a wait for a work request (loadbalancer.go:346-366, ratelimter.go:22-68).
THEOREM WaitsAreNotLimited == Spec => WaitNeverLimited
<1>1. ASSUME ClientInv, [Next]_vars
      PROVE  [pc = "wait" /\ pc' # "wait" => answer' # "limited"]_vars
  <2>1. SUFFICES ASSUME pc = "wait", pc' # "wait"
                 PROVE  answer' # "limited"
    OBVIOUS
  <2>2. AwaitWorkRequest
    BY <1>1, <2>1 DEF Next, Worker, vars, Tick, RequestEnds, ChangeSubnets,
       Expire, Begin, ListVnicAttachments, GetVNIC, InstanceRead, GetSubnet,
       ListSubnets, GetLoadBalancerByName, GetLoadBalancer, GetSubnets, Change,
       ChangeUnawaited, Finish
  <2>3. reads > 0
    BY <1>1, <2>2, ClientAssumption DEF AwaitWorkRequest, Due, ClientInv,
       TokenForPoll
  <2> QED BY <2>1, <2>2, <2>3 DEF AwaitWorkRequest, Continue, ChangeFails
<1> QED BY <1>1, ClientInvariant, PTL DEF Spec, WaitNeverLimited

\* No work request runs that is neither waited for nor left alone by one of the
\* calls that do so (loadbalancer.go:346-418).
THEOREM RunningRequestsAreAwaited == Spec => []RunningIsAwaited
BY ClientInvariant, PTL DEF ClientInv

\* For any networks and subnets, whatever expires or is deleted when: discovery
\* finds a subnet of the instance's network (spec.go:354-387,
\* networking.go:62-111).
THEOREM DiscoveryFindsOwn == Spec => []FoundIsOwn
BY ClientInvariant, PTL DEF ClientInv
=============================================================================
