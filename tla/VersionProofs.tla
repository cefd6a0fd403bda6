---------------------------- MODULE VersionProofs ----------------------------
(***************************************************************************)
(* VersionInv is inductive: versions only grow on their way from the API   *)
(* server to the load balancer.  So Controller implements IngressLB.       *)
(***************************************************************************)
EXTENDS ControllerProofs

(* Sequences of events *)

LEMMA EmptyEvents ==
  ASSUME NEW s \in Seq(Event)
  PROVE  Len(s) \in Nat /\ (s = <<>> <=> Len(s) = 0)
OBVIOUS

LEMMA AppendEvent ==
  ASSUME NEW s \in Seq(Event), NEW e \in Event
  PROVE  /\ Append(s, e) # <<>>
         /\ Len(Append(s, e)) = Len(s) + 1
         /\ \A n \in 1..Len(s) : Append(s, e)[n] = s[n]
         /\ Append(s, e)[Len(s) + 1] = e
OBVIOUS

LEMMA TailEvents ==
  ASSUME NEW s \in Seq(Event), s # <<>>
  PROVE  /\ Head(s) = s[1] /\ s[1] \in Event /\ Len(s) \in Nat /\ Len(s) >= 1
         /\ Len(Tail(s)) = Len(s) - 1
         /\ \A n \in 1..Len(Tail(s)) : Tail(s)[n] = s[n + 1]
         /\ Tail(s) # <<>> => Len(s) > 1 /\ Tail(s)[Len(Tail(s))] = s[Len(s)]
         /\ Tail(s) = <<>> => Len(s) = 1
<1>1. Len(s) \in Nat /\ Len(s) >= 1 /\ Head(s) = s[1] /\ s[1] \in Event
  BY EmptyEvents
<1>2. Tail(s) \in Seq(Event) /\ Len(Tail(s)) = Len(s) - 1
  BY <1>1
<1>3. \A n \in 1..Len(Tail(s)) : Tail(s)[n] = s[n + 1]
  BY <1>1, <1>2
<1>4. Tail(s) = <<>> <=> Len(s) = 1
  <2>1. Tail(s) = <<>> <=> Len(Tail(s)) = 0
    BY <1>2, EmptyEvents
  <2> QED BY <2>1, <1>1, <1>2
<1>5. ASSUME Len(s) > 1
      PROVE  Tail(s)[Len(Tail(s))] = s[Len(s)]
  <2>1. Len(Tail(s)) \in 1..Len(Tail(s))
    BY <1>1, <1>2, <1>5
  <2> QED BY <2>1, <1>1, <1>2, <1>3
<1> QED BY <1>1, <1>2, <1>3, <1>4, <1>5

\* The types of what the invariant compares.
LEMMA Types ==
  ASSUME TypeOK, NEW i \in Ingresses
  PROVE  /\ edits \in Nat
         /\ watch[i] \in Seq(Event) /\ notes[i] \in Seq(Event)
         /\ api[i] \in Object /\ cache[i] \in Object /\ snap \in Object
         /\ api[i].uid \in Nat /\ api[i].gen \in Nat
         /\ cache[i].uid \in Nat /\ cache[i].gen \in Nat
         /\ snap.uid \in Nat /\ snap.gen \in Nat /\ lb[i].gen \in Nat
         /\ Len(watch[i]) \in Nat /\ Len(notes[i]) \in Nat
         /\ \A n \in 1..Len(watch[i]) :
               /\ watch[i][n] \in Event /\ watch[i][n].obj \in Object
               /\ watch[i][n].obj.uid \in Nat /\ watch[i][n].obj.gen \in Nat
         /\ Applied(i) \subseteq Nat
<1>1. /\ watch[i] \in Seq(Event) /\ notes[i] \in Seq(Event) /\ lb[i] \in LoadBalancer
      /\ edits \in Nat /\ api[i] \in Object /\ cache[i] \in Object /\ snap \in Object
  BY DEF TypeOK
<1>2. Len(watch[i]) \in Nat /\ Len(notes[i]) \in Nat
  BY <1>1
<1>3. \A n \in 1..Len(watch[i]) : watch[i][n] \in Event
  BY <1>1, <1>2
<1>4. \A n \in 1..Len(watch[i]) : watch[i][n].obj \in Object
  BY <1>3 DEF Event
<1>5. \A o \in Object : o.uid \in Nat /\ o.gen \in Nat
  BY DEF Object
<1>6. lb[i].gen \in Nat
  BY <1>1 DEF LoadBalancer
<1> QED BY <1>1, <1>2, <1>3, <1>4, <1>5, <1>6 DEF Applied

\* What the worker holds, and what the load balancer carries, is no newer than
\* the API server's object, and older than its incarnation if the cache still
\* has to learn of it.
LEMMA AppliedBound ==
  ASSUME VersionInv, up, NEW i \in Ingresses, Present(api[i]), NEW v \in Applied(i)
  PROVE  v <= api[i].gen /\ (~Present(cache[i]) => v < api[i].uid)
<1> USE DEF VersionInv
<1>1. TypeOK /\ StreamsOf(i) /\ StampsOf(i) /\ VersionsOf(i)
  BY DEF Streams, Stamps, Versions
<1>2. v \in Nat /\ api[i].uid <= api[i].gen
  BY <1>1, Types DEF StampsOf, Stamped
<1>3. CASE watch[i] = <<>>
  BY <1>1, <1>2, <1>3 DEF StreamsOf, VersionsOf
<1>4. CASE watch[i] # <<>>
  <2> DEFINE N == Len(watch[i])
  <2>1. N \in 1..N /\ N \in Nat
    BY <1>1, <1>4, Types, EmptyEvents
  <2>2. watch[i][N].obj = api[i]
    BY <1>1, <1>4 DEF StreamsOf, After, Present, NoObject
  <2>3. CASE Present(cache[i])
    <3>1. v <= cache[i].gen /\ cache[i].gen <= watch[i][N].obj.gen
      BY <1>1, <2>1, <2>3 DEF VersionsOf
    <3> QED BY <3>1, <1>1, <1>2, <2>2, <2>3, Types
  <2>4. CASE ~Present(cache[i])
    <3>1. v < watch[i][N].obj.uid
      BY <1>1, <2>1, <2>4 DEF VersionsOf
    <3>2. api[i].uid \in Nat /\ api[i].gen \in Nat
      BY <1>1, Types
    <3> QED BY <3>1, <3>2, <1>2, <2>2
  <2> QED BY <2>3, <2>4
<1> QED BY <1>3, <1>4

\* The last event of a watch tells what the API server holds.
LEMMA LastEvent ==
  ASSUME VersionInv, NEW i \in Ingresses, watch[i] # <<>>
  PROVE  LET N == Len(watch[i]) IN
         /\ N \in 1..N
         /\ Present(watch[i][N].obj)
         /\ Present(api[i]) => watch[i][N].type # "delete" /\ watch[i][N].obj = api[i]
         /\ ~Present(api[i]) => watch[i][N].type = "delete"
<1>1. TypeOK /\ StreamsOf(i) /\ StampsOf(i)
  BY DEF VersionInv, Streams, Stamps
<1>2. Len(watch[i]) \in 1..Len(watch[i])
  BY <1>1, Types, EmptyEvents
<1>3. Present(watch[i][Len(watch[i])].obj)
  BY <1>1, <1>2 DEF StampsOf
<1>4. After(watch[i][Len(watch[i])]) = api[i]
  BY <1>1 DEF StreamsOf
<1> QED BY <1>2, <1>3, <1>4 DEF After, NoObject, Present

-----------------------------------------------------------------------------
(* Writes to the API server *)

\* What a write leaves true of the watch of j.
WatchKept(j) ==
    /\ \A n \in 1..Len(watch'[j]) :
           Present(watch'[j][n].obj) /\ Stamped(watch[j][n].obj)'
    /\ \A m, n \in 1..Len(watch'[j]) : m < n => Before(watch'[j][m], watch'[j][n].obj)
    /\ Present(cache[j]) =>
           \A n \in 1..Len(watch'[j]) : cache[j].gen <= watch'[j][n].obj.gen
    /\ up /\ ~Present(cache[j]) =>
           \A n \in 1..Len(watch'[j]), v \in Applied(j) \cup {0} : v < watch'[j][n].obj.uid

\* Nothing is written: later stamps remain later.
LEMMA WatchUnchanged ==
  ASSUME VersionInv, NEW j \in Ingresses, watch'[j] = watch[j], edits' \in Nat, edits <= edits'
  PROVE  WatchKept(j)
<1>1. TypeOK /\ StampsOf(j) /\ VersionsOf(j)
  BY DEF VersionInv, Stamps, Versions
<1>2. \A n \in 1..Len(watch[j]) : Present(watch[j][n].obj) /\ Stamped(watch[j][n].obj)
  BY <1>1 DEF StampsOf
<1>3. \A n \in 1..Len(watch[j]) : watch[j][n].obj.gen \in Nat /\ watch[j][n].obj.uid \in Nat /\ edits \in Nat
  BY <1>1, Types
<1>4. \A n \in 1..Len(watch'[j]) : Present(watch'[j][n].obj) /\ Stamped(watch[j][n].obj)'
  BY <1>2, <1>3 DEF Stamped, Present
<1>5. \A n \in 1..Len(watch[j]) : 0 < watch[j][n].obj.uid
  BY <1>2, <1>3 DEF Present
<1> QED BY <1>1, <1>4, <1>5 DEF WatchKept, VersionsOf

LEMMA WatchWritten ==
  ASSUME VersionInv, NEW i \in Ingresses, NEW type \in EventType, NEW o \in Object,
         Store(i, type, o), edits' \in Nat, edits <= edits',
         o.uid <= o.gen, o.gen <= edits', Present(o),
         IF Present(api[i]) THEN o.uid = api[i].uid /\ o.gen >= api[i].gen ELSE o.uid > edits
  PROVE  WatchKept(i)
<1> DEFINE e == [type |-> type, obj |-> o]
           N == Len(watch[i])
<1>1. TypeOK /\ StreamsOf(i) /\ StampsOf(i) /\ VersionsOf(i)
  BY DEF VersionInv, Streams, Stamps, Versions
<1>2. CASE ~up
  BY <1>2, <1>1, WatchUnchanged DEF Store
<1>3. CASE up
  <2>1. e \in Event /\ e.obj = o /\ N \in Nat /\ o.uid \in Nat /\ o.gen \in Nat
    BY <1>1, Types DEF Event, Object
  <2>2. watch'[i] = Append(watch[i], e)
    BY <1>1, <1>3 DEF Store, TypeOK
  <2> HIDE DEF e
  <2>3. /\ Len(watch'[i]) = N + 1 /\ watch'[i][N + 1].obj = o
        /\ \A n \in 1..N : watch'[i][n] = watch[i][n]
    BY <1>1, <2>1, <2>2, Types, AppendEvent
  <2>4. \A n \in 1..N : /\ watch[i][n].obj.gen \in Nat /\ watch[i][n].obj.uid \in Nat
                        /\ watch[i][n].obj.uid > 0
                        /\ watch[i][n].obj.uid <= watch[i][n].obj.gen
                        /\ watch[i][n].obj.gen <= edits
    BY <1>1, Types DEF StampsOf, Stamped, Present
  <2>5. ASSUME NEW n \in 1..N
        PROVE  Before(watch[i][n], o)
    <3>1. watch[i] # <<>>
      BY <1>1, <2>1, Types, EmptyEvents
    <3>2. N \in 1..N /\ (Present(api[i]) => watch[i][N].type # "delete" /\ watch[i][N].obj = api[i])
      BY <3>1, LastEvent
    <3>3. n < N => Before(watch[i][n], watch[i][N].obj)
      BY <1>1, <3>2 DEF VersionsOf
    <3>4. edits \in Nat /\ api[i].gen \in Nat /\ api[i].uid \in Nat
      BY <1>1, Types
    <3>5. CASE ~Present(api[i])
      BY <3>5, <3>4, <2>1, <2>4 DEF Before
    <3>6. CASE Present(api[i]) /\ n = N
      BY <3>6, <3>2, <3>4, <2>1, <2>4 DEF Before
    <3>7. CASE Present(api[i]) /\ n # N
      <4>1. n < N
        BY <3>7, <2>1
      <4> QED BY <3>7, <4>1, <3>2, <3>3, <3>4, <2>1, <2>4 DEF Before
    <3> QED BY <3>5, <3>6, <3>7
  <2>6. \A n \in 1..(N + 1) : Present(watch'[i][n].obj) /\ Stamped(watch[i][n].obj)'
    <3>0. edits \in Nat
      BY <1>1, Types
    <3> SUFFICES ASSUME NEW n \in 1..(N + 1)
                 PROVE  Present(watch'[i][n].obj) /\ Stamped(watch[i][n].obj)'
      OBVIOUS
    <3>1. CASE n \in 1..N
      <4>1. watch'[i][n] = watch[i][n]
        BY <3>1, <2>3
      <4>2. edits' \in Nat /\ edits <= edits'
        BY <1>1
      <4> QED BY <3>0, <3>1, <4>1, <4>2, <2>4 DEF Present, Stamped
    <3>2. CASE n = N + 1
      BY <3>2, <2>3 DEF Present, Stamped
    <3> QED BY <3>1, <3>2, <2>1
  <2>7. \A m, n \in 1..(N + 1) : m < n => Before(watch'[i][m], watch'[i][n].obj)
    <3>1. \A m, n \in 1..N : m < n => Before(watch[i][m], watch[i][n].obj)
      BY <1>1 DEF VersionsOf
    <3> SUFFICES ASSUME NEW m \in 1..(N + 1), NEW n \in 1..(N + 1), m < n
                 PROVE  Before(watch'[i][m], watch'[i][n].obj)
      OBVIOUS
    <3>2. m \in 1..N /\ watch'[i][m] = watch[i][m]
      BY <2>1, <2>3
    <3>3. CASE n \in 1..N
      <4>1. watch'[i][n] = watch[i][n]
        BY <3>3, <2>3
      <4> QED BY <3>1, <3>2, <3>3, <4>1
    <3>4. CASE n = N + 1
      <4>1. watch'[i][n].obj = o
        BY <3>4, <2>3
      <4> QED BY <3>2, <4>1, <2>5
    <3> QED BY <3>3, <3>4, <2>1
  <2>8. ASSUME Present(cache[i]), NEW n \in 1..(N + 1)
        PROVE  cache[i].gen <= watch'[i][n].obj.gen
    <3>1. CASE n \in 1..N
      BY <3>1, <2>3, <2>8, <1>1 DEF VersionsOf
    <3>2. CASE n = N + 1
      <4>1. cache[i].gen \in Nat /\ edits \in Nat /\ api[i].gen \in Nat
        BY <1>1, Types
      <4>2. cache[i].gen <= edits /\ (watch[i] = <<>> => cache[i] = api[i])
        BY <1>1, <1>3, <2>8 DEF StampsOf, Stamped, StreamsOf
      <4>3. CASE ~Present(api[i]) \/ watch[i] = <<>>
        BY <4>1, <4>2, <4>3, <3>2, <2>1, <2>3, <2>8
      <4>4. CASE Present(api[i]) /\ watch[i] # <<>>
        <5>1. N \in 1..N /\ watch[i][N].obj = api[i]
          BY <4>4, LastEvent
        <5>2. cache[i].gen <= api[i].gen
          BY <5>1, <2>8, <1>1 DEF VersionsOf
        <5> QED BY <5>2, <4>1, <4>4, <3>2, <2>1, <2>3
      <4> QED BY <4>3, <4>4
    <3> QED BY <3>1, <3>2, <2>1
  <2>9. ASSUME ~Present(cache[i]), NEW n \in 1..(N + 1), NEW v \in Applied(i) \cup {0}
        PROVE  v < watch'[i][n].obj.uid
    <3>1. v \in Nat /\ edits \in Nat
      BY <1>1, Types
    <3>2. CASE n \in 1..N
      BY <3>1, <3>2, <2>3, <2>4, <2>9, <1>1, <1>3 DEF VersionsOf
    <3>3. CASE n = N + 1
      <4>1. v <= edits
        BY <3>1, <1>1 DEF Applied, StampsOf, VersionInv, Stamps, Stamped, NoObject
      <4>2. Present(api[i]) => v < api[i].uid
        BY <3>1, <2>9, <1>3, <1>1, AppliedBound, Types DEF Present
      <4> QED BY <4>1, <4>2, <3>1, <3>3, <2>1, <2>3
    <3> QED BY <3>2, <3>3, <2>1
  <2> QED BY <2>3, <2>6, <2>7, <2>8, <2>9 DEF WatchKept
<1> QED BY <1>2, <1>3

LEMMA StoreStreams ==
  ASSUME VersionInv, NEW i \in Ingresses, NEW type \in EventType, NEW o \in Object,
         Store(i, type, o), UNCHANGED <<up, cache, notes>>
  PROVE  Streams'
<1> SUFFICES ASSUME NEW j \in Ingresses
             PROVE  StreamsOf(j)'
  BY DEF Streams
<1>1. TypeOK /\ StreamsOf(j) /\ Shape
  BY DEF VersionInv, Streams
<1>2. CASE j # i \/ ~up
  <2>1. watch'[j] = watch[j] /\ (up => api'[j] = api[j])
    BY <1>1, <1>2 DEF Store, TypeOK
  <2>2. ~up => watch[j] = <<>>
    BY <1>1 DEF Shape
  <2> QED BY <2>1, <2>2, <1>1 DEF StreamsOf
<1>3. CASE j = i /\ up
  <2> DEFINE e == [type |-> type, obj |-> o]
  <2>1. e \in Event /\ After(e) = IF type = "delete" THEN NoObject ELSE o
    BY DEF Event, After
  <2>2. watch'[j] = Append(watch[j], e) /\ api'[j] = After(e)
    BY <1>1, <1>3, <2>1 DEF Store, TypeOK
  <2> HIDE DEF e
  <2>3. watch'[j] # <<>> /\ watch'[j][Len(watch'[j])] = e
    BY <1>1, <2>1, <2>2, Types, AppendEvent
  <2> QED BY <2>2, <2>3, <1>1 DEF StreamsOf
<1> QED BY <1>2, <1>3

LEMMA UserWriteVersions ==
  ASSUME VersionInv, NEW i \in Ingresses, NEW type \in EventType, NEW o \in Object,
         UserWrite(i, type, o), Present(o), o.uid <= o.gen, o.gen <= edits + 1,
         IF Present(api[i]) THEN o.uid = api[i].uid /\ o.gen >= api[i].gen ELSE o.uid > edits
  PROVE  Streams' /\ Stamps' /\ Versions'
<1>1. Streams'
  BY StoreStreams DEF UserWrite
<1>2. edits \in Nat /\ edits' = edits + 1 /\ edits' \in Nat /\ edits <= edits'
  BY DEF VersionInv, TypeOK, UserWrite
<1>3. UNCHANGED <<pc, cur, snap, lb, cache, up>>
  BY DEF UserWrite, workVars, ociVars
<1>4. ASSUME NEW j \in Ingresses
      PROVE  StampsOf(j)' /\ VersionsOf(j)'
  <2>1. TypeOK /\ StampsOf(j) /\ VersionsOf(j)
    BY DEF VersionInv, Stamps, Versions
  <2>2. WatchKept(j)
    <3>1. CASE j = i
      BY <3>1, <1>2, WatchWritten DEF UserWrite
    <3>2. CASE j # i
      BY <3>2, <2>1, <1>2, WatchUnchanged DEF UserWrite, Store, TypeOK
    <3> QED BY <3>1, <3>2
  <2>3. Applied(j)' = Applied(j)
    BY <1>3 DEF Applied
  <2>4. /\ api[j].uid \in Nat /\ api[j].gen \in Nat /\ lb[j].gen \in Nat
        /\ cache[j].gen \in Nat /\ api[i].gen \in Nat /\ o.uid \in Nat /\ o.gen \in Nat
    BY <2>1, Types DEF Object
  <2>5. api'[j] = IF j = i THEN IF type = "delete" THEN NoObject ELSE o ELSE api[j]
    BY <2>1 DEF UserWrite, Store, TypeOK
  <2>6. Stamped(api[j])'
    BY <2>1, <2>4, <2>5, <1>2 DEF StampsOf, Stamped, NoObject, Present
  <2>7. Stamped(cache[j])'
    BY <2>1, <2>4, <1>2, <1>3 DEF StampsOf, Stamped
  <2>8. StampsOf(j)'
    BY <2>1, <2>2, <2>4, <2>6, <2>7, <1>2, <1>3 DEF StampsOf, WatchKept
  <2>9. /\ Present(api'[j]) => lb'[j].gen <= api'[j].gen
        /\ cur' = j /\ pc' \in {"lookupToDelete", "delete"} /\ Present(api'[j]) =>
               lb'[j].gen < api'[j].uid
    <3>1. lb[j].gen <= edits
      BY <2>1 DEF StampsOf
    <3>2. CASE j = i /\ type # "delete"
      BY <3>1, <3>2, <2>1, <2>4, <2>5, <1>2, <1>3 DEF VersionsOf
    <3>3. CASE j = i /\ type = "delete"
      BY <3>3, <2>5 DEF Present, NoObject
    <3>4. CASE j # i
      BY <3>4, <2>1, <2>5, <1>3 DEF VersionsOf
    <3> QED BY <3>2, <3>3, <3>4
  <2>10. VersionsOf(j)'
    BY <2>1, <2>2, <2>3, <2>9, <1>3 DEF VersionsOf, WatchKept
  <2> QED BY <2>8, <2>10
<1>5. Stamped(snap)' /\ (pc' \in Deleting => snap' = NoObject)
  BY <1>2, <1>3 DEF VersionInv, Stamps, Stamped, TypeOK, Object
<1> QED BY <1>1, <1>4, <1>5 DEF Stamps, Versions

-----------------------------------------------------------------------------
(* Steps that leave every watch and every object alone *)

\* It is enough to look at the load balancer and at the worker.
LEMMA WorkVersions ==
  ASSUME VersionInv, UNCHANGED <<api, up, watch, cache>>, edits' \in Nat, edits <= edits',
         Stamped(snap)', pc' \in Deleting => snap' = NoObject,
         NEW j \in Ingresses,
         Applied(j)' \subseteq Applied(j) \cup {0} \cup
             (IF Present(cache[j]) THEN {cache[j].gen} ELSE {}),
         lb'[j].gen \in Nat, lb'[j].gen <= edits', lb'[j].state = "none" <=> lb'[j].gen = 0,
         Present(api[j]) => lb'[j].gen <= api[j].gen,
         cur' = j /\ pc' \in Provisioning => lb'[j].gen <= snap'.gen,
         cur' = j /\ pc' \in {"lookupToDelete", "delete"} /\ Present(api[j]) =>
             lb'[j].gen < api[j].uid
  PROVE  StampsOf(j)' /\ VersionsOf(j)'
<1>1. TypeOK /\ StampsOf(j) /\ VersionsOf(j)
  BY DEF VersionInv, Stamps, Versions
<1>2. /\ edits \in Nat /\ api[j].gen \in Nat /\ cache[j].gen \in Nat
      /\ Applied(j) \subseteq Nat
  BY <1>1, Types
<1>3. WatchKept(j)
  BY WatchUnchanged
<1>4. Stamped(api[j])' /\ Stamped(cache[j])'
  BY <1>1, <1>2 DEF StampsOf, Stamped
<1>5. StampsOf(j)'
  BY <1>3, <1>4 DEF StampsOf, WatchKept
<1>6. \A v \in Applied(j)' : Present(cache[j]) => v <= cache[j].gen
  <2>1. \A v \in Applied(j) : Present(cache[j]) => v <= cache[j].gen
    BY <1>1 DEF VersionsOf
  <2>2. cache[j].gen <= cache[j].gen /\ 0 <= cache[j].gen
    BY <1>2
  <2> QED BY <2>1, <2>2
<1>7. up /\ ~Present(cache[j]) =>
          \A n \in 1..Len(watch[j]), v \in Applied(j)' : v < watch[j][n].obj.uid
  BY <1>3 DEF WatchKept
<1> QED BY <1>3, <1>5, <1>6, <1>7 DEF VersionsOf, WatchKept

LEMMA StreamsUnchanged ==
  ASSUME VersionInv, UNCHANGED <<api, up, watch, cache, notes>>
  PROVE  Streams'
BY DEF VersionInv, Streams, StreamsOf

\* Nothing the layer speaks of changes, but the freshness or the state of load
\* balancers and the clock.
LEMMA WatchedVersions ==
  ASSUME VersionInv, UNCHANGED <<api, up, watch, cache, pc, cur, snap>>,
         edits' \in Nat, edits <= edits',
         \A j \in Ingresses : /\ lb'[j].gen \in {lb[j].gen, 0}
                              /\ lb'[j].state = "none" <=> lb'[j].gen = 0
  PROVE  Stamps' /\ Versions'
<1>1. Stamped(snap)' /\ (pc' \in Deleting => snap' = NoObject)
  BY DEF VersionInv, Stamps, Stamped, TypeOK, Object
<1>2. ASSUME NEW j \in Ingresses
      PROVE  StampsOf(j)' /\ VersionsOf(j)'
  <2>1. TypeOK /\ StampsOf(j) /\ VersionsOf(j)
    BY DEF VersionInv, Stamps, Versions
  <2>2. /\ lb[j].gen \in Nat /\ edits \in Nat /\ snap.gen \in Nat
        /\ api[j].gen \in Nat /\ api[j].uid \in Nat
    BY <2>1, Types
  <2>3. lb'[j].gen \in Nat /\ lb'[j].gen <= lb[j].gen /\ lb'[j].gen <= edits'
    BY <2>1, <2>2 DEF StampsOf
  <2>4. Applied(j)' \subseteq Applied(j) \cup {0}
    BY DEF Applied
  <2>5. Present(api[j]) => lb'[j].gen <= api[j].gen
    BY <2>1, <2>2, <2>3 DEF VersionsOf
  <2>6. cur' = j /\ pc' \in Provisioning => lb'[j].gen <= snap'.gen
    BY <2>1, <2>2, <2>3 DEF VersionsOf
  <2>7. cur' = j /\ pc' \in {"lookupToDelete", "delete"} /\ Present(api[j]) =>
            lb'[j].gen < api[j].uid
    BY <2>1, <2>2, <2>3 DEF VersionsOf
  <2> QED BY <1>1, <2>3, <2>4, <2>5, <2>6, <2>7, WorkVersions
<1> QED BY <1>1, <1>2 DEF Stamps, Versions

LEMMA ReceiveVersions ==
  ASSUME VersionInv, NEW i \in Ingresses, Receive(i)
  PROVE  Streams' /\ Stamps' /\ Versions'
<1> DEFINE e == Head(watch[i])
<1>1. TypeOK /\ StreamsOf(i) /\ StampsOf(i) /\ VersionsOf(i) /\ up /\ watch[i] # <<>>
  BY DEF VersionInv, Streams, Stamps, Versions, Receive
<1>2. /\ cache' = [cache EXCEPT ![i] = After(e)] /\ watch' = [watch EXCEPT ![i] = Tail(@)]
      /\ notes' = [notes EXCEPT ![i] = Append(@, e)]
      /\ UNCHANGED <<edits, api, up, pc, cur, snap, lb>>
  BY DEF Receive, clusterVars, workVars, ociVars
<1>3. /\ e = watch[i][1] /\ e \in Event /\ Len(watch[i]) \in Nat /\ Len(watch[i]) >= 1
      /\ watch'[i] = Tail(watch[i]) /\ cache'[i] = After(e) /\ notes'[i] = Append(notes[i], e)
      /\ Len(watch'[i]) = Len(watch[i]) - 1
      /\ \A n \in 1..Len(watch'[i]) : watch'[i][n] = watch[i][n + 1]
      /\ watch'[i] # <<>> => Len(watch[i]) > 1 /\ watch'[i][Len(watch'[i])] = watch[i][Len(watch[i])]
      /\ watch'[i] = <<>> => Len(watch[i]) = 1
  BY <1>1, <1>2, Types, TailEvents DEF TypeOK
<1> HIDE DEF e
<1>4. \A n \in 1..Len(watch[i]) :
          /\ watch[i][n].obj.uid \in Nat /\ watch[i][n].obj.gen \in Nat
          /\ Present(watch[i][n].obj) /\ Stamped(watch[i][n].obj)
          /\ watch[i][n].obj.uid <= watch[i][n].obj.gen
  BY <1>1, Types DEF StampsOf, Stamped
<1>5. /\ Present(e.obj) /\ Stamped(e.obj) /\ e.obj.gen \in Nat /\ e.obj.uid \in Nat
      /\ e.obj.uid <= e.obj.gen
  BY <1>3, <1>4
<1>6. StreamsOf(i)'
  <2>1. up' /\ watch'[i] = <<>> => cache'[i] = api'[i]
    BY <1>1, <1>2, <1>3 DEF StreamsOf
  <2>2. watch'[i] # <<>> => After(watch'[i][Len(watch'[i])]) = api'[i]
    BY <1>1, <1>2, <1>3 DEF StreamsOf
  <2>3. /\ Len(notes[i]) \in Nat /\ Len(notes'[i]) = Len(notes[i]) + 1
        /\ \A n \in 1..Len(notes[i]) : notes'[i][n] = notes[i][n]
        /\ notes'[i][Len(notes'[i])] = e
    BY <1>1, <1>3, Types, AppendEvent
  <2>4. \A n \in 1..Len(notes'[i]) : Present(notes'[i][n].obj)
    <3>1. \A n \in 1..Len(notes[i]) : Present(notes[i][n].obj)
      BY <1>1 DEF StreamsOf
    <3> SUFFICES ASSUME NEW n \in 1..Len(notes'[i])
                 PROVE  Present(notes'[i][n].obj)
      OBVIOUS
    <3>2. n \in 1..Len(notes[i]) \/ n = Len(notes'[i])
      BY <2>3
    <3> QED BY <3>1, <3>2, <2>3, <1>5
  <2> QED BY <2>1, <2>2, <2>3, <2>4, <1>3 DEF StreamsOf
<1>7. StampsOf(i)'
  <2>1. Stamped(cache[i])'
    BY <1>2, <1>3, <1>5 DEF After, Stamped, Present, NoObject
  <2>2. \A n \in 1..Len(watch'[i]) : Present(watch'[i][n].obj) /\ Stamped(watch[i][n].obj)'
    <3>1. \A n \in 1..Len(watch'[i]) : n + 1 \in 1..Len(watch[i])
      BY <1>3
    <3> QED BY <3>1, <1>2, <1>3, <1>4 DEF Stamped
  <2> QED BY <2>1, <2>2, <1>1, <1>2 DEF StampsOf, Stamped
<1>8. VersionsOf(i)'
  <2>1. \A n \in 1..Len(watch'[i]) : n + 1 \in 1..Len(watch[i]) /\ 1 < n + 1 /\ 1 \in 1..Len(watch[i])
    BY <1>3
  <2>2. \A m, n \in 1..Len(watch'[i]) : m < n => m + 1 < n + 1
    OBVIOUS
  <2>3. \A m, n \in 1..Len(watch'[i]) : m < n => Before(watch'[i][m], watch'[i][n].obj)
    BY <2>1, <2>2, <1>1, <1>3 DEF VersionsOf
  <2>4. \A n \in 1..Len(watch'[i]) : Before(e, watch'[i][n].obj)
    BY <2>1, <1>1, <1>3 DEF VersionsOf
  <2>5. Applied(i)' = Applied(i) /\ Applied(i) \subseteq Nat
    BY <1>1, <1>2, Types DEF Applied
  <2>6. \A v \in Applied(i) : v <= e.obj.gen
    <3> SUFFICES ASSUME NEW v \in Applied(i)
                 PROVE  v <= e.obj.gen
      OBVIOUS
    <3>1. CASE Present(cache[i])
      <4>1. v <= cache[i].gen /\ cache[i].gen <= e.obj.gen /\ cache[i].gen \in Nat
        BY <3>1, <1>1, <1>3, Types DEF VersionsOf
      <4> QED BY <4>1, <1>5, <2>5
    <3>2. CASE ~Present(cache[i])
      <4>1. v < e.obj.uid
        BY <3>2, <1>1, <1>2, <1>3 DEF VersionsOf
      <4> QED BY <4>1, <1>5, <2>5
    <3> QED BY <3>1, <3>2
  <2>7. CASE e.type = "delete"
    <3>1. ~Present(cache'[i])
      BY <2>7, <1>3 DEF After, NoObject, Present
    <3>2. \A n \in 1..Len(watch'[i]) : e.obj.gen < watch'[i][n].obj.uid /\ watch'[i][n].obj.uid \in Nat
      BY <2>1, <2>4, <2>7, <1>3, <1>4 DEF Before
    <3>3. \A n \in 1..Len(watch'[i]), v \in Applied(i) : v < watch'[i][n].obj.uid
      BY <2>5, <2>6, <3>2, <1>5
    <3> QED BY <2>3, <2>5, <3>1, <3>3, <1>1, <1>2 DEF VersionsOf
  <2>8. CASE e.type # "delete"
    <3>1. cache'[i] = e.obj
      BY <2>8, <1>3 DEF After
    <3>2. \A n \in 1..Len(watch'[i]) : e.obj.gen <= watch'[i][n].obj.gen
      BY <2>4 DEF Before
    <3> QED BY <2>3, <2>5, <2>6, <3>1, <3>2, <1>1, <1>2, <1>5 DEF VersionsOf
  <2> QED BY <2>7, <2>8
<1>9. ASSUME NEW j \in Ingresses, j # i
      PROVE  StreamsOf(j)' /\ StampsOf(j)' /\ VersionsOf(j)'
  <2>1. StreamsOf(j) /\ StampsOf(j) /\ VersionsOf(j)
    BY DEF VersionInv, Streams, Stamps, Versions
  <2>2. UNCHANGED <<watch[j], cache[j], notes[j], edits, api, up, pc, cur, snap, lb>>
    BY <1>1, <1>2, <1>9 DEF TypeOK
  <2> QED BY <2>1, <2>2 DEF StreamsOf, StampsOf, VersionsOf, Stamped, Applied
<1>10. Stamped(snap)' /\ (pc' \in Deleting => snap' = NoObject)
  BY <1>2 DEF VersionInv, Stamps, Stamped
<1> QED BY <1>6, <1>7, <1>8, <1>9, <1>10 DEF Streams, Stamps, Versions

LEMMA NotesVersions ==
  ASSUME VersionInv, NEW i \in Ingresses, Resync(i) \/ IngressHandler(i)
  PROVE  Streams' /\ Stamps' /\ Versions'
<1>1. UNCHANGED <<edits, api, up, watch, cache, pc, cur, snap, lb>>
  BY DEF Resync, IngressHandler, clusterVars, workVars, ociVars
<1>2. Stamps' /\ Versions'
  BY <1>1 DEF VersionInv, Stamps, StampsOf, Stamped, Versions, VersionsOf, Applied
<1>3. TypeOK /\ Streams
  BY DEF VersionInv
<1>4. notes[i] \in Seq(Event)
  BY <1>3, Types
<1>5. StreamsOf(i)'
  <2>1. CASE Resync(i)
    <3>1. notes'[i] = <<[type |-> "update", obj |-> cache[i]]>> /\ Present(cache[i])
      BY <2>1, <1>3 DEF Resync, TypeOK
    <3> QED BY <3>1, <1>1, <1>3 DEF Streams, StreamsOf, After
  <2>2. CASE IngressHandler(i)
    <3>1. notes'[i] = Tail(notes[i]) /\ notes[i] # <<>>
      BY <2>2, <1>3 DEF IngressHandler, TypeOK
    <3>2. /\ Len(notes[i]) \in Nat /\ Len(notes'[i]) = Len(notes[i]) - 1
          /\ \A n \in 1..Len(notes'[i]) : notes'[i][n] = notes[i][n + 1]
          /\ notes'[i] # <<>> => notes'[i][Len(notes'[i])] = notes[i][Len(notes[i])]
      BY <3>1, <1>4, TailEvents
    <3>3. \A n \in 1..Len(notes'[i]) : n + 1 \in 1..Len(notes[i])
      BY <3>2
    <3> QED BY <3>1, <3>2, <3>3, <1>1, <1>3 DEF Streams, StreamsOf
  <2> QED BY <2>1, <2>2
<1>6. ASSUME NEW j \in Ingresses, j # i
      PROVE  StreamsOf(j)'
  <2>1. notes'[j] = notes[j]
    BY <1>3, <1>6 DEF Resync, IngressHandler, TypeOK
  <2> QED BY <2>1, <1>1, <1>3 DEF Streams, StreamsOf
<1> QED BY <1>2, <1>5, <1>6 DEF Streams

LEMMA TakeVersions ==
  ASSUME VersionInv, NEW i \in Ingresses, Take(i)
  PROVE  Streams' /\ Stamps' /\ Versions'
<1>1. /\ UNCHANGED <<edits, api, up, watch, cache, notes, snap, lb>>
      /\ pc' = "reconcile" /\ cur' = i /\ pc = "idle"
  BY DEF Take, clusterVars, feedVars, ociVars
<1>2. Streams'
  BY <1>1, StreamsUnchanged
<1>3. snap = NoObject /\ edits \in Nat
  BY <1>1 DEF VersionInv, Shape, TypeOK
<1>4. Stamped(snap)' /\ (pc' \in Deleting => snap' = NoObject)
  BY <1>1, <1>3 DEF Stamped, NoObject, Present
<1>5. ASSUME NEW j \in Ingresses
      PROVE  StampsOf(j)' /\ VersionsOf(j)'
  <2>1. TypeOK /\ StampsOf(j) /\ VersionsOf(j)
    BY DEF VersionInv, Stamps, Versions
  <2>2. Applied(j)' \subseteq Applied(j) \cup {0}
    BY <1>1, <1>3 DEF Applied, NoObject
  <2>3. lb'[j].gen \in Nat /\ lb'[j].gen <= edits' /\ (lb'[j].state = "none" <=> lb'[j].gen = 0)
    BY <1>1, <2>1, Types DEF StampsOf
  <2>4. Present(api[j]) => lb'[j].gen <= api[j].gen
    BY <1>1, <2>1 DEF VersionsOf
  <2>5. pc' \notin Provisioning /\ pc' \notin {"lookupToDelete", "delete"}
    BY <1>1 DEF Provisioning
  <2> QED BY <1>1, <1>3, <1>4, <2>2, <2>3, <2>4, <2>5, WorkVersions
<1> QED BY <1>2, <1>4, <1>5 DEF Stamps, Versions

LEMMA CrashVersions ==
  ASSUME VersionInv, Crash
  PROVE  Streams' /\ Stamps' /\ Versions'
<1>1. /\ UNCHANGED <<edits, api, lb>> /\ up' = FALSE /\ pc' = "idle" /\ cur' = None /\ snap' = NoObject
      /\ \A i \in Ingresses : watch'[i] = <<>> /\ notes'[i] = <<>> /\ cache'[i] = NoObject
  BY DEF Crash, clusterVars
<1>2. ~Present(NoObject) /\ Stamped(NoObject)'
  BY DEF Present, NoObject, Stamped
<1>3. \A i \in Ingresses : cur' # i
  BY <1>1, NoneAssumption
<1>4. Streams'
  BY <1>1, <1>2 DEF Streams, StreamsOf
<1>5. Stamps'
  BY <1>1, <1>2 DEF VersionInv, Stamps, StampsOf, Stamped, Deleting
<1>6. Versions'
  BY <1>1, <1>2, <1>3 DEF VersionInv, Versions, VersionsOf
<1> QED BY <1>4, <1>5, <1>6

LEMMA RestartVersions ==
  ASSUME VersionInv, Restart
  PROVE  Streams' /\ Stamps' /\ Versions'
<1>1. /\ UNCHANGED <<edits, api, watch, pc, cur, snap, lb>> /\ cache' = api
      /\ ~up /\ pc = "idle" /\ cur = None /\ snap = NoObject
      /\ \A i \in Ingresses : watch[i] = <<>>
  BY DEF VersionInv, Shape, Restart, clusterVars, workVars, ociVars
<1>2. \A i \in Ingresses : cur # i
  BY <1>1, NoneAssumption
<1>3. ASSUME NEW j \in Ingresses
      PROVE  StreamsOf(j)' /\ StampsOf(j)' /\ VersionsOf(j)'
  <2>1. StampsOf(j) /\ VersionsOf(j)
    BY DEF VersionInv, Stamps, Versions
  <2>2. notes'[j] = IF Present(api[j]) THEN <<[type |-> "create", obj |-> api[j]]>> ELSE <<>>
    BY DEF Restart
  <2>3. StreamsOf(j)'
    BY <1>1, <2>2 DEF StreamsOf, After
  <2>4. StampsOf(j)'
    BY <1>1, <2>1 DEF StampsOf, Stamped
  <2>5. VersionsOf(j)'
    BY <1>1, <1>2, <2>1 DEF VersionsOf, Applied
  <2> QED BY <2>3, <2>4, <2>5
<1>4. Stamped(snap)' /\ (pc' \in Deleting => snap' = NoObject)
  BY <1>1 DEF VersionInv, Stamps, Stamped
<1> QED BY <1>3, <1>4 DEF Streams, Stamps, Versions

-----------------------------------------------------------------------------
(* The worker *)

\* What its calls make of the load balancers.
LEMMA TouchedLB ==
  ASSUME VersionInv, cur \in Ingresses, LBTouched, NEW j \in Ingresses
  PROVE  /\ lb'[j].gen \in Applied(j) /\ lb'[j].gen \in Nat /\ lb'[j].gen <= edits
         /\ lb'[j].state = "none" <=> lb'[j].gen = 0
         /\ pc \in Provisioning /\ cur = j => lb'[j].gen <= snap.gen
         /\ pc \in Deleting => lb'[j].gen = lb[j].gen
<1>1. TypeOK /\ Shape /\ StampsOf(j) /\ VersionsOf(j) /\ Stamped(snap)
  BY DEF VersionInv, Stamps, Versions
<1>2. lb[j].gen \in Nat /\ snap.gen \in Nat /\ snap.uid \in Nat /\ edits \in Nat
  BY <1>1, Types
<1>3. CASE lb'[j] = lb[j]
  BY <1>1, <1>2, <1>3 DEF StampsOf, VersionsOf, Applied
<1>4. CASE lb'[j] # lb[j]
  <2>1. PICK b \in LoadBalancer :
           /\ lb' = [lb EXCEPT ![cur] = b]
           /\ \/ /\ pc \in {"create", "update"}
                 /\ b.gen = snap.gen /\ b.state \notin {"none", "DELETING"}
              \/ /\ pc = "updating"
                 /\ b.gen = lb[cur].gen /\ b.state = lb[cur].state
              \/ /\ pc = "delete"
                 /\ b.gen = lb[cur].gen /\ b.state = "DELETING" /\ lb[cur].state # "none"
    BY <1>4 DEF LBTouched
  <2>2. cur = j /\ lb'[j] = b
    BY <2>1, <1>1, <1>4 DEF TypeOK
  <2>3. CASE pc \in {"create", "update"}
    <3>1. Present(snap) /\ pc \notin Deleting /\ b.gen = snap.gen /\ b.state # "none"
      BY <2>1, <2>3, <1>1 DEF Shape, Provisioning, Deleting
    <3> QED BY <3>1, <2>2, <1>1, <1>2 DEF Stamped, Present, Applied
  <2>4. CASE pc \notin {"create", "update"}
    <3>1. b.gen = lb[j].gen /\ (b.state = "none" <=> lb[j].state = "none")
      BY <2>1, <2>2, <2>4
    <3> QED BY <3>1, <2>2, <1>1, <1>2 DEF StampsOf, VersionsOf, Applied
  <2> QED BY <2>3, <2>4
<1> QED BY <1>3, <1>4

LEMMA WorkerReadsVersions ==
  ASSUME VersionInv, up, cur \in Ingresses, WorkerReads
  PROVE  Streams' /\ Stamps' /\ Versions'
<1>1. /\ UNCHANGED <<edits, api, up, watch, cache, notes, cur, lb>>
      /\ snap' = cache[cur]
      /\ IF Present(cache[cur]) THEN pc' \in Provisioning ELSE pc' = "lookupToDelete"
  BY DEF WorkerReads, clusterVars, feedVars, ociVars
<1>2. Streams'
  BY <1>1, StreamsUnchanged
<1>3. TypeOK /\ StampsOf(cur) /\ edits \in Nat
  BY DEF VersionInv, Stamps, TypeOK
<1>4. Stamped(snap)' /\ (pc' \in Deleting => snap' = NoObject)
  BY <1>1, <1>3 DEF StampsOf, Stamped, Provisioning, Deleting
<1>5. ASSUME NEW j \in Ingresses
      PROVE  StampsOf(j)' /\ VersionsOf(j)'
  <2>1. StampsOf(j) /\ VersionsOf(j) /\ StreamsOf(j)
    BY DEF VersionInv, Stamps, Versions, Streams
  <2>2. /\ lb[j].gen \in Nat /\ cache[j].gen \in Nat /\ api[j].uid \in Nat
        /\ lb[j].gen \in Applied(j)
    BY <1>3, Types DEF Applied
  <2>3. Applied(j)' \subseteq Applied(j) \cup {0} \cup
             (IF Present(cache[j]) THEN {cache[j].gen} ELSE {})
    <3>1. ~Present(cache[j]) => cache[j].gen = 0
      BY <2>1 DEF StampsOf, Stamped, NoObject
    <3> QED BY <3>1, <1>1 DEF Applied
  <2>4. lb'[j].gen \in Nat /\ lb'[j].gen <= edits' /\ (lb'[j].state = "none" <=> lb'[j].gen = 0)
    BY <1>1, <2>1, <2>2 DEF StampsOf
  <2>5. Present(api[j]) => lb'[j].gen <= api[j].gen
    BY <1>1, <2>1 DEF VersionsOf
  <2>6. cur' = j /\ pc' \in Provisioning => lb'[j].gen <= snap'.gen
    BY <1>1, <2>1, <2>2 DEF VersionsOf, Provisioning
  <2>7. cur' = j /\ pc' \in {"lookupToDelete", "delete"} /\ Present(api[j]) =>
            lb'[j].gen < api[j].uid
    <3>1. pc' \in {"lookupToDelete", "delete"} => ~Present(cache[cur])
      BY <1>1 DEF Provisioning
    <3> QED BY <3>1, <1>1, <2>2, AppliedBound
  <2> QED BY <1>1, <1>3, <1>4, <2>3, <2>4, <2>5, <2>6, <2>7, WorkVersions
<1> QED BY <1>2, <1>4, <1>5 DEF Stamps, Versions

LEMMA WorkerGoesOnVersions ==
  ASSUME VersionInv, up, cur \in Ingresses, WorkerGoesOn \/ WorkerReturns
  PROVE  Streams' /\ Stamps' /\ Versions'
<1>1. /\ UNCHANGED <<edits, api, up, watch, cache, notes>> /\ LBTouched
      /\ \/ cur' = cur /\ snap' = snap
         \/ cur' = None /\ snap' = NoObject /\ pc' = "idle"
      /\ pc \in Deleting \/ pc' \notin Deleting
      /\ cur' = cur /\ pc' \in Provisioning => pc \in Provisioning
      /\ pc' = "delete" => pc = "lookupToDelete" /\ cur' = cur
      /\ pc' # "lookupToDelete"
  BY NoneAssumption DEF WorkerGoesOn, WorkerReturns, Finish, clusterVars, feedVars, Provisioning, Deleting
<1>2. Streams'
  BY <1>1, StreamsUnchanged
<1>3. TypeOK /\ Stamped(snap) /\ edits \in Nat /\ (pc \in Deleting => snap = NoObject)
  BY DEF VersionInv, Stamps, TypeOK
<1>4. Stamped(snap)' /\ (pc' \in Deleting => snap' = NoObject)
  BY <1>1, <1>3 DEF Stamped, NoObject, Present
<1>5. ASSUME NEW j \in Ingresses
      PROVE  StampsOf(j)' /\ VersionsOf(j)'
  <2>1. StampsOf(j) /\ VersionsOf(j)
    BY DEF VersionInv, Stamps, Versions
  <2>2. /\ lb'[j].gen \in Applied(j) /\ lb'[j].gen \in Nat /\ lb'[j].gen <= edits
        /\ lb'[j].state = "none" <=> lb'[j].gen = 0
        /\ pc \in Provisioning /\ cur = j => lb'[j].gen <= snap.gen
        /\ pc \in Deleting => lb'[j].gen = lb[j].gen
    BY <1>1, TouchedLB
  <2>3. Applied(j)' \subseteq Applied(j) \cup {0}
    <3>1. cur' = j => (cur = j /\ snap' = snap) \/ snap'.gen = 0
      BY <1>1 DEF NoObject
    <3> QED BY <3>1, <2>2 DEF Applied
  <2>4. Present(api[j]) => lb'[j].gen <= api[j].gen
    BY <2>2, AppliedBound
  <2>5. cur' = j /\ pc' \in Provisioning => lb'[j].gen <= snap'.gen
    BY <1>1, <2>2 DEF Provisioning
  <2>6. cur' = j /\ pc' \in {"lookupToDelete", "delete"} /\ Present(api[j]) =>
            lb'[j].gen < api[j].uid
    BY <1>1, <2>1, <2>2 DEF VersionsOf, Deleting
  <2> QED BY <1>1, <1>3, <1>4, <2>2, <2>3, <2>4, <2>5, <2>6, WorkVersions
<1> QED BY <1>2, <1>4, <1>5 DEF Stamps, Versions

LEMMA WorkerWritesVersions ==
  ASSUME VersionInv, up, cur \in Ingresses, WorkerWrites
  PROVE  Streams' /\ Stamps' /\ Versions'
<1> DEFINE o == [snap EXCEPT !.ip = lb[cur].tag]
<1>1. /\ Store(cur, "update", o) /\ api[cur] = snap
      /\ UNCHANGED <<edits, up, cache, notes, lb>>
      /\ pc' = "idle" /\ cur' = None /\ snap' = NoObject
  BY DEF WorkerWrites, Finish, ociVars
<1>2. TypeOK /\ StampsOf(cur) /\ edits \in Nat /\ Present(snap)
  BY DEF VersionInv, Stamps, TypeOK, WorkerWrites, Shape, Provisioning
<1>3. o \in Object /\ o.uid = snap.uid /\ o.gen = snap.gen
  BY <1>2, ObjectEdit DEF TypeOK, LoadBalancer, Object
<1> HIDE DEF o
<1>4. "update" \in EventType /\ Present(o) /\ o.uid <= o.gen /\ o.gen <= edits
  BY <1>1, <1>2, <1>3 DEF StampsOf, Stamped, Present, EventType
<1>5. Streams'
  BY <1>1, <1>3, <1>4, StoreStreams
<1>6. Stamped(snap)' /\ (pc' \in Deleting => snap' = NoObject)
  BY <1>1 DEF Stamped, NoObject, Present
<1>7. ASSUME NEW j \in Ingresses
      PROVE  StampsOf(j)' /\ VersionsOf(j)'
  <2>1. StampsOf(j) /\ VersionsOf(j)
    BY DEF VersionInv, Stamps, Versions
  <2>2. WatchKept(j)
    <3>1. CASE j = cur
      <4>1. o.gen \in Nat /\ api[cur].gen \in Nat
        BY <1>2, <1>3, Types DEF Object
      <4> QED BY <4>1, <3>1, <1>1, <1>2, <1>3, <1>4, WatchWritten
    <3>2. CASE j # cur
      BY <3>2, <1>1, <1>2, WatchUnchanged DEF Store, TypeOK
    <3> QED BY <3>1, <3>2
  <2>3. cur' # j /\ pc' \notin Provisioning /\ Applied(j)' \subseteq Applied(j)
    BY <1>1, NoneAssumption DEF Provisioning, Applied
  <2>4. api'[j] = IF j = cur THEN o ELSE api[j]
    BY <1>1, <1>2 DEF Store, TypeOK
  <2>5. Stamped(api[j])' /\ Stamped(cache[j])'
    BY <1>1, <1>4, <2>1, <2>4 DEF StampsOf, Stamped
  <2>6. Present(api'[j]) => lb'[j].gen <= api'[j].gen
    BY <1>1, <1>2, <1>3, <2>1, <2>4 DEF VersionsOf, Present
  <2>7. StampsOf(j)'
    BY <1>1, <2>1, <2>2, <2>5 DEF StampsOf, WatchKept
  <2>8. VersionsOf(j)'
    BY <1>1, <2>1, <2>2, <2>3, <2>6 DEF VersionsOf, WatchKept
  <2> QED BY <2>7, <2>8
<1> QED BY <1>5, <1>6, <1>7 DEF Stamps, Versions

-----------------------------------------------------------------------------
(* The induction *)

LEMMA VersionStep ==
  ASSUME VersionInv, [Next]_vars
  PROVE  VersionInv'
<1>1. TypeOK /\ Shape /\ edits \in Nat
  BY DEF VersionInv, TypeOK
<1>2. SUFFICES Streams' /\ Stamps' /\ Versions'
  BY <1>1, TypeInvariant, ShapeInvariant DEF VersionInv
<1> DEFINE Goal == Streams' /\ Stamps' /\ Versions'
<1>3. ASSUME NEW i \in Ingresses, CreateIngress(i)
      PROVE  Goal
  <2>1. PICK c \in BOOLEAN : UserWrite(i, "create",
           [uid |-> edits + 1, gen |-> edits + 1, oci |-> c, ip |-> 0])
    BY <1>3 DEF CreateIngress
  <2> DEFINE o == [uid |-> edits + 1, gen |-> edits + 1, oci |-> c, ip |-> 0]
  <2>2. o \in Object /\ o.uid = edits + 1 /\ o.gen = edits + 1
    BY <1>1 DEF Object
  <2>3. UserWrite(i, "create", o)
    BY <2>1
  <2> HIDE DEF o
  <2>4. Present(o) /\ o.uid <= o.gen /\ o.gen <= edits + 1 /\ o.uid > edits /\ ~Present(api[i])
    BY <1>1, <1>3, <2>2 DEF Present, CreateIngress
  <2> QED BY <2>2, <2>3, <2>4, UserWriteVersions DEF EventType
<1>4. ASSUME NEW i \in Ingresses, EditIngress(i)
      PROVE  Goal
  <2>1. PICK c \in BOOLEAN : UserWrite(i, "update",
           [api[i] EXCEPT !.gen = edits + 1, !.oci = c])
    BY <1>4 DEF EditIngress
  <2> DEFINE o == [api[i] EXCEPT !.gen = edits + 1, !.oci = c]
  <2>2. api[i] \in Object /\ StampsOf(i) /\ Present(api[i])
    BY <1>1, <1>4 DEF TypeOK, VersionInv, Stamps, EditIngress
  <2>3. o \in Object /\ o.uid = api[i].uid /\ o.gen = edits + 1
    <3>1. o \in Object
      <4>1. edits + 1 \in Nat /\ api[i] \in Object
        BY <1>1, <2>2
      <4> QED BY <4>1, ObjectEdit
    <3> QED BY <3>1, <2>2 DEF Object
  <2>4. UserWrite(i, "update", o)
    BY <2>1
  <2> HIDE DEF o
  <2>5. /\ Present(o) /\ o.uid <= o.gen /\ o.gen <= edits + 1
        /\ o.uid = api[i].uid /\ o.gen >= api[i].gen
    BY <1>1, <2>2, <2>3 DEF Present, StampsOf, Stamped, Object
  <2> QED BY <2>2, <2>3, <2>4, <2>5, UserWriteVersions DEF EventType
<1>5. ASSUME NEW i \in Ingresses, DeleteIngress(i)
      PROVE  Goal
  <2>1. api[i] \in Object /\ StampsOf(i) /\ Present(api[i]) /\ UserWrite(i, "delete", api[i])
    BY <1>1, <1>5 DEF TypeOK, VersionInv, Stamps, DeleteIngress
  <2>2. /\ api[i].uid <= api[i].gen /\ api[i].gen <= edits + 1 /\ api[i].gen >= api[i].gen
    BY <1>1, <2>1 DEF StampsOf, Stamped, Object
  <2> QED BY <2>1, <2>2, UserWriteVersions DEF EventType
<1>6. ASSUME \/ \E i \in Ingresses : ChangeUnwatched(i)
             \/ \E kind \in DepKind : ChangeDependency(kind)
      PROVE  Goal
  <2>1. /\ UNCHANGED <<api, up, watch, cache, notes, pc, cur, snap>> /\ edits' = edits + 1
        /\ \E A : Outdate(A)
    BY <1>6 DEF ChangeUnwatched, ChangeDependency, feedVars
  <2>2. \A j \in Ingresses : lb'[j].gen = lb[j].gen /\ lb'[j].state = lb[j].state
    BY <1>1, <2>1 DEF Outdate, TypeOK, LoadBalancer
  <2>3. \A j \in Ingresses : lb'[j].state = "none" <=> lb'[j].gen = 0
    BY <2>2 DEF VersionInv, Stamps, StampsOf
  <2>4. Stamps' /\ Versions'
    BY <1>1, <2>1, <2>2, <2>3, WatchedVersions
  <2> QED BY <2>1, <2>4, StreamsUnchanged
<1>7. ASSUME NEW i \in Ingresses, CreationEnds(i) \/ DeletionEnds(i)
      PROVE  Goal
  <2>1. UNCHANGED <<api, up, watch, cache, notes, pc, cur, snap, edits>>
    BY <1>7 DEF CreationEnds, DeletionEnds, clusterVars, feedVars, workVars
  <2>2. ASSUME NEW j \in Ingresses
        PROVE  lb'[j].gen \in {lb[j].gen, 0} /\ (lb'[j].state = "none" <=> lb'[j].gen = 0)
    <3>1. lb[j] \in LoadBalancer /\ (lb[j].state = "none" <=> lb[j].gen = 0)
      BY <1>1 DEF TypeOK, VersionInv, Stamps, StampsOf
    <3>2. \/ lb'[j] = lb[j]
          \/ lb'[j] = NoLB
          \/ \E s \in {"ACTIVE", "FAILED"} :
                 lb[j].state # "none" /\ lb'[j] = [lb[j] EXCEPT !.state = s]
      BY <1>1, <1>7 DEF TypeOK, CreationEnds, DeletionEnds
    <3> QED BY <3>1, <3>2 DEF NoLB, LoadBalancer
  <2> QED BY <1>1, <2>1, <2>2, StreamsUnchanged, WatchedVersions
<1>8. ASSUME \/ NodeHandler \/ SecretHandler \/ (\E i \in Ingresses : BackoffOver(i))
             \/ UNCHANGED vars
      PROVE  Goal
  <2>1. UNCHANGED <<edits, api, up, watch, cache, notes, pc, cur, snap, lb>>
    BY <1>8 DEF NodeHandler, SecretHandler, DependencyHandler, BackoffOver, vars,
       clusterVars, feedVars, workVars, ociVars
  <2> QED BY <2>1, StreamsUnchanged DEF VersionInv, Stamps, StampsOf, Stamped, Versions, VersionsOf, Applied
<1>9. ASSUME WorkerStep
      PROVE  Goal
  <2>1. up /\ cur \in Ingresses /\ WorkerEffect
    BY <1>1, <1>9, WorkerCases
  <2> QED BY <2>1, WorkerReadsVersions, WorkerGoesOnVersions, WorkerWritesVersions DEF WorkerEffect
<1> HIDE DEF Goal
<1>10. ASSUME NEW i \in Ingresses, Receive(i) \/ Resync(i) \/ IngressHandler(i) \/ Take(i)
       PROVE  Goal
  BY <1>10, ReceiveVersions, NotesVersions, TakeVersions DEF Goal
<1>11. ASSUME Crash \/ Restart
       PROVE  Goal
  BY <1>11, CrashVersions, RestartVersions DEF Goal
<1>12. Goal
  BY <1>3, <1>4, <1>5, <1>6, <1>7, <1>8, <1>9, <1>10, <1>11 DEF Next
<1> QED BY <1>12 DEF Goal

LEMMA VersionInit == Init => VersionInv
<1> SUFFICES ASSUME Init PROVE VersionInv
  OBVIOUS
<1>1. TypeOK /\ Shape
  BY TypeInit
<1>2. Streams
  <2> SUFFICES ASSUME NEW i \in Ingresses PROVE StreamsOf(i)
    BY DEF Streams
  <2>1. watch[i] = <<>> /\ notes[i] = <<>> /\ cache[i] = api[i] /\ Len(notes[i]) = 0
    BY DEF Init
  <2> QED BY <2>1 DEF StreamsOf
<1>3. Stamps
  BY DEF Init, Stamps, StampsOf, Stamped, Present, NoObject, NoLB, Deleting
<1>4. \A i \in Ingresses : cur # i
  BY NoneAssumption DEF Init
<1>5. Versions
  <2> SUFFICES ASSUME NEW i \in Ingresses PROVE VersionsOf(i)
    BY DEF Versions
  <2>1. /\ Len(watch[i]) = 0 /\ cur # i
        /\ ~Present(cache[i]) /\ ~Present(api[i])
    BY <1>4 DEF Init, Present, NoObject
  <2> QED BY <2>1 DEF VersionsOf
<1> QED BY <1>1, <1>2, <1>3, <1>5 DEF VersionInv

LEMMA VersionCorrect == Spec => []VersionInv
<1>1. VersionInv /\ [Next]_vars => VersionInv'
  BY VersionStep
<1> QED BY <1>1, VersionInit, PTL DEF Spec

-----------------------------------------------------------------------------
(* Controller implements IngressLB *)

\* The substitution of Promise, by name.
Obj == [i \in Ingresses |-> [uid |-> api[i].uid, gen |-> api[i].gen]]
HaveOf(b) == IF b.state \in {"none", "DELETING"} THEN 0 ELSE b.gen
Have == [i \in Ingresses |-> HaveOf(lb[i])]

\* Which steps of the promise a step of the controller may be.
LEMMA Stutters ==
  ASSUME edits' = edits, Obj' = Obj, Have' = Have
  PROVE  [Promise!Next]_(Promise!vars)
BY DEF Promise!vars, Obj, Have, HaveOf

LEMMA Writes ==
  ASSUME NEW i \in Ingresses, edits' = edits + 1, Have' = Have,
         \E o \in {Promise!Absent, [uid |-> edits', gen |-> edits']}
                       \cup {[Obj[i] EXCEPT !.gen = edits']} :
             Obj' = [Obj EXCEPT ![i] = o]
  PROVE  [Promise!Next]_(Promise!vars)
<1>1. Promise!Write(i)
  BY DEF Promise!Write, Obj, Have, HaveOf
<1> QED BY <1>1 DEF Promise!Next

LEMMA Ticks ==
  ASSUME edits' = edits + 1, Obj' = Obj, Have' = Have
  PROVE  [Promise!Next]_(Promise!vars)
<1>1. Promise!Tick
  BY DEF Promise!Tick, Obj, Have, HaveOf
<1> QED BY <1>1 DEF Promise!Next

LEMMA Provisions ==
  ASSUME NEW i \in Ingresses, edits' = edits, Obj' = Obj,
         NEW v \in 1..edits, v >= Have[i], Have' = [Have EXCEPT ![i] = v]
  PROVE  [Promise!Next]_(Promise!vars)
<1>1. Promise!Provision(i)
  BY DEF Promise!Provision, Obj, Have, HaveOf
<1> QED BY <1>1 DEF Promise!Next

LEMMA TearsDown ==
  ASSUME NEW i \in Ingresses, edits' = edits, Obj' = Obj,
         Obj[i] = Promise!Absent \/ Have[i] < Obj[i].uid, Have' = [Have EXCEPT ![i] = 0]
  PROVE  [Promise!Next]_(Promise!vars)
<1>1. Promise!TearDown(i)
  BY DEF Promise!TearDown, Obj, Have, HaveOf
<1> QED BY <1>1 DEF Promise!Next

\* A change of one load balancer by the worker.
LEMMA TouchRefines ==
  ASSUME VersionInv, cur \in Ingresses, LBTouched, UNCHANGED <<edits, api>>
  PROVE  [Promise!Next]_(Promise!vars)
<1>1. /\ TypeOK /\ Shape /\ StampsOf(cur) /\ VersionsOf(cur) /\ Stamped(snap)
      /\ Stamped(api[cur])
  BY DEF VersionInv, Stamps, Versions, StampsOf
<1>2. Obj' = Obj
  BY DEF Obj
<1>3. /\ lb[cur].gen \in Nat /\ snap.gen \in Nat /\ snap.uid \in Nat /\ edits \in Nat
      /\ api[cur].uid \in Nat
  BY <1>1, Types
<1>4. CASE lb' = lb
  BY <1>2, <1>4, Stutters DEF Have
<1>5. ASSUME NEW b \in LoadBalancer, lb' = [lb EXCEPT ![cur] = b]
      PROVE  Have' = [Have EXCEPT ![cur] = HaveOf(b)]
  BY <1>1, <1>5 DEF Have, TypeOK
<1>6. ASSUME NEW b \in LoadBalancer, lb' = [lb EXCEPT ![cur] = b], pc \in {"create", "update"},
             b.gen = snap.gen, b.state \notin {"none", "DELETING"}
      PROVE  [Promise!Next]_(Promise!vars)
  <2>1. Present(snap) /\ lb[cur].gen <= snap.gen
    BY <1>1, <1>6 DEF Shape, VersionsOf, Provisioning
  <2>2. HaveOf(b) = snap.gen /\ Have[cur] <= snap.gen
    BY <1>3, <1>6, <2>1 DEF Have, HaveOf
  <2>3. snap.gen \in 1..edits
    BY <1>1, <1>3, <2>1 DEF Stamped, Present
  <2>4. Have[cur] \in Nat
    BY <1>3 DEF Have, HaveOf
  <2> QED BY <1>2, <1>3, <1>5, <1>6, <2>2, <2>3, <2>4, Provisions
<1>7. ASSUME NEW b \in LoadBalancer, lb' = [lb EXCEPT ![cur] = b],
             b.gen = lb[cur].gen, b.state = lb[cur].state
      PROVE  [Promise!Next]_(Promise!vars)
  <2>1. HaveOf(b) = Have[cur]
    BY <1>7 DEF Have, HaveOf
  <2>2. Have' = Have
    BY <1>5, <1>7, <2>1 DEF Have
  <2> QED BY <1>2, <2>2, Stutters
<1>8. ASSUME NEW b \in LoadBalancer, lb' = [lb EXCEPT ![cur] = b],
             pc = "delete", b.state = "DELETING"
      PROVE  [Promise!Next]_(Promise!vars)
  <2>1. HaveOf(b) = 0
    BY <1>8 DEF HaveOf
  <2>2. cur = cur /\ pc \in {"lookupToDelete", "delete"} /\ Present(api[cur]) => lb[cur].gen < api[cur].uid
    BY <1>1, <1>8 DEF VersionsOf
  <2>3. CASE Present(api[cur])
    <3>1. Have[cur] < Obj[cur].uid
      BY <1>3, <1>8, <2>2, <2>3 DEF Have, HaveOf, Obj, Present
    <3> QED BY <1>2, <1>5, <1>8, <2>1, <3>1, TearsDown
  <2>4. CASE ~Present(api[cur])
    <3>1. Obj[cur] = Promise!Absent
      BY <1>1, <2>4 DEF Obj, Promise!Absent, Stamped, NoObject
    <3> QED BY <1>2, <1>5, <1>8, <2>1, <3>1, TearsDown
  <2> QED BY <2>3, <2>4
<1> QED BY <1>4, <1>6, <1>7, <1>8 DEF LBTouched

LEMMA UserWriteRefines ==
  ASSUME VersionInv, NEW i \in Ingresses, NEW type \in EventType, NEW o \in Object,
         UserWrite(i, type, o),
         type = "delete" \/ (o.gen = edits' /\ o.uid \in {edits', api[i].uid})
  PROVE  [Promise!Next]_(Promise!vars)
<1> DEFINE p == IF type = "delete" THEN Promise!Absent ELSE [uid |-> o.uid, gen |-> o.gen]
<1>1. /\ edits' = edits + 1 /\ lb' = lb
      /\ api' = [api EXCEPT ![i] = IF type = "delete" THEN NoObject ELSE o]
  BY DEF UserWrite, Store, ociVars
<1>2. Have' = Have
  BY <1>1 DEF Have
<1>3. Obj' = [Obj EXCEPT ![i] = p]
  BY <1>1 DEF Obj, NoObject, Promise!Absent, VersionInv, TypeOK
<1>4. p \in {Promise!Absent, [uid |-> edits', gen |-> edits']}
                \cup {[Obj[i] EXCEPT !.gen = edits']}
  BY DEF Obj
<1> QED BY <1>1, <1>2, <1>3, <1>4, Writes

LEMMA RefinesStep ==
  ASSUME VersionInv, [Next]_vars
  PROVE  [Promise!Next]_(Promise!vars)
<1> DEFINE Goal == [Promise!Next]_(Promise!vars)
<1>0. TypeOK /\ Shape /\ edits \in Nat
  BY DEF VersionInv, TypeOK
<1>1. ASSUME NEW i \in Ingresses, CreateIngress(i)
      PROVE  Goal
  <2>1. PICK c \in BOOLEAN : UserWrite(i, "create",
           [uid |-> edits + 1, gen |-> edits + 1, oci |-> c, ip |-> 0])
    BY <1>1 DEF CreateIngress
  <2>2. [uid |-> edits + 1, gen |-> edits + 1, oci |-> c, ip |-> 0] \in Object /\ edits' = edits + 1
    BY <2>1, <1>0 DEF Object, UserWrite
  <2> QED BY <2>1, <2>2, UserWriteRefines DEF EventType
<1>2. ASSUME NEW i \in Ingresses, EditIngress(i)
      PROVE  Goal
  <2>1. PICK c \in BOOLEAN : UserWrite(i, "update",
           [api[i] EXCEPT !.gen = edits + 1, !.oci = c])
    BY <1>2 DEF EditIngress
  <2> DEFINE o == [api[i] EXCEPT !.gen = edits + 1, !.oci = c]
  <2>2. api[i] \in Object /\ edits + 1 \in Nat /\ edits' = edits + 1
    BY <2>1, <1>0 DEF TypeOK, UserWrite
  <2>3. o \in Object
    BY <2>2, ObjectEdit
  <2>4. o.gen = edits + 1 /\ o.uid = api[i].uid
    BY <2>2 DEF Object
  <2>5. UserWrite(i, "update", o)
    BY <2>1
  <2> HIDE DEF o
  <2> QED BY <2>2, <2>3, <2>4, <2>5, UserWriteRefines DEF EventType
<1>3. ASSUME NEW i \in Ingresses, DeleteIngress(i)
      PROVE  Goal
  BY <1>0, <1>3, UserWriteRefines DEF DeleteIngress, EventType, TypeOK
<1>4. ASSUME \/ \E i \in Ingresses : ChangeUnwatched(i)
             \/ \E kind \in DepKind : ChangeDependency(kind)
      PROVE  Goal
  <2>1. edits' = edits + 1 /\ api' = api /\ \E A : Outdate(A)
    BY <1>4 DEF ChangeUnwatched, ChangeDependency
  <2>2. \A j \in Ingresses : lb'[j].gen = lb[j].gen /\ lb'[j].state = lb[j].state
    BY <1>0, <2>1 DEF Outdate, TypeOK, LoadBalancer
  <2>3. Obj' = Obj /\ Have' = Have
    BY <2>1, <2>2 DEF Obj, Have, HaveOf
  <2> QED BY <2>1, <2>3, Ticks
<1>5. ASSUME NEW i \in Ingresses, CreationEnds(i)
      PROVE  Goal
  <2>1. edits' = edits /\ Obj' = Obj
    BY <1>5 DEF CreationEnds, clusterVars, Obj
  <2>2. PICK s \in {"ACTIVE", "FAILED"} : lb' = [lb EXCEPT ![i].state = s]
    BY <1>5 DEF CreationEnds
  <2>3. \A j \in Ingresses : HaveOf(lb'[j]) = HaveOf(lb[j])
    BY <1>0, <1>5, <2>2 DEF CreationEnds, HaveOf, TypeOK, LoadBalancer
  <2>4. Have' = Have
    BY <2>3 DEF Have, HaveOf
  <2> QED BY <2>1, <2>4, Stutters
<1>6. ASSUME NEW i \in Ingresses, DeletionEnds(i)
      PROVE  Goal
  <2>1. edits' = edits /\ Obj' = Obj
    BY <1>6 DEF DeletionEnds, clusterVars, Obj
  <2>2. /\ Have[i] = 0 /\ lb[i].state = "DELETING" /\ lb[i] \in LoadBalancer
    BY <1>0, <1>6 DEF DeletionEnds, Have, HaveOf, TypeOK
  <2>3. CASE lb' = [lb EXCEPT ![i] = NoLB]
    <3>1. \A j \in Ingresses : HaveOf(lb'[j]) = HaveOf(lb[j])
      BY <1>0, <2>2, <2>3 DEF HaveOf, NoLB, TypeOK
    <3>2. Have' = Have
      BY <3>1 DEF Have, HaveOf
    <3> QED BY <2>1, <3>2, Stutters
  <2>4. CASE lb' = [lb EXCEPT ![i].state = "ACTIVE"]
    <3>1. Have' = [Have EXCEPT ![i] = lb[i].gen]
      BY <1>0, <2>2, <2>4 DEF Have, HaveOf, TypeOK, LoadBalancer
    <3>2. lb[i].gen \in 1..edits /\ lb[i].gen >= Have[i]
      BY <1>0, <2>2 DEF VersionInv, Stamps, StampsOf, LoadBalancer
    <3> QED BY <2>1, <3>1, <3>2, Provisions
  <2> QED BY <1>6, <2>3, <2>4 DEF DeletionEnds
<1>7. ASSUME WorkerStep
      PROVE  Goal
  <2>1. up /\ cur \in Ingresses /\ WorkerEffect
    BY <1>0, <1>7, WorkerCases
  <2>2. CASE WorkerReads
    BY <2>2, Stutters DEF WorkerReads, clusterVars, ociVars, Obj, Have
  <2>3. CASE WorkerGoesOn \/ WorkerReturns
    BY <2>1, <2>3, TouchRefines DEF WorkerGoesOn, WorkerReturns, clusterVars
  <2>4. CASE WorkerWrites
    <3>1. /\ edits' = edits /\ lb' = lb /\ api[cur] = snap
          /\ api' = [api EXCEPT ![cur] = [snap EXCEPT !.ip = lb[cur].tag]]
      BY <2>4 DEF WorkerWrites, Store, ociVars
    <3>2. \A j \in Ingresses : api'[j].uid = api[j].uid /\ api'[j].gen = api[j].gen
      BY <1>0, <2>1, <3>1 DEF TypeOK, Object
    <3>3. Obj' = Obj /\ Have' = Have
      BY <3>1, <3>2 DEF Obj, Have
    <3> QED BY <3>1, <3>3, Stutters
  <2> QED BY <2>1, <2>2, <2>3, <2>4 DEF WorkerEffect
<1> HIDE DEF Goal
<1>8. ASSUME UNCHANGED <<clusterVars, lb>>
      PROVE  Goal
  BY <1>8, Stutters DEF clusterVars, Obj, Have, Goal
<1>9. ASSUME NEW i \in Ingresses,
             Receive(i) \/ Resync(i) \/ IngressHandler(i) \/ BackoffOver(i) \/ Take(i)
      PROVE  Goal
  BY <1>8, <1>9 DEF Receive, Resync, IngressHandler, BackoffOver, Take, ociVars
<1>10. ASSUME NodeHandler \/ SecretHandler \/ Crash \/ Restart \/ UNCHANGED vars
       PROVE  Goal
  BY <1>8, <1>10 DEF NodeHandler, SecretHandler, DependencyHandler, Crash, Restart, vars, ociVars
<1>11. Goal
  BY <1>1, <1>2, <1>3, <1>4, <1>5, <1>6, <1>7, <1>9, <1>10 DEF Next
<1> QED BY <1>11 DEF Goal

\* Whatever the interleaving of users, informers, worker, OCI and crashes, a
\* load balancer carries only versions of its ingress that somebody wrote, in
\* the order they were written, and is deleted only when the incarnation of the
\* ingress it was configured for is gone: what Reconcile reads from the cache
\* may be stale (reconciller.go:46), but never so that it would undo newer work
\* or delete the load balancer of a live ingress (manager.go:71-148).
THEOREM PromiseKept == Spec => Promised
<1>1. Init => Promise!Init
  BY DEF Init, Promise!Init, Promise!Absent, NoObject, NoLB
<1>2. VersionInv /\ [Next]_vars => [Promise!Next]_(Promise!vars)
  BY RefinesStep
<1> QED BY <1>1, <1>2, VersionCorrect, PTL DEF Spec, Promised, Promise!Spec
=============================================================================
