------------------------- MODULE CertificatesProofs -------------------------
(***************************************************************************)
(* Proofs about Certificates, for any hosts and secrets, whatever is in    *)
(* them, and any number of changes and faults.  The argument: a name says  *)
(* which leaf and chain are shown under it (Named), so hosts of the same   *)
(* secret that read it at different times cannot take each other's.        *)
(***************************************************************************)
EXTENDS Certificates, TLAPS

-----------------------------------------------------------------------------
(* The inductive invariant *)

\* What is stored under a name shows the leaf and the chain the name digests.
Named(collection) == \A n \in DOMAIN collection : Shown(collection[n]) = n[2]

ReadInv ==
    /\ DOMAIN read \subseteq Hosts
    /\ \A h \in DOMAIN read : Shown(read[h][2]) = read[h][1][2]
    /\ DOMAIN wanted = {read[h][1] : h \in DOMAIN read}

PhaseInv ==
    /\ phase \in {"idle", "pass1", "create", "delete", "done"}
    /\ phase # "idle" => DOMAIN read = Hosts
    /\ phase \in {"delete", "done"} =>
           /\ DOMAIN wanted \subseteq DOMAIN certs
           /\ \A h \in Hosts : serves[h] = read[h][1]
    /\ phase = "done" => DOMAIN certs \subseteq DOMAIN wanted

IInv == Named(certs) /\ Named(wanted) /\ ReadInv /\ PhaseInv

-----------------------------------------------------------------------------

\* Details stores what UniqueID has digested, wherever the chain was found.
LEMMA NameSaysWhatIsShown ==
    ASSUME NEW s, NEW c
    PROVE  Shown(Details(c)) = Name(s, c)[2]
BY DEF Shown, Details, Name, UniqueID, Chain

LEMMA InitHasInv == Init => IInv
BY DEF Init, IInv, Named, ReadInv, PhaseInv, None0

LEMMA ForgetKeepsInv ==
    ASSUME IInv, Forget, Named(certs')
    PROVE  IInv'
BY DEF IInv, Forget, Named, ReadInv, PhaseInv, None0

LEMMA ReadKeepsInv ==
    ASSUME IInv, ReadSecret
    PROVE  IInv'
<1>1. phase = "idle" /\ UNCHANGED <<certs, serves>>
  BY DEF ReadSecret
<1>2. PICK h \in Hosts \ DOMAIN read :
          LET c == secret[tls[h]]
              name == Name(tls[h], c)
          IN  \/ /\ ~Malformed(c)
                 /\ read' = [g \in DOMAIN read \cup {h} |->
                                IF g = h THEN <<name, Details(c)>> ELSE read[g]]
                 /\ wanted' = Collect(name, c)
                 /\ UNCHANGED <<phase, faults>>
              \/ Forget
  BY DEF ReadSecret
<1> DEFINE c == secret[tls[h]]
           name == Name(tls[h], c)
<1>3. CASE Forget
  BY <1>1, <1>3, ForgetKeepsInv DEF IInv, Named
<1>4. CASE /\ read' = [g \in DOMAIN read \cup {h} |->
                          IF g = h THEN <<name, Details(c)>> ELSE read[g]]
           /\ wanted' = Collect(name, c)
           /\ phase' = phase
  <2>1. Shown(Details(c)) = name[2]
    BY NameSaysWhatIsShown
  <2> HIDE DEF c, name
  <2>2. DOMAIN wanted' = DOMAIN wanted \cup {name}
    BY <1>4 DEF Collect
  <2>3. Named(wanted)'
    BY <1>4, <2>1 DEF IInv, Named, Collect
  <2>4. /\ DOMAIN read' = DOMAIN read \cup {h} /\ read'[h] = <<name, Details(c)>>
        /\ \A g \in DOMAIN read : read'[g] = read[g]
    BY <1>2, <1>4
  <2>5. ReadInv'
    BY <1>2, <2>1, <2>2, <2>4 DEF IInv, ReadInv
  <2>6. Named(certs)' /\ PhaseInv'
    BY <1>1, <1>4 DEF IInv, Named, PhaseInv
  <2> QED
    BY <2>3, <2>5, <2>6 DEF IInv
<1> QED
  BY <1>2, <1>3, <1>4

\* A certificate is created under its name.
LEMMA CreateKeepsInv ==
    ASSUME IInv, CreateCertificate
    PROVE  IInv'
<1>1. phase = "create" /\ UNCHANGED serves
  BY DEF CreateCertificate
<1>2. Named(certs')
  BY DEF CreateCertificate, ToCreate, IInv, Named
<1>3. Forget \/ UNCHANGED <<phase, read, wanted>>
  BY DEF CreateCertificate
<1>4. CASE UNCHANGED <<phase, read, wanted>>
  BY <1>1, <1>2, <1>4 DEF IInv, Named, ReadInv, PhaseInv
<1> QED
  BY <1>2, <1>3, <1>4, ForgetKeepsInv

\* The certificates that are wanted, those of the hosts, are not deleted.
LEMMA DeleteKeepsInv ==
    ASSUME IInv, DeleteCertificate
    PROVE  IInv'
<1>1. phase = "delete" /\ UNCHANGED serves
  BY DEF DeleteCertificate
<1>2. Named(certs') /\ DOMAIN wanted \cap DOMAIN certs \subseteq DOMAIN certs'
  BY DEF DeleteCertificate, ToRemove, IInv, Named
<1>3. Forget \/ UNCHANGED <<phase, read, wanted>>
  BY DEF DeleteCertificate
<1>4. CASE UNCHANGED <<phase, read, wanted>>
  BY <1>1, <1>2, <1>4 DEF IInv, Named, ReadInv, PhaseInv
<1> QED
  BY <1>2, <1>3, <1>4, ForgetKeepsInv

LEMMA SecondPassKeepsInv ==
    ASSUME IInv, SecondPass
    PROVE  IInv'
<1>1. phase = "create" /\ ToCreate = {} /\ UNCHANGED certs
  BY DEF SecondPass
<1>2. CASE Forget
  BY <1>1, <1>2, ForgetKeepsInv DEF IInv, Named
<1>3. CASE serves' = Switched(Hosts) /\ phase' = "delete" /\ UNCHANGED <<read, wanted>>
  <2>1. \A h \in Hosts : serves'[h] = read[h][1]
    BY <1>3 DEF Switched
  <2>2. DOMAIN wanted \subseteq DOMAIN certs
    BY <1>1 DEF ToCreate
  <2> QED
    BY <1>1, <1>3, <2>1, <2>2 DEF IInv, Named, ReadInv, PhaseInv
<1> QED
  BY <1>2, <1>3 DEF SecondPass

LEMMA NextKeepsInv ==
    ASSUME IInv, [Next]_vars
    PROVE  IInv'
<1>1. CASE EditSecret \/ EditTLS \/ UNCHANGED vars
  <2>1. UNCHANGED <<certs, serves, phase, read, wanted>>
    BY <1>1 DEF EditSecret, EditTLS, vars
  <2> QED
    BY <2>1 DEF IInv, Named, ReadInv, PhaseInv
<1>2. CASE Crash \/ Return
  BY <1>2, ForgetKeepsInv DEF Crash, Return, IInv, Named
<1>3. CASE Enqueue
  <2>1. CASE Forget
    BY <1>3, <2>1, ForgetKeepsInv DEF Enqueue, IInv, Named
  <2>2. CASE phase' = "pass1" /\ UNCHANGED <<read, wanted>>
    BY <1>3, <2>2 DEF Enqueue, IInv, Named, ReadInv, PhaseInv
  <2> QED
    BY <1>3, <2>1, <2>2 DEF Enqueue
<1>4. CASE FirstPass
  BY <1>4 DEF FirstPass, IInv, Named, ReadInv, PhaseInv, envVars
<1>5. CASE Finish
  BY <1>5 DEF Finish, ToRemove, IInv, Named, ReadInv, PhaseInv
<1> QED
  BY <1>1, <1>2, <1>3, <1>4, <1>5, ReadKeepsInv, CreateKeepsInv, SecondPassKeepsInv,
     DeleteKeepsInv DEF Next, Step

\* Every host shows, after an update without error, the leaf and the chain that
\* the update read for it (getOrCreateSSLConfigDetails, spec.go:122-162,
\* enqueueCertificateActions, manager.go:437-485), however often and whenever
\* the secrets changed, and the load balancer keeps no other certificate.
THEOREM SuccessIsShown == Spec => []SuccessMeansShown
<1>1. ASSUME IInv PROVE SuccessMeansShown
  <2> SUFFICES ASSUME phase = "done"
               PROVE  /\ \A h \in Hosts : Shown(certs[serves[h]]) = Shown(read[h][2])
                      /\ DOMAIN certs = {serves[h] : h \in Hosts}
    BY DEF SuccessMeansShown
  <2>1. DOMAIN certs = DOMAIN wanted /\ DOMAIN read = Hosts
    BY <1>1 DEF IInv, PhaseInv
  <2>2. \A h \in Hosts : serves[h] = read[h][1]
    BY <1>1 DEF IInv, PhaseInv
  <2>3. DOMAIN certs = {serves[h] : h \in Hosts}
    BY <1>1, <2>1, <2>2 DEF IInv, ReadInv
  <2>4. ASSUME NEW h \in Hosts PROVE Shown(certs[serves[h]]) = Shown(read[h][2])
    <3>1. serves[h] \in DOMAIN certs /\ Shown(read[h][2]) = serves[h][2]
      BY <1>1, <2>1, <2>2, <2>3 DEF IInv, ReadInv
    <3> QED
      BY <1>1, <3>1 DEF IInv, Named
  <2> QED
    BY <2>3, <2>4
<1>2. IInv /\ [Next]_vars => IInv'
  BY NextKeepsInv
<1> QED
  BY <1>1, <1>2, InitHasInv, PTL DEF Spec
=============================================================================
