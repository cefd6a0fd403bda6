----------------------------- MODULE Certificates -----------------------------
(***************************************************************************)
(* The certificates of an ingress: from the secrets of its TLS entries     *)
(* (getCertificateBundle) to the load balancer, which can neither change a *)
(* certificate nor show its private key.  Therefore a certificate's name   *)
(* contains a digest of what is in it, and a changed one is a new one.     *)
(*                                                                         *)
(* A secret has the certificates of tls.crt, the leaf first, and those of  *)
(* ca.crt; the texts around them and the private key are left out.  Each   *)
(* host reads its secret by itself, while the secrets change.              *)
(***************************************************************************)
EXTENDS Naturals, Sequences

CONSTANTS
    Hosts,          \* hosts with TLS, each in a TLS entry and a rule
    Secrets,        \* names of secrets
    Contents,       \* what secrets may contain: [crt, ca], sequences
    None,
    MaxEdits,       \* bound: changes of secrets and of TLS entries
    MaxFaults       \* bound: failed calls and crashes

ASSUME LimitsAssumption == MaxEdits \in Nat /\ MaxFaults \in Nat

VARIABLES
    secret,         \* contents of the secrets
    tls,            \* the secret a host's TLS entry names
    edits, faults,
    certs,          \* the load balancer's certificates, by name
    serves,         \* the name of the certificate a host's listener has
    phase,          \* where the update is
    read,           \* what it found for a host: <<name, contents>>
    wanted          \* certificateCollection of the spec

vars == <<secret, tls, edits, faults, certs, serves, phase, read, wanted>>
envVars == <<secret, tls, edits>>

None0 == [n \in {} |-> n]

-----------------------------------------------------------------------------
(* getCertificateBundle *)

\* The chain: ca.crt or, if there is none, what follows the leaf in tls.crt.
Chain(c) == IF c.ca # <<>> THEN c.ca ELSE Tail(c.crt)

\* UniqueID: the digest stands for what it digests, the signatures of leaf and
\* chain.  (Faulty variant: of the leaf only.)
UniqueIDOfLeaf(c) == <<Head(c.crt)>>
UniqueID(c) == <<Head(c.crt)>> \o Chain(c)
Name(s, c) == <<s, UniqueID(c)>>

\* What goes to the load balancer: tls.crt as it is, ca.crt if there is one; a
\* chain found in tls.crt is not stored.
Details(c) == [public |-> c.crt, ca |-> c.ca]

\* tls.crt without a certificate: its first one is used before the error.
Malformed(c) == c.crt = <<>>

-----------------------------------------------------------------------------
(* Users and faults *)

EditSecret ==
    /\ edits < MaxEdits /\ edits' = edits + 1
    /\ \E s \in Secrets, c \in Contents : secret[s] # c /\ secret' = [secret EXCEPT ![s] = c]
    /\ UNCHANGED <<tls, faults, certs, serves, phase, read, wanted>>

\* An update works on the TLS entries it was called with.
EditTLS ==
    /\ phase = "idle" /\ read = None0
    /\ edits < MaxEdits /\ edits' = edits + 1
    /\ \E h \in Hosts, s \in Secrets : tls[h] # s /\ tls' = [tls EXCEPT ![h] = s]
    /\ UNCHANGED <<secret, faults, certs, serves, phase, read, wanted>>

Fault == faults < MaxFaults /\ faults' = faults + 1

\* The update is over, with an error, a panic or the end of the process.
Forget == phase' = "idle" /\ read' = None0 /\ wanted' = None0

Crash ==
    /\ phase # "idle"
    /\ Fault /\ Forget
    /\ UNCHANGED <<envVars, certs, serves>>

-----------------------------------------------------------------------------
(* One update *)

Init ==
    /\ secret \in [Secrets -> {c \in Contents : ~Malformed(c)}]
    /\ tls \in [Hosts -> Secrets]
    /\ edits = 0 /\ faults = 0
    /\ certs = None0 /\ serves = [h \in Hosts |-> None]
    /\ phase = "idle" /\ read = None0 /\ wanted = None0

\* getOrCreateSSLConfigDetails: of two secrets' contents with the same name,
\* the first stays.
Collect(name, c) ==
    IF name \in DOMAIN wanted THEN wanted
    ELSE [n \in DOMAIN wanted \cup {name} |-> IF n = name THEN Details(c) ELSE wanted[n]]
ReadSecret ==
    /\ phase = "idle"
    /\ \E h \in Hosts \ DOMAIN read :
        LET c == secret[tls[h]]
            name == Name(tls[h], c)
        IN  \/ /\ ~Malformed(c)
               /\ read' = [g \in DOMAIN read \cup {h} |->
                              IF g = h THEN <<name, Details(c)>> ELSE read[g]]
               /\ wanted' = Collect(name, c)
               /\ UNCHANGED <<phase, faults>>
            \/ Malformed(c) /\ Forget /\ UNCHANGED faults
            \/ Fault /\ Forget
    /\ UNCHANGED <<envVars, certs, serves>>

\* enqueueCertificateActions, before anything is done: the lists are made, and
\* a certificate to be updated is a panic.  (Faulty variant: none is created
\* for a secret that has one already.)
ToCreateOnce == {n \in DOMAIN wanted : \A m \in DOMAIN certs : m[1] # n[1]}
ToCreate == DOMAIN wanted \ DOMAIN certs
ToRemove == DOMAIN certs \ DOMAIN wanted
ToUpdate == {n \in DOMAIN certs \cap DOMAIN wanted : certs[n] # wanted[n]}
Enqueue ==
    /\ phase = "idle" /\ DOMAIN read = Hosts
    /\ IF ToUpdate # {} THEN Forget ELSE phase' = "pass1" /\ UNCHANGED <<read, wanted>>
    /\ UNCHANGED <<envVars, faults, certs, serves>>

\* UpdateListener for some hosts; OCI refuses a certificate it does not have.
Switched(hs) == [h \in Hosts |-> IF h \in hs THEN read[h][1] ELSE serves[h]]
Switchable == {h \in Hosts : read[h][1] \in DOMAIN certs}

\* The first pass gets somewhere, no matter where.
FirstPass ==
    /\ phase = "pass1"
    /\ \E hs \in SUBSET Switchable :
        /\ serves' = Switched(hs)
        /\ IF hs = Switchable THEN UNCHANGED faults ELSE Fault
    /\ phase' = "create"
    /\ UNCHANGED <<envVars, certs, read, wanted>>

CreateCertificate ==
    /\ phase = "create" /\ ToCreate # {}
    /\ \E n \in ToCreate :
        \/ /\ certs' = [m \in DOMAIN certs \cup {n} |-> IF m = n THEN wanted[n] ELSE certs[m]]
           /\ (UNCHANGED <<phase, read, wanted, faults>>) \/ (Fault /\ Forget)
        \/ Fault /\ Forget /\ UNCHANGED certs
    /\ UNCHANGED <<envVars, serves>>

\* The second pass does it or ends the update.
SecondPass ==
    /\ phase = "create" /\ ToCreate = {}
    /\ \E hs \in SUBSET Switchable :
        /\ serves' = Switched(hs)
        /\ IF hs = Hosts THEN phase' = "delete" /\ UNCHANGED <<read, wanted>> ELSE Forget
        /\ IF hs = Switchable THEN UNCHANGED faults ELSE Fault
    /\ UNCHANGED <<envVars, certs>>

\* OCI refuses to delete a certificate a listener has.
DeleteCertificate ==
    /\ phase = "delete" /\ ToRemove # {}
    /\ \E n \in ToRemove :
        LET used == \E h \in Hosts : serves[h] = n IN
        \/ /\ ~used
           /\ certs' = [m \in DOMAIN certs \ {n} |-> certs[m]]
           /\ (UNCHANGED <<phase, read, wanted, faults>>) \/ (Fault /\ Forget)
        \/ used /\ Forget /\ UNCHANGED <<certs, faults>>
        \/ Fault /\ Forget /\ UNCHANGED certs
    /\ UNCHANGED <<envVars, serves>>

Finish ==
    /\ phase = "delete" /\ ToRemove = {}
    /\ phase' = "done"
    /\ UNCHANGED <<envVars, faults, certs, serves, read, wanted>>
Return ==
    /\ phase = "done" /\ Forget
    /\ UNCHANGED <<envVars, faults, certs, serves>>

Step ==
    \/ ReadSecret \/ Enqueue \/ FirstPass \/ CreateCertificate \/ SecondPass
    \/ DeleteCertificate \/ Finish \/ Return
Next == EditSecret \/ EditTLS \/ Crash \/ Step

Spec == Init /\ [][Next]_vars

\* Secrets are watched and ingresses resynced: there is always another update.
FairSpec == Spec /\ WF_vars(Step)

-----------------------------------------------------------------------------
(* Properties *)

\* Leaf and chain that clients of a host are shown.
Shown(details) == <<Head(details.public)>> \o
    (IF details.ca # <<>> THEN details.ca ELSE Tail(details.public))

\* After an update that ends without an error every host shows the leaf and the
\* chain of its secret as the update found it, though hosts may have found
\* different ones, and no other certificate is left (manager.go:437-485).
SuccessMeansShown ==
    phase = "done" =>
        /\ \A h \in Hosts : Shown(certs[serves[h]]) = Shown(read[h][2])
        /\ DOMAIN certs = {serves[h] : h \in Hosts}

\* The secret's certificates cannot be put on the load balancer: there are none
\* in it, or a certificate of that name is there with other contents.
Stuck ==
    \E h \in Hosts :
        LET c == secret[tls[h]] IN
        \/ Malformed(c)
        \/ Name(tls[h], c) \in DOMAIN certs /\ certs[Name(tls[h], c)] # Details(c)

\* Once nothing changes and nothing fails, every host shows what is in its
\* secret and the load balancer has no other certificate, unless Stuck: then
\* every update panics (tls.go:131, manager.go:446-449).
EventuallyShown ==
    <>[](\/ Stuck
         \/ /\ \A h \in Hosts : /\ serves[h] \in DOMAIN certs
                                /\ certs[serves[h]] = Details(secret[tls[h]])
            /\ DOMAIN certs = {serves[h] : h \in Hosts})

\* "toBeUpdated (intersection list) should be empty always, as certificate name
\* consists of a hash derived from certificate contents" (manager.go:441).
NothingToUpdate == phase = "idle" /\ DOMAIN read = Hosts => ToUpdate = {}
=============================================================================
