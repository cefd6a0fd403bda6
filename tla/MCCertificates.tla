---------------------------- MODULE MCCertificates ----------------------------
(* Instances of Certificates: a leaf that is renewed or signed by another CA, *)
(* with its chain in tls.crt or in ca.crt or nowhere, and no leaf at all.     *)
EXTENDS Certificates

CONSTANTS l1, l2, a1, a2

All ==
    {[crt |-> crt, ca |-> <<>>] : crt \in {<<>>, <<l1>>, <<l1, a1>>, <<l1, a2>>, <<l2, a1>>}}
        \cup {[crt |-> <<l1>>, ca |-> <<a1>>]}
=============================================================================
