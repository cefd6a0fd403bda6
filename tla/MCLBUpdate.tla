----------------------------- MODULE MCLBUpdate -----------------------------
(* Instances of LBUpdate: an ingress that becomes one of eleven others. *)
EXTENDS LBUpdate

CONSTANTS h1, h2, s1, s2, c1, c2, a1

ListenerNames ==
    Hosts \cup {NoHost, RedirectorName, "Sans-VirtualHost-HTTP", "DefaultBackend-http"}

\* Names that getSanitizedName tells apart, and names it does not: those of two
\* hosts like my-app-one.example.com and my-app-two.example.com.
Distinct == [n \in ListenerNames |-> n]
Colliding == [n \in ListenerNames |-> IF n = h2 THEN h1 ELSE n]

NoTLS == [h \in Hosts |-> None]
Base ==
    [rules |-> <<[host |-> h1, to |-> <<s1>>]>>, default |-> None, tls |-> NoTLS,
     redirect |-> TRUE, nodes |-> 0, shape |-> "fixed",
     address |-> None, internal |-> FALSE]
Rules(seq) == [Base EXCEPT !.rules = seq]
TLS(h, c) == [Base EXCEPT !.tls[h] = c]

\* One ingress per kind of change: another backend or host, nodes, the default
\* backend, TLS and its certificate, TLS for a host without rules, the shape, a
\* reserved address (along with a route) and that for an internal one.
Routes ==
    {Base,
     Rules(<<[host |-> h1, to |-> <<s2>>]>>),
     Rules(<<[host |-> h2, to |-> <<s2>>]>>),
     Rules(<<[host |-> h1, to |-> <<s1>>], [host |-> h2, to |-> <<s2, s1>>]>>)}
Rest == {[Base EXCEPT !.nodes = 1, !.internal = TRUE, !.default = s2]}
WithTLS ==
    {TLS(h1, c1), TLS(h1, c2), TLS(h2, c1)}
Reserved ==
    {[Base EXCEPT !.rules = <<>>, !.default = s2, !.address = a1],
     [Base EXCEPT !.internal = TRUE, !.address = a1]}
Shapes == {Base, [Base EXCEPT !.shape = "flexible"]}

\* TLS for a host that is new, too.
Securing ==
    {Base, [TLS(h2, c1) EXCEPT !.rules = @ \o <<[host |-> h2, to |-> <<s1>>]>>]}

All == Routes \cup Rest \cup WithTLS \cup Securing \cup Shapes \cup Reserved
=============================================================================
