---------------------------- MODULE RoutingRules ----------------------------
(***************************************************************************)
(* The condition createRoutingRule makes of a path of an ingress, and the  *)
(* requests that satisfy it.                                               *)
(*                                                                         *)
(* A path is a sequence of characters without a meaning in URLs but for    *)
(* Star; what url.Parse refuses or decodes is left out.  A request has a   *)
(* path, a Host header (host and port, "" for none) and satisfies some of  *)
(* the predicates that users write themselves.                             *)
(***************************************************************************)
EXTENDS Naturals, Sequences, SequencesExt

CONSTANTS
    Characters,
    Star,           \* the character '*'
    Slash,          \* the character '/': paths of requests begin with it
    Predicates,     \* those that users write themselves
    Unnamed         \* "no host" and hosts with a wildcard: not in conditions

ASSUME CharactersAssumption == {Star, Slash} \subseteq Characters /\ Star # Slash

\* A path: its type and host; its text or, if it begins with "condition:", the
\* predicates it consists of and what is in front of them.
Quantifier == {"none", "all", "any", "not any", "not all"}
Path(hosts) ==
    [type : {"Exact", "Prefix", "ImplementationSpecific"}, text : Seq(Characters),
     host : hosts \cup Unnamed]
    \cup [type : {"condition"}, quantifier : Quantifier, predicates : SUBSET Predicates,
          host : hosts \cup Unnamed]
TextPath(type, text, host) == [type |-> type, text |-> text, host |-> host]
ConditionPath(quantifier, predicates, host) ==
    [type |-> "condition", quantifier |-> quantifier, predicates |-> predicates,
     host |-> host]

-----------------------------------------------------------------------------
(* Conditions: sets of predicates, all of which have to hold *)

Predicate(op, arg) == [op |-> op, arg |-> arg]

\* cw: somewhere in the path
Occurs(s, t) == \E k \in 0..Len(t) : IsPrefix(s, SubSeq(t, k + 1, Len(t)))

Holds(p, request) ==
    CASE p.op = "eq" -> request.path = p.arg
      [] p.op = "sw" -> IsPrefix(p.arg, request.path)
      [] p.op = "ew" -> IsSuffix(p.arg, request.path)
      [] p.op = "cw" -> Occurs(p.arg, request.path)
      [] p.op = "host" -> <<request.host, request.port>> \in p.arg
      [] p.op = "custom" -> p.arg \in request.satisfies
      [] p.op = "any" -> p.arg \cap request.satisfies # {}
      [] p.op = "not any" -> p.arg \cap request.satisfies = {}
      [] p.op = "not all" -> ~(p.arg \subseteq request.satisfies)

Satisfies(request, condition) == \A p \in condition : Holds(p, request)

-----------------------------------------------------------------------------
(* Paths with wildcards *)

Stars(text) == {k \in DOMAIN text : text[k] = Star}

\* One star between two texts, at the front, at the end; stars at both ends.
InMiddle(text) == \E k \in 2..Len(text) - 1 : Stars(text) = {k}
AtFront(text) == Len(text) > 1 /\ Stars(text) = {1}
AtEnd(text) == Len(text) > 1 /\ Stars(text) = {Len(text)}
AtBothEnds(text) ==
    \E i, j \in DOMAIN text : i + 1 < j /\ Stars(text) = DOMAIN text \ (i + 1)..(j - 1)

\* processImplementationSpecificPath: refuses "" and stars elsewhere.
Accepted(text) ==
    /\ text # <<>>
    /\ \/ Stars(text) = {}
       \/ InMiddle(text) \/ AtFront(text) \/ AtEnd(text) \/ AtBothEnds(text)

\* The text before and after a star.  (Faulty variant: one character is lost.)
Before(text, k) == SubSeq(text, 1, k - 1)
AfterNext(text, k) == SubSeq(text, k + 2, Len(text))
After(text, k) == SubSeq(text, k + 1, Len(text))

TextCondition(text) ==
    LET star == CHOOSE k \in Stars(text) : TRUE
        before == Predicate("sw", Before(text, star))
        after == Predicate("ew", After(text, star))
    IN  CASE Stars(text) = {} -> {Predicate("eq", text)}
          [] InMiddle(text) -> {before, after}
          [] AtFront(text) -> {after}
          [] AtEnd(text) -> {before}
          [] AtBothEnds(text) -> {Predicate("cw", SubSeq(text, 2, Len(text) - 1))}

-----------------------------------------------------------------------------
(* createRoutingRule *)

\* createHostnameCondition.
HostCondition(host) ==
    IF host \in Unnamed THEN {}
    ELSE {Predicate("host", {<<host, "">>, <<host, "443">>, <<host, "80">>})}

\* createDefaultBackendRoutingRule: every path.
DefaultCondition == {Predicate("sw", <<Slash>>)}

\* "any(...)", "not any(...)" and "not all(...)" replace the condition on the host, anything
\* else joins it.  (Faulty variant: whatever users write themselves replaces it.)
RuleConditionAlone(path) ==
    CASE path.type = "Exact" -> HostCondition(path.host) \cup {Predicate("eq", path.text)}
      [] path.type = "Prefix" -> HostCondition(path.host) \cup {Predicate("sw", path.text)}
      [] path.type = "ImplementationSpecific" ->
            HostCondition(path.host) \cup TextCondition(path.text)
      [] path.type = "condition" /\ path.quantifier \in {"none", "all"} ->
            {Predicate("custom", p) : p \in path.predicates}
      [] OTHER -> {Predicate(path.quantifier, path.predicates)}
RuleCondition(path) ==
    CASE path.type = "Exact" -> HostCondition(path.host) \cup {Predicate("eq", path.text)}
      [] path.type = "Prefix" -> HostCondition(path.host) \cup {Predicate("sw", path.text)}
      [] path.type = "ImplementationSpecific" ->
            HostCondition(path.host) \cup TextCondition(path.text)
      [] path.type = "condition" /\ path.quantifier \in {"none", "all"} ->
            HostCondition(path.host)
                \cup {Predicate("custom", p) : p \in path.predicates}
      [] OTHER -> {Predicate(path.quantifier, path.predicates)}
=============================================================================
