-------------------------- MODULE MCNodeLifecycle --------------------------
(* A node with silubiumd, web and insight-api, which needs both of them. *)
EXTENDS NodeLifecycle, ServiceOrder

CONSTANTS silubiumd, web, insight

MCServices == {silubiumd, web, insight}
\* The dependencies of each service as its module lists them.
Dependencies == [s \in MCServices |-> IF s = insight THEN <<silubiumd, web>> ELSE <<>>]
MCDependsOn == [s \in MCServices |-> ToSet(Dependencies[s])]
\* The order of a configuration that names insight-api before one it depends on.
MCOrder == <<silubiumd, web, insight>>
ASSUME OrderOfConfiguration == MCOrder = GetServiceOrder(<<silubiumd, insight, web>>, Dependencies)

\* getServiceOrder for every configuration of three services and all their
\* acyclic dependencies.
Lists(S) == UNION {{l \in [1..n -> S] : \A i, j \in 1..n : l[i] = l[j] => i = j} : n \in 0..Cardinality(S)}
Acyclic == {deps \in [MCServices -> Lists(MCServices)] :
    \E rank \in [MCServices -> 1..3] : \A s \in MCServices : \A d \in ToSet(deps[s]) : rank[d] < rank[s]}
ASSUME OrderIsRight ==
    \A config \in {l \in Lists(MCServices) : Cardinality(DOMAIN l) = 3} : \A deps \in Acyclic :
        OrderOf(GetServiceOrder(config, deps), MCServices, deps)
=============================================================================
