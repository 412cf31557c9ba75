--------------------------- MODULE ServiceOrder ---------------------------
(***************************************************************************)
(* The order in which a node starts its services (Node.getServiceOrder):   *)
(* the configured services, every one after its dependencies.              *)
(***************************************************************************)
EXTENDS Sequences, SequencesExt

\* The services that addToStack comes to from service s, in its order: first
\* those of its dependencies, then s.  A service is named again for every
\* other service that depends on it.
Visits(services, deps) ==
    LET visit[s \in services] ==
            FoldLeft(LAMBDA stack, d : stack \o visit[d], <<>>, deps[s]) \o <<s>>
    IN  visit

\* A service goes on the stack the first time addToStack comes to it.
OnceEach(names) ==
    FoldLeft(LAMBDA stack, s : IF Contains(stack, s) THEN stack ELSE Append(stack, s), <<>>, names)

\* getServiceOrder for the configured services, given as a sequence.
\* Every dependency is among them: the node throws otherwise, before it has
\* started anything.
GetServiceOrder(config, deps) ==
    LET visits == Visits(ToSet(config), deps)
    IN  OnceEach(FoldLeft(LAMBDA stack, s : stack \o visits[s], <<>>, config))

-----------------------------------------------------------------------------
\* What the node counts on: every service once, none before one it depends on.
OrderOf(order, services, deps) ==
    /\ \A s \in services : \E i \in DOMAIN order : order[i] = s
    /\ \A i, j \in DOMAIN order : order[i] = order[j] => i = j
    /\ \A i \in DOMAIN order : \A d \in ToSet(deps[order[i]]) :
            \E j \in DOMAIN order : j < i /\ order[j] = d
=============================================================================
