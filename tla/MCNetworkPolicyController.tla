--------------------- MODULE MCNetworkPolicyController ---------------------
\* TLC instances of NetworkPolicyController.
EXTENDS NetworkPolicyController

Rule(isAll, from, on) == [all |-> isAll, peers |-> from, ports |-> on]
Ingress(selected, list) ==
    [sel |-> selected, dirs |-> {"in"}, rules |-> [d \in Dirs |-> IF d = "in" THEN list ELSE <<>>]]
Egress(selected, list) ==
    [sel |-> selected, dirs |-> {"out"}, rules |-> [d \in Dirs |-> IF d = "out" THEN list ELSE <<>>]]

\* q1 protects pod a and loses its first rule, q2 restricts the ports that a and b may
\* send to. Three ipsets in all.
OneDirection ==
    [q \in Policies |->
        IF q = "q1" THEN {Ingress({"a"}, <<Rule(FALSE, {"b"}, {80}), Rule(TRUE, {}, {443})>>),
                          Ingress({"a"}, <<Rule(TRUE, {}, {443})>>)}
        ELSE {Egress({"a", "b"}, <<Rule(TRUE, {}, {80})>>)}]

\* A policy that lets nothing in and lets the pods it selects send to each other.
BothDirections ==
    [q \in Policies |->
        {[sel |-> {"a", "b"}, dirs |-> Dirs,
          rules |-> [d \in Dirs |-> IF d = "out" THEN <<Rule(FALSE, {"a"}, {80})>> ELSE <<>>]]}]
=============================================================================
