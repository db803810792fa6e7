------------------------------ MODULE MCIpset ------------------------------
\* TLC instances of Ipset: one set of nodes, two of the service proxy, the second of
\* which is read after the first is refreshed and may have changed by then, and a
\* policy set of the same type as the nodes'.
EXTENDS Ipset

MCNodeSets == <<"nodes">>
MCServiceSets == <<"locals", "services">>
MCPolicySets == {"policy"}
MCOptionsOf == [s \in {"nodes", "locals", "services", "policy"} |-> IF s = "services" THEN "ipport" ELSE "ip"]
MCSources == [nodes |-> {{1}}, locals |-> {{1}}, services |-> {{1}, {2}}, policy |-> {NoSet, {2}}]
=============================================================================
