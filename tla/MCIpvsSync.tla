----------------------------- MODULE MCIpvsSync -----------------------------
\* TLC instances of IpvsSync.
EXTENDS IpvsSync

Form(c, isNode, externalIPs, loadBalancerIPs, isLocal, isDsr) ==
    [cip |-> c, node |-> isNode, ext |-> externalIPs \cup loadBalancerIPs,
     externalIPs |-> externalIPs, local |-> isLocal, dsr |-> isDsr]

\* s1 turns into a DSR service and back, its address being an external or, under DSR,
\* also a load balancer IP; s2 is a local service with a node port and a load
\* balancer IP.
DsrAndLocal ==
    [s \in Services |->
        IF s = "s1" THEN {Form("c1", FALSE, {"x1"}, {}, FALSE, FALSE),
                          Form("c1", FALSE, {"x1"}, {}, FALSE, TRUE),
                          Form("c1", FALSE, {}, {"x1"}, FALSE, TRUE)}
        ELSE {Form("c2", TRUE, {}, {"x2"}, TRUE, FALSE)}]
=============================================================================
