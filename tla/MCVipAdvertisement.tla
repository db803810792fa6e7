------------------------- MODULE MCVipAdvertisement -------------------------
\* TLC instances of VipAdvertisement.
EXTENDS VipAdvertisement

Svc(vips, isLocal) == [adv |-> vips, noadv |-> {}, ext |-> vips, local |-> isLocal]

\* s1 is advertised only from nodes with a local endpoint and gains and loses an
\* external IP that s2 has, too.
SharedVip ==
    [s \in Services |-> IF s = "s1" THEN {Svc({"v1"}, TRUE), Svc({"v1", "v2"}, TRUE)}
                       ELSE {Svc({"v2"}, FALSE)}]

\* One service that comes and goes.
OneLocal == [s \in Services |-> {Svc({"v1"}, TRUE)}]

\* The endpoints of s2, which is advertised from every node, are never looked at.
EpsOfLocal == [s \in Services |-> IF s = "s1" THEN {"local", "remote", "missing"} ELSE {"local"}]
EpsPresent == [s \in Services |-> {"local", "remote"}]
=============================================================================
