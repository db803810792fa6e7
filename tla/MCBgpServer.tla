---------------------------- MODULE MCBgpServer ----------------------------
\* TLC instance of BgpServer: one other node, which may have no address.
EXTENDS BgpServer

MCNodeForms == {[ip |-> TRUE, asn |-> 1, rr |-> "none"], [ip |-> FALSE, asn |-> 1, rr |-> "none"]}

NoPeers == [kind |-> "none", ips |-> <<>>, asns |-> <<>>, optional |-> {}]
Listed(ips, asns) == [NoPeers EXCEPT !.kind = "listed", !.ips = ips, !.asns = asns]
Plain == [asn |-> 1, rr |-> "none", prepend |-> "none", peers |-> NoPeers]
MCOwnForms ==
    {[Plain EXCEPT !.peers = Listed(<<"x">>, <<"public">>)],
     [Plain EXCEPT !.peers = Listed(<<"x">>, <<"reserved">>), !.rr = "client"],
     [Plain EXCEPT !.peers = Listed(<<"x", "x">>, <<"public", "public">>)],
     [Plain EXCEPT !.prepend = "bad", !.rr = "server"],
     [Plain EXCEPT !.prepend = "prefixed", !.peers.kind = "unparsable"],
     [Plain EXCEPT !.asn = NoAsn]}
MCConfiguredPeers == <<>>
=============================================================================
