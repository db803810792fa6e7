--------------------------- MODULE MCFilterTable ---------------------------
\* TLC instances of FilterTable.
EXTENDS FilterTable

MCForwardRules == <<"pods-out", "pods-in">>
MCWhitelist == <<"cluster-ips", "node-ports">>
=============================================================================
