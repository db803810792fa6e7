-------------------------- MODULE MCRouteInjection --------------------------
\* TLC instances of RouteInjection.
EXTENDS RouteInjection
=============================================================================
