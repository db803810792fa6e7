--------------------- MODULE MCNetworkServicesController ---------------------
\* TLC instance of NetworkServicesController.
EXTENDS NetworkServicesController
=============================================================================
