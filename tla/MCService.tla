----------------------------- MODULE MCService ------------------------------
EXTENDS Service

MCHosts == <<"127.0.0.1 api">>
=============================================================================
