----------------------------- MODULE MCRouting -----------------------------
EXTENDS Routing
=============================================================================
