---------------------------- MODULE MCTestHosts ----------------------------
EXTENDS TestHosts
=============================================================================
