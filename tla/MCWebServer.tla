----------------------------- MODULE MCWebServer -----------------------------
EXTENDS WebServer
=============================================================================
