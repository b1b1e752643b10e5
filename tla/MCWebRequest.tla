---------------------------- MODULE MCWebRequest ----------------------------
EXTENDS WebRequest
=============================================================================
