---------------------------- MODULE MCHeaderText ----------------------------
(* HeaderText with one web server task. *)
EXTENDS HeaderText

CONSTANT w
=============================================================================
