----------------------------- MODULE MCSession -----------------------------
(* Bounds are in the configuration files; see the README for why they do.  *)
EXTENDS Session
=============================================================================
