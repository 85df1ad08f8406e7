---------------------------- MODULE MCSidecarJob ----------------------------
(***************************************************************************)
(* Jobs share nothing but the broker's map, which is keyed by id, so one   *)
(* job with every interleaving of its three processes is the instance that *)
(* matters.  Two frames of pipe let a progress frame and a terminal frame  *)
(* wait together, and let the pipe fill up.                                *)
(***************************************************************************)
EXTENDS SidecarJob
=============================================================================
