---------------------------- MODULE MCThreadPool ----------------------------
(* Instances of ThreadPool for TLC; two runs, each with its own .cfg. *)
EXTENDS ThreadPool
=============================================================================
