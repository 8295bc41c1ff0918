---------------------------- MODULE MCTaskPlugins ----------------------------
(* Small instances of PluginRequests for TLC; the configurations give the sets. *)
EXTENDS PluginRequests, TLC
=============================================================================
