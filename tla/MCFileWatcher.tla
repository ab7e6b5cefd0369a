---------------------------- MODULE MCFileWatcher ----------------------------
(* FileWatcher for TLC; the bounds are in the guards. *)
EXTENDS FileWatcher
=============================================================================
