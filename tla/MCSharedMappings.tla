-------------------------- MODULE MCSharedMappings -------------------------
(* The instance of MCCopyOnWrite with one shared memory entry.             *)
EXTENDS SharedMappings
=============================================================================
