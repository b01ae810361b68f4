----------------------------- MODULE LeaseDomain -----------------------------
(* What the lease of a workspace is about.                                 *)

CONSTANTS Owners,   \* server processes of one provider
          Tools,    \* tool children
          Paths,    \* names of workspaces
          Dirs,     \* directory objects
          NoDir,    \* none
          Opens,    \* open file descriptions of lock files
          NoOpen    \* none

ASSUME ProcessAssumption == Owners \cap Tools = {}
ASSUME NothingAssumption ==
  NoDir \notin Dirs \cup [path : Paths, token : Dirs] /\ NoOpen \notin Opens
================================================================================
