-------------------------- MODULE MCWorkspaceRestore --------------------------
(***************************************************************************)
(* WorkspaceRestore for TLC: a directory, a nested one with a file and     *)
(* an excluded entry, and an entry with a volatile name; each may be any   *)
(* kind of entry.                                                          *)
(***************************************************************************)
EXTENDS WorkspaceRestore

CONSTANTS src, lib, main, build, git

MCPaths ==
  {<<src>>, <<src, lib>>, <<src, lib, main>>, <<src, lib, git>>, <<build>>,
   <<build, main>>}

=============================================================================
