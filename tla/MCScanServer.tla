---------------------------- MODULE MCScanServer ----------------------------
(* Small instances of ScanServer for TLC.                                  *)
EXTENDS ScanServer, TLC

CONSTANTS h1, h2, h3

MCPosts == {h1, h2, h3}

Interchangeable == Permutations(MCPosts)
=============================================================================
