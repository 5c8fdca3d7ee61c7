------------------------- MODULE MCDesktopPlacement -------------------------
(* Two paths and two files cover rename, atomic replace, hard link and     *)
(* inode reuse.  Two connections beside main() cover an output change      *)
(* that races a placement.                                                 *)
EXTENDS DesktopPlacement, TLC

\* Nothing tells two paths, files, screens or connections apart.
Interchangeable ==
  Permutations(Paths) \cup Permutations(Ids) \cup Permutations(Outputs)
  \cup Permutations(Threads \ {Main})
=============================================================================
