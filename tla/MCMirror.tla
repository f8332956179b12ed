------------------------------ MODULE MCMirror ------------------------------
(* Mirror with two people, one of them with a dot in the name, and a tree  *)
(* that a repository and a group both map to.                              *)
EXTENDS Mirror

CONSTANTS ana, dot, repo, group, tree, manual

OneTree == [s \in Sources |-> tree]
Manual  == {<<dot, tree>>, <<dot, manual>>}
Quoted  == {<<dot, tree>>}
=============================================================================
