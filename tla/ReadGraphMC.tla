----------------------------- MODULE ReadGraphMC -----------------------------
(* Small instances of ReadGraph: three files, every graph whose files hold *)
(* one of a few dependency lists (chains, cycles, self-dependencies, a     *)
(* shared dependency), every set of unreadable files, and calls that name  *)
(* no root, one root, two roots and the same root twice.                   *)
EXTENDS ReadGraph

CONSTANTS a, b, c

MCFiles == {a, b, c}

MCDepLists == {<<>>, <<a, b>>, <<b, c>>}

MCRootLists == {<<>>, <<a>>, <<a, a>>, <<a, c>>}
=============================================================================
