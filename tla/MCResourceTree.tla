--------------------------- MODULE MCResourceTree ---------------------------
(* Instances of ResourceTree and ResourceAccess: a under the root, c under   *)
(* a, and a row b yet to be created.  The user sees a, and c with it; the    *)
(* user's group what comes under b.                                          *)
EXTENDS ResourceAccess, TLC

CONSTANTS root, a, b, c, n1, n2

MCParent == [r \in Resources |->
  CASE r = a -> root [] r = c -> a [] OTHER -> None]
MCName == [r \in Resources |-> IF r = c THEN n2 ELSE n1]

MCEntry == [s \in Sources |-> [r \in Resources |->
  IF <<s, r>> \in {<<"user", a>>, <<"group", b>>} THEN "allows" ELSE "unset"]]
MCChangeable == {<<"global", a, "allows">>, <<"user", a, "unset">>}

Symmetric == Permutations(Handlers)
=============================================================================
