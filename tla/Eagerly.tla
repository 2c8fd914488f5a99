------------------------------- MODULE Eagerly -------------------------------
(* Functions whose values TLC computes once, when they are built. *)
EXTENDS TLC, FiniteSetsExt

\* [i \in S |-> F(i)]
Each(S, F(_)) ==
    MapThenFoldSet(LAMBDA f, g : f @@ g, <<>>, LAMBDA i : i :> F(i),
                   LAMBDA rest : CHOOSE i \in rest : TRUE, S)
=============================================================================
