-------------------------- MODULE MCChainSelection ---------------------------
(* A small instance of ChainSelection. *)
EXTENDS ChainSelection

Chains == {"local", "coston", "coston2"}

Set(vs, c) ==
  [v \in Variables |-> IF v \notin vs THEN Unset
                       ELSE IF v # "LOCAL_MODE" THEN c
                       ELSE IF c = "local" THEN "true" ELSE "false"]

\* For each chain: any part of what its template sets; and a template that
\* mixes two chains.
AllTemplates ==
  {Set(vs, c) : vs \in SUBSET Variables, c \in Chains}
    \cup {[Set(Variables, "coston") EXCEPT !["CHAIN_URL"] = "coston2"]}
=============================================================================
