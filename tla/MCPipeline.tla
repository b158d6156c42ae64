----------------------------- MODULE MCPipeline -----------------------------
(* A small instance of a model across two workers for TLC.                 *)
EXTENDS Pipeline

Two == 1..2
First == {1}

\* A long prompt and the first of it alone, to which the reply is another
\* second token than the prompt's: so a cache is read on from, cut back to
\* where two prompts part, and emptied.
LongAndShort == {<<1, 2, 1, 1>>, <<1>>}

\* One thing more than a load, two generations and a mishap: a second load;
\* another coordinator; or a third generation and a second mishap.
More ==
    {[is |-> "load", more |-> session.gen > 1],
     [is |-> "rival", more |-> \E w \in Contested : link[<<w, Rival>>] # "none"],
     [is |-> "longer", more |-> calls > 2 \/ mishaps > 1]}
OneMore == Cardinality({m \in More : m.more}) <= 1
=============================================================================
