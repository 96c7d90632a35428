----------------------------- MODULE MCCatalog -----------------------------
EXTENDS Catalog

\* The parts share few rows: a behaviour works on products and prices, on
\* media and tax categories, or on the tree.
VARIABLE scene

MCVars == <<vars, scene>>

MCSeed == [v \in {"shirt-m"} |-> "shirt"]
MCInit == Init /\ scene \in {"tree", "shelf", "media"}

Kinds == {manager'[m].kind : m \in Managers} \cup {clerk'[k].kind : k \in Clerks}
Served == Cardinality({m \in Managers : manager'[m] # Away}) + Cardinality({k \in Clerks : clerk'[k] # Waiting})
InScene ==
    CASE scene = "tree"  -> UNCHANGED productVars
      [] scene = "shelf" -> /\ UNCHANGED <<treeVars, filed, filing>>
                            /\ Kinds \cap {"attach", "detach", "reorder", "tax"} = {}
                            /\ Served <= 2
      [] scene = "media" -> /\ UNCHANGED <<treeVars, filed, filing, clock>>
                            /\ Kinds \subseteq {"attach", "detach", "reorder", "tax", "away", "waiting"}

MCNext == Next /\ InScene /\ UNCHANGED scene
MCSpec == MCInit /\ [][MCNext]_MCVars
Alike == Permutations(Managers) \cup Permutations(Clerks) \cup Permutations(Editors)
            \cup Permutations(Categories)
=============================================================================
