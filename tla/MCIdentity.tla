----------------------------- MODULE MCIdentity -----------------------------
EXTENDS Identity
MCInitialGrants == ("clerk" :> {"order:cancel"}) @@ ("lead" :> {})
MCPatches == {"marketingEmail" :> TRUE}
Alike == Permutations(Actors) \cup Permutations(Customers)
=============================================================================
