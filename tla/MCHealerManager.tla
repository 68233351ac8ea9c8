-------------------------- MODULE MCHealerManager ---------------------------
(***************************************************************************)
(* Symmetry for HealerManager: an identity is chosen among those nobody    *)
(* knows, which are all alike.                                             *)
(***************************************************************************)
EXTENDS HealerManager, TLC

Symmetry == Permutations(Resolvers) \union Permutations(Healers) \union Permutations(Pubs)
=============================================================================
