--------------------------- MODULE MCGroupAllowlist ---------------------------
(* GroupAllowlist for TLC: groups, handlers and commands are interchangeable. *)
EXTENDS GroupAllowlist, TLC

Symmetry == Permutations(Group) \union Permutations(Handler)
              \union Permutations(Admin)
==============================================================================
