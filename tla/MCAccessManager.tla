--------------------------- MODULE MCAccessManager ---------------------------
(* Small instances of AccessManager.  Each configuration turns one side of *)
(* the manager on: an empty set of names or commands, or a cap of zero, is *)
(* an instance of the same specification.                                  *)
EXTENDS AccessManager, TLC

\* Interchangeable callers, uuids, names and purposes.
Symmetry == Permutations(Agents) \cup Permutations(Users)
            \cup Permutations(Ids) \cup Permutations(GrantIds)
            \cup Permutations(Names) \cup Permutations(Purposes)
=============================================================================
