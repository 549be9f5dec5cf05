---------------------------- MODULE MCIssueStore ----------------------------
(* Small instances of IssueStore for TLC. *)
EXTENDS IssueStore, TLC

Symmetry ==
  Permutations(Keys) \cup Permutations(EventIds) \cup
  Permutations(Fingerprints) \cup Permutations(IssueIds)
=============================================================================
