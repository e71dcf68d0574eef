---------------------------- MODULE MCOrganizations ----------------------------
(* Organizations for TLC: people, invitations and requests are alike.        *)
EXTENDS Organizations, TLC

Symmetry == Permutations(Users) \cup Permutations(Invites) \cup Permutations(Requests)
=============================================================================
