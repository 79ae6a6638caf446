------------------------------ MODULE MCVoting ------------------------------
(* Small instances of Voting. *)
EXTENDS Voting, TLC

\* Delegates, choices and the requests of one kind are interchangeable.
Symmetry ==
  Permutations(Delegates) \union Permutations(Choices) \union Permutations(Casts)
    \union Permutations(Reveals)
=============================================================================
