------------------------------ MODULE MCBalance ------------------------------
(* Small instances of Balance: one or two slots, two accounts.             *)
EXTENDS Balance, TLC

(* Neither slots nor accounts are told apart by the specification.         *)
Symmetry == Permutations(Slots) \union Permutations(Accounts)
=============================================================================
