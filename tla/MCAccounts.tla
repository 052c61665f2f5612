----------------------------- MODULE MCAccounts -----------------------------
(* An instance of Accounts for TLC: one browser, two requests under way,   *)
(* two addresses, one of them with two spellings, and two passwords.       *)
EXTENDS Accounts, TLC

CONSTANTS b1, s1, s2, ada, ADA, bob, pw1, pw2

Lowered == [e \in Spellings |-> IF e = ADA THEN ada ELSE e]

Symmetric == Permutations(Slots) \cup Permutations(Passwords)
=============================================================================
