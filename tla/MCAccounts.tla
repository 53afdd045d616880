----------------------------- MODULE MCAccounts -----------------------------
(* Values for TLC: two spellings of one address and another one; a name that *)
(* looks like a numbered slug of the other; two workspaces of one account,   *)
(* named like its first one.                                                 *)
EXTENDS Accounts, TLC

CONSTANTS r1, acme

MCCanon == ("Ali" :> "ali") @@ ("ali" :> "ali") @@ ("bo" :> "bo")
MCOrgName == {<<acme>>, <<acme, 1>>}
MCOwner == [w \in Creation |-> r1]
MCNamed == [w \in Creation |-> General]
=============================================================================
