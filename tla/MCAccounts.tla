----------------------------- MODULE MCAccounts -----------------------------
(* Two callers, two user names, lists that add, drop, rotate, strip and repeat a user. *)
EXTENDS Accounts, TLC

Item(name, password, active, roles) ==
    [name |-> name, password |-> password, active |-> active, roles |-> roles]

Admin == Item("admin", None, TRUE, {"admin"})

MCNames == {"admin", "ann"}

MCLists ==
    {<<Admin, Item("ann", <<"ann", 1>>, TRUE, {"operator"})>>,
     <<Admin, Item("ann", None, FALSE, {"viewer"})>>,
     <<Item("admin", <<"admin", 2>>, TRUE, {"admin"})>>,
     <<Item("ann", <<"ann", 2>>, TRUE, {"admin"})>>,
     <<Item("ann", <<"ann", 1>>, TRUE, {}), Item("ann", None, TRUE, {})>>,
     <<Admin, Item("ann", None, TRUE, {"owner"})>>,
     <<Item("", None, TRUE, {})>>,
     <<>>}

ClientSymmetry == Permutations(Clients)
=============================================================================
