------------------------------ MODULE Accounts ------------------------------
(***************************************************************************)
(* What server/users.c promises of its table: a map from names to          *)
(* accounts, of limited size, that deletion never deprives of its last     *)
(* administrator.                                                          *)
(***************************************************************************)
EXTENDS Naturals, FiniteSets

CONSTANTS Name, Password

VARIABLES account,  \* account[n], for the names in use
          limit
vars == <<account, limit>>

Init == /\ account = [n \in {"admin"} |-> [pass |-> "admin", admin |-> TRUE]]
        /\ limit \in Nat \ {0}

Admins == {n \in DOMAIN account : account[n].admin}

\* The account of n becomes a; the others stay.
Put(n, a) ==
  account' = [m \in DOMAIN account \cup {n} |-> IF m = n THEN a ELSE account[m]]

Create(n, p) ==
  /\ n \notin DOMAIN account /\ Cardinality(DOMAIN account) < limit
  /\ Put(n, [pass |-> p, admin |-> FALSE])
  /\ UNCHANGED limit

Remove(n) ==
  /\ n \in DOMAIN account /\ Admins # {n}
  /\ account' = [m \in DOMAIN account \ {n} |-> account[m]]
  /\ UNCHANGED limit

SetPassword(n, p) ==
  /\ n \in DOMAIN account
  /\ Put(n, [pass |-> p, admin |-> account[n].admin])
  /\ UNCHANGED limit

SetAdmin(n, b) ==
  /\ n \in DOMAIN account
  /\ Put(n, [pass |-> account[n].pass, admin |-> b])
  /\ UNCHANGED limit

SetLimit(l) ==
  /\ l \in Nat \ {0} /\ l >= Cardinality(DOMAIN account)
  /\ limit' = l
  /\ UNCHANGED account

Next == \/ \E n \in Name : \/ \E p \in Password : Create(n, p) \/ SetPassword(n, p)
                           \/ Remove(n)
                           \/ \E b \in BOOLEAN : SetAdmin(n, b)
        \/ SetLimit(limit')

Spec == Init /\ [][Next]_vars
=============================================================================
