------------------------------- MODULE Users --------------------------------
(***************************************************************************)
(* The table of accounts of server/users.c, filled by main.c from the      *)
(* command line and then changed by the commands of server/manager.c, in   *)
(* any order: each runs to its end on the loop's only thread.              *)
(***************************************************************************)
EXTENDS Integers, Sequences, FiniteSets

CONSTANTS
  Name, Password,  \* words: "admin" is one of each
  Empty,           \* the word of no characters
  Stored,          \* Stored[w]: what strncpy keeps of a word in MAX_LENGTH bytes
  DefaultMax,      \* max_users at start-up, and MAX_USERS of args.c; 10
  CommandLines,    \* the -u options: sequences of <<name, password>>
  Limits           \* what SET-MAX-USERS is asked for (a bound)

Option == (Name \cup {Empty}) \X (Password \cup {Empty})

ASSUME UsersAssumption ==
  /\ "admin" \in Name /\ "admin" \in Password
  /\ Empty \notin Name /\ Empty \notin Password
  /\ \A n \in Name : Stored[n] \in Name
  /\ \A p \in Password : Stored[p] \in Password
  /\ Stored["admin"] = "admin"
  /\ DefaultMax \in Nat \ {0}
  /\ \A a \in CommandLines : a \in Seq(Option) /\ Len(a) <= DefaultMax
  /\ Limits \subseteq Int

VARIABLES
  users,      \* the array, in order; cantUsers is its length
  admins,
  max_users,
  args        \* -u options main has still to create

vars == <<users, admins, max_users, args>>

ADMIN == 1
COMMONER == 0

cantUsers == Len(users)

\* init_users: no administrator yet, so "admin" with password "admin".
Init ==
  /\ users = <<[name |-> "admin", pass |-> "admin", status |-> ADMIN]>>
  /\ admins = 1 /\ max_users = DefaultMax
  /\ args \in CommandLines

-----------------------------------------------------------------------------
(* users.c.                                                                *)

\* The indices of name: user_exists is -1 when there is none and otherwise
\* the first.
Found(name) == {i \in 1 .. cantUsers : users[i].name = name}
Exists(name) == Found(name) # {}
user_exists(name) == CHOOSE i \in Found(name) : \A j \in Found(name) : i <= j

user_login(name, pass) == Exists(name) /\ users[user_exists(name)].pass = pass

\* Mutant: the name is not looked up.
CanCreate_NoLookup(name, pass) == name # Empty /\ pass # Empty /\ cantUsers < max_users

\* The name is looked up as it was given, and not as it will be stored.
CanCreate(name, pass) ==
  name # Empty /\ pass # Empty /\ ~Exists(name) /\ cantUsers < max_users

new_user(name, pass) ==
  /\ users' = IF CanCreate(name, pass)
              THEN Append(users, [name |-> Stored[name], pass |-> Stored[pass],
                                  status |-> COMMONER])
              ELSE users
  /\ UNCHANGED <<admins, max_users>>

\* Mutants: a demotion is not counted; the old status is not looked at.
AdminsAfter_Up(old, new) == IF old # ADMIN /\ new = ADMIN THEN admins + 1 ELSE admins
AdminsAfter_Blind(old, new) == IF new = ADMIN THEN admins + 1 ELSE admins - 1

AdminsAfter(old, new) ==
  CASE old = ADMIN /\ new # ADMIN -> admins - 1
    [] old # ADMIN /\ new = ADMIN -> admins + 1
    [] OTHER -> admins

\* Nothing when there is no such user, or the status is the old one.
change_status(name, status) ==
  /\ IF Exists(name)
     THEN LET i == user_exists(name)
          IN /\ users' = [users EXCEPT ![i].status = status]
             /\ admins' = AdminsAfter(users[i].status, status)
     ELSE UNCHANGED <<users, admins>>
  /\ UNCHANGED max_users

change_password(name, old, new) ==
  /\ users' = IF user_login(name, old)
              THEN [users EXCEPT ![user_exists(name)].pass = Stored[new]] ELSE users
  /\ UNCHANGED <<admins, max_users>>

\* Mutant: the shift starts one slot late and drops the wrong user.
Without_Late(i) == [j \in 1 .. cantUsers - 1 |-> IF j <= i THEN users[j] ELSE users[j + 1]]

\* Each user after i moves down one slot.
Without(i) == [j \in 1 .. cantUsers - 1 |-> IF j < i THEN users[j] ELSE users[j + 1]]

\* The only administrator cannot be deleted.
delete_user(name) ==
  /\ IF Exists(name) /\ ~(users[user_exists(name)].status = ADMIN /\ admins = 1)
     THEN LET i == user_exists(name)
          IN /\ users' = Without(i)
             /\ admins' = IF users[i].status = ADMIN THEN admins - 1 ELSE admins
     ELSE UNCHANGED <<users, admins>>
  /\ UNCHANGED max_users

-----------------------------------------------------------------------------
(* main.c: the users of the command line, before the loop begins.          *)

main_new_user ==
  /\ args # <<>>
  /\ new_user(Head(args)[1], Head(args)[2])
  /\ args' = Tail(args)

(* manager.c: the commands of a session that has logged in.                *)

Serving == args = <<>> /\ UNCHANGED args

handle_add_user(name, pass) == Serving /\ new_user(name, pass)

handle_delete_user(name) == Serving /\ delete_user(name)

\* name is the session's own, as it was when it logged in.
handle_change_pass(name, old, new) == Serving /\ change_password(name, old, new)

handle_change_status(name, status) == Serving /\ change_status(name, status)

\* Mutant: the number of users is not looked at.
CanSetMax_Any(l) == l > 0

CanSetMax(l) == l > 0 /\ l >= cantUsers

\* granted: realloc finds memory for the array of the new size.
handle_set_max_users(l, granted) ==
  /\ Serving /\ CanSetMax(l)
  /\ max_users' = IF granted THEN l ELSE max_users
  /\ UNCHANGED <<users, admins>>

-----------------------------------------------------------------------------
Next ==
  \/ main_new_user
  \/ \E n \in Name, p \in Password : handle_add_user(n, p)
  \/ \E n \in Name : handle_delete_user(n)
  \/ \E n \in Name, p, q \in Password : handle_change_pass(n, p, q)
  \/ \E n \in Name, status \in {ADMIN, COMMONER} : handle_change_status(n, status)
  \/ \E l \in Limits, granted \in BOOLEAN : handle_set_max_users(l, granted)

Spec == Init /\ [][Next]_vars

-----------------------------------------------------------------------------
User == [name : Name, pass : Password, status : {ADMIN, COMMONER}]

TypeOK == /\ users \in Seq(User)
          /\ admins \in Nat /\ max_users \in Nat
          /\ args \in Seq(Option)

\* The array never outgrows what malloc and realloc gave it, although the
\* limit and the number of users change independently.
TableFits == cantUsers <= max_users

\* No word is too long to be stored whole.
WordsFit == \A w \in Name \cup Password : Stored[w] = w

\* Every lookup by name can take the first match: there is no other.  That
\* is so only while names fit: of two accounts asked for by one long name
\* both are created, and both are stored under its first MAX_LENGTH bytes.
UniqueNames == \A i, j \in 1 .. cantUsers : users[i].name = users[j].name => i = j

\* The counter that guards the last administrator is right after any order
\* of promotions, demotions and deletions.
AdminIndices == {i \in 1 .. cantUsers : users[i].status = ADMIN}
AdminsCounted == admins = Cardinality(AdminIndices)

\* The array, read as a map from names, is what Accounts promises: each call
\* changes one account and keeps the others, through the shift of a deletion
\* too, and deleting leaves an administrator if there was one.
Names == {users[i].name : i \in 1 .. cantUsers}
AccountOf(n) == LET u == users[user_exists(n)]
                IN [pass |-> u.pass, admin |-> u.status = ADMIN]
A == INSTANCE Accounts WITH account <- [n \in Names |-> AccountOf(n)],
                            limit <- max_users
ImplementsAccounts == A!Spec
=============================================================================
