----------------------------- MODULE UsersProofs -----------------------------
(***************************************************************************)
(* Proofs about server/users.c for every limit, command line and set of    *)
(* names: whatever the order of the commands, names stay unique, the array *)
(* fits, and `admins' counts the administrators.                           *)
(***************************************************************************)
EXTENDS Users, FunctionTheorems, FiniteSetTheorems, SequenceTheorems, TLAPS

TableType == /\ users \in Seq(User)
             /\ max_users \in Nat /\ args \in Seq(Option)

\* What holds whether or not words are cut.  The counter is decremented, so
\* its type rests on its meaning.
CInv == TableType /\ TableFits /\ AdminsCounted

\* The inductive invariant when no word is cut.
IInv == TableType /\ UniqueNames /\ TableFits /\ AdminsCounted

\* What a step owes to it beyond CInv.
KeepsNames == WordsFit /\ UniqueNames => UniqueNames'

\* A nonempty set of naturals has a least element.
LEMMA HasLeast ==
  ASSUME NEW S \in SUBSET Nat, S # {}
  PROVE  \E x \in S : \A y \in S : x <= y
<1>. DEFINE R == {rs \in Nat \X Nat : rs[1] < rs[2]}
<1>1. IsWellFoundedOn(R, Nat)
  BY NatLessThanWellFounded DEF OpToRel
<1>2. \E x \in S : \A y \in S : ~(<<y, x>> \in R)
  <2>. HIDE DEF R
  <2>. QED
    BY <1>1, WFMin, Zenon
<1>3. PICK x \in S : \A y \in S : ~(<<y, x>> \in R)
  BY <1>2
<1>4. \A y \in S : x <= y
  <2>1. ASSUME NEW y \in S
        PROVE  x <= y
    <3>1. x \in Nat /\ y \in Nat /\ ~(<<y, x>> \in R)
      BY <1>3
    <3>. QED
      BY <3>1
  <2>. QED
    BY <2>1
<1>. QED
  BY <1>4

LEMMA AdminsFinite ==
  ASSUME TableType
  PROVE  IsFiniteSet(AdminIndices) /\ Cardinality(AdminIndices) \in Nat
<1>1. cantUsers \in Nat
  BY LenProperties DEF TableType, cantUsers
<1>2. IsFiniteSet(1 .. cantUsers)
  BY <1>1, FS_Interval
<1>3. AdminIndices \in SUBSET (1 .. cantUsers)
  BY DEF AdminIndices
<1> QED BY <1>2, <1>3, FS_Subset, FS_CardinalityType

\* user_exists finds a slot with the name: the first of them.
LEMMA FoundOne ==
  ASSUME TableType, NEW name, Exists(name)
  PROVE  /\ user_exists(name) \in 1 .. cantUsers
         /\ users[user_exists(name)].name = name
         /\ users[user_exists(name)] \in User
<1>1. Found(name) \in SUBSET Nat /\ Found(name) # {}
  BY LenProperties DEF Found, Exists, TableType, cantUsers
<1>2. \E i \in Found(name) : \A j \in Found(name) : i <= j
  BY <1>1, HasLeast
<1>3. user_exists(name) \in Found(name)
  BY <1>2 DEF user_exists
<1>4. user_exists(name) \in 1 .. cantUsers /\ users[user_exists(name)].name = name
  BY <1>3 DEF Found
<1> QED BY <1>4, ElementOfSeq DEF TableType, cantUsers

-----------------------------------------------------------------------------
(* One lemma per function of users.c.                                      *)

\* An option of the command line that is accepted holds two words.
Words(name, pass) == CanCreate(name, pass) => name \in Name /\ pass \in Password

LEMMA NewUserCInv ==
  ASSUME CInv, NEW name, NEW pass, Words(name, pass),
         new_user(name, pass), args' \in Seq(Option)
  PROVE  CInv' /\ KeepsNames
<1>1. CASE ~CanCreate(name, pass)
  <2>1. UNCHANGED <<users, admins, max_users>>
    BY <1>1 DEF new_user
  <2> QED BY <2>1 DEF CInv, TableType, UniqueNames, TableFits, AdminsCounted,
                      AdminIndices, KeepsNames, cantUsers
<1>2. CASE CanCreate(name, pass)
  <2> DEFINE u == [name |-> Stored[name], pass |-> Stored[pass], status |-> COMMONER]
  <2>0. name \in Name /\ pass \in Password
    BY <1>2 DEF Words
  <2>1. users' = Append(users, u) /\ UNCHANGED <<admins, max_users>>
    BY <1>2 DEF new_user
  <2>2. u \in User /\ (WordsFit => u.name = name) /\ u.status = COMMONER
    BY <2>0, UsersAssumption DEF User, WordsFit
  <2> HIDE DEF u
  <2>3. users \in Seq(User) /\ Len(users) \in Nat
    BY LenProperties DEF CInv, TableType
  <2>4. /\ users' \in Seq(User) /\ Len(users') = Len(users) + 1
        /\ \A i \in 1 .. Len(users) : users'[i] = users[i]
        /\ users'[Len(users) + 1] = u
    BY <2>1, <2>2, <2>3, AppendProperties
  <2>5. \A i \in 1 .. Len(users) : users[i].name # name
    BY <1>2 DEF CanCreate, Exists, Found, cantUsers
  <2>6. KeepsNames
    <3> SUFFICES ASSUME WordsFit, UniqueNames,
                        NEW i \in 1 .. Len(users'), NEW j \in 1 .. Len(users'),
                        users'[i].name = users'[j].name
                 PROVE  i = j
      BY DEF KeepsNames, UniqueNames, cantUsers
    <3>1. i \in 1 .. Len(users) \/ i = Len(users) + 1
      BY <2>3, <2>4
    <3>2. j \in 1 .. Len(users) \/ j = Len(users) + 1
      BY <2>3, <2>4
    <3>3. CASE i \in 1 .. Len(users) /\ j \in 1 .. Len(users)
      BY <2>4, <3>3 DEF UniqueNames, cantUsers
    <3> QED BY <2>2, <2>4, <2>5, <3>1, <3>2, <3>3
  <2>7. TableFits'
    BY <1>2, <2>1, <2>3, <2>4 DEF CanCreate, TableFits, cantUsers, CInv, TableType
  <2>8. AdminIndices' = AdminIndices
    <3>1. 1 .. Len(users') = 1 .. Len(users) \cup {Len(users) + 1}
      BY <2>3, <2>4
    <3>2. users'[Len(users) + 1].status # ADMIN
      BY <2>2, <2>4 DEF ADMIN, COMMONER
    <3> QED BY <2>4, <3>1, <3>2 DEF AdminIndices, cantUsers
  <2> QED BY <2>1, <2>4, <2>6, <2>7, <2>8 DEF CInv, TableType, AdminsCounted, KeepsNames
<1> QED BY <1>1, <1>2

\* Replacing one element by another with the same name.
LEMMA ReplaceKeeps ==
  ASSUME CInv, NEW i \in 1 .. cantUsers, NEW u \in User, u.name = users[i].name,
         users' = [users EXCEPT ![i] = u], UNCHANGED <<max_users, args>>
  PROVE  /\ TableType' /\ TableFits' /\ (UniqueNames => UniqueNames')
         /\ AdminIndices' = IF u.status = ADMIN THEN AdminIndices \cup {i}
                            ELSE AdminIndices \ {i}
<1>1. /\ users' \in Seq(User) /\ Len(users') = Len(users)
      /\ \A j \in 1 .. Len(users) : users'[j] = IF j = i THEN u ELSE users[j]
  BY ExceptSeq DEF CInv, TableType, cantUsers
<1>2. \A j \in 1 .. Len(users) : users'[j].name = users[j].name
  BY <1>1
<1>3. TableType' /\ TableFits' /\ (UniqueNames => UniqueNames')
  BY <1>1, <1>2 DEF CInv, TableType, TableFits, UniqueNames, cantUsers
<1>4. AdminIndices' = IF u.status = ADMIN THEN AdminIndices \cup {i} ELSE AdminIndices \ {i}
  BY <1>1 DEF AdminIndices, cantUsers
<1> QED BY <1>3, <1>4

LEMMA ChangeStatusCInv ==
  ASSUME CInv, NEW name, NEW status \in {ADMIN, COMMONER}, change_status(name, status),
         UNCHANGED args
  PROVE  CInv' /\ KeepsNames
<1>1. CASE ~Exists(name)
  <2>1. UNCHANGED <<users, admins, max_users>>
    BY <1>1 DEF change_status
  <2> QED BY <2>1 DEF CInv, TableType, UniqueNames, TableFits, AdminsCounted,
                      AdminIndices, KeepsNames, cantUsers
<1>2. CASE Exists(name)
  <2> DEFINE i == user_exists(name)
             u == [users[i] EXCEPT !.status = status]
  <2>1. /\ users' = [users EXCEPT ![i].status = status]
        /\ admins' = AdminsAfter(users[i].status, status)
        /\ UNCHANGED max_users
    BY <1>2 DEF change_status
  <2>2. i \in 1 .. cantUsers /\ users[i] \in User
    BY <1>2, FoundOne DEF CInv
  <2>3. u \in User /\ u.name = users[i].name /\ u.status = status
    BY <2>2 DEF User
  <2>4. users' = [users EXCEPT ![i] = u]
    BY <2>1
  <2> HIDE DEF u, i
  <2>5. /\ TableType' /\ TableFits' /\ (UniqueNames => UniqueNames')
        /\ AdminIndices' = IF status = ADMIN THEN AdminIndices \cup {i}
                           ELSE AdminIndices \ {i}
    BY <2>1, <2>2, <2>3, <2>4, ReplaceKeeps
  <2>6. i \in AdminIndices <=> users[i].status = ADMIN
    BY <2>2 DEF AdminIndices
  <2>7. IsFiniteSet(AdminIndices) /\ admins = Cardinality(AdminIndices)
    BY AdminsFinite DEF CInv, AdminsCounted
  <2>8. Cardinality(AdminIndices \cup {i})
          = IF i \in AdminIndices THEN admins ELSE admins + 1
    BY <2>7, FS_AddElement
  <2>9. Cardinality(AdminIndices \ {i})
          = IF i \in AdminIndices THEN admins - 1 ELSE admins
    BY <2>7, FS_RemoveElement
  <2>10. AdminsCounted'
    BY <2>1, <2>5, <2>6, <2>8, <2>9 DEF AdminsCounted, AdminsAfter
  <2> QED BY <2>5, <2>10 DEF CInv, KeepsNames
<1> QED BY <1>1, <1>2

LEMMA ChangePasswordCInv ==
  ASSUME CInv, NEW name, NEW old, NEW new \in Password,
         change_password(name, old, new), UNCHANGED args
  PROVE  CInv' /\ KeepsNames
<1>1. CASE ~user_login(name, old)
  <2>1. UNCHANGED <<users, admins, max_users>>
    BY <1>1 DEF change_password
  <2> QED BY <2>1 DEF CInv, TableType, UniqueNames, TableFits, AdminsCounted,
                      AdminIndices, KeepsNames, cantUsers
<1>2. CASE user_login(name, old)
  <2> DEFINE i == user_exists(name)
             u == [users[i] EXCEPT !.pass = Stored[new]]
  <2>1. users' = [users EXCEPT ![i].pass = Stored[new]] /\ UNCHANGED <<admins, max_users>>
    BY <1>2 DEF change_password
  <2>2. i \in 1 .. cantUsers /\ users[i] \in User
    BY <1>2, FoundOne DEF CInv, user_login
  <2>3. u \in User /\ u.name = users[i].name /\ u.status = users[i].status
    BY <2>2, UsersAssumption DEF User
  <2>4. users' = [users EXCEPT ![i] = u]
    BY <2>1
  <2> HIDE DEF u, i
  <2>5. /\ TableType' /\ TableFits' /\ (UniqueNames => UniqueNames')
        /\ AdminIndices' = IF users[i].status = ADMIN THEN AdminIndices \cup {i}
                           ELSE AdminIndices \ {i}
    BY <2>1, <2>2, <2>3, <2>4, ReplaceKeeps
  <2>6. i \in AdminIndices <=> users[i].status = ADMIN
    BY <2>2 DEF AdminIndices
  <2>7. AdminIndices' = AdminIndices
    BY <2>5, <2>6
  <2> QED BY <2>1, <2>5, <2>7 DEF CInv, AdminsCounted, KeepsNames
<1> QED BY <1>1, <1>2

\* The shift drops user k and keeps the others in order.
LEMMA WithoutKeeps ==
  ASSUME CInv, NEW k \in 1 .. cantUsers, users' = Without(k),
         UNCHANGED <<max_users, args>>
  PROVE  /\ TableType' /\ TableFits' /\ (UniqueNames => UniqueNames')
         /\ Cardinality(AdminIndices') = Cardinality(AdminIndices \ {k})
<1> DEFINE old(j) == IF j < k THEN j ELSE j + 1
           n == Len(users)
<1>1. users \in Seq(User) /\ n \in Nat /\ k \in 1 .. n /\ n - 1 \in Nat
  BY LenProperties DEF CInv, TableType, cantUsers
<1>2. \A j \in 1 .. n - 1 : old(j) \in 1 .. n /\ old(j) # k
  BY <1>1
<1>3. \A i, j \in 1 .. n - 1 : old(i) = old(j) => i = j
  BY <1>1
<1>4. \A i \in 1 .. n : i # k => \E j \in 1 .. n - 1 : old(j) = i
  <2> SUFFICES ASSUME NEW i \in 1 .. n, i # k PROVE \E j \in 1 .. n - 1 : old(j) = i
    OBVIOUS
  <2>1. CASE i < k
    <3>1. i \in 1 .. n - 1 /\ old(i) = i
      BY <1>1, <2>1
    <3> QED BY <3>1
  <2>2. CASE i > k
    <3>1. i - 1 \in 1 .. n - 1 /\ old(i - 1) = i
      BY <1>1, <2>2
    <3> QED BY <3>1
  <2> QED BY <1>1, <2>1, <2>2
<1>5. users' = [j \in 1 .. n - 1 |-> users[old(j)]]
  BY DEF Without, cantUsers
<1> HIDE DEF old
<1>6. \A j \in 1 .. n - 1 : users[old(j)] \in User
  BY <1>1, <1>2, ElementOfSeq
<1>7. users' \in Seq(User) /\ Len(users') = n - 1
  <2>1. users' \in [1 .. n - 1 -> User]
    BY <1>5, <1>6
  <2>2. users' \in Seq(User)
    BY <1>1, <2>1, SeqDef
  <2> QED BY <1>1, <1>5, <2>2, LenProperties
<1>8. \A j \in 1 .. n - 1 : users'[j] = users[old(j)]
  BY <1>5
<1>9. TableType'
  BY <1>7 DEF CInv, TableType
<1>10. UniqueNames => UniqueNames'
  <2> SUFFICES ASSUME UniqueNames, NEW i \in 1 .. n - 1, NEW j \in 1 .. n - 1,
                      users'[i].name = users'[j].name
               PROVE  i = j
    BY <1>7 DEF UniqueNames, cantUsers
  <2>1. users'[i] = users[old(i)] /\ users'[j] = users[old(j)]
    BY <1>8
  <2>2. old(i) \in 1 .. cantUsers /\ old(j) \in 1 .. cantUsers
    BY <1>1, <1>2 DEF cantUsers
  <2>3. old(i) = old(j)
    BY <2>1, <2>2 DEF UniqueNames
  <2> QED BY <1>3, <2>3
<1>11. TableFits'
  BY <1>1, <1>7 DEF CInv, TableType, TableFits, cantUsers
<1>12. Cardinality(AdminIndices') = Cardinality(AdminIndices \ {k})
  <2> DEFINE f == [j \in AdminIndices' |-> old(j)]
  <2>1. AdminIndices' = {j \in 1 .. n - 1 : users[old(j)].status = ADMIN}
    BY <1>7, <1>8 DEF AdminIndices, cantUsers
  <2>2. f \in [AdminIndices' -> AdminIndices \ {k}]
    BY <1>2, <2>1 DEF AdminIndices, cantUsers
  <2>3. \A i, j \in AdminIndices' : f[i] = f[j] => i = j
    BY <1>3, <2>1
  <2>4. \A i \in AdminIndices \ {k} : \E j \in AdminIndices' : f[j] = i
    <3> SUFFICES ASSUME NEW i \in AdminIndices \ {k}
                 PROVE  \E j \in AdminIndices' : f[j] = i
      OBVIOUS
    <3>1. i \in 1 .. n /\ i # k /\ users[i].status = ADMIN
      BY DEF AdminIndices, cantUsers
    <3>2. PICK j \in 1 .. n - 1 : old(j) = i
      BY <1>4, <3>1
    <3> QED BY <2>1, <3>1, <3>2
  <2>5. f \in Bijection(AdminIndices', AdminIndices \ {k})
    BY <2>2, <2>3, <2>4, Fun_IsBij
  <2>6. IsFiniteSet(AdminIndices')
    <3>1. IsFiniteSet(1 .. n - 1)
      BY <1>1, FS_Interval
    <3>2. AdminIndices' \in SUBSET (1 .. n - 1)
      BY <2>1
    <3> QED BY <3>1, <3>2, FS_Subset
  <2> QED BY <2>5, <2>6, FS_Bijection DEF ExistsBijection
<1> QED BY <1>9, <1>10, <1>11, <1>12

LEMMA DeleteUserCInv ==
  ASSUME CInv, NEW name, delete_user(name), UNCHANGED args
  PROVE  CInv' /\ KeepsNames
<1> DEFINE k == user_exists(name)
<1>1. CASE ~(Exists(name) /\ ~(users[k].status = ADMIN /\ admins = 1))
  <2>1. UNCHANGED <<users, admins, max_users>>
    BY <1>1 DEF delete_user
  <2> QED BY <2>1 DEF CInv, TableType, UniqueNames, TableFits, AdminsCounted,
                      AdminIndices, KeepsNames, cantUsers
<1>2. CASE Exists(name) /\ ~(users[k].status = ADMIN /\ admins = 1)
  <2>1. /\ users' = Without(k)
        /\ admins' = IF users[k].status = ADMIN THEN admins - 1 ELSE admins
        /\ UNCHANGED max_users
    BY <1>2 DEF delete_user
  <2>2. k \in 1 .. cantUsers
    BY <1>2, FoundOne DEF CInv
  <2> HIDE DEF k
  <2>3. /\ TableType' /\ TableFits' /\ (UniqueNames => UniqueNames')
        /\ Cardinality(AdminIndices') = Cardinality(AdminIndices \ {k})
    BY <2>1, <2>2, WithoutKeeps
  <2>4. IsFiniteSet(AdminIndices) /\ admins = Cardinality(AdminIndices)
    BY AdminsFinite DEF CInv, AdminsCounted
  <2>5. Cardinality(AdminIndices \ {k}) = IF k \in AdminIndices THEN admins - 1 ELSE admins
    BY <2>4, FS_RemoveElement
  <2>6. k \in AdminIndices <=> users[k].status = ADMIN
    BY <2>2 DEF AdminIndices
  <2>7. AdminsCounted'
    BY <2>1, <2>3, <2>5, <2>6 DEF AdminsCounted
  <2> QED BY <2>3, <2>7 DEF CInv, KeepsNames
<1> QED BY <1>1, <1>2

-----------------------------------------------------------------------------

LEMMA InitIInv == Init => IInv
<1> SUFFICES ASSUME Init PROVE IInv
  OBVIOUS
<1> DEFINE u == [name |-> "admin", pass |-> "admin", status |-> ADMIN]
<1>1. users = <<u>> /\ admins = 1 /\ max_users = DefaultMax /\ args \in CommandLines
  BY DEF Init
<1>2. u \in User /\ u.status = ADMIN
  BY UsersAssumption DEF User
<1> HIDE DEF u
<1>3. users \in Seq(User) /\ Len(users) = 1 /\ users[1] = u
  BY <1>1, <1>2
<1>4. TableType /\ TableFits
  BY <1>1, <1>3, UsersAssumption DEF TableType, TableFits, cantUsers
<1>5. UniqueNames
  BY <1>3 DEF UniqueNames, cantUsers
<1>6. AdminIndices = {1}
  BY <1>2, <1>3 DEF AdminIndices, cantUsers
<1> QED BY <1>1, <1>4, <1>5, <1>6, FS_Singleton DEF IInv, AdminsCounted

LEMMA NextCInv == CInv /\ [Next]_vars => CInv' /\ KeepsNames
<1> SUFFICES ASSUME CInv, [Next]_vars PROVE CInv' /\ KeepsNames
  OBVIOUS
<1>1. args \in Seq(Option)
  BY DEF CInv, TableType
<1>2. CASE main_new_user
  <2>1. /\ args # <<>> /\ args' = Tail(args)
        /\ new_user(Head(args)[1], Head(args)[2])
    BY <1>2 DEF main_new_user
  <2>2. Head(args) \in Option /\ args' \in Seq(Option)
    BY <1>1, <2>1, HeadTailProperties
  <2>3. Words(Head(args)[1], Head(args)[2])
    BY <2>2 DEF Option, Words, CanCreate
  <2> QED BY <2>1, <2>2, <2>3, NewUserCInv
<1>3. ASSUME NEW n \in Name, NEW p \in Password, handle_add_user(n, p) PROVE CInv' /\ KeepsNames
  <2>1. new_user(n, p) /\ args' = args
    BY <1>3 DEF handle_add_user, Serving
  <2> QED BY <1>1, <2>1, NewUserCInv DEF Words
<1>4. ASSUME NEW n \in Name, handle_delete_user(n) PROVE CInv' /\ KeepsNames
  BY <1>4, DeleteUserCInv DEF handle_delete_user, Serving
<1>5. ASSUME NEW n \in Name, NEW p \in Password, NEW q \in Password,
             handle_change_pass(n, p, q)
      PROVE  CInv' /\ KeepsNames
  BY <1>5, ChangePasswordCInv DEF handle_change_pass, Serving
<1>6. ASSUME NEW n \in Name, NEW status \in {ADMIN, COMMONER},
             handle_change_status(n, status)
      PROVE  CInv' /\ KeepsNames
  BY <1>6, ChangeStatusCInv DEF handle_change_status, Serving
<1>7. ASSUME NEW l \in Limits, NEW granted \in BOOLEAN, handle_set_max_users(l, granted)
      PROVE  CInv' /\ KeepsNames
  <2>1. /\ UNCHANGED <<users, admins, args>>
        /\ max_users' = l \/ max_users' = max_users
        /\ l > 0 /\ l >= cantUsers
    BY <1>7 DEF handle_set_max_users, CanSetMax, Serving
  <2>2. l \in Nat
    BY <2>1, UsersAssumption
  <2> QED BY <2>1, <2>2 DEF CInv, TableType, UniqueNames, TableFits, AdminsCounted,
                            AdminIndices, KeepsNames, cantUsers
<1>8. CASE UNCHANGED vars
  BY <1>8 DEF vars, CInv, TableType, UniqueNames, TableFits, AdminsCounted,
              AdminIndices, KeepsNames, cantUsers
<1> QED BY <1>2, <1>3, <1>4, <1>5, <1>6, <1>7, <1>8 DEF Next

LEMMA NextIInv == WordsFit /\ IInv /\ [Next]_vars => IInv'
  BY NextCInv DEF IInv, CInv, KeepsNames

LEMMA AlwaysCInv == Spec => []CInv
<1>1. Init => CInv
  BY InitIInv DEF IInv, CInv
<1> QED BY <1>1, NextCInv, PTL DEF Spec

LEMMA AlwaysIInv == ASSUME WordsFit PROVE Spec => []IInv
  BY InitIInv, NextIInv, PTL DEF Spec

LEMMA CInvTypeOK == CInv => TypeOK
<1> SUFFICES ASSUME CInv PROVE TypeOK
  OBVIOUS
<1>1. admins \in Nat
  BY AdminsFinite DEF CInv, AdminsCounted
<1> QED BY <1>1 DEF CInv, TableType, TypeOK

LEMMA IInvTypeOK == IInv => TypeOK
  BY CInvTypeOK DEF IInv, CInv

\* For every limit and every set of names, those that are cut included, the
\* counter that guards the last administrator is right after any commands;
\* so are the types: it never goes below zero.
THEOREM AdminsAlwaysCounted == Spec => [](AdminsCounted /\ TypeOK)
<1>1. CInv => AdminsCounted
  BY DEF CInv
<1> QED BY <1>1, CInvTypeOK, AlwaysCInv, PTL

\* For every order of creations, deletions and changes no name is twice in
\* the array, so a lookup that stops at the first match finds the account.
THEOREM NamesAlwaysUnique ==
  ASSUME WordsFit PROVE Spec => []UniqueNames
<1>1. IInv => UniqueNames
  BY DEF IInv
<1> QED BY <1>1, AlwaysIInv, PTL

\* For every sequence of limits the array stays within what was allocated.
THEOREM TableAlwaysFits == Spec => []TableFits
<1>1. CInv => TableFits
  BY DEF CInv
<1> QED BY <1>1, AlwaysCInv, PTL

-----------------------------------------------------------------------------
(* The array implements a map from names to accounts.                      *)

\* What slot i says of its user, and that AccountOf finds it.
Entry(i) == [pass |-> users[i].pass, admin |-> users[i].status = ADMIN]
Mapped == \A i \in 1 .. cantUsers : AccountOf(users[i].name) = Entry(i)

LEMMA IInvMapped == IInv => Mapped
<1> SUFFICES ASSUME IInv, NEW i \in 1 .. cantUsers
             PROVE  AccountOf(users[i].name) = Entry(i)
  BY DEF Mapped
<1>1. Exists(users[i].name)
  BY DEF Exists, Found
<1>2. /\ user_exists(users[i].name) \in 1 .. cantUsers
      /\ users[user_exists(users[i].name)].name = users[i].name
  BY <1>1, FoundOne DEF IInv
<1>3. user_exists(users[i].name) = i
  BY <1>2 DEF IInv, UniqueNames
<1> QED BY <1>3 DEF AccountOf, Entry

\* Names being unique, there are as many of them as slots in use.
LEMMA NamesCounted ==
  ASSUME IInv
  PROVE  Cardinality(Names) = cantUsers
<1> DEFINE f == [i \in 1 .. cantUsers |-> users[i].name]
<1>1. cantUsers \in Nat
  BY LenProperties DEF IInv, TableType, cantUsers
<1>2. f \in [1 .. cantUsers -> Names]
  BY DEF Names
<1>3. \A i, j \in 1 .. cantUsers : f[i] = f[j] => i = j
  BY DEF IInv, UniqueNames
<1>4. \A n \in Names : \E i \in 1 .. cantUsers : f[i] = n
  BY DEF Names
<1>5. f \in Bijection(1 .. cantUsers, Names)
  BY <1>2, <1>3, <1>4, Fun_IsBij
<1>6. IsFiniteSet(1 .. cantUsers) /\ Cardinality(1 .. cantUsers) = cantUsers
  BY <1>1, FS_Interval
<1> QED BY <1>5, <1>6, FS_Bijection DEF ExistsBijection

\* A change of slot i, or its creation, changes the account of its name only.
LEMMA SlotPut ==
  ASSUME Mapped, Mapped', NEW i \in 1 .. cantUsers', NEW n, users'[i].name = n,
         \A j \in 1 .. cantUsers' : j # i => j \in 1 .. cantUsers /\ users'[j] = users[j],
         \A j \in 1 .. cantUsers : j # i => j \in 1 .. cantUsers' /\ users'[j] = users[j],
         \A j \in 1 .. cantUsers' : users'[j].name = n => j = i,
         i \in 1 .. cantUsers => users[i].name = n,
         NEW a, a = [pass |-> users'[i].pass, admin |-> users'[i].status = ADMIN]
  PROVE  A!Put(n, a)
<1>1. Names' = Names \cup {n}
  BY DEF Names
<1>2. ASSUME NEW m \in Names', m # n
      PROVE  AccountOf(m)' = AccountOf(m) /\ m \in Names
  <2>1. PICK j \in 1 .. cantUsers' : users'[j].name = m
    BY DEF Names
  <2>2. j # i
    BY <1>2, <2>1
  <2>3. j \in 1 .. cantUsers /\ users'[j] = users[j]
    BY <2>2
  <2>4. AccountOf(m)' = Entry(j)'
    BY <2>1 DEF Mapped
  <2>5. AccountOf(m) = Entry(j)
    BY <2>1, <2>3 DEF Mapped
  <2>6. Entry(j)' = Entry(j)
    BY <2>3 DEF Entry
  <2>7. m \in Names
    BY <2>1, <2>3 DEF Names
  <2> QED BY <2>4, <2>5, <2>6, <2>7
<1>3. AccountOf(n)' = a
  BY DEF Mapped, Entry
<1> QED BY <1>1, <1>2, <1>3 DEF A!Put

LEMMA SameTable ==
  ASSUME UNCHANGED <<users, max_users>>
  PROVE  UNCHANGED A!vars
<1>1. Names' = Names /\ \A n : AccountOf(n)' = AccountOf(n)
  BY DEF Names, AccountOf, user_exists, Found, cantUsers
<1> QED BY <1>1 DEF A!vars

LEMMA SameCardinality == \A S : A!Cardinality(S) = Cardinality(S)
  BY Zenon DEF A!Cardinality, Cardinality

LEMMA NewUserRefines ==
  ASSUME WordsFit, IInv, IInv', NEW name, NEW pass, Words(name, pass),
         new_user(name, pass)
  PROVE  (name \in Name /\ pass \in Password /\ A!Create(name, pass)) \/ UNCHANGED A!vars
<1>1. CASE ~CanCreate(name, pass)
  BY <1>1, SameTable DEF new_user
<1>2. CASE CanCreate(name, pass)
  <2> DEFINE u == [name |-> name, pass |-> pass, status |-> COMMONER]
             n == cantUsers
  <2>0. name \in Name /\ pass \in Password
    BY <1>2 DEF Words
  <2>1. users' = Append(users, u) /\ max_users' = max_users
    BY <1>2, <2>0 DEF new_user, WordsFit
  <2>2. /\ u \in User /\ u.name = name
        /\ u.pass = pass /\ u.status # ADMIN
    BY <2>0 DEF User, ADMIN, COMMONER
  <2> HIDE DEF u
  <2>3. n \in Nat /\ users \in Seq(User)
    BY LenProperties DEF IInv, TableType, cantUsers
  <2>4. /\ cantUsers' = n + 1 /\ users'[n + 1] = u
        /\ \A j \in 1 .. n : users'[j] = users[j]
    BY <2>1, <2>2, <2>3, AppendProperties DEF cantUsers
  <2>5. n + 1 \in 1 .. cantUsers'
    BY <2>3, <2>4
  <2>6. \A j \in 1 .. cantUsers' : j # n + 1 => j \in 1 .. cantUsers /\ users'[j] = users[j]
    BY <2>3, <2>4
  <2>7. \A j \in 1 .. cantUsers : j # n + 1 => j \in 1 .. cantUsers' /\ users'[j] = users[j]
    BY <2>3, <2>4
  <2>8. \A j \in 1 .. cantUsers' : users'[j].name = name => j = n + 1
    BY <2>2, <2>4, <2>5 DEF IInv, UniqueNames
  <2>9. n + 1 \notin 1 .. cantUsers
    BY <2>3
  <2>10. Mapped /\ Mapped'
    BY IInvMapped, PTL
  <2>11. A!Put(name, [pass |-> pass, admin |-> FALSE])
    <3> HIDE DEF n
    <3>1. (u.status = ADMIN) = FALSE
      BY <2>2, Zenon
    <3>2. [pass |-> pass, admin |-> FALSE]
            = [pass |-> users'[n + 1].pass, admin |-> users'[n + 1].status = ADMIN]
      BY <2>2, <2>4, <3>1, Zenon
    <3>3. users'[n + 1].name = name
      BY <2>2, <2>4
    <3> QED BY <2>5, <2>6, <2>7, <2>8, <2>9, <2>10, <3>2, <3>3, SlotPut
  <2>12. name \notin Names /\ Cardinality(Names) < max_users
    BY <1>2, NamesCounted DEF CanCreate, Exists, Found, Names
  <2> QED BY <2>0, <2>1, <2>11, <2>12, SameCardinality DEF A!Create
<1> QED BY <1>1, <1>2

\* An account replaced where it stands.
LEMMA ReplacePuts ==
  ASSUME IInv, IInv', NEW i \in 1 .. cantUsers, NEW u \in User, NEW n,
         users[i].name = n, u.name = n, users' = [users EXCEPT ![i] = u]
  PROVE  A!Put(n, [pass |-> u.pass, admin |-> u.status = ADMIN])
<1>1. /\ cantUsers' = cantUsers /\ users'[i] = u
      /\ \A j \in 1 .. cantUsers : j # i => users'[j] = users[j]
  BY ExceptSeq DEF IInv, TableType, cantUsers
<1>2. Mapped /\ Mapped'
  BY IInvMapped, PTL
<1>3. \A j \in 1 .. cantUsers' : users'[j].name = n => j = i
  BY <1>1 DEF IInv, UniqueNames
<1> QED BY <1>1, <1>2, <1>3, SlotPut

LEMMA ChangeStatusRefines ==
  ASSUME IInv, IInv', NEW name \in Name, NEW status \in {ADMIN, COMMONER},
         change_status(name, status)
  PROVE  A!SetAdmin(name, status = ADMIN) \/ UNCHANGED A!vars
<1>1. CASE ~Exists(name)
  BY <1>1, SameTable DEF change_status
<1>2. CASE Exists(name)
  <2> DEFINE i == user_exists(name)
             u == [users[i] EXCEPT !.status = status]
  <2>1. users' = [users EXCEPT ![i] = u] /\ max_users' = max_users
    BY <1>2 DEF change_status
  <2>2. i \in 1 .. cantUsers /\ users[i] \in User /\ users[i].name = name
    BY <1>2, FoundOne DEF IInv
  <2>3. u \in User /\ u.name = name /\ u.status = status /\ u.pass = users[i].pass
    BY <2>2 DEF User
  <2> HIDE DEF u, i
  <2>4. A!Put(name, [pass |-> u.pass, admin |-> u.status = ADMIN])
    BY <2>1, <2>2, <2>3, ReplacePuts
  <2>5. name \in Names
    BY <2>2 DEF Names
  <2>6. AccountOf(name) = Entry(i)
    BY <2>2, IInvMapped DEF Mapped
  <2>7. AccountOf(name).pass = users[i].pass
    BY <2>6 DEF Entry
  <2> QED BY <2>1, <2>3, <2>4, <2>5, <2>7 DEF A!SetAdmin
<1> QED BY <1>1, <1>2

LEMMA ChangePasswordRefines ==
  ASSUME WordsFit, IInv, IInv', NEW name \in Name, NEW old, NEW new \in Password,
         change_password(name, old, new)
  PROVE  A!SetPassword(name, new) \/ UNCHANGED A!vars
<1>1. CASE ~user_login(name, old)
  BY <1>1, SameTable DEF change_password
<1>2. CASE user_login(name, old)
  <2> DEFINE i == user_exists(name)
             u == [users[i] EXCEPT !.pass = new]
  <2>1. users' = [users EXCEPT ![i] = u] /\ max_users' = max_users
    BY <1>2 DEF change_password, WordsFit
  <2>2. i \in 1 .. cantUsers /\ users[i] \in User /\ users[i].name = name
    BY <1>2, FoundOne DEF IInv, user_login
  <2>3. u \in User /\ u.name = name /\ u.pass = new /\ u.status = users[i].status
    BY <2>2 DEF User
  <2> HIDE DEF u, i
  <2>4. A!Put(name, [pass |-> u.pass, admin |-> u.status = ADMIN])
    BY <2>1, <2>2, <2>3, ReplacePuts
  <2>5. name \in Names
    BY <2>2 DEF Names
  <2>6. AccountOf(name) = Entry(i)
    BY <2>2, IInvMapped DEF Mapped
  <2>7. AccountOf(name).admin = (users[i].status = ADMIN)
    <3>1. Entry(i).admin = (users[i].status = ADMIN)
      BY DEF Entry
    <3> QED BY <2>6, <3>1
  <2> QED BY <2>1, <2>3, <2>4, <2>5, <2>7 DEF A!SetPassword
<1> QED BY <1>1, <1>2

\* The only administrator is not deleted, and a deletion takes one name.
LEMMA DeleteUserRefines ==
  ASSUME IInv, IInv', NEW name \in Name, delete_user(name), UNCHANGED args
  PROVE  A!Remove(name) \/ UNCHANGED A!vars
<1> DEFINE k == user_exists(name)
<1>1. CASE ~(Exists(name) /\ ~(users[k].status = ADMIN /\ admins = 1))
  BY <1>1, SameTable DEF delete_user
<1>2. CASE Exists(name) /\ ~(users[k].status = ADMIN /\ admins = 1)
  <2> DEFINE n == Len(users)
  <2>1. users' = Without(k) /\ max_users' = max_users
    BY <1>2 DEF delete_user
  <2>2. k \in 1 .. n /\ users[k].name = name
    BY <1>2, FoundOne DEF IInv, cantUsers
  <2>3. n \in Nat /\ n - 1 \in Nat
    BY <2>2, LenProperties DEF IInv, TableType
  <2> HIDE DEF k
  <2>4. /\ users' = [j \in 1 .. n - 1 |-> IF j < k THEN users[j] ELSE users[j + 1]]
        /\ users' \in Seq(User)
    BY <2>1 DEF Without, cantUsers, IInv, TableType
  <2>5. cantUsers' = n - 1
    <3>1. DOMAIN users' = 1 .. Len(users') /\ Len(users') \in Nat
      BY <2>4, LenProperties
    <3> QED BY <2>3, <2>4, <3>1 DEF cantUsers
  <2>6. ASSUME NEW j \in 1 .. n - 1
        PROVE  \E i \in 1 .. n : i # k /\ users'[j] = users[i]
    <3>1. CASE j < k
      BY <2>2, <2>3, <2>4, <3>1
    <3>2. CASE ~(j < k)
      BY <2>2, <2>3, <2>4, <3>2
    <3> QED BY <3>1, <3>2
  <2>7. ASSUME NEW i \in 1 .. n, i # k
        PROVE  \E j \in 1 .. n - 1 : users'[j] = users[i]
    <3>1. CASE i < k
      <4>1. i \in 1 .. n - 1 /\ users'[i] = users[i]
        BY <2>2, <2>3, <2>4, <3>1
      <4> QED BY <4>1
    <3>2. CASE i > k
      <4>1. i - 1 \in 1 .. n - 1 /\ ~(i - 1 < k) /\ (i - 1) + 1 = i
        BY <2>2, <2>3, <3>2
      <4>2. users'[i - 1] = users[i]
        BY <2>4, <4>1
      <4> QED BY <4>1, <4>2
    <3> QED BY <2>2, <2>7, <3>1, <3>2
  <2>8. \A i \in 1 .. n : users[i].name = name <=> i = k
    BY <2>2 DEF IInv, UniqueNames, cantUsers
  <2>9. Mapped /\ Mapped'
    BY IInvMapped, PTL
  <2>10. Names' = Names \ {name}
    <3>1. Names' = {users'[j].name : j \in 1 .. n - 1}
      BY <2>5 DEF Names
    <3>2. Names = {users[i].name : i \in 1 .. n}
      BY DEF Names, cantUsers
    <3>3. ASSUME NEW m \in Names' PROVE m \in Names \ {name}
      <4>1. PICK j \in 1 .. n - 1 : users'[j].name = m
        BY <3>1
      <4>2. PICK i \in 1 .. n : i # k /\ users'[j] = users[i]
        BY <2>6
      <4> QED BY <2>8, <3>2, <4>1, <4>2
    <3>4. ASSUME NEW m \in Names \ {name} PROVE m \in Names'
      <4>1. PICK i \in 1 .. n : users[i].name = m
        BY <3>2
      <4>2. i # k
        BY <2>8, <4>1
      <4>3. PICK j \in 1 .. n - 1 : users'[j] = users[i]
        BY <2>7, <4>2
      <4> QED BY <3>1, <4>1, <4>3
    <3> QED BY <3>3, <3>4
  <2>11. ASSUME NEW m \in Names'
         PROVE  AccountOf(m)' = AccountOf(m)
    <3>1. PICK j \in 1 .. n - 1 : users'[j].name = m
      BY <2>5 DEF Names
    <3>2. PICK i \in 1 .. n : users'[j] = users[i]
      BY <2>6
    <3>3. AccountOf(m)' = [pass |-> users'[j].pass, admin |-> users'[j].status = ADMIN]
      BY <2>5, <2>9, <3>1 DEF Mapped, Entry
    <3>4. AccountOf(m) = [pass |-> users[i].pass, admin |-> users[i].status = ADMIN]
      BY <2>9, <3>1, <3>2 DEF Mapped, Entry, cantUsers
    <3> QED BY <3>2, <3>3, <3>4
  <2>12. A!Admins # {name}
    <3> SUFFICES ASSUME A!Admins = {name} PROVE FALSE
      OBVIOUS
    <3>1. A!Admins = {m \in Names : AccountOf(m).admin}
      BY DEF A!Admins
    <3>2. ASSUME NEW i \in 1 .. n
          PROVE  AccountOf(users[i].name).admin <=> users[i].status = ADMIN
      <4>1. AccountOf(users[i].name) = Entry(i)
        BY <2>9 DEF Mapped, cantUsers
      <4>2. Entry(i).admin <=> users[i].status = ADMIN
        BY DEF Entry
      <4> QED BY <4>1, <4>2
    <3>3. \A i \in 1 .. n : users[i].status = ADMIN <=> i = k
      <4> SUFFICES ASSUME NEW i \in 1 .. n PROVE users[i].status = ADMIN <=> i = k
        OBVIOUS
      <4>1. users[i].name \in Names
        BY DEF Names, cantUsers
      <4>2. users[i].status = ADMIN <=> users[i].name \in A!Admins
        BY <3>1, <3>2, <4>1
      <4> QED BY <2>8, <4>2
    <3>4. AdminIndices = {k}
      BY <2>2, <3>3 DEF AdminIndices, cantUsers
    <3>5. admins = 1
      BY <3>4, FS_Singleton DEF IInv, AdminsCounted
    <3> QED BY <1>2, <2>2, <3>3, <3>5
  <2>13. name \in Names
    BY <2>2 DEF Names, cantUsers
  <2> QED BY <2>1, <2>10, <2>11, <2>12, <2>13 DEF A!Remove
<1> QED BY <1>1, <1>2

\* Every command is one operation on the map, or does nothing to it.
LEMMA StepRefines == WordsFit /\ IInv /\ IInv' /\ [Next]_vars => [A!Next]_A!vars
<1> SUFFICES ASSUME WordsFit, IInv, IInv', [Next]_vars PROVE [A!Next]_A!vars
  OBVIOUS
<1>1. CASE main_new_user
  <2>1. args # <<>> /\ args \in Seq(Option)
    BY <1>1 DEF main_new_user, IInv, TableType
  <2>2. Head(args) \in Option
    BY <2>1, HeadTailProperties
  <2>3. Words(Head(args)[1], Head(args)[2])
    BY <2>2 DEF Option, Words, CanCreate
  <2>4. new_user(Head(args)[1], Head(args)[2])
    BY <1>1 DEF main_new_user
  <2> QED BY <2>3, <2>4, NewUserRefines DEF A!Next
<1>2. ASSUME NEW n \in Name, NEW p \in Password, handle_add_user(n, p)
      PROVE  [A!Next]_A!vars
  BY <1>2, NewUserRefines DEF handle_add_user, A!Next, Words
<1>3. ASSUME NEW n \in Name, handle_delete_user(n)
      PROVE  [A!Next]_A!vars
  BY <1>3, DeleteUserRefines DEF handle_delete_user, Serving, A!Next
<1>4. ASSUME NEW n \in Name, NEW p \in Password, NEW q \in Password,
             handle_change_pass(n, p, q)
      PROVE  [A!Next]_A!vars
  BY <1>4, ChangePasswordRefines DEF handle_change_pass, A!Next
<1>5. ASSUME NEW n \in Name, NEW status \in {ADMIN, COMMONER},
             handle_change_status(n, status)
      PROVE  [A!Next]_A!vars
  <2>1. A!SetAdmin(n, status = ADMIN) \/ UNCHANGED A!vars
    BY <1>5, ChangeStatusRefines DEF handle_change_status
  <2>2. (status = ADMIN) \in BOOLEAN
    OBVIOUS
  <2> QED BY <2>1, <2>2 DEF A!Next
<1>6. ASSUME NEW l \in Limits, handle_set_max_users(l, TRUE)
      PROVE  [A!Next]_A!vars
  <2>1. /\ max_users' = l /\ l > 0 /\ l >= cantUsers /\ users' = users
    BY <1>6 DEF handle_set_max_users, CanSetMax
  <2>2. max_users' \in Nat \ {0} /\ max_users' >= Cardinality(Names)
    BY <2>1, NamesCounted, UsersAssumption
  <2>3. Names' = Names /\ \A n : AccountOf(n)' = AccountOf(n)
    BY <2>1 DEF Names, AccountOf, user_exists, Found, cantUsers
  <2>4. A!SetLimit(max_users')
    BY <2>2, <2>3, SameCardinality DEF A!SetLimit
  <2> QED BY <2>4 DEF A!Next
<1>7. ASSUME NEW l \in Limits, handle_set_max_users(l, FALSE)
      PROVE  [A!Next]_A!vars
  BY <1>7, SameTable DEF handle_set_max_users, Serving
<1>8. CASE UNCHANGED vars
  BY <1>8, SameTable DEF vars
<1> QED BY <1>1, <1>2, <1>3, <1>4, <1>5, <1>6, <1>7, <1>8 DEF Next

\* The array with its counters implements a map of limited size from names
\* to accounts: every call changes one account and keeps the others, and
\* none deletes the last administrator.
THEOREM UsersImplementAccounts ==
  ASSUME WordsFit PROVE Spec => ImplementsAccounts
<1>1. Init => A!Init
  <2> SUFFICES ASSUME Init PROVE A!Init
    OBVIOUS
  <2>1. IInv
    BY InitIInv
  <2>2. cantUsers = 1 /\ users[1].name = "admin" /\ users[1].pass = "admin"
        /\ users[1].status = ADMIN
    BY DEF Init, cantUsers
  <2>3. Names = {"admin"}
    BY <2>2 DEF Names
  <2>4. AccountOf("admin") = Entry(1)
    BY <2>1, <2>2, IInvMapped DEF Mapped
  <2>5. Entry(1) = [pass |-> "admin", admin |-> TRUE]
    BY <2>2 DEF Entry
  <2>6. max_users \in Nat \ {0}
    BY UsersAssumption DEF Init
  <2> QED BY <2>3, <2>4, <2>5, <2>6 DEF A!Init
<1> QED BY <1>1, AlwaysIInv, StepRefines, PTL DEF Spec, ImplementsAccounts, A!Spec
=============================================================================
