---------------------------- MODULE AccessProofs ----------------------------
(***************************************************************************)
(* Proofs about the strings of server/users.c and shared/logger.c, for any *)
(* number of accounts, connections and strings, any lines and any failures *)
(* of malloc: who owns a string, and what it holds.                        *)
(***************************************************************************)
EXTENDS Access, UsersProofs

Array == users \in Seq(User) /\ args \in Seq(Option)

\* The strings of H belong to the slots of ac, one to one slot at most.
OneOwner(ac, H) ==
  /\ H = {ac[i] : i \in 1 .. Len(ac)} \ {NULL}
  /\ \A i, j \in 1 .. Len(ac) : ac[i] = ac[j] /\ ac[i] # NULL => i = j

Slot == Builder \cup {NULL}

OInv == /\ Array
        /\ process = "up" => /\ access \in Seq(Slot) /\ Len(access) = cantUsers
                             /\ OneOwner(access, DOMAIN heap)
        /\ process = "down" => DOMAIN heap = {}

-----------------------------------------------------------------------------
(* The array of accounts, whether or not names are unique.                 *)

\* user_exists finds a slot of the array.
LEMMA FirstFound ==
  ASSUME Array, NEW name, Exists(name)
  PROVE  user_exists(name) \in 1 .. cantUsers /\ users[user_exists(name)] \in User
<1>. DEFINE S == Found(name)
<1>1. cantUsers \in Nat
  BY LenProperties DEF Array, cantUsers
<1>2. S \subseteq 1 .. cantUsers /\ S \subseteq Nat /\ S # {}
  BY <1>1 DEF Found, Exists
<1>6. \E x \in S : \A y \in S : x <= y
  <2>. HIDE DEF S
  <2>. QED
    BY <1>2, HasLeast
<1>7. user_exists(name) \in S
  <2>1. user_exists(name) = CHOOSE i \in S : \A j \in S : i <= j
    BY DEF user_exists
  <2>. HIDE DEF S
  <2>. QED
    BY <1>6, <2>1
<1>8. user_exists(name) \in 1 .. cantUsers
  BY <1>2, <1>7
<1>. QED
  BY <1>8, ElementOfSeq DEF Array, cantUsers

\* A call of new_user makes the array one longer, or leaves it alone.
LEMMA NewUserArray ==
  ASSUME Array, NEW name \in Name \cup {Empty}, NEW pass \in Password \cup {Empty},
         new_user(name, pass)
  PROVE  /\ users' \in Seq(User)
         /\ Len(users') = IF CanCreate(name, pass) THEN Len(users) + 1 ELSE Len(users)
<1>1. CASE CanCreate(name, pass)
  <2>. DEFINE u == [name |-> Stored[name], pass |-> Stored[pass], status |-> COMMONER]
  <2>1. name \in Name /\ pass \in Password
    BY <1>1 DEF CanCreate
  <2>2. u \in User
    BY <2>1, UsersAssumption DEF User
  <2>3. users' = Append(users, u)
    BY <1>1 DEF new_user
  <2>. HIDE DEF u
  <2>. QED
    BY <1>1, <2>2, <2>3, AppendProperties DEF Array
<1>2. CASE ~CanCreate(name, pass)
  BY <1>2 DEF new_user, Array
<1>. QED
  BY <1>1, <1>2

LEMMA ChangeUserArray ==
  ASSUME Array, ChangeUser
  PROVE  /\ Array' /\ cantUsers' = cantUsers
         /\ \A i \in 1 .. cantUsers : users'[i].name = users[i].name
<1>1. ASSUME NEW i \in 1 .. cantUsers, NEW u \in User, u.name = users[i].name,
             users' = [users EXCEPT ![i] = u]
      PROVE  /\ users' \in Seq(User) /\ Len(users') = Len(users)
             /\ \A j \in 1 .. Len(users) : users'[j].name = users[j].name
  <2>1. /\ users' \in Seq(User) /\ Len(users') = Len(users)
        /\ \A j \in 1 .. Len(users) : users'[j] = IF j = i THEN u ELSE users[j]
    BY <1>1, ExceptSeq DEF Array, cantUsers
  <2>. QED
    BY <1>1, <2>1
<1>2. CASE \E n \in Name, p, q \in Password : handle_change_pass(n, p, q)
  <2>1. PICK n \in Name, p \in Password, q \in Password : handle_change_pass(n, p, q)
    BY <1>2
  <2>2. CASE user_login(n, p)
    <3>. DEFINE i == user_exists(n)
                u == [users[i] EXCEPT !.pass = Stored[q]]
    <3>1. i \in 1 .. cantUsers /\ users[i] \in User
      BY <2>2, FirstFound DEF user_login
    <3>2. Stored[q] \in Password
      BY <2>1, UsersAssumption
    <3>3. u \in User /\ u.name = users[i].name
      BY <3>1, <3>2 DEF User
    <3>4. users' = [users EXCEPT ![i] = u] /\ args' = args
      BY <2>1, <2>2 DEF handle_change_pass, change_password, Serving
    <3>. HIDE DEF i, u
    <3>. QED
      BY <1>1, <3>1, <3>3, <3>4 DEF Array, cantUsers
  <2>3. CASE ~user_login(n, p)
    <3>1. users' = users /\ args' = args
      BY <2>1, <2>3 DEF handle_change_pass, change_password, Serving
    <3>. QED
      BY <3>1 DEF Array, cantUsers
  <2>. QED
    BY <2>2, <2>3
<1>3. CASE \E n \in Name, status \in {ADMIN, COMMONER} : handle_change_status(n, status)
  <2>1. PICK n \in Name, status \in {ADMIN, COMMONER} : handle_change_status(n, status)
    BY <1>3
  <2>2. CASE Exists(n)
    <3>. DEFINE i == user_exists(n)
                u == [users[i] EXCEPT !.status = status]
    <3>1. i \in 1 .. cantUsers /\ users[i] \in User
      BY <2>2, FirstFound
    <3>2. u \in User /\ u.name = users[i].name
      BY <2>1, <3>1 DEF User
    <3>3. users' = [users EXCEPT ![i] = u] /\ args' = args
      BY <2>1, <2>2 DEF handle_change_status, change_status, Serving
    <3>. HIDE DEF i, u
    <3>. QED
      BY <1>1, <3>1, <3>2, <3>3 DEF Array, cantUsers
  <2>3. CASE ~Exists(n)
    <3>1. users' = users /\ args' = args
      BY <2>1, <2>3 DEF handle_change_status, change_status, Serving
    <3>. QED
      BY <3>1 DEF Array, cantUsers
  <2>. QED
    BY <2>2, <2>3
<1>4. CASE \E l \in Limits, granted \in BOOLEAN : handle_set_max_users(l, granted)
  <2>1. users' = users /\ args' = args
    BY <1>4 DEF handle_set_max_users, Serving
  <2>. QED
    BY <2>1 DEF Array, cantUsers
<1>. QED
  BY <1>2, <1>3, <1>4 DEF ChangeUser

\* The users after slot k move down one slot.
LEMMA WithoutArray ==
  ASSUME Array, NEW k \in 1 .. cantUsers, users' = Without(k)
  PROVE  /\ users' \in Seq(User) /\ Len(users') = Len(users) - 1
         /\ \A j \in 1 .. Len(users) - 1 :
              users'[j] = IF j < k THEN users[j] ELSE users[j + 1]
<1>1. users \in Seq(User) /\ Len(users) \in Nat /\ k \in 1 .. Len(users)
      /\ Len(users) - 1 \in Nat
  BY LenProperties DEF Array, cantUsers
<1>2. \A j \in 1 .. Len(users) - 1 : (IF j < k THEN users[j] ELSE users[j + 1]) \in User
  <2>1. \A j \in 1 .. Len(users) - 1 : j \in 1 .. Len(users) /\ j + 1 \in 1 .. Len(users)
    BY <1>1
  <2>. QED
    BY <1>1, <2>1, ElementOfSeq
<1>3. users' = [j \in 1 .. Len(users) - 1 |-> IF j < k THEN users[j] ELSE users[j + 1]]
  BY DEF Without, cantUsers
<1>4. users' \in [1 .. Len(users) - 1 -> User]
  BY <1>2, <1>3
<1>5. users' \in Seq(User)
  BY <1>1, <1>4, SeqDef
<1>6. Len(users') = Len(users) - 1
  BY <1>1, <1>3, <1>5, LenProperties
<1>. QED
  BY <1>3, <1>5, <1>6

-----------------------------------------------------------------------------
(* The slots of the strings.                                               *)

LEMMA RemoveAtElements ==
  ASSUME NEW S, NEW s \in Seq(S), NEW k \in 1 .. Len(s)
  PROVE  /\ RemoveAt(s, k) \in Seq(S) /\ Len(RemoveAt(s, k)) = Len(s) - 1
         /\ \A j \in 1 .. Len(s) - 1 :
              RemoveAt(s, k)[j] = IF j < k THEN s[j] ELSE s[j + 1]
<1>. DEFINE a == SubSeq(s, 1, k - 1)
            b == SubSeq(s, k + 1, Len(s))
<1>1. Len(s) \in Nat /\ k \in Nat /\ 1 <= k /\ k <= Len(s)
  BY LenProperties
<1>2. \A i \in 1 .. Len(s) : s[i] \in S
  BY ElementOfSeq
<1>3. /\ a \in Seq(S) /\ Len(a) = k - 1
      /\ \A i \in 1 .. k - 1 : a[i] = s[i]
  <2>1. \A i \in 1 .. k - 1 : s[i] \in S
    BY <1>1, <1>2
  <2>2. /\ a \in Seq(S) /\ Len(a) = IF 1 <= k - 1 THEN k - 1 - 1 + 1 ELSE 0
        /\ \A i \in 1 .. k - 1 - 1 + 1 : a[i] = s[1 + i - 1]
    BY <1>1, <2>1, SubSeqProperties
  <2>. HIDE DEF a
  <2>. QED
    BY <1>1, <2>2
<1>4. /\ b \in Seq(S) /\ Len(b) = Len(s) - k
      /\ \A i \in 1 .. Len(s) - k : b[i] = s[k + i]
  <2>1. \A i \in k + 1 .. Len(s) : s[i] \in S
    BY <1>1, <1>2
  <2>2. /\ b \in Seq(S)
        /\ Len(b) = IF k + 1 <= Len(s) THEN Len(s) - (k + 1) + 1 ELSE 0
        /\ \A i \in 1 .. Len(s) - (k + 1) + 1 : b[i] = s[k + 1 + i - 1]
    BY <1>1, <2>1, SubSeqProperties
  <2>. HIDE DEF b
  <2>. QED
    BY <1>1, <2>2
<1>5. RemoveAt(s, k) = a \o b
  BY DEF RemoveAt
<1>. HIDE DEF a, b
<1>6. /\ a \o b \in Seq(S) /\ Len(a \o b) = Len(a) + Len(b)
      /\ \A i \in 1 .. Len(a) + Len(b) :
           (a \o b)[i] = IF i <= Len(a) THEN a[i] ELSE b[i - Len(a)]
  BY <1>3, <1>4, ConcatProperties
<1>7. ASSUME NEW j \in 1 .. Len(s) - 1
      PROVE  (a \o b)[j] = IF j < k THEN s[j] ELSE s[j + 1]
  <2>1. CASE j < k
    BY <1>1, <1>3, <1>4, <1>6, <2>1
  <2>2. CASE ~(j < k)
    <3>1. PICK d \in 1 .. Len(s) - k : d = j - (k - 1) /\ k + d = j + 1
      BY <1>1, <2>2
    <3>2. ~(j <= Len(a)) /\ j - Len(a) = d /\ j \in 1 .. Len(a) + Len(b)
      BY <1>1, <1>3, <1>4, <2>2, <3>1
    <3>3. (a \o b)[j] = b[d]
      BY <1>6, <3>2
    <3>4. b[d] = s[j + 1]
      BY <1>4, <3>1
    <3>. QED
      BY <2>2, <3>3, <3>4
  <2>. QED
    BY <2>1, <2>2
<1>. QED
  BY <1>1, <1>3, <1>4, <1>5, <1>6, <1>7

LEMMA OwnedAppend ==
  ASSUME NEW ac \in Seq(Slot), NEW H, OneOwner(ac, H), NEW b \in (Builder \ H) \cup {NULL}
  PROVE  OneOwner(Append(ac, b), H \cup ({b} \ {NULL}))
<1>. DEFINE s == Append(ac, b)
<1>1. Len(ac) \in Nat /\ b \in Slot
  BY LenProperties DEF Slot
<1>2. /\ Len(s) = Len(ac) + 1 /\ s[Len(ac) + 1] = b
      /\ \A i \in 1 .. Len(ac) : s[i] = ac[i]
  BY <1>1, AppendProperties
<1>. HIDE DEF s
<1>3. 1 .. Len(s) = 1 .. Len(ac) \cup {Len(ac) + 1}
  BY <1>1, <1>2
<1>4. H \cup ({b} \ {NULL}) = {s[i] : i \in 1 .. Len(s)} \ {NULL}
  BY <1>2, <1>3 DEF OneOwner
<1>5. ASSUME NEW i \in 1 .. Len(s), NEW j \in 1 .. Len(s), s[i] = s[j], s[i] # NULL
      PROVE  i = j
  <2>1. \A m \in 1 .. Len(ac) : ac[m] # NULL => ac[m] # b
    BY DEF OneOwner
  <2>2. CASE i \in 1 .. Len(ac) /\ j \in 1 .. Len(ac)
    BY <1>2, <1>5, <2>2 DEF OneOwner
  <2>. QED
    BY <1>2, <1>3, <1>5, <2>1, <2>2
<1>. QED
  BY <1>4, <1>5 DEF OneOwner, s

LEMMA OwnedReplace ==
  ASSUME NEW ac \in Seq(Slot), NEW H, OneOwner(ac, H), NEW b \in Builder \ H,
         NEW k \in 1 .. Len(ac), ac[k] = NULL, NULL \notin Builder
  PROVE  OneOwner([ac EXCEPT ![k] = b], H \cup {b})
<1>. DEFINE s == [ac EXCEPT ![k] = b]
<1>1. b \in Slot /\ b # NULL
  BY DEF Slot
<1>2. Len(s) = Len(ac) /\ \A i \in 1 .. Len(ac) : s[i] = IF i = k THEN b ELSE ac[i]
  BY <1>1, ExceptSeq
<1>. HIDE DEF s
<1>3. H \cup {b} = {s[i] : i \in 1 .. Len(s)} \ {NULL}
  BY <1>1, <1>2 DEF OneOwner
<1>4. \A i, j \in 1 .. Len(s) : s[i] = s[j] /\ s[i] # NULL => i = j
  BY <1>1, <1>2 DEF OneOwner
<1>. QED
  BY <1>3, <1>4 DEF OneOwner, s

LEMMA OwnedRemove ==
  ASSUME NEW ac \in Seq(Slot), NEW H, OneOwner(ac, H), NEW k \in 1 .. Len(ac)
  PROVE  OneOwner(RemoveAt(ac, k), H \ {ac[k]})
<1>. DEFINE s == RemoveAt(ac, k)
            n == Len(ac)
            old(j) == IF j < k THEN j ELSE j + 1
<1>1. n \in Nat /\ k \in 1 .. n
  BY LenProperties
<1>2. Len(s) = n - 1 /\ \A j \in 1 .. n - 1 : s[j] = ac[old(j)]
  BY RemoveAtElements
<1>. HIDE DEF s
<1>3. /\ \A j \in 1 .. n - 1 : old(j) \in 1 .. n /\ old(j) # k
      /\ \A i, j \in 1 .. n - 1 : old(i) = old(j) => i = j
  BY <1>1
<1>4. \A i \in 1 .. n : i # k => \E j \in 1 .. n - 1 : old(j) = i
  <2>. SUFFICES ASSUME NEW i \in 1 .. n, i # k PROVE \E j \in 1 .. n - 1 : old(j) = i
    OBVIOUS
  <2>1. CASE i < k
    <3>1. i \in 1 .. n - 1 /\ old(i) = i
      BY <1>1, <2>1
    <3>. QED
      BY <3>1
  <2>2. CASE i > k
    <3>1. i - 1 \in 1 .. n - 1 /\ old(i - 1) = i
      BY <1>1, <2>2
    <3>. QED
      BY <3>1
  <2>. QED
    BY <1>1, <2>1, <2>2
<1>. HIDE DEF old, n
<1>5. Len(ac) = n
  BY DEF n
<1>6. H \ {ac[k]} = {s[i] : i \in 1 .. Len(s)} \ {NULL}
  <2>1. ASSUME NEW x \in H \ {ac[k]}
        PROVE  x \in {s[i] : i \in 1 .. Len(s)} \ {NULL}
    <3>1. PICK i \in 1 .. n : x = ac[i] /\ x # NULL /\ i # k
      BY <1>5, <2>1 DEF OneOwner
    <3>2. PICK j \in 1 .. n - 1 : old(j) = i
      BY <1>4, <3>1
    <3>. QED
      BY <1>2, <3>1, <3>2
  <2>2. ASSUME NEW x \in {s[i] : i \in 1 .. Len(s)} \ {NULL}
        PROVE  x \in H \ {ac[k]}
    <3>1. PICK j \in 1 .. n - 1 : x = ac[old(j)] /\ x # NULL
      BY <1>2, <2>2
    <3>2. old(j) \in 1 .. n /\ old(j) # k /\ k \in 1 .. n
      BY <1>1, <1>3, <3>1
    <3>. QED
      BY <1>5, <3>1, <3>2 DEF OneOwner
  <2>. QED
    BY <2>1, <2>2
<1>7. ASSUME NEW i \in 1 .. Len(s), NEW j \in 1 .. Len(s), s[i] = s[j], s[i] # NULL
      PROVE  i = j
  <2>1. /\ s[i] = ac[old(i)] /\ s[j] = ac[old(j)]
        /\ old(i) \in 1 .. Len(ac) /\ old(j) \in 1 .. Len(ac)
    BY <1>2, <1>3, <1>5
  <2>2. old(i) = old(j)
    BY <1>7, <2>1 DEF OneOwner
  <2>. QED
    BY <1>2, <1>3, <2>2
<1>. QED
  BY <1>6, <1>7 DEF OneOwner, s

-----------------------------------------------------------------------------
(* The steps of the program.                                               *)

LEMMA AllocatedDomain ==
  ASSUME NEW b
  PROVE  DOMAIN Allocated(b) = DOMAIN heap \cup ({b} \ {NULL})
  BY DEF Allocated

LEMMA FreedDomain ==
  ASSUME NEW S
  PROVE  DOMAIN Freed(S) = DOMAIN heap \ S
  BY DEF Freed

\* A recorded line allocates nothing and frees nothing.
LEMMA RecordDomain ==
  ASSUME NEW h, NEW b, NEW name, Record(h, b, name)
  PROVE  DOMAIN heap' = DOMAIN h
  BY DEF Record

LEMMA NewAccessOInv ==
  ASSUME OInv, process = "up", UNCHANGED process,
         NEW name \in Name \cup {Empty}, NEW pass \in Password \cup {Empty},
         new_user(name, pass), NewAccess(name, pass), args' \in Seq(Option)
  PROVE  OInv'
<1>1. /\ users' \in Seq(User)
      /\ Len(users') = IF CanCreate(name, pass) THEN Len(users) + 1 ELSE Len(users)
  BY NewUserArray DEF OInv
<1>2. access \in Seq(Slot) /\ Len(access) = Len(users) /\ OneOwner(access, DOMAIN heap)
  BY DEF OInv, cantUsers
<1>3. access' \in Seq(Slot) /\ Len(access') = Len(users') /\ OneOwner(access', DOMAIN heap')
  <2>1. CASE CanCreate(name, pass)
    <3>1. PICK b \in Fresh : access' = Append(access, b) /\ heap' = Allocated(b)
      BY <2>1 DEF NewAccess
    <3>2. b \in (Builder \ DOMAIN heap) \cup {NULL} /\ b \in Slot
      BY DEF Fresh, Slot
    <3>3. DOMAIN heap' = DOMAIN heap \cup ({b} \ {NULL})
      BY <3>1, AllocatedDomain
    <3>4. OneOwner(access', DOMAIN heap')
      BY <1>2, <3>1, <3>2, <3>3, OwnedAppend
    <3>. QED
      BY <1>1, <1>2, <2>1, <3>1, <3>2, <3>4, AppendProperties
  <2>2. CASE ~CanCreate(name, pass)
    BY <1>1, <1>2, <2>2 DEF NewAccess, logs
  <2>. QED
    BY <2>1, <2>2
<1>. QED
  BY <1>1, <1>3 DEF OInv, Array, cantUsers

LEMMA DeleteUserOInv ==
  ASSUME OInv, NEW name, DeleteUser(name)
  PROVE  OInv'
<1>. DEFINE k == user_exists(name)
            Deletes == Exists(name) /\ ~(users[k].status = ADMIN /\ admins = 1)
<1>0. /\ process = "up" /\ process' = "up" /\ args' = args
      /\ delete_user(name)
      /\ IF cantUsers' < cantUsers
         THEN heap' = Deleted(k) /\ access' = RemoveAt(access, k) ELSE UNCHANGED logs
  BY DEF DeleteUser, Up, handle_delete_user, Serving
<1>1. /\ users \in Seq(User) /\ Len(users) \in Nat
      /\ access \in Seq(Slot) /\ Len(access) = Len(users) /\ OneOwner(access, DOMAIN heap)
  BY <1>0, LenProperties DEF OInv, Array, cantUsers
<1>2. CASE Deletes
  <2>1. k \in 1 .. cantUsers
    BY <1>2, FirstFound DEF OInv
  <2>2. users' = Without(k)
    BY <1>0, <1>2 DEF delete_user
  <2>. HIDE DEF k
  <2>3. users' \in Seq(User) /\ Len(users') = Len(users) - 1
    BY <2>1, <2>2, WithoutArray DEF OInv
  <2>4. heap' = Deleted(k) /\ access' = RemoveAt(access, k)
    BY <1>0, <1>1, <2>3 DEF cantUsers
  <2>5. DOMAIN heap' = DOMAIN heap \ {access[k]}
    BY <2>4, FreedDomain DEF Deleted
  <2>6. k \in 1 .. Len(access)
    BY <1>1, <2>1 DEF cantUsers
  <2>7. OneOwner(access', DOMAIN heap')
    BY <1>1, <2>4, <2>5, <2>6, OwnedRemove
  <2>8. access' \in Seq(Slot) /\ Len(access') = Len(access) - 1
    BY <1>1, <2>4, <2>6, RemoveAtElements
  <2>. QED
    BY <1>0, <1>1, <2>3, <2>7, <2>8 DEF OInv, Array, cantUsers
<1>3. CASE ~Deletes
  <2>1. users' = users
    BY <1>0, <1>3 DEF delete_user
  <2>2. UNCHANGED logs
    BY <1>0, <1>1, <2>1 DEF cantUsers
  <2>. QED
    BY <1>0, <2>1, <2>2 DEF OInv, Array, cantUsers, logs
<1>. QED
  BY <1>2, <1>3

LEMMA ChangeUserOInv ==
  ASSUME OInv, ChangeUser
  PROVE  OInv'
<1>1. Array' /\ cantUsers' = cantUsers
  BY ChangeUserArray DEF OInv
<1>2. UNCHANGED <<process, access, heap>>
  BY DEF ChangeUser, Up, logs
<1>. QED
  BY <1>1, <1>2 DEF OInv

LEMMA RecordAccessOInv ==
  ASSUME OInv, NEW c, Exists(uname[c]), RecordAccess(c)
  PROVE  OInv'
<1>. DEFINE name == uname[c]
            k == user_exists(name)
            p == access[k]
<1>1. /\ process = "up" /\ process' = "up" /\ users' = users /\ args' = args
      /\ \/ p # NULL /\ Record(heap, p, name) /\ UNCHANGED access
         \/ p = NULL /\ \E b \in Fresh \ {NULL} :
              /\ access' = [access EXCEPT ![k] = b]
              /\ Record(Allocated(b), b, name)
  BY DEF RecordAccess, Proxying, Up, vars, get_access
<1>2. access \in Seq(Slot) /\ Len(access) = cantUsers /\ OneOwner(access, DOMAIN heap)
  BY <1>1 DEF OInv
<1>3. k \in 1 .. Len(access)
  BY <1>2, FirstFound DEF OInv
<1>. HIDE DEF k
<1>4. access' \in Seq(Slot) /\ Len(access') = Len(access) /\ OneOwner(access', DOMAIN heap')
  <2>1. CASE p # NULL /\ Record(heap, p, name) /\ UNCHANGED access
    <3>1. DOMAIN heap' = DOMAIN heap
      BY <2>1, RecordDomain
    <3>. QED
      BY <1>2, <2>1, <3>1
  <2>2. CASE p = NULL /\ \E b \in Fresh \ {NULL} :
              /\ access' = [access EXCEPT ![k] = b]
              /\ Record(Allocated(b), b, name)
    <3>1. PICK b \in Fresh \ {NULL} : /\ access' = [access EXCEPT ![k] = b]
                                      /\ Record(Allocated(b), b, name)
      BY <2>2
    <3>2. b \in Builder \ DOMAIN heap /\ b # NULL /\ b \in Slot
      BY DEF Fresh, Slot
    <3>3. DOMAIN heap' = DOMAIN heap \cup {b}
      BY <3>1, <3>2, RecordDomain, AllocatedDomain
    <3>4. NULL \notin Builder
      BY AccessAssumption
    <3>5. OneOwner(access', DOMAIN heap')
      <4>1. access[k] = NULL
        BY <2>2
      <4>2. OneOwner([access EXCEPT ![k] = b], DOMAIN heap \cup {b})
        BY <1>2, <1>3, <3>2, <3>4, <4>1, OwnedReplace
      <4>. QED
        BY <3>1, <3>3, <4>2
    <3>. QED
      BY <1>2, <1>3, <3>1, <3>2, <3>5, ExceptSeq
  <2>. QED
    BY <1>1, <2>1, <2>2
<1>. QED
  BY <1>1, <1>2, <1>4 DEF OInv, Array, cantUsers

LEMMA InitOInv == AInit => OInv
<1>. SUFFICES ASSUME AInit PROVE OInv
  OBVIOUS
<1>. DEFINE u == [name |-> "admin", pass |-> "admin", status |-> ADMIN]
<1>1. users = <<u>> /\ args \in CommandLines
  BY DEF AInit, Init
<1>2. u \in User
  BY UsersAssumption DEF User
<1>. HIDE DEF u
<1>3. Array /\ cantUsers = 1
  BY <1>1, <1>2, UsersAssumption DEF Array, cantUsers
<1>4. PICK b \in Builder \cup {NULL} :
        access = <<b>> /\ heap = [a \in {b} \ {NULL} |-> sb_create]
  BY DEF AInit
<1>5. /\ access \in Seq(Slot) /\ Len(access) = 1 /\ access[1] = b
      /\ DOMAIN heap = {b} \ {NULL} /\ 1 .. Len(access) = {1}
  BY <1>4 DEF Slot
<1>6. OneOwner(access, DOMAIN heap)
  BY <1>5 DEF OneOwner
<1>. QED
  BY <1>3, <1>5, <1>6 DEF OInv, AInit

LEMMA NextOInv == OInv /\ [ANext]_avars => OInv'
<1>. SUFFICES ASSUME OInv, [ANext]_avars PROVE OInv'
  OBVIOUS
<1>1. CASE AddFromOption
  <2>1. /\ args # <<>> /\ args' = Tail(args) /\ new_user(Head(args)[1], Head(args)[2])
        /\ NewAccess(Head(args)[1], Head(args)[2]) /\ process = "up" /\ UNCHANGED process
    BY <1>1 DEF AddFromOption, main_new_user, Up
  <2>2. args' \in Seq(Option) /\ Head(args) \in Option
    BY <2>1, HeadTailProperties DEF OInv, Array
  <2>3. Head(args)[1] \in Name \cup {Empty} /\ Head(args)[2] \in Password \cup {Empty}
    BY <2>2 DEF Option
  <2>. QED
    BY <2>1, <2>2, <2>3, NewAccessOInv
<1>2. CASE \E n \in Name, p \in Password : AddUser(n, p)
  <2>1. PICK n \in Name, p \in Password : AddUser(n, p)
    BY <1>2
  <2>2. /\ new_user(n, p) /\ NewAccess(n, p) /\ process = "up" /\ UNCHANGED process
        /\ args' \in Seq(Option)
    BY <2>1 DEF AddUser, Up, handle_add_user, Serving, OInv, Array
  <2>. QED
    BY <2>2, NewAccessOInv
<1>3. CASE \E n \in Name : DeleteUser(n)
  BY <1>3, DeleteUserOInv
<1>4. CASE ChangeUser
  BY <1>4, ChangeUserOInv
<1>5. CASE \E c \in Conn, n \in Name \cup {Empty} : authentication_read(c, n)
  BY <1>5 DEF authentication_read, Proxying, Up, vars, logs, OInv, Array, cantUsers
<1>6. CASE \E c \in Conn : socks_close(c)
  BY <1>6 DEF socks_close, Proxying, Up, vars, logs, OInv, Array, cantUsers
<1>7. CASE \E c \in Conn : Exists(uname[c]) /\ RecordAccess(c)
  BY <1>7, RecordAccessOInv
<1>8. CASE \E c \in Conn : LosesItself(c)
  BY <1>8 DEF LosesItself, vars, logs, OInv, Array, cantUsers
<1>9. CASE close_users
  <2>1. /\ process = "up" /\ process' = "down" /\ heap' = Freed(Owned)
        /\ users' = users /\ args' = args
    BY <1>9 DEF close_users, vars
  <2>2. DOMAIN heap = Owned
    BY <2>1 DEF OInv, OneOwner, Owned
  <2>3. DOMAIN heap' = {}
    BY <2>1, <2>2, FreedDomain
  <2>. QED
    BY <2>1, <2>3 DEF OInv, Array
<1>10. CASE UNCHANGED avars
  BY <1>10 DEF avars, vars, logs, OInv, Array, cantUsers
<1>. QED
  BY <1>1, <1>2, <1>3, <1>4, <1>5, <1>6, <1>7, <1>8, <1>9, <1>10 DEF ANext, request_write

\* While the program is up, every string allocated is one account's, and
\* close_users frees them all: nothing is freed twice, used once freed or
\* lost, for any table, any connections and any failures of malloc, and
\* whether or not the names are unique.
THEOREM OneOwnerEach == ASpec => []BuildersOwned
<1>1. OInv => BuildersOwned
  BY DEF OInv, BuildersOwned, OneOwner, Owned
<1>. QED
  BY <1>1, InitOInv, NextOInv, PTL DEF ASpec

-----------------------------------------------------------------------------
(* What the strings hold.  While names are whole they are unique, and a    *)
(* step of the array is looked at slot by slot.                            *)

\* The lines of slot i.
At(i) == IF access[i] = NULL THEN <<>> ELSE heap[access[i]].lines

LInv == process = "up" =>
          \A i \in 1 .. cantUsers :
            /\ At(i) \in Seq(Line)
            /\ \A k \in 1 .. Len(At(i)) : At(i)[k].user = users[i].name

AInv == IInv /\ OInv /\ LInv

\* Slot j is new, or is what slot i was, with a line more if it is slot g.
New(j) == users'[j].name \notin Names /\ At(j)' = <<>>
Kept(j, i) == users'[j].name = users[i].name /\ At(j)' = At(i)
Grown(j, i) ==
  /\ users'[j].name = users[i].name
  /\ \E l \in Line : l.user = users[i].name /\ At(j)' = Append(At(i), l)
Slots(g) == \A j \in 1 .. cantUsers' :
              New(j) \/ \E i \in 1 .. cantUsers : Kept(j, i) \/ (j = g /\ Grown(j, i))

\* What LogsFollowAccounts says of a step.
Follows ==
  /\ \A n \in Names' : IF n \in Names THEN IsPrefix(Log(n), Log(n)') ELSE Log(n)' = <<>>
  /\ \A n \in Names' : \A k \in 1 .. Len(Log(n)') : (Log(n)')[k].user = n
  /\ \A m, n \in Names \cap Names' : Log(m)' # Log(m) /\ Log(n)' # Log(n) => m = n

\* With unique names, the log of a name is what is in its slot.
LogsInSlots == \A n : \A i \in 1 .. cantUsers : users[i].name = n => Log(n) = At(i)

LEMMA LogAt == IInv => LogsInSlots
<1>. SUFFICES ASSUME IInv, NEW n, NEW i \in 1 .. cantUsers, users[i].name = n
              PROVE  Log(n) = At(i)
  BY DEF LogsInSlots
<1>1. Exists(n)
  BY DEF Exists, Found
<1>2. user_exists(n) \in 1 .. cantUsers /\ users[user_exists(n)].name = n
  BY <1>1, FoundOne DEF IInv
<1>3. user_exists(n) = i
  BY <1>2 DEF IInv, UniqueNames
<1>. QED
  BY <1>3 DEF Log, At

LEMMA LogAtNext == IInv' => LogsInSlots'
  BY LogAt, PTL

LEMMA AppendIsLonger ==
  ASSUME NEW S, NEW s \in Seq(S)
  PROVE  IsPrefix(s, s) /\ \A e \in S : IsPrefix(s, Append(s, e))
<1>0. IsPrefix(s, s)
  BY LenProperties DEF IsPrefix
<1>. SUFFICES ASSUME NEW e \in S PROVE IsPrefix(s, Append(s, e))
  BY <1>0
<1>1. Len(s) \in Nat /\ Append(s, e) \in Seq(S) /\ Len(Append(s, e)) = Len(s) + 1
  BY LenProperties, AppendProperties
<1>2. SubSeq(s, 1, Len(s)) = SubSeq(Append(s, e), 1, Len(s))
  <2>1. /\ \A i \in 1 .. Len(s) : s[i] \in S /\ Append(s, e)[i] = s[i]
    BY ElementOfSeq, AppendProperties
  <2>2. /\ SubSeq(s, 1, Len(s)) \in Seq(S)
        /\ Len(SubSeq(s, 1, Len(s))) = IF 1 <= Len(s) THEN Len(s) - 1 + 1 ELSE 0
        /\ \A i \in 1 .. Len(s) - 1 + 1 : SubSeq(s, 1, Len(s))[i] = s[1 + i - 1]
    BY <1>1, <2>1, SubSeqProperties
  <2>. DEFINE t == Append(s, e)
              n == Len(s)
  <2>3. n \in Nat /\ \A i \in 1 .. n : t[i] \in S
    BY <1>1, <2>1
  <2>. HIDE DEF t, n
  <2>5. /\ SubSeq(t, 1, n) \in Seq(S)
        /\ Len(SubSeq(t, 1, n)) = IF 1 <= n THEN n - 1 + 1 ELSE 0
        /\ \A i \in 1 .. n - 1 + 1 : SubSeq(t, 1, n)[i] = t[1 + i - 1]
    BY <2>3, SubSeqProperties
  <2>6. \A i \in 1 .. n : t[i] = s[i]
    BY <2>1 DEF t, n
  <2>7. Len(SubSeq(s, 1, n)) = n /\ Len(SubSeq(t, 1, n)) = n
    BY <1>1, <2>2, <2>3, <2>5 DEF n
  <2>8. \A i \in 1 .. n : SubSeq(s, 1, n)[i] = SubSeq(t, 1, n)[i]
    BY <1>1, <2>2, <2>3, <2>5, <2>6 DEF n
  <2>9. SubSeq(s, 1, n) = SubSeq(t, 1, n)
    BY <2>2, <2>5, <2>7, <2>8, SeqEqual DEF n
  <2>. QED
    BY <2>9 DEF t, n
<1>. QED
  BY <1>1, <1>2 DEF IsPrefix

\* Looked at slot by slot, the logs follow the names.
LEMMA SlotsFollow ==
  ASSUME IInv, IInv', LInv, process = "up", NEW g, Slots(g)
  PROVE  LInv' /\ Follows
<1>1. ASSUME NEW j \in 1 .. cantUsers'
      PROVE  /\ At(j)' \in Seq(Line)
             /\ \A k \in 1 .. Len(At(j)') : (At(j)')[k].user = users'[j].name
  <2>1. CASE New(j)
    BY <2>1, EmptySeq DEF New
  <2>2. CASE \E i \in 1 .. cantUsers : Kept(j, i)
    BY <2>2 DEF Kept, LInv
  <2>3. CASE \E i \in 1 .. cantUsers : Grown(j, i)
    <3>1. PICK i \in 1 .. cantUsers : Grown(j, i)
      BY <2>3
    <3>2. PICK l \in Line : l.user = users[i].name /\ At(j)' = Append(At(i), l)
      BY <3>1 DEF Grown
    <3>3. /\ At(i) \in Seq(Line) /\ Len(At(i)) \in Nat
          /\ \A k \in 1 .. Len(At(i)) : At(i)[k].user = users[i].name
      BY LenProperties DEF LInv
    <3>4. /\ Append(At(i), l) \in Seq(Line) /\ Len(Append(At(i), l)) = Len(At(i)) + 1
          /\ \A k \in 1 .. Len(At(i)) : Append(At(i), l)[k] = At(i)[k]
          /\ Append(At(i), l)[Len(At(i)) + 1] = l
      BY <3>3, AppendProperties
    <3>. QED
      BY <3>1, <3>2, <3>3, <3>4 DEF Grown
  <2>. QED
    BY <2>1, <2>2, <2>3 DEF Slots
<1>2. LInv'
  BY <1>1 DEF LInv
<1>3. ASSUME NEW n \in Names'
      PROVE  \E j \in 1 .. cantUsers' : users'[j].name = n /\ Log(n)' = At(j)'
  <2>1. PICK j \in 1 .. cantUsers' : users'[j].name = n
    BY <1>3 DEF Names
  <2>. QED
    BY <2>1, LogAtNext DEF LogsInSlots
<1>4. ASSUME NEW n \in Names', n \notin Names
      PROVE  Log(n)' = <<>>
  <2>1. PICK j \in 1 .. cantUsers' : users'[j].name = n /\ Log(n)' = At(j)'
    BY <1>3, <1>4
  <2>2. \A i \in 1 .. cantUsers : users[i].name # n
    BY <1>4 DEF Names
  <2>. QED
    BY <2>1, <2>2 DEF Slots, New, Kept, Grown
<1>5. ASSUME NEW n \in Names', n \in Names
      PROVE  \E j \in 1 .. cantUsers', i \in 1 .. cantUsers :
               /\ users'[j].name = n /\ users[i].name = n
               /\ Log(n)' = At(j)' /\ Log(n) = At(i)
               /\ Kept(j, i) \/ (j = g /\ Grown(j, i))
  <2>1. PICK j \in 1 .. cantUsers' : users'[j].name = n /\ Log(n)' = At(j)'
    BY <1>3, <1>5
  <2>2. PICK i \in 1 .. cantUsers : Kept(j, i) \/ (j = g /\ Grown(j, i))
    BY <1>5, <2>1 DEF Slots, New
  <2>3. users[i].name = n
    BY <2>1, <2>2 DEF Kept, Grown
  <2>. QED
    BY <2>1, <2>2, <2>3, LogAt DEF LogsInSlots
<1>6. ASSUME NEW n \in Names', n \in Names
      PROVE  IsPrefix(Log(n), Log(n)')
  <2>1. PICK j \in 1 .. cantUsers', i \in 1 .. cantUsers :
               /\ Log(n)' = At(j)' /\ Log(n) = At(i)
               /\ Kept(j, i) \/ (j = g /\ Grown(j, i))
    BY <1>5, <1>6
  <2>2. At(i) \in Seq(Line)
    BY DEF LInv
  <2>3. At(j)' = At(i) \/ \E l \in Line : At(j)' = Append(At(i), l)
    BY <2>1 DEF Kept, Grown
  <2>. QED
    BY <2>1, <2>2, <2>3, AppendIsLonger
<1>7. ASSUME NEW n \in Names', NEW k \in 1 .. Len(Log(n)')
      PROVE  (Log(n)')[k].user = n
  <2>1. PICK j \in 1 .. cantUsers' : users'[j].name = n /\ Log(n)' = At(j)'
    BY <1>3
  <2>. QED
    BY <1>1, <2>1
<1>8. ASSUME NEW m \in Names \cap Names', NEW n \in Names \cap Names',
             Log(m)' # Log(m), Log(n)' # Log(n)
      PROVE  m = n
  <2>1. ASSUME NEW x \in Names \cap Names', Log(x)' # Log(x)
        PROVE  x = users'[g].name
    <3>1. PICK j \in 1 .. cantUsers', i \in 1 .. cantUsers :
               /\ users'[j].name = x
               /\ Log(x)' = At(j)' /\ Log(x) = At(i)
               /\ Kept(j, i) \/ (j = g /\ Grown(j, i))
      BY <1>5
    <3>2. ~Kept(j, i)
      BY <2>1, <3>1 DEF Kept
    <3>. QED
      BY <3>1, <3>2
  <2>. QED
    BY <1>8, <2>1
<1>. QED
  BY <1>2, <1>4, <1>6, <1>7, <1>8 DEF Follows

-----------------------------------------------------------------------------
(* Every step, slot by slot.                                               *)

\* The facts every step starts from.
LEMMA Facts ==
  ASSUME AInv, process = "up"
  PROVE  /\ users \in Seq(User) /\ Len(users) \in Nat
         /\ access \in Seq(Slot) /\ Len(access) = Len(users)
         /\ \A i \in 1 .. Len(users) : access[i] # NULL => access[i] \in DOMAIN heap
         /\ \A i, j \in 1 .. Len(users) : access[i] = access[j] /\ access[i] # NULL => i = j
  BY LenProperties DEF AInv, OInv, Array, OneOwner, cantUsers

LEMMA NothingChanges ==
  ASSUME cantUsers' = cantUsers, UNCHANGED logs,
         \A i \in 1 .. cantUsers : users'[i].name = users[i].name
  PROVE  Slots(0)
<1>1. ASSUME NEW j \in 1 .. cantUsers
      PROVE  Kept(j, j)
  BY DEF Kept, At, logs
<1>. QED
  BY <1>1 DEF Slots

\* An account is created at the end, its string empty.
LEMMA NewUserSlots ==
  ASSUME WordsFit, AInv, process = "up",
         NEW name \in Name \cup {Empty}, NEW pass \in Password \cup {Empty},
         new_user(name, pass), NewAccess(name, pass)
  PROVE  Slots(0)
<1>1. CASE CanCreate(name, pass)
  <2>. DEFINE u == [name |-> Stored[name], pass |-> Stored[pass], status |-> COMMONER]
              n == Len(users)
  <2>1. name \in Name /\ pass \in Password /\ \A i \in 1 .. n : users[i].name # name
    BY <1>1 DEF CanCreate, Exists, Found, cantUsers
  <2>2. u \in User /\ u.name = name
    BY <2>1, UsersAssumption DEF User, WordsFit
  <2>3. users' = Append(users, u)
    BY <1>1 DEF new_user
  <2>. HIDE DEF u
  <2>4. PICK b \in Fresh : access' = Append(access, b) /\ heap' = Allocated(b)
    BY <1>1 DEF NewAccess
  <2>5. b \notin DOMAIN heap /\ b \in Slot
    <3>1. NULL \notin DOMAIN heap
      BY DEF AInv, OInv, OneOwner
    <3>. QED
      BY <3>1 DEF Fresh, Slot
  <2>6. /\ Len(users') = n + 1 /\ users'[n + 1] = u
        /\ \A j \in 1 .. n : users'[j] = users[j]
    BY <2>2, <2>3, Facts, AppendProperties
  <2>7. access'[n + 1] = b /\ \A j \in 1 .. n : access'[j] = access[j]
    BY <2>4, <2>5, Facts, AppendProperties
  <2>8. \A j \in 1 .. n : access[j] # NULL => heap'[access[j]] = heap[access[j]]
    BY <2>4, <2>5, Facts DEF Allocated
  <2>9. ASSUME NEW j \in 1 .. n
        PROVE  Kept(j, j)
    BY <2>6, <2>7, <2>8 DEF Kept, At
  <2>10. ASSUME NEW j \in 1 .. cantUsers', j = n + 1
         PROVE  New(j)
    <3>1. users'[j].name \notin Names
      BY <2>1, <2>2, <2>6, <2>10 DEF Names, cantUsers
    <3>2. b # NULL => heap'[b].lines = <<>>
      BY <2>4 DEF Allocated, sb_create
    <3>. QED
      BY <2>7, <2>10, <3>1, <3>2 DEF New, At
  <2>11. \A j \in 1 .. cantUsers' : j \in 1 .. cantUsers \/ j = n + 1
    BY <2>6, Facts DEF cantUsers
  <2>. QED
    BY <2>9, <2>10, <2>11 DEF Slots, cantUsers
<1>2. CASE ~CanCreate(name, pass)
  <2>1. users' = users /\ UNCHANGED logs
    BY <1>2 DEF new_user, NewAccess
  <2>. QED
    BY <2>1, NothingChanges DEF cantUsers
<1>. QED
  BY <1>1, <1>2

\* A deletion moves accounts and strings together.
LEMMA DeleteUserSlots ==
  ASSUME AInv, process = "up", NEW name, DeleteUser(name)
  PROVE  Slots(0)
<1>. DEFINE k == user_exists(name)
            Deletes == Exists(name) /\ ~(users[k].status = ADMIN /\ admins = 1)
            n == Len(users)
<1>0. /\ delete_user(name)
      /\ IF cantUsers' < cantUsers
         THEN heap' = Deleted(k) /\ access' = RemoveAt(access, k) ELSE UNCHANGED logs
  BY DEF DeleteUser, handle_delete_user
<1>1. n \in Nat
  BY Facts
<1>2. CASE Deletes
  <2>. DEFINE old(j) == IF j < k THEN j ELSE j + 1
  <2>1. k \in 1 .. n
    BY <1>2, FirstFound DEF AInv, OInv, cantUsers
  <2>2. users' = Without(k)
    BY <1>0, <1>2 DEF delete_user
  <2>3. \A j \in 1 .. n - 1 : old(j) \in 1 .. n /\ old(j) # k
    BY <1>1, <2>1
  <2>. HIDE DEF k
  <2>4. Len(users') = n - 1 /\ \A j \in 1 .. n - 1 : users'[j] = users[old(j)]
    BY <2>1, <2>2, WithoutArray DEF AInv, OInv, cantUsers
  <2>5. heap' = Deleted(k) /\ access' = RemoveAt(access, k)
    BY <1>0, <1>1, <2>4 DEF cantUsers
  <2>6. \A j \in 1 .. n - 1 : access'[j] = access[old(j)]
    <3>1. access \in Seq(Slot) /\ Len(access) = n /\ k \in 1 .. Len(access)
      BY <2>1, Facts
    <3>2. \A j \in 1 .. Len(access) - 1 :
            RemoveAt(access, k)[j] = IF j < k THEN access[j] ELSE access[j + 1]
      BY <3>1, RemoveAtElements
    <3>. QED
      BY <2>5, <3>1, <3>2
  <2>. HIDE DEF old
  <2>7. ASSUME NEW j \in 1 .. n - 1
        PROVE  Kept(j, old(j))
    <3>1. old(j) \in 1 .. n /\ old(j) # k
      BY <2>3
    <3>2. access[old(j)] # NULL => heap'[access[old(j)]] = heap[access[old(j)]]
      BY <2>1, <2>5, <3>1, Facts DEF Deleted, Freed
    <3>. QED
      BY <2>4, <2>6, <3>2 DEF Kept, At
  <2>. QED
    BY <2>3, <2>4, <2>7 DEF Slots, cantUsers
<1>3. CASE ~Deletes
  <2>1. users' = users
    BY <1>0, <1>3 DEF delete_user
  <2>2. UNCHANGED logs
    BY <1>0, <1>1, <2>1 DEF cantUsers
  <2>. QED
    BY <2>1, <2>2, NothingChanges DEF cantUsers
<1>. QED
  BY <1>2, <1>3

\* A piece of a line is a line of the same user.
LEMMA PiecesAreLines ==
  ASSUME NEW l \in Line, NEW m \in Pieces(l)
  PROVE  m \in Line /\ m.user = l.user
<1>1. PICK n \in 1 .. l.size : m = [l EXCEPT !.size = n]
  BY DEF Pieces
<1>2. m.user = l.user
  BY <1>1
<1>. QED
  BY <1>1, <1>2, BuilderAssumption

\* What is left of a line goes to its user's string, or nothing of it does.
LEMMA AppendedLines ==
  ASSUME NEW sb, NEW l \in Line, NEW new \in Appended(sb, l)
  PROVE  \/ new.lines = sb.lines
         \/ \E m \in Line : m.user = l.user /\ new.lines = Append(sb.lines, m)
<1>1. CASE new = sb_append(sb, l)
  BY <1>1 DEF sb_append
<1>2. CASE \E m \in Pieces(l) : new = sb_append(sb, m)
  BY <1>2, PiecesAreLines DEF sb_append
<1>. QED
  BY <1>1, <1>2 DEF Appended

\* A line goes to the slot of the connection's name, and to no other.
LEMMA RecordSlots ==
  ASSUME AInv, process = "up", NEW c, Exists(uname[c]), RecordAccess(c)
  PROVE  \E g : Slots(g)
<1>. DEFINE name == uname[c]
            n == Len(users)
<1>0. PICK k \in 1 .. n : k = user_exists(name) /\ users[k].name = name
  BY FoundOne DEF AInv, IInv, cantUsers
<1>. DEFINE p == access[k]
<1>1. /\ users' = users
      /\ \/ p # NULL /\ Record(heap, p, name) /\ UNCHANGED access
         \/ p = NULL /\ \E b \in Fresh \ {NULL} :
              /\ access' = [access EXCEPT ![k] = b]
              /\ Record(Allocated(b), b, name)
  BY <1>0 DEF RecordAccess, Proxying, vars, get_access
<1>2. k \in 1 .. n /\ users[k].name = name
  BY <1>0
<1>. HIDE DEF name
<1>3. CASE p # NULL /\ Record(heap, p, name) /\ UNCHANGED access
  <2>1. PICK l \in Line : l.user = name /\ \E sb \in Appended(heap[p], l) : heap' = [heap EXCEPT ![p] = sb]
    BY <1>3 DEF Record
  <2>2. PICK sb \in Appended(heap[p], l) : heap' = [heap EXCEPT ![p] = sb]
    BY <2>1
  <2>3. heap'[p] = sb /\ access' = access
    BY <1>2, <1>3, <2>2, Facts
  <2>4. ASSUME NEW j \in 1 .. n, j # k
        PROVE  Kept(j, j)
    <3>1. access[j] # NULL => access[j] # p
      BY <1>2, <2>4, Facts
    <3>2. access[j] # NULL => heap'[access[j]] = heap[access[j]]
      BY <2>2, <2>4, <3>1, Facts
    <3>. QED
      BY <1>1, <2>3, <3>2 DEF Kept, At
  <2>5. Kept(k, k) \/ Grown(k, k)
    <3>1. At(k) = heap[p].lines /\ At(k)' = sb.lines
      BY <1>3, <2>3 DEF At
    <3>2. \/ sb.lines = heap[p].lines
          \/ \E m \in Line : m.user = l.user /\ sb.lines = Append(heap[p].lines, m)
      BY <2>1, <2>2, AppendedLines
    <3>. QED
      BY <1>1, <1>2, <2>1, <3>1, <3>2 DEF Kept, Grown
  <2>6. Slots(k)
    BY <1>1, <1>2, <2>4, <2>5 DEF Slots, cantUsers
  <2>. QED
    BY <2>6
<1>4. CASE p = NULL /\ \E b \in Fresh \ {NULL} :
              /\ access' = [access EXCEPT ![k] = b]
              /\ Record(Allocated(b), b, name)
  <2>1. PICK b \in Fresh \ {NULL} : /\ access' = [access EXCEPT ![k] = b]
                                    /\ Record(Allocated(b), b, name)
    BY <1>4
  <2>2. PICK l \in Line : l.user = name /\ \E sb \in Appended(Allocated(b)[b], l) :
                                             heap' = [Allocated(b) EXCEPT ![b] = sb]
    BY <2>1 DEF Record
  <2>3. PICK sb \in Appended(Allocated(b)[b], l) : heap' = [Allocated(b) EXCEPT ![b] = sb]
    BY <2>2
  <2>4. /\ b \in Builder \ DOMAIN heap /\ b # NULL /\ b \in Slot
        /\ DOMAIN Allocated(b) = DOMAIN heap \cup {b} /\ Allocated(b)[b] = sb_create
        /\ \A a \in DOMAIN heap : Allocated(b)[a] = heap[a]
    BY <2>1 DEF Fresh, Slot, Allocated
  <2>5. heap'[b] = sb /\ \A a \in DOMAIN heap : heap'[a] = heap[a]
    BY <2>3, <2>4
  <2>6. access'[k] = b /\ \A j \in 1 .. n : j # k => access'[j] = access[j]
    BY <1>2, <2>1, <2>4, Facts, ExceptSeq
  <2>7. ASSUME NEW j \in 1 .. n, j # k
        PROVE  Kept(j, j)
    <3>1. access[j] # NULL => heap'[access[j]] = heap[access[j]]
      BY <2>5, <2>7, Facts
    <3>. QED
      BY <1>1, <2>6, <2>7, <3>1 DEF Kept, At
  <2>8. Kept(k, k) \/ Grown(k, k)
    <3>1. At(k) = <<>> /\ At(k)' = sb.lines
      BY <1>4, <2>4, <2>5, <2>6 DEF At
    <3>2. \/ sb.lines = <<>>
          \/ \E m \in Line : m.user = l.user /\ sb.lines = Append(<<>>, m)
      BY <2>2, <2>3, <2>4, AppendedLines DEF sb_create
    <3>. QED
      BY <1>1, <1>2, <2>2, <3>1, <3>2 DEF Kept, Grown
  <2>9. Slots(k)
    BY <1>1, <1>2, <2>7, <2>8 DEF Slots, cantUsers
  <2>. QED
    BY <2>9
<1>. QED
  BY <1>1, <1>3, <1>4

-----------------------------------------------------------------------------
(* The table takes the steps of Users, and keeps its promises.             *)

LEMMA TableSteps == [ANext]_avars => [Next]_vars
<1>. SUFFICES ASSUME [ANext]_avars PROVE [Next]_vars
  OBVIOUS
<1>1. CASE AddFromOption
  BY <1>1 DEF AddFromOption, Next
<1>2. CASE \E n \in Name, p \in Password : AddUser(n, p)
  BY <1>2 DEF AddUser, Next
<1>3. CASE \E n \in Name : DeleteUser(n)
  BY <1>3 DEF DeleteUser, Next
<1>4. CASE ChangeUser
  BY <1>4 DEF ChangeUser, Next
<1>5. CASE UNCHANGED vars
  BY <1>5
<1>. QED
  BY <1>1, <1>2, <1>3, <1>4, <1>5
     DEF ANext, authentication_read, socks_close, request_write, RecordAccess,
         LosesItself, close_users, Proxying, avars

LEMMA StepSlots ==
  ASSUME WordsFit, AInv, [ANext]_avars, process' = "up"
  PROVE  process = "up" /\ \E g : Slots(g)
<1>1. CASE AddFromOption
  <2>1. /\ args # <<>> /\ new_user(Head(args)[1], Head(args)[2])
        /\ NewAccess(Head(args)[1], Head(args)[2]) /\ process = "up"
    BY <1>1 DEF AddFromOption, main_new_user, Up
  <2>2. Head(args) \in Option
    BY <2>1, HeadTailProperties DEF AInv, OInv, Array
  <2>3. Head(args)[1] \in Name \cup {Empty} /\ Head(args)[2] \in Password \cup {Empty}
    BY <2>2 DEF Option
  <2>. QED
    BY <2>1, <2>3, NewUserSlots
<1>2. CASE \E n \in Name, p \in Password : AddUser(n, p)
  <2>1. PICK n \in Name, p \in Password : AddUser(n, p)
    BY <1>2
  <2>2. new_user(n, p) /\ NewAccess(n, p) /\ process = "up"
    BY <2>1 DEF AddUser, Up, handle_add_user
  <2>. QED
    BY <2>2, NewUserSlots
<1>3. CASE \E n \in Name : DeleteUser(n)
  <2>1. process = "up"
    BY <1>3 DEF DeleteUser, Up
  <2>. QED
    BY <1>3, <2>1, DeleteUserSlots
<1>4. CASE ChangeUser
  <2>1. process = "up" /\ UNCHANGED logs
    BY <1>4 DEF ChangeUser, Up
  <2>2. cantUsers' = cantUsers /\ \A i \in 1 .. cantUsers : users'[i].name = users[i].name
    BY <1>4, ChangeUserArray DEF AInv, OInv
  <2>. QED
    BY <2>1, <2>2, NothingChanges
<1>5. CASE \E c \in Conn : Exists(uname[c]) /\ RecordAccess(c)
  <2>1. process = "up"
    BY <1>5 DEF RecordAccess, Proxying, Up
  <2>. QED
    BY <1>5, <2>1, RecordSlots
<1>6. CASE UNCHANGED <<process, users, logs>>
  BY <1>6, NothingChanges DEF cantUsers
<1>7. CASE \E c \in Conn, n \in Name \cup {Empty} : authentication_read(c, n)
  <2>1. UNCHANGED <<process, users, logs>>
    BY <1>7 DEF authentication_read, Proxying, Up, vars
  <2>. QED
    BY <1>6, <2>1
<1>8. CASE \E c \in Conn : socks_close(c)
  <2>1. UNCHANGED <<process, users, logs>>
    BY <1>8 DEF socks_close, Proxying, Up, vars
  <2>. QED
    BY <1>6, <2>1
<1>9. CASE (\E c \in Conn : LosesItself(c)) \/ close_users
  BY <1>9 DEF LosesItself, close_users
<1>10. CASE UNCHANGED avars
  <2>1. UNCHANGED <<process, users, logs>>
    BY <1>10 DEF avars, vars
  <2>. QED
    BY <1>6, <2>1
<1>. QED
  BY <1>1, <1>2, <1>3, <1>4, <1>5, <1>7, <1>8, <1>9, <1>10 DEF ANext, request_write

LEMMA InitAInv == AInit => AInv
<1>. SUFFICES ASSUME AInit PROVE AInv
  OBVIOUS
<1>1. IInv
  BY InitIInv DEF AInit
<1>2. OInv
  BY InitOInv
<1>3. LInv
  <2>1. PICK b \in Builder \cup {NULL} :
          access = <<b>> /\ heap = [a \in {b} \ {NULL} |-> sb_create]
    BY DEF AInit
  <2>2. cantUsers = 1
    BY DEF AInit, Init, cantUsers
  <2>3. access[1] = b /\ (b # NULL => heap[b] = sb_create)
    BY <2>1
  <2>4. At(1) = <<>>
    BY <2>3 DEF At, sb_create
  <2>5. At(1) \in Seq(Line) /\ Len(At(1)) = 0
    BY <2>4, EmptySeq
  <2>6. \A i \in 1 .. cantUsers : i = 1
    BY <2>2
  <2>7. \A k \in 1 .. Len(At(1)) : FALSE
    BY <2>5
  <2>. QED
    BY <2>5, <2>6, <2>7 DEF LInv
<1>. QED
  BY <1>1, <1>2, <1>3 DEF AInv

LEMMA NextAInv ==
  WordsFit /\ AInv /\ [ANext]_avars => AInv' /\ (process' = "up" => Follows)
<1>. SUFFICES ASSUME WordsFit, AInv, [ANext]_avars
              PROVE  AInv' /\ (process' = "up" => Follows)
  OBVIOUS
<1>1. IInv'
  BY TableSteps, NextIInv DEF AInv
<1>2. OInv'
  BY NextOInv DEF AInv
<1>3. CASE process' = "up"
  <2>1. process = "up"
    BY <1>3, StepSlots
  <2>2. PICK g : Slots(g)
    BY <1>3, StepSlots
  <2>3. LInv' /\ Follows
    BY <1>1, <2>1, <2>2, SlotsFollow DEF AInv
  <2>. QED
    BY <1>1, <1>2, <2>3 DEF AInv
<1>4. CASE process' # "up"
  BY <1>1, <1>2, <1>4 DEF AInv, LInv
<1>. QED
  BY <1>3, <1>4

\* The accesses of a user stay with the account through every move of the
\* array, are not mixed with those of another, and are gone with it: a name
\* created anew begins with nothing.
THEOREM LogsAlwaysFollow == ASSUME WordsFit PROVE ASpec => LogsFollowAccounts
<1>. DEFINE Step == process' = "up" => Follows
<1>1. AInv /\ [ANext]_avars => AInv' /\ [Step]_avars
  BY NextAInv
<1>2. Step <=> (process' = "up" =>
        /\ \A n \in Names' : IF n \in Names THEN IsPrefix(Log(n), Log(n)') ELSE Log(n)' = <<>>
        /\ \A n \in Names' : \A k \in 1 .. Len(Log(n)') : (Log(n)')[k].user = n
        /\ \A m, n \in Names \cap Names' : Log(m)' # Log(m) /\ Log(n)' # Log(n) => m = n)
  BY DEF Follows
<1>. QED
  BY <1>1, <1>2, InitAInv, PTL DEF ASpec, LogsFollowAccounts

\* Under the connections and the commands the table of accounts keeps its
\* own promises, since none of them does more to it than Users says.
THEOREM AccountsUnderConnections == ASSUME WordsFit PROVE ASpec => ImplementsAccounts
<1>1. AInit => Init
  BY DEF AInit
<1>2. ASpec => Spec
  BY <1>1, TableSteps, PTL DEF ASpec, Spec
<1>. QED
  BY <1>2, UsersImplementAccounts, PTL

-----------------------------------------------------------------------------
(* The room in a string.                                                   *)

\* Induction by way of a set.
LEMMA NaturalsIn ==
  ASSUME NEW S, 0 \in S, \A n \in Nat : n \in S => n + 1 \in S
  PROVE  Nat \subseteq S
<1> SUFFICES ASSUME Nat \ S # {} PROVE FALSE
  OBVIOUS
<1>1. PICK m \in Nat \ S : \A y \in Nat \ S : m <= y
  BY HasLeast
<1>2. m - 1 \in Nat /\ m - 1 + 1 = m
  OBVIOUS
<1> QED BY <1>1, <1>2

Iterates(g, V, first, step) ==
  g \in [Nat -> V] /\ g[0] = first /\ \A n \in Nat : g[n + 1] = step[g[n]]

\* A sequence of values of V defined by its first and by a step.
LEMMA Iterated ==
  ASSUME NEW V, NEW first \in V, NEW step \in [V -> V]
  PROVE  \E g : Iterates(g, V, first, step)
<1> DEFINE Upto(n) == {g \in [0 .. n -> V] : /\ g[0] = first
                        /\ \A i \in 0 .. n - 1 : g[i + 1] = step[g[i]]}
           S == {n \in Nat : \E g : g \in Upto(n)}
           h == [n \in Nat |-> CHOOSE g : g \in Upto(n)]
           f == [n \in Nat |-> h[n][n]]
<1>1. Nat \subseteq S
  <2>1. 0 \in S
    <3>1. [i \in 0 .. 0 |-> first] \in Upto(0)
      OBVIOUS
    <3> QED BY <3>1
  <2>2. ASSUME NEW n \in Nat, n \in S PROVE n + 1 \in S
    <3>1. PICK g : g \in Upto(n)
      BY <2>2
    <3>2. g[n] \in V /\ step[g[n]] \in V
      BY <3>1
    <3> DEFINE e == [i \in 0 .. n + 1 |-> IF i = n + 1 THEN step[g[n]] ELSE g[i]]
    <3>3. e \in [0 .. n + 1 -> V]
      BY <3>1, <3>2
    <3>4. e[0] = first
      BY <3>1
    <3>5. ASSUME NEW i \in 0 .. n + 1 - 1 PROVE e[i + 1] = step[e[i]]
      <4>1. CASE i = n
        BY <4>1
      <4>2. CASE i # n
        <5>1. i \in 0 .. n - 1 /\ i + 1 \in 0 .. n
          BY <4>2
        <5>2. e[i] = g[i] /\ e[i + 1] = g[i + 1]
          BY <5>1
        <5> HIDE DEF e
        <5> QED BY <3>1, <5>1, <5>2
      <4> QED BY <4>1, <4>2
    <3>6. e \in Upto(n + 1)
      <4> HIDE DEF e
      <4> QED BY <3>3, <3>4, <3>5
    <3> HIDE DEF e, Upto
    <3> QED BY <3>6
  <2> HIDE DEF S
  <2> QED BY <2>1, <2>2, NaturalsIn
<1>2. ASSUME NEW n \in Nat PROVE h[n] \in Upto(n)
  <2>1. \E g : g \in Upto(n)
    BY <1>1
  <2> HIDE DEF Upto
  <2> QED BY <2>1
<1>3. ASSUME NEW n \in Nat PROVE f[n + 1] = step[f[n]]
  <2> DEFINE Same == {i \in Nat : i <= n => h[n][i] = h[n + 1][i]}
  <2>1. h[n] \in Upto(n) /\ h[n + 1] \in Upto(n + 1)
    <3>1. n + 1 \in Nat
      OBVIOUS
    <3> HIDE DEF h, Upto
    <3> QED BY <1>2, <3>1
  <2> HIDE DEF h
  <2>2. 0 \in Same
    BY <2>1
  <2>3. ASSUME NEW i \in Nat, i \in Same PROVE i + 1 \in Same
    <3>1. SUFFICES ASSUME i + 1 <= n PROVE h[n][i + 1] = h[n + 1][i + 1]
      OBVIOUS
    <3>2. h[n][i] = h[n + 1][i]
      BY <2>3, <3>1
    <3>3. i \in 0 .. n - 1 /\ i \in 0 .. (n + 1) - 1
      BY <3>1
    <3>4. h[n][i + 1] = step[h[n][i]] /\ h[n + 1][i + 1] = step[h[n + 1][i]]
      BY <2>1, <3>3
    <3> QED BY <3>2, <3>4
  <2>4. h[n][n] = h[n + 1][n]
    <3>1. Nat \subseteq Same
      <4> HIDE DEF Same
      <4> QED BY <2>2, <2>3, NaturalsIn
    <3> QED BY <3>1
  <2>5. h[n + 1][n + 1] = step[h[n + 1][n]]
    BY <2>1
  <2> QED BY <2>4, <2>5
<1>4. f \in [Nat -> V] /\ f[0] = first
  <2>1. \A n \in Nat : h[n][n] \in V /\ h[n][0] = first
    <3> HIDE DEF h
    <3> QED BY <1>2
  <2> HIDE DEF h
  <2> QED BY <2>1
<1>5. Iterates(f, V, first, step)
  BY <1>3, <1>4 DEF Iterates
<1> HIDE DEF f
<1> QED BY <1>5

\* The capacity after so many rounds of the loop of sb_append.
LEMMA NewCapacity ==
  ASSUME NEW c \in Nat
  PROVE  /\ new_capacity(c) \in [Nat -> Nat]
         /\ new_capacity(c)[0] = c * 2
         /\ \A k \in Nat : new_capacity(c)[k + 1] = new_capacity(c)[k] * 2
<1> DEFINE step == [n \in Nat |-> n * 2]
           first == c * 2
           N == new_capacity(c)
<1>1. PICK g : Iterates(g, Nat, first, step)
  <2>1. step \in [Nat -> Nat] /\ first \in Nat
    OBVIOUS
  <2> HIDE DEF step, first
  <2> QED BY <2>1, Iterated
<1>2. g \in [Nat -> Nat] /\ g[0] = c * 2 /\ \A n \in Nat : g[n + 1] = g[n] * 2
  BY <1>1 DEF Iterates
<1>3. g = [k \in Nat |-> IF k = 0 THEN c * 2 ELSE g[k - 1] * 2]
  <2>1. \A k \in Nat \ {0} : g[k] = g[k - 1] * 2
    BY <1>2
  <2> QED BY <1>2, <2>1
<1>4. N = [k \in Nat |-> IF k = 0 THEN c * 2 ELSE N[k - 1] * 2]
  BY <1>3 DEF new_capacity
<1> HIDE DEF N
<1>5. N[0] = c * 2 /\ \A k \in Nat : N[k + 1] = N[k] * 2
  BY <1>4
<1> DEFINE S == {k \in Nat : N[k] \in Nat}
<1>6. Nat \subseteq S
  <2>1. 0 \in S /\ \A n \in Nat : n \in S => n + 1 \in S
    BY <1>5
  <2> HIDE DEF S
  <2> QED BY <2>1, NaturalsIn
<1>7. N \in [Nat -> Nat]
  BY <1>4, <1>6
<1> QED BY <1>5, <1>7 DEF N

\* The loop ends, with room for what is needed.
LEMMA DoubledIsEnough ==
  ASSUME NEW c \in Nat \ {0}, NEW needed \in Nat
  PROVE  Doubled(c, needed) \in Nat /\ Doubled(c, needed) >= needed
<1> DEFINE N == new_capacity(c)
           S == {k \in Nat : N[k] > k}
           E == {k \in 0 .. needed : N[k] >= needed}
<1>1. N \in [Nat -> Nat] /\ N[0] = c * 2 /\ \A k \in Nat : N[k + 1] = N[k] * 2
  BY NewCapacity
<1> HIDE DEF N
<1>2. Nat \subseteq S
  <2>1. 0 \in S /\ \A n \in Nat : n \in S => n + 1 \in S
    BY <1>1
  <2> HIDE DEF S
  <2> QED BY <2>1, NaturalsIn
<1>3. needed \in E
  BY <1>1, <1>2
<1>4. PICK k \in E : \A j \in E : k <= j
  <2>1. E \in SUBSET Nat /\ E # {}
    BY <1>3
  <2> HIDE DEF E
  <2> QED BY <2>1, HasLeast
<1> DEFINE least == CHOOSE i \in E : \A j \in E : i <= j
<1>5. least \in E
  BY <1>4
<1>6. Doubled(c, needed) = N[least]
  BY DEF Doubled, N
<1> HIDE DEF least
<1> QED BY <1>1, <1>5, <1>6

Sound(sb) == sb \in StringBuilder /\ Fits(sb)

LEMMA CreatedSound == Sound(sb_create)
  BY BuilderAssumption DEF Sound, sb_create, StringBuilder, Fits

\* sb_append keeps within the buffer.
LEMMA AppendSound ==
  ASSUME NEW sb, Sound(sb), NEW l \in Line
  PROVE  Sound(sb_append(sb, l))
<1>1. /\ sb.lines \in Seq(Line) /\ sb.length \in Nat /\ sb.capacity \in Nat \ {0}
      /\ sb.length + 1 <= sb.capacity
  BY DEF Sound, StringBuilder, Fits
<1>2. l.size \in Nat \ {0}
  BY BuilderAssumption
<1> DEFINE needed == Needed(sb, l)
           capacity == IF needed > sb.capacity THEN Doubled(sb.capacity, needed)
                       ELSE sb.capacity
<1>3. needed = sb.length + l.size + 1 /\ needed \in Nat
  BY <1>1, <1>2 DEF Needed
<1> HIDE DEF needed
<1>4. capacity \in Nat /\ capacity >= needed
  <2>1. sb.capacity \in Nat \ {0} /\ sb.capacity \in Nat
    BY <1>1
  <2>2. Doubled(sb.capacity, needed) \in Nat /\ Doubled(sb.capacity, needed) >= needed
    BY <1>3, <2>1, DoubledIsEnough
  <2> QED BY <1>3, <2>1, <2>2
<1>5. sb_append(sb, l) = [lines |-> Append(sb.lines, l), length |-> sb.length + l.size,
                          capacity |-> capacity]
  BY DEF sb_append, needed
<1> HIDE DEF capacity
<1>6. Append(sb.lines, l) \in Seq(Line)
  BY <1>1, AppendProperties
<1> QED BY <1>1, <1>2, <1>3, <1>4, <1>5, <1>6 DEF Sound, StringBuilder, Fits

\* So does a line of which some pieces found no memory.
LEMMA AppendedSound ==
  ASSUME NEW sb, Sound(sb), NEW l \in Line, NEW r \in Appended(sb, l)
  PROVE  Sound(r)
<1>1. CASE r = sb_append(sb, l)
  BY <1>1, AppendSound
<1>2. CASE \E m \in Pieces(l) : r = sb_append(sb, m)
  BY <1>2, AppendSound, PiecesAreLines
<1> QED BY <1>1, <1>2 DEF Appended

-----------------------------------------------------------------------------
(* Types, and strings that keep to their buffers.                          *)

AllSound(h) == DOMAIN h \subseteq Builder /\ \A b \in DOMAIN h : Sound(h[b])

Fields == /\ access \in Seq(Slot) /\ Len(access) = cantUsers
          /\ uname \in [Conn -> Name \cup {Empty, Idle}]
          /\ process \in {"up", "down", "undefined"}

\* OInv says where access points while the program is up, and that a string
\* that is written to has not been freed.
FInv == OInv /\ Fields /\ AllSound(heap)

LEMMA AllocatedSound ==
  ASSUME AllSound(heap), NEW b \in Builder \cup {NULL}
  PROVE  AllSound(Allocated(b))
<1>1. CASE b = NULL
  BY <1>1 DEF Allocated
<1>2. CASE b # NULL
  <2>1. DOMAIN Allocated(b) = DOMAIN heap \cup {b}
    BY <1>2, AllocatedDomain
  <2>2. \A a \in DOMAIN heap \cup {b} :
          Allocated(b)[a] = IF a = b THEN sb_create ELSE heap[a]
    BY <1>2 DEF Allocated
  <2> QED BY <1>2, <2>1, <2>2, CreatedSound DEF AllSound
<1> QED BY <1>1, <1>2

LEMMA FreedSound ==
  ASSUME AllSound(heap), NEW S
  PROVE  AllSound(Freed(S))
  BY DEF AllSound, Freed

LEMMA RecordSound ==
  ASSUME NEW h, AllSound(h), NEW b \in DOMAIN h, NEW name, Record(h, b, name)
  PROVE  AllSound(heap')
<1>1. PICK l \in Line : \E sb \in Appended(h[b], l) : heap' = [h EXCEPT ![b] = sb]
  BY DEF Record
<1>2. PICK sb \in Appended(h[b], l) : heap' = [h EXCEPT ![b] = sb]
  BY <1>1
<1>3. Sound(sb)
  BY <1>2, AppendedSound DEF AllSound
<1>4. DOMAIN heap' = DOMAIN h /\ \A a \in DOMAIN h : heap'[a] = IF a = b THEN sb ELSE h[a]
  BY <1>2
<1> QED BY <1>3, <1>4 DEF AllSound

LEMMA NewAccessSound ==
  ASSUME AllSound(heap), NEW name, NEW pass, NewAccess(name, pass)
  PROVE  AllSound(heap')
<1>1. CASE CanCreate(name, pass)
  <2>1. PICK b \in Fresh : heap' = Allocated(b)
    BY <1>1 DEF NewAccess
  <2> QED BY <2>1, AllocatedSound DEF Fresh
<1>2. CASE ~CanCreate(name, pass)
  BY <1>2 DEF NewAccess, logs
<1> QED BY <1>1, <1>2

LEMMA RecordAccessSound ==
  ASSUME OInv, AllSound(heap), NEW c, Exists(uname[c]), RecordAccess(c)
  PROVE  AllSound(heap')
<1> DEFINE name == uname[c]
           p == access[user_exists(name)]
<1>1. /\ process = "up"
      /\ \/ p # NULL /\ Record(heap, p, name)
         \/ p = NULL /\ \E b \in Fresh \ {NULL} : Record(Allocated(b), b, name)
  BY DEF RecordAccess, Proxying, Up, get_access
<1>2. CASE p # NULL /\ Record(heap, p, name)
  <2>1. user_exists(name) \in 1 .. Len(access)
    BY <1>1, FirstFound DEF OInv
  <2>2. p \in DOMAIN heap
    BY <1>1, <1>2, <2>1 DEF OInv, OneOwner
  <2> QED BY <1>2, <2>2, RecordSound
<1>3. CASE p = NULL /\ \E b \in Fresh \ {NULL} : Record(Allocated(b), b, name)
  <2>1. PICK b \in Fresh \ {NULL} : Record(Allocated(b), b, name)
    BY <1>3
  <2>2. b \in DOMAIN Allocated(b) /\ b \in Builder \cup {NULL}
    BY <2>1, AllocatedDomain DEF Fresh
  <2> QED BY <2>1, <2>2, AllocatedSound, RecordSound
<1> QED BY <1>1, <1>2, <1>3

\* What each step does to the strings and to the names of the connections.
LEMMA StepSound ==
  ASSUME FInv, [ANext]_avars
  PROVE  /\ AllSound(heap')
         /\ uname' \in [Conn -> Name \cup {Empty, Idle}]
         /\ process' \in {"up", "down", "undefined"}
<1>0. OInv /\ AllSound(heap) /\ uname \in [Conn -> Name \cup {Empty, Idle}]
  BY DEF FInv, Fields
<1>1. CASE AddFromOption
  BY <1>0, <1>1, NewAccessSound DEF AddFromOption, Up
<1>2. CASE \E n \in Name, p \in Password : AddUser(n, p)
  BY <1>0, <1>2, NewAccessSound DEF AddUser, Up
<1>3. CASE \E n \in Name : DeleteUser(n)
  BY <1>0, <1>3, FreedSound DEF DeleteUser, Up, Deleted, logs
<1>4. CASE ChangeUser
  BY <1>0, <1>4 DEF ChangeUser, Up, logs
<1>5. CASE \E c \in Conn, n \in Name \cup {Empty} : authentication_read(c, n)
  BY <1>0, <1>5 DEF authentication_read, Proxying, Up, logs
<1>6. CASE \E c \in Conn : socks_close(c)
  BY <1>0, <1>6 DEF socks_close, Proxying, Up, logs
<1>7. CASE \E c \in Conn : Exists(uname[c]) /\ RecordAccess(c)
  BY <1>0, <1>7, RecordAccessSound DEF RecordAccess, Proxying, Up
<1>8. CASE \E c \in Conn : LosesItself(c)
  BY <1>0, <1>8 DEF LosesItself, logs
<1>9. CASE close_users
  BY <1>0, <1>9, FreedSound DEF close_users
<1>10. CASE UNCHANGED avars
  BY <1>0, <1>10 DEF avars, logs, FInv, Fields
<1> QED
  BY <1>1, <1>2, <1>3, <1>4, <1>5, <1>6, <1>7, <1>8, <1>9, <1>10 DEF ANext, request_write

LEMMA NextFInv == FInv /\ [ANext]_avars => FInv'
<1> SUFFICES ASSUME FInv, [ANext]_avars PROVE FInv'
  OBVIOUS
<1>1. OInv'
  BY NextOInv DEF FInv
<1>2. access' \in Seq(Slot) /\ Len(access') = cantUsers'
  <2>1. CASE process' = "up"
    BY <1>1, <2>1 DEF OInv
  <2>2. CASE process' # "up"
    <3>1. UNCHANGED <<users, access>>
      BY <2>2 DEF ANext, AddFromOption, AddUser, DeleteUser, ChangeUser, Up, Proxying,
         authentication_read, socks_close, request_write, RecordAccess, LosesItself,
         close_users, avars, vars, logs
    <3> QED BY <3>1 DEF FInv, Fields, cantUsers
  <2> QED BY <2>1, <2>2
<1> QED BY <1>1, <1>2, StepSound DEF FInv, Fields

LEMMA InitFInv == AInit => FInv
<1> SUFFICES ASSUME AInit PROVE FInv
  OBVIOUS
<1>1. OInv /\ process = "up" /\ uname = [c \in Conn |-> Idle]
  BY InitOInv DEF AInit
<1>2. Fields
  BY <1>1 DEF OInv, Fields
<1>3. AllSound(heap)
  BY CreatedSound DEF AInit, AllSound
<1> QED BY <1>1, <1>2, <1>3 DEF FInv

\* No access is ever written past the buffer of its string: the doubling of
\* sb_append ends with room for the line and its terminating zero, and a
\* failed realloc loses pieces of the line and nothing else, for lines of any size and any
\* initial capacity.
THEOREM StringsKeepToBuffers == ASpec => []BuildersFit
<1>1. FInv => BuildersFit
  BY DEF FInv, AllSound, Sound, BuildersFit
<1> QED BY <1>1, InitFInv, NextFInv, PTL DEF ASpec

\* The types of the accounts, their strings and the connections' names.
THEOREM AccessTypeCorrect == ASpec => []ATypeOK
<1>1. AInit => CInv
  BY InitAInv DEF AInv, IInv, CInv
<1>2. CInv /\ [ANext]_avars => CInv'
  BY TableSteps, NextCInv
<1>3. CInv /\ FInv => ATypeOK
  BY CInvTypeOK DEF FInv, Fields, AllSound, Sound, Slot, ATypeOK
<1> QED BY <1>1, <1>2, <1>3, InitFInv, NextFInv, PTL DEF ASpec
=============================================================================
