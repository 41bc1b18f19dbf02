--------------------------- MODULE SelectorProofs ---------------------------
(***************************************************************************)
(* Proofs about the descriptor table of shared/selector.c for every table  *)
(* size, every number of resolver threads and every set of interests: the  *)
(* fd_sets given to pselect are the live interests, and max_fd is the      *)
(* largest descriptor in use although unregistering recomputes it only     *)
(* from below.                                                             *)
(***************************************************************************)
EXTENDS Selector, TLAPS, WellFoundedInduction

-----------------------------------------------------------------------------
(* Induction over the naturals, by way of sets and functions.              *)

\* A set that holds 0 and the successor of each of its naturals holds all.
LEMMA NaturalsIn ==
  ASSUME NEW S, 0 \in S, \A n \in Nat : n \in S => n + 1 \in S
  PROVE  Nat \subseteq S
<1> SUFFICES ASSUME Nat \ S # {} PROVE FALSE
  OBVIOUS
<1> DEFINE R == {rs \in Nat \X Nat : rs[1] < rs[2]}
           T == Nat \ S
<1>1. IsWellFoundedOn(R, Nat)
  BY NatLessThanWellFounded DEF OpToRel
<1>2. \E x \in T : \A y \in T : ~(<<y, x>> \in R)
  <2>1. T \subseteq Nat /\ T # {}
    OBVIOUS
  <2> HIDE DEF T, R
  <2> QED BY <1>1, <2>1, WFMin, Zenon
<1>3. PICK m \in T : \A y \in T : ~(<<y, m>> \in R)
  BY <1>2
<1>4. m # 0
  OBVIOUS
<1>5. m - 1 \in Nat /\ m - 1 < m /\ m - 1 + 1 = m
  BY <1>4
<1>6. m - 1 \notin T
  BY <1>3, <1>5
<1> QED BY <1>5, <1>6

Iterates(g, V, first, step) ==
  g \in [Nat -> V] /\ g[0] = first /\ \A n \in Nat : g[n + 1] = step[g[n]]

\* A sequence of values of V defined by its first and by a step.
LEMMA Iterated ==
  ASSUME NEW V, NEW first \in V, NEW step \in [V -> V]
  PROVE  \E g : Iterates(g, V, first, step)
<1> DEFINE Upto(n) == {g \in [0 .. n -> V] : /\ g[0] = first
                        /\ \A i \in 0 .. n - 1 : g[i + 1] = step[g[i]]}
           S == {n \in Nat : \E g : g \in Upto(n)}
           h == [n \in Nat |-> CHOOSE g : g \in Upto(n)]
           f == [n \in Nat |-> h[n][n]]
<1>1. Nat \subseteq S
  <2>1. 0 \in S
    <3>1. [i \in 0 .. 0 |-> first] \in Upto(0)
      OBVIOUS
    <3> QED BY <3>1
  <2>2. ASSUME NEW n \in Nat, n \in S PROVE n + 1 \in S
    <3>1. PICK g : g \in Upto(n)
      BY <2>2
    <3>2. g[n] \in V /\ step[g[n]] \in V
      BY <3>1
    <3> DEFINE e == [i \in 0 .. n + 1 |-> IF i = n + 1 THEN step[g[n]] ELSE g[i]]
    <3>3. e \in [0 .. n + 1 -> V]
      BY <3>1, <3>2
    <3>4. e[0] = first
      BY <3>1
    <3>5. ASSUME NEW i \in 0 .. n + 1 - 1 PROVE e[i + 1] = step[e[i]]
      <4>1. CASE i = n
        BY <4>1
      <4>2. CASE i # n
        <5>1. i \in 0 .. n - 1 /\ i + 1 \in 0 .. n
          BY <4>2
        <5>2. e[i] = g[i] /\ e[i + 1] = g[i + 1]
          BY <5>1
        <5> HIDE DEF e
        <5> QED BY <3>1, <5>1, <5>2
      <4> QED BY <4>1, <4>2
    <3>6. e \in Upto(n + 1)
      <4> HIDE DEF e
      <4> QED BY <3>3, <3>4, <3>5
    <3> HIDE DEF e, Upto
    <3> QED BY <3>6
  <2> HIDE DEF S
  <2> QED BY <2>1, <2>2, NaturalsIn
<1>2. ASSUME NEW n \in Nat PROVE h[n] \in Upto(n)
  <2>1. \E g : g \in Upto(n)
    BY <1>1
  <2> HIDE DEF Upto
  <2> QED BY <2>1
<1>3. ASSUME NEW n \in Nat PROVE f[n + 1] = step[f[n]]
  <2> DEFINE Same == {i \in Nat : i <= n => h[n][i] = h[n + 1][i]}
  <2>1. h[n] \in Upto(n) /\ h[n + 1] \in Upto(n + 1)
    <3>1. n + 1 \in Nat
      OBVIOUS
    <3> HIDE DEF h, Upto
    <3> QED BY <1>2, <3>1
  <2> HIDE DEF h
  <2>2. 0 \in Same
    BY <2>1
  <2>3. ASSUME NEW i \in Nat, i \in Same PROVE i + 1 \in Same
    <3>1. SUFFICES ASSUME i + 1 <= n PROVE h[n][i + 1] = h[n + 1][i + 1]
      OBVIOUS
    <3>2. h[n][i] = h[n + 1][i]
      BY <2>3, <3>1
    <3>3. i \in 0 .. n - 1 /\ i \in 0 .. (n + 1) - 1
      BY <3>1
    <3>4. h[n][i + 1] = step[h[n][i]] /\ h[n + 1][i + 1] = step[h[n + 1][i]]
      BY <2>1, <3>3
    <3> QED BY <3>2, <3>4
  <2>4. h[n][n] = h[n + 1][n]
    <3>1. Nat \subseteq Same
      <4> HIDE DEF Same
      <4> QED BY <2>2, <2>3, NaturalsIn
    <3> QED BY <3>1
  <2>5. h[n + 1][n + 1] = step[h[n + 1][n]]
    BY <2>1
  <2> QED BY <2>4, <2>5
<1>4. f \in [Nat -> V] /\ f[0] = first
  <2>1. \A n \in Nat : h[n][n] \in V /\ h[n][0] = first
    <3> HIDE DEF h
    <3> QED BY <1>2
  <2> HIDE DEF h
  <2> QED BY <2>1
<1>5. Iterates(f, V, first, step)
  BY <1>3, <1>4 DEF Iterates
<1> HIDE DEF f
<1> QED BY <1>5

-----------------------------------------------------------------------------
(* The sizes of the table.                                                 *)

\* 1UL << bits doubles with every bit.
LEMMA Powers ==
  /\ power \in [Nat -> Nat]
  /\ power[0] = 1 /\ \A k \in Nat : power[k + 1] = 2 * power[k]
<1> DEFINE step == [p \in Nat |-> 2 * p]
<1>1. PICK g : Iterates(g, Nat, 1, step)
  <2>1. step \in [Nat -> Nat]
    OBVIOUS
  <2> HIDE DEF step
  <2> QED BY <2>1, Iterated
<1>2. g \in [Nat -> Nat] /\ g[0] = 1 /\ \A n \in Nat : g[n + 1] = 2 * g[n]
  BY <1>1 DEF Iterates
<1>3. g = [k \in Nat |-> IF k = 0 THEN 1 ELSE 2 * g[k - 1]]
  <2>1. \A k \in Nat \ {0} : g[k] = 2 * g[k - 1]
    BY <1>2
  <2> QED BY <1>2, <2>1
<1>4. power = [k \in Nat |-> IF k = 0 THEN 1 ELSE 2 * power[k - 1]]
  BY <1>3 DEF power
<1>5. power[0] = 1 /\ \A k \in Nat : power[k + 1] = 2 * power[k]
  BY <1>4
<1> DEFINE S == {k \in Nat : power[k] \in Nat}
<1>6. Nat \subseteq S
  <2>1. 0 \in S /\ \A n \in Nat : n \in S => n + 1 \in S
    BY <1>5
  <2> HIDE DEF S
  <2> QED BY <2>1, NaturalsIn
<1> QED BY <1>4, <1>5, <1>6

\* There is a power of two above n that is at most twice n, so that the size
\* next_capacity chooses is defined: it has room behind slot n.
LEMMA NextCapacity ==
  ASSUME NEW n \in Nat
  PROVE  /\ next_capacity(n) \in Nat /\ next_capacity(n) <= MaxSize + 1
         /\ n < MaxSize => next_capacity(n) > n + 1
         /\ n >= MaxSize => next_capacity(n) = MaxSize + 1
<1> DEFINE Above(m, p) == m < p /\ (p <= 2 * m \/ p = 1)
           S == {m \in Nat : \E k \in 0 .. m : Above(m, power[k])}
<1>1. 0 \in S
  BY Powers
<1>2. ASSUME NEW m \in Nat, m \in S PROVE m + 1 \in S
  <2>1. PICK k \in 0 .. m : Above(m, power[k])
    BY <1>2
  <2>2. power[k] \in Nat /\ power[k + 1] = 2 * power[k]
    BY Powers
  <2>3. CASE m + 1 < power[k]
    <3>1. k \in 0 .. m + 1 /\ Above(m + 1, power[k])
      BY <2>1, <2>2, <2>3
    <3> QED BY <3>1
  <2>4. CASE m + 1 = power[k]
    <3>1. k + 1 \in 0 .. m + 1 /\ Above(m + 1, power[k + 1])
      BY <2>1, <2>2, <2>4
    <3> QED BY <3>1
  <2> QED BY <2>1, <2>2, <2>3, <2>4
<1>3. n \in S
  <2> HIDE DEF S
  <2> QED BY <1>1, <1>2, NaturalsIn
<1>4. \E p \in {power[k] : k \in 0 .. n} : Above(n, p)
  BY <1>3
<1> DEFINE p == CHOOSE p \in {power[k] : k \in 0 .. n} : Above(n, p)
<1>5. p \in {power[k] : k \in 0 .. n} /\ n < p
  BY <1>4
<1>6. p \in Nat
  <2> HIDE DEF p
  <2> QED BY <1>5, Powers
<1>7. next_capacity(n) = (IF p > MaxSize THEN MaxSize ELSE p) + 1
  BY DEF next_capacity
<1> HIDE DEF p
<1> QED BY <1>5, <1>6, <1>7, SelectorAssumption

\* Every descriptor has its slot in the table selector_new allocates, so
\* the test `ufd > fd_size' of selector_register never asks for a larger one.
THEOREM TableNeverGrows == \A fd \in Fd : fd < fd_size
  BY NextCapacity, SelectorAssumption DEF Fd, fd_size

-----------------------------------------------------------------------------
(* The prototype sets and max_fd.                                          *)

\* A nonempty set of naturals with a bound has a largest element: the
\* distances from the bound have a least one.
LEMMA BoundedHasMax ==
  ASSUME NEW S \in SUBSET Nat, S # {}, NEW n \in Nat, \A s \in S : s <= n
  PROVE  \E m \in S : \A s \in S : s <= m
<1> DEFINE R == {rs \in Nat \X Nat : rs[1] < rs[2]}
           T == {n - s : s \in S}
<1>1. IsWellFoundedOn(R, Nat)
  BY NatLessThanWellFounded DEF OpToRel
<1>2. T \subseteq Nat /\ T # {}
  <2>1. \A s \in S : n - s \in Nat
    OBVIOUS
  <2> QED BY <2>1
<1>3. \E x \in T : \A y \in T : ~(<<y, x>> \in R)
  <2> HIDE DEF T, R
  <2> QED BY <1>1, <1>2, WFMin, Zenon
<1>4. PICK m \in S : \A s \in S : ~(<<n - s, n - m>> \in R)
  BY <1>3
<1>5. \A s \in S : ~(n - s < n - m)
  BY <1>4, <1>2
<1>6. \A s \in S : s \in Nat
  OBVIOUS
<1> QED BY <1>5, <1>6

\* The inductive invariant.  The types are those the two properties need;
\* MaxFdIsMax must come along because items_max_fd looks no further than
\* the old max_fd.
TableType == /\ used \in SUBSET Fd
             /\ interest \in [Fd -> SUBSET Op]
             /\ max_fd \in Fd

IInv == TableType /\ FdSetsMatch /\ MaxFdIsMax

-----------------------------------------------------------------------------
\* What items_max_fd returns when every descriptor of the set is within the
\* old max_fd: the largest of them, or 0 when there is none.
LEMMA ItemsMaxFd ==
  ASSUME max_fd \in Fd, NEW D \in SUBSET Fd, \A fd \in D : fd <= max_fd
  PROVE  /\ items_max_fd(D) \in Fd
         /\ \A fd \in D : fd <= items_max_fd(D)
         /\ items_max_fd(D) \in D \/ (D = {} /\ items_max_fd(D) = 0)
<1>1. {fd \in D : fd <= max_fd} = D
  OBVIOUS
<1>2. CASE D = {}
  BY <1>1, <1>2, SelectorAssumption DEF items_max_fd, Fd
<1>3. CASE D # {}
  <2>1. D \in SUBSET Nat /\ max_fd \in Nat
    BY SelectorAssumption DEF Fd
  <2>2. \E m \in D : \A fd \in D : fd <= m
    BY <1>3, <2>1, BoundedHasMax
  <2>3. items_max_fd(D) = CHOOSE m \in D : \A fd \in D : fd <= m
    BY <1>1, <1>3 DEF items_max_fd
  <2> QED BY <2>2, <2>3
<1> QED BY <1>2, <1>3

LEMMA RegisterIInv ==
  ASSUME IInv, NEW fd \in Fd, NEW i \in SUBSET Op, selector_register(fd, i)
  PROVE  IInv'
<1>1. TableType'
  BY DEF IInv, TableType, selector_register
<1>2. FdSetsMatch'
  BY DEF IInv, TableType, FdSetsMatch, selector_register, items_update_fdset_for_fd
<1>3. MaxFdIsMax'
  BY SelectorAssumption DEF IInv, TableType, MaxFdIsMax, Fd, selector_register
<1> QED BY <1>1, <1>2, <1>3 DEF IInv

LEMMA UnregisterIInv ==
  ASSUME IInv, NEW fd \in used, selector_unregister_fd(fd)
  PROVE  IInv'
<1>1. /\ max_fd \in Fd
      /\ used \ {fd} \in SUBSET Fd
      /\ \A e \in used \ {fd} : e <= max_fd
  BY DEF IInv, TableType, MaxFdIsMax
<1>2. /\ max_fd' \in Fd
      /\ \A e \in used' : e <= max_fd'
      /\ max_fd' \in used' \/ (used' = {} /\ max_fd' = 0)
  BY <1>1, ItemsMaxFd DEF selector_unregister_fd
<1>3. TableType'
  BY <1>2 DEF IInv, TableType, selector_unregister_fd
<1>4. FdSetsMatch'
  BY DEF IInv, TableType, FdSetsMatch, selector_unregister_fd,
         items_update_fdset_for_fd
<1> QED BY <1>2, <1>3, <1>4 DEF IInv, MaxFdIsMax

LEMMA SetInterestIInv ==
  ASSUME IInv, NEW fd \in used, NEW i \in SUBSET Op, selector_set_interest(fd, i)
  PROVE  IInv'
<1>1. TableType' /\ MaxFdIsMax'
  BY DEF IInv, TableType, MaxFdIsMax, selector_set_interest
<1>2. FdSetsMatch'
  BY DEF IInv, TableType, FdSetsMatch, selector_set_interest,
         items_update_fdset_for_fd
<1> QED BY <1>1, <1>2 DEF IInv

\* The steps that do not touch the table.
LEMMA TableUnchanged ==
  ASSUME IInv, UNCHANGED table
  PROVE  IInv'
  BY DEF table, IInv, TableType, FdSetsMatch, MaxFdIsMax

LEMMA InitIInv == Init => IInv
  BY SelectorAssumption DEF Init, IInv, TableType, FdSetsMatch, MaxFdIsMax, Fd, Op

LEMMA NextIInv == IInv /\ [Next]_vars => IInv'
<1> SUFFICES ASSUME IInv, [Next]_vars PROVE IInv'
  OBVIOUS
<1>1. CASE Loop
  BY <1>1, TableUnchanged
     DEF Loop, select_ready, select_interrupted, handle_iteration, end_iteration,
         handle_block_notifications
<1>2. CASE CallRegister
  <2>1. CASE UNCHANGED table
    BY <2>1, TableUnchanged
  <2>2. CASE LowestFree \in Fd /\ \E i \in Interests : selector_register(LowestFree, i)
    <3>1. PICK i \in Interests : selector_register(LowestFree, i)
      BY <2>2
    <3>2. i \in SUBSET Op
      BY <3>1, SelectorAssumption DEF Op
    <3> QED BY <2>2, <3>1, <3>2, RegisterIInv
  <2> QED BY <1>2, <2>1, <2>2 DEF CallRegister
<1>3. CASE CallUnregister
  BY <1>3, UnregisterIInv DEF CallUnregister
<1>4. CASE CallSetInterest
  <2>1. PICK fd \in used, i \in Interests : selector_set_interest(fd, i)
    BY <1>4 DEF CallSetInterest
  <2>2. i \in SUBSET Op
    BY <2>1, SelectorAssumption DEF Op
  <2> QED BY <2>1, <2>2, SetInterestIInv
<1>5. CASE CallResolve \/ handler_return
  BY <1>5, TableUnchanged DEF CallResolve, handler_return
<1>6. CASE \E w \in Worker : Resolver(w)
  BY <1>6, TableUnchanged DEF Resolver, notify_push, notify_signal
<1>7. CASE UNCHANGED vars
  BY <1>7, TableUnchanged DEF vars
<1> QED BY <1>1, <1>2, <1>3, <1>4, <1>5, <1>6, <1>7 DEF Next, Handler

\* pselect is asked about exactly the live interests, whatever the handlers
\* do in the middle of an iteration.
THEOREM FdSetsAlwaysMatch == Spec => []FdSetsMatch
<1>1. IInv => FdSetsMatch
  BY DEF IInv
<1> QED BY <1>1, InitIInv, NextIInv, PTL DEF Spec

\* max_fd is the largest descriptor in use: none is left out of the range
\* pselect watches and handle_iteration scans.
THEOREM MaxFdAlwaysMax == Spec => []MaxFdIsMax
<1>1. IInv => MaxFdIsMax
  BY DEF IInv
<1> QED BY <1>1, InitIInv, NextIInv, PTL DEF Spec

-----------------------------------------------------------------------------
(* The rest of the selector's state.                                       *)

LEMMA InitTypeOK == Init => TypeOK
<1> SUFFICES ASSUME Init PROVE TypeOK
  OBVIOUS
<1>1. 0 \in Fd
  BY SelectorAssumption DEF Fd
<1>2. TableType
  BY InitIInv DEF IInv
<1>3. {0} \in SUBSET Fd /\ {} \in SUBSET Fd
  BY <1>1
<1>4. /\ master_r \in SUBSET Fd /\ master_w \in SUBSET Fd
      /\ slave_r \in SUBSET Fd /\ slave_w \in SUBSET Fd /\ last \in Fd
  BY <1>1, <1>3 DEF Init
<1>5. cursor \in 0 .. 2 * MaxSize /\ calls \in 0 .. MaxCalls
  BY SelectorAssumption DEF Init
<1>6. /\ phase \in {"select", "iterate", "notify"}
      /\ running \in {<<>>} \cup (Fd \X {"read", "write", "block"})
      /\ signal \in BOOLEAN
  BY DEF Init
<1>7. jobs \in Seq(Fd)
  BY DEF Init
<1>8. worker \in [Worker -> {"idle", "resolving", "pushed"} \X Fd]
  <2>1. <<"idle", 0>> \in {"idle", "resolving", "pushed"} \X Fd
    BY <1>1
  <2> QED BY <2>1 DEF Init
<1> QED BY <1>2, <1>4, <1>5, <1>6, <1>7, <1>8 DEF TypeOK, TableType

\* What the table contributes when it changes.
LEMMA TableTypes ==
  ASSUME TypeOK, TableType',
         NEW fd \in Fd, NEW i, items_update_fdset_for_fd(fd, i)
  PROVE  /\ used' \in SUBSET Fd
         /\ interest' \in [Fd -> SUBSET Op] /\ max_fd' \in Fd
         /\ master_r' \in SUBSET Fd /\ master_w' \in SUBSET Fd
  BY DEF TypeOK, TableType, items_update_fdset_for_fd

\* What the loop and the threads keep while a handler makes a call.
LEMMA CallingTypes ==
  ASSUME TypeOK, Calling
  PROVE  /\ slave_r' \in SUBSET Fd /\ slave_w' \in SUBSET Fd
         /\ last' \in Fd /\ cursor' \in 0 .. 2 * MaxSize
         /\ phase' \in {"select", "iterate", "notify"}
         /\ running' \in {<<>>} \cup (Fd \X {"read", "write", "block"})
         /\ calls' \in 0 .. MaxCalls
         /\ jobs' \in Seq(Fd) /\ signal' \in BOOLEAN
  BY SelectorAssumption DEF TypeOK, Calling

LEMMA LoopTypeOK == TypeOK /\ Loop => TypeOK'
<1> SUFFICES ASSUME TypeOK, Loop PROVE TypeOK'
  OBVIOUS
<1> USE DEF TypeOK, table, notes
<1>1. CASE select_ready
  <2>1. 0 \in 0 .. 2 * MaxSize
    BY SelectorAssumption
  <2>2. slave_r' \in SUBSET Fd /\ slave_w' \in SUBSET Fd
    BY <1>1 DEF select_ready
  <2> QED BY <1>1, <2>1, <2>2 DEF select_ready
<1>2. CASE select_interrupted
  BY <1>2 DEF select_interrupted
<1>3. CASE handle_iteration
  <2>1. PICK k \in cursor .. 2 * last + 1 :
          /\ Due(k) /\ running' = <<FdAt(k), OpAt(k)>> /\ cursor' = k + 1
    BY <1>3 DEF handle_iteration
  <2>2. k + 1 \in 0 .. 2 * MaxSize
    BY SelectorAssumption DEF Fd
  <2>3. FdAt(k) \in Fd /\ OpAt(k) \in {"read", "write", "block"}
    BY <2>1 DEF Due, OpAt
  <2>4. running' \in Fd \X {"read", "write", "block"}
    BY <2>1, <2>3
  <2> QED BY <1>3, <2>1, <2>2, <2>4 DEF handle_iteration
<1>4. CASE end_iteration
  <2>1. 0 \in Fd /\ 0 \in 0 .. 2 * MaxSize
    BY SelectorAssumption DEF Fd
  <2> QED BY <1>4, <2>1 DEF end_iteration
<1>5. CASE handle_block_notifications
  <2>1. CASE jobs # <<>>
    <3>1. Head(jobs) \in Fd /\ Tail(jobs) \in Seq(Fd)
      BY <2>1
    <3>2. /\ UNCHANGED <<table, slave_r, slave_w, last, cursor, calls, signal, worker>>
          /\ jobs' = Tail(jobs) /\ phase' = phase
          /\ running' = IF Head(jobs) \in used THEN <<Head(jobs), "block">> ELSE <<>>
      BY <1>5, <2>1 DEF handle_block_notifications
    <3>3. running' \in {<<>>} \cup (Fd \X {"read", "write", "block"})
      BY <3>1, <3>2
    <3>4. jobs' \in Seq(Fd)
      BY <3>1, <3>2
    <3> QED BY <3>2, <3>3, <3>4
  <2>2. CASE jobs = <<>>
    BY <1>5, <2>2 DEF handle_block_notifications
  <2> QED BY <2>1, <2>2
<1> QED BY <1>1, <1>2, <1>3, <1>4, <1>5 DEF Loop

LEMMA HandlerTypeOK == TypeOK /\ TableType' /\ Handler => TypeOK'
<1> SUFFICES ASSUME TypeOK, TableType', Handler PROVE TypeOK'
  OBVIOUS
<1>1. CASE CallRegister
  <2>0. worker' = worker /\ Calling
    BY <1>1 DEF CallRegister
  <2>1. CASE UNCHANGED table
    BY <2>0, <2>1, CallingTypes DEF TypeOK, table
  <2>2. CASE LowestFree \in Fd /\ \E i \in Interests : selector_register(LowestFree, i)
    <3>1. PICK i \in Interests : selector_register(LowestFree, i)
      BY <2>2
    <3>2. items_update_fdset_for_fd(LowestFree, i)
      BY <3>1 DEF selector_register
    <3> QED BY <2>0, <2>2, <3>2, CallingTypes, TableTypes DEF TypeOK
  <2> QED BY <1>1, <2>1, <2>2 DEF CallRegister
<1>2. CASE CallUnregister
  <2>1. PICK fd \in used : selector_unregister_fd(fd)
    BY <1>2 DEF CallUnregister
  <2>2. /\ fd \in Fd
        /\ items_update_fdset_for_fd(fd, {})
    BY <2>1 DEF selector_unregister_fd, TypeOK
  <2> QED BY <1>2, <2>2, CallingTypes, TableTypes DEF CallUnregister, TypeOK
<1>3. CASE CallSetInterest
  <2>1. PICK fd \in used, i \in Interests : selector_set_interest(fd, i)
    BY <1>3 DEF CallSetInterest
  <2>2. /\ fd \in Fd
        /\ items_update_fdset_for_fd(fd, i)
    BY <2>1 DEF selector_set_interest, TypeOK
  <2> QED BY <1>3, <2>2, CallingTypes, TableTypes DEF CallSetInterest, TypeOK
<1>4. CASE CallResolve
  <2>1. PICK w \in Worker : worker' = [worker EXCEPT ![w] = <<"resolving", running[1]>>]
    BY <1>4 DEF CallResolve
  <2>2. running[1] \in Fd
    BY <1>4 DEF CallResolve, TypeOK
  <2>3. worker' \in [Worker -> {"idle", "resolving", "pushed"} \X Fd]
    BY <2>1, <2>2 DEF TypeOK
  <2> QED BY <1>4, <2>3, CallingTypes DEF CallResolve, TypeOK, table
<1>5. CASE handler_return
  BY <1>5, SelectorAssumption DEF handler_return, TypeOK, table, notes
<1> QED BY <1>1, <1>2, <1>3, <1>4, <1>5 DEF Handler

LEMMA ResolverTypeOK ==
  ASSUME TypeOK, NEW w \in Worker, Resolver(w)
  PROVE  TypeOK'
<1>1. 0 \in Fd
  BY SelectorAssumption DEF Fd
<1>2. worker[w] \in {"idle", "resolving", "pushed"} \X Fd
  BY DEF TypeOK
<1>3. CASE notify_push(w)
  <2>1. <<worker[w][2]>> \in Seq(Fd)
    BY <1>2
  <2>2. <<worker[w][2]>> \o jobs \in Seq(Fd)
    BY <2>1 DEF TypeOK
  <2>3. worker' \in [Worker -> {"idle", "resolving", "pushed"} \X Fd]
    BY <1>1, <1>3 DEF TypeOK, notify_push
  <2> QED BY <1>3, <2>2, <2>3 DEF notify_push, TypeOK, table, loop
<1>4. CASE notify_signal(w)
  <2>1. worker' \in [Worker -> {"idle", "resolving", "pushed"} \X Fd]
    BY <1>1, <1>4 DEF TypeOK, notify_signal
  <2> QED BY <1>4, <2>1 DEF notify_signal, TypeOK, table, loop
<1> QED BY <1>3, <1>4 DEF Resolver

\* The loop's cursor stays within the table's descriptors, the jobs and the
\* running handler are of real descriptors.
THEOREM SelectorTypeCorrect == Spec => []TypeOK
<1>1. TypeOK /\ TableType' /\ [Next]_vars => TypeOK'
  <2> SUFFICES ASSUME TypeOK, TableType', [Next]_vars PROVE TypeOK'
    OBVIOUS
  <2>1. CASE UNCHANGED vars
    BY <2>1 DEF vars, table, loop, notes, TypeOK
  <2>2. CASE Next
    BY <2>2, LoopTypeOK, HandlerTypeOK, ResolverTypeOK DEF Next
  <2> QED BY <2>1, <2>2
<1>2. IInv => TableType
  BY DEF IInv
<1> QED BY <1>1, <1>2, InitTypeOK, InitIInv, NextIInv, PTL DEF Spec

=============================================================================
