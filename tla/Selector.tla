------------------------------ MODULE Selector ------------------------------
(***************************************************************************)
(* shared/selector.c: the descriptor table with its prototype fd_sets, one *)
(* iteration of the event loop over the snapshot pselect returned, and the *)
(* notifications of finished blocking jobs (the DNS resolver threads).     *)
(*                                                                         *)
(* The handlers are the selector's users: each run of one makes up to      *)
(* MaxCalls calls of the interface, in any order and with any arguments.   *)
(* A handler closes the descriptor it unregisters and a new descriptor has *)
(* the lowest free number, so numbers are reused within one iteration.     *)
(***************************************************************************)
EXTENDS Integers, FiniteSets, Sequences

CONSTANTS MaxSize,   \* ITEMS_MAX_SIZE, that is FD_SETSIZE
          Worker,    \* resolver threads that may run at once (a bound)
          MaxCalls,  \* interface calls of one run of a handler (a bound)
          Interests  \* the interests handlers ask for

ASSUME SelectorAssumption ==
  /\ MaxSize \in Nat \ {0} /\ MaxCalls \in Nat
  /\ Interests \subseteq SUBSET {"read", "write"}

Fd == 0 .. MaxSize - 1  \* the descriptors that are not INVALID_FD

Op == {"read", "write"}

VARIABLES
  used,        \* descriptors whose slot is in use
  interest,    \* interest[fd]: the fd_interest of the slot, as a set
  max_fd,
  master_r, master_w,
  slave_r, slave_w,
  last,        \* n of handle_iteration: max_fd when the iteration began
  cursor,      \* 2 * i for the read check of slot i, 2 * i + 1 for its write check
  phase,       \* "select", "iterate", "notify"
  running,     \* <<fd, event>> of the handler that runs, or <<>>
  calls,       \* calls it has made
  jobs,        \* resolution_jobs, newest first
  signal,      \* conf.signal is pending for the selector's thread
  worker       \* worker[w]: what a resolver thread does, and for which fd

table == <<used, interest, max_fd, master_r, master_w>>
loop == <<slave_r, slave_w, last, cursor, phase, running, calls>>
notes == <<jobs, signal, worker>>
vars == <<table, loop, notes>>

-----------------------------------------------------------------------------
(* Capacity.                                                               *)

\* 1UL << bits
power[bits \in Nat] == IF bits = 0 THEN 1 ELSE 2 * power[bits - 1]

\* The power of two above n, at most MaxSize, and one more.
next_capacity(n) ==
  LET p == CHOOSE p \in {power[k] : k \in 0 .. n} : n < p /\ (p <= 2 * n \/ p = 1)
  IN (IF p > MaxSize THEN MaxSize ELSE p) + 1

\* Slots of the table.  main.c asks selector_new for 1024 elements, as many
\* as there may be descriptors: no registration finds its descriptor beyond
\* the table (TableNeverGrows in SelectorProofs), so it keeps its size.
fd_size == next_capacity(MaxSize)

-----------------------------------------------------------------------------
(* The table.                                                              *)

\* selector_new on an empty table; the caller then registers the passive
\* socket, descriptor 0 here, to be read.
Init ==
  /\ used = {0}
  /\ interest = [fd \in Fd |-> IF fd = 0 THEN {"read"} ELSE {}]
  /\ max_fd = 0
  /\ master_r = {0} /\ master_w = {}
  /\ slave_r = {} /\ slave_w = {}
  /\ last = 0 /\ cursor = 0
  /\ phase = "select" /\ running = <<>> /\ calls = 0
  /\ jobs = <<>> /\ signal = FALSE
  /\ worker = [w \in Worker |-> <<"idle", 0>>]

\* Mutants: the loop stops short of max_fd; the answer is pselect's nfds.
items_max_fd_Short(in_use) ==
  LET seen == {fd \in in_use : fd < max_fd}
  IN IF seen = {} THEN 0 ELSE CHOOSE m \in seen : \A fd \in seen : fd <= m
items_max_fd_Nfds(in_use) ==
  LET seen == {fd \in in_use : fd <= max_fd}
  IN IF seen = {} THEN 0 ELSE 1 + CHOOSE m \in seen : \A fd \in seen : fd <= m

\* Loops only up to the current max_fd.
items_max_fd(in_use) ==
  LET seen == {fd \in in_use : fd <= max_fd}
  IN IF seen = {} THEN 0 ELSE CHOOSE m \in seen : \A fd \in seen : fd <= m

\* Mutant: the bits are not cleared first.
items_update_fdset_for_fd_NoClr(fd, i) ==
  /\ master_r' = IF "read" \in i THEN master_r \cup {fd} ELSE master_r
  /\ master_w' = IF "write" \in i THEN master_w \cup {fd} ELSE master_w

\* Rebuilds the two bits of fd from the interest i of its slot.
items_update_fdset_for_fd(fd, i) ==
  /\ master_r' = IF "read" \in i THEN master_r \cup {fd} ELSE master_r \ {fd}
  /\ master_w' = IF "write" \in i THEN master_w \cup {fd} ELSE master_w \ {fd}

selector_register(fd, i) ==
  /\ fd \notin used
  /\ used' = used \cup {fd}
  /\ interest' = [interest EXCEPT ![fd] = i]
  /\ max_fd' = IF fd > max_fd THEN fd ELSE max_fd
  /\ items_update_fdset_for_fd(fd, i)

selector_unregister_fd(fd) ==
  /\ fd \in used
  /\ used' = used \ {fd}
  /\ interest' = [interest EXCEPT ![fd] = {}]
  /\ items_update_fdset_for_fd(fd, {})
  /\ max_fd' = items_max_fd(used \ {fd})

selector_set_interest(fd, i) ==
  /\ fd \in used
  /\ interest' = [interest EXCEPT ![fd] = i]
  /\ items_update_fdset_for_fd(fd, i)
  /\ UNCHANGED <<used, max_fd>>

-----------------------------------------------------------------------------
(* One call of selector_select.                                            *)

\* pselect reports some watched descriptors, or none when it times out.
select_ready ==
  /\ phase = "select"
  /\ slave_r' \in SUBSET master_r /\ slave_w' \in SUBSET master_w
  /\ last' = max_fd /\ cursor' = 0
  /\ phase' = "iterate"
  /\ UNCHANGED <<table, running, calls, notes>>

\* EINTR: the signal is unblocked only while pselect waits, so one raised
\* earlier is delivered now.  No descriptor is looked at.
select_interrupted ==
  /\ phase = "select" /\ signal
  /\ signal' = FALSE
  /\ phase' = "notify"
  /\ UNCHANGED <<table, slave_r, slave_w, last, cursor, running, calls, jobs, worker>>

FdAt(k) == k \div 2
OpAt(k) == IF k % 2 = 0 THEN "read" ELSE "write"

\* The check of handle_iteration at position k: the slot is in use, its bit
\* is in the snapshot, and the interest is still there.
Due(k) == /\ FdAt(k) \in used
          /\ FdAt(k) \in (IF OpAt(k) = "read" THEN slave_r ELSE slave_w)
          /\ OpAt(k) \in interest[FdAt(k)]

handle_iteration ==
  /\ phase = "iterate" /\ running = <<>>
  /\ \E k \in cursor .. 2 * last + 1 :
       /\ Due(k) /\ \A j \in cursor .. k - 1 : ~Due(j)
       /\ running' = <<FdAt(k), OpAt(k)>>
       /\ cursor' = k + 1
  /\ UNCHANGED <<table, slave_r, slave_w, last, phase, calls, notes>>

\* The snapshot is dead from here on; the model forgets it.
end_iteration ==
  /\ phase = "iterate" /\ running = <<>>
  /\ \A k \in cursor .. 2 * last + 1 : ~Due(k)
  /\ phase' = "notify"
  /\ slave_r' = {} /\ slave_w' = {} /\ last' = 0 /\ cursor' = 0
  /\ UNCHANGED <<table, running, calls, notes>>

\* The list is walked with resolution_mutex held, the handlers included; a
\* job whose descriptor is gone is dropped.
handle_block_notifications ==
  /\ phase = "notify" /\ running = <<>>
  /\ \/ /\ jobs # <<>>
        /\ jobs' = Tail(jobs)
        /\ running' = IF Head(jobs) \in used THEN <<Head(jobs), "block">> ELSE <<>>
        /\ UNCHANGED phase
     \/ /\ jobs = <<>>
        /\ phase' = "select"
        /\ UNCHANGED <<jobs, running>>
  /\ UNCHANGED <<table, slave_r, slave_w, last, cursor, calls, signal, worker>>

-----------------------------------------------------------------------------
(* What a handler may do while it runs.                                    *)

Calling == /\ running # <<>> /\ calls < MaxCalls
           /\ calls' = calls + 1
           /\ UNCHANGED <<slave_r, slave_w, last, cursor, phase, running, jobs, signal>>

LowestFree == CHOOSE fd \in 0 .. MaxSize :
                fd \notin used /\ \A e \in 0 .. fd - 1 : e \in used

\* accept or socket, then register; the new descriptor is closed again when
\* it is not a valid one.
CallRegister ==
  /\ Calling
  /\ \/ /\ LowestFree \in Fd
        /\ \E i \in Interests : selector_register(LowestFree, i)
     \/ /\ LowestFree \notin Fd
        /\ UNCHANGED table
  /\ UNCHANGED worker

\* Unless a job for it is out: a connection is not closed while it resolves.
CallUnregister ==
  /\ Calling
  /\ \E fd \in used :
       /\ \A w \in Worker : worker[w] # <<"resolving", fd>>
       /\ \A k \in 1 .. Len(jobs) : jobs[k] # fd
       /\ selector_unregister_fd(fd)
  /\ UNCHANGED worker

CallSetInterest ==
  /\ Calling
  /\ \E fd \in used, i \in Interests : selector_set_interest(fd, i)
  /\ UNCHANGED worker

\* handle_request starts a thread for the running descriptor, at most one.
CallResolve ==
  /\ Calling
  /\ running[1] \in used
  /\ \A v \in Worker : worker[v] # <<"resolving", running[1]>>
  /\ \A k \in 1 .. Len(jobs) : jobs[k] # running[1]
  /\ \E w \in Worker : /\ worker[w][1] = "idle"
                       /\ worker' = [worker EXCEPT ![w] = <<"resolving", running[1]>>]
  /\ UNCHANGED table

handler_return ==
  /\ running # <<>>
  /\ running' = <<>> /\ calls' = 0
  /\ UNCHANGED <<table, slave_r, slave_w, last, cursor, phase, notes>>

-----------------------------------------------------------------------------
(* selector_notify_block, on the resolver's thread.                        *)

notify_push(w) ==
  /\ worker[w][1] = "resolving"
  /\ phase # "notify"  \* resolution_mutex is free
  /\ jobs' = <<worker[w][2]>> \o jobs
  /\ worker' = [worker EXCEPT ![w] = <<"pushed", 0>>]
  /\ UNCHANGED <<table, loop, signal>>

\* Mutant: nobody tells the selector's thread.
notify_signal_Silent(w) ==
  /\ worker[w][1] = "pushed"
  /\ worker' = [worker EXCEPT ![w] = <<"idle", 0>>]
  /\ UNCHANGED <<table, loop, jobs, signal>>

notify_signal(w) ==
  /\ worker[w][1] = "pushed"
  /\ signal' = TRUE
  /\ worker' = [worker EXCEPT ![w] = <<"idle", 0>>]
  /\ UNCHANGED <<table, loop, jobs>>

-----------------------------------------------------------------------------
Loop == \/ select_ready \/ select_interrupted
        \/ handle_iteration \/ end_iteration \/ handle_block_notifications

Handler == \/ CallRegister \/ CallUnregister \/ CallSetInterest \/ CallResolve
           \/ handler_return

Resolver(w) == notify_push(w) \/ notify_signal(w)

Next == Loop \/ Handler \/ \E w \in Worker : Resolver(w)

Spec == Init /\ [][Next]_vars

\* The thread runs on whenever it is not blocked in pselect, handlers return
\* and the resolver threads finish.  Nothing is assumed to become ready, nor
\* the timeout of pselect to expire: the signal alone must do.
Fairness == /\ WF_vars(select_interrupted)
            /\ WF_vars(handle_iteration) /\ WF_vars(end_iteration)
            /\ WF_vars(handle_block_notifications) /\ WF_vars(handler_return)
            /\ \A w \in Worker : WF_vars(Resolver(w))

FairSpec == Spec /\ Fairness

-----------------------------------------------------------------------------
TypeOK ==
  /\ used \in SUBSET Fd
  /\ interest \in [Fd -> SUBSET Op]
  /\ max_fd \in Fd
  /\ master_r \in SUBSET Fd /\ master_w \in SUBSET Fd
  /\ slave_r \in SUBSET Fd /\ slave_w \in SUBSET Fd
  /\ last \in Fd /\ cursor \in 0 .. 2 * MaxSize
  /\ phase \in {"select", "iterate", "notify"}
  /\ running \in {<<>>} \cup (Fd \X {"read", "write", "block"})
  /\ calls \in 0 .. MaxCalls
  /\ jobs \in Seq(Fd) /\ signal \in BOOLEAN
  /\ worker \in [Worker -> {"idle", "resolving", "pushed"} \X Fd]

\* pselect is asked about exactly the registered descriptors somebody is
\* interested in: no bit outlives its registration.
FdSetsMatch ==
  /\ master_r = {fd \in used : "read" \in interest[fd]}
  /\ master_w = {fd \in used : "write" \in interest[fd]}

\* max_fd is "max(.fds[].fd)" although unregistering recomputes it only from
\* below: no watched descriptor is beyond the range given to pselect and
\* scanned by handle_iteration.
MaxFdIsMax ==
  /\ \A fd \in used : fd <= max_fd
  /\ max_fd \in used \/ (used = {} /\ max_fd = 0)

\* A job that has been queued is handed to its handler, however the push,
\* the signal and the steps of the loop fall.
JobsAreHandled == (jobs # <<>>) ~> (jobs = <<>>)
=============================================================================
