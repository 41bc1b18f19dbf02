------------------------------- MODULE Access -------------------------------
(***************************************************************************)
(* The accesses recorded for every account: the string each user of the    *)
(* table owns (server/users.c, shared/logger.c), and the connections that  *)
(* write to it when their request is answered (server/authentication.c,    *)
(* server/request.c), while managers create and delete accounts.  The      *)
(* connections keep a name and not an account, and it may be gone.         *)
(***************************************************************************)
EXTENDS Users, StringBuilder, SequencesExt

CONSTANTS
  Builder,              \* the addresses sb_create can return
  NULL,
  Conn, Idle,           \* connections; Idle: not authenticated, or done
  MaxLines              \* bound: lines in one string

ASSUME AccessAssumption ==
  /\ NULL \notin Builder /\ Idle \notin Name \cup {Empty}
  /\ \A l \in Line : l.user \in Name

VARIABLES
  access,   \* access[i]: the access field of users[i]
  heap,     \* the strings allocated, by address
  uname,    \* the username of each connection
  process   \* "up", "down", or "undefined": the program has left C

logs == <<access, heap>>
avars == <<vars, logs, uname, process>>

\* sb_create: any free address, or NULL, since malloc may fail.
Fresh == (Builder \ DOMAIN heap) \cup {NULL}

\* The heap once sb_create has returned b.
Allocated(b) == IF b = NULL THEN heap
                ELSE [a \in DOMAIN heap \cup {b} |-> IF a = b THEN sb_create ELSE heap[a]]

\* The heap once sb_free has been called with each address of S.
Freed(S) == [a \in DOMAIN heap \ S |-> heap[a]]

AInit ==
  /\ Init
  /\ \E b \in Builder \cup {NULL} :
        /\ access = <<b>>
        /\ heap = [a \in {b} \ {NULL} |-> sb_create]
  /\ uname = [c \in Conn |-> Idle]
  /\ process = "up"

-----------------------------------------------------------------------------
(* The table changes.                                                      *)

Up == process = "up" /\ UNCHANGED process

\* new_user: an account that is created gets a string of its own.
NewAccess(name, pass) ==
  IF CanCreate(name, pass)
  THEN \E b \in Fresh : access' = Append(access, b) /\ heap' = Allocated(b)
  ELSE UNCHANGED logs

AddFromOption == Up /\ main_new_user /\ NewAccess(Head(args)[1], Head(args)[2]) /\ UNCHANGED uname

AddUser(name, pass) == Up /\ handle_add_user(name, pass) /\ NewAccess(name, pass) /\ UNCHANGED uname

\* Mutant: the string is freed after the shift, and is the next user's.
Deleted_Late(i) == Freed({access[IF i < cantUsers THEN i + 1 ELSE i]})

Deleted(i) == Freed({access[i]})

\* delete_user: the string is freed, then the users after it move down.
DeleteUser(name) ==
  /\ Up /\ handle_delete_user(name)
  /\ IF cantUsers' < cantUsers
     THEN LET i == user_exists(name)
          IN heap' = Deleted(i) /\ access' = RemoveAt(access, i)
     ELSE UNCHANGED logs
  /\ UNCHANGED uname

\* The commands that change an account where it is.
ChangeUser ==
  /\ Up /\ UNCHANGED <<logs, uname>>
  /\ \/ \E n \in Name, p, q \in Password : handle_change_pass(n, p, q)
     \/ \E n \in Name, status \in {ADMIN, COMMONER} : handle_change_status(n, status)
     \/ \E l \in Limits, granted \in BOOLEAN : handle_set_max_users(l, granted)

-----------------------------------------------------------------------------
(* The connections.                                                        *)

Proxying == Up /\ args = <<>> /\ UNCHANGED vars

\* authentication_read keeps the name whether or not the login succeeded:
\* a refused client may go on to its request.
authentication_read(c, name) ==
  /\ Proxying
  /\ uname[c] = Idle /\ uname' = [uname EXCEPT ![c] = name]
  /\ UNCHANGED logs

\* The connection fails before its request is answered.
socks_close(c) ==
  /\ Proxying
  /\ uname[c] # Idle /\ uname' = [uname EXCEPT ![c] = Idle]
  /\ UNCHANGED logs

get_access(name) == IF Exists(name) THEN access[user_exists(name)] ELSE NULL

\* The string at b, in heap h, with the line of name at its end.
Record(h, b, name) ==
  \E l \in Line : /\ l.user = name
                 /\ \E sb \in Appended(h[b], l) : heap' = [h EXCEPT ![b] = sb]

\* The reply is sent, and the account that has the name by now gets a line.
\* Without a string it gets one first.
RecordAccess(c) ==
  LET name == uname[c]
      p == get_access(name)
  IN /\ Proxying
     /\ uname[c] # Idle /\ uname' = [uname EXCEPT ![c] = Idle]
     /\ p # NULL => Len(heap[p].lines) < MaxLines
     /\ \/ p # NULL /\ Record(heap, p, name) /\ UNCHANGED access
        \/ p = NULL /\ \E b \in Fresh \ {NULL} :
              /\ access' = [access EXCEPT ![user_exists(name)] = b]
              /\ Record(Allocated(b), b, name)

\* create_access writes to users[-1] when no account has the name, and
\* sb_append goes through NULL when there is no memory for a string.
LosesItself(c) ==
  /\ process = "up" /\ args = <<>> /\ uname[c] # Idle
  /\ get_access(uname[c]) = NULL
  /\ process' = "undefined"
  /\ UNCHANGED <<vars, logs, uname>>

request_write(c) == (Exists(uname[c]) /\ RecordAccess(c)) \/ LosesItself(c)

-----------------------------------------------------------------------------
Owned == {access[i] : i \in 1 .. cantUsers} \ {NULL}

\* close_users, on the way out of main.
close_users ==
  /\ process = "up" /\ args = <<>>
  /\ process' = "down"
  /\ heap' = Freed(Owned)
  /\ UNCHANGED <<vars, access, uname>>

ANext ==
  \/ AddFromOption
  \/ \E n \in Name, p \in Password : AddUser(n, p)
  \/ \E n \in Name : DeleteUser(n)
  \/ ChangeUser
  \/ \E c \in Conn, n \in Name \cup {Empty} : authentication_read(c, n)
  \/ \E c \in Conn : socks_close(c) \/ request_write(c)
  \/ close_users

ASpec == AInit /\ [][ANext]_avars

-----------------------------------------------------------------------------
ATypeOK ==
  /\ TypeOK
  /\ access \in Seq(Builder \cup {NULL}) /\ Len(access) = cantUsers
  /\ DOMAIN heap \subseteq Builder /\ \A b \in DOMAIN heap : heap[b] \in StringBuilder
  /\ uname \in [Conn -> Name \cup {Empty, Idle}]
  /\ process \in {"up", "down", "undefined"}

\* While the program is up the strings allocated are those the accounts own,
\* one each: none is freed twice, used once freed, or lost, whatever the
\* order of creations, deletions and recorded accesses; and the way out
\* frees them all.
BuildersOwned ==
  /\ process = "up" =>
       /\ DOMAIN heap = Owned
       /\ \A i, j \in 1 .. cantUsers : access[i] = access[j] /\ access[i] # NULL => i = j
  /\ process = "down" => DOMAIN heap = {}

\* No string is ever written past its buffer.
BuildersFit == \A b \in DOMAIN heap : Fits(heap[b])

\* As long as an account stays, what was recorded of it stays, and one
\* command or connection adds to one log at most; an account that is
\* created, or created anew after a deletion, starts with nothing; and all
\* its log holds was written in its name, although the accounts move about
\* in the array and their strings with them.
Log(n) == LET p == access[user_exists(n)] IN IF p = NULL THEN <<>> ELSE heap[p].lines
LogsFollowAccounts ==
  [][process' = "up" => /\ \A n \in Names' : IF n \in Names THEN IsPrefix(Log(n), Log(n)')
                                             ELSE Log(n)' = <<>>
                        /\ \A n \in Names' : \A k \in 1 .. Len(Log(n)') :
                             (Log(n)')[k].user = n
                        /\ \A m, n \in Names \cap Names' :
                             Log(m)' # Log(m) /\ Log(n)' # Log(n) => m = n]_avars
=============================================================================
