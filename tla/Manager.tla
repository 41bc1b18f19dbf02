------------------------------ MODULE Manager -------------------------------
(***************************************************************************)
(* The sessions of the manager protocol, server/manager.c, over the table  *)
(* of accounts of Users.  Each call of manager_read takes one line, runs   *)
(* its command to the end and replies; several sessions take turns.        *)
(***************************************************************************)
EXTENDS Users

CONSTANTS
  Session,  \* connections to the manager's port
  Kept,     \* Kept[n]: what username[50] keeps of a name
  Missing,  \* an argument that is not there: strtok's NULL
  Number    \* Number[w]: the value of a word that strtol reads to its end

ASSUME ManagerAssumption ==
  /\ \A n \in Name : Kept[n] \in Name
  /\ Missing \notin Name \cup Password \cup DOMAIN Number \cup {Empty}
  /\ \A w \in DOMAIN Number : Number[w] \in Limits

VARIABLES
  session,  \* the manager_data of each session
  last      \* the last command, who sent it, and the reply

mvars == <<vars, session, last>>

Nobody == [open |-> FALSE, logged_in |-> FALSE, user_sent |-> FALSE, username |-> Empty]

Line(cmd, arg1, arg2) == [cmd |-> cmd, arg1 |-> arg1, arg2 |-> arg2]

Bare == {"USER", "PASS", "ADD-USER", "DELETE-USER", "CHANGE-PASS", "CHANGE-STATUS",
         "SET-MAX-USERS", "USER-LOGS", "LIST-USERS", "QUIT", "UNKNOWN"}

\* The lines a session can send.  "LIST-USERS" stands for the five commands
\* that only look and take no argument; Empty is an empty line, and Missing
\* one of blanks.
Lines ==
  {Line(c, Missing, Missing) : c \in Bare \cup {Empty, Missing}}
  \cup {Line(c, n, Missing) : c \in {"USER", "ADD-USER", "DELETE-USER", "CHANGE-STATUS",
                                     "USER-LOGS"}, n \in Name}
  \cup {Line(c, p, Missing) : c \in {"PASS", "CHANGE-PASS"}, p \in Password}
  \cup {Line(c, n, p) : c \in {"ADD-USER", "CHANGE-STATUS"}, n \in Name, p \in Password}
  \cup {Line("CHANGE-PASS", p, q) : p, q \in Password}
  \cup {Line("SET-MAX-USERS", w, Missing) : w \in DOMAIN Number \cup Name}

Nothing == [from |-> Missing, line |-> Line(Missing, Missing, Missing), reply |-> "none"]

\* send_response; "none" where a path of the code sends nothing.
Reply(s, line, r) == last' = [from |-> s, line |-> line, reply |-> r]
Accepted(s, line, b) == Reply(s, line, IF b THEN "+OK" ELSE "-ERR")

MInit == Init /\ session = [s \in Session |-> Nobody] /\ last = Nothing

-----------------------------------------------------------------------------
(* Connections.                                                            *)

\* A session starts, or is closed at once when there is no memory or no
\* place for it in the selector.
manager_passive_accept(s) ==
  /\ Serving /\ UNCHANGED <<users, admins, max_users>>
  /\ ~session[s].open
  /\ session' \in {[session EXCEPT ![s].open = TRUE], session}
  /\ last' = Nothing

manager_close(s) == session' = [session EXCEPT ![s] = Nobody]

\* recv returns 0 or -1.
HangUp(s) ==
  /\ Serving /\ UNCHANGED <<users, admins, max_users>>
  /\ session[s].open /\ manager_close(s)
  /\ last' = Nothing

-----------------------------------------------------------------------------
(* handle_auth_command: until the session has logged in.                   *)

\* A name that does not exist leaves the one before in its place.
USER(s, line) ==
  /\ line.cmd = "USER"
  /\ session' = IF Exists(line.arg1)
                THEN [session EXCEPT ![s].username = Kept[line.arg1], ![s].user_sent = TRUE]
                ELSE session
  /\ Accepted(s, line, Exists(line.arg1))

IsAdmin(name) == users[user_exists(name)].status = ADMIN

LogsIn(name, pass) == user_login(name, pass) /\ IsAdmin(name)

PASS(s, line) ==
  LET name == session[s].username
      enters == session[s].user_sent /\ line.arg1 # Missing /\ LogsIn(name, line.arg1)
  IN /\ line.cmd = "PASS"
     /\ session' = [session EXCEPT ![s].logged_in = enters]
     /\ IF session[s].user_sent /\ line.arg1 = Missing
        THEN Reply(s, line, "none")
        ELSE Accepted(s, line, enters)

handle_auth_command(s, line) ==
  /\ Serving /\ UNCHANGED <<users, admins, max_users>>
  /\ \/ USER(s, line)
     \/ PASS(s, line)
     \/ /\ line.cmd \notin {"USER", "PASS"}
        /\ Accepted(s, line, FALSE) /\ UNCHANGED session

-----------------------------------------------------------------------------
(* handle_command: the commands of a session that has logged in.  Each     *)
(* first looks whether its arguments are there.                            *)

\* The table's operation when the arguments are there, nothing otherwise.
Given(line, n, operation) ==
  IF line.arg1 = Missing \/ (n = 2 /\ line.arg2 = Missing)
  THEN Serving /\ UNCHANGED <<users, admins, max_users>>
  ELSE operation

ADD_USER(s, line) ==
  /\ line.cmd = "ADD-USER"
  /\ Given(line, 2, handle_add_user(line.arg1, line.arg2))
  /\ Accepted(s, line, line.arg2 # Missing /\ CanCreate(line.arg1, line.arg2))

\* Mutant: whoever is found is said to be deleted.
Deletes_Found(name) == Exists(name)

Deletes(name) == Exists(name) /\ ~(IsAdmin(name) /\ admins = 1)

DELETE_USER(s, line) ==
  /\ line.cmd = "DELETE-USER"
  /\ Given(line, 1, handle_delete_user(line.arg1))
  /\ Accepted(s, line, Deletes(line.arg1))

CHANGE_PASS(s, line) ==
  /\ line.cmd = "CHANGE-PASS"
  /\ Given(line, 2, handle_change_pass(session[s].username, line.arg1, line.arg2))
  /\ Accepted(s, line, line.arg2 # Missing /\ user_login(session[s].username, line.arg1))

\* Whatever is not "admin" demotes.  The reply is +OK without such a user.
Role(word) == IF word = "admin" THEN ADMIN ELSE COMMONER

CHANGE_STATUS(s, line) ==
  /\ line.cmd = "CHANGE-STATUS"
  /\ Given(line, 2, handle_change_status(line.arg1, Role(line.arg2)))
  /\ Accepted(s, line, line.arg2 # Missing)

\* What is not a number counts as zero, which is refused too.
Value(w) == IF w \in DOMAIN Number THEN Number[w] ELSE 0

\* Mutant: the limit is set before realloc is known to have succeeded.
SET_MAX_USERS_Early(s, line) ==
  LET l == Value(line.arg1)
  IN /\ line.cmd = "SET-MAX-USERS"
     /\ Serving /\ UNCHANGED <<users, admins>>
     /\ max_users' = IF CanSetMax(l) THEN l ELSE max_users
     /\ \E granted \in BOOLEAN : Accepted(s, line, CanSetMax(l) /\ granted)

SET_MAX_USERS(s, line) ==
  LET l == Value(line.arg1)
  IN /\ line.cmd = "SET-MAX-USERS"
     /\ \/ \E granted \in BOOLEAN : /\ handle_set_max_users(l, granted)
                                   /\ Accepted(s, line, granted)
        \/ /\ ~CanSetMax(l)
           /\ Serving /\ UNCHANGED <<users, admins, max_users>>
           /\ Accepted(s, line, FALSE)

\* The commands that change nothing: USER-LOGS is refused without a user.
Look(s, line) ==
  /\ line.cmd \in {"USER-LOGS", "LIST-USERS", "USER", "PASS", "UNKNOWN"}
  /\ Serving /\ UNCHANGED <<users, admins, max_users>>
  /\ Accepted(s, line, \/ line.cmd = "LIST-USERS"
                       \/ line.cmd = "USER-LOGS" /\ Exists(line.arg1))

QUIT(s, line) ==
  /\ line.cmd = "QUIT"
  /\ Serving /\ UNCHANGED <<users, admins, max_users>>
  /\ manager_close(s)
  /\ Accepted(s, line, TRUE)

handle_command(s, line) ==
  \/ /\ UNCHANGED session
     /\ \/ ADD_USER(s, line) \/ DELETE_USER(s, line) \/ CHANGE_PASS(s, line)
        \/ CHANGE_STATUS(s, line) \/ SET_MAX_USERS(s, line) \/ Look(s, line)
  \/ QUIT(s, line)

\* Mutant: USER and PASS are not kept for sessions that have yet to log in.
Authenticating_Any(s, line) == ~session[s].logged_in \/ line.cmd \in {"USER", "PASS"}

Authenticating(s, line) == ~session[s].logged_in

\* An empty line is refused; one of blanks gets no reply.
manager_read(s, line) ==
  /\ session[s].open
  /\ \/ /\ line.cmd \in {Empty, Missing}
        /\ Serving /\ UNCHANGED <<users, admins, max_users, session>>
        /\ Reply(s, line, IF line.cmd = Empty THEN "-ERR" ELSE "none")
     \/ /\ line.cmd \notin {Empty, Missing}
        /\ IF Authenticating(s, line) THEN handle_auth_command(s, line)
           ELSE handle_command(s, line)

MNext ==
  \/ main_new_user /\ UNCHANGED <<session, last>>
  \/ \E s \in Session : \/ manager_passive_accept(s) \/ HangUp(s)
                        \/ \E line \in Lines : manager_read(s, line)

MSpec == MInit /\ [][MNext]_mvars

-----------------------------------------------------------------------------
MTypeOK ==
  /\ TypeOK
  /\ session \in [Session -> [open : BOOLEAN, logged_in : BOOLEAN, user_sent : BOOLEAN,
                              username : Name \cup {Empty}]]
  /\ last.from \in Session \cup {Missing} /\ last.line \in Lines \cup {Nothing.line}
  /\ last.reply \in {"+OK", "-ERR", "none"}

\* A session that has logged in did so as an administrator, with the
\* password the account had then, and under a name it keeps to its end: no
\* later USER moves it to another account.
SessionsAreAdministrators ==
  [][\A s \in Session : session'[s].logged_in =>
       \/ session[s].logged_in /\ session'[s].username = session[s].username
       \/ \E i \in 1 .. cantUsers : /\ users[i].name = session'[s].username
                                    /\ users[i].status = ADMIN
                                    /\ last'.line = Line("PASS", users[i].pass, Missing)
                                    /\ last'.from = s]_mvars

\* A command that is refused, or gets no reply, changed nothing of the
\* table; and only a session that has logged in changes it at all.
RefusedChangesNothing ==
  [][args = <<>> /\ ~UNCHANGED vars =>
       /\ last'.reply = "+OK"
       /\ \E s \in Session : last'.from = s /\ session[s].logged_in]_mvars

\* +OK is the truth about the table: the account is there or gone, the
\* password or the limit is what was asked for.  (Of CHANGE-STATUS this is
\* true of users that exist only.)
AccountIs(n, pass) == n \in Names /\ AccountOf(n).pass = pass
RepliesTrue ==
  [][LET ok(line) == last' = [from |-> last'.from, line |-> line, reply |-> "+OK"]
     IN \A n \in Name, p, q \in Password :
          /\ ok(Line("ADD-USER", n, p)) => n \notin Names /\ AccountIs(n, p)'
          /\ ok(Line("DELETE-USER", n, Missing)) => n \in Names \ Names'
          /\ ok(Line("CHANGE-PASS", p, q)) /\ n = session[last'.from].username =>
               AccountIs(n, p) /\ AccountIs(n, q)'
          /\ ok(Line("CHANGE-STATUS", n, p)) /\ n \in Names =>
               n \in Names' /\ (AccountOf(n)'.admin <=> p = "admin")
          /\ \A w \in DOMAIN Number :
               ok(Line("SET-MAX-USERS", w, Missing)) => max_users' = Number[w]]_mvars

\* "El rol del usuario %s fue actualizado a %s.", the reply of CHANGE-STATUS,
\* of every user it names.
StatusRepliesTrue ==
  [][\A n \in Name, p \in Password :
       last' = [from |-> last'.from, line |-> Line("CHANGE-STATUS", n, p), reply |-> "+OK"] =>
         n \in Names' /\ (AccountOf(n)'.admin <=> p = "admin")]_mvars
=============================================================================
