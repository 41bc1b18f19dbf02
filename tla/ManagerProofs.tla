--------------------------- MODULE ManagerProofs ----------------------------
(***************************************************************************)
(* Manager, for any number of sessions, any lines and any table: what the  *)
(* commands do is what Users allows, so the table keeps its promises; only *)
(* administrators log in; and a refusal changes nothing.                   *)
(***************************************************************************)
EXTENDS Manager, UsersProofs

Data == [open : BOOLEAN, logged_in : BOOLEAN, user_sent : BOOLEAN,
         username : Name \cup {Empty}]

\* A session names an account by the time it is asked for a password, and
\* it has been asked for one before it is logged in.
SInv == /\ session \in [Session -> Data]
        /\ \A s \in Session : /\ session[s].user_sent => session[s].username \in Name
                              /\ session[s].logged_in => session[s].user_sent

-----------------------------------------------------------------------------
(* Lines.                                                                  *)

\* The arguments of a line, when they are there, are of the kind its command
\* takes.
LEMMA LineTypes ==
  ASSUME NEW line \in Lines
  PROVE  /\ line.cmd \in {"USER", "ADD-USER", "DELETE-USER", "CHANGE-STATUS"} =>
              line.arg1 \in Name \cup {Missing}
         /\ line.cmd \in {"PASS", "CHANGE-PASS"} => line.arg1 \in Password \cup {Missing}
         /\ line.cmd \in {"ADD-USER", "CHANGE-PASS"} => line.arg2 \in Password \cup {Missing}
         /\ line.cmd = "PASS" => line = Line("PASS", line.arg1, Missing)
<1>1. CASE \E c \in Bare \cup {Empty, Missing} : line = Line(c, Missing, Missing)
  BY <1>1 DEF Line
<1>2. CASE \E c \in {"USER", "ADD-USER", "DELETE-USER", "CHANGE-STATUS", "USER-LOGS"},
             n \in Name : line = Line(c, n, Missing)
  BY <1>2 DEF Line
<1>3. CASE \E c \in {"PASS", "CHANGE-PASS"}, p \in Password : line = Line(c, p, Missing)
  BY <1>3 DEF Line
<1>4. CASE \E c \in {"ADD-USER", "CHANGE-STATUS"}, n \in Name, p \in Password :
             line = Line(c, n, p)
  BY <1>4 DEF Line
<1>5. CASE \E p, q \in Password : line = Line("CHANGE-PASS", p, q)
  BY <1>5 DEF Line
<1>6. CASE \E w \in DOMAIN Number \cup Name : line = Line("SET-MAX-USERS", w, Missing)
  BY <1>6 DEF Line
<1>. QED
  BY <1>1, <1>2, <1>3, <1>4, <1>5, <1>6 DEF Lines

\* A name that is found is one of Name.
LEMMA FoundIsName ==
  ASSUME TypeOK, NEW name, Exists(name)
  PROVE  name \in Name
<1>1. PICK i \in 1 .. Len(users) : users[i].name = name
  BY DEF Exists, Found, cantUsers
<1>2. users[i] \in User
  BY <1>1, ElementOfSeq DEF TypeOK
<1>. QED
  BY <1>1, <1>2 DEF User

-----------------------------------------------------------------------------
(* The sessions.                                                           *)

LEMMA InitSInv == MInit => SInv
  BY DEF MInit, SInv, Data, Nobody

\* What becomes of one session in a step is the invariant's if its new data
\* is.
LEMMA OneSession ==
  ASSUME SInv, NEW s \in Session, NEW d \in Data, session' = [session EXCEPT ![s] = d],
         d.user_sent => d.username \in Name, d.logged_in => d.user_sent
  PROVE  SInv'
<1>1. session' \in [Session -> Data]
  BY DEF SInv
<1>2. ASSUME NEW t \in Session
      PROVE  /\ session'[t].user_sent => session'[t].username \in Name
             /\ session'[t].logged_in => session'[t].user_sent
  <2>1. CASE t = s
    BY <2>1 DEF SInv
  <2>2. CASE t # s
    BY <2>2 DEF SInv
  <2>. QED
    BY <2>1, <2>2
<1>. QED
  BY <1>1, <1>2 DEF SInv

LEMMA SameSessions == SInv /\ UNCHANGED session => SInv'
  BY DEF SInv

LEMMA AuthSInv ==
  ASSUME SInv, TypeOK, NEW s \in Session, NEW line \in Lines, handle_auth_command(s, line),
         ~session[s].logged_in
  PROVE  SInv'
<1>1. session[s] \in Data
  BY DEF SInv
<1>2. CASE USER(s, line)
  <2>1. CASE Exists(line.arg1)
    <3>. DEFINE d == [session[s] EXCEPT !.username = Kept[line.arg1], !.user_sent = TRUE]
    <3>1. Kept[line.arg1] \in Name
      BY <2>1, FoundIsName, ManagerAssumption
    <3>2. session' = [session EXCEPT ![s] = d]
      BY <1>2, <2>1 DEF USER, SInv
    <3>3. d \in Data /\ d.username \in Name /\ d.user_sent = TRUE
      BY <1>1, <3>1 DEF Data
    <3>. QED
      BY <3>1, <3>2, <3>3, OneSession
  <2>2. CASE ~Exists(line.arg1)
    BY <1>2, <2>2, SameSessions DEF USER
  <2>. QED
    BY <2>1, <2>2
<1>3. CASE PASS(s, line)
  <2>. DEFINE enters == /\ session[s].user_sent /\ line.arg1 # Missing
                        /\ LogsIn(session[s].username, line.arg1)
              d == [session[s] EXCEPT !.logged_in = enters]
  <2>1. session' = [session EXCEPT ![s] = d]
    BY <1>3 DEF PASS, SInv
  <2>2. enters \in BOOLEAN
    OBVIOUS
  <2>3. enters => session[s].user_sent
    OBVIOUS
  <2>. HIDE DEF enters
  <2>4. d \in Data /\ d.username = session[s].username
    BY <1>1, <2>2 DEF Data
  <2>5. d.user_sent = session[s].user_sent /\ d.logged_in = enters
    BY <1>1 DEF Data
  <2>. HIDE DEF d
  <2>6. d.user_sent => d.username \in Name
    BY <2>4, <2>5, Zenon DEF SInv
  <2>7. d.logged_in => d.user_sent
    BY <2>3, <2>5, Zenon
  <2>. QED
    BY <2>1, <2>4, <2>6, <2>7, OneSession
<1>4. CASE UNCHANGED session
  BY <1>4, SameSessions
<1>. QED
  BY <1>2, <1>3, <1>4 DEF handle_auth_command

LEMMA CloseSInv ==
  ASSUME SInv, NEW s \in Session, manager_close(s)
  PROVE  SInv'
<1>1. Nobody \in Data /\ ~Nobody.user_sent /\ ~Nobody.logged_in
  BY DEF Nobody, Data
<1>. QED
  BY <1>1, OneSession DEF manager_close

LEMMA AcceptSInv ==
  ASSUME SInv, NEW s \in Session, manager_passive_accept(s)
  PROVE  SInv'
<1>1. CASE UNCHANGED session
  BY <1>1, SameSessions
<1>2. CASE session' = [session EXCEPT ![s].open = TRUE]
  <2>. DEFINE d == [session[s] EXCEPT !.open = TRUE]
  <2>1. session[s] \in Data
    BY DEF SInv
  <2>2. session' = [session EXCEPT ![s] = d]
    BY <1>2
  <2>3. d \in Data /\ d.username = session[s].username
    BY <2>1 DEF Data
  <2>4. d.user_sent = session[s].user_sent /\ d.logged_in = session[s].logged_in
    BY <2>1 DEF Data
  <2>. HIDE DEF d
  <2>5. d.user_sent => d.username \in Name
    BY <2>3, <2>4, Zenon DEF SInv
  <2>6. d.logged_in => d.user_sent
    BY <2>4, Zenon DEF SInv
  <2>. QED
    BY <2>2, <2>3, <2>5, <2>6, OneSession
<1>. QED
  BY <1>1, <1>2 DEF manager_passive_accept

LEMMA NextSInv == SInv /\ TypeOK /\ [MNext]_mvars => SInv'
<1>. SUFFICES ASSUME SInv, TypeOK, [MNext]_mvars
     PROVE  SInv'
  OBVIOUS
<1>1. CASE UNCHANGED session
  BY <1>1, SameSessions
<1>2. ASSUME NEW s \in Session, manager_passive_accept(s) PROVE SInv'
  BY <1>2, AcceptSInv
<1>3. ASSUME NEW s \in Session, HangUp(s) PROVE SInv'
  BY <1>3, CloseSInv DEF HangUp
<1>4. ASSUME NEW s \in Session, NEW line \in Lines, manager_read(s, line) PROVE SInv'
  <2>1. CASE handle_auth_command(s, line) /\ ~session[s].logged_in
    BY <2>1, AuthSInv
  <2>2. CASE handle_command(s, line)
    BY <2>2, SameSessions, CloseSInv DEF handle_command, QUIT
  <2>3. CASE UNCHANGED session
    BY <2>3, SameSessions
  <2>. QED
    BY <1>4, <2>1, <2>2, <2>3, Zenon DEF manager_read, Authenticating
<1>. QED
  BY <1>1, <1>2, <1>3, <1>4, Zenon DEF MNext, mvars

-----------------------------------------------------------------------------
(* Every command is a step of Users, or leaves the table as it is.         *)

Unchanged == UNCHANGED vars

LEMMA GivenDoes ==
  ASSUME NEW line, NEW n, NEW operation, Given(line, n, operation)
  PROVE  Unchanged \/ (operation /\ line.arg1 # Missing /\ (n = 2 => line.arg2 # Missing))
  BY DEF Given, Serving, Unchanged, vars

LEMMA CommandRefines ==
  ASSUME SInv, NEW s \in Session, NEW line \in Lines, handle_command(s, line),
         session[s].logged_in
  PROVE  [Next]_vars
<1>1. session[s].username \in Name
  BY DEF SInv
<1>2. CASE ADD_USER(s, line)
  <2>1. \/ Unchanged
        \/ /\ handle_add_user(line.arg1, line.arg2)
           /\ line.arg1 # Missing /\ line.arg2 # Missing
    BY <1>2 DEF ADD_USER, Given, Serving, Unchanged, vars
  <2>2. line.arg1 \in Name \cup {Missing} /\ line.arg2 \in Password \cup {Missing}
    BY <1>2, LineTypes DEF ADD_USER
  <2>. QED
    BY <2>1, <2>2 DEF Next, Unchanged
<1>3. CASE DELETE_USER(s, line)
  <2>1. Unchanged \/ (handle_delete_user(line.arg1) /\ line.arg1 # Missing)
    BY <1>3 DEF DELETE_USER, Given, Serving, Unchanged, vars
  <2>2. line.arg1 \in Name \cup {Missing}
    BY <1>3, LineTypes DEF DELETE_USER
  <2>. QED
    BY <2>1, <2>2 DEF Next, Unchanged
<1>4. CASE CHANGE_PASS(s, line)
  <2>1. \/ Unchanged
        \/ /\ handle_change_pass(session[s].username, line.arg1, line.arg2)
           /\ line.arg1 # Missing /\ line.arg2 # Missing
    BY <1>4 DEF CHANGE_PASS, Given, Serving, Unchanged, vars
  <2>2. line.arg1 \in Password \cup {Missing} /\ line.arg2 \in Password \cup {Missing}
    BY <1>4, LineTypes DEF CHANGE_PASS
  <2>. QED
    BY <1>1, <2>1, <2>2 DEF Next, Unchanged
<1>5. CASE CHANGE_STATUS(s, line)
  <2>1. \/ Unchanged
        \/ handle_change_status(line.arg1, Role(line.arg2)) /\ line.arg1 # Missing
    BY <1>5 DEF CHANGE_STATUS, Given, Serving, Unchanged, vars
  <2>2. line.arg1 \in Name \cup {Missing}
    BY <1>5, LineTypes DEF CHANGE_STATUS
  <2>3. Role(line.arg2) \in {ADMIN, COMMONER}
    BY DEF Role
  <2>. QED
    BY <2>1, <2>2, <2>3 DEF Next, Unchanged
<1>6. CASE SET_MAX_USERS(s, line)
  <2>. DEFINE l == Value(line.arg1)
  <2>1. Unchanged \/ \E granted \in BOOLEAN : handle_set_max_users(l, granted) /\ l > 0
    BY <1>6 DEF SET_MAX_USERS, Serving, Unchanged, vars, handle_set_max_users, CanSetMax
  <2>2. l \in Limits \cup {0}
    BY ManagerAssumption DEF Value
  <2>. QED
    BY <2>1, <2>2 DEF Next, Unchanged
<1>7. CASE Look(s, line) \/ QUIT(s, line)
  BY <1>7 DEF Look, QUIT, Serving, vars
<1>. QED
  BY <1>2, <1>3, <1>4, <1>5, <1>6, <1>7 DEF handle_command

LEMMA ManagerStep == SInv /\ [MNext]_mvars => [Next]_vars
<1>. SUFFICES ASSUME SInv, [MNext]_mvars
     PROVE  [Next]_vars
  OBVIOUS
<1>1. CASE main_new_user
  BY <1>1 DEF Next
<1>2. ASSUME NEW s \in Session, manager_passive_accept(s) \/ HangUp(s) PROVE UNCHANGED vars
  BY <1>2 DEF manager_passive_accept, HangUp, Serving, vars
<1>3. ASSUME NEW s \in Session, NEW line \in Lines, manager_read(s, line) PROVE [Next]_vars
  <2>1. CASE handle_auth_command(s, line)
    BY <2>1 DEF handle_auth_command, Serving, vars
  <2>2. CASE handle_command(s, line) /\ session[s].logged_in
    BY <2>2, CommandRefines
  <2>3. CASE Serving /\ UNCHANGED <<users, admins, max_users>>
    BY <2>3 DEF Serving, vars
  <2>. QED
    BY <1>3, <2>1, <2>2, <2>3, Zenon DEF manager_read, Authenticating
<1>4. CASE UNCHANGED mvars
  BY <1>4 DEF mvars, vars
<1>. QED
  BY <1>1, <1>2, <1>3, <1>4, Zenon DEF MNext, Next

\* For any number of sessions that take turns, the table is changed only as
\* Users allows.
THEOREM ManagerImplementsUsers == MSpec => Spec /\ []SInv
<1>1. MInit => Init
  BY DEF MInit
<1>2. CInv => TypeOK
  BY CInvTypeOK
<1>3. CInv /\ SInv /\ [MNext]_mvars => CInv' /\ SInv'
  BY <1>2, ManagerStep, NextCInv, NextSInv DEF Next, MNext
<1>4. MInit => CInv /\ SInv
  BY <1>1, InitIInv, InitSInv DEF IInv, CInv
<1>. QED
  BY <1>1, <1>3, <1>4, ManagerStep, PTL DEF MSpec, Spec

\* So the table keeps what Users promises of it: the counter and the room
\* whatever words are cut, and the map from names when none is.
THEOREM ManagedTableIsRight ==
  /\ MSpec => [](AdminsCounted /\ TableFits)
  /\ WordsFit => (MSpec => []UniqueNames /\ ImplementsAccounts)
<1>1. MSpec => [](AdminsCounted /\ TableFits)
  BY ManagerImplementsUsers, AdminsAlwaysCounted, TableAlwaysFits, PTL
<1>2. ASSUME WordsFit
      PROVE  MSpec => []UniqueNames /\ ImplementsAccounts
  BY <1>2, ManagerImplementsUsers, NamesAlwaysUnique, UsersImplementAccounts, PTL
<1>. QED
  BY <1>1, <1>2

LastOK == /\ last.from \in Session \cup {Missing}
          /\ last.line \in Lines \cup {Nothing.line}
          /\ last.reply \in {"+OK", "-ERR", "none"}

LEMMA ReplyOK ==
  ASSUME NEW s \in Session, NEW line \in Lines, NEW r \in {"+OK", "-ERR", "none"},
         Reply(s, line, r)
  PROVE  LastOK'
  BY DEF Reply, LastOK

\* Every command has its reply.
LEMMA CommandReplies ==
  ASSUME NEW s \in Session, NEW line \in Lines, manager_read(s, line)
  PROVE  \E r \in {"+OK", "-ERR", "none"} : Reply(s, line, r)
<1>1. ASSUME NEW b, Accepted(s, line, b)
      PROVE  \E r \in {"+OK", "-ERR", "none"} : Reply(s, line, r)
  BY <1>1 DEF Accepted
<1>2. CASE handle_auth_command(s, line)
  BY <1>1, <1>2, Zenon DEF handle_auth_command, USER, PASS
<1>3. CASE handle_command(s, line)
  BY <1>1, <1>3, Zenon DEF handle_command, ADD_USER, DELETE_USER, CHANGE_PASS,
     CHANGE_STATUS, SET_MAX_USERS, Look, QUIT
<1>4. ASSUME NEW b, Reply(s, line, IF b THEN "-ERR" ELSE "none")
      PROVE  \E r \in {"+OK", "-ERR", "none"} : Reply(s, line, r)
  BY <1>4
<1>. QED
  BY <1>2, <1>3, <1>4, Zenon DEF manager_read

LEMMA NextLastOK == LastOK /\ [MNext]_mvars => LastOK'
<1>. SUFFICES ASSUME LastOK, [MNext]_mvars
     PROVE  LastOK'
  OBVIOUS
<1>1. CASE UNCHANGED last
  BY <1>1 DEF LastOK
<1>2. CASE last' = Nothing
  BY <1>2 DEF LastOK, Nothing
<1>3. ASSUME NEW s \in Session, NEW line \in Lines, manager_read(s, line) PROVE LastOK'
  BY <1>3, CommandReplies, ReplyOK
<1>. QED
  BY <1>1, <1>2, <1>3, Zenon DEF MNext, mvars, manager_passive_accept, HangUp

\* For any number of sessions and any lines, the types of the table, of the
\* sessions and of the replies.
THEOREM ManagerTypeCorrect == MSpec => []MTypeOK
<1>1. MInit => LastOK
  BY DEF MInit, LastOK, Nothing
<1>2. TypeOK /\ SInv /\ LastOK => MTypeOK
  BY DEF SInv, LastOK, MTypeOK, Data
<1>. QED
  BY <1>1, <1>2, ManagerImplementsUsers, AdminsAlwaysCounted, NextLastOK, PTL DEF MSpec

-----------------------------------------------------------------------------
(* Who logs in, and what a refusal leaves.                                 *)

\* A session that is let in named an administrator and gave its password.
LEMMA EntersAsAdministrator ==
  ASSUME CInv, SInv, NEW s \in Session, NEW line \in Lines,
         LogsIn(session[s].username, line.arg1), line = Line("PASS", line.arg1, Missing)
  PROVE  \E i \in 1 .. cantUsers : /\ users[i].name = session[s].username
                                   /\ users[i].status = ADMIN
                                   /\ line = Line("PASS", users[i].pass, Missing)
<1>. DEFINE i == user_exists(session[s].username)
<1>1. Exists(session[s].username) /\ users[i].pass = line.arg1 /\ users[i].status = ADMIN
  BY DEF LogsIn, user_login, IsAdmin
<1>2. i \in 1 .. cantUsers /\ users[i].name = session[s].username
  BY <1>1, FoundOne DEF CInv
<1>. QED
  BY <1>1, <1>2

Administrators ==
  \A s \in Session : session'[s].logged_in =>
    \/ session[s].logged_in /\ session'[s].username = session[s].username
    \/ \E i \in 1 .. cantUsers : /\ users[i].name = session'[s].username
                                 /\ users[i].status = ADMIN
                                 /\ last'.line = Line("PASS", users[i].pass, Missing)
                                 /\ last'.from = s

\* What a step does to the others it does to nobody: s alone may change.
LEMMA OthersStay ==
  ASSUME SInv, NEW s \in Session, NEW d, session' = [session EXCEPT ![s] = d],
         d.logged_in =>
           \/ session[s].logged_in /\ d.username = session[s].username
           \/ \E i \in 1 .. cantUsers : /\ users[i].name = d.username
                                        /\ users[i].status = ADMIN
                                        /\ last'.line = Line("PASS", users[i].pass, Missing)
                                        /\ last'.from = s
  PROVE  Administrators
<1>1. \A t \in Session : session'[t] = IF t = s THEN d ELSE session[t]
  BY DEF SInv
<1>2. session'[s] = d
  BY <1>1
<1>. SUFFICES ASSUME NEW t \in Session, t # s, session'[t].logged_in
     PROVE  session[t].logged_in /\ session'[t].username = session[t].username
  BY <1>2, Zenon DEF Administrators
<1>3. session'[t] = session[t]
  BY <1>1
<1>. QED
  BY <1>3, Zenon

LEMMA AuthAdministrators ==
  ASSUME CInv, SInv, NEW s \in Session, NEW line \in Lines, handle_auth_command(s, line),
         ~session[s].logged_in
  PROVE  Administrators
<1>1. session[s] \in Data
  BY DEF SInv
<1>2. CASE UNCHANGED session
  BY <1>2, Zenon DEF Administrators
<1>3. CASE USER(s, line)
  <2>1. CASE Exists(line.arg1)
    <3>. DEFINE d == [session[s] EXCEPT !.username = Kept[line.arg1], !.user_sent = TRUE]
    <3>1. session' = [session EXCEPT ![s] = d]
      BY <1>3, <2>1 DEF USER, SInv
    <3>2. d.logged_in = session[s].logged_in
      BY <1>1 DEF Data
    <3>. QED
      BY <3>1, <3>2, OthersStay
  <2>. QED
    BY <1>2, <1>3, <2>1 DEF USER
<1>4. CASE PASS(s, line)
  <2>. DEFINE enters == /\ session[s].user_sent /\ line.arg1 # Missing
                        /\ LogsIn(session[s].username, line.arg1)
              d == [session[s] EXCEPT !.logged_in = enters]
  <2>1. session' = [session EXCEPT ![s] = d]
    BY <1>4 DEF PASS, SInv
  <2>2. d.logged_in = enters /\ d.username = session[s].username
    BY <1>1 DEF Data
  <2>3. line = Line("PASS", line.arg1, Missing)
    BY <1>4, LineTypes DEF PASS
  <2>4. ASSUME enters PROVE last'.line = line /\ last'.from = s
    BY <1>4, <2>4 DEF PASS, Accepted, Reply
  <2>5. ASSUME enters
        PROVE  \E i \in 1 .. cantUsers : /\ users[i].name = session[s].username
                                         /\ users[i].status = ADMIN
                                         /\ line = Line("PASS", users[i].pass, Missing)
    BY <2>3, <2>5, EntersAsAdministrator
  <2>. HIDE DEF d, enters
  <2>6. d.logged_in =>
          \E i \in 1 .. cantUsers : /\ users[i].name = d.username
                                    /\ users[i].status = ADMIN
                                    /\ last'.line = Line("PASS", users[i].pass, Missing)
                                    /\ last'.from = s
    BY <2>2, <2>4, <2>5, Zenon
  <2>. QED
    BY <2>1, <2>6, OthersStay
<1>. QED
  BY <1>2, <1>3, <1>4 DEF handle_auth_command

LEMMA StepAdministrators == CInv /\ SInv /\ [MNext]_mvars => Administrators
<1>. SUFFICES ASSUME CInv, SInv, [MNext]_mvars
     PROVE  Administrators
  OBVIOUS
<1>1. CASE UNCHANGED session
  BY <1>1, Zenon DEF Administrators
<1>2. ASSUME NEW s \in Session, manager_close(s) PROVE Administrators
  <2>1. ~Nobody.logged_in
    BY DEF Nobody
  <2>. QED
    BY <1>2, <2>1, OthersStay DEF manager_close
<1>3. ASSUME NEW s \in Session, manager_passive_accept(s) PROVE Administrators
  <2>1. CASE session' = [session EXCEPT ![s].open = TRUE]
    <3>. DEFINE d == [session[s] EXCEPT !.open = TRUE]
    <3>1. session[s] \in Data
      BY DEF SInv
    <3>2. session' = [session EXCEPT ![s] = d]
      BY <2>1
    <3>3. d.logged_in = session[s].logged_in /\ d.username = session[s].username
      BY <3>1 DEF Data
    <3>. HIDE DEF d
    <3>4. d.logged_in => session[s].logged_in /\ d.username = session[s].username
      BY <3>3, Zenon
    <3>. QED
      BY <3>2, <3>4, OthersStay
  <2>. QED
    BY <1>1, <1>3, <2>1 DEF manager_passive_accept
<1>4. ASSUME NEW s \in Session, NEW line \in Lines, manager_read(s, line)
      PROVE  Administrators
  BY <1>1, <1>2, <1>4, AuthAdministrators, Zenon
     DEF manager_read, Authenticating, handle_command, QUIT
<1>. QED
  BY <1>1, <1>2, <1>3, <1>4, Zenon DEF MNext, mvars, HangUp

\* For any number of sessions: whoever is logged in gave the password of an
\* administrator when it logged in, and keeps that name.
THEOREM OnlyAdministratorsEnter == MSpec => SessionsAreAdministrators
<1>1. ASSUME CInv, SInv, [MNext]_mvars PROVE [Administrators]_mvars
  BY <1>1, StepAdministrators DEF MNext
<1>2. MInit => CInv /\ SInv
  BY InitIInv, InitSInv DEF MInit, IInv, CInv
<1>3. CInv /\ SInv /\ [MNext]_mvars => CInv' /\ SInv'
  BY CInvTypeOK, ManagerStep, NextCInv, NextSInv DEF MNext, Next
<1>. QED
  BY <1>1, <1>2, <1>3, PTL DEF MSpec, SessionsAreAdministrators, Administrators

\* A command that changes the table says so.
LEMMA CommandAccepted ==
  ASSUME NEW s \in Session, NEW line \in Lines, handle_command(s, line), ~UNCHANGED vars
  PROVE  Accepted(s, line, TRUE)
<1>1. CASE ADD_USER(s, line)
  <2>1. /\ line.arg2 # Missing /\ new_user(line.arg1, line.arg2)
        /\ UNCHANGED args
    BY <1>1 DEF ADD_USER, Given, Serving, vars, handle_add_user
  <2>2. CanCreate(line.arg1, line.arg2)
    BY <2>1 DEF new_user, vars
  <2>. QED
    BY <1>1, <2>1, <2>2 DEF ADD_USER, Accepted
<1>2. CASE DELETE_USER(s, line)
  <2>1. delete_user(line.arg1) /\ UNCHANGED args
    BY <1>2 DEF DELETE_USER, Given, Serving, vars, handle_delete_user
  <2>2. Deletes(line.arg1)
    BY <2>1 DEF delete_user, vars, Deletes, IsAdmin
  <2>. QED
    BY <1>2, <2>2 DEF DELETE_USER, Accepted
<1>3. CASE CHANGE_PASS(s, line)
  <2>1. /\ line.arg2 # Missing /\ UNCHANGED args
        /\ change_password(session[s].username, line.arg1, line.arg2)
    BY <1>3 DEF CHANGE_PASS, Given, Serving, vars, handle_change_pass
  <2>2. user_login(session[s].username, line.arg1)
    BY <2>1 DEF change_password, vars
  <2>. QED
    BY <1>3, <2>1, <2>2 DEF CHANGE_PASS, Accepted
<1>4. CASE CHANGE_STATUS(s, line)
  <2>1. line.arg2 # Missing
    BY <1>4 DEF CHANGE_STATUS, Given, Serving, vars
  <2>. QED
    BY <1>4, <2>1 DEF CHANGE_STATUS, Accepted
<1>5. CASE SET_MAX_USERS(s, line)
  <2>1. CASE handle_set_max_users(Value(line.arg1), FALSE)
    BY <2>1 DEF handle_set_max_users, Serving, vars
  <2>2. CASE Serving /\ UNCHANGED <<users, admins, max_users>>
    BY <2>2 DEF Serving, vars
  <2>3. CASE Accepted(s, line, TRUE)
    BY <2>3
  <2>. QED
    BY <1>5, <2>1, <2>2, <2>3 DEF SET_MAX_USERS
<1>6. CASE Look(s, line) \/ QUIT(s, line)
  BY <1>6 DEF Look, QUIT, Serving, vars
<1>. QED
  BY <1>1, <1>2, <1>3, <1>4, <1>5, <1>6, Zenon DEF handle_command

Admitted == args = <<>> /\ ~UNCHANGED vars =>
              /\ last'.reply = "+OK"
              /\ \E s \in Session : last'.from = s /\ session[s].logged_in

LEMMA StepAdmitted == [MNext]_mvars => Admitted
<1>. SUFFICES ASSUME [MNext]_mvars, args = <<>>, ~UNCHANGED vars
     PROVE  /\ last'.reply = "+OK"
            /\ \E s \in Session : last'.from = s /\ session[s].logged_in
  BY DEF Admitted
<1>1. PICK s \in Session, line \in Lines : manager_read(s, line)
  BY DEF MNext, mvars, manager_passive_accept, HangUp, Serving, vars, main_new_user
<1>2. handle_command(s, line) /\ session[s].logged_in
  BY <1>1 DEF manager_read, Authenticating, handle_auth_command, Serving, vars
<1>3. Accepted(s, line, TRUE)
  BY <1>2, CommandAccepted
<1>. QED
  BY <1>2, <1>3 DEF Accepted, Reply

\* For any number of sessions and any table: nobody who has not logged in
\* changes the table, and no command that is refused does.
THEOREM RefusalsChangeNothing == MSpec => RefusedChangesNothing
<1>1. [MNext]_mvars => [Admitted]_mvars
  BY StepAdmitted DEF MNext
<1>. QED
  BY <1>1, PTL DEF MSpec, RefusedChangesNothing, Admitted

-----------------------------------------------------------------------------
(* What +OK says is so.                                                    *)

\* Slot i holds the account of its name.
LEMMA SlotIsAccount ==
  ASSUME IInv, NEW i \in 1 .. cantUsers
  PROVE  /\ users[i].name \in Names
         /\ AccountOf(users[i].name) = [pass |-> users[i].pass, admin |-> users[i].status = ADMIN]
  BY IInvMapped DEF Mapped, Entry, Names

LEMMA ExistsInNames ==
  ASSUME NEW n
  PROVE  Exists(n) <=> n \in Names
  BY DEF Exists, Found, Names

LEMMA SlotPrimed ==
  ASSUME Mapped', NEW i \in 1 .. cantUsers', NEW n, users'[i].name = n
  PROVE  /\ n \in Names' /\ AccountOf(n)'.pass = users'[i].pass
         /\ AccountOf(n)' = [pass |-> users'[i].pass, admin |-> users'[i].status = ADMIN]
<1>1. AccountOf(n)' = Entry(i)'
  BY DEF Mapped
<1>2. n \in Names'
  BY DEF Names
<1>. QED
  BY <1>1, <1>2 DEF Entry

LEMMA AddTrue ==
  ASSUME WordsFit, IInv, IInv', NEW n \in Name, NEW p \in Password, new_user(n, p),
         CanCreate(n, p)
  PROVE  n \notin Names /\ AccountIs(n, p)'
<1>0. Mapped'
  BY IInvMapped, PTL
<1>. DEFINE k == Len(users) + 1
<1>1. users \in Seq(User)
  BY DEF IInv, TableType
<1>2. users' = Append(users, [name |-> n, pass |-> p, status |-> COMMONER])
  BY DEF new_user, WordsFit
<1>3. k \in 1 .. cantUsers' /\ users'[k].name = n /\ users'[k].pass = p
  BY <1>1, <1>2, AppendProperties, LenProperties DEF cantUsers
<1>4. n \in Names' /\ AccountOf(n)'.pass = p
  BY <1>3, <1>0, SlotPrimed
<1>. QED
  BY <1>4, ExistsInNames DEF CanCreate, AccountIs

LEMMA DeleteTrue ==
  ASSUME IInv, NEW n, delete_user(n), Deletes(n)
  PROVE  n \in Names \ Names'
<1>. DEFINE k == user_exists(n)
<1>1. users' = Without(k) /\ n \in Names
  BY ExistsInNames DEF delete_user, Deletes, IsAdmin
<1>2. k \in 1 .. Len(users) /\ users[k].name = n /\ Len(users) \in Nat
  BY FoundOne, LenProperties DEF IInv, TableType, Deletes, cantUsers
<1>3. /\ Len(users') = Len(users) - 1
      /\ \A j \in 1 .. Len(users) - 1 : users'[j] = IF j < k THEN users[j] ELSE users[j + 1]
  BY <1>1, <1>2 DEF Without, cantUsers
<1>4. ASSUME NEW j \in 1 .. Len(users) - 1 PROVE users'[j].name # n
  <2>1. CASE j < k
    <3>1. users[j].name = users[k].name => j = k
      BY <1>2, <1>4 DEF IInv, UniqueNames, cantUsers
    <3>. QED
      BY <1>2, <1>3, <2>1, <3>1
  <2>2. CASE ~(j < k)
    <3>1. j + 1 \in 1 .. Len(users) /\ j + 1 # k
      BY <1>2, <2>2
    <3>2. users[j + 1].name = users[k].name => j + 1 = k
      BY <1>2, <3>1 DEF IInv, UniqueNames, cantUsers
    <3>. QED
      BY <1>2, <1>3, <2>2, <3>1, <3>2
  <2>. QED
    BY <2>1, <2>2
<1>. QED
  BY <1>1, <1>3, <1>4 DEF Names, cantUsers

LEMMA PassTrue ==
  ASSUME WordsFit, IInv, IInv', NEW n, NEW p, NEW q \in Password, change_password(n, p, q),
         user_login(n, p)
  PROVE  AccountIs(n, p) /\ AccountIs(n, q)'
<1>0. Mapped'
  BY IInvMapped, PTL
<1>. DEFINE k == user_exists(n)
<1>1. users \in Seq(User) /\ Exists(n) /\ users[k].pass = p
  BY DEF IInv, TableType, user_login
<1>2. k \in 1 .. Len(users) /\ users[k].name = n /\ users[k] \in User
  BY <1>1, FoundOne DEF IInv, cantUsers
<1>3. users' = [users EXCEPT ![k] = [users[k] EXCEPT !.pass = q]]
  BY <1>1, <1>2 DEF change_password, WordsFit
<1>4. k \in 1 .. cantUsers' /\ users'[k] = [users[k] EXCEPT !.pass = q]
  BY <1>1, <1>2, <1>3, ExceptSeq, LenProperties DEF cantUsers
<1>5. users'[k].name = n /\ users'[k].pass = q
  BY <1>2, <1>4 DEF User
<1>6. n \in Names' /\ AccountOf(n)'.pass = q
  BY <1>4, <1>5, <1>0, SlotPrimed
<1>7. n \in Names /\ AccountOf(n).pass = p
  BY <1>1, ExistsInNames, Zenon DEF AccountOf
<1>. QED
  BY <1>6, <1>7 DEF AccountIs

LEMMA StatusTrue ==
  ASSUME IInv, IInv', NEW n, NEW status, change_status(n, status), n \in Names
  PROVE  n \in Names' /\ AccountOf(n)'.admin = (status = ADMIN)
<1>0. Mapped'
  BY IInvMapped, PTL
<1>. DEFINE k == user_exists(n)
<1>1. users \in Seq(User) /\ Exists(n)
  BY ExistsInNames DEF IInv, TableType
<1>2. k \in 1 .. Len(users) /\ users[k].name = n /\ users[k] \in User
  BY <1>1, FoundOne DEF IInv, cantUsers
<1>3. users' = [users EXCEPT ![k] = [users[k] EXCEPT !.status = status]]
  BY <1>1, <1>2 DEF change_status
<1>4. k \in 1 .. cantUsers' /\ users'[k] = [users[k] EXCEPT !.status = status]
  BY <1>1, <1>2, <1>3, LenProperties DEF cantUsers
<1>5. users'[k].name = n /\ users'[k].status = status
  BY <1>2, <1>4 DEF User
<1>6. AccountOf(n)' = [pass |-> users'[k].pass, admin |-> users'[k].status = ADMIN]
  BY <1>4, <1>5, <1>0, SlotPrimed
<1>7. n \in Names'
  BY <1>4, <1>5, <1>0, SlotPrimed
<1>8. AccountOf(n)'.admin = (users'[k].status = ADMIN)
  <2>1. \A p, b : [pass |-> p, admin |-> b].admin = b
    OBVIOUS
  <2>. HIDE DEF k
  <2>. QED
    BY <1>6, <2>1, Zenon
<1>. QED
  BY <1>5, <1>7, <1>8, Zenon

\* The last command was `line', and its reply +OK.
Told(line) == last' = [from |-> last'.from, line |-> line, reply |-> "+OK"]

LEMMA ToldReply ==
  ASSUME NEW s, NEW line, NEW r, Reply(s, line, r), NEW told, Told(told)
  PROVE  line = told /\ r = "+OK" /\ last'.from = s
  BY DEF Reply, Told

LEMMA ToldAccepted ==
  ASSUME NEW s, NEW line, NEW b, Accepted(s, line, b), NEW told, Told(told)
  PROVE  b
  BY ToldReply DEF Accepted

LEMMA ToldCommand ==
  ASSUME NEW s \in Session, NEW line \in Lines, manager_read(s, line),
         NEW told, Told(told), told.cmd \notin {"USER", "PASS"}
  PROVE  line = told /\ last'.from = s /\ handle_command(s, told) /\ session[s].logged_in
<1>1. line = told /\ last'.from = s
  BY CommandReplies, ToldReply
<1>2. ~handle_auth_command(s, line)
  BY <1>1, ToldAccepted, Zenon DEF handle_auth_command, USER, PASS
<1>3. ASSUME NEW b, Reply(s, line, IF b THEN "-ERR" ELSE "none") PROVE FALSE
  BY <1>3, ToldReply
<1>. QED
  BY <1>1, <1>2, <1>3, Zenon DEF manager_read, Authenticating

LEMMA AddTold ==
  ASSUME WordsFit, IInv, IInv', NEW s \in Session, NEW line \in Lines,
         manager_read(s, line), NEW n \in Name, NEW p \in Password,
         Told(Line("ADD-USER", n, p))
  PROVE  n \notin Names /\ AccountIs(n, p)'
<1>. DEFINE l == Line("ADD-USER", n, p)
<1>1. l.cmd = "ADD-USER" /\ l.arg1 = n /\ l.arg2 = p /\ n # Missing /\ p # Missing
  BY ManagerAssumption DEF Line
<1>2. handle_command(s, l)
  BY <1>1, ToldCommand
<1>. HIDE DEF l
<1>3. ADD_USER(s, l)
  BY <1>1, <1>2 DEF handle_command, DELETE_USER, CHANGE_PASS, CHANGE_STATUS, SET_MAX_USERS,
     Look, QUIT
<1>4. new_user(n, p)
  BY <1>1, <1>3 DEF ADD_USER, Given, handle_add_user
<1>5. CanCreate(n, p)
  BY <1>1, <1>3, ToldAccepted DEF ADD_USER, l
<1>. QED
  BY <1>4, <1>5, AddTrue

LEMMA DeleteTold ==
  ASSUME IInv, NEW s \in Session, NEW line \in Lines, manager_read(s, line),
         NEW n \in Name, Told(Line("DELETE-USER", n, Missing))
  PROVE  n \in Names \ Names'
<1>. DEFINE l == Line("DELETE-USER", n, Missing)
<1>1. l.cmd = "DELETE-USER" /\ l.arg1 = n /\ n # Missing
  BY ManagerAssumption DEF Line
<1>2. handle_command(s, l)
  BY <1>1, ToldCommand
<1>. HIDE DEF l
<1>3. DELETE_USER(s, l)
  BY <1>1, <1>2 DEF handle_command, ADD_USER, CHANGE_PASS, CHANGE_STATUS, SET_MAX_USERS,
     Look, QUIT
<1>4. delete_user(n)
  BY <1>1, <1>3 DEF DELETE_USER, Given, handle_delete_user
<1>5. Deletes(n)
  BY <1>1, <1>3, ToldAccepted DEF DELETE_USER, l
<1>. QED
  BY <1>4, <1>5, DeleteTrue

LEMMA PassTold ==
  ASSUME WordsFit, IInv, IInv', NEW s \in Session, NEW line \in Lines,
         manager_read(s, line), NEW n \in Name, NEW p \in Password, NEW q \in Password,
         Told(Line("CHANGE-PASS", p, q)), n = session[last'.from].username
  PROVE  AccountIs(n, p) /\ AccountIs(n, q)'
<1>. DEFINE l == Line("CHANGE-PASS", p, q)
<1>1. l.cmd = "CHANGE-PASS" /\ l.arg1 = p /\ l.arg2 = q /\ p # Missing /\ q # Missing
  BY ManagerAssumption DEF Line
<1>2. handle_command(s, l) /\ last'.from = s
  BY <1>1, ToldCommand
<1>. HIDE DEF l
<1>3. CHANGE_PASS(s, l)
  BY <1>1, <1>2 DEF handle_command, ADD_USER, DELETE_USER, CHANGE_STATUS, SET_MAX_USERS,
     Look, QUIT
<1>4. change_password(n, p, q)
  BY <1>1, <1>2, <1>3 DEF CHANGE_PASS, Given, handle_change_pass
<1>5. user_login(n, p)
  BY <1>1, <1>2, <1>3, ToldAccepted DEF CHANGE_PASS, l
<1>. QED
  BY <1>4, <1>5, PassTrue

LEMMA StatusTold ==
  ASSUME IInv, IInv', NEW s \in Session, NEW line \in Lines, manager_read(s, line),
         NEW n \in Name, NEW p \in Password, Told(Line("CHANGE-STATUS", n, p)), n \in Names
  PROVE  n \in Names' /\ (AccountOf(n)'.admin <=> p = "admin")
<1>. DEFINE l == Line("CHANGE-STATUS", n, p)
<1>1. /\ l.cmd = "CHANGE-STATUS" /\ l.arg1 = n /\ l.arg2 = p /\ n # Missing
      /\ p # Missing
  BY ManagerAssumption DEF Line
<1>2. handle_command(s, l)
  BY <1>1, ToldCommand
<1>. HIDE DEF l
<1>3. CHANGE_STATUS(s, l)
  BY <1>1, <1>2 DEF handle_command, ADD_USER, DELETE_USER, CHANGE_PASS, SET_MAX_USERS,
     Look, QUIT
<1>4. change_status(n, Role(p))
  BY <1>1, <1>3 DEF CHANGE_STATUS, Given, handle_change_status
<1>5. n \in Names' /\ AccountOf(n)'.admin = (Role(p) = ADMIN)
  BY <1>4, StatusTrue
<1>6. Role(p) = ADMIN <=> p = "admin"
  BY DEF Role, ADMIN, COMMONER
<1>. QED
  BY <1>5, <1>6, Zenon

LEMMA LimitTold ==
  ASSUME NEW s \in Session, NEW line \in Lines, manager_read(s, line),
         NEW w \in DOMAIN Number, Told(Line("SET-MAX-USERS", w, Missing))
  PROVE  max_users' = Number[w]
<1>. DEFINE l == Line("SET-MAX-USERS", w, Missing)
<1>1. l.cmd = "SET-MAX-USERS" /\ l.arg1 = w
  BY DEF Line
<1>2. handle_command(s, l)
  BY <1>1, ToldCommand
<1>. HIDE DEF l
<1>3. SET_MAX_USERS(s, l)
  BY <1>1, <1>2 DEF handle_command, ADD_USER, DELETE_USER, CHANGE_PASS, CHANGE_STATUS,
     Look, QUIT
<1>4. PICK granted \in BOOLEAN : /\ handle_set_max_users(Value(w), granted)
                                /\ Accepted(s, l, granted)
  <2>1. ~Accepted(s, l, FALSE)
    BY ToldAccepted DEF l
  <2>. QED
    BY <1>1, <1>3, <2>1 DEF SET_MAX_USERS
<1>5. granted
  BY <1>4, ToldAccepted DEF l
<1>. QED
  BY <1>4, <1>5 DEF handle_set_max_users, Value

\* No reply before the loop begins.
Quiet == args # <<>> => last = Nothing

\* A command is taken up only once the loop has begun.
LEMMA ReadServes ==
  ASSUME NEW s \in Session, NEW line, manager_read(s, line)
  PROVE  Serving
<1>1. CASE handle_auth_command(s, line)
  BY <1>1, Zenon DEF handle_auth_command
<1>2. CASE ADD_USER(s, line)
  <2>1. Given(line, 2, handle_add_user(line.arg1, line.arg2))
    BY <1>2, Zenon DEF ADD_USER
  <2>. QED
    BY <2>1, Zenon DEF Given, handle_add_user
<1>3. CASE DELETE_USER(s, line)
  <2>1. Given(line, 1, handle_delete_user(line.arg1))
    BY <1>3, Zenon DEF DELETE_USER
  <2>. QED
    BY <2>1, Zenon DEF Given, handle_delete_user
<1>4. CASE CHANGE_PASS(s, line)
  <2>1. Given(line, 2, handle_change_pass(session[s].username, line.arg1, line.arg2))
    BY <1>4, Zenon DEF CHANGE_PASS
  <2>. QED
    BY <2>1, Zenon DEF Given, handle_change_pass
<1>5. CASE CHANGE_STATUS(s, line)
  <2>1. Given(line, 2, handle_change_status(line.arg1, Role(line.arg2)))
    BY <1>5, Zenon DEF CHANGE_STATUS
  <2>. QED
    BY <2>1, Zenon DEF Given, handle_change_status
<1>6. CASE SET_MAX_USERS(s, line)
  <2>1. CASE \E granted \in BOOLEAN : handle_set_max_users(Value(line.arg1), granted)
    BY <2>1, Zenon DEF handle_set_max_users
  <2>2. CASE Serving
    BY <2>2
  <2>. QED
    BY <1>6, <2>1, <2>2, Zenon DEF SET_MAX_USERS
<1>7. CASE Look(s, line) \/ QUIT(s, line)
  BY <1>7, Zenon DEF Look, QUIT
<1>. QED
  BY <1>1, <1>2, <1>3, <1>4, <1>5, <1>6, <1>7, Zenon DEF manager_read, handle_command

LEMMA NextQuiet == Quiet /\ [MNext]_mvars => Quiet'
<1>. SUFFICES ASSUME Quiet, [MNext]_mvars PROVE Quiet'
  OBVIOUS
<1>1. CASE main_new_user /\ UNCHANGED <<session, last>>
  BY <1>1, Zenon DEF Quiet, main_new_user
<1>2. CASE UNCHANGED mvars
  BY <1>2 DEF Quiet, mvars, vars
<1>3. CASE Serving
  BY <1>3 DEF Quiet, Serving
<1>4. ASSUME NEW s \in Session, manager_passive_accept(s) \/ HangUp(s)
      PROVE  Serving
  BY <1>4, Zenon DEF manager_passive_accept, HangUp
<1>. QED
  BY <1>1, <1>2, <1>3, <1>4, ReadServes, Zenon DEF MNext

Truth ==
  LET ok(line) == last' = [from |-> last'.from, line |-> line, reply |-> "+OK"]
  IN \A n \in Name, p, q \in Password :
       /\ ok(Line("ADD-USER", n, p)) => n \notin Names /\ AccountIs(n, p)'
       /\ ok(Line("DELETE-USER", n, Missing)) => n \in Names \ Names'
       /\ ok(Line("CHANGE-PASS", p, q)) /\ n = session[last'.from].username =>
            AccountIs(n, p) /\ AccountIs(n, q)'
       /\ ok(Line("CHANGE-STATUS", n, p)) /\ n \in Names =>
            n \in Names' /\ (AccountOf(n)'.admin <=> p = "admin")
       /\ \A w \in DOMAIN Number :
            ok(Line("SET-MAX-USERS", w, Missing)) => max_users' = Number[w]

LEMMA ReadTruth ==
  ASSUME WordsFit, IInv, IInv', NEW s \in Session, NEW line \in Lines, manager_read(s, line)
  PROVE  Truth
<1>. SUFFICES ASSUME NEW n \in Name, NEW p \in Password, NEW q \in Password
     PROVE  /\ Told(Line("ADD-USER", n, p)) => n \notin Names /\ AccountIs(n, p)'
            /\ Told(Line("DELETE-USER", n, Missing)) => n \in Names \ Names'
            /\ Told(Line("CHANGE-PASS", p, q)) /\ n = session[last'.from].username =>
                 AccountIs(n, p) /\ AccountIs(n, q)'
            /\ Told(Line("CHANGE-STATUS", n, p)) /\ n \in Names =>
                 n \in Names' /\ (AccountOf(n)'.admin <=> p = "admin")
            /\ \A w \in DOMAIN Number :
                 Told(Line("SET-MAX-USERS", w, Missing)) => max_users' = Number[w]
  BY Zenon DEF Truth, Told
<1>. QED
  BY AddTold, DeleteTold, PassTold, StatusTold, LimitTold, Zenon

LEMMA SilentTruth ==
  ASSUME last'.reply = "none"
  PROVE  Truth
<1>1. \A l : ~Told(l)
  BY DEF Told
<1>. QED
  BY <1>1, Zenon DEF Truth, Told

LEMMA StepTruth == WordsFit /\ IInv /\ IInv' /\ Quiet /\ [MNext]_mvars => [Truth]_mvars
<1>. SUFFICES ASSUME WordsFit, IInv, IInv', Quiet, MNext
     PROVE  Truth
  BY DEF MNext
<1>1. CASE main_new_user /\ UNCHANGED <<session, last>>
  <2>1. last' = Nothing
    BY <1>1 DEF Quiet, main_new_user
  <2>. QED
    BY <2>1, SilentTruth DEF Nothing
<1>2. CASE last' = Nothing
  BY <1>2, SilentTruth DEF Nothing
<1>. QED
  BY <1>1, <1>2, ReadTruth, Zenon DEF MNext, manager_passive_accept, HangUp

\* For any number of sessions and any table: +OK tells the truth about the
\* account, the password or the limit that was asked for.
THEOREM RepliesAreTrue ==
  ASSUME WordsFit PROVE MSpec => RepliesTrue
<1>1. MInit => IInv /\ SInv /\ Quiet
  BY InitIInv, InitSInv DEF MInit, Quiet
<1>2. IInv /\ SInv /\ [MNext]_mvars => IInv' /\ SInv'
  BY IInvTypeOK, ManagerStep, NextIInv, NextSInv DEF MNext, Next
<1>. QED
  BY <1>1, <1>2, NextQuiet, StepTruth, PTL DEF MSpec, RepliesTrue, Truth
=============================================================================
