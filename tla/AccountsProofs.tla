--------------------------- MODULE AccountsProofs ---------------------------
(***************************************************************************)
(* What Accounts promises for every number of requests, identities,        *)
(* addresses and sessions, with every failure switched on or off.          *)
(***************************************************************************)
EXTENDS Accounts, TLAPS

-----------------------------------------------------------------------------
(* Types.                                                                  *)

Types ==
  /\ auth \in [AuthId -> Identity \cup {Nil, Gone}]
  /\ sessions \in [Token -> Session \cup {Nil}]
  /\ users \subseteq User
  /\ pc \in [Request -> Running \cup {"idle", "done"}]
  /\ call \in [Request -> Call \cup {Nil}]
  /\ wanted \in [Request -> Columns \cup {Nil}]
  /\ token \in [Request -> Token \cup {Nil}]
  /\ view \in [Request -> User \cup {Nil}]
  /\ write \in [Request -> User \cup {Nil}]
  /\ answer \in [Request -> Status \cup {Nil}]
  /\ made \in [Request -> BOOLEAN]
  /\ ending \in [Request -> SUBSET Token]
  /\ cut \in [AuthId -> Cause \cup {Nil}]

\* The places of sync_from_supabase.
Syncing == {"find_user", "insert_user", "update_user"}

\* A token the request holds stands for a session of Supabase.
Holds(r) == token[r] # Nil /\ sessions[token[r]] # Nil

\* What a request has at hand where it is.
Shape(r) ==
  /\ pc[r] \in Running => call[r] # Nil
  /\ pc[r] \in Syncing => call[r].op \in {"sign_up", "sign_in"}
  /\ pc[r] \in {"create_identity", "compensate"} => call[r].op = "sign_up"
  /\ pc[r] \in {"check_password", "check_active"} => call[r].op = "sign_in"
  /\ pc[r] \in Syncing \cup {"check_active", "compensate"} => wanted[r] # Nil
  /\ pc[r] \in {"update_user", "check_active"} => view[r] # Nil
  /\ pc[r] \in {"idle", "create_identity", "check_password", "find_user", "insert_user"}
       => view[r] = Nil
  /\ pc[r] \in Syncing \cup {"check_active"} /\ call[r].op = "sign_in"
       => Holds(r) /\ sessions[token[r]].user = wanted[r].sid
  /\ pc[r] \in {"authorize", "revoke"} => Holds(r)
  /\ write[r] # Nil => pc[r] \in {"check_active", "commit"}
  /\ made[r] => /\ pc[r] \in Syncing \cup {"compensate", "commit", "done"}
                /\ call[r] # Nil /\ call[r].op = "sign_up" /\ wanted[r] # Nil
  /\ ending[r] # {} => pc[r] \in {"revoke", "commit", "done"}

Typed == Types /\ \A r \in Request : Shape(r)

\* Supabase never forgets a session, nor whose it is.
SessionsLast ==
  \A t \in Token : sessions[t] # Nil =>
    sessions'[t] # Nil /\ sessions'[t].user = sessions[t].user

\* Nothing of the request changes.
Rests(q) ==
  /\ pc'[q] = pc[q] /\ call'[q] = call[q] /\ wanted'[q] = wanted[q]
  /\ token'[q] = token[q] /\ view'[q] = view[q] /\ write'[q] = write[q]
  /\ answer'[q] = answer[q] /\ made'[q] = made[q] /\ ending'[q] = ending[q]

\* A step of one request that does not bring sessions back.
Alone(r) == SessionsLast /\ \A q \in Request \ {r} : Rests(q)

LEMMA RestsKeepsShape ==
  ASSUME Types, NEW q \in Request, Shape(q), Rests(q), SessionsLast
  PROVE  Shape(q)'
BY AccountsAssumption DEF Types, Shape, Rests, SessionsLast, Holds

LEMMA TypedFollows ==
  ASSUME Typed, NEW r \in Request, Types', Shape(r)', Alone(r)
  PROVE  Typed'
BY RestsKeepsShape DEF Typed, Alone

LEMMA TypedInit == Init => Typed
BY AccountsAssumption DEF Init, Typed, Types, Shape, Running, Syncing

\* A request that is refused leaves nothing pending.
LEMMA RefuseTyped ==
  ASSUME Typed, NEW r \in Request, NEW s \in Status, Refuse(r, s), SessionsLast,
         UNCHANGED <<users, call, wanted, token, view, made, ending>>,
         made[r] => pc[r] \in Running,
         auth' \in [AuthId -> Identity \cup {Nil, Gone}],
         sessions' \in [Token -> Session \cup {Nil}],
         cut' \in [AuthId -> Cause \cup {Nil}]
  PROVE  Typed' /\ Alone(r)
<1>1. Types /\ Shape(r) BY DEF Typed
<1>2. Types' BY <1>1 DEF Types, Refuse
<1>3. Alone(r) BY <1>1 DEF Types, Refuse, Alone, Rests
<1>4. Shape(r)' BY <1>1 DEF Types, Refuse, Shape, Running, Syncing
<1>. QED BY <1>2, <1>3, <1>4, TypedFollows

LEMMA CreateIdentityTyped ==
  ASSUME Typed, NEW r \in Request, CreateIdentity(r)
  PROVE  Typed' /\ Alone(r)
<1>. DEFINE e == call[r].email
            w(u) == [sid |-> u, email |-> e, verified |-> FALSE]
<1>1. Types /\ Shape(r) BY DEF Typed
<1>2. /\ pc[r] = "create_identity" /\ call[r] # Nil /\ call[r].op = "sign_up"
      /\ e \in Email /\ view[r] = Nil /\ write[r] = Nil /\ ~made[r] /\ ending[r] = {}
  BY <1>1, AccountsAssumption DEF Types, Shape, CreateIdentity, Running, Syncing, Call
<1>3. UNCHANGED <<sessions, users, call, token, view, ending, cut>> BY DEF CreateIdentity
<1>4. SessionsLast BY <1>3 DEF SessionsLast
<1>5. \A u \in AuthId : w(u) \in Columns /\ w(u) # Nil
  <2>1. \A u \in AuthId : w(u) \in Columns BY <1>2 DEF Columns
  <2>. QED BY <2>1, AccountsAssumption
<1>6. CASE Refuse(r, 400) /\ UNCHANGED <<auth, wanted, made>>
  BY <1>1, <1>2, <1>3, <1>4, <1>6, RefuseTyped DEF Types, Status
<1>7. ASSUME NEW u \in AuthId, wanted' = [wanted EXCEPT ![r] = w(u)],
             Goto(r, "find_user"), UNCHANGED write,
             auth' \in [AuthId -> Identity \cup {Nil, Gone}],
             made' = [made EXCEPT ![r] = TRUE] \/ UNCHANGED made
      PROVE  Typed' /\ Alone(r)
  <2>. HIDE DEF w
  <2>1. Types' BY <1>1, <1>3, <1>5, <1>7 DEF Types, Goto, Running
  <2>2. Alone(r) BY <1>1, <1>3, <1>4, <1>7 DEF Types, Goto, Alone, Rests
  <2>3. Shape(r)'
    BY <1>1, <1>2, <1>3, <1>5, <1>7 DEF Types, Goto, Shape, Running, Syncing
  <2>. QED BY <2>1, <2>2, <2>3, TypedFollows
<1>8. ASSUME NEW u \in AuthId, Creates(u, e)
      PROVE  auth' \in [AuthId -> Identity \cup {Nil, Gone}]
  BY <1>1, <1>2, <1>8 DEF Types, Creates, Identity
<1>9. auth \in [AuthId -> Identity \cup {Nil, Gone}] BY <1>1 DEF Types
<1>. QED BY <1>6, <1>7, <1>8, <1>9 DEF CreateIdentity, IdentitiesOf

\* A new session is a session, and it costs no other.
LEMMA StartsTyped ==
  ASSUME Typed, NEW t \in Token, NEW u \in AuthId, Starts(t, u)
  PROVE  /\ sessions' \in [Token -> Session \cup {Nil}] /\ SessionsLast
         /\ sessions'[t] # Nil /\ sessions'[t].user = u
<1>. DEFINE s == [user |-> u, live |-> TRUE, given |-> FALSE]
<1>1. s \in Session /\ s.user = u BY DEF Session
<1>2. s # Nil BY <1>1, AccountsAssumption
<1>. HIDE DEF s
<1>3. sessions' = [sessions EXCEPT ![t] = s] /\ sessions[t] = Nil BY DEF Starts, s
<1>. QED BY <1>1, <1>2, <1>3 DEF Typed, Types, SessionsLast

LEMMA RevokedTyped ==
  ASSUME Typed, NEW ts \in SUBSET Token, sessions' = Revoked(ts),
         \A t \in ts : sessions[t] # Nil
  PROVE  sessions' \in [Token -> Session \cup {Nil}] /\ SessionsLast
<1>1. ASSUME NEW t \in Token, sessions[t] # Nil
      PROVE  /\ [sessions[t] EXCEPT !.live = FALSE] \in Session
             /\ [sessions[t] EXCEPT !.live = FALSE] # Nil
             /\ [sessions[t] EXCEPT !.live = FALSE].user = sessions[t].user
  <2>1. sessions[t] \in Session BY <1>1 DEF Typed, Types
  <2>2. [sessions[t] EXCEPT !.live = FALSE] \in Session BY <2>1 DEF Session
  <2>3. [sessions[t] EXCEPT !.live = FALSE] # Nil BY <2>2, AccountsAssumption
  <2>. QED BY <2>1, <2>2, <2>3 DEF Session
<1>2. \A t \in Token : sessions'[t] =
        IF t \in ts THEN [sessions[t] EXCEPT !.live = FALSE] ELSE sessions[t]
  BY DEF Revoked
<1>3. sessions' \in [Token -> Session \cup {Nil}]
  BY <1>1 DEF Revoked, Typed, Types
<1>. QED BY <1>1, <1>2, <1>3 DEF SessionsLast

LEMMA CheckPasswordTyped ==
  ASSUME Typed, NEW r \in Request, CheckPassword(r)
  PROVE  Typed' /\ Alone(r)
<1>1. Types /\ Shape(r) BY DEF Typed
<1>2. /\ pc[r] = "check_password" /\ call[r] # Nil /\ call[r].op = "sign_in"
      /\ view[r] = Nil /\ write[r] = Nil /\ ~made[r] /\ ending[r] = {}
  BY <1>1 DEF Shape, CheckPassword, Running, Syncing
<1>3. UNCHANGED <<auth, users, call, view, made, ending, cut>> BY DEF CheckPassword
<1>4. CASE Refuse(r, 401) /\ UNCHANGED <<sessions, wanted, token>>
  BY <1>1, <1>2, <1>3, <1>4, RefuseTyped DEF Types, Status, SessionsLast
<1>5. ASSUME NEW u \in IdentitiesOf(call[r].email), NEW t \in Token,
             Starts(t, u), token' = [token EXCEPT ![r] = t],
             wanted' = [wanted EXCEPT ![r] =
               [sid |-> u, email |-> auth[u].email, verified |-> TRUE]],
             Goto(r, "find_user"), UNCHANGED write
      PROVE  Typed' /\ Alone(r)
  <2>. DEFINE w == [sid |-> u, email |-> auth[u].email, verified |-> TRUE]
  <2>1. u \in AuthId /\ auth[u] \in Identity
    BY <1>1 DEF IdentitiesOf, Exists, Types
  <2>2. w \in Columns /\ w.sid = u BY <2>1 DEF Identity, Columns
  <2>3. w # Nil /\ t # Nil
    <3>1. w # Nil BY <2>2, AccountsAssumption
    <3>2. t # Nil BY AccountsAssumption DEF Token
    <3>. QED BY <3>1, <3>2
  <2>. HIDE DEF w
  <2>4. wanted' = [wanted EXCEPT ![r] = w] BY <1>5 DEF w
  <2>5. /\ sessions' \in [Token -> Session \cup {Nil}] /\ SessionsLast
        /\ sessions'[t] # Nil /\ sessions'[t].user = u
    BY <1>5, <2>1, StartsTyped
  <2>6. Types' BY <1>1, <1>3, <1>5, <2>2, <2>4, <2>5 DEF Types, Goto, Running
  <2>7. Alone(r) BY <1>1, <1>3, <1>5, <2>4, <2>5 DEF Types, Goto, Alone, Rests
  <2>8. Shape(r)'
    BY <1>1, <1>2, <1>3, <1>5, <2>2, <2>3, <2>4, <2>5
    DEF Types, Goto, Shape, Running, Syncing, Holds
  <2>. QED BY <2>6, <2>7, <2>8, TypedFollows
<1>. QED BY <1>4, <1>5 DEF CheckPassword

LEMMA SyncFailsTyped ==
  ASSUME Typed, NEW r \in Request, SyncFails(r), pc[r] \in Syncing
  PROVE  Typed' /\ Alone(r)
<1>1. Types /\ Shape(r) BY DEF Typed
<1>2. UNCHANGED <<auth, sessions, users, call, wanted, token, view, made, ending, cut>>
  BY DEF SyncFails
<1>3. SessionsLast BY <1>2 DEF SessionsLast
<1>4. CASE Refuse(r, 500)
  BY <1>1, <1>2, <1>3, <1>4, RefuseTyped DEF Types, Status, Running, Syncing
<1>5. CASE SignsUp(r) /\ Goto(r, "compensate") /\ write' = [write EXCEPT ![r] = Nil]
  <2>1. Types' BY <1>1, <1>2, <1>5 DEF Types, Goto, Running
  <2>2. Alone(r) BY <1>1, <1>2, <1>3, <1>5 DEF Types, Goto, Alone, Rests
  <2>3. Shape(r)'
    BY <1>1, <1>2, <1>5 DEF Types, Goto, Shape, Running, Syncing, SignsUp
  <2>. QED BY <2>1, <2>2, <2>3, TypedFollows
<1>. QED BY <1>4, <1>5 DEF SyncFails

LEMMA FindUserTyped ==
  ASSUME Typed, NEW r \in Request, FindUser(r)
  PROVE  Typed' /\ Alone(r)
<1>1. Types /\ Shape(r) BY DEF Typed
<1>2. pc[r] = "find_user" /\ view[r] = Nil /\ SessionsLast
      /\ UNCHANGED <<auth, sessions, users, call, wanted, token, write, made, ending, cut>>
  BY <1>1 DEF FindUser, Shape, SessionsLast
<1>3. CASE Goto(r, "insert_user") /\ UNCHANGED view
  <2>1. Types' BY <1>1, <1>2, <1>3 DEF Types, Goto, Running
  <2>2. Alone(r) BY <1>1, <1>2, <1>3 DEF Types, Goto, Alone, Rests
  <2>3. Shape(r)' BY <1>1, <1>2, <1>3 DEF Types, Goto, Shape, Running, Syncing, Holds
  <2>. QED BY <2>1, <2>2, <2>3, TypedFollows
<1>4. ASSUME NEW x \in RowOf(wanted[r].sid), view' = [view EXCEPT ![r] = x],
             Goto(r, "update_user")
      PROVE  Typed' /\ Alone(r)
  <2>1. x \in User BY <1>1 DEF RowOf, Types
  <2>2. x # Nil BY <2>1, AccountsAssumption
  <2>3. Types' BY <1>1, <1>2, <1>4, <2>1 DEF Types, Goto, Running
  <2>4. Alone(r) BY <1>1, <1>2, <1>4 DEF Types, Goto, Alone, Rests
  <2>5. Shape(r)'
    BY <1>1, <1>2, <1>4, <2>2 DEF Types, Goto, Shape, Running, Syncing, Holds
  <2>. QED BY <2>3, <2>4, <2>5, TypedFollows
<1>. QED BY <1>3, <1>4 DEF FindUser

LEMMA FlushTyped ==
  ASSUME Typed, NEW r \in Request, NEW row \in User \cup {Nil}, Flush(r, row),
         pc[r] \in {"insert_user", "update_user"}, row = Nil => view[r] # Nil
  PROVE  Typed' /\ Alone(r)
<1>1. Types /\ Shape(r) BY DEF Typed
<1>2. /\ UNCHANGED <<auth, sessions, users, call, wanted, token, made, ending, cut>>
      /\ write' = [write EXCEPT ![r] = row]
      /\ view' = [view EXCEPT ![r] = IF view[r] = Nil THEN row ELSE view[r]]
      /\ SessionsLast
  BY DEF Flush, SessionsLast
<1>3. \/ SignsUp(r) /\ Respond(r, 201)
      \/ ~SignsUp(r) /\ Goto(r, "check_active")
  BY DEF Flush
<1>4. Types' BY <1>1, <1>2, <1>3 DEF Types, Goto, Respond, Running, Status
<1>5. Alone(r) BY <1>1, <1>2, <1>3 DEF Types, Goto, Respond, Alone, Rests
<1>6. pc[r] \in Syncing /\ pc[r] \in Running BY DEF Syncing, Running
<1>7. Shape(r)'
  BY <1>1, <1>2, <1>3, <1>6
  DEF Types, Goto, Respond, Shape, Running, Syncing, Holds, SignsUp
<1>. QED BY <1>4, <1>5, <1>7, TypedFollows

LEMMA NewRowIsUser ==
  ASSUME Typed, NEW r \in Request, wanted[r] # Nil
  PROVE  NewRow(r) \in User /\ NewRow(r) # Nil /\ NewRow(r).sid = wanted[r].sid
<1>1. wanted[r] \in Columns BY DEF Typed, Types
<1>2. NewRow(r) \in User /\ NewRow(r).sid = wanted[r].sid
  BY <1>1 DEF NewRow, Columns, User
<1>. QED BY <1>2, AccountsAssumption

LEMMA InsertUserTyped ==
  ASSUME Typed, NEW r \in Request, InsertUser(r)
  PROVE  Typed' /\ Alone(r)
<1>1. pc[r] = "insert_user" /\ pc[r] \in Syncing BY DEF InsertUser, Syncing
<1>2. wanted[r] # Nil BY <1>1 DEF Typed, Shape
<1>3. CASE SyncFails(r) BY <1>1, <1>3, SyncFailsTyped
<1>4. CASE Flush(r, NewRow(r))
  BY <1>1, <1>2, <1>4, NewRowIsUser, FlushTyped
<1>. QED BY <1>3, <1>4 DEF InsertUser

\* The row an UPDATE leaves is the identity's, and as active as it was.
LEMMA UpdatedIsUser ==
  ASSUME Typed, NEW r \in Request, wanted[r] # Nil, NEW x \in User
  PROVE  /\ Updated(r, x) \in User /\ Updated(r, x) # Nil
         /\ Updated(r, x).sid = x.sid /\ Updated(r, x).active = x.active
<1>1. wanted[r] \in Columns BY DEF Typed, Types
<1>2. /\ Updated(r, x) \in User
      /\ Updated(r, x).sid = x.sid /\ Updated(r, x).active = x.active
  BY <1>1 DEF Updated, Columns, User
<1>. QED BY <1>2, AccountsAssumption

LEMMA UpdateUserTyped ==
  ASSUME Typed, NEW r \in Request, UpdateUser(r)
  PROVE  Typed' /\ Alone(r)
<1>1. pc[r] = "update_user" /\ pc[r] \in Syncing BY DEF UpdateUser, Syncing
<1>2. wanted[r] # Nil /\ view[r] # Nil BY <1>1 DEF Typed, Shape
<1>3. CASE SyncFails(r) BY <1>1, <1>3, SyncFailsTyped
<1>4. CASE Flush(r, Nil) BY <1>1, <1>2, <1>4, FlushTyped
<1>5. ASSUME NEW x \in RowOf(wanted[r].sid), Flush(r, Updated(r, x))
      PROVE  Typed' /\ Alone(r)
  <2>1. x \in User BY DEF RowOf, Typed, Types
  <2>. QED BY <1>1, <1>2, <1>5, <2>1, UpdatedIsUser, FlushTyped
<1>. QED BY <1>3, <1>4, <1>5 DEF UpdateUser

LEMMA CheckActiveTyped ==
  ASSUME Typed, NEW r \in Request, CheckActive(r)
  PROVE  Typed' /\ Alone(r)
<1>1. Types /\ Shape(r) BY DEF Typed
<1>2. /\ pc[r] = "check_active" /\ call[r] # Nil /\ call[r].op = "sign_in" /\ Holds(r)
      /\ ~made[r] /\ ending[r] = {}
      /\ UNCHANGED <<auth, users, call, wanted, token, view, made, ending, cut>>
  BY <1>1 DEF CheckActive, Shape, Running, Syncing
<1>3. CASE Refuse(r, 401) /\ UNCHANGED sessions
  BY <1>1, <1>2, <1>3, RefuseTyped DEF Types, Status, SessionsLast
<1>4. CASE /\ sessions' = [sessions EXCEPT ![token[r]].given = TRUE]
           /\ Respond(r, 200) /\ UNCHANGED write
  <2>. DEFINE s == [sessions[token[r]] EXCEPT !.given = TRUE]
  <2>1. token[r] \in Token /\ sessions[token[r]] \in Session
    BY <1>1, <1>2 DEF Types, Holds
  <2>2. s \in Session /\ s.user = sessions[token[r]].user BY <2>1 DEF Session
  <2>3. s # Nil BY <2>2, AccountsAssumption
  <2>4. sessions' = [sessions EXCEPT ![token[r]] = s] BY <1>4
  <2>. HIDE DEF s
  <2>9. sessions' \in [Token -> Session \cup {Nil}] BY <1>1, <2>1, <2>2, <2>4 DEF Types
  <2>5. Types' BY <1>1, <1>2, <1>4, <2>9 DEF Types, Respond, Running, Status
  <2>6. SessionsLast BY <1>1, <2>1, <2>2, <2>3, <2>4 DEF Types, SessionsLast
  <2>7. Alone(r) BY <1>1, <1>2, <1>4, <2>6 DEF Types, Respond, Alone, Rests
  <2>8. Shape(r)'
    BY <1>1, <1>2, <1>4 DEF Types, Respond, Shape, Running, Syncing
  <2>. QED BY <2>5, <2>7, <2>8, TypedFollows
<1>. QED BY <1>3, <1>4 DEF CheckActive

LEMMA SessionsOfAre ==
  ASSUME NEW u
  PROVE  SessionsOf(u) \in SUBSET Token /\ \A t \in SessionsOf(u) : sessions[t] # Nil
BY DEF SessionsOf, Live

LEMMA DeletesTyped ==
  ASSUME Typed, NEW u \in AuthId, Deletes(u)
  PROVE  /\ auth' \in [AuthId -> Identity \cup {Nil, Gone}]
         /\ sessions' \in [Token -> Session \cup {Nil}] /\ SessionsLast
BY RevokedTyped, SessionsOfAre DEF Deletes, Typed, Types

LEMMA CompensateTyped ==
  ASSUME Typed, NEW r \in Request, Compensate(r)
  PROVE  Typed' /\ Alone(r)
<1>1. Types /\ Shape(r) BY DEF Typed
<1>2. /\ pc[r] \in Running /\ Refuse(r, 500) /\ wanted[r] \in Columns
      /\ UNCHANGED <<users, call, wanted, token, view, made, ending, cut>>
  BY <1>1 DEF Compensate, Running, Shape, Types
<1>3. wanted[r].sid \in AuthId BY <1>2 DEF Columns
<1>4. /\ auth' \in [AuthId -> Identity \cup {Nil, Gone}]
      /\ sessions' \in [Token -> Session \cup {Nil}] /\ SessionsLast
  BY <1>1, <1>3, DeletesTyped DEF Compensate, Types, SessionsLast
<1>. QED BY <1>1, <1>2, <1>4, RefuseTyped DEF Types, Status

LEMMA CommitTyped ==
  ASSUME Typed, NEW r \in Request, Commit(r)
  PROVE  Typed' /\ Alone(r)
<1>1. Types /\ Shape(r) BY DEF Typed
<1>2. /\ pc[r] = "commit" /\ Goto(r, "done") /\ write' = [write EXCEPT ![r] = Nil]
      /\ UNCHANGED <<auth, sessions, call, wanted, token, view, made, ending, cut>>
  BY DEF Commit
<1>3. users' \subseteq User BY <1>1 DEF Commit, Types
<1>4. Types' BY <1>1, <1>2, <1>3 DEF Types, Goto
<1>5. Alone(r) BY <1>1, <1>2 DEF Types, Goto, Alone, Rests, SessionsLast
<1>6. Shape(r)' BY <1>1, <1>2 DEF Types, Goto, Shape, Running, Syncing
<1>. QED BY <1>4, <1>5, <1>6, TypedFollows

LEMMA AuthorizeTyped ==
  ASSUME Typed, NEW r \in Request, Authorize(r)
  PROVE  Typed' /\ Alone(r)
<1>1. Types /\ Shape(r) BY DEF Typed
<1>2. /\ pc[r] = "authorize" /\ Holds(r) /\ call[r] # Nil /\ ending[r] = {} /\ ~made[r]
      /\ UNCHANGED <<auth, sessions, users, call, wanted, token, view, made, cut>>
      /\ SessionsLast
  BY <1>1 DEF Authorize, Shape, Running, Syncing, SessionsLast
<1>3. ASSUME NEW s \in Status, Refuse(r, s), UNCHANGED ending PROVE Typed' /\ Alone(r)
  BY <1>1, <1>2, <1>3, RefuseTyped DEF Types
<1>4. ASSUME NEW ts \in SUBSET Token, ending' = [ending EXCEPT ![r] = ts],
             Goto(r, "revoke"), UNCHANGED write
      PROVE  Typed' /\ Alone(r)
  <2>1. Types' BY <1>1, <1>2, <1>4 DEF Types, Goto, Running
  <2>2. Alone(r) BY <1>1, <1>2, <1>4 DEF Types, Goto, Alone, Rests
  <2>3. Shape(r)'
    BY <1>1, <1>2, <1>4 DEF Types, Goto, Shape, Running, Syncing, Holds
  <2>. QED BY <2>1, <2>2, <2>3, TypedFollows
<1>5. SessionsOf(sessions[token[r]].user) \in SUBSET Token BY SessionsOfAre
<1>. QED BY <1>3, <1>4, <1>5 DEF Authorize, Status

LEMMA EndedByTyped ==
  ASSUME Typed, NEW t, sessions' = Revoked(EndedBy(t))
  PROVE  sessions' \in [Token -> Session \cup {Nil}] /\ SessionsLast
<1>1. EndedBy(t) \in SUBSET Token /\ \A s \in EndedBy(t) : sessions[s] # Nil
  BY SessionsOfAre DEF EndedBy
<1>. QED BY <1>1, RevokedTyped

LEMMA RevokeTyped ==
  ASSUME Typed, NEW r \in Request, Revoke(r) \/ SendMail(r)
  PROVE  Typed' /\ Alone(r)
<1>1. Types /\ Shape(r) BY DEF Typed
<1>2. /\ pc[r] \in {"revoke", "send_mail"} /\ Respond(r, 200)
      /\ UNCHANGED <<auth, users, call, wanted, token, view, write, made, ending, cut>>
  BY DEF Revoke, SendMail
<1>3. sessions' \in [Token -> Session \cup {Nil}] /\ SessionsLast
  BY <1>1, EndedByTyped DEF Revoke, SendMail, Types, SessionsLast
<1>4. Types' BY <1>1, <1>2, <1>3 DEF Types, Respond, Running, Status
<1>5. Alone(r) BY <1>1, <1>2, <1>3 DEF Types, Respond, Alone, Rests
<1>6. Shape(r)' BY <1>1, <1>2 DEF Types, Respond, Shape, Running, Syncing
<1>. QED BY <1>4, <1>5, <1>6, TypedFollows

LEMMA StatementFailsTyped ==
  ASSUME Typed, NEW r \in Request, StatementFails(r)
  PROVE  Typed' /\ Alone(r)
<1>1. Types /\ Shape(r) BY DEF Typed
<1>2. CASE pc[r] \in Syncing /\ SyncFails(r) BY <1>2, SyncFailsTyped
<1>3. CASE /\ pc[r] \in {"check_active", "authorize"} /\ Refuse(r, 500)
           /\ UNCHANGED <<auth, sessions, users, call, wanted, token, view, made,
                          ending, cut>>
  <2>1. pc[r] \in Running /\ SessionsLast BY <1>3 DEF Running, SessionsLast
  <2>. QED BY <1>1, <1>3, <2>1, RefuseTyped DEF Types, Status
<1>. QED BY <1>2, <1>3 DEF StatementFails, Syncing

LEMMA CutShortTyped ==
  ASSUME Typed, NEW rs, NEW c \in Cause
  PROVE  CutShort(rs, c) \in [AuthId -> Cause \cup {Nil}]
BY DEF CutShort, Typed, Types

LEMMA CommitFailsTyped ==
  ASSUME Typed, NEW r \in Request, CommitFails(r)
  PROVE  Typed' /\ Alone(r)
<1>1. Types /\ Shape(r) BY DEF Typed
<1>2. /\ pc[r] = "commit" /\ Goto(r, "done") /\ write' = [write EXCEPT ![r] = Nil]
      /\ UNCHANGED <<auth, sessions, users, call, wanted, token, view, made, ending>>
  BY DEF CommitFails
<1>3. cut' \in [AuthId -> Cause \cup {Nil}]
  BY CutShortTyped DEF CommitFails, Cause
<1>4. Types' BY <1>1, <1>2, <1>3 DEF Types, Goto
<1>5. Alone(r) BY <1>1, <1>2 DEF Types, Goto, Alone, Rests, SessionsLast
<1>6. Shape(r)' BY <1>1, <1>2 DEF Types, Goto, Shape, Running, Syncing
<1>. QED BY <1>4, <1>5, <1>6, TypedFollows

LEMMA CreatesTyped ==
  ASSUME Typed, NEW u \in AuthId, NEW e \in Email, Creates(u, e)
  PROVE  auth' \in [AuthId -> Identity \cup {Nil, Gone}]
BY DEF Typed, Types, Creates, Identity

LEMMA SupabaseRaisesTyped ==
  ASSUME Typed, NEW r \in Request, SupabaseRaises(r)
  PROVE  Typed' /\ Alone(r)
<1>1. Types /\ Shape(r) BY DEF Typed
<1>2. UNCHANGED <<users, call, wanted, token, view, made, ending>>
  BY DEF SupabaseRaises
<1>3. /\ pc[r] \in Running
      /\ Refuse(r, 502) \/ Refuse(r, 500)
  BY DEF SupabaseRaises, Running
<1>4. SessionsLast /\ sessions' \in [Token -> Session \cup {Nil}]
  <2>1. CASE UNCHANGED sessions BY <1>1, <2>1 DEF SessionsLast, Types
  <2>2. CASE \E u \in IdentitiesOf(call[r].email), t \in Token :
               auth[u].confirmed /\ Starts(t, u)
    BY <2>2, StartsTyped DEF IdentitiesOf
  <2>3. CASE sessions' = Revoked(EndedBy(token[r])) BY <2>3, EndedByTyped
  <2>. QED BY <2>1, <2>2, <2>3 DEF SupabaseRaises
<1>5. auth' \in [AuthId -> Identity \cup {Nil, Gone}]
  <2>1. CASE UNCHANGED auth BY <1>1, <2>1 DEF Types
  <2>2. CASE pc[r] = "create_identity"
             /\ \E u \in AuthId : Creates(u, call[r].email)
    <3>1. call[r].email \in Email
      BY <1>1, <2>2, AccountsAssumption DEF Types, Shape, Running, Call
    <3>. QED BY <2>2, <3>1, CreatesTyped
  <2>. QED BY <2>1, <2>2 DEF SupabaseRaises
<1>6. cut' \in [AuthId -> Cause \cup {Nil}]
  <2>1. CASE UNCHANGED cut BY <1>1, <2>1 DEF Types
  <2>2. CASE \E u \in AuthId : cut' = [cut EXCEPT ![u] = "supabase"]
    BY <1>1, <2>2 DEF Types, Cause
  <2>3. CASE cut' = CutShort({r}, "supabase") BY <2>3, CutShortTyped DEF Cause
  <2>. QED BY <2>1, <2>2, <2>3 DEF SupabaseRaises
<1>. QED BY <1>2, <1>3, <1>4, <1>5, <1>6, RefuseTyped DEF Status

LEMMA CrashTyped ==
  ASSUME Typed, Crash
  PROVE  Typed'
<1>1. Types BY DEF Typed
<1>2. cut' \in [AuthId -> Cause \cup {Nil}] BY CutShortTyped DEF Crash, Cause
<1>3. Types' BY <1>1, <1>2 DEF Types, Crash, Running
<1>4. \A r \in Request : Shape(r)' BY DEF Crash, Shape, Running, Syncing
<1>. QED BY <1>3, <1>4 DEF Typed

\* Steps of Supabase's users and of the administrator.
Outside ==
  \/ \E u \in AuthId : Confirm(u) \/ \E e \in Email : ChangeEmail(u, e)
  \/ \E x \in users : SetActive(x)

LEMMA OutsideTyped ==
  ASSUME Typed, Outside
  PROVE  Typed'
<1>1. Types BY DEF Typed
<1>2. UNCHANGED <<sessions, pc, call, wanted, token, view, write, answer, made, ending, cut>>
  BY DEF Outside, Confirm, ChangeEmail, SetActive, Local
<1>3. users' \subseteq User
  <2>1. ASSUME NEW x \in users, SetActive(x) PROVE users' \subseteq User
    <3>. DEFINE b == ~x.active
                y == [x EXCEPT !.active = b]
    <3>1. b \in BOOLEAN OBVIOUS
    <3>2. users' = (users \ {x}) \cup {y} BY <2>1 DEF SetActive
    <3>. HIDE DEF b
    <3>3. y \in User BY <1>1, <3>1 DEF Types, User
    <3>. QED BY <1>1, <3>2, <3>3 DEF Types
  <2>2. CASE UNCHANGED users BY <1>1, <2>2 DEF Types
  <2>. QED BY <2>1, <2>2 DEF Outside, Confirm, ChangeEmail
<1>4. auth' \in [AuthId -> Identity \cup {Nil, Gone}]
  <2>1. CASE UNCHANGED auth BY <1>1, <2>1 DEF Types
  <2>2. ASSUME NEW u \in AuthId, Confirm(u)
        PROVE  auth' \in [AuthId -> Identity \cup {Nil, Gone}]
    <3>1. auth[u] \in Identity BY <1>1, <2>2 DEF Confirm, Exists, Types
    <3>2. [auth[u] EXCEPT !.confirmed = TRUE] \in Identity BY <3>1 DEF Identity
    <3>. QED BY <1>1, <2>2, <3>2 DEF Confirm, Types
  <2>3. ASSUME NEW u \in AuthId, NEW e \in Email, ChangeEmail(u, e)
        PROVE  auth' \in [AuthId -> Identity \cup {Nil, Gone}]
    <3>1. auth[u] \in Identity BY <1>1, <2>3 DEF ChangeEmail, Exists, Types
    <3>2. [auth[u] EXCEPT !.email = e] \in Identity BY <3>1 DEF Identity
    <3>. QED BY <1>1, <2>3, <3>2 DEF ChangeEmail, Types
  <2>. QED BY <2>1, <2>2, <2>3 DEF Outside, SetActive
<1>5. Types' BY <1>1, <1>2, <1>3, <1>4 DEF Types
<1>6. \A r \in Request : Shape(r)' BY <1>2 DEF Typed, Shape, Holds
<1>. QED BY <1>5, <1>6 DEF Typed

LEMMA BeginTyped ==
  ASSUME Typed, NEW r \in Request, Begin(r)
  PROVE  Typed' /\ Alone(r)
<1>1. Types /\ Shape(r) BY DEF Typed
<1>2. PICK c \in Asked :
        /\ call' = [call EXCEPT ![r] = c]
        /\ pc' = [pc EXCEPT ![r] = FirstPc(c.op)]
        /\ \/ c.op # "sign_out" /\ UNCHANGED token
           \/ /\ c.op = "sign_out"
              /\ \E t \in Token :
                   /\ sessions[t] # Nil /\ sessions[t].given
                   /\ token' = [token EXCEPT ![r] = t]
  BY DEF Begin
<1>3. /\ pc[r] = "idle" /\ view[r] = Nil /\ ~made[r] /\ write[r] = Nil /\ ending[r] = {}
      /\ UNCHANGED <<auth, sessions, users, wanted, view, write, answer, made, ending, cut>>
      /\ SessionsLast
  BY <1>1 DEF Begin, Shape, Running, Syncing, SessionsLast
<1>4. c \in Call /\ c.op \in {"sign_up", "sign_in", "resend", "sign_out"}
  BY AccountsAssumption DEF Call
<1>5. c # Nil BY <1>4, AccountsAssumption
<1>6. /\ c.op = "sign_up" => FirstPc(c.op) = "create_identity"
      /\ c.op = "sign_in" => FirstPc(c.op) = "check_password"
      /\ c.op = "resend" => FirstPc(c.op) = "send_mail"
      /\ c.op = "sign_out" => FirstPc(c.op) = "authorize"
  BY DEF FirstPc
<1>7. FirstPc(c.op) \in Running BY <1>4, <1>6 DEF Running
<1>8. /\ c.op = "sign_out" => token'[r] # Nil /\ sessions'[token'[r]] # Nil
      /\ token' \in [Request -> Token \cup {Nil}]
      /\ \A q \in Request \ {r} : token'[q] = token[q]
  <2>1. \A t \in Token : t # Nil BY AccountsAssumption DEF Token
  <2>. QED BY <1>1, <1>2, <1>3, <2>1 DEF Types
<1>9. Types' BY <1>1, <1>2, <1>3, <1>4, <1>7, <1>8 DEF Types
<1>10. Alone(r) BY <1>1, <1>2, <1>3, <1>8 DEF Types, Alone, Rests
<1>11. pc'[r] = FirstPc(c.op) /\ call'[r] = c BY <1>1, <1>2 DEF Types
<1>12. Shape(r)'
  BY <1>3, <1>4, <1>5, <1>6, <1>8, <1>11 DEF Shape, Running, Syncing, Holds
<1>. QED BY <1>9, <1>10, <1>12, TypedFollows

LEMMA FinishTyped ==
  ASSUME Typed, NEW r \in Request, Finish(r)
  PROVE  Typed' /\ Alone(r)
<1>1. Types /\ Shape(r) BY DEF Typed
<1>2. write[r] = Nil BY <1>1 DEF Finish, Shape
<1>3. Types' BY <1>1 DEF Types, Finish
<1>4. Alone(r) BY <1>1 DEF Types, Finish, Alone, Rests, SessionsLast
<1>5. Shape(r)' BY <1>1, <1>2 DEF Types, Finish, Shape, Running, Syncing
<1>. QED BY <1>3, <1>4, <1>5, TypedFollows

\* Whatever a request does.
Moves(r) ==
  \/ Begin(r) \/ Step(r) \/ Finish(r)
  \/ StatementFails(r) \/ CommitFails(r) \/ SupabaseRaises(r)

LEMMA MovesTyped ==
  ASSUME Typed, NEW r \in Request, Moves(r)
  PROVE  Typed' /\ Alone(r)
BY BeginTyped, FinishTyped, CreateIdentityTyped, CheckPasswordTyped, FindUserTyped,
   InsertUserTyped, UpdateUserTyped, CheckActiveTyped, CompensateTyped, CommitTyped,
   AuthorizeTyped, RevokeTyped, StatementFailsTyped, CommitFailsTyped,
   SupabaseRaisesTyped
   DEF Moves, Step

LEMMA NextIs == Next <=> (\E r \in Request : Moves(r)) \/ Outside \/ Crash
BY DEF Next, Moves, Outside

LEMMA TypedNext ==
  ASSUME Typed, [Next]_vars
  PROVE  Typed'
<1>1. CASE UNCHANGED vars BY <1>1 DEF vars, Typed, Types, Shape, Holds
<1>. QED BY <1>1, NextIs, MovesTyped, OutsideTyped, CrashTyped

\* Every variable keeps to its values, and what a request needs to go on is at
\* hand where it is (accounts/service.py:36).
THEOREM AccountsTyped == Spec => []TypeOK
<1>1. Init => Typed BY TypedInit
<1>2. Typed /\ [Next]_vars => Typed' BY TypedNext
<1>3. Typed => TypeOK BY DEF Typed, Types, Shape, TypeOK, Syncing
<1>. QED BY <1>1, <1>2, <1>3, PTL DEF Spec

-----------------------------------------------------------------------------
(* The rows.                                                               *)

\* A flushed row will clash with nothing once it is committed, and leaves the
\* account as active as it is: whoever would change that waits for it.
Pending(r) == write[r] # Nil =>
  /\ \A x \in users : /\ x.sid # write[r].sid => ~KeyClash(x, write[r])
                      /\ x.sid = write[r].sid => x.active = write[r].active
  /\ \A q \in Request \ {r} : write[q] # Nil => ~KeyClash(write[q], write[r])

Rows == OneRowPerIdentity /\ \A r \in Request : Pending(r)

\* What a step can do to the rows, committed and pending: forget what is
\* pending, flush a row, or commit one.
Forgets == users' = users /\ \A q \in Request : write'[q] \in {write[q], Nil}

Flushes(r, row) ==
  /\ users' = users /\ write' = [write EXCEPT ![r] = row]
  /\ Unhindered(r, row)
  /\ \A x \in users : /\ x.sid # row.sid => ~KeyClash(x, row)
                      /\ x.sid = row.sid => x.active = row.active
  /\ RowOf(row.sid) = {} => row.active

LEMMA RefuseForgets ==
  ASSUME Typed, NEW r \in Request, NEW s, Refuse(r, s), UNCHANGED users
  PROVE  Forgets
BY DEF Refuse, Forgets, Typed, Types

LEMMA SyncFailsForgets ==
  ASSUME Typed, NEW r \in Request, SyncFails(r)
  PROVE  Forgets
BY RefuseForgets DEF SyncFails, Forgets, Typed, Types

LEMMA InsertUserRows ==
  ASSUME Typed, NEW r \in Request, InsertUser(r)
  PROVE  Forgets \/ \E row \in User : row.sid = wanted[r].sid /\ Flushes(r, row)
<1>1. CASE SyncFails(r) BY <1>1, SyncFailsForgets
<1>2. CASE /\ Unhindered(r, NewRow(r)) /\ \A x \in users : ~KeyClash(x, NewRow(r))
           /\ Flush(r, NewRow(r))
  <2>1. wanted[r] # Nil BY DEF InsertUser, Typed, Shape, Syncing
  <2>2. NewRow(r) \in User /\ NewRow(r).sid = wanted[r].sid BY <2>1, NewRowIsUser
  <2>. DEFINE row == NewRow(r)
  <2>3. \A x \in users : x.sid # row.sid /\ ~KeyClash(x, row) BY <1>2 DEF KeyClash
  <2>4. users' = users /\ write' = [write EXCEPT ![r] = row] BY <1>2 DEF Flush
  <2>5. row.active BY DEF NewRow
  <2>6. Flushes(r, row) BY <1>2, <2>3, <2>4, <2>5 DEF Flushes
  <2>. QED BY <2>2, <2>6
<1>. QED BY <1>1, <1>2 DEF InsertUser

LEMMA UpdateUserRows ==
  ASSUME Typed, Rows, NEW r \in Request, UpdateUser(r)
  PROVE  Forgets \/ \E row \in User : row.sid = wanted[r].sid /\ Flushes(r, row)
<1>1. CASE SyncFails(r) BY <1>1, SyncFailsForgets
<1>2. CASE Flush(r, Nil) BY <1>2 DEF Flush, Forgets, Typed, Types
<1>3. ASSUME NEW x \in RowOf(wanted[r].sid), Unhindered(r, Updated(r, x)),
             ~Clashes(Updated(r, x)), Flush(r, Updated(r, x))
      PROVE  \E row \in User : row.sid = wanted[r].sid /\ Flushes(r, row)
  <2>. DEFINE row == Updated(r, x)
  <2>1. wanted[r] # Nil BY DEF UpdateUser, Typed, Shape, Syncing
  <2>2. x \in users /\ x.sid = wanted[r].sid /\ x \in User BY DEF RowOf, Typed, Types
  <2>3. row \in User /\ row.sid = x.sid /\ row.active = x.active
    BY <2>1, <2>2, UpdatedIsUser
  <2>4. users' = users /\ write' = [write EXCEPT ![r] = row] BY <1>3 DEF Flush
  <2>. HIDE DEF row
  <2>5. Unhindered(r, row) /\ ~Clashes(row) BY <1>3 DEF row
  <2>6. \A y \in users : y.sid = row.sid => y = x
    BY <2>2, <2>3 DEF Rows, OneRowPerIdentity
  <2>7. \A y \in users : y.sid # row.sid => ~KeyClash(y, row) BY <2>5 DEF Clashes
  <2>8. RowOf(row.sid) # {} BY <2>2, <2>3 DEF RowOf
  <2>9. Flushes(r, row) BY <2>3, <2>4, <2>5, <2>6, <2>7, <2>8 DEF Flushes
  <2>. QED BY <2>2, <2>3, <2>9
<1>. QED BY <1>1, <1>2, <1>3 DEF UpdateUser

LEMMA MovesRows ==
  ASSUME Typed, Rows, NEW r \in Request, Moves(r)
  PROVE  \/ Forgets
         \/ Commit(r)
         \/ /\ pc[r] \in Syncing
            /\ \E row \in User : row.sid = wanted[r].sid /\ Flushes(r, row)
<1>1. CASE Begin(r) \/ Finish(r) \/ FindUser(r) \/ SendMail(r) \/ Revoke(r)
  BY <1>1 DEF Begin, Finish, FindUser, SendMail, Revoke, Forgets
<1>2. CASE CreateIdentity(r) \/ CheckPassword(r) \/ CheckActive(r) \/ Authorize(r)
  BY <1>2, RefuseForgets
  DEF CreateIdentity, CheckPassword, CheckActive, Authorize, Forgets
<1>3. CASE Compensate(r) \/ SupabaseRaises(r)
  BY <1>3, RefuseForgets DEF Compensate, SupabaseRaises
<1>4. CASE StatementFails(r)
  BY <1>4, RefuseForgets, SyncFailsForgets DEF StatementFails
<1>5. CASE CommitFails(r) BY <1>5 DEF CommitFails, Forgets, Typed, Types
<1>6. CASE InsertUser(r) BY <1>6, InsertUserRows DEF InsertUser, Syncing
<1>7. CASE UpdateUser(r) BY <1>7, UpdateUserRows DEF UpdateUser, Syncing
<1>. QED BY <1>1, <1>2, <1>3, <1>4, <1>5, <1>6, <1>7 DEF Moves, Step

LEMMA ForgetsRows ==
  ASSUME Rows, Forgets
  PROVE  Rows'
BY DEF Rows, Forgets, Pending, OneRowPerIdentity

LEMMA FlushesRows ==
  ASSUME Typed, Rows, NEW r \in Request, NEW row \in User, Flushes(r, row)
  PROVE  Rows'
<1>1. /\ users' = users
      /\ \A q \in Request : write'[q] = IF q = r THEN row ELSE write[q]
  BY DEF Typed, Types, Flushes
<1>2. \A q \in Request \ {r} : write[q] # Nil =>
        ~KeyClash(write[q], row) /\ ~KeyClash(row, write[q])
  BY DEF Flushes, Unhindered, WaitsFor, KeyClash
<1>3. Pending(r)' BY <1>1, <1>2 DEF Flushes, Pending
<1>4. ASSUME NEW q \in Request, q # r PROVE Pending(q)'
  BY <1>1, <1>2, <1>4 DEF Rows, Pending
<1>. QED BY <1>1, <1>3, <1>4 DEF Rows, OneRowPerIdentity

LEMMA CommitRows ==
  ASSUME Typed, Rows, NEW r \in Request, Commit(r)
  PROVE  Rows'
<1>1. \A q \in Request : write'[q] = IF q = r THEN Nil ELSE write[q]
  BY DEF Typed, Types, Commit
<1>2. CASE write[r] = Nil
  <2>1. users' = users BY <1>2 DEF Commit
  <2>. QED BY <1>1, <2>1, ForgetsRows DEF Forgets
<1>3. CASE write[r] # Nil
  <2>1. users' = (users \ RowOf(write[r].sid)) \cup {write[r]} BY <1>3 DEF Commit
  <2>2. \A x \in users' : x = write[r] \/ (x \in users /\ x.sid # write[r].sid)
    BY <2>1 DEF RowOf
  <2>3. Pending(r) BY DEF Rows
  <2>4. \A x \in users' : x # write[r] => ~KeyClash(x, write[r])
    BY <1>3, <2>2, <2>3 DEF Pending
  <2>5. OneRowPerIdentity' BY <2>2, <2>4 DEF Rows, OneRowPerIdentity, KeyClash
  <2>6. ASSUME NEW q \in Request, q # r, write[q] # Nil
        PROVE  ~KeyClash(write[r], write[q])
    BY <1>3, <2>6 DEF Rows, Pending
  <2>7. ASSUME NEW q \in Request PROVE Pending(q)'
    <3>1. CASE q = r \/ write[q] = Nil BY <1>1, <3>1 DEF Pending
    <3>2. CASE q # r /\ write[q] # Nil
      <4>1. \A x \in users' : /\ x.sid # write[q].sid => ~KeyClash(x, write[q])
                              /\ x.sid = write[q].sid => x.active = write[q].active
        BY <2>2, <2>6, <3>2 DEF Rows, Pending, KeyClash
      <4>2. \A p \in Request \ {q} : write'[p] # Nil => ~KeyClash(write'[p], write[q])
        BY <1>1, <3>2 DEF Rows, Pending
      <4>. QED BY <1>1, <3>2, <4>1, <4>2 DEF Pending
    <3>. QED BY <3>1, <3>2
  <2>. QED BY <2>5, <2>7 DEF Rows
<1>. QED BY <1>2, <1>3

LEMMA SetActiveRows ==
  ASSUME Typed, Rows, NEW x \in users, SetActive(x)
  PROVE  Rows'
<1>. DEFINE b == ~x.active
            z == [x EXCEPT !.active = b]
<1>1. /\ users' = (users \ {x}) \cup {z} /\ write' = write
      /\ \A r \in Request : write[r] # Nil => write[r].sid # x.sid
  BY DEF SetActive, Local
<1>2. z.sid = x.sid /\ z.email = x.email
  <2>. HIDE DEF b
  <2>. QED BY DEF Typed, Types, User
<1>. HIDE DEF z
<1>3. OneRowPerIdentity' BY <1>1, <1>2 DEF Rows, OneRowPerIdentity
<1>4. ASSUME NEW r \in Request PROVE Pending(r)'
  <2>1. Pending(r) BY DEF Rows
  <2>. QED BY <1>1, <1>2, <2>1 DEF Pending, KeyClash
<1>. QED BY <1>3, <1>4 DEF Rows

LEMMA RowsInit == Init => Rows
BY DEF Init, Rows, OneRowPerIdentity, Pending

LEMMA RowsNext ==
  ASSUME Typed, Rows, [Next]_vars
  PROVE  Rows'
<1>1. CASE UNCHANGED vars BY <1>1, ForgetsRows DEF vars, Forgets
<1>2. CASE Crash BY <1>2, ForgetsRows DEF Crash, Forgets
<1>3. CASE Outside
  <2>1. CASE UNCHANGED <<users, write>> BY <2>1, ForgetsRows DEF Forgets
  <2>. QED BY <1>3, <2>1, SetActiveRows DEF Outside, Confirm, ChangeEmail, Local
<1>4. ASSUME NEW r \in Request, Moves(r) PROVE Rows'
  BY <1>4, MovesRows, ForgetsRows, FlushesRows, CommitRows
<1>. QED BY <1>1, <1>2, <1>3, <1>4, NextIs

LEMMA RowsInvariant == Spec => [](Typed /\ Rows)
<1>1. Init => Typed /\ Rows BY TypedInit, RowsInit
<1>2. Typed /\ Rows /\ [Next]_vars => Typed' /\ Rows' BY TypedNext, RowsNext
<1>. QED BY <1>1, <1>2, PTL DEF Spec

\* An identity and an address have one row at most, however many requests race
\* to write it (accounts/models.py:22-23).
THEOREM AccountsOneRow == Spec => []OneRowPerIdentity
<1>1. Rows => OneRowPerIdentity BY DEF Rows
<1>. QED BY <1>1, RowsInvariant, PTL

\* No request changes whether an account is active, whatever the row said when
\* it read it: a deactivation survives every sign_in (accounts/repository.py:56).
THEOREM AccountsDeactivationStands == Spec => DeactivationStands
<1>. DEFINE Stands == pc' # pc => \A x \in users, y \in users' :
                        x.sid = y.sid => x.active = y.active
<1>1. ASSUME Typed, Rows, [Next]_vars PROVE [Stands]_vars
  <2>1. ASSUME users' = users PROVE Stands
    BY <1>1, <2>1 DEF Rows, OneRowPerIdentity
  <2>2. CASE UNCHANGED vars \/ Crash BY <2>1, <2>2 DEF vars, Crash
  <2>3. CASE Outside
    BY <2>3 DEF Outside, Confirm, ChangeEmail, SetActive, Local
  <2>4. ASSUME NEW r \in Request, Moves(r) PROVE Stands
    <3>1. CASE Forgets \/ \E row \in User : Flushes(r, row)
      BY <2>1, <3>1 DEF Forgets, Flushes
    <3>2. CASE Commit(r)
      <4>1. Pending(r) BY <1>1 DEF Rows
      <4>. QED BY <1>1, <2>1, <3>2, <4>1
               DEF Commit, Rows, OneRowPerIdentity, Pending, RowOf
    <3>. QED BY <1>1, <2>4, <3>1, <3>2, MovesRows
  <2>. QED BY <1>1, <2>2, <2>3, <2>4, NextIs
<1>. QED BY <1>1, RowsInvariant, PTL DEF Spec, DeactivationStands
-----------------------------------------------------------------------------
(* Identities and their rows.                                              *)

\* A row that is found or flushed is the identity's.
Known(r) ==
  /\ pc[r] \in {"update_user", "check_active"} => Committed(wanted[r].sid)
  /\ made[r] /\ pc[r] = "commit" =>
       \/ Committed(wanted[r].sid)
       \/ write[r] # Nil /\ write[r].sid = wanted[r].sid
  /\ pc[r] = "check_active" /\ write[r] # Nil => write[r].sid = wanted[r].sid

Provisioned == GivenTokensAreProvisioned /\ \A r \in Request : Known(r)

\* Rows are never deleted (accounts/models.py:17).
LEMMA CommittedLasts ==
  ASSUME Typed, Rows, [Next]_vars, NEW u, Committed(u)
  PROVE  Committed(u)'
<1>1. PICK x \in users : x.sid = u BY DEF Committed, RowOf
<1>2. CASE users' = users BY <1>2 DEF Committed, RowOf
<1>3. ASSUME NEW r \in Request, Commit(r) PROVE Committed(u)'
  <2>1. CASE write[r] = Nil BY <1>2, <1>3, <2>1 DEF Commit
  <2>2. CASE write[r] # Nil
    <3>1. users' = (users \ RowOf(write[r].sid)) \cup {write[r]} BY <1>3, <2>2 DEF Commit
    <3>2. CASE write[r].sid = u BY <3>1, <3>2 DEF Committed, RowOf
    <3>3. CASE write[r].sid # u BY <1>1, <3>1, <3>3 DEF Committed, RowOf
    <3>. QED BY <3>2, <3>3
  <2>. QED BY <2>1, <2>2
<1>4. ASSUME NEW y \in users, SetActive(y) PROVE Committed(u)'
  <2>. DEFINE b == ~y.active
              z == [y EXCEPT !.active = b]
  <2>1. users' = (users \ {y}) \cup {z} BY <1>4 DEF SetActive
  <2>2. z.sid = y.sid
    <3>. HIDE DEF b
    <3>. QED BY DEF Typed, Types, User
  <2>. HIDE DEF z
  <2>3. CASE x = y BY <1>1, <2>1, <2>2, <2>3 DEF Committed, RowOf
  <2>4. CASE x # y BY <1>1, <2>1, <2>4 DEF Committed, RowOf
  <2>. QED BY <2>3, <2>4
<1>5. ASSUME NEW r \in Request, Moves(r) PROVE Committed(u)'
  BY <1>2, <1>3, <1>5, MovesRows DEF Forgets, Flushes
<1>6. CASE UNCHANGED vars \/ Crash BY <1>2, <1>6 DEF vars, Crash
<1>7. CASE Outside BY <1>2, <1>4, <1>7 DEF Outside, Confirm, ChangeEmail
<1>. QED BY <1>5, <1>6, <1>7, NextIs

LEMMA RowsLast ==
  ASSUME Typed, Rows, [Next]_vars
  PROVE  \A u : Committed(u) => \E x \in users' : x.sid = u
BY CommittedLasts DEF Committed, RowOf

\* The token has been handed out.
Given(t) == sessions[t] # Nil /\ sessions[t].given

LEMMA RevokedGiven ==
  ASSUME Typed, NEW ts \in SUBSET Token, sessions' = Revoked(ts),
         \A s \in ts : sessions[s] # Nil, NEW t \in Token
  PROVE  Given(t)' <=> Given(t)
<1>1. CASE t \notin ts BY <1>1 DEF Revoked, Given
<1>2. CASE t \in ts
  <2>1. sessions[t] \in Session /\ sessions[t] # Nil BY <1>2 DEF Typed, Types
  <2>. DEFINE s == [sessions[t] EXCEPT !.live = FALSE]
  <2>2. s \in Session /\ s.given = sessions[t].given BY <2>1 DEF Session
  <2>3. s # Nil BY <2>2, AccountsAssumption
  <2>4. sessions'[t] = s BY <1>2 DEF Revoked
  <2>. QED BY <2>1, <2>2, <2>3, <2>4 DEF Given
<1>. QED BY <1>1, <1>2

\* Only CheckActive gives a token out, and no step takes one back.
LEMMA GivenKept ==
  ASSUME Typed, NEW r \in Request, Moves(r), ~CheckActive(r), NEW t \in Token
  PROVE  Given(t)' <=> Given(t)
<1>1. CASE UNCHANGED sessions BY <1>1 DEF Given
<1>2. ASSUME NEW s \in Token, NEW u, Starts(s, u) PROVE Given(t)' <=> Given(t)
  BY <1>2 DEF Starts, Given, Typed, Types
<1>3. ASSUME NEW u, Deletes(u) PROVE Given(t)' <=> Given(t)
  BY <1>3, RevokedGiven, SessionsOfAre DEF Deletes
<1>4. ASSUME NEW s, sessions' = Revoked(EndedBy(s)) PROVE Given(t)' <=> Given(t)
  BY <1>4, RevokedGiven, SessionsOfAre DEF EndedBy
<1>5. CASE Begin(r) \/ Finish(r) \/ CreateIdentity(r) \/ FindUser(r) \/ Commit(r)
           \/ Authorize(r) \/ SendMail(r) \/ CommitFails(r)
  BY <1>1, <1>5
  DEF Begin, Finish, CreateIdentity, FindUser, Commit, Authorize, SendMail, CommitFails
<1>6. CASE StatementFails(r) \/ InsertUser(r) \/ UpdateUser(r)
  BY <1>1, <1>6 DEF StatementFails, SyncFails, InsertUser, UpdateUser, Flush
<1>7. CASE CheckPassword(r) BY <1>1, <1>2, <1>7 DEF CheckPassword
<1>8. CASE Compensate(r) BY <1>1, <1>3, <1>8 DEF Compensate
<1>9. CASE Revoke(r) BY <1>1, <1>4, <1>9 DEF Revoke
<1>10. CASE SupabaseRaises(r) BY <1>1, <1>2, <1>4, <1>10 DEF SupabaseRaises
<1>. QED BY <1>5, <1>6, <1>7, <1>8, <1>9, <1>10 DEF Moves, Step

LEMMA FlushKnown ==
  ASSUME Typed, Rows, Provisioned, NEW r \in Request, NEW row \in User \cup {Nil},
         Flush(r, row), pc[r] \in {"insert_user", "update_user"}, [Next]_vars,
         row # Nil => row.sid = wanted[r].sid,
         pc[r] = "insert_user" => SignsUp(r) /\ row # Nil
  PROVE  Known(r)'
<1>1. /\ wanted' = wanted /\ made' = made /\ write'[r] = row
      /\ \/ SignsUp(r) /\ pc'[r] = "commit"
         \/ ~SignsUp(r) /\ pc'[r] = "check_active"
  BY DEF Flush, Respond, Goto, Typed, Types
<1>2. pc[r] = "update_user" => Committed(wanted[r].sid)
  BY DEF Provisioned, Known
<1>3. pc[r] = "update_user" => \E x \in users' : x.sid = wanted[r].sid
  BY <1>2, RowsLast
<1>. QED BY <1>1, <1>3 DEF Known, Committed, RowOf

\* Where a step leads that is none of sync_from_supabase: to no place, and to no
\* commit of a request that has made an identity, for which a row must be known.
LEMMA ElsewhereKnown ==
  ASSUME Typed, Rows, Provisioned, NEW r \in Request, Moves(r),
         pc[r] \notin Syncing
  PROVE  Known(r)'
<1>1. Types /\ Shape(r) BY DEF Typed
<1>2. ~FindUser(r) /\ ~InsertUser(r) /\ ~UpdateUser(r)
  BY DEF FindUser, InsertUser, UpdateUser, Syncing
<1>3. CASE Begin(r)
  <2>1. PICK c \in Asked : pc'[r] = FirstPc(c.op)
    BY <1>1, <1>3 DEF Begin, Types
  <2>2. c.op \in {"sign_up", "sign_in", "resend", "sign_out"}
    BY AccountsAssumption DEF Call
  <2>3. pc'[r] \in {"create_identity", "check_password", "send_mail", "authorize"}
    BY <2>1, <2>2 DEF FirstPc
  <2>. QED BY <2>3 DEF Known
<1>4. CASE Finish(r) \/ Compensate(r) \/ CommitFails(r) \/ SupabaseRaises(r) \/ Commit(r)
  <2>1. pc'[r] \in {"idle", "done"}
    BY <1>1, <1>4
    DEF Types, Finish, Compensate, CommitFails, SupabaseRaises, Commit, Refuse, Goto
  <2>. QED BY <2>1 DEF Known
<1>5. CASE CreateIdentity(r) \/ CheckPassword(r) \/ Authorize(r)
  <2>1. pc'[r] \in {"done", "find_user", "revoke"}
    BY <1>1, <1>5
    DEF Types, CreateIdentity, CheckPassword, Authorize, Refuse, Goto
  <2>. QED BY <2>1 DEF Known
<1>6. CASE CheckActive(r) \/ Revoke(r) \/ SendMail(r)
  <2>1. pc'[r] \in {"done", "commit"} /\ made' = made
    BY <1>1, <1>6 DEF Types, CheckActive, Revoke, SendMail, Refuse, Respond
  <2>2. ~made[r]
    BY <1>1, <1>6 DEF CheckActive, Revoke, SendMail, Shape, Syncing
  <2>. QED BY <2>1, <2>2 DEF Known
<1>7. CASE StatementFails(r)
  <2>1. pc'[r] = "done"
    BY <1>1, <1>7 DEF Types, StatementFails, Syncing, Refuse
  <2>. QED BY <2>1 DEF Known
<1>. QED
  BY <1>2, <1>3, <1>4, <1>5, <1>6, <1>7 DEF Moves, Step

LEMMA SyncingKnown ==
  ASSUME Typed, Rows, Provisioned, NEW r \in Request, Moves(r), [Next]_vars,
         pc[r] \in Syncing
  PROVE  Known(r)'
<1>1. Types /\ Shape(r) /\ wanted[r] # Nil BY DEF Typed, Shape
<1>2. CASE SyncFails(r)
  <2>1. pc'[r] \in {"done", "compensate"}
    BY <1>1, <1>2 DEF Types, SyncFails, Refuse, Goto
  <2>. QED BY <2>1 DEF Known
<1>3. CASE FindUser(r)
  <2>1. /\ wanted' = wanted
        /\ \/ pc'[r] = "insert_user"
           \/ pc'[r] = "update_user" /\ RowOf(wanted[r].sid) # {}
    BY <1>1, <1>3 DEF FindUser, Types, Goto
  <2>2. RowOf(wanted[r].sid) # {} => \E x \in users' : x.sid = wanted[r].sid
    BY RowsLast DEF Committed
  <2>. QED BY <2>1, <2>2 DEF Known, Committed, RowOf
<1>4. CASE InsertUser(r) /\ SignsUp(r) /\ Flush(r, NewRow(r))
  <2>1. pc[r] = "insert_user" BY <1>4 DEF InsertUser
  <2>. QED BY <1>1, <1>4, <2>1, NewRowIsUser, FlushKnown
<1>5. CASE UpdateUser(r) /\ ~SyncFails(r)
  <2>1. pc[r] = "update_user" BY <1>5 DEF UpdateUser
  <2>2. CASE Flush(r, Nil) BY <2>1, <2>2, FlushKnown
  <2>3. ASSUME NEW x \in RowOf(wanted[r].sid), Flush(r, Updated(r, x))
        PROVE  Known(r)'
    <3>1. x \in User /\ x.sid = wanted[r].sid BY <1>1 DEF RowOf, Types
    <3>2. Updated(r, x) \in User /\ Updated(r, x).sid = x.sid
      BY <1>1, <3>1, UpdatedIsUser
    <3>. QED BY <2>1, <2>3, <3>1, <3>2, FlushKnown
  <2>. QED BY <1>5, <2>2, <2>3 DEF UpdateUser
<1>6. SyncFails(r) \/ FindUser(r) \/ InsertUser(r) \/ UpdateUser(r)
  BY DEF Moves, Step, Syncing, Begin, Finish, CreateIdentity, CheckPassword,
         CheckActive, Compensate, Commit, Authorize, Revoke, SendMail, StatementFails,
         CommitFails, SupabaseRaises
<1>. QED BY <1>2, <1>3, <1>4, <1>5, <1>6 DEF InsertUser

LEMMA MovesProvisioned ==
  ASSUME Typed, Rows, Provisioned, NEW r \in Request, Moves(r), [Next]_vars
  PROVE  Provisioned'
<1>1. Known(r)' BY ElsewhereKnown, SyncingKnown
<1>2. ASSUME NEW q \in Request, q # r PROVE Known(q)'
  <2>1. Rests(q) BY <1>2, MovesTyped DEF Alone
  <2>2. Known(q) BY DEF Provisioned
  <2>3. Committed(wanted[q].sid) => \E x \in users' : x.sid = wanted[q].sid
    BY RowsLast
  <2>. QED BY <2>1, <2>2, <2>3 DEF Known, Rests, Committed, RowOf
<1>3. ASSUME NEW t \in Token, sessions'[t] # Nil, sessions'[t].given
      PROVE  \E x \in users' : x.sid = sessions'[t].user
  <2>1. ASSUME sessions[t] # Nil, Committed(sessions[t].user)
        PROVE  \E x \in users' : x.sid = sessions'[t].user
    <3>1. sessions'[t].user = sessions[t].user
      BY <2>1, MovesTyped DEF Alone, SessionsLast
    <3>. QED BY <2>1, <3>1, RowsLast
  <2>2. CASE ~CheckActive(r)
    <3>1. sessions[t] # Nil /\ sessions[t].given BY <1>3, <2>2, GivenKept DEF Given
    <3>. QED BY <2>1, <3>1 DEF Provisioned, GivenTokensAreProvisioned
  <2>3. CASE CheckActive(r)
    <3>1. Shape(r) /\ Types BY DEF Typed
    <3>2. /\ pc[r] = "check_active" /\ call[r].op = "sign_in"
          /\ Committed(wanted[r].sid)
      BY <2>3, <3>1 DEF CheckActive, Shape, Provisioned, Known
    <3>3. Holds(r) /\ sessions[token[r]].user = wanted[r].sid
      BY <3>1, <3>2 DEF Shape
    <3>4. CASE t = token[r] BY <2>1, <3>2, <3>3, <3>4 DEF Holds
    <3>5. CASE t # token[r]
      <4>1. sessions[t] # Nil /\ sessions[t].given
        BY <1>3, <2>3, <3>1, <3>5 DEF CheckActive, Types
      <4>. QED BY <2>1, <4>1 DEF Provisioned, GivenTokensAreProvisioned
    <3>. QED BY <3>4, <3>5
  <2>. QED BY <2>2, <2>3
<1>. QED
  BY <1>1, <1>2, <1>3
  DEF Provisioned, GivenTokensAreProvisioned, Committed, RowOf

LEMMA ProvisionedInit == Init => Provisioned
BY DEF Init, Provisioned, GivenTokensAreProvisioned, Known

LEMMA ProvisionedNext ==
  ASSUME Typed, Rows, Provisioned, [Next]_vars
  PROVE  Provisioned'
<1>1. \A u : Committed(u) => \E x \in users' : x.sid = u BY RowsLast
<1>2. CASE UNCHANGED <<sessions, pc, wanted, made, write>>
  BY <1>1, <1>2 DEF Provisioned, GivenTokensAreProvisioned, Known, Committed, RowOf
<1>3. CASE Crash
  BY <1>3 DEF Crash, Provisioned, GivenTokensAreProvisioned, Known, Committed, RowOf
<1>4. CASE UNCHANGED vars \/ Outside
  BY <1>2, <1>4 DEF vars, Outside, Confirm, ChangeEmail, SetActive, Local
<1>. QED BY <1>3, <1>4, NextIs, MovesProvisioned

LEMMA ProvisionedInvariant == Spec => [](Typed /\ Rows /\ Provisioned)
<1>1. Init => Typed /\ Rows /\ Provisioned BY TypedInit, RowsInit, ProvisionedInit
<1>2. Typed /\ Rows /\ Provisioned /\ [Next]_vars => Typed' /\ Rows' /\ Provisioned'
  BY TypedNext, RowsNext, ProvisionedNext
<1>. QED BY <1>1, <1>2, PTL DEF Spec

\* Whoever holds a token has a committed row, although sign_in hands the token
\* out before its transaction commits (security/dependencies.py:74).
THEOREM AccountsGivenTokensAreProvisioned == Spec => []GivenTokensAreProvisioned
<1>1. Provisioned => GivenTokensAreProvisioned BY DEF Provisioned
<1>. QED BY <1>1, ProvisionedInvariant, PTL

\* A token is handed out to an identity whose committed row is active at that
\* moment: a row that sign_in has flushed keeps the administrator waiting, and any
\* other it reads as committed (accounts/service.py:190-205).
THEOREM AccountsTokensGoToTheActive == Spec => TokensGoToTheActive
<1>. DEFINE A(t) == /\ sessions[t] # Nil /\ ~sessions[t].given
                    /\ sessions'[t].given
                    => \E x \in RowOf(sessions[t].user) : x.active
<1>1. ASSUME Typed, Rows, Provisioned, [Next]_vars, NEW t \in Token,
             sessions[t] # Nil, ~sessions[t].given, sessions'[t].given
      PROVE  \E x \in RowOf(sessions[t].user) : x.active
  <2>1. sessions'[t] # sessions[t] BY <1>1
  <2>2. ~(UNCHANGED vars \/ Outside)
    BY <2>1 DEF vars, Outside, Confirm, ChangeEmail, SetActive, Local
  <2>3. ~Crash BY <2>1 DEF Crash
  <2>4. PICK r \in Request : Moves(r) BY <1>1, <2>2, <2>3, NextIs
  <2>5. sessions'[t] # Nil
    BY <1>1, <2>4, MovesTyped DEF Alone, SessionsLast
  <2>6. CheckActive(r)
    <3>1. SUFFICES ASSUME ~CheckActive(r) PROVE FALSE OBVIOUS
    <3>2. Given(t)' <=> Given(t) BY <1>1, <2>4, <3>1, GivenKept
    <3>. QED BY <1>1, <2>5, <3>2 DEF Given
  <2>7. Types /\ Shape(r) /\ Known(r) /\ Pending(r)
    BY <1>1 DEF Typed, Provisioned, Rows
  <2>8. /\ pc[r] = "check_active" /\ call[r].op = "sign_in"
        /\ Committed(wanted[r].sid) /\ sessions[token[r]].user = wanted[r].sid
    BY <2>6, <2>7 DEF CheckActive, Shape, Known
  <2>9. t = token[r] BY <2>1, <2>6, <2>7 DEF CheckActive, Types
  <2>10. PICK x \in Seen(r) : x.active
    BY <2>1, <2>6 DEF CheckActive
  <2>11. CASE write[r] = Nil BY <2>8, <2>9, <2>10, <2>11 DEF Seen
  <2>12. CASE write[r] # Nil
    <3>1. x = write[r] /\ x.sid = wanted[r].sid
      BY <2>7, <2>8, <2>10, <2>12 DEF Seen, Known
    <3>2. PICK y \in users : y.sid = wanted[r].sid BY <2>8 DEF Committed, RowOf
    <3>3. y.active = x.active BY <2>7, <2>12, <3>1, <3>2 DEF Pending
    <3>. QED BY <2>8, <2>9, <2>10, <3>2, <3>3 DEF RowOf
  <2>. QED BY <2>11, <2>12
<1>2. Typed /\ Rows /\ Provisioned /\ [Next]_vars => \A t \in Token : A(t)
  BY <1>1
<1>. QED BY <1>2, ProvisionedInvariant, PTL DEF Spec, TokensGoToTheActive

-----------------------------------------------------------------------------
(* Orphans.                                                                *)

\* The sign_up of u that is under way by r, still under way or accounted for.
Settled(u) == InTheMaking(u) \/ Committed(u) \/ ~Exists(u) \/ cut[u] # Nil

LEMMA OrphansAreSettled == OrphansHaveACause <=> \A u \in AuthId : Settled(u)
BY DEF OrphansHaveACause, Settled

\* What cut a sign_up short is not forgotten.
LEMMA CutLasts ==
  ASSUME Typed, [Next]_vars, NEW u \in AuthId, cut[u] # Nil
  PROVE  cut'[u] # Nil
<1>1. CASE UNCHANGED cut BY <1>1
<1>2. ASSUME NEW rs, NEW c \in Cause, cut' = CutShort(rs, c) PROVE cut'[u] # Nil
  BY <1>2, AccountsAssumption DEF CutShort
<1>3. ASSUME NEW v \in AuthId, cut' = [cut EXCEPT ![v] = "supabase"] PROVE cut'[u] # Nil
  <2>1. "supabase" # Nil BY AccountsAssumption DEF Cause
  <2>. QED BY <1>3, <2>1 DEF Typed, Types
<1>4. CASE Crash BY <1>2, <1>4 DEF Crash, Cause
<1>5. CASE UNCHANGED vars \/ Outside
  BY <1>1, <1>5 DEF vars, Outside, Confirm, ChangeEmail, SetActive, Local
<1>6. ASSUME NEW r \in Request, Moves(r) PROVE cut'[u] # Nil
  <2>1. CASE CommitFails(r) BY <1>2, <2>1 DEF CommitFails, Cause
  <2>2. CASE SupabaseRaises(r) BY <1>1, <1>2, <1>3, <2>2 DEF SupabaseRaises, Cause
  <2>3. CASE StatementFails(r) \/ InsertUser(r) \/ UpdateUser(r)
    BY <1>1, <2>3 DEF StatementFails, SyncFails, InsertUser, UpdateUser, Flush
  <2>. QED
    BY <1>1, <1>6, <2>1, <2>2, <2>3
    DEF Moves, Step, Begin, Finish, CreateIdentity, CheckPassword, FindUser,
        CheckActive, Compensate, Commit, Authorize, Revoke, SendMail
<1>. QED BY <1>4, <1>5, <1>6, NextIs

\* Identities come into being by a sign_up that is under way or has been cut short.
LEMMA NewIdentities ==
  ASSUME Typed, [Next]_vars, NEW u \in AuthId, ~Exists(u), Exists(u)'
  PROVE  InTheMaking(u)' \/ cut'[u] # Nil
<1>1. Types /\ auth[u] \in {Nil, Gone} BY DEF Typed, Exists
<1>2. auth'[u] # auth[u] BY <1>1 DEF Exists
<1>3. ~Crash /\ ~UNCHANGED vars /\ ~Outside
  <2>1. ~Crash /\ ~UNCHANGED vars BY <1>2 DEF Crash, vars
  <2>2. ~Outside
    BY <1>1, <1>2 DEF Outside, Confirm, ChangeEmail, SetActive, Exists, Types
  <2>. QED BY <2>1, <2>2
<1>4. PICK r \in Request : Moves(r) BY <1>3, NextIs
<1>5. CASE CreateIdentity(r)
  <2>1. ~UNCHANGED auth BY <1>2
  <2>2. PICK v \in AuthId :
          /\ Creates(v, call[r].email)
          /\ wanted' = [wanted EXCEPT ![r] =
               [sid |-> v, email |-> call[r].email, verified |-> FALSE]]
          /\ made' = [made EXCEPT ![r] = TRUE]
          /\ Goto(r, "find_user")
    BY <1>5, <2>1 DEF CreateIdentity
  <2>3. v = u BY <1>1, <1>2, <2>2 DEF Creates, Types
  <2>4. pc'[r] = "find_user" /\ made'[r] /\ wanted'[r].sid = u
    BY <1>1, <2>2, <2>3 DEF Goto, Types
  <2>. QED BY <2>4 DEF InTheMaking, Running
<1>6. CASE SupabaseRaises(r)
  <2>1. PICK v \in AuthId : Creates(v, call[r].email) /\ cut' = [cut EXCEPT ![v] = "supabase"]
    BY <1>2, <1>6 DEF SupabaseRaises
  <2>2. v = u BY <1>1, <1>2, <2>1 DEF Creates, Types
  <2>3. "supabase" # Nil BY AccountsAssumption DEF Cause
  <2>. QED BY <1>1, <2>1, <2>2, <2>3 DEF Types
<1>7. CASE Compensate(r)
  BY <1>1, <1>2, <1>7 DEF Compensate, Deletes, Exists, Types
<1>8. CASE StatementFails(r) \/ InsertUser(r) \/ UpdateUser(r)
  BY <1>2, <1>8 DEF StatementFails, SyncFails, InsertUser, UpdateUser, Flush
<1>. QED
  BY <1>2, <1>4, <1>5, <1>6, <1>7, <1>8
  DEF Moves, Step, Begin, Finish, CheckPassword, FindUser, CheckActive, Commit,
      Authorize, Revoke, SendMail, CommitFails

\* A sign_up that ends has a row, has deleted the identity, or was cut short.
LEMMA EndsSettled ==
  ASSUME Typed, Rows, Provisioned, [Next]_vars, NEW r \in Request, Moves(r),
         pc[r] \in Running, made[r], NEW u \in AuthId, wanted[r].sid = u
  PROVE  Settled(u)'
<1>1. Types /\ Shape(r) BY DEF Typed
<1>2. /\ pc[r] \in {"find_user", "insert_user", "update_user", "compensate", "commit"}
      /\ SignsUp(r)
  BY <1>1 DEF Shape, Running, Syncing, SignsUp
<1>3. ASSUME pc'[r] \in Running, made' = made, wanted' = wanted PROVE Settled(u)'
  BY <1>3 DEF Settled, InTheMaking
<1>4. CASE SyncFails(r)
  <2>1. pc'[r] = "compensate" BY <1>1, <1>2, <1>4 DEF SyncFails, Goto, Types
  <2>. QED BY <1>3, <1>4, <2>1 DEF SyncFails, Running
<1>5. CASE FindUser(r)
  <2>1. pc'[r] \in {"insert_user", "update_user"} BY <1>1, <1>5 DEF FindUser, Goto, Types
  <2>. QED BY <1>3, <1>5, <2>1 DEF FindUser, Running
<1>6. ASSUME NEW row, Flush(r, row) PROVE Settled(u)'
  <2>1. pc'[r] = "commit" BY <1>1, <1>2, <1>6 DEF Flush, Respond, Types
  <2>. QED BY <1>3, <1>6, <2>1 DEF Flush, Running
<1>7. CASE Compensate(r)
  <2>1. CASE Exists(u)
    <3>1. auth'[u] = Gone BY <1>1, <1>7, <2>1 DEF Compensate, Deletes, Types
    <3>. QED BY <3>1 DEF Settled, Exists
  <2>2. CASE ~Exists(u)
    BY <1>7, <2>2 DEF Compensate, Settled, Exists
  <2>. QED BY <2>1, <2>2
<1>8. CASE Commit(r)
  <2>1. pc[r] = "commit" BY <1>8 DEF Commit
  <2>2. \/ Committed(u)
        \/ write[r] # Nil /\ write[r].sid = u
    BY <2>1 DEF Provisioned, Known
  <2>3. \E x \in users' : x.sid = u
    <3>1. CASE Committed(u) BY <3>1, RowsLast
    <3>2. CASE write[r] # Nil /\ write[r].sid = u BY <1>8, <3>2 DEF Commit
    <3>. QED BY <2>2, <3>1, <3>2
  <2>. QED BY <2>3 DEF Settled, Committed, RowOf
<1>9. CASE CommitFails(r) \/ (SupabaseRaises(r) /\ pc[r] = "compensate")
  <2>1. cut' = CutShort({r}, "commit") \/ cut' = CutShort({r}, "supabase")
    BY <1>9 DEF CommitFails, SupabaseRaises
  <2>2. cut'[u] \in Cause BY <2>1 DEF CutShort, Cause
  <2>3. cut'[u] # Nil BY <2>2, AccountsAssumption
  <2>. QED BY <2>3 DEF Settled
<1>10. \/ SyncFails(r) \/ FindUser(r) \/ (\E row : Flush(r, row))
       \/ Compensate(r) \/ Commit(r)
       \/ CommitFails(r) \/ (SupabaseRaises(r) /\ pc[r] = "compensate")
  BY <1>2
  DEF Moves, Step, Begin, Finish, CreateIdentity, CheckPassword, InsertUser,
      UpdateUser, CheckActive, Authorize, Revoke, SendMail, StatementFails,
      SupabaseRaises
<1>. QED BY <1>4, <1>5, <1>6, <1>7, <1>8, <1>9, <1>10

LEMMA OrphansNext ==
  ASSUME Typed, Rows, Provisioned, OrphansHaveACause, [Next]_vars
  PROVE  OrphansHaveACause'
<1>. SUFFICES ASSUME NEW u \in AuthId PROVE Settled(u)'
  BY DEF OrphansHaveACause, Settled
<1>1. Settled(u) BY OrphansAreSettled
<1>2. CASE cut[u] # Nil BY <1>2, CutLasts DEF Settled
<1>3. CASE Committed(u) BY <1>3, CommittedLasts DEF Settled
<1>4. CASE ~Exists(u) BY <1>4, NewIdentities DEF Settled
<1>5. CASE InTheMaking(u)
  <2>1. PICK q \in Request : pc[q] \in Running /\ made[q] /\ wanted[q].sid = u
    BY <1>5 DEF InTheMaking
  <2>2. CASE UNCHANGED <<pc, made, wanted>>
    BY <2>1, <2>2 DEF Settled, InTheMaking
  <2>3. CASE UNCHANGED vars \/ Outside
    BY <2>2, <2>3 DEF vars, Outside, Confirm, ChangeEmail, SetActive, Local
  <2>4. CASE Crash
    <3>1. cut'[u] = "crash" BY <2>1, <2>4 DEF Crash, CutShort
    <3>2. "crash" # Nil BY AccountsAssumption DEF Cause
    <3>. QED BY <3>1, <3>2 DEF Settled
  <2>5. ASSUME NEW r \in Request, Moves(r) PROVE Settled(u)'
    <3>1. CASE q = r BY <2>1, <2>5, <3>1, EndsSettled
    <3>2. CASE q # r
      <4>1. Rests(q) BY <2>5, <3>2, MovesTyped DEF Alone
      <4>. QED BY <2>1, <4>1 DEF Rests, Settled, InTheMaking
    <3>. QED BY <3>1, <3>2
  <2>. QED BY <2>3, <2>4, <2>5, NextIs
<1>. QED BY <1>1, <1>2, <1>3, <1>4, <1>5 DEF Settled

\* An identity is left without a row by Supabase, a crash or a failed COMMIT
\* alone: every other failure is compensated, however many sign_ups and
\* sign_ins race (accounts/service.py:107).
THEOREM AccountsOrphansHaveACause == Spec => []OrphansHaveACause
<1>1. Init => OrphansHaveACause BY DEF Init, OrphansHaveACause, Exists
<1>2. Typed /\ Rows /\ Provisioned /\ OrphansHaveACause /\ [Next]_vars => OrphansHaveACause'
  BY OrphansNext
<1>. QED BY <1>1, <1>2, ProvisionedInvariant, PTL DEF Spec

\* Only a COMMIT that fails leaves that mark.
NoCommitCut == \A u \in AuthId : cut[u] # "commit"

LEMMA NoCommitCutNext ==
  ASSUME ~CommitsFail, Typed, NoCommitCut, [Next]_vars
  PROVE  NoCommitCut'
<1>1. CASE UNCHANGED cut BY <1>1 DEF NoCommitCut
<1>2. ASSUME NEW rs, NEW c \in {"supabase", "crash"}, cut' = CutShort(rs, c)
      PROVE  NoCommitCut'
  BY <1>2 DEF CutShort, NoCommitCut
<1>3. ASSUME NEW v \in AuthId, cut' = [cut EXCEPT ![v] = "supabase"] PROVE NoCommitCut'
  BY <1>3 DEF NoCommitCut, Typed, Types
<1>4. CASE Crash BY <1>2, <1>4 DEF Crash
<1>5. CASE UNCHANGED vars \/ Outside
  BY <1>1, <1>5 DEF vars, Outside, Confirm, ChangeEmail, SetActive, Local
<1>6. ASSUME NEW r \in Request, Moves(r) PROVE NoCommitCut'
  <2>1. CASE SupabaseRaises(r) BY <1>1, <1>2, <1>3, <2>1 DEF SupabaseRaises
  <2>2. CASE StatementFails(r) \/ InsertUser(r) \/ UpdateUser(r)
    BY <1>1, <2>2 DEF StatementFails, SyncFails, InsertUser, UpdateUser, Flush
  <2>. QED
    BY <1>1, <1>6, <2>1, <2>2
    DEF Moves, Step, Begin, Finish, CreateIdentity, CheckPassword, FindUser,
        CheckActive, Compensate, Commit, Authorize, Revoke, SendMail, CommitFails
<1>. QED BY <1>4, <1>5, <1>6, NextIs

\* A COMMIT that fails is the one failure of the local write that leaves an
\* orphan: as long as none does, Supabase and the death of the process are the
\* only causes (accounts/service.py:47-49, database/sessions.py:46).
THEOREM AccountsWithoutCommitFailure ==
  ASSUME CommitsFail = FALSE
  PROVE  Spec => []NoOrphans
<1>1. Init => OrphansHaveACause /\ NoCommitCut
  BY AccountsAssumption DEF Init, OrphansHaveACause, Exists, NoCommitCut, Cause
<1>2. Typed /\ Rows /\ Provisioned /\ OrphansHaveACause /\ [Next]_vars => OrphansHaveACause'
  BY OrphansNext
<1>3. Typed /\ NoCommitCut /\ [Next]_vars => NoCommitCut' BY NoCommitCutNext
<1>4. Typed /\ OrphansHaveACause /\ NoCommitCut => NoOrphans
  BY DEF Typed, Types, Cause, OrphansHaveACause, NoCommitCut, NoOrphans
<1>. QED BY <1>1, <1>2, <1>3, <1>4, ProvisionedInvariant, PTL DEF Spec

-----------------------------------------------------------------------------
(* Logouts.                                                                *)

\* The sessions a logout is to end are of the account its token is of, and follow
\* the one it was presented with.
Ending(r) ==
  /\ \A t \in ending[r] :
       Holds(r) /\ sessions[t] # Nil /\ sessions[t].user = sessions[token[r]].user
  /\ token[r] \in ending[r] /\ ~Live(token[r]) => \A t \in ending[r] : ~Live(t)

\* Sessions end for good, and those of an account together.
EndTogether ==
  /\ \A t \in Token : sessions[t] # Nil /\ ~Live(t) => ~Live(t)'
  /\ \A s, t \in Token : /\ Live(s) /\ Live(t) /\ sessions[s].user = sessions[t].user
                         /\ ~Live(s)'
                         => ~Live(t)'

LEMMA RevokedTogether ==
  ASSUME Typed, NEW u, sessions' = Revoked(SessionsOf(u))
  PROVE  EndTogether /\ \A t \in SessionsOf(u) : ~Live(t)'
<1>1. ASSUME NEW t \in Token, sessions[t] # Nil
      PROVE  /\ Live(t)' <=> Live(t) /\ t \notin SessionsOf(u)
  <2>1. sessions[t] \in Session BY <1>1 DEF Typed, Types
  <2>2. /\ [sessions[t] EXCEPT !.live = FALSE].live = FALSE
        /\ [sessions[t] EXCEPT !.live = FALSE] \in Session
    BY <2>1 DEF Session
  <2>3. [sessions[t] EXCEPT !.live = FALSE] # Nil BY <2>2, AccountsAssumption
  <2>4. sessions'[t] = IF t \in SessionsOf(u) THEN [sessions[t] EXCEPT !.live = FALSE]
                       ELSE sessions[t]
    BY DEF Revoked
  <2>. QED BY <1>1, <2>2, <2>3, <2>4 DEF Live
<1>2. \A t \in SessionsOf(u) : t \in Token /\ sessions[t] # Nil BY SessionsOfAre
<1>3. \A t \in Token : t \in SessionsOf(u) <=> Live(t) /\ sessions[t].user = u
  BY DEF SessionsOf
<1>4. \A t \in Token : Live(t) => sessions[t] # Nil BY DEF Live
<1>. QED BY <1>1, <1>2, <1>3, <1>4 DEF EndTogether

LEMMA SameTogether ==
  ASSUME UNCHANGED sessions
  PROVE  EndTogether
BY DEF EndTogether, Live

LEMMA MovesTogether ==
  ASSUME Typed, NEW r \in Request, Moves(r)
  PROVE  EndTogether
<1>1. Types BY DEF Typed
<1>2. ASSUME NEW t \in Token, NEW u, Starts(t, u) PROVE EndTogether
  BY <1>1, <1>2 DEF Starts, EndTogether, Live, Types
<1>3. CASE Begin(r) \/ Finish(r) \/ CreateIdentity(r) \/ FindUser(r) \/ Commit(r)
           \/ Authorize(r) \/ SendMail(r) \/ CommitFails(r)
  BY <1>3, SameTogether
  DEF Begin, Finish, CreateIdentity, FindUser, Commit, Authorize, SendMail, CommitFails
<1>4. CASE StatementFails(r) \/ InsertUser(r) \/ UpdateUser(r)
  BY <1>4, SameTogether DEF StatementFails, SyncFails, InsertUser, UpdateUser, Flush
<1>5. CASE CheckPassword(r) BY <1>2, <1>5, SameTogether DEF CheckPassword
<1>6. CASE Compensate(r)
  BY <1>6, SameTogether, RevokedTogether DEF Compensate, Deletes
<1>7. ASSUME NEW t, sessions' = Revoked(EndedBy(t)) PROVE EndTogether
  <2>1. CASE Live(t) BY <1>7, <2>1, RevokedTogether DEF EndedBy
  <2>2. CASE ~Live(t)
    <3>1. sessions' = sessions BY <1>1, <1>7, <2>2 DEF EndedBy, Revoked, Types
    <3>. QED BY <3>1, SameTogether
  <2>. QED BY <2>1, <2>2
<1>8. CASE Revoke(r) BY <1>7, <1>8, SameTogether DEF Revoke
<1>9. CASE SupabaseRaises(r) BY <1>2, <1>7, <1>9, SameTogether DEF SupabaseRaises
<1>10. CASE CheckActive(r)
  <2>1. CASE UNCHANGED sessions BY <2>1, SameTogether
  <2>2. CASE sessions' = [sessions EXCEPT ![token[r]].given = TRUE]
    <3>1. token[r] \in Token /\ sessions[token[r]] \in Session
      BY <1>1, <1>10 DEF Typed, Types, Shape, Holds, CheckActive, Running, Syncing
    <3>2. [sessions[token[r]] EXCEPT !.given = TRUE] \in Session
          /\ [sessions[token[r]] EXCEPT !.given = TRUE].live = sessions[token[r]].live
      BY <3>1 DEF Session
    <3>3. [sessions[token[r]] EXCEPT !.given = TRUE] # Nil BY <3>2, AccountsAssumption
    <3>4. sessions[token[r]] # Nil BY <3>1, AccountsAssumption
    <3>5. \A t \in Token : Live(t)' <=> Live(t)
      BY <1>1, <2>2, <3>1, <3>2, <3>3, <3>4 DEF Live, Types
    <3>. QED BY <3>5 DEF EndTogether
  <2>. QED BY <1>10, <2>1, <2>2 DEF CheckActive
<1>. QED BY <1>3, <1>4, <1>5, <1>6, <1>8, <1>9, <1>10 DEF Moves, Step

\* What happens to sessions happens to all that a logout is to end.
LEMMA EndingKept ==
  ASSUME Typed, NEW q \in Request, Ending(q), SessionsLast, EndTogether,
         token'[q] = token[q], ending'[q] = ending[q]
  PROVE  Ending(q)'
<1>. SUFFICES ASSUME ending[q] # {} PROVE Ending(q)'
  BY DEF Ending
<1>1. PICK k \in Token : token[q] = k
  BY DEF Typed, Types, Ending, Holds
<1>2. token'[q] = k /\ k # Nil /\ sessions[k] # Nil /\ sessions'[k] # Nil
  BY <1>1 DEF Ending, Holds, SessionsLast
<1>3. ASSUME NEW t \in ending[q]
      PROVE  /\ sessions'[t] # Nil /\ sessions'[t].user = sessions'[k].user
             /\ ~Live(t) => ~Live(t)'
             /\ Live(k) /\ ~Live(k)' => ~Live(t)'
  <2>1. /\ t \in Token /\ sessions[t] # Nil /\ sessions[t].user = sessions[k].user
    BY <1>1 DEF Ending, Typed, Types
  <2>2. sessions'[t] # Nil /\ sessions'[t].user = sessions'[k].user
    BY <1>2, <2>1 DEF SessionsLast
  <2>3. ~Live(t) => ~Live(t)' BY <2>1 DEF EndTogether
  <2>4. Live(k) /\ Live(t) /\ ~Live(k)' => ~Live(t)' BY <2>1 DEF EndTogether
  <2>. QED BY <2>2, <2>3, <2>4
<1>4. \A t \in ending'[q] :
        Holds(q)' /\ sessions'[t] # Nil /\ sessions'[t].user = sessions'[token'[q]].user
  BY <1>2, <1>3 DEF Holds
<1>5. k \in ending'[q] /\ ~Live(k)' => \A t \in ending'[q] : ~Live(t)'
  BY <1>1, <1>3 DEF Ending
<1>6. Live(token[q])' <=> Live(k)' BY <1>2 DEF Live
<1>. QED BY <1>2, <1>4, <1>5, <1>6 DEF Ending

\* A logout that is let in begins with the sessions that are live.
LEMMA OwnEnding ==
  ASSUME Typed, NEW r \in Request, Ending(r), Moves(r)
  PROVE  Ending(r)'
<1>1. Types /\ Shape(r) BY DEF Typed
<1>2. SessionsLast BY MovesTyped DEF Alone
<1>3. EndTogether BY MovesTogether
<1>4. CASE Authorize(r)
  <2>1. UNCHANGED <<sessions, token>> /\ pc[r] = "authorize" BY <1>4 DEF Authorize
  <2>2. CASE UNCHANGED ending BY <1>2, <1>3, <2>1, <2>2, EndingKept
  <2>3. CASE ending' = [ending EXCEPT ![r] = SessionsOf(sessions[token[r]].user)]
    <3>1. ending'[r] = SessionsOf(sessions[token[r]].user) BY <1>1, <2>3 DEF Types
    <3>2. Holds(r)' BY <1>1, <2>1 DEF Shape, Holds
    <3>3. \A t \in ending'[r] :
            Live(t)' /\ sessions'[t] # Nil /\ sessions'[t].user = sessions[token[r]].user
      BY <2>1, <3>1 DEF SessionsOf, Live
    <3>4. sessions'[token'[r]].user = sessions[token[r]].user BY <2>1
    <3>5. token'[r] \in ending'[r] => Live(token[r])' BY <3>3
    <3>. QED BY <3>2, <3>3, <3>4, <3>5 DEF Ending
  <2>. QED BY <1>4, <2>2, <2>3 DEF Authorize
<1>5. CASE Begin(r) \/ Finish(r) \/ CheckPassword(r)
  <2>1. ending'[r] = {} BY <1>1, <1>5 DEF Begin, Finish, CheckPassword, Shape, Types
  <2>. QED BY <2>1 DEF Ending
<1>6. CASE ~Authorize(r) /\ ~Begin(r) /\ ~Finish(r) /\ ~CheckPassword(r)
  <2>1. UNCHANGED <<token, ending>>
    BY <1>6
    DEF Moves, Step, CreateIdentity, FindUser, InsertUser, UpdateUser, CheckActive,
        Compensate, Revoke, Commit, SendMail, StatementFails, SupabaseRaises,
        CommitFails, SyncFails, Flush
  <2>. QED BY <1>2, <1>3, <2>1, EndingKept
<1>. QED BY <1>4, <1>5, <1>6

LEMMA EndingNext ==
  ASSUME Typed, \A r \in Request : Ending(r), [Next]_vars
  PROVE  \A r \in Request : Ending(r)'
<1>. SUFFICES ASSUME NEW q \in Request PROVE Ending(q)'
  OBVIOUS
<1>1. CASE UNCHANGED <<sessions, token, ending>>
  BY <1>1 DEF Ending, Holds, Live
<1>2. CASE UNCHANGED vars \/ Outside
  BY <1>1, <1>2 DEF vars, Outside, Confirm, ChangeEmail, SetActive, Local
<1>3. CASE Crash
  <2>1. ending'[q] = {} BY <1>3 DEF Crash
  <2>. QED BY <2>1 DEF Ending
<1>4. ASSUME NEW r \in Request, Moves(r) PROVE Ending(q)'
  <2>1. CASE q = r BY <1>4, <2>1, OwnEnding
  <2>2. CASE q # r
    <3>1. Rests(q) /\ SessionsLast BY <1>4, <2>2, MovesTyped DEF Alone
    <3>. QED BY <1>4, <3>1, MovesTogether, EndingKept DEF Rests
  <2>. QED BY <2>1, <2>2
<1>. QED BY <1>2, <1>3, <1>4, NextIs

\* The devices of an account go out together, however many logouts and sign_ins
\* are under way and whatever Supabase answers (accounts/service.py:244).
THEOREM AccountsDevicesGoOutTogether == Spec => []DevicesGoOutTogether
<1>1. Init => Typed BY TypedInit
<1>2. Init => \A r \in Request : Ending(r) BY DEF Init, Ending
<1>3. Typed /\ [Next]_vars => Typed' BY TypedNext
<1>4. Typed /\ (\A r \in Request : Ending(r)) /\ [Next]_vars => (\A r \in Request : Ending(r))'
  BY EndingNext
<1>5. (\A r \in Request : Ending(r)) => DevicesGoOutTogether
  BY DEF Ending, DevicesGoOutTogether
<1>. QED BY <1>1, <1>2, <1>3, <1>4, <1>5, PTL DEF Spec

-----------------------------------------------------------------------------
(* The directory.                                                          *)

\* A flushed row that is the first of its identity is active.
Fresh(r) == write[r] # Nil /\ RowOf(write[r].sid) = {} => write[r].active

AllFresh == \A r \in Request : Fresh(r)

LEMMA FreshNext ==
  ASSUME Typed, Rows, AllFresh, [Next]_vars
  PROVE  AllFresh'
<1>. SUFFICES ASSUME NEW q \in Request PROVE Fresh(q)'
  BY DEF AllFresh
<1>1. CASE write'[q] \in {write[q], Nil}
  BY <1>1, CommittedLasts DEF AllFresh, Fresh, Committed
<1>2. CASE UNCHANGED vars \/ Crash \/ Outside
  BY <1>1, <1>2 DEF vars, Crash, Outside, Confirm, ChangeEmail, SetActive, Local
<1>3. ASSUME NEW r \in Request, Moves(r) PROVE Fresh(q)'
  <2>1. CASE Forgets \/ Commit(r)
    BY <1>1, <2>1 DEF Forgets, Commit, Typed, Types
  <2>2. ASSUME NEW row \in User, Flushes(r, row) PROVE Fresh(q)'
    <3>1. users' = users /\ write'[q] = IF q = r THEN row ELSE write[q]
      BY <2>2 DEF Flushes, Typed, Types
    <3>. QED BY <1>1, <2>2, <3>1 DEF Flushes, Fresh, RowOf
  <2>. QED BY <1>3, <2>1, <2>2, MovesRows
<1>. QED BY <1>2, <1>3, NextIs

\* A commit enrols an identity, renews its entry, or leaves the directory alone.
LEMMA CommitIsOneChange ==
  ASSUME Typed, Rows, NEW r \in Request, Fresh(r), Commit(r),
         \A t \in Token : Holder(t)' = Holder(t)
  PROVE  Dir!Next \/ UNCHANGED Dir!vars
<1>. DEFINE w == write[r]
<1>1. CASE w = Nil BY <1>1 DEF Commit, Dir!vars
<1>2. CASE w # Nil
  <2>1. /\ w \in User /\ Pending(r)
        /\ users' = (users \ RowOf(w.sid)) \cup {w}
    BY <1>2 DEF Typed, Types, Commit, Rows
  <2>2. CASE RowOf(w.sid) = {}
    <3>1. w.active BY <1>2, <2>2 DEF Fresh
    <3>2. \A y \in users : y.sid # w.sid /\ y.email # w.email
      BY <1>2, <2>1, <2>2 DEF RowOf, Pending, KeyClash
    <3>3. users' = users \cup {w} /\ w \in Dir!Entry BY <2>1, <2>2 DEF Dir!Entry, User
    <3>4. Dir!Enrol BY <3>1, <3>2, <3>3 DEF Dir!Enrol
    <3>. QED BY <3>4 DEF Dir!Next
  <2>3. ASSUME NEW x \in RowOf(w.sid) PROVE Dir!Next
    <3>1. x \in users /\ x \in User /\ x.sid = w.sid /\ x.active = w.active
      BY <1>2, <2>1 DEF RowOf, Pending, Typed, Types
    <3>2. \A y \in users : y # x => y.sid # w.sid
      BY <3>1 DEF Rows, OneRowPerIdentity
    <3>3. \A y \in users : y # x => y.email # w.email
      BY <1>2, <2>1, <3>2 DEF Pending, KeyClash
    <3>4. RowOf(w.sid) = {x} BY <3>1, <3>2 DEF RowOf
    <3>5. [x EXCEPT !.email = w.email, !.verified = w.verified] = w
      BY <2>1, <3>1 DEF User
    <3>6. w.email \in Email /\ w.verified \in BOOLEAN BY <2>1 DEF User
    <3>7. Dir!Renew(x) BY <2>1, <3>3, <3>4, <3>5, <3>6 DEF Dir!Renew
    <3>. QED BY <3>1, <3>7 DEF Dir!Next
  <2>. QED BY <2>2, <2>3
<1>. QED BY <1>1, <1>2

\* A sign_in hands its token to the identity whose row it has found.
LEMMA CheckActiveHandsOut ==
  ASSUME Typed, Provisioned, NEW r \in Request, CheckActive(r)
  PROVE  Dir!Next \/ UNCHANGED Dir!vars
<1>1. Types /\ Shape(r) BY DEF Typed
<1>2. pc[r] = "check_active" /\ call[r].op = "sign_in" /\ users' = users
  BY <1>1 DEF CheckActive, Shape
<1>3. CASE UNCHANGED sessions BY <1>2, <1>3 DEF Dir!vars, Holder
<1>4. CASE sessions' = [sessions EXCEPT ![token[r]].given = TRUE]
  <2>1. PICK k \in Token : token[r] = k /\ sessions[k] # Nil
    BY <1>1, <1>2 DEF Shape, Types, Holds
  <2>2. sessions[k] \in Session /\ sessions[k].user = wanted[r].sid
    BY <1>1, <1>2, <2>1 DEF Shape, Types
  <2>3. PICK x \in users : x.sid = sessions[k].user
    BY <1>2, <2>2 DEF Provisioned, Known, Committed, RowOf
  <2>. DEFINE s == [sessions[k] EXCEPT !.given = TRUE]
  <2>4. s \in Session /\ s.given /\ s.user = sessions[k].user BY <2>2 DEF Session
  <2>5. s # Nil BY <2>4, AccountsAssumption
  <2>6. \A t \in Token : sessions'[t] = IF t = k THEN s ELSE sessions[t]
    BY <1>1, <1>4, <2>1 DEF Types
  <2>. HIDE DEF s
  <2>7. \A t \in Token : Holder(t)' = IF t = k THEN x.sid ELSE Holder(t)
    BY <2>3, <2>4, <2>5, <2>6 DEF Holder
  <2>8. CASE sessions[k].given
    <3>1. \A t \in Token : Holder(t)' = Holder(t)
      BY <2>1, <2>3, <2>7, <2>8 DEF Holder
    <3>. QED BY <1>2, <3>1 DEF Dir!vars
  <2>9. CASE ~sessions[k].given
    <3>1. Holder(k) = Nil BY <2>9 DEF Holder
    <3>2. Dir!HandOut(k, x) BY <1>2, <2>1, <2>7, <3>1 DEF Dir!HandOut
    <3>. QED BY <2>1, <2>3, <3>2 DEF Dir!Next
  <2>. QED BY <2>8, <2>9
<1>. QED BY <1>3, <1>4 DEF CheckActive

\* Every step is one change of the directory, or none.
LEMMA StepIsOneChange ==
  ASSUME Typed, Rows, Provisioned, AllFresh, [Next]_vars
  PROVE  Dir!Next \/ UNCHANGED Dir!vars
<1>1. CASE UNCHANGED <<users, sessions>> BY <1>1 DEF Dir!vars, Holder
<1>2. CASE UNCHANGED vars \/ Crash BY <1>1, <1>2 DEF vars, Crash
<1>3. CASE Outside
  <2>1. ASSUME NEW x \in users, SetActive(x) PROVE Dir!Next
    <3>1. Dir!SetActive(x) BY <2>1 DEF SetActive, Dir!SetActive, Holder
    <3>. QED BY <2>1, <3>1 DEF Dir!Next
  <2>. QED BY <1>1, <1>3, <2>1 DEF Outside, Confirm, ChangeEmail
<1>4. ASSUME NEW r \in Request, Moves(r) PROVE Dir!Next \/ UNCHANGED Dir!vars
  <2>1. CASE CheckActive(r) BY <2>1, CheckActiveHandsOut
  <2>2. CASE ~CheckActive(r)
    <3>1. \A t \in Token : Given(t)' <=> Given(t) BY <1>4, <2>2, GivenKept
    <3>2. \A t \in Token : Given(t) => sessions'[t].user = sessions[t].user
      BY <1>4, MovesTyped DEF Alone, SessionsLast, Given
    <3>3. \A t \in Token : Holder(t)' = Holder(t) BY <3>1, <3>2 DEF Given, Holder
    <3>4. CASE users' = users BY <3>3, <3>4 DEF Dir!vars
    <3>5. CASE Commit(r) BY <3>3, <3>5, CommitIsOneChange DEF AllFresh
    <3>. QED BY <1>4, <3>4, <3>5, MovesRows DEF Forgets, Flushes
  <2>. QED BY <2>1, <2>2
<1>. QED BY <1>2, <1>3, <1>4, NextIs

\* However sign_ups and sign_ins interleave, fail and die, the rows and the tokens
\* are those of a directory that serves one of them at a time
\* (accounts/service.py:36, accounts/repository.py:19).
THEOREM AccountsImplementDirectory == Spec => ImplementsDirectory
<1>1. Init => Dir!Init BY DEF Init, Dir!Init, Holder
<1>2. Init => AllFresh BY DEF Init, AllFresh, Fresh
<1>3. Typed /\ Rows /\ AllFresh /\ [Next]_vars => AllFresh' BY FreshNext
<1>4. Typed /\ Rows /\ Provisioned /\ AllFresh /\ [Next]_vars => [Dir!Next]_Dir!vars
  BY StepIsOneChange
<1>. QED
  BY <1>1, <1>2, <1>3, <1>4, ProvisionedInvariant, PTL
  DEF Spec, ImplementsDirectory, Dir!Spec
=============================================================================
