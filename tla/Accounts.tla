------------------------------ MODULE Accounts ------------------------------
(***************************************************************************)
(* AuthService: two stores that no transaction spans.  Supabase Auth keeps *)
(* the identities and their sessions, the local table users keeps one row  *)
(* per identity.  sign_up writes the first, then the second, and deletes   *)
(* the identity again when the second write fails; sign_in brings the row  *)
(* up to date with the identity; sign_out revokes sessions.                *)
(*                                                                         *)
(* A request is a coroutine; Supabase is called in a worker thread, so     *)
(* every call to it, like every SQL statement, is a step the others        *)
(* interleave with.  The response is sent before get_db commits: a request *)
(* at "commit" has been answered and has yet to commit.                    *)
(*                                                                         *)
(* Supabase is external.  It is modelled from what the service expects of  *)
(* it: an address with a confirmed identity is refused ("already           *)
(* registered"), one with an unconfirmed identity gets that identity again *)
(* (sync_from_supabase has a branch for it), an unconfirmed address gets   *)
(* no session, a call that raises may or may not have been carried out, and*)
(* a sign_out may be refused for reasons of its own.                       *)
(***************************************************************************)
EXTENDS Integers, FiniteSets

CONSTANTS
  Request,      \* slots of concurrently served HTTP requests
  AuthId,       \* ids Supabase can give to identities
  Email,
  MaxSessions,  \* bound: sessions ever started
  Nil,          \* None; an id not given yet
  Gone          \* the id of a deleted identity

CONSTANTS
  Asked,           \* the calls clients make
  StatementsFail,  \* a SQL statement may raise
  CommitsFail,     \* get_db's COMMIT may raise
  SupabaseFails,   \* Supabase may be out of reach, lose an answer or refuse a sign_out
  Crashes,         \* the process may die
  EmailsChange     \* people change the address of their identity in Supabase

Token == 1 .. MaxSessions

Identity == [email: Email, confirmed: BOOLEAN]

\* A row of users.  The names are left out: sign_up gives both, sign_in none,
\* and the columns refuse NULL.
User == [sid: AuthId, email: Email, verified: BOOLEAN, active: BOOLEAN]

\* The columns sync_from_supabase writes.
Columns == [sid: AuthId, email: Email, verified: BOOLEAN]

Session == [user: AuthId, live: BOOLEAN, given: BOOLEAN]

Call == [op: {"sign_up", "sign_in", "resend"}, email: Email] \cup [op: {"sign_out"}]

\* What can cut the first sign_up of an identity short.
Cause == {"supabase", "crash", "commit"}

ASSUME AccountsAssumption ==
  /\ MaxSessions \in Nat
  /\ Nil # Gone
  /\ Asked \subseteq Call
  /\ Gone \notin Identity
  /\ Nil \notin Identity \cup Session \cup Call \cup Columns \cup User \cup Cause
  /\ Nil \notin Int
  /\ StatementsFail \in BOOLEAN /\ CommitsFail \in BOOLEAN
  /\ SupabaseFails \in BOOLEAN /\ Crashes \in BOOLEAN /\ EmailsChange \in BOOLEAN

VARIABLES
  auth,      \* Supabase: AuthId -> identity, Nil before, Gone after
  sessions,  \* Supabase: Token -> session, Nil before
  users,     \* the committed rows of users
  pc,        \* Request -> what it does next
  call,      \* Request -> the call it serves
  wanted,    \* Request -> what Supabase's answer makes it want of a row
  token,     \* Request -> the access token it hands out, or was presented with
  view,      \* Request -> the User in its session's identity map
  write,     \* Request -> its flushed, uncommitted row
  answer,    \* Request -> the HTTP status it was answered with
  made,      \* history: the request's sign_up created its identity
  ending,    \* history: the sessions its account had when a logout was let in
  cut        \* history: AuthId -> what cut its first sign_up short

vars == <<auth, sessions, users, pc, call, wanted, token, view, write, answer, made,
          ending, cut>>

Running == {"create_identity", "check_password", "find_user", "insert_user",
            "update_user", "check_active", "compensate", "commit",
            "authorize", "revoke", "send_mail"}

Status == {200, 201, 400, 401, 403, 500, 502}

TypeOK ==
  /\ auth \in [AuthId -> Identity \cup {Nil, Gone}]
  /\ sessions \in [Token -> Session \cup {Nil}]
  /\ users \subseteq User
  /\ pc \in [Request -> Running \cup {"idle", "done"}]
  /\ call \in [Request -> Call \cup {Nil}]
  /\ wanted \in [Request -> Columns \cup {Nil}]
  /\ token \in [Request -> Token \cup {Nil}]
  /\ view \in [Request -> User \cup {Nil}]
  /\ write \in [Request -> User \cup {Nil}]
  /\ answer \in [Request -> Status \cup {Nil}]
  /\ made \in [Request -> BOOLEAN]
  /\ ending \in [Request -> SUBSET Token]
  /\ cut \in [AuthId -> Cause \cup {Nil}]
  /\ \A r \in Request :
       /\ pc[r] \in Running => call[r] # Nil
       /\ pc[r] = "update_user" => view[r] # Nil /\ wanted[r] # Nil
       /\ write[r] # Nil => pc[r] \in {"check_active", "commit"}

Init ==
  /\ auth = [u \in AuthId |-> Nil]
  /\ sessions = [t \in Token |-> Nil]
  /\ users = {}
  /\ pc = [r \in Request |-> "idle"]
  /\ call = [r \in Request |-> Nil]
  /\ wanted = [r \in Request |-> Nil]
  /\ token = [r \in Request |-> Nil]
  /\ view = [r \in Request |-> Nil]
  /\ write = [r \in Request |-> Nil]
  /\ answer = [r \in Request |-> Nil]
  /\ made = [r \in Request |-> FALSE]
  /\ ending = [r \in Request |-> {}]
  /\ cut = [u \in AuthId |-> Nil]

-----------------------------------------------------------------------------
Exists(u) == auth[u] \notin {Nil, Gone}

\* Supabase keeps the addresses of identities apart.
IdentitiesOf(e) == {u \in AuthId : Exists(u) /\ auth[u].email = e}

RowOf(u) == {x \in users : x.sid = u}

Live(t) == sessions[t] # Nil /\ sessions[t].live

SessionsOf(u) == {t \in Token : Live(t) /\ sessions[t].user = u}

SignsUp(r) == call[r].op = "sign_up"

Goto(r, label) == pc' = [pc EXCEPT ![r] = label] /\ UNCHANGED answer

\* The response is sent; get_db goes on to commit.
Respond(r, status) ==
  /\ pc' = [pc EXCEPT ![r] = "commit"]
  /\ answer' = [answer EXCEPT ![r] = status]

Refuse_KeepsWrite(r, status) ==
  /\ pc' = [pc EXCEPT ![r] = "done"]
  /\ answer' = [answer EXCEPT ![r] = status]
  /\ UNCHANGED write

\* An exception leaves the handler: get_db rolls back.
Refuse(r, status) ==
  /\ pc' = [pc EXCEPT ![r] = "done"]
  /\ answer' = [answer EXCEPT ![r] = status]
  /\ write' = [write EXCEPT ![r] = Nil]

-----------------------------------------------------------------------------
(* What Supabase does when it carries a call out.                          *)

Creates(u, e) ==
  /\ IdentitiesOf(e) = {} /\ auth[u] = Nil
  /\ auth' = [auth EXCEPT ![u] = [email |-> e, confirmed |-> FALSE]]

Starts(t, u) ==
  /\ sessions[t] = Nil
  /\ sessions' = [sessions EXCEPT ![t] = [user |-> u, live |-> TRUE, given |-> FALSE]]

Revoked(ts) ==
  [t \in Token |-> IF t \in ts THEN [sessions[t] EXCEPT !.live = FALSE]
                   ELSE sessions[t]]

Deletes(u) ==
  /\ auth' = [auth EXCEPT ![u] = Gone]
  /\ sessions' = Revoked(SessionsOf(u))

EndedBy_Local(t) == IF Live(t) THEN {t} ELSE {}

\* The sessions a sign_out of scope "global" ends; presented with a session that
\* is over it ends none (AuthApiError).
EndedBy(t) == IF Live(t) THEN SessionsOf(sessions[t].user) ELSE {}

-----------------------------------------------------------------------------
(* sign_up and sign_in                                                     *)

\* auth.sign_up.  A confirmed address is refused; so is, for reasons of
\* Supabase's own, any other, by an AuthApiError or an answer without a user.
CreateIdentity(r) ==
  LET e == call[r].email IN
  /\ pc[r] = "create_identity"
  /\ \/ Refuse(r, 400) /\ UNCHANGED <<auth, wanted, made>>
     \/ \E u \in IdentitiesOf(e) :
          /\ ~auth[u].confirmed
          /\ wanted' = [wanted EXCEPT ![r] =
               [sid |-> u, email |-> e, verified |-> FALSE]]
          /\ Goto(r, "find_user")
          /\ UNCHANGED <<auth, write, made>>
     \/ \E u \in AuthId :
          /\ Creates(u, e)
          /\ wanted' = [wanted EXCEPT ![r] =
               [sid |-> u, email |-> e, verified |-> FALSE]]
          /\ made' = [made EXCEPT ![r] = TRUE]
          /\ Goto(r, "find_user")
          /\ UNCHANGED write
  /\ UNCHANGED <<sessions, users, call, token, view, ending, cut>>

\* auth.sign_in_with_password: a wrong password, or no session for an address
\* that is not confirmed, is a 401.
CheckPassword(r) ==
  /\ pc[r] = "check_password"
  /\ \/ Refuse(r, 401) /\ UNCHANGED <<sessions, wanted, token>>
     \/ \E u \in IdentitiesOf(call[r].email), t \in Token :
          /\ auth[u].confirmed
          /\ Starts(t, u)
          /\ token' = [token EXCEPT ![r] = t]
          /\ wanted' = [wanted EXCEPT ![r] =
               [sid |-> u, email |-> auth[u].email, verified |-> TRUE]]
          /\ Goto(r, "find_user")
          /\ UNCHANGED write
  /\ UNCHANGED <<auth, users, call, view, made, ending, cut>>

SyncFails_NoCompensation(r) ==
  /\ Refuse(r, 500)
  /\ UNCHANGED <<auth, sessions, users, call, wanted, token, view, made, ending, cut>>

\* sync_from_supabase raises; sign_up catches the exception to compensate.
SyncFails(r) ==
  /\ \/ ~SignsUp(r) /\ Refuse(r, 500)
     \/ /\ SignsUp(r)
        /\ Goto(r, "compensate")
        /\ write' = [write EXCEPT ![r] = Nil]
  /\ UNCHANGED <<auth, sessions, users, call, wanted, token, view, made, ending, cut>>

\* sync_from_supabase: update the identity's row or create it.
FindUser(r) ==
  /\ pc[r] = "find_user"
  /\ \/ /\ RowOf(wanted[r].sid) = {}
        /\ Goto(r, "insert_user")
        /\ UNCHANGED view
     \/ \E x \in RowOf(wanted[r].sid) :
          /\ view' = [view EXCEPT ![r] = x]
          /\ Goto(r, "update_user")
  /\ UNCHANGED <<auth, sessions, users, call, wanted, token, write, made, ending, cut>>

KeyClash_SameId(x, y) == x.sid = y.sid
KeyClash(x, y) == x.sid = y.sid \/ x.email = y.email

\* q's uncommitted change takes or frees a key of row, or locks the row: the
\* statement waits to learn whether q commits.
WaitsFor(q, row) ==
  /\ write[q] # Nil
  /\ \E x \in {write[q]} \cup RowOf(write[q].sid) : KeyClash(x, row)

Unhindered(r, row) == \A q \in Request \ {r} : ~WaitsFor(q, row)

\* The unique indexes refuse the row: an IntegrityError.
Clashes(row) == \E x \in users : x.sid # row.sid /\ KeyClash(x, row)

\* The row is flushed, and sync_from_supabase returns the object: as loaded,
\* or as inserted.
Flush(r, row) ==
  /\ write' = [write EXCEPT ![r] = row]
  /\ view' = [view EXCEPT ![r] = IF @ = Nil THEN row ELSE @]
  /\ IF SignsUp(r) THEN Respond(r, 201) ELSE Goto(r, "check_active")
  /\ UNCHANGED <<auth, sessions, users, call, wanted, token, made, ending, cut>>

NewRow(r) ==
  [sid |-> wanted[r].sid, email |-> wanted[r].email,
   verified |-> wanted[r].verified, active |-> TRUE]

InsertUser_NullNames(r) ==
  /\ pc[r] = "insert_user"
  /\ Unhindered(r, NewRow(r))
  /\ \/ (\E x \in users : KeyClash(x, NewRow(r))) /\ SyncFails(r)
     \/ (\A x \in users : ~KeyClash(x, NewRow(r))) /\ Flush(r, NewRow(r))

\* INSERT.  sign_in has no names to give: it is always refused.
InsertUser(r) ==
  /\ pc[r] = "insert_user"
  /\ \/ ~SignsUp(r) /\ SyncFails(r)
     \/ /\ SignsUp(r) /\ Unhindered(r, NewRow(r))
        /\ \E x \in users : KeyClash(x, NewRow(r))
        /\ SyncFails(r)
     \/ /\ SignsUp(r) /\ Unhindered(r, NewRow(r))
        /\ \A x \in users : ~KeyClash(x, NewRow(r))
        /\ Flush(r, NewRow(r))

Updated_WholeRow(r, x) ==
  [x EXCEPT !.email = wanted[r].email, !.verified = wanted[r].verified,
            !.active = view[r].active]

\* UPDATE of the columns that differ from the row as the session loaded it;
\* the others keep what the table holds by now.
Updated(r, x) ==
  [x EXCEPT !.email    = IF wanted[r].email = view[r].email
                         THEN @ ELSE wanted[r].email,
            !.verified = IF wanted[r].verified = view[r].verified
                         THEN @ ELSE wanted[r].verified]

UpToDate(r) ==
  wanted[r].email = view[r].email /\ wanted[r].verified = view[r].verified

UpdateUser(r) ==
  /\ pc[r] = "update_user"
  /\ \/ UpToDate(r) /\ Flush(r, Nil)
     \/ \E x \in RowOf(wanted[r].sid) :
          /\ ~UpToDate(r) /\ Unhindered(r, Updated(r, x))
          /\ Clashes(Updated(r, x))
          /\ SyncFails(r)
     \/ \E x \in RowOf(wanted[r].sid) :
          /\ ~UpToDate(r) /\ Unhindered(r, Updated(r, x))
          /\ ~Clashes(Updated(r, x))
          /\ Flush(r, Updated(r, x))

CheckActive_AsLoaded(r) ==
  /\ pc[r] = "check_active"
  /\ \/ ~view[r].active /\ Refuse(r, 401) /\ UNCHANGED sessions
     \/ /\ view[r].active
        /\ sessions' = [sessions EXCEPT ![token[r]].given = TRUE]
        /\ Respond(r, 200)
        /\ UNCHANGED write
  /\ UNCHANGED <<auth, users, call, wanted, token, view, made, ending, cut>>

\* What the transaction of r reads of the row: its own flushed write, or what is
\* committed by now.
Seen(r) == IF write[r] # Nil THEN {write[r]} ELSE RowOf(wanted[r].sid)

\* sign_in reads the row again: nobody has kept the object that
\* sync_from_supabase returned, so the identity map has let go of it.  A row is
\* never deleted, so there is one.
CheckActive(r) ==
  /\ pc[r] = "check_active"
  /\ \E x \in Seen(r) :
       \/ ~x.active /\ Refuse(r, 401) /\ UNCHANGED sessions
       \/ /\ x.active
          /\ sessions' = [sessions EXCEPT ![token[r]].given = TRUE]
          /\ Respond(r, 200)
          /\ UNCHANGED write
  /\ UNCHANGED <<auth, users, call, wanted, token, view, made, ending, cut>>

\* _compensate_delete_supabase_user, then the failure goes on to the client.
Compensate(r) ==
  /\ pc[r] = "compensate"
  /\ IF Exists(wanted[r].sid) THEN Deletes(wanted[r].sid)
     ELSE UNCHANGED <<auth, sessions>>
  /\ Refuse(r, 500)
  /\ UNCHANGED <<users, call, wanted, token, view, made, ending, cut>>

\* get_db commits, whatever has been answered.
Commit(r) ==
  /\ pc[r] = "commit"
  /\ users' = IF write[r] = Nil THEN users
              ELSE (users \ RowOf(write[r].sid)) \cup {write[r]}
  /\ write' = [write EXCEPT ![r] = Nil]
  /\ Goto(r, "done")
  /\ UNCHANGED <<auth, sessions, call, wanted, token, view, made, ending, cut>>

-----------------------------------------------------------------------------
(* sign_out and resend_verification_email                                  *)

\* get_current_user: the token is verified locally, whatever has become of
\* its session, until it expires.
Authorize(r) ==
  LET row == RowOf(sessions[token[r]].user) IN
  /\ pc[r] = "authorize"
  /\ \/ Refuse(r, 401) /\ UNCHANGED ending
     \/ (\E x \in row : ~x.active) /\ Refuse(r, 403) /\ UNCHANGED ending
     \/ /\ \E x \in row : x.active
        /\ ending' = [ending EXCEPT ![r] = SessionsOf(sessions[token[r]].user)]
        /\ Goto(r, "revoke")
        /\ UNCHANGED write
  /\ UNCHANGED <<auth, sessions, users, call, wanted, token, view, made, cut>>

\* auth.admin.sign_out(token, "global").  An AuthApiError is a success, whatever
\* its reason: the session is over already, or Supabase ends none for now.
Revoke(r) ==
  /\ pc[r] = "revoke"
  /\ \/ sessions' = Revoked(EndedBy(token[r]))
     \/ SupabaseFails /\ UNCHANGED sessions
  /\ Respond(r, 200)
  /\ UNCHANGED <<auth, users, call, wanted, token, view, write, made, ending, cut>>

\* auth.resend: whatever it does, the answer is the same.
SendMail(r) ==
  /\ pc[r] = "send_mail"
  /\ Respond(r, 200)
  /\ UNCHANGED <<auth, sessions, users, call, wanted, token, view, write, made,
                 ending, cut>>

-----------------------------------------------------------------------------
(* Failures.                                                               *)

StatementFails(r) ==
  /\ StatementsFail
  /\ \/ pc[r] \in {"find_user", "insert_user", "update_user"} /\ SyncFails(r)
     \/ /\ pc[r] \in {"check_active", "authorize"}
        /\ Refuse(r, 500)
        /\ UNCHANGED <<auth, sessions, users, call, wanted, token, view, made,
                       ending, cut>>

CutShort(rs, cause) ==
  [u \in AuthId |-> IF \E r \in rs : made[r] /\ wanted[r].sid = u
                    THEN cause ELSE cut[u]]

\* The COMMIT raises after the response is out.
CommitFails(r) ==
  /\ CommitsFail
  /\ pc[r] = "commit"
  /\ write' = [write EXCEPT ![r] = Nil]
  /\ cut' = CutShort({r}, "commit")
  /\ Goto(r, "done")
  /\ UNCHANGED <<auth, sessions, users, call, wanted, token, view, made, ending>>

\* Supabase cannot be reached, or its answer is lost: the call it carried out,
\* if it did, has no one to follow it up.  502, but a failed compensation is
\* only logged.
SupabaseRaises(r) ==
  /\ SupabaseFails
  /\ \/ /\ pc[r] = "create_identity"
        /\ \/ UNCHANGED <<auth, cut>>
           \/ \E u \in AuthId :
                Creates(u, call[r].email) /\ cut' = [cut EXCEPT ![u] = "supabase"]
        /\ Refuse(r, 502)
        /\ UNCHANGED sessions
     \/ /\ pc[r] = "check_password"
        /\ \/ UNCHANGED sessions
           \/ \E u \in IdentitiesOf(call[r].email), t \in Token :
                auth[u].confirmed /\ Starts(t, u)
        /\ Refuse(r, 502)
        /\ UNCHANGED <<auth, cut>>
     \/ /\ pc[r] = "revoke"
        /\ UNCHANGED sessions \/ sessions' = Revoked(EndedBy(token[r]))
        /\ Refuse(r, 502)
        /\ UNCHANGED <<auth, cut>>
     \/ /\ pc[r] = "compensate"
        /\ cut' = CutShort({r}, "supabase")
        /\ Refuse(r, 500)
        /\ UNCHANGED <<auth, sessions>>
  /\ UNCHANGED <<users, call, wanted, token, view, made, ending>>

\* The process dies: PostgreSQL rolls back, Supabase keeps what it has done.
Crash ==
  /\ Crashes
  /\ cut' = CutShort({r \in Request : pc[r] \in Running}, "crash")
  /\ pc' = [r \in Request |-> "idle"]
  /\ call' = [r \in Request |-> Nil]
  /\ wanted' = [r \in Request |-> Nil]
  /\ token' = [r \in Request |-> Nil]
  /\ view' = [r \in Request |-> Nil]
  /\ write' = [r \in Request |-> Nil]
  /\ answer' = [r \in Request |-> Nil]
  /\ made' = [r \in Request |-> FALSE]
  /\ ending' = [r \in Request |-> {}]
  /\ UNCHANGED <<auth, sessions, users>>

-----------------------------------------------------------------------------
(* External: people at Supabase, and the administrator of users.           *)

Local == <<pc, call, wanted, token, view, write, answer, made, ending, cut>>

\* The link in the verification email.
Confirm(u) ==
  /\ Exists(u) /\ ~auth[u].confirmed
  /\ auth' = [auth EXCEPT ![u].confirmed = TRUE]
  /\ UNCHANGED <<sessions, users>> /\ UNCHANGED Local

ChangeEmail(u, e) ==
  /\ EmailsChange
  /\ Exists(u) /\ auth[u].confirmed /\ IdentitiesOf(e) = {}
  /\ auth' = [auth EXCEPT ![u].email = e]
  /\ UNCHANGED <<sessions, users>> /\ UNCHANGED Local

\* AdminService.set_user_active, which waits for the row like any UPDATE.
SetActive(x) ==
  /\ \A r \in Request : write[r] # Nil => write[r].sid # x.sid
  /\ users' = (users \ {x}) \cup {[x EXCEPT !.active = ~x.active]}
  /\ UNCHANGED <<auth, sessions>> /\ UNCHANGED Local

-----------------------------------------------------------------------------
FirstPc(op) ==
  CASE op = "sign_up"  -> "create_identity"
    [] op = "sign_in"  -> "check_password"
    [] op = "sign_out" -> "authorize"
    [] op = "resend"   -> "send_mail"

\* Bound: an id is never given twice and the model has only AuthId of them.
IdLeft ==
  Cardinality({r \in Request : pc[r] = "create_identity"})
    < Cardinality({u \in AuthId : auth[u] = Nil})

Begin(r) ==
  /\ pc[r] = "idle"
  /\ \E c \in Asked :
       /\ c.op = "sign_up" => IdLeft
       /\ call' = [call EXCEPT ![r] = c]
       /\ pc' = [pc EXCEPT ![r] = FirstPc(c.op)]
       /\ \/ c.op # "sign_out" /\ UNCHANGED token
          \/ /\ c.op = "sign_out"
             /\ \E t \in Token :
                  /\ sessions[t] # Nil /\ sessions[t].given
                  /\ token' = [token EXCEPT ![r] = t]
  /\ UNCHANGED <<auth, sessions, users, wanted, view, write, answer, made, ending,
                 cut>>

\* The session is closed.
Finish(r) ==
  /\ pc[r] = "done"
  /\ pc' = [pc EXCEPT ![r] = "idle"]
  /\ call' = [call EXCEPT ![r] = Nil]
  /\ wanted' = [wanted EXCEPT ![r] = Nil]
  /\ token' = [token EXCEPT ![r] = Nil]
  /\ view' = [view EXCEPT ![r] = Nil]
  /\ answer' = [answer EXCEPT ![r] = Nil]
  /\ made' = [made EXCEPT ![r] = FALSE]
  /\ ending' = [ending EXCEPT ![r] = {}]
  /\ UNCHANGED <<auth, sessions, users, write, cut>>

Step(r) ==
  \/ CreateIdentity(r) \/ CheckPassword(r) \/ FindUser(r) \/ InsertUser(r)
  \/ UpdateUser(r) \/ CheckActive(r) \/ Compensate(r) \/ Commit(r)
  \/ Authorize(r) \/ Revoke(r) \/ SendMail(r)

Next ==
  \/ \E r \in Request :
       \/ Begin(r) \/ Step(r) \/ Finish(r)
       \/ StatementFails(r) \/ CommitFails(r) \/ SupabaseRaises(r)
  \/ \E u \in AuthId : Confirm(u) \/ \E e \in Email : ChangeEmail(u, e)
  \/ \E x \in users : SetActive(x)
  \/ Crash

Spec == Init /\ [][Next]_vars

-----------------------------------------------------------------------------
(* Properties.                                                             *)

Committed(u) == RowOf(u) # {}

\* Some sign_up still has the row of the identity it created to write, or the
\* identity to delete.
InTheMaking(u) ==
  \E r \in Request : pc[r] \in Running /\ made[r] /\ wanted[r].sid = u

\* An identity without a row is one whose sign_up was cut short by Supabase, by
\* the death of the process or by a failed COMMIT: whatever else goes wrong, a
\* failed sync is compensated (accounts/service.py:107).
OrphansHaveACause ==
  \A u \in AuthId :
    Exists(u) /\ ~Committed(u) /\ ~InTheMaking(u) => cut[u] # Nil

\* When the local write of a sign_up fails, its identity is not left an orphan
\* in auth.users ("so we don't leave an orphan", accounts/service.py:47-49).
NoOrphans ==
  \A u \in AuthId :
    Exists(u) /\ ~Committed(u) /\ ~InTheMaking(u) => cut[u] \in {"supabase", "crash"}

\* The compensation deletes the identity this sign_up has created ("the
\* Supabase auth user we just created", accounts/service.py:95-96), never one
\* that another sign_up has registered.
CompensationDeletesOwn ==
  \A r \in Request : pc[r] = "compensate" => made[r]

\* However sign_ups and sign_ins race, an identity and an address have at most
\* one row of users (accounts/models.py:22-23).
OneRowPerIdentity ==
  \A x, y \in users : x.sid = y.sid \/ x.email = y.email => x = y

\* An account is deactivated, and activated again, by the administrator alone:
\* a sign_in or sign_up that read the row before he did and writes it after
\* undoes nothing, and waits for nothing but the row (accounts/repository.py:56).
DeactivationStands ==
  [][pc' # pc => \A x \in users, y \in users' :
       x.sid = y.sid => x.active = y.active]_vars

\* A token is given out only for an identity whose row is committed: who holds
\* one is never "not provisioned" (security/dependencies.py:74), although
\* sign_in answers before its own transaction commits.
GivenTokensAreProvisioned ==
  \A t \in Token : sessions[t] # Nil /\ sessions[t].given => Committed(sessions[t].user)

\* A sign_in hands its token out only while the committed row is active, whatever
\* the administrator has done since sync_from_supabase read it ("Account is
\* deactivated", accounts/service.py:200).
TokensGoToTheActive ==
  [][\A t \in Token :
       /\ sessions[t] # Nil /\ ~sessions[t].given
       /\ sessions'[t].given
       => \E x \in RowOf(sessions[t].user) : x.active]_vars

\* Every AuthApiError of a logout is answered 200, so a client learns whether it
\* is out from its session alone.  If that was live when the logout was let in and
\* is over now, so is every session the account had then: with other logouts,
\* sign_ins and lost answers under way, the devices go out together
\* (accounts/service.py:244).
DevicesGoOutTogether ==
  \A r \in Request :
    token[r] \in ending[r] /\ ~Live(token[r]) => \A t \in ending[r] : ~Live(t)

\* A sign_in that Supabase accepts for an identity without a row is answered
\* 401, "Account is not provisioned" (accounts/service.py:192-198).
UnprovisionedIsRefused ==
  \A r \in Request :
    /\ pc[r] = "done" /\ call[r].op = "sign_in"
    /\ wanted[r] # Nil /\ view[r] = Nil
    => answer[r] = 401

\* The identity a token was handed out for.
Holder(t) ==
  IF sessions[t] # Nil /\ sessions[t].given THEN sessions[t].user ELSE Nil

\* The rows and the tokens behave like a directory that serves one change at a
\* time: sign_up and sign_in read a row, decide, and write it later, with other
\* requests in between.
Dir == INSTANCE Directory WITH rows <- users, holder <- [t \in Token |-> Holder(t)]
ImplementsDirectory == Dir!Spec
=============================================================================
