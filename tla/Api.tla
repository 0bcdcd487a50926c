--------------------------------- MODULE Api ---------------------------------
(***************************************************************************)
(* The way of a request through the process, up to its handler and back:   *)
(* the rate limiter, the verification of its token, its user's row, and    *)
(* the two bounded resources all requests share, the connections of the    *)
(* database pool and the worker threads.  What handlers do to their tables *)
(* is the subject of Books and Accounts; here they matter for what they    *)
(* hold while they wait.                                                   *)
(*                                                                         *)
(* A session takes a connection with its first statement and gives it back *)
(* when its transaction ends.  Token verification and every call to        *)
(* Supabase run in a worker thread, so verifications really race each      *)
(* other: each read or write of the global JWKS client is a step.          *)
(***************************************************************************)
EXTENDS Limiter

CONSTANTS
  Request,      \* slots of concurrently served HTTP requests
  Kid,          \* keys that sign access tokens
  Connections,  \* pool_size + max_overflow
  Workers       \* threads of asyncio's default executor

\* The kinds of routes: those for lawyers; /auth/logout; and the others of
\* /auth, which differ only in what follows a failed local write.
Kind == {"books", "logout", "sign"}

\* The user's row of users: active with either role, or none that is active.
Account == {"lawyer", "user", "none"}

ASSUME ApiAssumption ==
  /\ Key \subseteq Kind  \* bound: the routes whose counters are followed
  /\ Connections \in Nat \ {0} /\ Workers \in Nat \ {0}
  /\ IsFiniteSet(Request) /\ Kid # {}

VARIABLES
  req,          \* Request -> where it is and what it knows
  account,      \* the committed row of the user whose token is presented
  connections,  \* connections the pool can still hand out
  workers,      \* idle worker threads
  client,       \* _jwks_client: 0 for None, n for the nth client ever made
  seen          \* the keys each client has cached, <<client, kid>>

vars == <<req, account, connections, workers, client, seen, hits, left, recent>>

\* Places where a request waits for a worker thread, and those it leads to.
ForWorker == {"authenticate", "ask", "revoke", "undo", "undo_bare"}
InWorker  == {"make_client", "find_key", "fetch",
              "asking", "revoking", "undoing", "undoing_bare"}

\* Places where a request waits for a connection, and where it has one.
ForConnection == {"load_user", "reload", "sync"}
OnConnection  == {"limit_held", "handle", "revoke", "revoking", "undo", "undoing",
                  "commit"}

Place == {"idle", "limit"} \cup ForWorker \cup InWorker \cup ForConnection
           \cup OnConnection

\* use: the JWKS client it works with.  warm and barred are histories: its key
\* was cached when its verification began; its user has not been allowed in at
\* any moment since it arrived.
Req == [at: Place, kind: Kind, kid: Kid, use: Nat, warm: BOOLEAN, barred: BOOLEAN]

Idle == [at |-> "idle", kind |-> "books", kid |-> CHOOSE k \in Kid : TRUE,
         use |-> 0, warm |-> FALSE, barred |-> FALSE]

TypeOK ==
  /\ req \in [Request -> Req]
  /\ account \in Account
  /\ connections \in 0 .. Connections
  /\ workers \in 0 .. Workers
  /\ client \in Nat
  /\ seen \subseteq (Nat \ {0}) \X Kid
  /\ LimiterTypeOK

Init ==
  /\ req = [r \in Request |-> Idle]
  /\ account \in Account
  /\ connections = Connections
  /\ workers = Workers
  /\ client = 0
  /\ seen = {}
  /\ LimiterInit

-----------------------------------------------------------------------------
\* get_current_user, and require_lawyer for the routes of books.
Allowed(kind, row) == row = "lawyer" \/ (row = "user" /\ kind # "books")

At(r, place) == req[r].at = place

Move(r, place) == req' = [req EXCEPT ![r].at = place]

End_LeavesOpen(r) ==
  /\ req' = [req EXCEPT ![r] = Idle]
  /\ UNCHANGED connections

End_ClosesTwice(r) ==
  /\ req' = [req EXCEPT ![r] = Idle]
  /\ connections' = connections + 1

\* The request is answered, and get_db closes the session in any case.
End(r) ==
  /\ req' = [req EXCEPT ![r] = Idle]
  /\ connections' = IF req[r].at \in OnConnection THEN connections + 1 ELSE connections

TakeConnection == connections > 0 /\ connections' = connections - 1

TakeWorker == workers > 0 /\ workers' = workers - 1

FreeWorker == workers' = workers + 1

-----------------------------------------------------------------------------
(* The rate limit: in the middleware for the routes of books; for those of *)
(* /auth in the decorator of the handler, after their dependencies.        *)

Begin(r) ==
  /\ At(r, "idle")
  /\ \E kind \in Kind, kid \in Kid :
       req' = [req EXCEPT ![r] =
         [at |-> IF kind = "logout" THEN "authenticate" ELSE "limit",
          kind |-> kind, kid |-> kid, use |-> 0, warm |-> FALSE,
          barred |-> kind \in {"books", "logout"} /\ ~Allowed(kind, account)]]
  /\ UNCHANGED <<account, connections, workers, client, seen, limits>>

AfterLimit(kind) ==
  CASE kind = "books"  -> "authenticate"
    [] kind = "logout" -> "revoke"
    [] OTHER           -> "ask"

CountCall(r) ==
  LET kind == req[r].kind IN
  /\ At(r, "limit") \/ At(r, "limit_held")
  /\ \/ kind \notin Key /\ Move(r, AfterLimit(kind)) /\ UNCHANGED <<limits, connections>>
     \/ kind \in Key /\ Admit(kind) /\ Move(r, AfterLimit(kind)) /\ UNCHANGED connections
     \/ kind \in Key /\ TurnAway(kind) /\ End(r)
  /\ UNCHANGED <<account, workers, client, seen>>

-----------------------------------------------------------------------------
(* verify_jwt_token, in a worker thread.                                   *)

Making(r) == At(r, "make_client")

Warm(kid) == client # 0 /\ <<client, kid>> \in seen /\ \A q \in Request : ~Making(q)

Authenticate_ForgetsClient(r) ==
  /\ At(r, "authenticate")
  /\ TakeWorker
  /\ req' = [req EXCEPT ![r].at = "make_client", ![r].warm = Warm(req[r].kid)]
  /\ UNCHANGED <<account, connections, client, seen, limits>>

\* A thread is free; _get_jwks_client looks whether there is a client.
Authenticate(r) ==
  /\ At(r, "authenticate")
  /\ TakeWorker
  /\ req' = [req EXCEPT ![r].at = IF client = 0 THEN "make_client" ELSE "find_key",
                        ![r].warm = Warm(req[r].kid)]
  /\ UNCHANGED <<account, connections, client, seen, limits>>

\* It makes one and assigns it, also when another thread has done so since.
MakeClient(r) ==
  /\ Making(r)
  /\ client' = client + 1
  /\ Move(r, "find_key")
  /\ UNCHANGED <<account, connections, workers, seen, limits>>

\* jwt.decode: signature, audience, expiry, sub.  401 is the answer if not.
Decode(r) ==
  /\ FreeWorker
  /\ \/ /\ req' = [req EXCEPT ![r].at = "load_user", ![r].use = 0, ![r].warm = FALSE]
        /\ UNCHANGED connections
     \/ End(r)

FindKey_NoCache(r) ==
  /\ At(r, "find_key")
  /\ req' = [req EXCEPT ![r].at = "fetch", ![r].use = client]
  /\ UNCHANGED <<account, connections, workers, client, seen, limits>>

\* It returns the client there is by now, which may hold the key.
FindKey(r) ==
  /\ At(r, "find_key")
  /\ \/ <<client, req[r].kid>> \in seen /\ Decode(r)
     \/ /\ <<client, req[r].kid>> \notin seen
        /\ req' = [req EXCEPT ![r].at = "fetch", ![r].use = client]
        /\ UNCHANGED <<connections, workers>>
  /\ UNCHANGED <<account, client, seen, limits>>

\* The key set is read.  A key it does not list is a 401, an endpoint that
\* cannot be reached a 503.
Fetch(r) ==
  /\ At(r, "fetch")
  /\ \/ Decode(r) /\ seen' = seen \cup {<<req[r].use, req[r].kid>>}
     \/ FreeWorker /\ End(r) /\ UNCHANGED seen
  /\ UNCHANGED <<account, client, limits>>

-----------------------------------------------------------------------------
(* The session's first statement takes a connection.                       *)

LoadUser_AnyRole(r) ==
  /\ At(r, "load_user") /\ connections > 0
  /\ \/ /\ account # "none"
        /\ TakeConnection
        /\ Move(r, IF req[r].kind = "books" THEN "handle" ELSE "limit_held")
     \/ End(r)
  /\ UNCHANGED <<account, workers, client, seen, limits>>

\* get_current_user reads the row.  No row is a 401, an inactive account or a
\* missing role a 403, a failing SELECT a 500.
LoadUser(r) ==
  /\ At(r, "load_user") /\ connections > 0
  /\ \/ /\ Allowed(req[r].kind, account)
        /\ TakeConnection
        /\ Move(r, IF req[r].kind = "books" THEN "handle" ELSE "limit_held")
     \/ End(r)
  /\ UNCHANGED <<account, workers, client, seen, limits>>

\* A handler of books has answered, or close_book has committed and goes on.
Handle(r) ==
  /\ At(r, "handle")
  /\ \/ End(r)
     \/ Move(r, "reload") /\ connections' = connections + 1
  /\ UNCHANGED <<account, workers, client, seen, limits>>

\* close_book's refresh needs a connection again.
Reload(r) ==
  /\ At(r, "reload") /\ connections > 0
  /\ End(r)
  /\ UNCHANGED <<account, workers, client, seen, limits>>

\* sync_from_supabase and what follows, up to the answer.  On a failure sign_up
\* compensates, with the connection still in its session, sign_in is refused.
Sync(r) ==
  /\ At(r, "sync")
  /\ \/ TakeConnection /\ Move(r, "commit")
     \/ TakeConnection /\ Move(r, "undo")
     \/ connections > 0 /\ End(r)
  /\ UNCHANGED <<account, workers, client, seen, limits>>

\* The answer is out; get_db commits and closes.
Commit(r) ==
  /\ At(r, "commit")
  /\ End(r)
  /\ UNCHANGED <<account, workers, client, seen, limits>>

\* No connection for pool_timeout seconds: a TimeoutError, which sign_up
\* compensates like any other failure.
PoolTimeout(r) ==
  /\ req[r].at \in ForConnection /\ connections = 0
  /\ \/ At(r, "sync") /\ Move(r, "undo_bare") /\ UNCHANGED connections
     \/ End(r)
  /\ UNCHANGED <<account, workers, client, seen, limits>>

-----------------------------------------------------------------------------
(* Calls to Supabase, in a worker thread.                                  *)

Called(place) ==
  CASE place = "ask"    -> "asking"
    [] place = "revoke" -> "revoking"
    [] place = "undo"   -> "undoing"
    [] OTHER            -> "undoing_bare"

CallSupabase(r) ==
  /\ req[r].at \in ForWorker \ {"authenticate"}
  /\ TakeWorker
  /\ Move(r, Called(req[r].at))
  /\ UNCHANGED <<account, connections, client, seen, limits>>

\* The call returns or raises.  A sign_in or sign_up that is accepted goes on
\* to the database; a logout has its answer; a compensation re-raises.
SupabaseReturns(r) ==
  /\ FreeWorker
  /\ \/ At(r, "asking") /\ Move(r, "sync") /\ UNCHANGED connections
     \/ At(r, "revoking") /\ Move(r, "commit") /\ UNCHANGED connections
     \/ req[r].at \in {"asking", "revoking", "undoing", "undoing_bare"} /\ End(r)
  /\ UNCHANGED <<account, client, seen, limits>>

-----------------------------------------------------------------------------
\* External: AdminService.set_user_active, a change of role, a new row.
SetAccount(row) ==
  /\ account' = row
  /\ req' = [r \in Request |->
       [req[r] EXCEPT !.barred = @ /\ ~Allowed(req[r].kind, row)]]
  /\ UNCHANGED <<connections, workers, client, seen, limits>>

TimePasses == Tick /\ UNCHANGED <<req, account, connections, workers, client, seen>>

\* The process dies and starts anew: what it held in memory is gone.
Restart ==
  /\ req' = [r \in Request |-> Idle]
  /\ connections' = Connections
  /\ workers' = Workers
  /\ client' = 0
  /\ seen' = {}
  /\ ResetLimits
  /\ UNCHANGED account

Step(r) ==
  \/ CountCall(r) \/ Authenticate(r) \/ MakeClient(r) \/ FindKey(r) \/ Fetch(r)
  \/ LoadUser(r) \/ Handle(r) \/ Reload(r) \/ Sync(r) \/ Commit(r)
  \/ PoolTimeout(r) \/ CallSupabase(r) \/ SupabaseReturns(r)

Next ==
  \/ \E r \in Request : Begin(r) \/ Step(r)
  \/ \E row \in Account : SetAccount(row)
  \/ TimePasses
  \/ Restart

Spec == Init /\ [][Next]_vars

-----------------------------------------------------------------------------
(* Properties.                                                             *)

Having(places) == {r \in Request : req[r].at \in places}

\* The pool is a semaphore whose holders are the requests at a place between
\* their first statement and the end of their transaction: whatever refuses a
\* request, nothing leaks and nothing is given back twice (sessions.py:55-56).
Pool == INSTANCE Semaphore WITH User <- Request, Capacity <- Connections,
          holders <- Having(OnConnection), free <- connections
PoolIsSemaphore == Pool!Spec

Waits(r) ==
  \/ req[r].at \in ForWorker /\ workers = 0
  \/ req[r].at \in ForConnection /\ connections = 0

\* Requests that hold a connection wait for threads, but nobody in a thread
\* waits for a connection: some request can always go on, without any timeout
\* (security/dependencies.py:73, accounts/service.py:244).
SomeoneGoesOn ==
  (\E r \in Request : ~At(r, "idle")) => \E r \in Request : ~At(r, "idle") /\ ~Waits(r)

\* Threads that race to make the JWKS client make at most one each, once in
\* the life of the process (jwt_handler.py:33).
ClientsAreFew == client <= Workers

\* A verification that began when its key was cached, and no thread was making
\* a client, does without the network: an outage of the JWKS endpoint spares
\* it, whatever the others do meanwhile (jwt_handler.py:26).
WarmKeysNeedNoNetwork == \A r \in Request : req[r].warm => ~At(r, "fetch")

\* The places only a caller who was let in gets to.
Admitted == {"limit_held", "handle", "reload", "revoke", "revoking"}

\* A deactivation, or the loss of the lawyer role, holds for every request that
\* arrives after it and for those already on their way to the check; it does
\* not touch those already let in (security/dependencies.py:83-89).
BarredStayOut == \A r \in Request : req[r].barred => req[r].at \notin Admitted
=============================================================================
