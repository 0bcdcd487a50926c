------------------------------ MODULE ApiProofs ------------------------------
(***************************************************************************)
(* What Api promises for every number of requests, connections, threads    *)
(* and signing keys, whatever the limits are.                              *)
(*                                                                         *)
(* The argument: a step of a request changes its record and nothing of the *)
(* others', and it moves a counter exactly when it enters or leaves the    *)
(* places that hold the resource (Changes).  So the counters always tell   *)
(* how many hold one (Counts), which is the refinement to two semaphores   *)
(* and makes it impossible that all wait.                                  *)
(***************************************************************************)
EXTENDS Api, LimiterProofs

-----------------------------------------------------------------------------
(* The inductive invariant.                                                *)

\* The places of a verification.
Verifying == {"authenticate", "make_client", "find_key", "fetch", "load_user"}

\* What a request's record says fits together, and fits the rest of the state.
Fits(q, jwks, row) ==
  /\ q.at = "limit" => q.kind # "logout"
  /\ q.at \in Verifying => q.kind # "sign"
  /\ q.at = "limit_held" => q.kind = "logout"
  /\ q.at = "find_key" => jwks # 0
  /\ q.at = "fetch" => q.use # 0
  /\ q.warm => q.at = "find_key"
  /\ q.barred => q.at \notin Admitted /\ ~Allowed(q.kind, row)

Counts ==
  /\ connections = Connections - Cardinality(Having(OnConnection))
  /\ workers = Workers - Cardinality(Having(InWorker))
  /\ connections >= 0 /\ workers >= 0

\* A client more for each thread that is about to make one.
Clients == client # 0 => client + Cardinality(Having({"make_client"})) <= Workers

ApiInv ==
  /\ req \in [Request -> Req]
  /\ account \in Account
  /\ client \in Nat
  /\ seen \subseteq (Nat \ {0}) \X Kid
  /\ \A r \in Request : Fits(req[r], client, account) /\ (req[r].warm => Warm(req[r].kid))
  /\ Counts
  /\ Clients
  /\ LimiterInv

-----------------------------------------------------------------------------
(* What a step of a request does.                                          *)

\* The counter after a holder's place has changed.
Shifted(n, had, has) == IF had = has THEN n ELSE IF has THEN n - 1 ELSE n + 1

Changes(r, v) ==
  /\ req' = [req EXCEPT ![r] = v]
  /\ Fits(v, client', account')
  /\ v.warm => Warm(v.kid) /\ ~Making(r)
  /\ v.at = "make_client" => client = 0 /\ ~Making(r)
  /\ connections' = Shifted(connections, req[r].at \in OnConnection, v.at \in OnConnection)
  /\ req[r].at \notin OnConnection /\ v.at \in OnConnection => connections > 0
  /\ workers' = Shifted(workers, req[r].at \in InWorker, v.at \in InWorker)
  /\ req[r].at \notin InWorker /\ v.at \in InWorker => workers > 0
  /\ client' = IF Making(r) THEN client + 1 ELSE client
  /\ seen \subseteq seen' /\ seen' \subseteq (Nat \ {0}) \X Kid
  /\ account' = account
  /\ [LimiterNext]_limits

LEMMA IdleIsReq == Idle \in Req /\ Idle.at = "idle" /\ ~Idle.warm /\ ~Idle.barred
BY ApiAssumption DEF Idle, Req, Place, Kind

\* A place a request moves to becomes its place, and nothing else changes.
LEMMA Moved ==
  ASSUME req \in [Request -> Req], NEW r \in Request, NEW p \in Place
  PROVE  LET v == [req[r] EXCEPT !.at = p] IN
         /\ v \in Req
         /\ Move(r, p) => req' = [req EXCEPT ![r] = v]
         /\ v.at = p /\ v.kind = req[r].kind /\ v.kid = req[r].kid
         /\ v.use = req[r].use /\ v.warm = req[r].warm /\ v.barred = req[r].barred
<1>1. req[r] \in Req OBVIOUS
<1>. QED BY <1>1 DEF Req, Move

\* The end of a request gives back what it holds (sessions.py:55).
LEMMA Ended ==
  ASSUME ApiInv, NEW r \in Request, End(r), ~Making(r),
         workers' = Shifted(workers, req[r].at \in InWorker, FALSE),
         client' = client, account' = account,
         seen \subseteq seen', seen' \subseteq (Nat \ {0}) \X Kid, [LimiterNext]_limits
  PROVE  \E v \in Req : Changes(r, v)
<1>1. req' = [req EXCEPT ![r] = Idle]
      /\ connections' = Shifted(connections, req[r].at \in OnConnection, FALSE)
  BY DEF End, Shifted
<1>2. Idle.at \notin OnConnection \cup InWorker \cup Verifying
      /\ Idle.at \notin {"limit", "limit_held"}
  BY IdleIsReq DEF OnConnection, InWorker, Verifying
<1>3. Fits(Idle, client', account') BY <1>2, IdleIsReq DEF Fits, Verifying
<1>4. /\ connections' = Shifted(connections, req[r].at \in OnConnection, Idle.at \in OnConnection)
      /\ workers' = Shifted(workers, req[r].at \in InWorker, Idle.at \in InWorker)
  BY <1>1, <1>2 DEF Shifted
<1>5. Changes(r, Idle)
  BY <1>1, <1>2, <1>3, <1>4, IdleIsReq DEF Changes, Verifying
<1>. QED BY <1>5, IdleIsReq

\* A request that only moves on, with its counters in step.
LEMMA MovedOn ==
  ASSUME ApiInv, NEW r \in Request, NEW p \in Place, Move(r, p), ~req[r].warm,
         p \notin {"limit", "make_client", "fetch"},
         p \in Verifying => req[r].kind # "sign",
         p = "limit_held" => req[r].kind = "logout",
         p = "find_key" => client' # 0,
         p \in Admitted => ~req[r].barred,
         connections' = Shifted(connections, req[r].at \in OnConnection, p \in OnConnection),
         req[r].at \notin OnConnection /\ p \in OnConnection => connections > 0,
         workers' = Shifted(workers, req[r].at \in InWorker, p \in InWorker),
         req[r].at \notin InWorker /\ p \in InWorker => workers > 0,
         client' = IF Making(r) THEN client + 1 ELSE client,
         account' = account, seen' = seen, [LimiterNext]_limits
  PROVE  \E v \in Req : Changes(r, v)
<1>. DEFINE v == [req[r] EXCEPT !.at = p]
<1>1. /\ v \in Req /\ req' = [req EXCEPT ![r] = v]
      /\ v.at = p /\ v.kind = req[r].kind /\ v.use = req[r].use
      /\ v.warm = req[r].warm /\ v.barred = req[r].barred
  BY Moved DEF ApiInv
<1>2. Fits(req[r], client, account) BY DEF ApiInv
<1>. HIDE DEF v
<1>3. Fits(v, client', account') BY <1>1, <1>2 DEF Fits
<1>4. seen \subseteq seen' /\ seen' \subseteq (Nat \ {0}) \X Kid BY DEF ApiInv
<1>5. ~v.warm BY <1>1
<1>6. Changes(r, v) BY <1>1, <1>3, <1>4, <1>5 DEF Changes
<1>. QED BY <1>1, <1>6

-----------------------------------------------------------------------------
(* One lemma per group of actions.                                         *)

LEMMA BeginChanges ==
  ASSUME ApiInv, NEW r \in Request, Begin(r)
  PROVE  \E v \in Req : Changes(r, v)
<1>1. PICK kind \in Kind, kid \in Kid :
        req' = [req EXCEPT ![r] =
          [at |-> IF kind = "logout" THEN "authenticate" ELSE "limit",
           kind |-> kind, kid |-> kid, use |-> 0, warm |-> FALSE,
           barred |-> kind \in {"books", "logout"} /\ ~Allowed(kind, account)]]
  BY DEF Begin
<1>. DEFINE v == [at |-> IF kind = "logout" THEN "authenticate" ELSE "limit",
                  kind |-> kind, kid |-> kid, use |-> 0, warm |-> FALSE,
                  barred |-> kind \in {"books", "logout"} /\ ~Allowed(kind, account)]
<1>2. v \in Req BY DEF Req, Place, ForWorker
<1>3. /\ v.at = IF kind = "logout" THEN "authenticate" ELSE "limit"
      /\ v.kind = kind /\ ~v.warm
      /\ v.barred => ~Allowed(kind, account)
  BY DEF v
<1>. HIDE DEF v
<1>4. /\ At(r, "idle")
      /\ UNCHANGED <<account, connections, workers, client, seen, limits>>
  BY DEF Begin
<1>5. v.at \notin OnConnection /\ v.at \notin InWorker /\ v.at \notin Admitted
  BY <1>3 DEF OnConnection, InWorker, Admitted
<1>6. req[r].at \notin OnConnection /\ req[r].at \notin InWorker /\ ~Making(r)
  BY <1>4 DEF At, OnConnection, InWorker, Making
<1>7. Fits(v, client', account') BY <1>3, <1>4, <1>5 DEF Fits, Verifying
<1>8. /\ connections' = Shifted(connections, req[r].at \in OnConnection, v.at \in OnConnection)
      /\ workers' = Shifted(workers, req[r].at \in InWorker, v.at \in InWorker)
  BY <1>4, <1>5, <1>6 DEF Shifted
<1>9. req' = [req EXCEPT ![r] = v] BY <1>1 DEF v
<1>10. seen \subseteq seen' /\ seen' \subseteq (Nat \ {0}) \X Kid BY <1>4 DEF ApiInv
<1>11. Changes(r, v)
  BY <1>3, <1>4, <1>5, <1>6, <1>7, <1>8, <1>9, <1>10 DEF Changes
<1>. QED BY <1>2, <1>11

LEMMA CountCallChanges ==
  ASSUME ApiInv, NEW r \in Request, CountCall(r)
  PROVE  \E v \in Req : Changes(r, v)
<1>. DEFINE kind == req[r].kind
<1>1. /\ req[r].at = "limit" \/ req[r].at = "limit_held"
      /\ UNCHANGED <<account, workers, client, seen>>
  BY DEF CountCall, At
<1>2. req[r] \in Req /\ kind \in Kind BY DEF ApiInv, Req
<1>3. Fits(req[r], client, account) BY DEF ApiInv
<1>4. ~req[r].warm /\ ~Making(r) /\ req[r].at \notin InWorker
  BY <1>1, <1>3 DEF Fits, Making, At, InWorker
<1>5. CASE TurnAway(kind) /\ kind \in Key /\ End(r)
  <2>1. [LimiterNext]_limits BY <1>5 DEF LimiterNext
  <2>2. workers' = Shifted(workers, req[r].at \in InWorker, FALSE)
    BY <1>1, <1>4 DEF Shifted
  <2>. QED BY <1>1, <1>4, <1>5, <2>1, <2>2, Ended DEF ApiInv
<1>6. CASE /\ Move(r, AfterLimit(kind)) /\ UNCHANGED connections
           /\ UNCHANGED limits \/ (kind \in Key /\ Admit(kind))
  <2>. DEFINE p == AfterLimit(kind)
  <2>1. [LimiterNext]_limits BY <1>6 DEF LimiterNext
  <2>2. \/ kind = "books" /\ p = "authenticate" /\ req[r].at = "limit"
        \/ kind = "logout" /\ p = "revoke" /\ req[r].at = "limit_held"
        \/ kind = "sign" /\ p = "ask" /\ req[r].at = "limit"
    BY <1>1, <1>2, <1>3 DEF Kind, AfterLimit, Fits
  <2>3. p \in Place /\ p \notin InWorker /\ (p \in OnConnection <=> req[r].at \in OnConnection)
    BY <2>2 DEF Place, ForWorker, InWorker, OnConnection
  <2>4. p \in Admitted => ~req[r].barred
    BY <1>3, <2>2 DEF Admitted, Fits
  <2>5. /\ p \notin {"limit", "make_client", "fetch", "limit_held", "find_key"}
        /\ p \in Verifying => kind # "sign"
    BY <2>2 DEF Verifying
  <2>6. /\ connections' = Shifted(connections, req[r].at \in OnConnection, p \in OnConnection)
        /\ workers' = Shifted(workers, req[r].at \in InWorker, p \in InWorker)
    BY <1>1, <1>4, <1>6, <2>3 DEF Shifted
  <2>. HIDE DEF p
  <2>7. Move(r, p) BY <1>6 DEF p
  <2>. QED
    BY <1>1, <1>4, <2>1, <2>3, <2>4, <2>5, <2>6, <2>7, MovedOn
<1>. QED BY <1>5, <1>6 DEF CountCall

LEMMA AuthenticateChanges ==
  ASSUME ApiInv, NEW r \in Request, Authenticate(r)
  PROVE  \E v \in Req : Changes(r, v)
<1>. DEFINE p == IF client = 0 THEN "make_client" ELSE "find_key"
            v == [req[r] EXCEPT !.at = p, !.warm = Warm(req[r].kid)]
<1>1. /\ req[r].at = "authenticate" /\ workers > 0 /\ workers' = workers - 1
      /\ req' = [req EXCEPT ![r].at = p, ![r].warm = Warm(req[r].kid)]
      /\ UNCHANGED <<account, connections, client, seen, limits>>
  BY DEF Authenticate, At, TakeWorker
<1>2. req[r] \in Req /\ Fits(req[r], client, account) BY DEF ApiInv
<1>3. Warm(req[r].kid) \in BOOLEAN /\ (Warm(req[r].kid) => client # 0) BY DEF Warm
<1>4. /\ v \in Req /\ req' = [req EXCEPT ![r] = v]
      /\ v.at = p /\ v.kind = req[r].kind /\ v.kid = req[r].kid
      /\ v.warm = Warm(req[r].kid) /\ v.barred = req[r].barred
  BY <1>1, <1>2, <1>3 DEF Req, Place, InWorker, ApiInv
<1>5. p \in {"make_client", "find_key"} /\ (p = "make_client" <=> client = 0) OBVIOUS
<1>. HIDE DEF v, p
<1>6. Fits(v, client', account')
  BY <1>1, <1>2, <1>3, <1>4, <1>5 DEF Fits, Verifying, Admitted
<1>7. p \in InWorker /\ p \notin OnConnection
  BY <1>5 DEF InWorker, OnConnection
<1>8. req[r].at \notin InWorker /\ req[r].at \notin OnConnection /\ ~Making(r)
  BY <1>1 DEF InWorker, OnConnection, Making, At
<1>9. /\ connections' = Shifted(connections, req[r].at \in OnConnection, v.at \in OnConnection)
      /\ workers' = Shifted(workers, req[r].at \in InWorker, v.at \in InWorker)
  BY <1>1, <1>4, <1>7, <1>8 DEF Shifted
<1>10. seen \subseteq seen' /\ seen' \subseteq (Nat \ {0}) \X Kid BY <1>1 DEF ApiInv
<1>11. Changes(r, v)
  BY <1>1, <1>4, <1>5, <1>6, <1>7, <1>8, <1>9, <1>10 DEF Changes
<1>. QED BY <1>4, <1>11

LEMMA MakeClientChanges ==
  ASSUME ApiInv, NEW r \in Request, MakeClient(r)
  PROVE  \E v \in Req : Changes(r, v)
<1>1. /\ req[r].at = "make_client" /\ client' = client + 1 /\ Move(r, "find_key")
      /\ UNCHANGED <<account, connections, workers, seen, limits>>
  BY DEF MakeClient, Making, At
<1>2. Fits(req[r], client, account) /\ client \in Nat BY DEF ApiInv
<1>3. ~req[r].warm /\ req[r].kind # "sign" BY <1>1, <1>2 DEF Fits, Verifying
<1>4. /\ "find_key" \in Place /\ "find_key" \notin Admitted
      /\ "find_key" \in InWorker /\ "find_key" \notin OnConnection
      /\ "make_client" \in InWorker /\ "make_client" \notin OnConnection
  BY DEF Place, InWorker, OnConnection, Admitted
<1>5. /\ connections' = Shifted(connections, req[r].at \in OnConnection, "find_key" \in OnConnection)
      /\ workers' = Shifted(workers, req[r].at \in InWorker, "find_key" \in InWorker)
  BY <1>1, <1>4 DEF Shifted
<1>. QED BY <1>1, <1>2, <1>3, <1>4, <1>5, MovedOn DEF Making, At

\* A verification that succeeds gives its thread back (jwt_handler.py:69).
LEMMA DecodeChanges ==
  ASSUME ApiInv, NEW r \in Request, Decode(r), req[r].at \in {"find_key", "fetch"},
         client' = client, account' = account, seen \subseteq seen',
         seen' \subseteq (Nat \ {0}) \X Kid, [LimiterNext]_limits
  PROVE  \E v \in Req : Changes(r, v)
<1>. DEFINE v == [req[r] EXCEPT !.at = "load_user", !.use = 0, !.warm = FALSE]
<1>1. req[r] \in Req /\ Fits(req[r], client, account) BY DEF ApiInv
<1>2. /\ workers' = workers + 1 /\ ~Making(r)
      /\ req[r].at \in InWorker /\ req[r].at \notin OnConnection
  BY DEF Decode, FreeWorker, Making, At, InWorker, OnConnection
<1>3. CASE End(r)
  <2>1. workers' = Shifted(workers, req[r].at \in InWorker, FALSE)
    BY <1>2 DEF Shifted
  <2>. QED BY <1>2, <1>3, <2>1, Ended
<1>4. CASE /\ req' = [req EXCEPT ![r].at = "load_user", ![r].use = 0, ![r].warm = FALSE]
           /\ UNCHANGED connections
  <2>1. /\ v \in Req /\ req' = [req EXCEPT ![r] = v]
        /\ v.at = "load_user" /\ v.kind = req[r].kind /\ ~v.warm
        /\ v.barred = req[r].barred
    BY <1>1, <1>4 DEF Req, Place, ForConnection, ApiInv
  <2>. HIDE DEF v
  <2>2. Fits(v, client', account') BY <1>1, <2>1 DEF Fits, Verifying, Admitted
  <2>3. v.at \notin InWorker /\ v.at \notin OnConnection
    BY <2>1 DEF InWorker, OnConnection
  <2>4. /\ connections' = Shifted(connections, req[r].at \in OnConnection, v.at \in OnConnection)
        /\ workers' = Shifted(workers, req[r].at \in InWorker, v.at \in InWorker)
    BY <1>2, <1>4, <2>3 DEF Shifted
  <2>5. Changes(r, v) BY <1>2, <2>1, <2>2, <2>3, <2>4 DEF Changes
  <2>. QED BY <2>1, <2>5
<1>. QED BY <1>3, <1>4 DEF Decode

LEMMA FindKeyChanges ==
  ASSUME ApiInv, NEW r \in Request, FindKey(r)
  PROVE  \E v \in Req : Changes(r, v)
<1>1. req[r].at = "find_key" /\ UNCHANGED <<account, client, seen, limits>>
  BY DEF FindKey, At
<1>2. req[r] \in Req /\ Fits(req[r], client, account) /\ client \in Nat BY DEF ApiInv
<1>3. seen \subseteq seen' /\ seen' \subseteq (Nat \ {0}) \X Kid BY <1>1 DEF ApiInv
<1>4. CASE Decode(r) BY <1>1, <1>3, <1>4, DecodeChanges
<1>5. CASE /\ <<client, req[r].kid>> \notin seen
           /\ req' = [req EXCEPT ![r].at = "fetch", ![r].use = client]
           /\ UNCHANGED <<connections, workers>>
  <2>. DEFINE v == [req[r] EXCEPT !.at = "fetch", !.use = client]
  <2>1. ~req[r].warm BY <1>5 DEF ApiInv, Warm
  <2>2. /\ v \in Req /\ req' = [req EXCEPT ![r] = v]
        /\ v.at = "fetch" /\ v.use = client /\ v.kind = req[r].kind
        /\ v.warm = req[r].warm /\ v.barred = req[r].barred
    BY <1>2, <1>5 DEF Req, Place, InWorker, ApiInv
  <2>. HIDE DEF v
  <2>3. client # 0 BY <1>1, <1>2 DEF Fits
  <2>4. Fits(v, client', account')
    BY <1>1, <1>2, <2>1, <2>2, <2>3 DEF Fits, Verifying, Admitted
  <2>5. /\ v.at \in InWorker /\ req[r].at \in InWorker
        /\ v.at \notin OnConnection /\ req[r].at \notin OnConnection /\ ~Making(r)
    BY <1>1, <2>2 DEF InWorker, OnConnection, Making, At
  <2>6. /\ connections' = Shifted(connections, req[r].at \in OnConnection, v.at \in OnConnection)
        /\ workers' = Shifted(workers, req[r].at \in InWorker, v.at \in InWorker)
    BY <1>5, <2>5 DEF Shifted
  <2>7. Changes(r, v) BY <1>1, <1>3, <2>1, <2>2, <2>4, <2>5, <2>6 DEF Changes
  <2>. QED BY <2>2, <2>7
<1>. QED BY <1>4, <1>5 DEF FindKey

LEMMA FetchChanges ==
  ASSUME ApiInv, NEW r \in Request, Fetch(r)
  PROVE  \E v \in Req : Changes(r, v)
<1>1. req[r].at = "fetch" /\ UNCHANGED <<account, client, limits>>
  BY DEF Fetch, At
<1>2. req[r] \in Req /\ Fits(req[r], client, account) BY DEF ApiInv
<1>3. <<req[r].use, req[r].kid>> \in (Nat \ {0}) \X Kid
  BY <1>1, <1>2 DEF Req, Fits
<1>4. CASE Decode(r) /\ seen' = seen \cup {<<req[r].use, req[r].kid>>}
  <2>1. seen \subseteq seen' /\ seen' \subseteq (Nat \ {0}) \X Kid
    BY <1>3, <1>4 DEF ApiInv
  <2>. QED BY <1>1, <1>4, <2>1, DecodeChanges
<1>5. CASE FreeWorker /\ End(r) /\ UNCHANGED seen
  <2>1. req[r].at \in InWorker /\ ~Making(r) BY <1>1 DEF InWorker, Making, At
  <2>2. workers' = Shifted(workers, req[r].at \in InWorker, FALSE)
    BY <1>5, <2>1 DEF Shifted, FreeWorker
  <2>. QED BY <1>1, <1>5, <2>1, <2>2, Ended DEF ApiInv
<1>. QED BY <1>4, <1>5 DEF Fetch

\* A request outside the threads that ends.
LEMMA Left ==
  ASSUME ApiInv, NEW r \in Request, End(r), req[r].at \notin InWorker,
         UNCHANGED <<account, workers, client, seen, limits>>
  PROVE  \E v \in Req : Changes(r, v)
<1>1. ~Making(r) BY DEF Making, At, InWorker
<1>2. workers' = Shifted(workers, req[r].at \in InWorker, FALSE) BY DEF Shifted
<1>. QED BY <1>1, <1>2, Ended DEF ApiInv

LEMMA LoadUserChanges ==
  ASSUME ApiInv, NEW r \in Request, LoadUser(r)
  PROVE  \E v \in Req : Changes(r, v)
<1>1. /\ req[r].at = "load_user" /\ connections > 0
      /\ UNCHANGED <<account, workers, client, seen, limits>>
  BY DEF LoadUser, At
<1>2. Fits(req[r], client, account) /\ req[r] \in Req BY DEF ApiInv
<1>3. req[r].at \notin InWorker /\ req[r].at \notin OnConnection
  BY <1>1 DEF InWorker, OnConnection
<1>4. CASE End(r) BY <1>1, <1>3, <1>4, Left
<1>5. CASE /\ Allowed(req[r].kind, account) /\ TakeConnection
           /\ Move(r, IF req[r].kind = "books" THEN "handle" ELSE "limit_held")
  <2>. DEFINE p == IF req[r].kind = "books" THEN "handle" ELSE "limit_held"
  <2>1. /\ ~req[r].warm /\ ~req[r].barred
        /\ req[r].kind = "books" \/ req[r].kind = "logout"
    BY <1>1, <1>2, <1>5 DEF Fits, Verifying, Req, Kind
  <2>2. /\ p \in Place /\ p \in OnConnection /\ p \notin InWorker
        /\ p \in {"handle", "limit_held"}
        /\ p = "limit_held" => req[r].kind = "logout"
    BY <2>1 DEF Place, OnConnection, InWorker
  <2>3. Move(r, p) /\ connections' = connections - 1 BY <1>5 DEF TakeConnection
  <2>. HIDE DEF p
  <2>4. /\ connections' = Shifted(connections, req[r].at \in OnConnection, p \in OnConnection)
        /\ workers' = Shifted(workers, req[r].at \in InWorker, p \in InWorker)
    BY <1>1, <1>3, <2>2, <2>3 DEF Shifted
  <2>5. p \notin {"limit", "make_client", "fetch", "find_key"} /\ p \notin Verifying
    BY <2>2 DEF Verifying
  <2>6. ~Making(r) BY <1>1 DEF Making, At
  <2>. QED BY <1>1, <1>3, <2>1, <2>2, <2>3, <2>4, <2>5, <2>6, MovedOn
<1>. QED BY <1>4, <1>5 DEF LoadUser

\* A step of a request that has done with the threads' verification to a place
\* that only its counters and its admission constrain.
LEMMA WentOn ==
  ASSUME ApiInv, NEW r \in Request, NEW p \in Place, Move(r, p),
         req[r].at \notin {"find_key", "make_client"},
         p \notin Verifying, p \notin {"limit", "limit_held"},
         p \in Admitted => req[r].at \in Admitted,
         connections' = Shifted(connections, req[r].at \in OnConnection, p \in OnConnection),
         req[r].at \notin OnConnection /\ p \in OnConnection => connections > 0,
         workers' = Shifted(workers, req[r].at \in InWorker, p \in InWorker),
         req[r].at \notin InWorker /\ p \in InWorker => workers > 0,
         UNCHANGED <<account, client, seen, limits>>
  PROVE  \E v \in Req : Changes(r, v)
<1>1. Fits(req[r], client, account) BY DEF ApiInv
<1>3. ~req[r].warm /\ ~Making(r) BY <1>1 DEF Fits, Making, At
<1>4. p \in Admitted => ~req[r].barred BY <1>1 DEF Fits
<1>5. p \notin {"limit", "make_client", "fetch", "find_key", "limit_held"}
  BY DEF Verifying
<1>6. client' = IF Making(r) THEN client + 1 ELSE client BY <1>3
<1>. QED BY <1>3, <1>4, <1>5, <1>6, MovedOn

LEMMA HandlerChanges ==
  ASSUME ApiInv, NEW r \in Request, Handle(r) \/ Reload(r) \/ Commit(r)
  PROVE  \E v \in Req : Changes(r, v)
<1>1. UNCHANGED <<account, workers, client, seen, limits>>
  BY DEF Handle, Reload, Commit
<1>2. req[r].at \in {"handle", "reload", "commit"} BY DEF Handle, Reload, Commit, At
<1>3. req[r].at \notin InWorker BY <1>2 DEF InWorker
<1>4. CASE End(r) BY <1>1, <1>3, <1>4, Left
<1>5. CASE At(r, "handle") /\ Move(r, "reload") /\ connections' = connections + 1
  <2>1. /\ "reload" \in Place /\ "reload" \notin OnConnection /\ "reload" \notin InWorker
        /\ "reload" \notin Verifying /\ "reload" \notin {"limit", "limit_held"}
        /\ req[r].at \in OnConnection /\ req[r].at \in Admitted
        /\ req[r].at \notin {"find_key", "make_client"}
    BY <1>5 DEF Place, ForConnection, OnConnection, InWorker, Verifying, Admitted, At
  <2>2. /\ connections' = Shifted(connections, req[r].at \in OnConnection, "reload" \in OnConnection)
        /\ workers' = Shifted(workers, req[r].at \in InWorker, "reload" \in InWorker)
    BY <1>1, <1>3, <1>5, <2>1 DEF Shifted
  <2>. QED BY <1>1, <1>5, <2>1, <2>2, WentOn
<1>. QED BY <1>4, <1>5 DEF Handle, Reload, Commit

LEMMA SyncChanges ==
  ASSUME ApiInv, NEW r \in Request, Sync(r)
  PROVE  \E v \in Req : Changes(r, v)
<1>1. req[r].at = "sync" /\ UNCHANGED <<account, workers, client, seen, limits>>
  BY DEF Sync, At
<1>2. req[r].at \notin InWorker /\ req[r].at \notin OnConnection
  BY <1>1 DEF InWorker, OnConnection
<1>3. CASE End(r) BY <1>1, <1>2, <1>3, Left
<1>4. ASSUME NEW p \in {"commit", "undo"}, TakeConnection, Move(r, p)
      PROVE  \E v \in Req : Changes(r, v)
  <2>1. /\ p \in Place /\ p \in OnConnection /\ p \notin InWorker
        /\ p \notin Verifying /\ p \notin {"limit", "limit_held"} /\ p \notin Admitted
    BY DEF Place, OnConnection, InWorker, Verifying, Admitted
  <2>2. connections > 0 /\ connections' = connections - 1 BY <1>4 DEF TakeConnection
  <2>3. /\ connections' = Shifted(connections, req[r].at \in OnConnection, p \in OnConnection)
        /\ workers' = Shifted(workers, req[r].at \in InWorker, p \in InWorker)
    BY <1>1, <1>2, <2>1, <2>2 DEF Shifted
  <2>. QED BY <1>1, <1>4, <2>1, <2>2, <2>3, WentOn
<1>. QED BY <1>3, <1>4 DEF Sync

LEMMA PoolTimeoutChanges ==
  ASSUME ApiInv, NEW r \in Request, PoolTimeout(r)
  PROVE  \E v \in Req : Changes(r, v)
<1>1. /\ req[r].at \in ForConnection
      /\ UNCHANGED <<account, workers, client, seen, limits>>
  BY DEF PoolTimeout
<1>2. req[r].at \notin InWorker /\ req[r].at \notin OnConnection
  BY <1>1 DEF ForConnection, InWorker, OnConnection
<1>3. CASE End(r) BY <1>1, <1>2, <1>3, Left
<1>4. CASE At(r, "sync") /\ Move(r, "undo_bare") /\ UNCHANGED connections
  <2>1. /\ "undo_bare" \in Place /\ "undo_bare" \notin OnConnection
        /\ "undo_bare" \notin InWorker /\ "undo_bare" \notin Verifying
        /\ "undo_bare" \notin {"limit", "limit_held"} /\ "undo_bare" \notin Admitted
        /\ req[r].at \notin {"find_key", "make_client"}
    BY <1>4 DEF Place, ForWorker, OnConnection, InWorker, Verifying, Admitted, At
  <2>2. /\ connections' = Shifted(connections, req[r].at \in OnConnection, "undo_bare" \in OnConnection)
        /\ workers' = Shifted(workers, req[r].at \in InWorker, "undo_bare" \in InWorker)
    BY <1>1, <1>2, <1>4, <2>1 DEF Shifted
  <2>. QED BY <1>1, <1>4, <2>1, <2>2, WentOn
<1>. QED BY <1>3, <1>4 DEF PoolTimeout

LEMMA CallSupabaseChanges ==
  ASSUME ApiInv, NEW r \in Request, CallSupabase(r)
  PROVE  \E v \in Req : Changes(r, v)
<1>. DEFINE p == Called(req[r].at)
<1>1. /\ req[r].at \in {"ask", "revoke", "undo", "undo_bare"}
      /\ workers > 0 /\ workers' = workers - 1 /\ Move(r, p)
      /\ UNCHANGED <<account, connections, client, seen, limits>>
  BY DEF CallSupabase, TakeWorker, ForWorker
<1>2. /\ p \in Place /\ p \in InWorker /\ req[r].at \notin InWorker
      /\ p \in OnConnection <=> req[r].at \in OnConnection
      /\ p \notin Verifying /\ p \notin {"limit", "limit_held"}
      /\ p \in Admitted => req[r].at \in Admitted
  BY <1>1 DEF Called, Place, InWorker, OnConnection, Verifying, Admitted
<1>. HIDE DEF p
<1>3. /\ connections' = Shifted(connections, req[r].at \in OnConnection, p \in OnConnection)
      /\ workers' = Shifted(workers, req[r].at \in InWorker, p \in InWorker)
  BY <1>1, <1>2 DEF Shifted
<1>. QED BY <1>1, <1>2, <1>3, WentOn

LEMMA SupabaseReturnsChanges ==
  ASSUME ApiInv, NEW r \in Request, SupabaseReturns(r)
  PROVE  \E v \in Req : Changes(r, v)
<1>1. /\ workers' = workers + 1 /\ UNCHANGED <<account, client, seen, limits>>
      /\ req[r].at \in {"asking", "revoking", "undoing", "undoing_bare"}
  BY DEF SupabaseReturns, FreeWorker, At
<1>2. req[r].at \in InWorker /\ ~Making(r) BY <1>1 DEF InWorker, Making, At
<1>3. CASE End(r)
  <2>1. workers' = Shifted(workers, req[r].at \in InWorker, FALSE)
    BY <1>1, <1>2 DEF Shifted
  <2>. QED BY <1>1, <1>2, <1>3, <2>1, Ended DEF ApiInv
<1>4. ASSUME NEW p \in {"sync", "commit"}, Move(r, p), UNCHANGED connections,
             p \in OnConnection <=> req[r].at \in OnConnection
      PROVE  \E v \in Req : Changes(r, v)
  <2>1. /\ p \in Place /\ p \notin InWorker /\ p \notin Verifying
        /\ p \notin {"limit", "limit_held"} /\ p \notin Admitted
    BY DEF Place, ForConnection, OnConnection, InWorker, Verifying, Admitted
  <2>2. /\ connections' = Shifted(connections, req[r].at \in OnConnection, p \in OnConnection)
        /\ workers' = Shifted(workers, req[r].at \in InWorker, p \in InWorker)
    BY <1>1, <1>2, <1>4, <2>1 DEF Shifted
  <2>. QED BY <1>1, <1>2, <1>4, <2>1, <2>2, WentOn
<1>5. "sync" \notin OnConnection /\ "commit" \in OnConnection BY DEF OnConnection
<1>6. (At(r, "asking") => req[r].at \notin OnConnection)
      /\ (At(r, "revoking") => req[r].at \in OnConnection)
  BY DEF At, OnConnection
<1>. QED BY <1>3, <1>4, <1>5, <1>6 DEF SupabaseReturns

LEMMA StepChanges ==
  ASSUME ApiInv, NEW r \in Request, Begin(r) \/ Step(r)
  PROVE  \E v \in Req : Changes(r, v)
BY BeginChanges, CountCallChanges, AuthenticateChanges, MakeClientChanges,
   FindKeyChanges, FetchChanges, LoadUserChanges, HandlerChanges, SyncChanges,
   PoolTimeoutChanges, CallSupabaseChanges, SupabaseReturnsChanges
   DEF Step
-----------------------------------------------------------------------------
(* The invariant is one.                                                   *)

LEMMA HavingFinite ==
  ASSUME NEW S
  PROVE  IsFiniteSet(Having(S)) /\ Cardinality(Having(S)) \in Nat
<1>1. Having(S) \in SUBSET Request BY DEF Having
<1>2. IsFiniteSet(Having(S)) BY <1>1, ApiAssumption, FS_Subset
<1>. QED BY <1>2, FS_CardinalityType

\* How the step of one request changes who holds what.
LEMMA HavingChanges ==
  ASSUME req \in [Request -> Req], NEW r \in Request, NEW v \in Req, NEW S,
         req' = [req EXCEPT ![r] = v]
  PROVE  /\ r \in Having(S) <=> req[r].at \in S
         /\ Having(S)' = IF v.at \in S THEN Having(S) \cup {r} ELSE Having(S) \ {r}
         /\ IsFiniteSet(Having(S)')
         /\ Cardinality(Having(S)') = IF v.at \in S
              THEN (IF req[r].at \in S THEN Cardinality(Having(S))
                                       ELSE Cardinality(Having(S)) + 1)
              ELSE (IF req[r].at \in S THEN Cardinality(Having(S)) - 1
                                       ELSE Cardinality(Having(S)))
<1>1. r \in Having(S) <=> req[r].at \in S BY DEF Having
<1>2. \A q \in Request : req'[q] = IF q = r THEN v ELSE req[q] OBVIOUS
<1>3. Having(S)' = IF v.at \in S THEN Having(S) \cup {r} ELSE Having(S) \ {r}
  BY <1>2 DEF Having
<1>4. IsFiniteSet(Having(S)) BY HavingFinite
<1>5. CASE v.at \in S
  <2>. DEFINE H == Having(S)
  <2>1. Having(S)' = H \cup {r} BY <1>3, <1>5
  <2>. HIDE DEF H
  <2>2. /\ IsFiniteSet(H \cup {r})
        /\ Cardinality(H \cup {r}) = IF r \in H THEN Cardinality(H) ELSE Cardinality(H) + 1
    BY <1>4, FS_AddElement DEF H
  <2>. QED BY <1>1, <1>3, <1>5, <2>1, <2>2 DEF H
<1>6. CASE v.at \notin S
  <2>. DEFINE H == Having(S)
  <2>1. Having(S)' = H \ {r} BY <1>3, <1>6
  <2>. HIDE DEF H
  <2>2. /\ IsFiniteSet(H \ {r})
        /\ Cardinality(H \ {r}) = IF r \in H THEN Cardinality(H) - 1 ELSE Cardinality(H)
    BY <1>4, FS_RemoveElement DEF H
  <2>. QED BY <1>1, <1>3, <1>6, <2>1, <2>2 DEF H
<1>. QED BY <1>5, <1>6

\* The counters keep telling how many hold a unit (sessions.py:18).
LEMMA CountsChanges ==
  ASSUME ApiInv, NEW r \in Request, NEW v \in Req, Changes(r, v)
  PROVE  Counts'
<1>1. /\ req \in [Request -> Req] /\ req' = [req EXCEPT ![r] = v]
      /\ connections = Connections - Cardinality(Having(OnConnection)) /\ connections >= 0
      /\ workers = Workers - Cardinality(Having(InWorker)) /\ workers >= 0
      /\ Connections \in Nat /\ Workers \in Nat
  BY ApiAssumption DEF ApiInv, Counts, Changes
<1>2. /\ connections' = Connections - Cardinality(Having(OnConnection)')
      /\ connections' >= 0
  <2>1. Cardinality(Having(OnConnection)) \in Nat BY HavingFinite
  <2>2. Cardinality(Having(OnConnection)') = IF v.at \in OnConnection
          THEN (IF req[r].at \in OnConnection THEN Cardinality(Having(OnConnection))
                                   ELSE Cardinality(Having(OnConnection)) + 1)
          ELSE (IF req[r].at \in OnConnection THEN Cardinality(Having(OnConnection)) - 1
                                   ELSE Cardinality(Having(OnConnection)))
    BY <1>1, HavingChanges
  <2>3. /\ connections' = Shifted(connections, req[r].at \in OnConnection, v.at \in OnConnection)
        /\ req[r].at \notin OnConnection /\ v.at \in OnConnection => connections > 0
    BY DEF Changes
  <2>. QED BY <1>1, <2>1, <2>2, <2>3 DEF Shifted
<1>3. /\ workers' = Workers - Cardinality(Having(InWorker)')
      /\ workers' >= 0
  <2>1. Cardinality(Having(InWorker)) \in Nat BY HavingFinite
  <2>2. Cardinality(Having(InWorker)') = IF v.at \in InWorker
          THEN (IF req[r].at \in InWorker THEN Cardinality(Having(InWorker))
                                   ELSE Cardinality(Having(InWorker)) + 1)
          ELSE (IF req[r].at \in InWorker THEN Cardinality(Having(InWorker)) - 1
                                   ELSE Cardinality(Having(InWorker)))
    BY <1>1, HavingChanges
  <2>3. /\ workers' = Shifted(workers, req[r].at \in InWorker, v.at \in InWorker)
        /\ req[r].at \notin InWorker /\ v.at \in InWorker => workers > 0
    BY DEF Changes
  <2>. QED BY <1>1, <2>1, <2>2, <2>3 DEF Shifted
<1>. QED BY <1>2, <1>3 DEF Counts

\* Those about to make a client are in a thread each (jwt_handler.py:33).
LEMMA MakersAreInWorkers ==
  ASSUME ApiInv
  PROVE  Cardinality(Having({"make_client"})) <= Workers
<1>1. Having({"make_client"}) \in SUBSET Having(InWorker) BY DEF Having, InWorker
<1>2. Cardinality(Having({"make_client"})) <= Cardinality(Having(InWorker))
  BY <1>1, HavingFinite, FS_Subset
<1>3. Cardinality(Having(InWorker)) <= Workers
  BY HavingFinite, ApiAssumption DEF ApiInv, Counts
<1>. QED BY <1>2, <1>3, HavingFinite, ApiAssumption

LEMMA ClientsChanges ==
  ASSUME ApiInv, NEW r \in Request, NEW v \in Req, Changes(r, v)
  PROVE  Clients'
<1>. DEFINE M == Cardinality(Having({"make_client"}))
<1>1. M \in Nat /\ M <= Workers BY HavingFinite, MakersAreInWorkers
<1>2. M' = IF v.at \in {"make_client"}
           THEN (IF req[r].at \in {"make_client"} THEN M ELSE M + 1)
           ELSE (IF req[r].at \in {"make_client"} THEN M - 1 ELSE M)
  BY HavingChanges DEF ApiInv, Changes
<1>3. /\ client \in Nat /\ Workers \in Nat
      /\ client # 0 => client + M <= Workers
  BY ApiAssumption DEF ApiInv, Clients
<1>4. /\ v.at = "make_client" => client = 0 /\ req[r].at # "make_client"
      /\ client' = IF req[r].at = "make_client" THEN client + 1 ELSE client
  BY DEF Changes, Making, At
<1>. HIDE DEF M
<1>5. client' # 0 => client' + M' <= Workers BY <1>1, <1>2, <1>3, <1>4
<1>. QED BY <1>5 DEF Clients, M

LEMMA RequestsChange ==
  ASSUME ApiInv, NEW r \in Request, NEW v \in Req, Changes(r, v), NEW q \in Request
  PROVE  (Fits(req[q], client, account) /\ (req[q].warm => Warm(req[q].kid)))'
<1>1. /\ req'[q] = IF q = r THEN v ELSE req[q]
      /\ \A p \in Request : req'[p] = IF p = r THEN v ELSE req[p]
      /\ account' = account /\ seen \subseteq seen'
      /\ client' = IF Making(r) THEN client + 1 ELSE client
      /\ v.at = "make_client" => client = 0
  BY DEF ApiInv, Changes
<1>2. client \in Nat /\ Fits(req[q], client, account) BY DEF ApiInv
<1>3. ASSUME NEW k \in Kid, Warm(k), ~Making(r)
      PROVE  /\ client' # 0 /\ <<client', k>> \in seen'
             /\ \A p \in Request : req'[p].at # "make_client"
  <2>1. client' = client /\ client # 0 /\ <<client, k>> \in seen'
    BY <1>1, <1>3 DEF Warm
  <2>2. \A p \in Request : req'[p].at # "make_client"
    BY <1>1, <1>3, <2>1 DEF Warm, Making, At
  <2>. QED BY <2>1, <2>2
<1>4. CASE q = r
  <2>1. v.kid \in Kid /\ req'[q] = v BY <1>1, <1>4 DEF Req
  <2>2. Fits(v, client', account') /\ (v.warm => Warm(v.kid) /\ ~Making(r))
    BY DEF Changes
  <2>. QED BY <1>3, <2>1, <2>2 DEF Warm, Making, At
<1>5. CASE q # r
  <2>1. req'[q] = req[q] BY <1>1, <1>5
  <2>2. client # 0 => client' # 0 BY <1>1, <1>2
  <2>3. Fits(req[q], client', account') BY <1>1, <1>2, <2>2 DEF Fits
  <2>4. req[q].warm => Warm(req[q].kid) /\ ~Making(r) BY DEF ApiInv, Warm
  <2>5. req[q].kid \in Kid BY DEF ApiInv, Req
  <2>. QED BY <1>3, <2>1, <2>3, <2>4, <2>5 DEF Warm, Making, At
<1>. QED BY <1>4, <1>5

LEMMA InvChanges ==
  ASSUME ApiInv, NEW r \in Request, NEW v \in Req, Changes(r, v)
  PROVE  ApiInv'
<1>1. /\ req' \in [Request -> Req] /\ account' \in Account /\ client' \in Nat
      /\ seen' \subseteq (Nat \ {0}) \X Kid
  BY DEF ApiInv, Changes
<1>2. LimiterInv' BY LimiterInvNext DEF ApiInv, Changes
<1>3. \A q \in Request :
        (Fits(req[q], client, account) /\ (req[q].warm => Warm(req[q].kid)))'
  BY RequestsChange
<1>. QED BY <1>1, <1>2, <1>3, CountsChanges, ClientsChanges DEF ApiInv

\* A state without requests.
LEMMA AllIdle ==
  ASSUME req = [r \in Request |-> Idle], connections = Connections,
         workers = Workers, client = 0, seen = {}, account \in Account, LimiterInv
  PROVE  ApiInv /\ \A S \in SUBSET (Place \ {"idle"}) : Having(S) = {}
<1>1. req \in [Request -> Req] BY IdleIsReq
<1>2. \A r \in Request : req[r].at = "idle" /\ ~req[r].warm /\ ~req[r].barred
  BY IdleIsReq
<1>3. \A r \in Request : Fits(req[r], client, account) BY <1>2 DEF Fits, Verifying
<1>4. \A S \in SUBSET (Place \ {"idle"}) : Having(S) = {} BY <1>2 DEF Having
<1>5. Having(OnConnection) = {} /\ Having(InWorker) = {}
  <2>1. /\ OnConnection \in SUBSET (Place \ {"idle"})
        /\ InWorker \in SUBSET (Place \ {"idle"})
    BY DEF OnConnection, InWorker, Place
  <2>. QED BY <1>4, <2>1
<1>6. Counts BY <1>5, FS_EmptySet, ApiAssumption DEF Counts
<1>. QED BY <1>1, <1>2, <1>3, <1>4, <1>6 DEF ApiInv, Clients

LEMMA InvInit == Init => ApiInv /\ Having(OnConnection) = {} /\ Having(InWorker) = {}
<1>1. /\ OnConnection \in SUBSET (Place \ {"idle"})
      /\ InWorker \in SUBSET (Place \ {"idle"})
  BY DEF OnConnection, InWorker, Place
<1>. QED BY <1>1, AllIdle, LimiterInvInit DEF Init

LEMMA InvRestart ==
  ASSUME ApiInv, Restart
  PROVE  ApiInv' /\ Having(OnConnection)' = {} /\ Having(InWorker)' = {}
<1>1. /\ req' = [r \in Request |-> Idle] /\ connections' = Connections
      /\ workers' = Workers /\ client' = 0 /\ seen' = {} /\ account' \in Account
  BY DEF Restart, ApiInv
<1>2. LimiterInv' BY LimiterInvReset DEF Restart
<1>3. \A r \in Request : req'[r].at = "idle" /\ ~req'[r].warm /\ ~req'[r].barred
  BY <1>1, IdleIsReq
<1>4. Having(OnConnection)' = {} /\ Having(InWorker)' = {}
      /\ Having({"make_client"})' = {}
  BY <1>3 DEF Having, OnConnection, InWorker
<1>5. Counts' BY <1>1, <1>4, FS_EmptySet, ApiAssumption DEF Counts
<1>6. req' \in [Request -> Req] BY <1>1, IdleIsReq
<1>7. \A r \in Request : Fits(req'[r], client', account')
  BY <1>3 DEF Fits, Verifying
<1>. QED BY <1>1, <1>2, <1>3, <1>4, <1>5, <1>6, <1>7 DEF ApiInv, Clients

\* Time and the administrator leave the requests where they are.
LEMMA InvOutside ==
  ASSUME ApiInv, TimePasses \/ UNCHANGED vars \/ \E row \in Account : SetAccount(row)
  PROVE  ApiInv' /\ \A S : Having(S)' = Having(S)
<1>1. CASE TimePasses \/ UNCHANGED vars
  <2>1. UNCHANGED <<req, account, connections, workers, client, seen>>
    BY <1>1 DEF TimePasses, vars
  <2>2. LimiterInv'
    <3>1. [LimiterNext]_limits BY <1>1 DEF TimePasses, LimiterNext, vars, limits
    <3>. QED BY <3>1, LimiterInvNext DEF ApiInv
  <2>3. \A S : Having(S)' = Having(S) BY <2>1 DEF Having
  <2>4. Counts' /\ Clients' BY <2>1, <2>3 DEF ApiInv, Counts, Clients
  <2>. QED BY <2>1, <2>2, <2>3, <2>4 DEF ApiInv, Warm, Making, At
<1>2. ASSUME NEW row \in Account, SetAccount(row)
      PROVE  ApiInv' /\ \A S : Having(S)' = Having(S)
  <2>1. /\ account' = row /\ UNCHANGED <<connections, workers, client, seen, limits>>
        /\ req' = [r \in Request |->
             [req[r] EXCEPT !.barred = @ /\ ~Allowed(req[r].kind, row)]]
    BY <1>2 DEF SetAccount
  <2>2. ASSUME NEW r \in Request
        PROVE  /\ req'[r] \in Req
               /\ req'[r].at = req[r].at /\ req'[r].kind = req[r].kind
               /\ req'[r].kid = req[r].kid /\ req'[r].use = req[r].use
               /\ req'[r].warm = req[r].warm
               /\ req'[r].barred => req[r].barred /\ ~Allowed(req[r].kind, row)
    <3>. DEFINE b == req[r].barred /\ ~Allowed(req[r].kind, row)
    <3>1. req'[r] = [req[r] EXCEPT !.barred = b] BY <2>1
    <3>2. req[r] \in Req /\ b \in BOOLEAN BY DEF ApiInv, Req
    <3>3. b => req[r].barred /\ ~Allowed(req[r].kind, row) OBVIOUS
    <3>. HIDE DEF b
    <3>. QED BY <3>1, <3>2, <3>3 DEF Req
  <2>3. \A S : Having(S)' = Having(S) BY <2>2 DEF Having
  <2>4. Counts' /\ Clients' BY <2>1, <2>3 DEF ApiInv, Counts, Clients
  <2>5. LimiterInv'
    <3>1. [LimiterNext]_limits BY <2>1
    <3>. QED BY <3>1, LimiterInvNext DEF ApiInv
  <2>6. ASSUME NEW r \in Request
        PROVE  (Fits(req[r], client, account) /\ (req[r].warm => Warm(req[r].kid)))'
    <3>1. Fits(req[r], client, account) /\ (req[r].warm => Warm(req[r].kid))
      BY DEF ApiInv
    <3>2. Fits(req'[r], client', account') BY <2>1, <2>2, <3>1 DEF Fits
    <3>3. req'[r].warm => Warm(req[r].kid) BY <2>2, <3>1
    <3>. QED BY <2>1, <2>2, <3>2, <3>3 DEF Warm, Making, At
  <2>7. req' \in [Request -> Req] BY <2>1, <2>2
  <2>8. account' \in Account /\ client' \in Nat /\ seen' \subseteq (Nat \ {0}) \X Kid
    BY <2>1 DEF ApiInv
  <2>. QED BY <2>3, <2>4, <2>5, <2>6, <2>7, <2>8 DEF ApiInv
<1>. QED BY <1>1, <1>2

LEMMA ApiInvariant == Spec => []ApiInv
<1>1. Init => ApiInv BY InvInit
<1>2. ApiInv /\ [Next]_vars => ApiInv'
  BY StepChanges, InvChanges, InvOutside, InvRestart DEF Next
<1>. QED BY <1>1, <1>2, PTL DEF Spec
-----------------------------------------------------------------------------
(* The properties.                                                         *)

\* Every variable keeps to its values; in particular the pool and the executor
\* never hold more than they were made with (sessions.py:18).
THEOREM ApiTyped == Spec => []TypeOK
<1>1. ApiInv => TypeOK
  <2>. SUFFICES ASSUME ApiInv PROVE TypeOK OBVIOUS
  <2>1. connections \in 0 .. Connections /\ workers \in 0 .. Workers
    BY HavingFinite, ApiAssumption DEF ApiInv, Counts
  <2>. QED BY <2>1 DEF ApiInv, TypeOK, LimiterInv
<1>. QED BY <1>1, ApiInvariant, PTL

\* A step of the service is a step of the limiter or leaves it alone, so the
\* bound on bursts holds in the service (main.py:30).
THEOREM ApiBurstCap == Spec => []BurstCap
<1>1. ApiInv => BurstCap BY BurstCapFollows DEF ApiInv
<1>. QED BY <1>1, ApiInvariant, PTL

\* What a step does to the holders of a resource is what the semaphore allows.
LEMMA PoolStep ==
  ASSUME ApiInv, [Next]_vars
  PROVE  [Pool!Next]_<<Having(OnConnection), connections>>
<1>1. CASE Restart
  <2>1. Having(OnConnection)' = {} /\ connections' = Connections
    BY <1>1, InvRestart DEF Restart
  <2>. QED BY <2>1 DEF Pool!Next, Pool!Reset
<1>2. CASE TimePasses \/ UNCHANGED vars \/ \E row \in Account : SetAccount(row)
  <2>1. Having(OnConnection)' = Having(OnConnection) BY <1>2, InvOutside
  <2>2. connections' = connections BY <1>2 DEF TimePasses, vars, SetAccount
  <2>. QED BY <2>1, <2>2
<1>3. ASSUME NEW r \in Request, Begin(r) \/ Step(r)
      PROVE  [Pool!Next]_<<Having(OnConnection), connections>>
  <2>. DEFINE H == Having(OnConnection)
  <2>1. PICK v \in Req : Changes(r, v) BY <1>3, StepChanges
  <2>2. /\ r \in H <=> req[r].at \in OnConnection
        /\ H' = IF v.at \in OnConnection THEN H \cup {r} ELSE H \ {r}
    BY <2>1, HavingChanges DEF ApiInv, Changes
  <2>3. /\ connections' = Shifted(connections, req[r].at \in OnConnection, v.at \in OnConnection)
        /\ req[r].at \notin OnConnection /\ v.at \in OnConnection => connections > 0
    BY <2>1 DEF Changes
  <2>4. connections = Connections - Cardinality(H) BY DEF ApiInv, Counts
  <2>5. Cardinality(H) \in Nat /\ Connections \in Nat BY HavingFinite, ApiAssumption
  <2>. HIDE DEF H
  <2>6. \/ r \notin H /\ Cardinality(H) < Connections
           /\ H' = H \cup {r} /\ connections' = connections - 1
        \/ r \in H /\ H' = H \ {r} /\ connections' = connections + 1
        \/ H' = H /\ connections' = connections
    BY <2>2, <2>3, <2>4, <2>5 DEF Shifted
  <2>7. Pool!Acquire(r) \/ Pool!Release(r) \/ UNCHANGED <<H, connections>>
    BY <2>6 DEF Pool!Acquire, Pool!Release, H, Cardinality, Pool!Cardinality
  <2>. QED BY <2>7 DEF Pool!Next, H
<1>. QED BY <1>1, <1>2, <1>3 DEF Next

\* The database pool, with the requests' sessions around it, implements a
\* semaphore: no path through a request, a failure or a timeout leaks a
\* connection or gives one back twice (sessions.py:36-56).
THEOREM PoolImplementsSemaphore == Spec => PoolIsSemaphore
<1>1. Init => Pool!Init BY InvInit DEF Pool!Init, Init
<1>2. ApiInv /\ [Next]_vars => [Pool!Next]_<<Having(OnConnection), connections>>
  BY PoolStep
<1>. QED BY <1>1, <1>2, ApiInvariant, PTL DEF Spec, PoolIsSemaphore, Pool!Spec

\* Whatever the sizes of the pool and of the executor, requests never all wait
\* for each other: one in a thread waits for nothing, and when no thread is
\* busy one with a connection does (accounts/service.py:244).
THEOREM ApiSomeoneGoesOn == Spec => []SomeoneGoesOn
<1>1. ApiInv => SomeoneGoesOn
  <2>. SUFFICES ASSUME ApiInv, NEW q \in Request, ~At(q, "idle")
                PROVE  \E r \in Request : ~At(r, "idle") /\ ~Waits(r)
    BY DEF SomeoneGoesOn
  <2>1. Cardinality({}) = 0 BY FS_EmptySet
  <2>2. CASE workers = 0
    <3>1. Having(InWorker) # {}
      BY <2>1, <2>2, ApiAssumption DEF ApiInv, Counts
    <3>2. PICK r \in Request : req[r].at \in InWorker BY <3>1 DEF Having
    <3>3. req[r].at \notin ForWorker /\ req[r].at \notin ForConnection /\ req[r].at # "idle"
      BY <3>2 DEF InWorker, ForWorker, ForConnection
    <3>. QED BY <3>3 DEF Waits, At
  <2>3. CASE workers # 0 /\ connections = 0
    <3>1. Having(OnConnection) # {}
      BY <2>1, <2>3, ApiAssumption DEF ApiInv, Counts
    <3>2. PICK r \in Request : req[r].at \in OnConnection BY <3>1 DEF Having
    <3>3. req[r].at \notin ForConnection /\ req[r].at # "idle"
      BY <3>2 DEF OnConnection, ForConnection
    <3>. QED BY <2>3, <3>3 DEF Waits, At
  <2>4. CASE workers # 0 /\ connections # 0
    BY <2>4 DEF Waits
  <2>. QED BY <2>2, <2>3, <2>4
<1>. QED BY <1>1, ApiInvariant, PTL

\* The race to make the JWKS client is lost at most once per thread, for every
\* number of threads and requests (jwt_handler.py:33).
THEOREM ApiClientsAreFew == Spec => []ClientsAreFew
<1>1. ApiInv => ClientsAreFew
  <2>. SUFFICES ASSUME ApiInv PROVE ClientsAreFew OBVIOUS
  <2>1. Cardinality(Having({"make_client"})) \in Nat BY HavingFinite
  <2>. QED BY <2>1, ApiAssumption DEF ApiInv, Clients, ClientsAreFew
<1>. QED BY <1>1, ApiInvariant, PTL

\* A cached key spares a verification the network, for every set of keys and
\* however many verify at once (jwt_handler.py:26).
THEOREM ApiWarmKeysNeedNoNetwork == Spec => []WarmKeysNeedNoNetwork
<1>1. ApiInv => WarmKeysNeedNoNetwork
  BY DEF ApiInv, Fits, WarmKeysNeedNoNetwork, At
<1>. QED BY <1>1, ApiInvariant, PTL

\* Who has not been allowed in since the request arrived is never let in
\* (security/dependencies.py:83).
THEOREM ApiBarredStayOut == Spec => []BarredStayOut
<1>1. ApiInv => BarredStayOut BY DEF ApiInv, Fits, BarredStayOut
<1>. QED BY <1>1, ApiInvariant, PTL
=============================================================================
