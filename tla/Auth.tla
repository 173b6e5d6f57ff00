-------------------------------- MODULE Auth --------------------------------
(***************************************************************************)
(* Authentication composed with the user endpoints of module Users: the   *)
(* token pair of internal/core/auth/jwt.go, the JWTAuth and RequireRole   *)
(* middleware of internal/core/middleware/auth_guard.go, Login and Refresh *)
(* of internal/api/v1/auth.go, and the routes of main.go that put them in *)
(* front of the user handlers.                                             *)
(*                                                                          *)
(* A token is the claims it signs: subject, role, issue time and expiry.  *)
(* The access and the refresh token of a pair differ only in their expiry: *)
(* neither carries a type.  Signatures are not modelled: a client         *)
(* presents only tokens the server issued.  Time is a clock of whole      *)
(* ticks.  The password and brute-force checks of Login are module        *)
(* BruteForce; a Login here is one that passed them.                      *)
(***************************************************************************)
EXTENDS Users

CONSTANTS
    AccessTTL,      \* JWTAccessTokenExpireMin, in ticks
    RefreshTTL,     \* JWTRefreshTokenExpireDays, in ticks
    MaxTime,        \* ticks of the clock in one behaviour
    MaxAuth         \* logins and refreshes in one behaviour

VARIABLES
    clock,          \* time.Now
    tokens,         \* every token issued so far
    accepted,       \* requests JWTAuth let through: subject, age of the
                    \* token and route
    authReqs,       \* logins and refreshes sent so far
    disclosed       \* profiles answered: [to |-> token subject, of |-> user id]

authVars == <<clock, tokens, accepted, authReqs, disclosed>>
allVars == <<vars, authVars>>

RoleAdmin == "admin"

Token == [sub : Ids, role : Roles \cup {RoleViewer}, iat : 0..MaxTime,
          exp : 0..MaxTime + RefreshTTL]

Routes == {"refresh", "update", "delete", "list", "me", "get"}

AuthTypeOK ==
    /\ TypeOK
    /\ clock \in 0..MaxTime
    /\ tokens \subseteq Token
    /\ accepted \subseteq [sub : Ids, age : 0..MaxTime, route : Routes]
    /\ authReqs \in 0..MaxAuth
    /\ disclosed \subseteq [to : Ids, of : Ids]

AuthInit ==
    /\ Init
    /\ clock = 0
    /\ tokens = {}
    /\ accepted = {}
    /\ authReqs = 0
    /\ disclosed = {}

-----------------------------------------------------------------------------
(* The tokens and the middleware. *)

\* Both tokens name the user and its role; the access token expires after
\* AccessTTL, the refresh token after RefreshTTL.
IssueTokenPair(id, role) ==
    {[sub |-> id, role |-> role, iat |-> clock, exp |-> clock + AccessTTL],
     [sub |-> id, role |-> role, iat |-> clock, exp |-> clock + RefreshTTL]}

\* jwt.ParseWithClaims with the HMAC secret: the signature holds, so the
\* token is valid until its exp claim.
Verify(t) == clock < t.exp

\* RequireRole: the token's role ranks at least as high as the one asked.
Hierarchy == [viewer |-> 1, analyst |-> 2, manager |-> 3, admin |-> 4]

\* Mutant: the comparison of the ranks is turned around.
RequireRoleInverted(t, role) == Hierarchy[t.role] <= Hierarchy[role]

RequireRole(t, role) == Hierarchy[t.role] >= Hierarchy[role]

\* JWTAuth: a Bearer header with a token Verify accepts; the request is
\* recorded as let through on the route.
JWTAuth(t, route) ==
    /\ t \in tokens /\ Verify(t)
    /\ accepted' = accepted \cup {[sub |-> t.sub, age |-> clock - t.iat, route |-> route]}

\* Mutant: the owner comparison is negated.
isOwnerOrAdminNegated(t, id) == t.sub # id \/ t.role = RoleAdmin

\* UsersHandler.isOwnerOrAdmin.
isOwnerOrAdmin(t, id) == t.sub = id \/ t.role = RoleAdmin

-----------------------------------------------------------------------------
(* The handlers. *)

Tick ==
    /\ clock < MaxTime
    /\ clock' = clock + 1
    /\ UNCHANGED <<vars, tokens, accepted, authReqs, disclosed>>

\* POST /auth/login with the right password: FindByEmail finds the user
\* that is not deleted, IsActive holds (nothing clears it), and the pair is
\* issued with the role of the row.
Login ==
    /\ authReqs < MaxAuth
    /\ authReqs' = authReqs + 1
    /\ \E e \in Emails, id \in Ids :
        /\ id \in FindByEmail(e)
        /\ tokens' = tokens \cup IssueTokenPair(id, rows[id].role)
    /\ UNCHANGED <<vars, clock, accepted, disclosed>>

\* POST /auth/refresh, behind JWTAuth: the body's token is verified, its
\* subject found with FindByID, and a pair issued with the role of the row;
\* a database error of FindByID (dbOk false) answers 401 like a missing user.
Refresh ==
    /\ authReqs < MaxAuth
    /\ authReqs' = authReqs + 1
    /\ \E bearer \in tokens, t \in tokens, dbOk \in BOOLEAN :
        /\ JWTAuth(bearer, "refresh")
        /\ Verify(t)
        /\ tokens' = IF dbOk /\ FindByID(t.sub)
                     THEN tokens \cup IssueTokenPair(t.sub, rows[t.sub].role)
                     ELSE tokens
    /\ UNCHANGED <<vars, clock, disclosed>>

\* PATCH /users/:id, behind JWTAuth: isOwnerOrAdmin comes before FindByID;
\* a refused request answers 403 and changes nothing.
AuthUpdate(w) ==
    /\ \E t \in tokens :
        /\ JWTAuth(t, "update")
        /\ UpdateFind(w)
        /\ pc'[w] = "updateCheck" => isOwnerOrAdmin(t, req'[w].id)
    /\ UNCHANGED <<clock, tokens, authReqs, disclosed>>

\* DELETE /users/:id, behind JWTAuth and RequireRole("admin").
AuthDelete(w) ==
    /\ \E t \in tokens :
        /\ JWTAuth(t, "delete")
        /\ RequireRole(t, RoleAdmin)
        /\ Delete(w)
    /\ UNCHANGED <<clock, tokens, authReqs, disclosed>>

\* The read endpoints answer in one query; each is one request of the
\* clients.  A failed query answers 500 or 404 and discloses nothing.
Read(t, route, ids) ==
    /\ requests < MaxRequests
    /\ requests' = requests + 1
    /\ JWTAuth(t, route)
    /\ \E failed \in BOOLEAN :
        disclosed' = IF failed THEN disclosed
                     ELSE disclosed \cup {[to |-> t.sub, of |-> id] : id \in ids}
    /\ UNCHANGED <<rows, nextId, audit, pc, req, user, clock, tokens, authReqs>>

\* GET /users, behind JWTAuth and RequireRole("admin"): List, ListUsers
\* and FindAll with skip and limit.
AuthList ==
    \E t \in tokens, page \in SUBSET FindAll :
        RequireRole(t, RoleAdmin) /\ Read(t, "list", page)

\* GET /users/me, behind JWTAuth: FindByID of the token's subject.
AuthMe ==
    \E t \in tokens :
        Read(t, "me", IF FindByID(t.sub) THEN {t.sub} ELSE {})

\* GET /users/:id, behind JWTAuth: isOwnerOrAdmin (403), then FindByID (404).
AuthGet ==
    \E t \in tokens, id \in Ids :
        Read(t, "get", IF isOwnerOrAdmin(t, id) /\ FindByID(id) THEN {id} ELSE {})

\* The handler steps of Users that need no token: public registration and
\* the steps after a request passed its middleware.
UsersStep(w) ==
    /\ \/ CreateExists(w) \/ CreateSave(w) \/ Publish(w)
       \/ UpdateCheck(w) \/ UpdateSave(w)
    /\ UNCHANGED authVars

AuthNext ==
    \/ Tick \/ Login \/ Refresh \/ AuthList \/ AuthMe \/ AuthGet
    \/ \E w \in Workers : UsersStep(w) \/ AuthUpdate(w) \/ AuthDelete(w)

AuthSpec ==
    /\ AuthInit /\ [][AuthNext]_allVars
    /\ \A w \in Workers : WF_allVars(CreateSave(w) \/ Publish(w) \/ UpdateCheck(w) \/ UpdateSave(w))

-----------------------------------------------------------------------------
(***************************************************************************)
(* Every DELETE that RequireRole("admin") let through was made with the    *)
(* token of a user the table holds as an admin.  The role reaches the     *)
(* token from the row, at Login and again at every Refresh, and the        *)
(* middleware ranks it in the hierarchy.                                   *)
(***************************************************************************)
DeletesByAdmins ==
    \A a \in accepted :
        a.route = "delete" => rows[a.sub].role = RoleAdmin

(***************************************************************************)
(* A profile is answered only to its owner or to an admin: Me answers the  *)
(* token's own subject, Get checks isOwnerOrAdmin, List sits behind       *)
(* RequireRole("admin").  The three handlers each check a different piece *)
(* of the token (subject, role by name, role by rank).                     *)
(***************************************************************************)
ProfilesToOwnerOrAdmin ==
    \A d \in disclosed : d.to = d.of \/ rows[d.to].role = RoleAdmin

(***************************************************************************)
(* A request is let through on an access token, which jwt.go calls short- *)
(* lived: the token JWTAuth accepts was issued less than AccessTTL before. *)
(* The refresh token carries the same claims with a later expiry, and     *)
(* Verify does not tell the two apart.                                     *)
(***************************************************************************)
BearerTokensShortLived ==
    \A a \in accepted : a.age < AccessTTL
=============================================================================
