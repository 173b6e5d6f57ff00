-------------------------------- MODULE Users --------------------------------
(***************************************************************************)
(* The user endpoints of internal/api/v1/users.go with the service of       *)
(* internal/domain/users/service.go, the GORM repository of                *)
(* internal/infrastructure/repositories/user_repository.go and the audit   *)
(* listener wired in main.go.  Handlers run concurrently, one per worker;  *)
(* each database statement is one atomic step and may fail.                 *)
(*                                                                          *)
(* The users table maps an id to a row; the unique index on email covers  *)
(* every row, soft-deleted ones included (the tag of userModel.Email).     *)
(* A row keeps the fields the properties tell apart: email, full name,     *)
(* whether deleted_at is set, whether created_at is set, and the role.     *)
(* Passwords and the bcrypt hash are left out: nothing here depends on     *)
(* them.  Authentication and the ownership check of Update are left out   *)
(* here (module Auth adds them): every request is from an admin.          *)
(***************************************************************************)
EXTENDS Naturals, TLC

CONSTANTS
    Workers,        \* concurrent request handlers
    Emails,         \* e-mail addresses requests carry
    Names,          \* full names requests carry
    Roles,          \* roles a registration may ask for
    MaxUsers,       \* ids uuid.New can hand out
    MaxRequests     \* requests the clients send in one behaviour

VARIABLES
    rows,           \* the users table: id -> row
    nextId,         \* the id uuid.New returns next
    audit,          \* ids with a "user.created" record in audit_logs
    pc,             \* pc[w]: the step handler w runs next
    req,            \* req[w]: the request handler w serves
    user,           \* user[w]: the *users.User the handler holds
    requests        \* requests sent so far

vars == <<rows, nextId, audit, pc, req, user, requests>>

Ids == 1..MaxUsers

NoValue == ""      \* an empty field of a request or a row

RoleViewer == "viewer"

Row == [email : Emails, fullName : Names \cup {NoValue}, role : Roles \cup {RoleViewer},
        deleted : BOOLEAN, createdSet : BOOLEAN]

Request == [kind : {"create", "update"}, id : Ids \cup {0},
            email : Emails \cup {NoValue}, fullName : Names \cup {NoValue},
            role : Roles \cup {RoleViewer, NoValue}]

NoRequest == [kind |-> "create", id |-> 0, email |-> NoValue, fullName |-> NoValue,
              role |-> NoValue]

NoUser == [id |-> 0, email |-> NoValue, fullName |-> NoValue, role |-> NoValue]

TypeOK ==
    /\ DOMAIN rows \subseteq Ids /\ \A i \in DOMAIN rows : rows[i] \in Row
    /\ nextId \in 1..MaxUsers + 1
    /\ audit \subseteq Ids
    /\ pc \in [Workers -> {"idle", "createSave", "publish", "updateCheck", "updateSave"}]
    /\ req \in [Workers -> Request \cup {NoRequest}]
    /\ requests \in 0..MaxRequests

Init ==
    /\ rows = <<>>
    /\ nextId = 1
    /\ audit = {}
    /\ pc = [w \in Workers |-> "idle"]
    /\ req = [w \in Workers |-> NoRequest]
    /\ user = [w \in Workers |-> NoUser]
    /\ requests = 0

-----------------------------------------------------------------------------
(* The repository. *)

\* SELECT count(*) ... WHERE email = ? AND deleted_at IS NULL, > 0.
ExistsByEmail(e) == \E i \in DOMAIN rows : rows[i].email = e /\ ~rows[i].deleted

\* Mutant: the users table has no unique index on email.
EmailTakenNoIndex(e, id) == FALSE

\* The unique index on email: a row other than id holds e, deleted or not.
EmailTaken(e, id) == \E i \in DOMAIN rows \ {id} : rows[i].email = e

\* SELECT ... WHERE deleted_at IS NULL with OFFSET and LIMIT, no ORDER BY:
\* a page is any set of users that are not deleted.
FindAll == {i \in DOMAIN rows : ~rows[i].deleted}

\* SELECT ... WHERE email = ? AND deleted_at IS NULL, First: the users a
\* login by e-mail can find (the unique index leaves at most one).
FindByEmail(e) == {i \in DOMAIN rows : rows[i].email = e /\ ~rows[i].deleted}

\* SELECT ... WHERE id = ? AND deleted_at IS NULL.
FindByID(id) == id \in DOMAIN rows /\ ~rows[id].deleted

\* Mutant: the mapping drops the e-mail column.
toModelNoEmail(u) == [fullName |-> u.fullName, role |-> u.role, deleted |-> FALSE,
                      createdSet |-> FALSE]

\* The row toModel builds: DeletedAt and CreatedAt keep their zero values.
toModel(u) == [email |-> u.email, fullName |-> u.fullName, role |-> u.role,
               deleted |-> FALSE, createdSet |-> FALSE]

\* db.Save(&m): an UPDATE of every column of an existing row, else an
\* INSERT, which fills a zero created_at.
SavedRow(u) == IF u.id \in DOMAIN rows THEN toModel(u)
               ELSE [toModel(u) EXCEPT !.createdSet = TRUE]

\* UPDATE users SET deleted_at = now WHERE id = ?: no error when no row
\* matched.
SoftDelete(id) == IF id \in DOMAIN rows THEN [rows EXCEPT ![id].deleted = TRUE] ELSE rows

\* The audit listener: OnUserCreated calls Record, whose insert may fail
\* unseen.
RecordCreated(id, written) == IF written THEN audit \cup {id} ELSE audit

Done(w) ==
    /\ pc' = [pc EXCEPT ![w] = "idle"]
    /\ req' = [req EXCEPT ![w] = NoRequest]
    /\ user' = [user EXCEPT ![w] = NoUser]

-----------------------------------------------------------------------------
(* POST /api/v1/users: Create and CreateUser. *)

\* Create: an empty role registers a viewer; any role of the binding's list
\* is accepted as given.
RequestedRole(r) == IF r = NoValue THEN RoleViewer ELSE r

\* ExistsByEmail, then bcrypt; a query error, a taken e-mail or a password
\* bcrypt refuses (over 72 bytes) ends the request with 500 or 409.
CreateExists(w) ==
    /\ pc[w] = "idle" /\ requests < MaxRequests
    /\ requests' = requests + 1
    /\ \E e \in Emails, r \in Roles \cup {NoValue}, failed \in BOOLEAN :
        IF failed \/ ExistsByEmail(e)
        THEN UNCHANGED <<pc, req, user>>
        ELSE /\ pc' = [pc EXCEPT ![w] = "createSave"]
             /\ req' = [req EXCEPT ![w] = [NoRequest EXCEPT !.email = e,
                                                           !.role = RequestedRole(r)]]
             /\ UNCHANGED user
    /\ UNCHANGED <<rows, nextId, audit>>

\* Mutant: the error of Save is not returned; the event is published.
CreateSaveIgnoresError(w) ==
    LET u == [id |-> nextId, email |-> req[w].email, fullName |-> NoValue,
              role |-> req[w].role]
    IN  /\ pc[w] = "createSave" /\ nextId <= MaxUsers
        /\ nextId' = nextId + 1
        /\ \E failed \in BOOLEAN :
            /\ rows' = IF failed \/ EmailTaken(u.email, u.id) THEN rows
                       ELSE rows @@ (u.id :> SavedRow(u))
            /\ pc' = [pc EXCEPT ![w] = "publish"]
            /\ user' = [user EXCEPT ![w] = u]
            /\ UNCHANGED req
        /\ UNCHANGED <<audit, requests>>

\* Save with a fresh uuid; the insert fails on a taken e-mail (500, not 409).
CreateSave(w) ==
    LET u == [id |-> nextId, email |-> req[w].email, fullName |-> NoValue,
              role |-> req[w].role]
    IN  /\ pc[w] = "createSave" /\ nextId <= MaxUsers
        /\ nextId' = nextId + 1
        /\ \E failed \in BOOLEAN :
            IF failed \/ EmailTaken(u.email, u.id)
            THEN Done(w) /\ UNCHANGED rows
            ELSE /\ rows' = rows @@ (u.id :> SavedRow(u))
                 /\ pc' = [pc EXCEPT ![w] = "publish"]
                 /\ user' = [user EXCEPT ![w] = u]
                 /\ UNCHANGED req
        /\ UNCHANGED <<audit, requests>>

\* Publish runs the listener in the caller: OnUserCreated inserts the audit
\* record, best effort; the request answers 201 whether it was written.
Publish(w) ==
    /\ pc[w] = "publish"
    /\ \E written \in BOOLEAN :
        audit' = RecordCreated(user[w].id, written)
    /\ Done(w)
    /\ UNCHANGED <<rows, nextId, requests>>

-----------------------------------------------------------------------------
(* PATCH /api/v1/users/:id: Update and UpdateUser. *)

\* FindByID: a missing or deleted user, or a query error, answers 404.
UpdateFind(w) ==
    /\ pc[w] = "idle" /\ requests < MaxRequests
    /\ requests' = requests + 1
    /\ \E id \in Ids, e \in Emails \cup {NoValue}, n \in Names \cup {NoValue},
          failed \in BOOLEAN :
        IF failed \/ ~FindByID(id)
        THEN UNCHANGED <<pc, req, user>>
        ELSE /\ pc' = [pc EXCEPT ![w] = "updateCheck"]
             /\ req' = [req EXCEPT ![w] = [kind |-> "update", id |-> id,
                                           email |-> e, fullName |-> n, role |-> NoValue]]
             /\ user' = [user EXCEPT ![w] = [id |-> id, email |-> rows[id].email,
                                             fullName |-> rows[id].fullName,
                                             role |-> rows[id].role]]
    /\ UNCHANGED <<rows, nextId, audit>>

\* A new e-mail is checked with ExistsByEmail (409 if taken, 500 on error);
\* the given fields are copied into the user the handler holds.
UpdateCheck(w) ==
    LET r == req[w]
        checks == r.email # NoValue /\ r.email # user[w].email
    IN  /\ pc[w] = "updateCheck"
        /\ \E failed \in BOOLEAN :
            IF checks /\ (failed \/ ExistsByEmail(r.email))
            THEN Done(w)
            ELSE /\ pc' = [pc EXCEPT ![w] = "updateSave"]
                 /\ user' = [user EXCEPT
                        ![w].email = IF checks THEN r.email ELSE @,
                        ![w].fullName = IF r.fullName # NoValue THEN r.fullName ELSE @]
                 /\ UNCHANGED req
        /\ UNCHANGED <<rows, nextId, audit, requests>>

\* Save writes every column of the held user: 200, or 500 when the unique
\* index refuses the e-mail or the statement fails.
UpdateSave(w) ==
    LET u == user[w]
    IN  /\ pc[w] = "updateSave"
        /\ \E failed \in BOOLEAN :
            /\ rows' = IF failed \/ EmailTaken(u.email, u.id) THEN rows
                       ELSE [rows EXCEPT ![u.id] = SavedRow(u)]
        /\ Done(w)
        /\ UNCHANGED <<nextId, audit, requests>>

-----------------------------------------------------------------------------
(* DELETE /api/v1/users/:id: Delete, DeleteUser and SoftDelete. *)

\* 204 also when no row matched, 404 when the statement fails.
Delete(w) ==
    /\ pc[w] = "idle" /\ requests < MaxRequests
    /\ requests' = requests + 1
    /\ \E id \in Ids, failed \in BOOLEAN :
        rows' = IF failed THEN rows ELSE SoftDelete(id)
    /\ UNCHANGED <<nextId, audit, pc, req, user>>

Next ==
    \E w \in Workers :
        \/ CreateExists(w) \/ CreateSave(w) \/ Publish(w)
        \/ UpdateFind(w) \/ UpdateCheck(w) \/ UpdateSave(w)
        \/ Delete(w)

Spec == Init /\ [][Next]_vars /\ \A w \in Workers : WF_vars(CreateSave(w) \/ Publish(w) \/ UpdateCheck(w) \/ UpdateSave(w))

-----------------------------------------------------------------------------
(***************************************************************************)
(* No two users that are not deleted share an e-mail address.  Create and  *)
(* UpdateUser check with ExistsByEmail, but two requests can both pass     *)
(* that check before either saves: the unique index of the table is what  *)
(* refuses the second Save.                                                 *)
(***************************************************************************)
EmailUniqueAmongActive ==
    \A i, j \in DOMAIN rows :
        i # j /\ ~rows[i].deleted /\ ~rows[j].deleted => rows[i].email # rows[j].email

(***************************************************************************)
(* Every "user.created" audit record names a user the table holds: the     *)
(* service publishes UserCreatedEvent only after Save succeeded.            *)
(***************************************************************************)
AuditNamesStoredUser == audit \subseteq DOMAIN rows

(***************************************************************************)
(* A soft-deleted user stays deleted (DeleteUser preserves the row for the *)
(* audit trail; nothing in the API restores it).  Update loads the user    *)
(* with FindByID and later saves every column, deleted_at included.       *)
(***************************************************************************)
DeletedStaysDeleted ==
    [][\A i \in DOMAIN rows : rows[i].deleted => rows'[i].deleted]_vars
=============================================================================
