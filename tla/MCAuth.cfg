\* Registration, login, refresh, update and delete with expiring tokens.
CONSTANTS
    w1 = w1
    w2 = w2
    e1 = e1
    e2 = e2
    n1 = n1
    Workers <- MCWorkers
    Emails <- MCEmails
    Names <- MCNames
    Roles <- MCRoles
    MaxUsers = 2
    MaxRequests = 3
    AccessTTL = 1
    RefreshTTL = 2
    MaxTime = 2
    MaxAuth = 2
SYMMETRY Symmetry
SPECIFICATION AuthSpec
INVARIANT AuthTypeOK
INVARIANT EmailUniqueAmongActive
INVARIANT AuditNamesStoredUser
INVARIANT DeletesByAdmins
INVARIANT ProfilesToOwnerOrAdmin
\* The clients send MaxRequests requests and MaxAuth logins or refreshes;
\* then every handler is idle and the clock stops at MaxTime.
CHECK_DEADLOCK FALSE
