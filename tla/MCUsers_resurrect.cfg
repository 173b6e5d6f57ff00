\* An update racing a delete of the same user.
CONSTANTS
    w1 = w1
    w2 = w2
    e1 = e1
    e2 = e2
    n1 = n1
    Workers <- MCWorkers
    Emails <- MCEmails
    Names <- MCNames
    Roles <- MCRoles
    MaxUsers = 2
    MaxRequests = 4
SYMMETRY Symmetry
SPECIFICATION Spec
PROPERTY DeletedStaysDeleted
\* The clients send MaxRequests requests; then every handler is idle.
CHECK_DEADLOCK FALSE
