\* Two employees and two tasks, in sequence or in parallel, perhaps locked by
\* the release that had no JSON column; two requests at a time.  The access to
\* one of the tasks changes.
SPECIFICATION Spec
CONSTANTS
    Users = {u1, u2}
    Tasks = {t1, t2}
    Edited = {t1}
    Requests = {r1, r2}
    NoUser = NoUser
    NoTask = NoTask
    NoRequest = NoRequest
SYMMETRY Symmetry
INVARIANT TypeOK
PROPERTIES LocksAreAsked ImplementsLease RequestsEnd
CHECK_DEADLOCK FALSE
