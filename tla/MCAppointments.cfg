\* Two citizens and two requests at a time, two bookings over two days.
SPECIFICATION Spec
CONSTANTS
    Citizens = {c1, c2}
    Requests = {q1, q2}
    NoRequest = NoRequest
    Capacities = {1, 2}
    LastDay = 2
    MaxBookings = 2
    MaxCrashes = 1
INVARIANTS TypeOK OneBooking QueueOrders ApprovedForDate
PROPERTIES NeverOverbooks DecidedOnce RequestsEnd
CHECK_DEADLOCK FALSE
