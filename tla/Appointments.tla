---------------------------- MODULE Appointments ----------------------------
(***************************************************************************)
(* One appointment slot and its bookings.  Citizens book a place, clerks   *)
(* approve or reject bookings, record attendance, remove bookings of past  *)
(* days, change the slot and delete it.  Booking and deciding are database *)
(* transactions that lock rows; everything else reads first and writes     *)
(* later, without a lock.                                                  *)
(***************************************************************************)
EXTENDS Naturals, Sequences, FiniteSets

CONSTANTS
    Citizens,
    Requests,     \* requests the server handles at the same time
    NoRequest,
    Capacities,   \* what clerks choose as the capacity
    LastDay,      \* bound: days are 1..LastDay
    MaxBookings,  \* bound: bookings ever made
    MaxCrashes    \* bound: restarts of the server

ASSUME AppointmentsAssumption ==
    /\ NoRequest \notin Requests
    /\ Capacities \subseteq Nat \ {0}
    /\ {LastDay, MaxBookings, MaxCrashes} \subseteq Nat

VARIABLES
    slot,         \* the appointment_slots row; its schedule is its date
    exists,       \* the row has not been deleted
    bookings,     \* appointment_bookings in the order of their ids
    slotLock,     \* the request whose transaction has locked the slot
    bookingLock,  \* and for each booking
    req,          \* the requests under way
    today, crashes

vars == <<slot, exists, bookings, slotLock, bookingLock, req, today, crashes>>

Days == 1..LastDay
Slots == [date: Days, capacity: Capacities]

(***************************************************************************)
(* order is queue_order, 0 for null; agreed is history: the date the clerk *)
(* saw when he approved the booking.                                       *)
(***************************************************************************)
Booking == [citizen: Citizens,
            status: {"pending", "approved", "rejected", "postponed", "gone"},
            order: Nat, attended: BOOLEAN, agreed: 0..LastDay]

\* What Sequelize writes when old was read: the fields that are to differ.
Changes(old, new) == [f \in {g \in DOMAIN old : new[g] # old[g]} |-> new[f]]

\* The row of the slot after the fields of set have been written.
Written(set) == [f \in DOMAIN slot |-> IF f \in DOMAIN set THEN set[f] ELSE slot[f]]

\* What a request can be while there are these bookings.
Locals ==
    [pc: {"idle", "mark", "destroy", "cascade"}]
    \cup [pc: {"insert"}, citizen: Citizens]
    \cup [pc: {"slot"}, booking: DOMAIN bookings, decision: {"approved", "rejected"}]
    \cup [pc: {"decide"}, booking: DOMAIN bookings, decision: {"approved", "rejected"},
          order: Nat, date: Days]
    \cup [pc: {"write"}, set: {Changes(old, new) : old, new \in Slots}]
    \cup [pc: {"attend", "remove"}, booking: DOMAIN bookings]

TypeOK ==
    /\ slot \in Slots
    /\ exists \in BOOLEAN
    /\ bookings \in Seq(Booking) /\ Len(bookings) <= MaxBookings
    /\ slotLock \in Requests \cup {NoRequest}
    /\ bookingLock \in [1..MaxBookings -> Requests \cup {NoRequest}]
    /\ req \in [Requests -> Locals]
    /\ today \in Days
    /\ crashes \in 0..MaxCrashes

Idle == [pc |-> "idle"]

Init ==
    /\ slot \in Slots
    /\ exists = TRUE
    /\ bookings = <<>>
    /\ slotLock = NoRequest
    /\ bookingLock = [b \in 1..MaxBookings |-> NoRequest]
    /\ req = [q \in Requests |-> Idle]
    /\ today = 1
    /\ crashes = 0

-----------------------------------------------------------------------------
(* The rows *)

HasStatus(S) == {b \in DOMAIN bookings : bookings[b].status \in S}

Live == HasStatus({"pending", "approved", "rejected", "postponed"})
Occupied == HasStatus({"approved", "postponed"})
Active(c) == {b \in HasStatus({"pending", "approved", "postponed"}) :
                bookings[b].citizen = c}

(* Mutant: the row is kept as cancelled *)
Cancelled(b) ==
    [bookings[b] EXCEPT !.status = "cancelled", !.order = 0, !.attended = FALSE, !.agreed = 0]

Gone(b) == [bookings[b] EXCEPT !.status = "gone", !.order = 0, !.attended = FALSE, !.agreed = 0]

\* countOccupiedByAppointmentId against the capacity
Full == Cardinality(Occupied) >= slot.capacity

(* Mutant: postponed bookings do not count *)
MaxApprovedOrder ==
    LET S == HasStatus({"approved"}) IN
    IF S = {} THEN 0
    ELSE CHOOSE n \in {bookings[b].order : b \in S} :
            \A b \in S : bookings[b].order <= n

\* findMaxQueueOrder, 0 without occupied bookings
MaxOrder ==
    IF Occupied = {} THEN 0
    ELSE CHOOSE n \in {bookings[b].order : b \in Occupied} :
            \A b \in Occupied : bookings[b].order <= n

SlotFree == slotLock = NoRequest
BookingFree(b) == bookingLock[b] = NoRequest

\* Commit or roll-back.
Unlock(q) ==
    /\ slotLock' = IF slotLock = q THEN NoRequest ELSE slotLock
    /\ bookingLock' = [b \in 1..MaxBookings |->
            IF bookingLock[b] = q THEN NoRequest ELSE bookingLock[b]]

End(q) == Unlock(q) /\ req' = [req EXCEPT ![q] = Idle]

-----------------------------------------------------------------------------
(* Booking a place: one transaction under the lock of the slot             *)

(* Mutant: the slot is read without a lock *)
BookUnlocked(q, c) ==
    /\ req[q].pc = "idle"
    /\ exists /\ slot.date >= today
    /\ Active(c) = {}
    /\ ~Full
    /\ UNCHANGED slotLock
    /\ req' = [req EXCEPT ![q] = [pc |-> "insert", citizen |-> c]]
    /\ UNCHANGED <<slot, exists, bookings, bookingLock, today, crashes>>

Book(q, c) ==
    /\ req[q].pc = "idle"
    /\ SlotFree
    /\ exists /\ slot.date >= today
    /\ Active(c) = {}
    /\ ~Full
    /\ slotLock' = q
    /\ req' = [req EXCEPT ![q] = [pc |-> "insert", citizen |-> c]]
    /\ UNCHANGED <<slot, exists, bookings, bookingLock, today, crashes>>

(* Mutant: the transaction is never committed *)
ForgetToCommit(q) ==
    /\ req[q].pc = "insert"
    /\ Len(bookings) < MaxBookings
    /\ bookings' = Append(bookings, [citizen |-> req[q].citizen, status |-> "pending",
                                     order |-> 0, attended |-> FALSE, agreed |-> 0])
    /\ UNCHANGED <<slotLock, bookingLock>>
    /\ req' = [req EXCEPT ![q] = Idle]
    /\ UNCHANGED <<slot, exists, today, crashes>>

CreateBooking(q) ==
    /\ req[q].pc = "insert"
    /\ Len(bookings) < MaxBookings
    /\ bookings' = Append(bookings, [citizen |-> req[q].citizen, status |-> "pending",
                                     order |-> 0, attended |-> FALSE, agreed |-> 0])
    /\ End(q)
    /\ UNCHANGED <<slot, exists, today, crashes>>

-----------------------------------------------------------------------------
(* Deciding on a booking: first its lock, then the slot's                  *)

(* Mutant: the booking is read without a lock *)
DecideUnlocked(q, b, decision) ==
    /\ req[q].pc = "idle"
    /\ b \in HasStatus({"pending"})
    /\ UNCHANGED bookingLock
    /\ req' = [req EXCEPT ![q] = [pc |-> "slot", booking |-> b, decision |-> decision]]
    /\ UNCHANGED <<slot, exists, bookings, slotLock, today, crashes>>

Decide(q, b, decision) ==
    /\ req[q].pc = "idle"
    /\ b \in HasStatus({"pending"})
    /\ BookingFree(b)
    /\ bookingLock' = [bookingLock EXCEPT ![b] = q]
    /\ req' = [req EXCEPT ![q] = [pc |-> "slot", booking |-> b, decision |-> decision]]
    /\ UNCHANGED <<slot, exists, bookings, slotLock, today, crashes>>

Order(q) == IF req[q].decision = "approved" THEN MaxOrder + 1 ELSE 0

(* Mutant: the slot is read without a lock *)
ReadSlot(q) ==
    /\ req[q].pc = "slot"
    /\ SlotFree
    /\ IF ~exists \/ Order(q) > slot.capacity \/ (req[q].decision = "approved" /\ Full)
       THEN End(q)
       ELSE /\ slotLock' = slotLock
            /\ req' = [req EXCEPT ![q] = [pc |-> "decide", booking |-> req[q].booking,
                        decision |-> req[q].decision, order |-> Order(q),
                        date |-> slot.date]]
            /\ UNCHANGED bookingLock
    /\ UNCHANGED <<slot, exists, bookings, today, crashes>>

\* An approval needs a place, and an order within the capacity.
LockSlot(q) ==
    /\ req[q].pc = "slot"
    /\ SlotFree
    /\ IF ~exists \/ Order(q) > slot.capacity \/ (req[q].decision = "approved" /\ Full)
       THEN End(q)
       ELSE /\ slotLock' = q
            /\ req' = [req EXCEPT ![q] = [pc |-> "decide", booking |-> req[q].booking,
                        decision |-> req[q].decision, order |-> Order(q),
                        date |-> slot.date]]
            /\ UNCHANGED bookingLock
    /\ UNCHANGED <<slot, exists, bookings, today, crashes>>

UpdateBooking(q) ==
    LET b == req[q].booking IN
    /\ req[q].pc = "decide"
    /\ bookings' = [bookings EXCEPT
            ![b].status = req[q].decision,
            ![b].order = req[q].order,
            ![b].agreed = IF req[q].decision = "approved" THEN req[q].date ELSE 0]
    /\ End(q)
    /\ UNCHANGED <<slot, exists, today, crashes>>

-----------------------------------------------------------------------------
(* Changing the slot, without a transaction                                *)

UpdateSlot(q, new) ==
    /\ req[q].pc = "idle"
    /\ exists
    /\ new.capacity >= Cardinality(Occupied)
    /\ req' = [req EXCEPT ![q] = [pc |-> "write", set |-> Changes(slot, new)]]
    /\ UNCHANGED <<slot, exists, bookings, slotLock, bookingLock, today, crashes>>

(* Mutant: the write does not wait for the lock *)
WriteSlotUnlocked(q) ==
    /\ req[q].pc = "write"
    /\ slot' = IF exists THEN Written(req[q].set) ELSE slot
    /\ req' = [req EXCEPT ![q] =
            IF "date" \in DOMAIN req[q].set THEN [pc |-> "mark"] ELSE Idle]
    /\ UNCHANGED <<exists, bookings, slotLock, bookingLock, today, crashes>>

WriteSlot(q) ==
    /\ req[q].pc = "write"
    /\ SlotFree
    /\ slot' = IF exists THEN Written(req[q].set) ELSE slot
    /\ req' = [req EXCEPT ![q] =
            IF "date" \in DOMAIN req[q].set THEN [pc |-> "mark"] ELSE Idle]
    /\ UNCHANGED <<exists, bookings, slotLock, bookingLock, today, crashes>>

MarkApprovedAsPostponed(q) ==
    /\ req[q].pc = "mark"
    /\ bookings' = [b \in DOMAIN bookings |->
            IF bookings[b].status = "approved"
            THEN [bookings[b] EXCEPT !.status = "postponed"] ELSE bookings[b]]
    /\ req' = [req EXCEPT ![q] = Idle]
    /\ UNCHANGED <<slot, exists, slotLock, bookingLock, today, crashes>>

-----------------------------------------------------------------------------
(* Deleting the slot: the citizens are notified, then the row goes and     *)
(* its bookings with it (ON DELETE CASCADE).                               *)

DeleteSlot(q) ==
    /\ req[q].pc = "idle"
    /\ exists
    /\ req' = [req EXCEPT ![q] = [pc |-> "destroy"]]
    /\ UNCHANGED <<slot, exists, bookings, slotLock, bookingLock, today, crashes>>

Destroy(q) ==
    /\ req[q].pc = "destroy"
    /\ SlotFree
    /\ IF exists
       THEN slotLock' = q /\ req' = [req EXCEPT ![q] = [pc |-> "cascade"]]
       ELSE slotLock' = slotLock /\ req' = [req EXCEPT ![q] = Idle]
    /\ UNCHANGED <<slot, exists, bookings, bookingLock, today, crashes>>

Cascade(q) ==
    /\ req[q].pc = "cascade"
    /\ \A b \in DOMAIN bookings : BookingFree(b)
    /\ exists' = FALSE
    /\ bookings' = [b \in DOMAIN bookings |-> Gone(b)]
    /\ End(q)
    /\ UNCHANGED <<slot, today, crashes>>

\* Of two transactions that wait for each other PostgreSQL aborts one.
DeadlockDetected ==
    \E p, q \in Requests :
        /\ req[p].pc = "slot" /\ req[q].pc = "cascade"
        /\ slotLock = q
        /\ \/ End(p)
           \/ End(q)
        /\ UNCHANGED <<slot, exists, bookings, today, crashes>>

-----------------------------------------------------------------------------
(* Attendance and clearing away, both checked on what has been read before *)

UpdateAttendance(q, b) ==
    /\ req[q].pc = "idle"
    /\ b \in Occupied
    /\ slot.date <= today
    /\ req' = [req EXCEPT ![q] = [pc |-> "attend", booking |-> b]]
    /\ UNCHANGED <<slot, exists, bookings, slotLock, bookingLock, today, crashes>>

WriteAttendance(q) ==
    LET b == req[q].booking IN
    /\ req[q].pc = "attend"
    /\ BookingFree(b)
    /\ \E attended \in BOOLEAN :
         bookings' = IF b \in Live THEN [bookings EXCEPT ![b].attended = attended]
                                   ELSE bookings
    /\ req' = [req EXCEPT ![q] = Idle]
    /\ UNCHANGED <<slot, exists, slotLock, bookingLock, today, crashes>>

DeletePastBooking(q, b) ==
    /\ req[q].pc = "idle"
    /\ b \in Live
    /\ slot.date < today
    /\ req' = [req EXCEPT ![q] = [pc |-> "remove", booking |-> b]]
    /\ UNCHANGED <<slot, exists, bookings, slotLock, bookingLock, today, crashes>>

DeleteBooking(q) ==
    LET b == req[q].booking IN
    /\ req[q].pc = "remove"
    /\ BookingFree(b)
    /\ bookings' = [bookings EXCEPT ![b] = Gone(b)]
    /\ req' = [req EXCEPT ![q] = Idle]
    /\ UNCHANGED <<slot, exists, slotLock, bookingLock, today, crashes>>

-----------------------------------------------------------------------------
Tomorrow ==
    /\ today < LastDay
    /\ today' = today + 1
    /\ UNCHANGED <<slot, exists, bookings, slotLock, bookingLock, req, crashes>>

\* A restart rolls the open transactions back.
Crash ==
    /\ crashes < MaxCrashes
    /\ crashes' = crashes + 1
    /\ slotLock' = NoRequest
    /\ bookingLock' = [b \in 1..MaxBookings |-> NoRequest]
    /\ req' = [q \in Requests |-> Idle]
    /\ UNCHANGED <<slot, exists, bookings, today>>

Arrive(q) ==
    \/ \E c \in Citizens : Len(bookings) < MaxBookings /\ Book(q, c)
    \/ \E b \in DOMAIN bookings :
         \/ \E decision \in {"approved", "rejected"} : Decide(q, b, decision)
         \/ UpdateAttendance(q, b)
         \/ DeletePastBooking(q, b)
    \/ \E new \in Slots : UpdateSlot(q, new)
    \/ DeleteSlot(q)

Serve(q) ==
    \/ CreateBooking(q) \/ LockSlot(q) \/ UpdateBooking(q)
    \/ WriteSlot(q) \/ MarkApprovedAsPostponed(q)
    \/ Destroy(q) \/ Cascade(q)
    \/ WriteAttendance(q) \/ DeleteBooking(q)

Next ==
    \/ \E q \in Requests : Arrive(q) \/ Serve(q)
    \/ DeadlockDetected
    \/ Tomorrow
    \/ Crash

(***************************************************************************)
(* PostgreSQL queues whoever waits for a row and finds deadlocks; nobody   *)
(* has to send a request.                                                  *)
(***************************************************************************)
Fairness == WF_vars(DeadlockDetected) /\ \A q \in Requests : SF_vars(Serve(q))

Spec == Init /\ [][Next]_vars /\ Fairness

-----------------------------------------------------------------------------
(* Properties                                                              *)

(***************************************************************************)
(* A citizen has one active booking at most, however his requests overlap  *)
(* (bookAppointmentService looks for another under the lock of the slot;   *)
(* the table has no unique constraint).                                    *)
(***************************************************************************)
OneBooking == \A c \in Citizens : Cardinality(Active(c)) <= 1

(***************************************************************************)
(* Nobody shares his place in the queue, over approvals at the same time   *)
(* and bookings that were removed in between, and whoever has a place or   *)
(* has attended has been approved (decideBookingService).                  *)
(***************************************************************************)
QueueOrders ==
    /\ \A a, b \in Occupied : bookings[a].order = bookings[b].order => a = b
    /\ \A b \in Live : (bookings[b].order > 0) <=> (b \in Occupied)
    /\ \A b \in Live : bookings[b].attended => b \in Occupied

(***************************************************************************)
(* An approval never leaves more bookings than places, although the        *)
(* capacity changes between the check and the write of other requests.     *)
(***************************************************************************)
NeverOverbooks ==
    [][Cardinality(Occupied') > Cardinality(Occupied) =>
        Cardinality(Occupied') <= slot'.capacity]_vars

(***************************************************************************)
(* A booking shown as approved was approved for the date the slot has now: *)
(* a change of the date postpones every earlier approval, also one that    *)
(* was under way, at the latest when the request that changed it ends      *)
(* (updateAppointmentSlotService), unless a restart cuts it off.           *)
(***************************************************************************)
ApprovedForDate ==
    crashes = 0 =>
        \A b \in HasStatus({"approved"}) :
            \/ bookings[b].agreed = slot.date
            \/ \E q \in Requests : req[q].pc = "mark"

(***************************************************************************)
(* A decision is taken once: of two clerks who decide on a booking at the  *)
(* same time one is told that it is no longer pending.                     *)
(***************************************************************************)
DecidedOnce ==
    [][\A b \in Live \ HasStatus({"pending"}) :
         \/ bookings'[b].status = "gone"
         \/ /\ bookings'[b].status \in {bookings[b].status, "postponed"}
            /\ bookings'[b].order = bookings[b].order]_vars

(***************************************************************************)
(* Every request ends, although decisions and the deletion of the slot     *)
(* take the two locks in opposite order.                                   *)
(***************************************************************************)
RequestsEnd == \A q \in Requests : req[q].pc # "idle" ~> req[q].pc = "idle"
=============================================================================
