-------------------------- MODULE AppointmentsProofs --------------------------
(***************************************************************************)
(* Bookings and their queue are right for any citizens, requests and       *)
(* capacities, over any number of bookings, days and restarts.             *)
(*                                                                         *)
(* The argument: what a request has checked under a lock stays true until  *)
(* it commits.  Without the locks the steps of the other requests only let *)
(* bookings fade: they go, are postponed or are marked as attended, and    *)
(* none of that takes a place, an order or the citizen's only booking.     *)
(***************************************************************************)
EXTENDS Appointments, FiniteSetTheorems, SequenceTheorems, TLAPS

(* The steps that hold the slot's lock, and those that hold a booking's.   *)
Holding == {"insert", "decide", "cascade"}
Deciding == {"slot", "decide"}

Approved(l) == l.decision = "approved"

(* What request q knows, with what it has locked. *)
LocalInv(q) ==
    LET l == req[q] IN
    /\ slotLock = q <=> l.pc \in Holding
    /\ \A b \in 1..MaxBookings :
         bookingLock[b] = q <=> l.pc \in Deciding /\ l.booking = b
    /\ l.pc \in Deciding => bookings[l.booking].status = "pending"
    /\ l.pc = "insert" => Active(l.citizen) = {}
    /\ l.pc = "decide" =>
         /\ l.date = slot.date
         /\ Approved(l) => /\ Cardinality(Occupied) < slot.capacity
                           /\ l.order > 0
                           /\ \A b \in Occupied : bookings[b].order < l.order
         /\ ~Approved(l) => l.order = 0
    /\ l.pc = "attend" =>
         bookings[l.booking].status \in {"approved", "postponed", "gone"}

(* OneBooking without a cardinality. *)
Single == \A c \in Citizens : \A a, b \in Active(c) : a = b

IInv ==
    /\ TypeOK
    /\ \A q \in Requests : LocalInv(q)
    /\ Single
    /\ QueueOrders
    /\ ApprovedForDate

-----------------------------------------------------------------------------
(* Finite sets of numbers                                                  *)

(* A finite set of numbers that is not empty has a greatest one: of its    *)
(* subsets without one a smallest would have one without an element.       *)
LEMMA FiniteMax ==
    ASSUME NEW S \in SUBSET Nat, IsFiniteSet(S), S # {}
    PROVE  \E m \in S : \A x \in S : x <= m
  <1> DEFINE Bad == {U \in SUBSET S : U # {} /\ ~ \E m \in U : \A x \in U : x <= m}
  <1>1. SUFFICES ASSUME S \in Bad PROVE FALSE
    OBVIOUS
  <1>2. Bad \subseteq FiniteSubsetsOf(S)
    BY FS_FiniteSubsetsOfFinite
  <1>3. PICK U \in Bad : \A V \in Bad : <<V, U>> \notin StrictSubsetOrdering(S)
    BY <1>1, <1>2, WFMin, FS_StrictSubsetOrderingWellFounded
  <1>4. PICK x \in U : TRUE
    BY <1>3
  <1>5. <<U \ {x}, U>> \in StrictSubsetOrdering(S)
    BY <1>3, <1>4 DEF StrictSubsetOrdering
  <1>6. U \ {x} \notin Bad
    BY <1>3, <1>5
  <1>7. CASE U \ {x} = {}
    BY <1>3, <1>4, <1>7
  <1>8. CASE U \ {x} # {}
    <2>1. PICK m \in U \ {x} : \A y \in U \ {x} : y <= m
      BY <1>3, <1>6, <1>8
    <2>2. x \in Nat /\ m \in Nat /\ U \subseteq Nat
      BY <1>3, <1>4, <2>1
    <2>3. CASE x <= m
      BY <1>3, <2>1, <2>2, <2>3
    <2>4. CASE m < x
      <3>1. \A y \in U : y <= x
        BY <2>1, <2>2, <2>4
      <3> QED
        BY <1>3, <1>4, <3>1
    <2> QED
      BY <2>2, <2>3, <2>4
  <1> QED
    BY <1>7, <1>8

LEMMA Domains ==
    ASSUME TypeOK
    PROVE  /\ Len(bookings) \in Nat /\ DOMAIN bookings = 1..Len(bookings)
           /\ \A b \in 1..Len(bookings) : bookings[b] \in Booking /\ b \in 1..MaxBookings
           /\ \A S : HasStatus(S) \subseteq 1..Len(bookings)
           /\ \A S : IsFiniteSet(HasStatus(S)) /\ Cardinality(HasStatus(S)) \in Nat
  <1>1. /\ Len(bookings) \in Nat /\ DOMAIN bookings = 1..Len(bookings)
        /\ \A b \in 1..Len(bookings) : bookings[b] \in Booking
    BY LenProperties, ElementOfSeq DEF TypeOK
  <1>2. \A b \in 1..Len(bookings) : b \in 1..MaxBookings
    BY <1>1, AppointmentsAssumption DEF TypeOK
  <1>3. ASSUME NEW S
        PROVE  /\ HasStatus(S) \subseteq 1..Len(bookings)
               /\ IsFiniteSet(HasStatus(S)) /\ Cardinality(HasStatus(S)) \in Nat
    <2>1. HasStatus(S) \in SUBSET (1..Len(bookings))
      BY <1>1 DEF HasStatus
    <2>2. IsFiniteSet(1..Len(bookings))
      BY <1>1, FS_Interval
    <2> QED
      BY <2>1, <2>2, FS_Subset, FS_CardinalityType
  <1> QED
    BY <1>1, <1>2, <1>3

(* findMaxQueueOrder bounds every order in the queue. *)
LEMMA MaxOrderBounds ==
    ASSUME TypeOK
    PROVE  MaxOrder \in Nat /\ \A b \in Occupied : bookings[b].order <= MaxOrder
  <1>1. CASE Occupied = {}
    BY <1>1 DEF MaxOrder
  <1>2. CASE Occupied # {}
    <2>1. PICK S : S = {bookings[b].order : b \in Occupied}
      OBVIOUS
    <2>2. S \in SUBSET Nat /\ S # {}
      BY <1>2, <2>1, Domains DEF Occupied, Booking
    <2>3. IsFiniteSet(S)
      <3>1. IsFiniteSet(Occupied)
        BY Domains DEF Occupied
      <3>2. [b \in Occupied |-> bookings[b].order] \in Surjection(Occupied, S)
        BY <2>1 DEF Surjection
      <3> QED
        BY <3>1, <3>2, FS_Surjection
    <2>4. \E n \in S : \A b \in Occupied : bookings[b].order <= n
      BY <2>1, <2>2, <2>3, FiniteMax
    <2>5. MaxOrder = CHOOSE n \in S : \A b \in Occupied : bookings[b].order <= n
      BY <1>2, <2>1 DEF MaxOrder
    <2>6. MaxOrder \in S /\ \A b \in Occupied : bookings[b].order <= MaxOrder
      BY <2>4, <2>5
    <2> QED
      BY <2>2, <2>6
  <1> QED
    BY <1>1, <1>2
LEMMA IdleType == Idle \in Locals
  BY DEF Idle, Locals

LEMMA InitInvariant == Init => IInv
  <1> SUFFICES ASSUME Init PROVE IInv
    OBVIOUS
  <1> USE DEF Init
  <1>1. bookings = <<>> /\ \A S : HasStatus(S) = {}
    BY DEF HasStatus
  <1>2. TypeOK
    BY <1>1, IdleType, EmptySeq, AppointmentsAssumption DEF TypeOK, Slots, Days
  <1>3. \A q \in Requests : LocalInv(q)
    BY AppointmentsAssumption DEF LocalInv, Idle, Holding, Deciding
  <1> QED
    BY <1>1, <1>2, <1>3
    DEF IInv, Single, Active, QueueOrders, Occupied, Live, ApprovedForDate

-----------------------------------------------------------------------------
(* Bookings that fade                                                      *)

(* Without a lock a booking can only go, be postponed or be marked as      *)
(* attended.                                                               *)
Fades(b) ==
    /\ bookings'[b].citizen = bookings[b].citizen
    /\ \/ /\ bookings'[b].status = "gone"
          /\ bookings'[b].order = 0 /\ bookings'[b].attended = FALSE
       \/ /\ \/ bookings'[b].status = bookings[b].status
             \/ bookings[b].status = "approved" /\ bookings'[b].status = "postponed"
          /\ bookings'[b].order = bookings[b].order
          /\ bookings'[b].agreed = bookings[b].agreed
          /\ bookings'[b].attended => bookings[b].attended \/ b \in Occupied

Faded ==
    /\ bookings' \in Seq(Booking) /\ Len(bookings') = Len(bookings)
    /\ \A b \in 1..Len(bookings) :
         /\ Fades(b)
         /\ bookings[b].status = "pending" /\ bookingLock[b] \in Requests =>
                bookings'[b].status = "pending"

(* What fades takes no place, no order and no citizen's booking.           *)
LEMMA FadeKeeps ==
    ASSUME TypeOK, Single, QueueOrders, Faded
    PROVE  /\ DOMAIN bookings' = DOMAIN bookings
           /\ Occupied' \subseteq Occupied
           /\ \A b \in Occupied' : bookings'[b].order = bookings[b].order
           /\ Cardinality(Occupied') <= Cardinality(Occupied)
           /\ \A c : Active(c)' \subseteq Active(c)
           /\ \A b \in HasStatus({"approved"})' :
                b \in HasStatus({"approved"}) /\ bookings'[b].agreed = bookings[b].agreed
           /\ Single' /\ QueueOrders'
  <1>1. DOMAIN bookings' = 1..Len(bookings) /\ DOMAIN bookings = 1..Len(bookings)
    BY Domains, LenProperties DEF Faded
  <1>2. \A b \in 1..Len(bookings) : bookings[b] \in Booking /\ bookings'[b] \in Booking
    BY Domains, ElementOfSeq DEF Faded
  <1>3. Occupied' \subseteq Occupied
    BY <1>1, <1>2 DEF Faded, Fades, Occupied, HasStatus
  <1>4. \A b \in Occupied' : bookings'[b].order = bookings[b].order
    BY <1>1, <1>2 DEF Faded, Fades, Occupied, HasStatus
  <1>5. Cardinality(Occupied') <= Cardinality(Occupied)
    <2>1. IsFiniteSet(Occupied)
      BY Domains DEF Occupied
    <2> QED
      BY <1>3, <2>1, FS_Subset
  <1>6. \A c : Active(c)' \subseteq Active(c)
    BY <1>1, <1>2 DEF Faded, Fades, Active, HasStatus
  <1>7. \A b \in HasStatus({"approved"})' :
           b \in HasStatus({"approved"}) /\ bookings'[b].agreed = bookings[b].agreed
    BY <1>1, <1>2 DEF Faded, Fades, HasStatus
  <1>8. Single'
    BY <1>6 DEF Single
  <1>9. QueueOrders'
    <2>1. \A a, b \in Occupied' : bookings'[a].order = bookings'[b].order => a = b
      BY <1>3, <1>4 DEF QueueOrders
    <2>2. ASSUME NEW b \in Live'
          PROVE  /\ (bookings'[b].order > 0) <=> (b \in Occupied')
                 /\ bookings'[b].attended => b \in Occupied'
      <3>1. b \in 1..Len(bookings) /\ Fades(b) /\ bookings'[b].status # "gone"
        BY <1>1, <2>2 DEF Live, HasStatus, Faded
      <3>2. b \in Live /\ (b \in Occupied <=> b \in Occupied')
        BY <1>1, <1>2, <3>1, <2>2 DEF Fades, Live, Occupied, HasStatus
      <3>3. /\ bookings'[b].order = bookings[b].order
            /\ bookings'[b].attended => bookings[b].attended \/ b \in Occupied
        BY <3>1 DEF Fades
      <3> QED
        BY <3>2, <3>3 DEF QueueOrders
    <2> QED
      BY <2>1, <2>2 DEF QueueOrders
  <1> QED
    BY <1>1, <1>3, <1>4, <1>5, <1>6, <1>7, <1>8, <1>9

LEMMA NothingFades ==
    ASSUME TypeOK, UNCHANGED bookings
    PROVE  Faded
  BY DEF TypeOK, Faded, Fades

-----------------------------------------------------------------------------
(* The requests                                                            *)

LocksKept(p) ==
    /\ slotLock' = p <=> slotLock = p
    /\ \A b \in 1..MaxBookings : bookingLock'[b] = p <=> bookingLock[b] = p

LEMMA LocalsGrow ==
    ASSUME TypeOK, bookings' \in Seq(Booking), Len(bookings) <= Len(bookings'),
           NEW l \in Locals
    PROVE  l \in Locals'
  <1>1. DOMAIN bookings \subseteq DOMAIN bookings'
    BY Domains, LenProperties
  <1> QED
    BY <1>1 DEF Locals

(* A request that does not move knows what it knew: what it has locked     *)
(* nobody else decides on, and bookings only fade under the slot's lock.   *)
LEMMA OthersKeep ==
    ASSUME IInv, NEW p \in Requests, req'[p] = req[p], LocksKept(p),
           bookings' \in Seq(Booking), Len(bookings) <= Len(bookings'),
           \A b \in 1..Len(bookings) :
             /\ bookings[b].status = "pending" /\ bookingLock[b] = p =>
                    bookings'[b].status = "pending"
             /\ bookings[b].status \in {"approved", "postponed", "gone"} =>
                    bookings'[b].status \in {"approved", "postponed", "gone"},
           slotLock = p => slot' = slot /\ Faded
    PROVE  LocalInv(p)'
  <1>1. TypeOK /\ LocalInv(p) /\ req[p] \in Locals /\ Single /\ QueueOrders
    BY DEF IInv, TypeOK
  <1>2. /\ slotLock' = p <=> req[p].pc \in Holding
        /\ \A b \in 1..MaxBookings :
             bookingLock'[b] = p <=> req[p].pc \in Deciding /\ req[p].booking = b
    BY <1>1 DEF LocalInv, LocksKept
  <1>3. req[p].pc \in Deciding => bookings'[req[p].booking].status = "pending"
    <2>1. SUFFICES ASSUME req[p].pc \in Deciding
                   PROVE  bookings'[req[p].booking].status = "pending"
      OBVIOUS
    <2>2. req[p].booking \in 1..Len(bookings)
      BY <1>1, <2>1, Domains DEF Locals, Deciding
    <2>3. req[p].booking \in 1..MaxBookings
      BY <1>1, <2>2, Domains
    <2> QED
      BY <1>1, <2>1, <2>2, <2>3 DEF LocalInv
  <1>4. req[p].pc = "insert" => (Active(req[p].citizen) = {})'
    BY <1>1, FadeKeeps DEF LocalInv, Holding
  <1>5. req[p].pc = "decide" =>
         /\ req[p].date = slot'.date
         /\ Approved(req[p]) =>
              /\ Cardinality(Occupied') < slot'.capacity
              /\ req[p].order > 0
              /\ \A b \in Occupied' : bookings'[b].order < req[p].order
         /\ ~Approved(req[p]) => req[p].order = 0
    <2>1. SUFFICES ASSUME req[p].pc = "decide"
                   PROVE  /\ req[p].date = slot'.date
                          /\ Approved(req[p]) =>
                               /\ Cardinality(Occupied') < slot'.capacity
                               /\ req[p].order > 0
                               /\ \A b \in Occupied' : bookings'[b].order < req[p].order
                          /\ ~Approved(req[p]) => req[p].order = 0
      OBVIOUS
    <2>2. Faded /\ slot' = slot
      BY <1>1, <2>1 DEF LocalInv, Holding
    <2>3. IsFiniteSet(Occupied) /\ Cardinality(Occupied) \in Nat /\ slot.capacity \in Nat
      BY <1>1, Domains, AppointmentsAssumption DEF Occupied, TypeOK, Slots
    <2>4. Cardinality(Occupied') \in Nat
      BY <1>1, <2>2, <2>3, FadeKeeps, FS_Subset, FS_CardinalityType
    <2> QED
      BY <1>1, <2>1, <2>2, <2>3, <2>4, FadeKeeps DEF LocalInv
  <1>6. req[p].pc = "attend" =>
         bookings'[req[p].booking].status \in {"approved", "postponed", "gone"}
    <2>1. req[p].pc = "attend" => req[p].booking \in 1..Len(bookings)
      BY <1>1, Domains DEF Locals
    <2> QED
      BY <1>1, <2>1 DEF LocalInv
  <1> QED
    BY <1>2, <1>3, <1>4, <1>5, <1>6 DEF LocalInv, Approved

(* A step of request q, which goes on as n.                                *)
GoesOn(q, n) ==
    /\ req' = [req EXCEPT ![q] = n]
    /\ n \in Locals'
    /\ LocalInv(q)'
    /\ \A p \in Requests \ {q} : LocksKept(p)
    /\ slotLock' \in Requests \cup {NoRequest}
    /\ bookingLock' \in [1..MaxBookings -> Requests \cup {NoRequest}]

SlotGoesOn ==
    /\ slot' \in Slots /\ (slot' = slot \/ SlotFree)
    /\ exists' \in BOOLEAN /\ today' \in Days /\ crashes' \in 0..MaxCrashes

LEMMA StepKeeps ==
    ASSUME IInv, NEW q \in Requests, NEW n, GoesOn(q, n), SlotGoesOn, Faded, ApprovedForDate'
    PROVE  IInv'
  <1>1. TypeOK /\ Single /\ QueueOrders
    BY DEF IInv
  <1>2. \A p \in Requests : req'[p] = IF p = q THEN n ELSE req[p]
    BY <1>1 DEF TypeOK, GoesOn
  <1>3. TypeOK'
    <2>1. \A p \in Requests : req'[p] \in Locals'
      BY <1>1, <1>2, LocalsGrow, Domains DEF GoesOn, Faded, TypeOK
    <2>2. req' \in [Requests -> Locals']
      BY <1>1, <2>1 DEF GoesOn, TypeOK
    <2> QED
      BY <1>1, <2>2 DEF TypeOK, GoesOn, SlotGoesOn, Faded
  <1>4. ASSUME NEW p \in Requests \ {q} PROVE LocalInv(p)'
    <2>1. req'[p] = req[p] /\ LocksKept(p) /\ (slotLock = p => slot' = slot)
      BY <1>2, AppointmentsAssumption DEF GoesOn, SlotGoesOn, SlotFree
    <2>2. Len(bookings) <= Len(bookings')
      BY <1>1, Domains DEF Faded
    <2>3. \A b \in 1..Len(bookings) :
             /\ bookings[b].status = "pending" /\ bookingLock[b] = p =>
                    bookings'[b].status = "pending"
             /\ bookings[b].status \in {"approved", "postponed", "gone"} =>
                    bookings'[b].status \in {"approved", "postponed", "gone"}
      BY DEF Faded, Fades
    <2>4. bookings' \in Seq(Booking)
      BY DEF Faded
    <2> QED
      BY <2>1, <2>2, <2>3, <2>4, OthersKeep
  <1>5. \A p \in Requests : LocalInv(p)'
    BY <1>4 DEF GoesOn
  <1> QED
    BY <1>1, <1>3, <1>5, FadeKeeps DEF IInv

(* The date does not change, and no request that was to postpone forgets   *)
(* to.                                                                     *)
LEMMA DateStays ==
    ASSUME IInv, Faded, slot'.date = slot.date, crashes' = crashes,
           \A p \in Requests : req[p].pc = "mark" => req'[p].pc = "mark"
    PROVE  ApprovedForDate'
  <1>1. TypeOK /\ Single /\ QueueOrders /\ ApprovedForDate
    BY DEF IInv
  <1> QED
    BY <1>1, FadeKeeps DEF ApprovedForDate

(* Commit or roll-back gives back what the request had locked.             *)
LEMMA EndGoesOn ==
    ASSUME IInv, NEW q \in Requests, End(q), bookings' \in Seq(Booking),
           Len(bookings) <= Len(bookings')
    PROVE  \E n : n.pc = "idle" /\ GoesOn(q, n)
  <1>1. TypeOK /\ LocalInv(q)
    BY DEF IInv
  <1>2. PICK n : n = Idle
    OBVIOUS
  <1>3. req' = [req EXCEPT ![q] = n] /\ n.pc = "idle" /\ req'[q] = n
    BY <1>1, <1>2 DEF End, Idle, TypeOK
  <1>4. n \in Locals'
    BY <1>1, <1>2, IdleType, LocalsGrow
  <1>5. /\ \A p \in Requests \ {q} : LocksKept(p)
        /\ slotLock' \in Requests \cup {NoRequest} /\ slotLock' # q
        /\ bookingLock' \in [1..MaxBookings -> Requests \cup {NoRequest}]
        /\ \A b \in 1..MaxBookings : bookingLock'[b] # q
    BY <1>1, AppointmentsAssumption DEF End, Unlock, LocksKept, TypeOK
  <1>6. LocalInv(q)'
    BY <1>3, <1>5 DEF LocalInv, Holding, Deciding
  <1> QED
    BY <1>3, <1>4, <1>5, <1>6 DEF GoesOn
(* A step that neither takes nor gives back a lock.                        *)
LEMMA MoveGoesOn ==
    ASSUME IInv, NEW q \in Requests, NEW n \in Locals, req' = [req EXCEPT ![q] = n],
           UNCHANGED <<slotLock, bookingLock>>,
           bookings' \in Seq(Booking), Len(bookings) <= Len(bookings'),
           {req[q].pc, n.pc} \cap (Holding \cup Deciding) = {},
           n.pc = "attend" =>
               bookings'[n.booking].status \in {"approved", "postponed", "gone"}
    PROVE  GoesOn(q, n)
  <1>1. TypeOK /\ LocalInv(q)
    BY DEF IInv
  <1>2. n \in Locals' /\ req'[q] = n
    BY <1>1, LocalsGrow DEF TypeOK
  <1>3. LocalInv(q)'
    BY <1>1, <1>2 DEF LocalInv, Holding, Deciding
  <1> QED
    BY <1>1, <1>2, <1>3 DEF GoesOn, LocksKept, TypeOK

LEMMA SlotStays ==
    ASSUME TypeOK, UNCHANGED <<slot, today, crashes>>, exists' \in BOOLEAN
    PROVE  SlotGoesOn
  BY DEF TypeOK, SlotGoesOn

-----------------------------------------------------------------------------
(* The actions, one by one                                                 *)

LEMMA BookKeeps == ASSUME IInv, NEW q \in Requests, NEW c \in Citizens, Book(q, c) PROVE IInv'
  <1>1. TypeOK /\ LocalInv(q)
    BY DEF IInv
  <1>2. PICK n : n = [pc |-> "insert", citizen |-> c]
    OBVIOUS
  <1>3. n \in Locals /\ n.pc = "insert" /\ n.citizen = c
    BY <1>2 DEF Locals
  <1>4. Faded /\ SlotGoesOn
    BY <1>1, NothingFades, SlotStays DEF Book, TypeOK
  <1>5. req' = [req EXCEPT ![q] = n] /\ req'[q] = n /\ bookings' = bookings /\ slotLock' = q
    BY <1>1, <1>2 DEF Book, TypeOK
  <1>6. LocalInv(q)'
    <2>1. Active(c)' = {}
      BY <1>5 DEF Book, Active, HasStatus
    <2> QED
      BY <1>1, <1>3, <1>5, <2>1 DEF Book, LocalInv, Holding, Deciding
  <1>7. GoesOn(q, n)
    <2>1. n \in Locals'
      BY <1>3, <1>5 DEF Locals
    <2> QED
      BY <1>1, <1>5, <1>6, <2>1, AppointmentsAssumption DEF GoesOn, LocksKept, Book, TypeOK, SlotFree
  <1>8. ApprovedForDate'
    BY <1>1, <1>4, <1>5, DateStays DEF Book, TypeOK
  <1> QED
    BY <1>4, <1>7, <1>8, StepKeeps

LEMMA DecideKeeps ==
    ASSUME IInv, NEW q \in Requests, NEW b \in DOMAIN bookings,
           NEW decision \in {"approved", "rejected"}, Decide(q, b, decision)
    PROVE  IInv'
  <1>1. TypeOK /\ LocalInv(q) /\ b \in 1..MaxBookings
    BY Domains DEF IInv
  <1>2. PICK n : n = [pc |-> "slot", booking |-> b, decision |-> decision]
    OBVIOUS
  <1>3. n \in Locals /\ n.pc = "slot" /\ n.booking = b
    BY <1>2 DEF Locals
  <1>4. Faded /\ SlotGoesOn
    BY <1>1, NothingFades, SlotStays DEF Decide, TypeOK
  <1>5. req' = [req EXCEPT ![q] = n] /\ req'[q] = n /\ bookings' = bookings
    BY <1>1, <1>2 DEF Decide, TypeOK
  <1>6. LocalInv(q)'
    BY <1>1, <1>3, <1>5 DEF Decide, LocalInv, Holding, Deciding, HasStatus, TypeOK
  <1>7. GoesOn(q, n)
    <2>1. n \in Locals'
      BY <1>3, <1>5 DEF Locals
    <2> QED
      BY <1>1, <1>5, <1>6, <2>1, AppointmentsAssumption
      DEF GoesOn, LocksKept, Decide, TypeOK, BookingFree
  <1>8. ApprovedForDate'
    BY <1>1, <1>4, <1>5, DateStays DEF Decide, TypeOK
  <1> QED
    BY <1>4, <1>7, <1>8, StepKeeps

LEMMA LockSlotKeeps == ASSUME IInv, NEW q \in Requests, LockSlot(q) PROVE IInv'
  <1>1. TypeOK /\ LocalInv(q) /\ req[q] \in Locals /\ req[q].pc = "slot"
    BY DEF IInv, TypeOK, LockSlot
  <1>2. /\ Faded /\ SlotGoesOn /\ bookings' = bookings /\ bookings \in Seq(Booking)
        /\ slot' = slot /\ crashes' = crashes /\ Len(bookings) <= Len(bookings')
    BY <1>1, NothingFades, SlotStays, Domains DEF LockSlot, TypeOK
  <1>3. CASE End(q)
    <2>1. PICK n : n.pc = "idle" /\ GoesOn(q, n)
      BY <1>2, <1>3, EndGoesOn
    <2>2. ApprovedForDate'
      BY <1>1, <1>2, <2>1, DateStays DEF GoesOn, TypeOK
    <2> QED
      BY <1>2, <2>1, <2>2, StepKeeps
  <1>4. CASE /\ Order(q) <= slot.capacity /\ ~(req[q].decision = "approved" /\ Full)
             /\ slotLock' = q /\ UNCHANGED bookingLock
             /\ req' = [req EXCEPT ![q] = [pc |-> "decide", booking |-> req[q].booking,
                        decision |-> req[q].decision, order |-> Order(q),
                        date |-> slot.date]]
    <2>1. PICK n : n = [pc |-> "decide", booking |-> req[q].booking,
                        decision |-> req[q].decision, order |-> Order(q),
                        date |-> slot.date]
      OBVIOUS
    <2>2. req' = [req EXCEPT ![q] = n] /\ req'[q] = n
      BY <1>1, <1>4, <2>1 DEF TypeOK
    <2>3. /\ req[q].booking \in DOMAIN bookings /\ req[q].decision \in {"approved", "rejected"}
          /\ slot.date \in Days /\ slot.capacity \in Nat
      <3>1. req[q].booking \in DOMAIN bookings /\ req[q].decision \in {"approved", "rejected"}
        BY <1>1 DEF Locals
      <3>2. slot.date \in Days /\ slot.capacity \in Nat
        BY <1>1, AppointmentsAssumption DEF TypeOK, Slots
      <3> QED
        BY <3>1, <3>2
    <2>4. /\ Order(q) \in Nat
          /\ Approved(req[q]) => Order(q) > 0 /\ \A b \in Occupied : bookings[b].order < Order(q)
          /\ ~Approved(req[q]) => Order(q) = 0
      <3>1. MaxOrder \in Nat /\ \A b \in Occupied : bookings[b].order <= MaxOrder
        BY <1>1, MaxOrderBounds
      <3>2. \A b \in Occupied : bookings[b].order \in Nat
        BY <1>1, Domains DEF Occupied, Booking
      <3> QED
        BY <3>1, <3>2 DEF Order, Approved
    <2>5. n \in Locals' /\ n \in Locals
      BY <1>2, <2>1, <2>3, <2>4 DEF Locals
    <2>6. Approved(req[q]) => Cardinality(Occupied) < slot.capacity
      <3>1. Cardinality(Occupied) \in Nat
        BY <1>1, Domains DEF Occupied
      <3> QED
        BY <1>4, <2>3, <3>1 DEF Full, Approved
    <2>7. LocalInv(q)'
      <3>1. Occupied' = Occupied
        BY <1>2 DEF Occupied, HasStatus
      <3>2. /\ n.pc = "decide" /\ n.booking = req[q].booking /\ n.decision = req[q].decision
            /\ n.order = Order(q) /\ n.date = slot.date
        BY <2>1
      <3> QED
        BY <1>1, <1>2, <1>4, <2>2, <2>4, <2>6, <3>1, <3>2
        DEF LocalInv, Holding, Deciding, Approved
    <2>8. GoesOn(q, n)
      BY <1>1, <1>4, <2>2, <2>5, <2>7, AppointmentsAssumption
      DEF GoesOn, LocksKept, TypeOK, LockSlot, SlotFree
    <2>9. ApprovedForDate'
      BY <1>1, <1>2, <2>2, DateStays DEF TypeOK
    <2> QED
      BY <1>2, <2>8, <2>9, StepKeeps
  <1>5. Order(q) \in Nat /\ slot.capacity \in Nat
    <2>1. MaxOrder \in Nat /\ slot.capacity \in Nat
      BY <1>1, MaxOrderBounds, AppointmentsAssumption DEF TypeOK, Slots
    <2> QED
      BY <2>1 DEF Order
  <1> QED
    BY <1>3, <1>4, <1>5 DEF LockSlot

LEMMA UpdateSlotKeeps ==
    ASSUME IInv, NEW q \in Requests, NEW new \in Slots, UpdateSlot(q, new) PROVE IInv'
  <1>1. TypeOK
    BY DEF IInv
  <1>2. PICK n : n = [pc |-> "write", set |-> Changes(slot, new)]
    OBVIOUS
  <1>3. n \in Locals /\ n.pc = "write"
    BY <1>1, <1>2 DEF Locals, TypeOK
  <1>4. Faded /\ SlotGoesOn /\ bookings \in Seq(Booking) /\ Len(bookings) <= Len(bookings')
    BY <1>1, NothingFades, SlotStays, Domains DEF UpdateSlot, TypeOK
  <1>5. req' = [req EXCEPT ![q] = n]
    BY <1>2 DEF UpdateSlot
  <1>6. GoesOn(q, n)
    BY <1>3, <1>4, <1>5, MoveGoesOn DEF UpdateSlot, Holding, Deciding
  <1>7. ApprovedForDate'
    BY <1>1, <1>4, <1>5, DateStays DEF UpdateSlot, TypeOK
  <1> QED
    BY <1>4, <1>6, <1>7, StepKeeps

(* A write of the slot that does not bring a date keeps it.                *)
LEMMA WrittenSlot ==
    ASSUME TypeOK, NEW q \in Requests, req[q].pc = "write"
    PROVE  /\ Written(req[q].set) \in Slots
           /\ "date" \notin DOMAIN req[q].set => Written(req[q].set).date = slot.date
  <1>1. req[q] \in Locals /\ slot \in Slots
    BY DEF TypeOK
  <1>2. PICK old \in Slots, new \in Slots : req[q].set = Changes(old, new)
    BY <1>1 DEF Locals
  <1> QED
    BY <1>1, <1>2 DEF Written, Changes, Slots

LEMMA WriteSlotKeeps == ASSUME IInv, NEW q \in Requests, WriteSlot(q) PROVE IInv'
  <1>1. TypeOK /\ req[q].pc = "write" /\ slotLock = NoRequest
    BY DEF IInv, WriteSlot, SlotFree
  <1>2. /\ Faded /\ bookings' = bookings /\ bookings \in Seq(Booking)
        /\ Len(bookings) <= Len(bookings')
    BY <1>1, NothingFades, Domains DEF WriteSlot, TypeOK
  <1>3. SlotGoesOn
    BY <1>1, WrittenSlot DEF WriteSlot, SlotGoesOn, SlotFree, TypeOK
  <1>4. PICK n : n = IF "date" \in DOMAIN req[q].set THEN [pc |-> "mark"] ELSE Idle
    OBVIOUS
  <1>5. req' = [req EXCEPT ![q] = n] /\ n.pc \in {"idle", "mark"} /\ n \in Locals
    BY <1>4 DEF WriteSlot, Idle, Locals
  <1>6. GoesOn(q, n)
    BY <1>1, <1>2, <1>5, MoveGoesOn DEF WriteSlot, Holding, Deciding
  <1>7. ApprovedForDate'
    <2>1. CASE n.pc = "mark"
      <3>1. req'[q].pc = "mark"
        BY <1>1, <1>5, <2>1 DEF TypeOK
      <3> QED
        BY <3>1 DEF ApprovedForDate
    <2>2. CASE n.pc = "idle"
      <3>1. "date" \notin DOMAIN req[q].set
        BY <1>4, <2>2
      <3>2. slot'.date = slot.date
        BY <1>1, <3>1, WrittenSlot DEF WriteSlot
      <3> QED
        BY <1>1, <1>2, <1>5, <3>2, DateStays DEF WriteSlot, TypeOK
    <2> QED
      BY <1>5, <2>1, <2>2
  <1> QED
    BY <1>2, <1>3, <1>6, <1>7, StepKeeps
(* The date is new and every approval of the older one is taken back.      *)
LEMMA MarkKeeps == ASSUME IInv, NEW q \in Requests, MarkApprovedAsPostponed(q) PROVE IInv' /\ Faded
  <1>1. TypeOK /\ req[q].pc = "mark" /\ UNCHANGED <<slotLock, bookingLock, slot, exists, today, crashes>>
    BY DEF IInv, MarkApprovedAsPostponed
  <1>2. \A b \in 1..Len(bookings) :
          /\ bookings'[b] \in Booking
          /\ bookings'[b].citizen = bookings[b].citizen
          /\ bookings'[b].order = bookings[b].order
          /\ bookings'[b].agreed = bookings[b].agreed
          /\ bookings'[b].attended = bookings[b].attended
          /\ bookings'[b].status =
               IF bookings[b].status = "approved" THEN "postponed" ELSE bookings[b].status
    BY <1>1, Domains DEF MarkApprovedAsPostponed, Booking
  <1>3. bookings' \in Seq(Booking) /\ Len(bookings') = Len(bookings)
    BY <1>1, <1>2, Domains DEF MarkApprovedAsPostponed
  <1>4. Faded
    BY <1>2, <1>3 DEF Faded, Fades
  <1>5. PICK n : n = Idle
    OBVIOUS
  <1>6. /\ req' = [req EXCEPT ![q] = n] /\ n \in Locals /\ n.pc = "idle"
        /\ Len(bookings) <= Len(bookings')
    BY <1>1, <1>3, <1>5, IdleType, Domains DEF MarkApprovedAsPostponed, Idle
  <1>7. GoesOn(q, n)
    BY <1>1, <1>3, <1>6, MoveGoesOn DEF Holding, Deciding
  <1>8. ApprovedForDate'
    <2>1. DOMAIN bookings' = 1..Len(bookings)
      BY <1>3, LenProperties
    <2>2. HasStatus({"approved"})' = {}
      BY <1>2, <2>1 DEF HasStatus
    <2> QED
      BY <2>2 DEF ApprovedForDate
  <1>9. SlotGoesOn
    BY <1>1, SlotStays DEF TypeOK
  <1> QED
    BY <1>4, <1>7, <1>8, <1>9, StepKeeps

LEMMA DeleteSlotKeeps == ASSUME IInv, NEW q \in Requests, DeleteSlot(q) PROVE IInv'
  <1>1. TypeOK
    BY DEF IInv
  <1>2. PICK n : n = [pc |-> "destroy"]
    OBVIOUS
  <1>3. n \in Locals /\ n.pc = "destroy" /\ req' = [req EXCEPT ![q] = n]
    BY <1>2 DEF Locals, DeleteSlot
  <1>4. Faded /\ SlotGoesOn /\ bookings \in Seq(Booking) /\ Len(bookings) <= Len(bookings')
    BY <1>1, NothingFades, SlotStays, Domains DEF DeleteSlot, TypeOK
  <1>5. GoesOn(q, n)
    BY <1>3, <1>4, MoveGoesOn DEF DeleteSlot, Holding, Deciding
  <1>6. ApprovedForDate'
    BY <1>1, <1>3, <1>4, DateStays DEF DeleteSlot, TypeOK
  <1> QED
    BY <1>4, <1>5, <1>6, StepKeeps

LEMMA DestroyKeeps == ASSUME IInv, NEW q \in Requests, Destroy(q) PROVE IInv'
  <1>1. TypeOK /\ LocalInv(q) /\ req[q].pc = "destroy" /\ slotLock = NoRequest
    BY DEF IInv, Destroy, SlotFree
  <1>2. /\ Faded /\ SlotGoesOn /\ bookings' = bookings /\ bookings \in Seq(Booking)
        /\ slot' = slot /\ crashes' = crashes /\ Len(bookings) <= Len(bookings')
        /\ bookingLock' = bookingLock
    BY <1>1, NothingFades, SlotStays, Domains DEF Destroy, TypeOK
  <1>3. CASE slotLock' = slotLock /\ req' = [req EXCEPT ![q] = Idle]
    <2>1. PICK n : n = Idle
      OBVIOUS
    <2>2. n \in Locals /\ n.pc = "idle" /\ req' = [req EXCEPT ![q] = n]
      BY <1>3, <2>1, IdleType DEF Idle
    <2>3. GoesOn(q, n)
      BY <1>1, <1>2, <1>3, <2>2, MoveGoesOn DEF Holding, Deciding
    <2>4. ApprovedForDate'
      BY <1>1, <1>2, <2>2, DateStays DEF TypeOK
    <2> QED
      BY <1>2, <2>3, <2>4, StepKeeps
  <1>4. CASE slotLock' = q /\ req' = [req EXCEPT ![q] = [pc |-> "cascade"]]
    <2>1. PICK n : n = [pc |-> "cascade"]
      OBVIOUS
    <2>2. n \in Locals' /\ n.pc = "cascade" /\ req' = [req EXCEPT ![q] = n] /\ req'[q] = n
      BY <1>1, <1>4, <2>1 DEF Locals, TypeOK
    <2>3. LocalInv(q)'
      BY <1>1, <1>2, <1>4, <2>2 DEF LocalInv, Holding, Deciding
    <2>4. GoesOn(q, n)
      BY <1>1, <1>2, <1>4, <2>2, <2>3, AppointmentsAssumption DEF GoesOn, LocksKept, TypeOK
    <2>5. ApprovedForDate'
      BY <1>1, <1>2, <2>2, DateStays DEF TypeOK
    <2> QED
      BY <1>2, <2>4, <2>5, StepKeeps
  <1> QED
    BY <1>3, <1>4 DEF Destroy

LEMMA GoneFades ==
    ASSUME TypeOK, NEW b \in 1..Len(bookings), bookings'[b] = Gone(b)
    PROVE  bookings'[b] \in Booking /\ Fades(b)
  <1>1. bookings[b] \in Booking
    BY Domains
  <1>2. Gone(b) = [citizen |-> bookings[b].citizen, status |-> "gone", order |-> 0,
                   attended |-> FALSE, agreed |-> 0]
    BY <1>1 DEF Gone, Booking
  <1> QED
    BY <1>1, <1>2, AppointmentsAssumption DEF Booking, Fades

LEMMA CascadeKeeps == ASSUME IInv, NEW q \in Requests, Cascade(q) PROVE IInv' /\ Faded
  <1>1. TypeOK /\ req[q].pc = "cascade"
    BY DEF IInv, Cascade
  <1>2. \A b \in 1..Len(bookings) :
          /\ bookings'[b] = Gone(b)
          /\ bookings'[b] \in Booking /\ Fades(b) /\ bookingLock[b] = NoRequest
    BY <1>1, GoneFades, Domains DEF Cascade, BookingFree
  <1>3. bookings' \in Seq(Booking) /\ Len(bookings') = Len(bookings)
    BY <1>1, <1>2, Domains DEF Cascade
  <1>4. Faded /\ SlotGoesOn
    BY <1>1, <1>2, <1>3, SlotStays, AppointmentsAssumption DEF Faded, Cascade
  <1>5. PICK n : n.pc = "idle" /\ GoesOn(q, n)
    BY <1>1, <1>3, EndGoesOn, Domains DEF Cascade
  <1>6. ApprovedForDate'
    BY <1>1, <1>4, <1>5, DateStays DEF GoesOn, Cascade, TypeOK
  <1> QED
    BY <1>4, <1>5, <1>6, StepKeeps

LEMMA DeadlockKeeps == ASSUME IInv, DeadlockDetected PROVE IInv'
  <1>1. PICK q \in Requests : req[q].pc \in {"slot", "cascade"} /\ End(q)
    BY DEF DeadlockDetected
  <1>2. TypeOK /\ bookings' = bookings /\ UNCHANGED <<slot, exists, today, crashes>>
    BY DEF IInv, DeadlockDetected
  <1>3. Faded /\ SlotGoesOn /\ bookings \in Seq(Booking) /\ Len(bookings) <= Len(bookings')
    BY <1>2, NothingFades, SlotStays, Domains DEF TypeOK
  <1>4. PICK n : n.pc = "idle" /\ GoesOn(q, n)
    BY <1>1, <1>2, <1>3, EndGoesOn
  <1>5. ApprovedForDate'
    BY <1>1, <1>2, <1>3, <1>4, DateStays DEF GoesOn, TypeOK
  <1> QED
    BY <1>3, <1>4, <1>5, StepKeeps

LEMMA UpdateAttendanceKeeps ==
    ASSUME IInv, NEW q \in Requests, NEW b \in DOMAIN bookings, UpdateAttendance(q, b)
    PROVE  IInv'
  <1>1. TypeOK
    BY DEF IInv
  <1>2. PICK n : n = [pc |-> "attend", booking |-> b]
    OBVIOUS
  <1>3. /\ n \in Locals /\ n.pc = "attend" /\ n.booking = b /\ req' = [req EXCEPT ![q] = n]
    BY <1>2 DEF Locals, UpdateAttendance
  <1>4. Faded /\ SlotGoesOn /\ bookings \in Seq(Booking) /\ Len(bookings) <= Len(bookings')
    BY <1>1, NothingFades, SlotStays, Domains DEF UpdateAttendance, TypeOK
  <1>5. bookings'[b].status \in {"approved", "postponed", "gone"}
    BY DEF UpdateAttendance, Occupied, HasStatus
  <1>6. GoesOn(q, n)
    BY <1>3, <1>4, <1>5, MoveGoesOn DEF UpdateAttendance, Holding, Deciding
  <1>7. ApprovedForDate'
    BY <1>1, <1>3, <1>4, DateStays DEF UpdateAttendance, TypeOK
  <1> QED
    BY <1>4, <1>6, <1>7, StepKeeps

LEMMA DeletePastKeeps ==
    ASSUME IInv, NEW q \in Requests, NEW b \in DOMAIN bookings, DeletePastBooking(q, b)
    PROVE  IInv'
  <1>1. TypeOK
    BY DEF IInv
  <1>2. PICK n : n = [pc |-> "remove", booking |-> b]
    OBVIOUS
  <1>3. n \in Locals /\ n.pc = "remove" /\ req' = [req EXCEPT ![q] = n]
    BY <1>2 DEF Locals, DeletePastBooking
  <1>4. Faded /\ SlotGoesOn /\ bookings \in Seq(Booking) /\ Len(bookings) <= Len(bookings')
    BY <1>1, NothingFades, SlotStays, Domains DEF DeletePastBooking, TypeOK
  <1>5. GoesOn(q, n)
    BY <1>3, <1>4, MoveGoesOn DEF DeletePastBooking, Holding, Deciding
  <1>6. ApprovedForDate'
    BY <1>1, <1>3, <1>4, DateStays DEF DeletePastBooking, TypeOK
  <1> QED
    BY <1>4, <1>5, <1>6, StepKeeps

(* A write of one booking that lets it fade and leaves the others.         *)
LEMMA OneFades ==
    ASSUME IInv, NEW q \in Requests, NEW b \in 1..Len(bookings), NEW c \in Booking,
           bookings' = [bookings EXCEPT ![b] = c], BookingFree(b),
           bookings'[b] = c => Fades(b),
           req[q].pc \in {"attend", "remove"}, req' = [req EXCEPT ![q] = Idle],
           UNCHANGED <<slot, exists, slotLock, bookingLock, today, crashes>>
    PROVE  IInv' /\ Faded
  <1>1. TypeOK
    BY DEF IInv
  <1>2. bookings \in Seq(Booking)
    BY <1>1 DEF TypeOK
  <1>3. /\ bookings' \in Seq(Booking) /\ Len(bookings') = Len(bookings)
        /\ \A a \in 1..Len(bookings) : bookings'[a] = IF a = b THEN c ELSE bookings[a]
    BY <1>2, ExceptSeq
  <1>4. Faded
    BY <1>3, AppointmentsAssumption DEF Faded, Fades, BookingFree
  <1>5. PICK n : n = Idle
    OBVIOUS
  <1>6. /\ req' = [req EXCEPT ![q] = n] /\ n \in Locals /\ n.pc = "idle"
        /\ Len(bookings) <= Len(bookings')
    BY <1>1, <1>3, <1>5, IdleType, Domains DEF Idle
  <1>7. GoesOn(q, n)
    BY <1>3, <1>6, MoveGoesOn DEF Holding, Deciding
  <1>8. ApprovedForDate'
    BY <1>1, <1>4, <1>6, DateStays DEF TypeOK
  <1>9. SlotGoesOn
    BY <1>1, SlotStays DEF TypeOK
  <1> QED
    BY <1>4, <1>7, <1>8, <1>9, StepKeeps
LEMMA WriteAttendanceKeeps == ASSUME IInv, NEW q \in Requests, WriteAttendance(q) PROVE IInv' /\ Faded
  <1>1. TypeOK /\ LocalInv(q) /\ req[q] \in Locals /\ req[q].pc = "attend"
    BY DEF IInv, TypeOK, WriteAttendance
  <1>2. PICK b : b = req[q].booking
    OBVIOUS
  <1>3. /\ b \in 1..Len(bookings) /\ bookings[b] \in Booking /\ BookingFree(b)
        /\ bookings[b].status \in {"approved", "postponed", "gone"}
    BY <1>1, <1>2, Domains DEF Locals, LocalInv, WriteAttendance
  <1>4. /\ req' = [req EXCEPT ![q] = Idle]
        /\ UNCHANGED <<slot, exists, slotLock, bookingLock, today, crashes>>
    BY DEF WriteAttendance
  <1>5. PICK attended \in BOOLEAN :
            bookings' = IF b \in Live THEN [bookings EXCEPT ![b].attended = attended]
                                      ELSE bookings
    BY <1>2 DEF WriteAttendance
  <1>6. PICK c : c = IF b \in Live THEN [bookings[b] EXCEPT !.attended = attended]
                                   ELSE bookings[b]
    OBVIOUS
  <1>7. bookings' = [bookings EXCEPT ![b] = c]
    <2>1. CASE b \in Live
      BY <1>5, <1>6, <2>1, Zenon
    <2>2. CASE b \notin Live
      <3>1. bookings' = bookings /\ c = bookings[b]
        BY <1>5, <1>6, <2>2
      <3>2. bookings = [k \in DOMAIN bookings |-> bookings[k]]
        BY <1>1, LenProperties DEF TypeOK
      <3> QED
        BY <3>1, <3>2
    <2> QED
      BY <2>1, <2>2
  <1>8. c \in Booking /\ (bookings'[b] = c => Fades(b))
    <2>1. b \in Live => b \in Occupied
      BY <1>3 DEF Live, Occupied, HasStatus
    <2> QED
      BY <1>3, <1>6, <2>1 DEF Booking, Fades
  <1> QED
    BY <1>1, <1>3, <1>4, <1>7, <1>8, OneFades

LEMMA DeleteBookingKeeps == ASSUME IInv, NEW q \in Requests, DeleteBooking(q) PROVE IInv' /\ Faded
  <1>1. TypeOK /\ req[q] \in Locals /\ req[q].pc = "remove"
    BY DEF IInv, TypeOK, DeleteBooking
  <1>2. PICK b : b = req[q].booking
    OBVIOUS
  <1>3. b \in 1..Len(bookings) /\ BookingFree(b)
    BY <1>1, <1>2, Domains DEF Locals, DeleteBooking
  <1>4. /\ req' = [req EXCEPT ![q] = Idle]
        /\ UNCHANGED <<slot, exists, slotLock, bookingLock, today, crashes>>
    BY DEF DeleteBooking
  <1>5. PICK c : c = Gone(b)
    OBVIOUS
  <1>6. bookings' = [bookings EXCEPT ![b] = c]
    BY <1>2, <1>5 DEF DeleteBooking
  <1>7. bookings'[b] = c
    BY <1>1, <1>3, <1>6, Domains
  <1>8. c \in Booking /\ Fades(b)
    BY <1>1, <1>3, <1>5, <1>7, GoneFades
  <1> QED
    BY <1>1, <1>3, <1>4, <1>6, <1>8, OneFades

(* A step under the slot's lock that adds to the bookings.                 *)
LEMMA GrowthKeeps ==
    ASSUME IInv, NEW q \in Requests, NEW n, GoesOn(q, n), slotLock = q,
           bookings' \in Seq(Booking), Len(bookings) <= Len(bookings'),
           Len(bookings') <= MaxBookings,
           UNCHANGED <<slot, exists, today, crashes>>,
           \A b \in 1..Len(bookings) :
             /\ bookings[b].status = "pending" /\ bookingLock[b] # q =>
                    bookings'[b].status = "pending"
             /\ bookings[b].status \in {"approved", "postponed", "gone"} =>
                    bookings'[b].status \in {"approved", "postponed", "gone"},
           Single', QueueOrders', ApprovedForDate'
    PROVE  IInv'
  <1>1. TypeOK
    BY DEF IInv
  <1>2. \A p \in Requests : req'[p] = IF p = q THEN n ELSE req[p]
    BY <1>1 DEF TypeOK, GoesOn
  <1>3. TypeOK'
    <2>1. \A p \in Requests : req'[p] \in Locals'
      BY <1>1, <1>2, LocalsGrow DEF GoesOn, TypeOK
    <2>2. req' \in [Requests -> Locals']
      BY <1>1, <2>1 DEF GoesOn, TypeOK
    <2> QED
      BY <1>1, <2>2 DEF TypeOK, GoesOn
  <1>4. ASSUME NEW p \in Requests \ {q} PROVE LocalInv(p)'
    <2>1. req'[p] = req[p] /\ LocksKept(p) /\ slotLock # p
      BY <1>2 DEF GoesOn
    <2>2. \A b \in 1..Len(bookings) :
             /\ bookings[b].status = "pending" /\ bookingLock[b] = p =>
                    bookings'[b].status = "pending"
             /\ bookings[b].status \in {"approved", "postponed", "gone"} =>
                    bookings'[b].status \in {"approved", "postponed", "gone"}
      OBVIOUS
    <2> QED
      BY <2>1, <2>2, OthersKeep
  <1>5. \A p \in Requests : LocalInv(p)'
    BY <1>4 DEF GoesOn
  <1> QED
    BY <1>3, <1>5 DEF IInv

(* The booking that a citizen's request adds.                              *)
LEMMA Created ==
    ASSUME IInv, NEW q \in Requests, CreateBooking(q)
    PROVE  \E last :
              /\ bookings' \in Seq(Booking) /\ Len(bookings') = last
              /\ DOMAIN bookings' = 1..last /\ last <= MaxBookings
              /\ Len(bookings) <= last /\ last \notin 1..Len(bookings)
              /\ \A b : b \in 1..last <=> b \in 1..Len(bookings) \/ b = last
              /\ \A b \in 1..Len(bookings) : bookings'[b] = bookings[b]
              /\ bookings'[last].citizen = req[q].citizen
              /\ bookings'[last].order = 0 /\ bookings'[last].attended = FALSE
              /\ \A S : HasStatus(S)' =
                           HasStatus(S) \cup (IF "pending" \in S THEN {last} ELSE {})
  <1>1. TypeOK /\ req[q] \in Locals /\ req[q].pc = "insert"
    BY DEF IInv, TypeOK, CreateBooking
  <1>2. PICK new : new = [citizen |-> req[q].citizen, status |-> "pending",
                          order |-> 0, attended |-> FALSE, agreed |-> 0]
    OBVIOUS
  <1>3. PICK last : last = Len(bookings) + 1
    OBVIOUS
  <1>4. /\ new \in Booking /\ new.citizen = req[q].citizen /\ new.status = "pending"
        /\ new.order = 0 /\ new.attended = FALSE
    BY <1>1, <1>2, AppointmentsAssumption DEF Locals, Booking
  <1>5. bookings' = Append(bookings, new) /\ Len(bookings) < MaxBookings
    BY <1>2 DEF CreateBooking
  <1>6. /\ bookings' \in Seq(Booking) /\ Len(bookings') = last
        /\ \A b \in 1..Len(bookings) : bookings'[b] = bookings[b]
        /\ bookings'[last] = new /\ DOMAIN bookings' = 1..last
    <2>1. bookings \in Seq(Booking)
      BY <1>1 DEF TypeOK
    <2>2. /\ bookings' \in Seq(Booking) /\ Len(bookings') = last
          /\ \A b \in 1..Len(bookings) : bookings'[b] = bookings[b]
          /\ bookings'[last] = new
      BY <1>3, <1>4, <1>5, <2>1, AppendProperties
    <2> QED
      BY <2>2, LenProperties
  <1>7. /\ \A b : b \in 1..last <=> b \in 1..Len(bookings) \/ b = last
        /\ last \notin 1..Len(bookings) /\ Len(bookings) <= last /\ last <= MaxBookings
    BY <1>1, <1>3, <1>5, Domains, AppointmentsAssumption
  <1>8. \A S : HasStatus(S)' = HasStatus(S) \cup (IF "pending" \in S THEN {last} ELSE {})
    BY <1>1, <1>4, <1>6, <1>7, Domains DEF HasStatus
  <1> QED
    BY <1>4, <1>6, <1>7, <1>8

LEMMA CreateBookingKeeps == ASSUME IInv, NEW q \in Requests, CreateBooking(q) PROVE IInv'
  <1>1. /\ TypeOK /\ LocalInv(q) /\ req[q] \in Locals /\ req[q].pc = "insert"
        /\ Single /\ QueueOrders /\ ApprovedForDate
    BY DEF IInv, TypeOK, CreateBooking
  <1>2. PICK last :
              /\ bookings' \in Seq(Booking) /\ Len(bookings') = last
              /\ DOMAIN bookings' = 1..last /\ last <= MaxBookings
              /\ Len(bookings) <= last /\ last \notin 1..Len(bookings)
              /\ \A b : b \in 1..last <=> b \in 1..Len(bookings) \/ b = last
              /\ \A b \in 1..Len(bookings) : bookings'[b] = bookings[b]
              /\ bookings'[last].citizen = req[q].citizen
              /\ bookings'[last].order = 0 /\ bookings'[last].attended = FALSE
              /\ \A S : HasStatus(S)' =
                           HasStatus(S) \cup (IF "pending" \in S THEN {last} ELSE {})
    BY Created
  <1>3. /\ End(q) /\ UNCHANGED <<slot, exists, today, crashes>>
        /\ Active(req[q].citizen) = {} /\ slotLock = q
    BY <1>1 DEF CreateBooking, LocalInv, Holding
  <1>4. PICK n : n.pc = "idle" /\ GoesOn(q, n)
    BY <1>2, <1>3, EndGoesOn
  <1>5. Single'
    <2>1. ASSUME NEW c \in Citizens, NEW a \in Active(c)', NEW b \in Active(c)'
          PROVE  a = b
      <3>1. CASE c # req[q].citizen
        <4>1. a \in Active(c) /\ b \in Active(c)
          BY <1>1, <1>2, <2>1, <3>1, Domains DEF Active
        <4> QED
          BY <1>1, <4>1 DEF Single
      <3>2. CASE c = req[q].citizen
        BY <1>1, <1>2, <1>3, <2>1, <3>2, Domains DEF Active
      <3> QED
        BY <3>1, <3>2
    <2> QED
      BY <2>1 DEF Single
  <1>6. QueueOrders'
    <2>1. Occupied' = Occupied /\ Live' = Live \cup {last}
      BY <1>2 DEF Occupied, Live
    <2>2. Occupied \subseteq 1..Len(bookings) /\ Live \subseteq 1..Len(bookings)
      BY <1>1, Domains DEF Occupied, Live
    <2> QED
      BY <1>1, <1>2, <2>1, <2>2 DEF QueueOrders
  <1>7. ApprovedForDate'
    <2>1. HasStatus({"approved"})' = HasStatus({"approved"})
      BY <1>2
    <2>2. HasStatus({"approved"}) \subseteq 1..Len(bookings)
      BY <1>1, Domains
    <2>3. \A p \in Requests : req[p].pc = "mark" => req'[p].pc = "mark"
      BY <1>1, <1>4 DEF GoesOn, TypeOK
    <2> QED
      BY <1>1, <1>2, <1>3, <2>1, <2>2, <2>3 DEF ApprovedForDate
  <1> QED
    BY <1>2, <1>3, <1>4, <1>5, <1>6, <1>7, GrowthKeeps

(* The booking that a decision writes.                                     *)
LEMMA Decided ==
    ASSUME IInv, NEW q \in Requests, UpdateBooking(q)
    PROVE  \E b \in 1..Len(bookings) :
              /\ bookings[b].status = "pending" /\ bookingLock[b] = q /\ slotLock = q
              /\ bookings' \in Seq(Booking) /\ Len(bookings') = Len(bookings)
              /\ DOMAIN bookings' = 1..Len(bookings)
              /\ \A a \in 1..Len(bookings) : a # b => bookings'[a] = bookings[a]
              /\ bookings'[b].citizen = bookings[b].citizen
              /\ bookings'[b].attended = bookings[b].attended
              /\ \/ /\ bookings'[b].status = "approved" /\ bookings'[b].order > 0
                    /\ bookings'[b].agreed = slot.date
                    /\ \A a \in Occupied : bookings[a].order < bookings'[b].order
                    /\ Cardinality(Occupied) < slot.capacity
                 \/ bookings'[b].status = "rejected" /\ bookings'[b].order = 0
  <1>1. /\ TypeOK /\ LocalInv(q) /\ req[q] \in Locals /\ req[q].pc = "decide"
    BY DEF IInv, TypeOK, UpdateBooking
  <1>2. PICK b : b = req[q].booking
    OBVIOUS
  <1>3. /\ b \in 1..Len(bookings) /\ bookings[b] \in Booking /\ b \in 1..MaxBookings
        /\ req[q].decision \in {"approved", "rejected"} /\ req[q].order \in Nat
        /\ req[q].date \in Days
    BY <1>1, <1>2, Domains DEF Locals
  <1>4. bookings[b].status = "pending" /\ bookingLock[b] = q /\ slotLock = q
    BY <1>1, <1>2, <1>3 DEF LocalInv, Holding, Deciding
  <1>5. PICK agreed : agreed = IF req[q].decision = "approved" THEN req[q].date ELSE 0
    OBVIOUS
  <1>6. PICK c : c = [bookings[b] EXCEPT !.status = req[q].decision, !.order = req[q].order,
                                         !.agreed = agreed]
    OBVIOUS
  <1>7. bookings' = [bookings EXCEPT ![b] = c]
    BY <1>1, <1>2, <1>3, <1>5, <1>6, Zenon, Domains DEF UpdateBooking
  <1>8. /\ c \in Booking /\ c.citizen = bookings[b].citizen
        /\ c.status = req[q].decision /\ c.order = req[q].order /\ c.agreed = agreed
        /\ c.attended = bookings[b].attended
    <2>1. agreed \in 0..LastDay
      BY <1>3, <1>5, AppointmentsAssumption DEF Days
    <2> QED
      BY <1>3, <1>6, <2>1 DEF Booking
  <1>9. /\ bookings' \in Seq(Booking) /\ Len(bookings') = Len(bookings)
        /\ \A a \in 1..Len(bookings) : bookings'[a] = IF a = b THEN c ELSE bookings[a]
    <2>1. bookings \in Seq(Booking)
      BY <1>1 DEF TypeOK
    <2> QED
      BY <1>3, <1>7, <1>8, <2>1, ExceptSeq
  <1>10. DOMAIN bookings' = 1..Len(bookings)
    BY <1>9, LenProperties
  <1>11. \/ /\ c.status = "approved" /\ c.order > 0 /\ c.agreed = slot.date
            /\ \A a \in Occupied : bookings[a].order < c.order
            /\ Cardinality(Occupied) < slot.capacity
         \/ c.status = "rejected" /\ c.order = 0
    BY <1>1, <1>3, <1>5, <1>8 DEF LocalInv, Approved
  <1>12. bookings'[b] = c /\ \A a \in 1..Len(bookings) : a # b => bookings'[a] = bookings[a]
    BY <1>3, <1>9
  <1> QED
    BY <1>3, <1>4, <1>8, <1>9, <1>10, <1>11, <1>12
LEMMA UpdateBookingKeeps == ASSUME IInv, NEW q \in Requests, UpdateBooking(q) PROVE IInv'
  <1>1. TypeOK /\ Single /\ QueueOrders /\ ApprovedForDate /\ req[q].pc = "decide"
    BY DEF IInv, UpdateBooking
  <1>2. PICK b \in 1..Len(bookings) :
              /\ bookings[b].status = "pending" /\ bookingLock[b] = q /\ slotLock = q
              /\ bookings' \in Seq(Booking) /\ Len(bookings') = Len(bookings)
              /\ DOMAIN bookings' = 1..Len(bookings)
              /\ \A a \in 1..Len(bookings) : a # b => bookings'[a] = bookings[a]
              /\ bookings'[b].citizen = bookings[b].citizen
              /\ bookings'[b].attended = bookings[b].attended
              /\ \/ /\ bookings'[b].status = "approved" /\ bookings'[b].order > 0
                    /\ bookings'[b].agreed = slot.date
                    /\ \A a \in Occupied : bookings[a].order < bookings'[b].order
                    /\ Cardinality(Occupied) < slot.capacity
                 \/ bookings'[b].status = "rejected" /\ bookings'[b].order = 0
    BY Decided
  <1>3. /\ UNCHANGED <<slot, exists, today, crashes>> /\ End(q)
        /\ Len(bookings) <= Len(bookings') /\ Len(bookings') <= MaxBookings
    <2>1. Len(bookings) \in Nat /\ Len(bookings) <= MaxBookings
      BY <1>1, Domains DEF TypeOK
    <2>2. UNCHANGED <<slot, exists, today, crashes>> /\ End(q)
      BY DEF UpdateBooking
    <2> QED
      BY <1>2, <2>1, <2>2
  <1>4. PICK n : n.pc = "idle" /\ GoesOn(q, n)
    BY <1>2, <1>3, EndGoesOn
  <1>5. \A c : Active(c)' \subseteq Active(c)
    BY <1>1, <1>2, Domains DEF Active, HasStatus
  <1>6. Single'
    BY <1>1, <1>5 DEF Single
  <1>7. /\ Occupied' \subseteq Occupied \cup {b} /\ b \notin Occupied
        /\ b \in Occupied' <=> bookings'[b].status = "approved"
        /\ Occupied \subseteq Occupied'
        /\ Live' = Live /\ Live \subseteq 1..Len(bookings)
        /\ Occupied \subseteq 1..Len(bookings) /\ b \in Live
    BY <1>1, <1>2, Domains DEF Occupied, Live, HasStatus
  <1>8. QueueOrders'
    <2>1. ASSUME NEW x \in Occupied', NEW y \in Occupied',
                 bookings'[x].order = bookings'[y].order
          PROVE  x = y
      <3>1. \A a \in Occupied : /\ bookings[a].order \in Nat
                               /\ bookings'[a] = bookings[a]
        BY <1>1, <1>2, <1>7, Domains DEF Booking
      <3>2. b \in Occupied' => \A a \in Occupied : bookings[a].order < bookings'[b].order
        BY <1>2, <1>7
      <3>3. b \in Occupied' => bookings'[b].order \in Nat
        <4>1. bookings'[b] \in Booking
          BY <1>2, ElementOfSeq
        <4> QED
          BY <4>1 DEF Booking
      <3>4. x \in Occupied /\ y \in Occupied => x = y
        BY <1>1, <2>1, <3>1 DEF QueueOrders
      <3> QED
        BY <1>7, <2>1, <3>1, <3>2, <3>3, <3>4
    <2>2. ASSUME NEW a \in Live'
          PROVE  /\ (bookings'[a].order > 0) <=> (a \in Occupied')
                 /\ bookings'[a].attended => a \in Occupied'
      <3>1. CASE a = b
        BY <1>1, <1>2, <1>7, <3>1 DEF QueueOrders
      <3>2. CASE a # b
        BY <1>1, <1>2, <1>7, <2>2, <3>2 DEF QueueOrders
      <3> QED
        BY <3>1, <3>2
    <2> QED
      BY <2>1, <2>2 DEF QueueOrders
  <1>9. ApprovedForDate'
    <2>1. \A a \in HasStatus({"approved"})' :
            a # b => a \in HasStatus({"approved"}) /\ bookings'[a] = bookings[a]
      <3>1. ASSUME NEW a \in 1..Len(bookings), bookings'[a].status = "approved", a # b
            PROVE  bookings[a].status = "approved" /\ bookings'[a] = bookings[a]
        BY <1>2, <3>1
      <3>2. DOMAIN bookings = 1..Len(bookings)
        BY <1>1, Domains
      <3>3. DOMAIN bookings' = 1..Len(bookings)
        BY <1>2
      <3>4. ASSUME NEW a \in HasStatus({"approved"})', a # b
            PROVE  a \in HasStatus({"approved"}) /\ bookings'[a] = bookings[a]
        <4>1. a \in 1..Len(bookings) /\ bookings'[a].status = "approved"
          BY <3>3, <3>4 DEF HasStatus
        <4>2. bookings[a].status = "approved" /\ bookings'[a] = bookings[a]
          BY <3>1, <3>4, <4>1
        <4> QED
          BY <3>2, <4>1, <4>2 DEF HasStatus
      <3> QED
        BY <3>4
    <2>2. b \in HasStatus({"approved"})' => bookings'[b].agreed = slot.date
      BY <1>2 DEF HasStatus
    <2>3. \A p \in Requests : req[p].pc = "mark" => req'[p].pc = "mark"
      BY <1>1, <1>4 DEF GoesOn, TypeOK
    <2> QED
      BY <1>1, <1>3, <2>1, <2>2, <2>3 DEF ApprovedForDate
  <1>10. \A a \in 1..Len(bookings) :
             /\ bookings[a].status = "pending" /\ bookingLock[a] # q =>
                    bookings'[a].status = "pending"
             /\ bookings[a].status \in {"approved", "postponed", "gone"} =>
                    bookings'[a].status \in {"approved", "postponed", "gone"}
    BY <1>2
  <1> QED
    BY <1>2, <1>3, <1>4, <1>6, <1>8, <1>9, <1>10, GrowthKeeps

LEMMA TomorrowKeeps == ASSUME IInv, Tomorrow \/ UNCHANGED vars PROVE IInv'
  <1>1. TypeOK /\ Single /\ QueueOrders
    BY DEF IInv
  <1>2. /\ UNCHANGED <<slot, exists, bookings, slotLock, bookingLock, req, crashes>>
        /\ today' \in Days
    BY <1>1, AppointmentsAssumption DEF Tomorrow, vars, TypeOK, Days
  <1>3. Faded
    BY <1>1, <1>2, NothingFades
  <1>4. TypeOK'
    BY <1>1, <1>2 DEF TypeOK, Locals
  <1>5. \A q \in Requests : LocalInv(q)'
    <2>1. bookings \in Seq(Booking) /\ Len(bookings) <= Len(bookings')
      BY <1>1, <1>2, Domains DEF TypeOK
    <2> QED
      BY <1>2, <1>3, <2>1, OthersKeep DEF LocksKept
  <1>6. ApprovedForDate'
    BY <1>2, <1>3, DateStays
  <1> QED
    BY <1>1, <1>3, <1>4, <1>5, <1>6, FadeKeeps DEF IInv

LEMMA CrashKeeps == ASSUME IInv, Crash PROVE IInv'
  <1>1. TypeOK /\ Single /\ QueueOrders
    BY DEF IInv
  <1>2. /\ UNCHANGED <<slot, exists, bookings, today>> /\ crashes' \in 1..MaxCrashes
        /\ slotLock' = NoRequest /\ bookingLock' = [b \in 1..MaxBookings |-> NoRequest]
    BY <1>1, AppointmentsAssumption DEF Crash, TypeOK
  <1>3. PICK n : n = Idle
    OBVIOUS
  <1>4. n \in Locals' /\ n.pc = "idle" /\ req' = [q \in Requests |-> n]
    BY <1>2, <1>3 DEF Idle, Locals, Crash
  <1>5. TypeOK'
    BY <1>1, <1>2, <1>4 DEF TypeOK
  <1>6. \A q \in Requests : LocalInv(q)'
    BY <1>2, <1>4, AppointmentsAssumption DEF LocalInv, Holding, Deciding
  <1>7. ApprovedForDate'
    BY <1>2 DEF ApprovedForDate
  <1>8. Faded
    BY <1>1, <1>2, NothingFades
  <1> QED
    BY <1>1, <1>5, <1>6, <1>7, <1>8, FadeKeeps DEF IInv

LEMMA NextInvariant == IInv /\ [Next]_vars => IInv'
  <1> SUFFICES ASSUME IInv, [Next]_vars PROVE IInv'
    OBVIOUS
  <1>1. ASSUME NEW q \in Requests, Arrive(q) PROVE IInv'
    BY <1>1, BookKeeps, DecideKeeps, UpdateAttendanceKeeps, DeletePastKeeps,
       UpdateSlotKeeps, DeleteSlotKeeps
    DEF Arrive
  <1>2. ASSUME NEW q \in Requests, Serve(q) PROVE IInv'
    BY <1>2, CreateBookingKeeps, LockSlotKeeps, UpdateBookingKeeps, WriteSlotKeeps,
       MarkKeeps, DestroyKeeps, CascadeKeeps, WriteAttendanceKeeps, DeleteBookingKeeps
    DEF Serve
  <1> QED
    BY <1>1, <1>2, DeadlockKeeps, TomorrowKeeps, CrashKeeps DEF Next

-----------------------------------------------------------------------------
(* The theorems                                                            *)

LEMMA Invariant == Spec => []IInv
  BY InitInvariant, NextInvariant, PTL DEF Spec

(* The variables have their types: no request decides on, attends to or    *)
(* removes a booking that does not exist.                                  *)
THEOREM TypeCorrect == Spec => []TypeOK
  <1>1. IInv => TypeOK
    BY DEF IInv
  <1> QED
    BY <1>1, Invariant, PTL

(* A citizen has one active booking at most, however his requests overlap  *)
(* (bookAppointmentService).                                               *)
THEOREM BookedOnce == Spec => []OneBooking
  <1>1. ASSUME IInv PROVE OneBooking
    <2>1. ASSUME NEW c \in Citizens PROVE Cardinality(Active(c)) <= 1
      <3>1. CASE Active(c) = {}
        BY <3>1, FS_EmptySet
      <3>2. CASE Active(c) # {}
        <4>1. PICK b : Active(c) = {b}
          BY <1>1, <3>2 DEF IInv, Single
        <4> QED
          BY <4>1, FS_Singleton
      <3> QED
        BY <3>1, <3>2
    <2> QED
      BY <2>1 DEF OneBooking
  <1> QED
    BY <1>1, Invariant, PTL

(* Nobody shares his place in the queue (decideBookingService).            *)
THEOREM QueueCorrect == Spec => []QueueOrders
  <1>1. IInv => QueueOrders
    BY DEF IInv
  <1> QED
    BY <1>1, Invariant, PTL

(* An approval that is shown was given for the slot's date, or the request *)
(* that changed the date has yet to take it back                           *)
(* (updateAppointmentSlotService).                                         *)
THEOREM DateCorrect == Spec => []ApprovedForDate
  <1>1. IInv => ApprovedForDate
    BY DEF IInv
  <1> QED
    BY <1>1, Invariant, PTL
-----------------------------------------------------------------------------
(* What a step does to the bookings                                        *)

(* Only a booking request and a decision do more than let bookings fade.   *)
LEMMA BookingsStep ==
    ASSUME IInv, [Next]_vars
    PROVE  Faded \/ \E q \in Requests : CreateBooking(q) \/ UpdateBooking(q)
  <1>1. TypeOK
    BY DEF IInv
  <1>2. CASE UNCHANGED bookings
    BY <1>1, <1>2, NothingFades
  <1>3. ASSUME NEW q \in Requests, Arrive(q) PROVE UNCHANGED bookings
    BY <1>3 DEF Arrive, Book, Decide, UpdateAttendance, DeletePastBooking, UpdateSlot,
       DeleteSlot
  <1>4. ASSUME NEW q \in Requests, Serve(q), ~CreateBooking(q), ~UpdateBooking(q)
        PROVE  Faded
    <2>1. CASE LockSlot(q) \/ WriteSlot(q) \/ Destroy(q)
      <3>1. UNCHANGED bookings
        BY <2>1 DEF LockSlot, WriteSlot, Destroy
      <3> QED
        BY <1>1, <3>1, NothingFades
    <2>2. CASE \/ MarkApprovedAsPostponed(q) \/ Cascade(q)
               \/ WriteAttendance(q) \/ DeleteBooking(q)
      BY <2>2, MarkKeeps, CascadeKeeps, WriteAttendanceKeeps, DeleteBookingKeeps
    <2> QED
      BY <1>4, <2>1, <2>2 DEF Serve
  <1>5. CASE DeadlockDetected \/ Tomorrow \/ Crash \/ UNCHANGED vars
    BY <1>2, <1>5 DEF DeadlockDetected, Tomorrow, Crash, vars
  <1> QED
    BY <1>2, <1>3, <1>4, <1>5 DEF Next

LEMMA PlacesStep ==
    ASSUME IInv, [Next]_vars, Cardinality(Occupied') > Cardinality(Occupied)
    PROVE  Cardinality(Occupied') <= slot'.capacity
  <1>1. TypeOK /\ Single /\ QueueOrders
    BY DEF IInv
  <1>2. IsFiniteSet(Occupied) /\ Cardinality(Occupied) \in Nat
    BY <1>1, Domains DEF Occupied
  <1>3. ASSUME NEW q \in Requests, UpdateBooking(q)
        PROVE  Cardinality(Occupied') <= slot'.capacity
    <2>1. PICK b \in 1..Len(bookings) :
              /\ bookings[b].status = "pending"
              /\ DOMAIN bookings' = 1..Len(bookings)
              /\ \A a \in 1..Len(bookings) : a # b => bookings'[a] = bookings[a]
              /\ \/ Cardinality(Occupied) < slot.capacity
                 \/ bookings'[b].status = "rejected"
      BY <1>3, Decided
    <2>2. Occupied' \subseteq Occupied \cup {b}
      BY <1>1, <2>1, Domains DEF Occupied, HasStatus
    <2>3. /\ IsFiniteSet(Occupied \cup {b}) /\ Cardinality(Occupied \cup {b}) \in Nat
          /\ Cardinality(Occupied \cup {b}) <= Cardinality(Occupied) + 1
      <3>1. /\ IsFiniteSet(Occupied \cup {b})
            /\ \/ Cardinality(Occupied \cup {b}) = Cardinality(Occupied)
               \/ Cardinality(Occupied \cup {b}) = Cardinality(Occupied) + 1
        BY <1>2, FS_AddElement
      <3> QED
        BY <1>2, <3>1
    <2>4. Cardinality(Occupied') \in Nat /\ Cardinality(Occupied') <= Cardinality(Occupied \cup {b})
      BY <2>2, <2>3, FS_Subset, FS_CardinalityType
    <2>5. CASE Cardinality(Occupied) < slot.capacity
      <3>1. slot' = slot /\ slot.capacity \in Nat
        BY <1>1, <1>3, AppointmentsAssumption DEF UpdateBooking, TypeOK, Slots
      <3> QED
        BY <1>2, <2>3, <2>4, <2>5, <3>1
    <2>6. CASE bookings'[b].status = "rejected"
      <3>1. Occupied' \subseteq Occupied
        BY <2>1, <2>2, <2>6 DEF Occupied, HasStatus
      <3>2. Cardinality(Occupied') <= Cardinality(Occupied)
        BY <1>2, <3>1, FS_Subset
      <3> QED
        BY <1>2, <2>4, <3>2
    <2> QED
      BY <2>1, <2>5, <2>6
  <1>4. ASSUME NEW q \in Requests, CreateBooking(q) PROVE FALSE
    <2>1. HasStatus({"approved", "postponed"})' = HasStatus({"approved", "postponed"})
      <3>1. PICK last :
              \A S : HasStatus(S)' =
                         HasStatus(S) \cup (IF "pending" \in S THEN {last} ELSE {})
        BY <1>4, Created
      <3>2. "pending" \notin {"approved", "postponed"}
        OBVIOUS
      <3> QED
        BY <3>1, <3>2
    <2>2. Occupied' = Occupied
      BY <2>1 DEF Occupied
    <2> QED
      BY <1>2, <2>2
  <1>5. ~Faded
    <2>1. ASSUME Faded PROVE FALSE
      <3>1. Occupied' \subseteq Occupied
        BY <1>1, <2>1, FadeKeeps
      <3>2. Cardinality(Occupied') \in Nat /\ Cardinality(Occupied') <= Cardinality(Occupied)
        BY <1>2, <3>1, FS_Subset, FS_CardinalityType
      <3> QED
        BY <1>2, <3>2
    <2> QED
      BY <2>1
  <1> QED
    BY <1>3, <1>4, <1>5, BookingsStep

(* No approval leaves more bookings than places, although clerks change    *)
(* the capacity and approve at the same time (decideBookingService counts  *)
(* under the lock of the slot).                                            *)
THEOREM PlacesSuffice == Spec => NeverOverbooks
  <1>1. IInv /\ [Next]_vars =>
            (Cardinality(Occupied') > Cardinality(Occupied) =>
                Cardinality(Occupied') <= slot'.capacity)
    BY PlacesStep
  <1> QED
    BY <1>1, Invariant, PTL DEF Spec, NeverOverbooks

LEMMA DecisionStep ==
    ASSUME IInv, [Next]_vars, NEW b \in Live \ HasStatus({"pending"})
    PROVE  \/ bookings'[b].status = "gone"
           \/ /\ bookings'[b].status \in {bookings[b].status, "postponed"}
              /\ bookings'[b].order = bookings[b].order
  <1>1. TypeOK
    BY DEF IInv
  <1>2. b \in 1..Len(bookings) /\ bookings[b].status # "pending"
    BY <1>1, Domains DEF Live, HasStatus
  <1>3. CASE Faded
    BY <1>2, <1>3 DEF Faded, Fades
  <1>4. ASSUME NEW q \in Requests, CreateBooking(q) PROVE bookings'[b] = bookings[b]
    BY <1>2, <1>4, Created
  <1>5. ASSUME NEW q \in Requests, UpdateBooking(q) PROVE bookings'[b] = bookings[b]
    BY <1>2, <1>5, Decided
  <1> QED
    BY <1>3, <1>4, <1>5, BookingsStep

(* A decision is taken once (decideBookingService looks at the booking     *)
(* under its lock).                                                        *)
THEOREM DecisionsStand == Spec => DecidedOnce
  <1>1. IInv /\ [Next]_vars =>
            \A b \in Live \ HasStatus({"pending"}) :
               \/ bookings'[b].status = "gone"
               \/ /\ bookings'[b].status \in {bookings[b].status, "postponed"}
                  /\ bookings'[b].order = bookings[b].order
    BY DecisionStep
  <1> QED
    BY <1>1, Invariant, PTL DEF Spec, DecidedOnce
=============================================================================
