--------------------------- MODULE MCAppointments ---------------------------
(* One slot for TLC: the cfg file gives citizens, requests and bounds.     *)
EXTENDS Appointments
=============================================================================
