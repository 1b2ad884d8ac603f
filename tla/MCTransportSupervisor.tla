------------------------ MODULE MCTransportSupervisor ------------------------
(* TransportSupervisor on small instances. *)
EXTENDS TransportSupervisorProofs

\* Maps 0 and 2 have the same content: an alert that was cleared again, which
\* the watchdog cannot tell from a map that never changed.
AlternatingSignature == [v \in Version |-> v % 2]
=============================================================================
