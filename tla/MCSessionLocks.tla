--------------------------- MODULE MCSessionLocks ---------------------------
(* SessionLocks on a small instance: three requests in flight at once, so    *)
(* one can drop its guard while another waits and a third arrives; two       *)
(* session ids; as many mutexes as can be pointed to at the same time.       *)
EXTENDS SessionLocks, TLC
=============================================================================
