--------------------------- MODULE MCRegistration ---------------------------
(* Instance of Registration: two mishaps, one of which may be a client     *)
(* over TCP and the other a request it causes; answers in one part, which  *)
(* those of other requests still displace.                                 *)
EXTENDS Registration
=============================================================================
