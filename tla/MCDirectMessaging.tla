------------------------- MODULE MCDirectMessaging -------------------------
(* Small instances of DirectMessaging for TLC. *)
EXTENDS DirectMessaging, TLC
=============================================================================
