---------------------------- MODULE MCUciClient -----------------------------
(***************************************************************************)
(* Two keys: whether two commands have the same key is all that matters.   *)
(***************************************************************************)
EXTENDS UciClientInvariant

CONSTANTS start, stop

MCKey == { start, stop }
=============================================================================
