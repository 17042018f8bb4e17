----------------------------- MODULE MCBleShell -----------------------------
(***************************************************************************)
(* Chunks of one token cut every prompt, chunks of three carry an answer   *)
(* and its prompt at once.                                                 *)
(***************************************************************************)
EXTENDS BleShellInvariant
=============================================================================
