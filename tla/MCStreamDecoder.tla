-------------------------- MODULE MCStreamDecoder ---------------------------
(***************************************************************************)
(* A response in two packets, one without a payload, and a notification    *)
(* that has the group and opcode of the first.                             *)
(***************************************************************************)
EXTENDS StreamDecoderInvariant

MCMessages ==
  { [mt |-> Response, gid |-> 1, oid |-> 2, payload |-> << 0, 33 >>],
    [mt |-> Response, gid |-> 0, oid |-> 2, payload |-> << >>],
    [mt |-> Notification, gid |-> 1, oid |-> 2, payload |-> << 64 >>] }

MCUnknownTypes == { 5 }
=============================================================================
