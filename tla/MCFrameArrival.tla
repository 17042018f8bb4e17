--------------------------- MODULE MCFrameArrival ---------------------------
(***************************************************************************)
(* Payload lengths on both sides of the one-byte limit, data packets on    *)
(* both sides of 256, every field at the ends of its range.                *)
(***************************************************************************)
EXTENDS FrameArrival

LOCAL Payload(n) == [ i \in 1 .. n |-> (i * 7) % 256 ]

MCFrames ==
  { [mt |-> mt, pbf |-> pbf, gid |-> gid, oid |-> oid, payload |-> Payload(n)] :
      mt \in { Command, Notification }, pbf \in BOOLEAN,
      gid \in { 0, 15 }, oid \in { 0, 255 }, n \in { 0, 1, 255 } }
  \cup
  { [mt |-> DataPacket, pbf |-> FALSE, gid |-> 1, oid |-> 0,
     payload |-> Payload(n)] : n \in { 0, 255, 256, 300 } }

MCTrailers == { << >>, << 64, 2 >>, << 255, 255, 255, 255, 255 >> }
=============================================================================
