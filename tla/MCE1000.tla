---- MODULE MCE1000 ----
(* Rings of three slots, two frames: both rings fill up, wrap around and overtake a stale head. *)
EXTENDS E1000
====
