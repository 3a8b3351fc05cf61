-------------------------------- MODULE Rows --------------------------------
(* What the modules of the back office share: SQL NULL, and what the flush *)
(* of an object does to its row.                                           *)

CONSTANT None  \* SQL NULL

(* The UPDATE of a session that read "seen" and made it "new": only the    *)
(* columns it changed, over whatever the row holds by now.                 *)
Overlay(now, seen, new) ==
    [f \in DOMAIN now |-> IF new[f] # seen[f] THEN new[f] ELSE now[f]]
=============================================================================
