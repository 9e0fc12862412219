-------------------------- MODULE MCReadingEvents --------------------------
(* Two books with two positions; of three identities the first record of a
   session burns one; one reset. *)
EXTENDS ReadingEvents

BookBodies == Books \X Positions
CardFaults == {"remove", "rollback"}
=============================================================================
