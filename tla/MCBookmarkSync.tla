--------------------------- MODULE MCBookmarkSync ---------------------------
(* One bookmark, changed here and by another device: two events of this device
   and three of the server; one kind of rare event, met with two server events. *)
EXTENDS BookmarkSync

AllRare == Rare

(* What is deferred before its cursor is committed: one item at most. *)
ShortReplay == inbox \subseteq 1 .. cursor + 1
=============================================================================
