------------------------------- MODULE Files -------------------------------
(***************************************************************************)
(* What a file of the card may hold, for the two atomic writers.  Contents *)
(* are abstract: a file holds what one caller stored, or it was not        *)
(* written whole.                                                          *)
(***************************************************************************)

CONSTANTS
    Content,    \* what a caller may store
    NoFile,     \* no such file
    Torn        \* a file whose write was cut short

ASSUME FileAssumption ==
    /\ NoFile \notin Content
    /\ Torn \notin Content \cup {NoFile}
=============================================================================
