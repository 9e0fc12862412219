-------------------------- MODULE MCProgressInbox --------------------------
(* Instances of ProgressInbox for TLC. *)
EXTENDS ProgressInbox

AllRare == Rare
OnlyReview == {"review"}
OnlyUnread == {"unread"}

(* A behaviour is followed until a third kind of rare thing happens in it. *)
MaxRareKinds == 2
FewRareKinds == Cardinality(rare) <= MaxRareKinds
=============================================================================
