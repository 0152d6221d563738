------------------------------ MODULE MCWatch ------------------------------
(* A source of a few items, watched under one of two names. *)
EXTENDS Watch
CONSTANTS feed, renamed
AllItems == Items
NotTheThird == Items \ {3}
=============================================================================
