------------------------------ MODULE MCBudget ------------------------------
(* One window and two levels of use: within the runway, and over the ceiling. *)
(* No reading stands for less use than either.                                *)
EXTENDS Budget
CONSTANTS five_hour
OneWindow == <<five_hour>>
=============================================================================
