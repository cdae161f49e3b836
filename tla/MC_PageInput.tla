---------------------------- MODULE MC_PageInput ----------------------------
(* PageInput for TLC: the two readers of the page and three keys. *)
EXTENDS PageInput

MCReaders == {"loop", "promo"}

=============================================================================
