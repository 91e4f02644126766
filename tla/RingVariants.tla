----------------------------- MODULE RingVariants -----------------------------
(* The ring buffer of each student's assignment 7. The fields are those of     *)
(* Variant in module MessageRing. Sizes are scaled down: 6 does not divide     *)
(* 2^32, as 8 pages less two ints do not, 8 does.                              *)
Aligning == [size |-> 6, limit |-> 6, aligns |-> TRUE, rounds |-> FALSE, room |-> "counted",
             empty |-> "equal", mirror |-> FALSE, resets |-> FALSE, erases |-> FALSE]

dongx        == Aligning
grubb        == Aligning
liuz         == Aligning
vrgooty      == Aligning
alanhumphrey == [Aligning EXCEPT !.size = 8]
alex_steele  == [Aligning EXCEPT !.room = "headerless", !.empty = "past"]
anmol_vatsa  == [Aligning EXCEPT !.room = "headerless", !.empty = "past"]
anthonyw     == [Aligning EXCEPT !.aligns = FALSE, !.room = "sum", !.resets = TRUE, !.erases = TRUE]
klacansky    == [Aligning EXCEPT !.size = 8, !.limit = 8, !.aligns = FALSE, !.rounds = TRUE,
                   !.room = "capacity", !.mirror = TRUE, !.resets = TRUE]
willghatch   == [Aligning EXCEPT !.size = 8, !.limit = 8, !.aligns = FALSE, !.room = "offsets",
                   !.mirror = TRUE, !.resets = TRUE]

Rings == {dongx, grubb, liuz, vrgooty, alanhumphrey, alex_steele, anmol_vatsa, anthonyw, klacansky,
          willghatch}
=============================================================================
