---------------------------- MODULE SpaceVariants ----------------------------
(* What each student's vm.c of assignment 7 does with the shared pages: the    *)
(* call that allocates and maps them (_share), allocuvm() to copyuvm()         *)
(* (_space), and the page tables (_tables). The fields are those of Variant in *)
(* module AddressSpace.                                                        *)
LOCAL INSTANCE TLC

Steele == [guard |-> TRUE, first |-> "address", lock |-> "none", oom |-> "rollback",
           mapFails |-> "error", mirror |-> FALSE]
Locked == [guard |-> TRUE, first |-> "before", lock |-> "alloc", oom |-> "panic",
           mapFails |-> "panic", mirror |-> FALSE]

alex_steele_share  == Steele
vrgooty_share      == Steele
anthonyw_share     == [Steele EXCEPT !.first = "after"]
dongx_share        == Locked
grubb_share        == Locked
liuz_share         == Locked
klacansky_share    == [Locked EXCEPT !.first = "address", !.lock = "map", !.mirror = TRUE]
kincaid_share      == [Locked EXCEPT !.first = "after", !.lock = "none"]
alanhumphrey_share == [Locked EXCEPT !.first = "after", !.lock = "none", !.oom = "unchecked"]
anmol_vatsa_share  == [Locked EXCEPT !.first = "always", !.lock = "none"]
pdarragh_share     == [Locked EXCEPT !.first = "always", !.lock = "none"]
willghatch_share   == [guard |-> FALSE, first |-> "before", lock |-> "none", oom |-> "panic",
                       mapFails |-> "ignored", mirror |-> TRUE]
mmcc_share         == [Locked EXCEPT !.first = "never", !.lock = "none"]

alex_steele_space  == [keep |-> TRUE,  copy |-> "share"]
anthonyw_space     == [keep |-> TRUE,  copy |-> "share"]
anmol_vatsa_space  == [keep |-> TRUE,  copy |-> "share"]
klacansky_space    == [keep |-> TRUE,  copy |-> "duplicate"]
dongx_space        == [keep |-> FALSE, copy |-> "share"]
grubb_space        == [keep |-> FALSE, copy |-> "share"]
liuz_space         == [keep |-> FALSE, copy |-> "none"]
vrgooty_space      == [keep |-> FALSE, copy |-> "none"]
kincaid_space      == [keep |-> FALSE, copy |-> "none"]
alanhumphrey_space == [keep |-> FALSE, copy |-> "none"]
pdarragh_space     == [keep |-> FALSE, copy |-> "none"]
willghatch_space   == [keep |-> FALSE, copy |-> "none"]
mmcc_space         == [keep |-> FALSE, copy |-> "none"]

(* walkpgdir(), mappages() and setupkvm() are the same control in all of them. *)
Xv6 == [undo |-> TRUE, remap |-> "panic"]

alex_steele_tables  == Xv6
vrgooty_tables      == Xv6
anthonyw_tables     == Xv6
dongx_tables        == Xv6
grubb_tables        == Xv6
liuz_tables         == Xv6
klacansky_tables    == Xv6
kincaid_tables      == Xv6
alanhumphrey_tables == Xv6
anmol_vatsa_tables  == Xv6
pdarragh_tables     == Xv6
willghatch_tables   == Xv6
mmcc_tables         == Xv6

Kernels == {
  alex_steele_share @@ alex_steele_space @@ alex_steele_tables,
  vrgooty_share @@ vrgooty_space @@ vrgooty_tables,
  anthonyw_share @@ anthonyw_space @@ anthonyw_tables,
  dongx_share @@ dongx_space @@ dongx_tables,
  grubb_share @@ grubb_space @@ grubb_tables,
  liuz_share @@ liuz_space @@ liuz_tables,
  klacansky_share @@ klacansky_space @@ klacansky_tables,
  kincaid_share @@ kincaid_space @@ kincaid_tables,
  alanhumphrey_share @@ alanhumphrey_space @@ alanhumphrey_tables,
  anmol_vatsa_share @@ anmol_vatsa_space @@ anmol_vatsa_tables,
  pdarragh_share @@ pdarragh_space @@ pdarragh_tables,
  willghatch_share @@ willghatch_space @@ willghatch_tables,
  mmcc_share @@ mmcc_space @@ mmcc_tables}
=============================================================================
