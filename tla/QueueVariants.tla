---------------------------- MODULE QueueVariants ----------------------------
(* The ready queue of each student's assignment 2, in the terms of ReadyQueue. *)

vrgooty        == [test |-> "both",  end |-> "only", putClears |-> TRUE,  getClears |-> "always"]
alanhumphrey   == [test |-> "both",  end |-> "end",  putClears |-> TRUE,  getClears |-> "ifmore"]
dongx          == [test |-> "each",  end |-> "end",  putClears |-> TRUE,  getClears |-> "never"]
anthonyw       == [test |-> "each",  end |-> "same", putClears |-> TRUE,  getClears |-> "never"]
grubb          == [test |-> "each",  end |-> "same", putClears |-> TRUE,  getClears |-> "ifmore"]
kincaid_savoie == [test |-> "each",  end |-> "end",  putClears |-> FALSE, getClears |-> "always"]
alex_steele    == [test |-> "last",  end |-> "end",  putClears |-> FALSE, getClears |-> "ifmore"]
anmol_vatsa    == [test |-> "last",  end |-> "same", putClears |-> TRUE,  getClears |-> "never"]
bpradeepk      == [test |-> "first", end |-> "same", putClears |-> FALSE, getClears |-> "always"]
willghatch     == [test |-> "first", end |-> "same", putClears |-> TRUE,  getClears |-> "always"]
(* Three students end the queue in a sentinel, two of them with casts of the   *)
(* addresses of the end pointers, one with a circular list.                    *)
fresco         == [test |-> "last",  end |-> "end",  putClears |-> TRUE,  getClears |-> "never"]
liuz           == [test |-> "last",  end |-> "end",  putClears |-> TRUE,  getClears |-> "never"]
klacansky      == [test |-> "last",  end |-> "end",  putClears |-> TRUE,  getClears |-> "never"]

QueueVariants ==
  {vrgooty, alanhumphrey, dongx, anthonyw, grubb, kincaid_savoie, alex_steele,
   anmol_vatsa, bpradeepk, willghatch, fresco, liuz, klacansky}
=============================================================================
