---------------------------- MODULE SchedVariants ----------------------------
(* The proc.c of each student and assignment, in four parts whose control is   *)
(* that of module Sched's actions but for the fields of its Variant: scheduler()*)
(* to forkret() (_run), sleep() to kill() (_wake), allocproc() and userinit()  *)
(* (_new), and fork(), exit() and wait() (_life). The last two differ only in  *)
(* whether they interrupt the other processors.                                *)
OneByOne == [discipline |-> "queue", halts |-> FALSE, nudges |-> {}]
Drain    == [discipline |-> "drain", halts |-> FALSE, nudges |-> {}]
Scan     == [discipline |-> "scan",  halts |-> FALSE, nudges |-> {}]
Halting  == [discipline |-> "scan",  halts |-> TRUE,  nudges |-> {"yield"}]

Releases == [killReleases |-> TRUE,  nudges |-> {}]
Keeps    == [killReleases |-> FALSE, nudges |-> {}]
Nudged   == [killReleases |-> TRUE,  nudges |-> {"wakeup", "kill"}]

alanhumphrey_2_run         == OneByOne
alex_steele_2_run          == OneByOne
anmol_vatsa_2_run          == OneByOne
anthonyw_2_run             == OneByOne
dongx_2_run                == OneByOne
kincaid_savoie_2_run       == OneByOne
klacansky_2_run            == OneByOne
vrgooty_2_run              == OneByOne
bpradeepk_2_run            == Drain
fresco_2_run               == Drain
liuz_2_run                 == Drain
grubb_2_run                == OneByOne
drushton_2_run             == Scan
mmcc_2_run                 == Scan
willghatch_4_run           == Scan
alex_steele_6_run          == Scan
grubb_6_run                == Scan
dongx_6_run                == OneByOne
bpradeepk_6_run            == Drain
mmcc_7_run                 == Scan
kincaid_savoie_final_run   == Halting

alanhumphrey_2_wake        == Releases
alex_steele_2_wake         == Releases
anmol_vatsa_2_wake         == Releases
anthonyw_2_wake            == Releases
dongx_2_wake               == Releases
kincaid_savoie_2_wake      == Releases
klacansky_2_wake           == Releases
vrgooty_2_wake             == Releases
bpradeepk_2_wake           == Releases
fresco_2_wake              == Releases
liuz_2_wake                == Releases
grubb_2_wake               == Keeps
drushton_2_wake            == Releases
mmcc_2_wake                == Releases
willghatch_4_wake          == Releases
alex_steele_6_wake         == Releases
grubb_6_wake               == Releases
dongx_6_wake               == Releases
bpradeepk_6_wake           == Releases
mmcc_7_wake                == Releases
kincaid_savoie_final_wake  == Nudged

alanhumphrey_2_new         == {}
alex_steele_2_new          == {}
anmol_vatsa_2_new          == {}
anthonyw_2_new             == {}
dongx_2_new                == {}
kincaid_savoie_2_new       == {}
klacansky_2_new            == {}
vrgooty_2_new              == {}
bpradeepk_2_new            == {}
fresco_2_new               == {}
liuz_2_new                 == {}
grubb_2_new                == {}
drushton_2_new             == {}
mmcc_2_new                 == {}
willghatch_4_new           == {}
alex_steele_6_new          == {}
grubb_6_new                == {}
dongx_6_new                == {}
bpradeepk_6_new            == {}
mmcc_7_new                 == {}
kincaid_savoie_final_new   == {"userinit"}

alanhumphrey_2_life        == {}
alex_steele_2_life         == {}
anmol_vatsa_2_life         == {}
anthonyw_2_life            == {}
dongx_2_life               == {}
kincaid_savoie_2_life      == {}
klacansky_2_life           == {}
vrgooty_2_life             == {}
bpradeepk_2_life           == {}
fresco_2_life              == {}
liuz_2_life                == {}
grubb_2_life               == {}
drushton_2_life            == {}
mmcc_2_life                == {}
willghatch_4_life          == {}
alex_steele_6_life         == {}
grubb_6_life               == {}
dongx_6_life               == {}
bpradeepk_6_life           == {}
mmcc_7_life                == {}
kincaid_savoie_final_life  == {"fork"}

(* Control-C is killtree() for the children of the shell.                      *)
alex_steele_6_ctrlC        == TRUE
grubb_6_ctrlC              == TRUE
dongx_6_ctrlC              == TRUE

Kernel(new, life, run, wake) ==
  [discipline |-> run.discipline, halts |-> run.halts, killReleases |-> wake.killReleases,
   nudges |-> new \cup life \cup run.nudges \cup wake.nudges, killsJobs |-> FALSE]

Kernels == {
  Kernel(alanhumphrey_2_new, alanhumphrey_2_life, alanhumphrey_2_run, alanhumphrey_2_wake),
  Kernel(alex_steele_2_new, alex_steele_2_life, alex_steele_2_run, alex_steele_2_wake),
  Kernel(anmol_vatsa_2_new, anmol_vatsa_2_life, anmol_vatsa_2_run, anmol_vatsa_2_wake),
  Kernel(anthonyw_2_new, anthonyw_2_life, anthonyw_2_run, anthonyw_2_wake),
  Kernel(dongx_2_new, dongx_2_life, dongx_2_run, dongx_2_wake),
  Kernel(kincaid_savoie_2_new, kincaid_savoie_2_life, kincaid_savoie_2_run, kincaid_savoie_2_wake),
  Kernel(klacansky_2_new, klacansky_2_life, klacansky_2_run, klacansky_2_wake),
  Kernel(vrgooty_2_new, vrgooty_2_life, vrgooty_2_run, vrgooty_2_wake),
  Kernel(bpradeepk_2_new, bpradeepk_2_life, bpradeepk_2_run, bpradeepk_2_wake),
  Kernel(fresco_2_new, fresco_2_life, fresco_2_run, fresco_2_wake),
  Kernel(liuz_2_new, liuz_2_life, liuz_2_run, liuz_2_wake),
  Kernel(grubb_2_new, grubb_2_life, grubb_2_run, grubb_2_wake),
  Kernel(drushton_2_new, drushton_2_life, drushton_2_run, drushton_2_wake),
  Kernel(mmcc_2_new, mmcc_2_life, mmcc_2_run, mmcc_2_wake),
  Kernel(willghatch_4_new, willghatch_4_life, willghatch_4_run, willghatch_4_wake),
  Kernel(bpradeepk_6_new, bpradeepk_6_life, bpradeepk_6_run, bpradeepk_6_wake),
  Kernel(mmcc_7_new, mmcc_7_life, mmcc_7_run, mmcc_7_wake),
  Kernel(kincaid_savoie_final_new, kincaid_savoie_final_life, kincaid_savoie_final_run, kincaid_savoie_final_wake),
  [Kernel(alex_steele_6_new, alex_steele_6_life, alex_steele_6_run, alex_steele_6_wake) EXCEPT !.killsJobs = alex_steele_6_ctrlC],
  [Kernel(grubb_6_new, grubb_6_life, grubb_6_run, grubb_6_wake) EXCEPT !.killsJobs = grubb_6_ctrlC],
  [Kernel(dongx_6_new, dongx_6_life, dongx_6_run, dongx_6_wake) EXCEPT !.killsJobs = dongx_6_ctrlC]}
=============================================================================
