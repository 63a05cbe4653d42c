---------------------- MODULE MCHSKPassportFreshness ----------------------
(* A small instance of HSKPassportFreshness for TLC: trees of two provers. *)
EXTENDS HSKPassportFreshness

CONSTANTS r1, r2, r3, alice, bob

(* r1: alice alone; r2: bob appended; r3: a tree of bob alone. *)
LeavesOfRoots ==
    [r \in {r1, r2, r3} |->
        CASE r = r1 -> {<<alice, 1>>}
          [] r = r2 -> {<<alice, 1>>, <<bob, 2>>}
          [] r = r3 -> {<<bob, 2>>}]
=============================================================================
