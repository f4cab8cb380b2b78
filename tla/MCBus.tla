--------------------------------- MODULE MCBus ---------------------------------
(* Instances of Bus for TLC: every sequence of plugs, remaps and unplugs of two *)
(* interchangeable components on a bus of four addresses.                       *)
EXTENDS Bus, TLC

Symmetry == Permutations(Components)
===============================================================================
