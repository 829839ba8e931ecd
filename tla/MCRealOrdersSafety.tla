---- MODULE MCRealOrdersSafety ----
(***************************************************************************)
(* The safety run of RealOrders: two instances, which their deployments    *)
(* tell apart in every state.                                              *)
(*   Racing     two callers of execute at once for one candidate, on one   *)
(*              day, the executor's own fake transport in a dry run;       *)
(*   OneByOne   one caller at a time, fills of a share each, two syncs, a  *)
(*              restart, a dry run with an injected transport.             *)
(***************************************************************************)
EXTENDS MCRealOrders

Races == INSTANCE RealOrders WITH
           Approved <- {c1}, Quantity <- 1, MaxSyncs <- 1, MaxRestarts <- 0,
           Switches <- LiveAndFactoryDry, Deployments <- {Racing}

Serial == INSTANCE RealOrders WITH Switches <- LiveAndDry, Deployments <- {OneByOne}

SafetyInit == Races!Init \/ Serial!Init

SafetyNext ==
  \/ deployment = Racing /\ Races!Next /\ today \subseteq today'
  \/ deployment = OneByOne /\ Serial!Next

SafetySpec == SafetyInit /\ [][SafetyNext]_vars
====
