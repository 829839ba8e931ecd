---- MODULE MCApprovalSafety ----
(***************************************************************************)
(* The safety run of ApprovalWorkflow.  Its properties need different      *)
(* instances of the workflow to be interesting; each has a deployment of   *)
(* its own, which tells them apart in every state:                         *)
(*   RowLocks   races: the expiry job, switches, one restart;              *)
(*   Sqlite     the database lock, three kinds of request, and caps that   *)
(*              two of them exceed;                                        *)
(*   OneByOne   one request at a time, every book and every setting.       *)
(***************************************************************************)
EXTENDS MCApprovalWorkflow

Races == INSTANCE ApprovalWorkflow WITH
           Profiles <- OneProfile, Books <- OneBook, Switches <- StopAndGo,
           MaxRestarts <- 1, Deployments <- WithRowLocks

OneWriter == INSTANCE ApprovalWorkflow WITH
               Profiles <- ThreeProfiles, Books <- OneBook, Switches <- AlwaysOn,
               MaxRestarts <- 0, Deployments <- {Sqlite}

OneByOneClient == INSTANCE ApprovalWorkflow WITH
                    Profiles <- OneProfile, MaxRestarts <- 1, Deployments <- {OneByOne}

SafetyInit == Races!Init \/ OneWriter!Init \/ OneByOneClient!Init

SafetyNext ==
  \/ deployment = RowLocks /\ Races!Next
  \/ deployment = Sqlite /\ OneWriter!Next
  \/ deployment = OneByOne /\ OneByOneClient!Next

SafetySpec == SafetyInit /\ [][SafetyNext]_vars
====
