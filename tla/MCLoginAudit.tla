---- MODULE MCLoginAudit ----
(***************************************************************************)
(* Login alone: is a row kept of every attempt?  See AttemptsAreRecorded   *)
(* of LoginGuard.                                                          *)
(***************************************************************************)
EXTENDS LoginGuard

MCAuths == {[enabled |-> TRUE, secret |-> TRUE, guard |-> TRUE]}

\* A request thread runs until its response is sent.
MCSpec == LoginSpec /\ \A t \in Requesters : WF_loginVars(Serve(t))
====
