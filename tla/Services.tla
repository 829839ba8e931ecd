---- MODULE Services ----
(***************************************************************************)
(* What serves requests, side by side: paper trading, the login guard, the *)
(* watchlists, the calls to outside providers and the transport to the     *)
(* broker.  They share no variable.                                        *)
(***************************************************************************)
EXTENDS PaperBroker, LoginGuard, Watchlists, ProviderCalls, KisTransport

ServicesSpec == Spec /\ LoginSpec /\ WatchSpec /\ ProvSpec /\ WireSpec

\* The shape of the state of every part.
ServicesTypeOK == TypeOK /\ LoginTypeOK /\ WatchTypeOK /\ ProvTypeOK /\ WireTypeOK
====
