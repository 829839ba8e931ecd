---- MODULE MCServices ----
(***************************************************************************)
(* What serves requests, model-checked: one part of Services moves, the    *)
(* others stay in their initial state.                                     *)
(***************************************************************************)
EXTENDS Services, TLC

CONSTANTS a1, a2, n1   \* the Accounts, one of the Names

VARIABLE part   \* the part that moves

allVars == <<vars, loginVars, watchVars, provVars, wireVars, part>>

\* PaperBroker.  With closes of 2 and 3 a buy of two shares costs 5 or 8 with
\* its fees: an account of 7 affords none at 3.
Order(acct, side, qty, limit) ==
  [acct |-> acct, sym |-> "x", side |-> side, qty |-> qty, limit |-> limit]
Buy == Order(a1, "BUY", 2, 0)
Sell == Order(a1, "SELL", 1, 0)
BuyAtTwo == Order(a2, "BUY", 1, 2)
MCRequests == {Buy, Sell, BuyAtTwo}
Buying == INSTANCE PaperBroker WITH Requests <- {Buy, BuyAtTwo}
Selling == INSTANCE PaperBroker WITH Requests <- {Buy, Sell}, Prices <- {2}
\* No request begins that could only fail on the bound.
RoomToBegin == Len(orders) = MaxOrders =>
  \A w \in Workers : tx'[w].op = "submit" => tx[w].op = "submit"
MCTimetable == <<"collect", "execute", "snapshot">>

\* LoginGuard.  Another process only takes over early, and then time stops.
MCAuths == {[enabled |-> TRUE, secret |-> TRUE, guard |-> TRUE],
            [enabled |-> FALSE, secret |-> FALSE, guard |-> FALSE]}
RestartsEarly == epoch' = 1 => now' <= 1

\* Watchlists: two users and threads on lists of one name, and one user alone on
\* lists of two names; memos, which only differ in the row they need, with the latter.
OneName == INSTANCE Watchlists WITH Names <- {n1}
OneUser ==
  /\ Cardinality({work[s].user : s \in {r \in Sessions : work[r] # Resting}}
                 \cup {lists[i].owner : i \in ListIds}) <= 1
  /\ \A s \in Sessions : work[s].op \notin {"add", "remove"}
NoMemos == \A s \in Sessions : work[s].op # "memo"

\* ProviderCalls: a feed that is down and recovers; two listings; two statements.
Row(u, d, w, ws) == [url |-> u, day |-> d, whole |-> w, words |-> ws]
MCListings == {<<>>,
               <<Row("u1", 0, TRUE, {"EARNINGS", "RISK"}), Row("u2", 1, TRUE, {})>>,
               <<Row("u1", 1, TRUE, {"RISK"}), Row("u3", 1, FALSE, {})>>}
Field(f, a) == [field |-> f, amount |-> a]
MCStatements == {<<Field("revenue", 1), Field("revenue", 2)>>, <<Field("revenue", 3)>>}
MCTargets == <<"s1", "s2">>
Outage == INSTANCE ProviderCalls WITH
  Ops <- {"news"}, Listings <- {<<>>}, Cutoffs <- {0}, Limits <- {3}
Lists == INSTANCE ProviderCalls WITH
  Ops <- {"disclosures", "news"}, Outages <- {"timeout"}, MaxNow <- 0, MaxAttempts <- 1,
  MaxCalls <- 2
Reports == INSTANCE ProviderCalls WITH
  Ops <- {"earnings", "fundamentals"}, Outages <- {"timeout"}, MaxNow <- 1, MaxAttempts <- 1
NoReset == \A p \in Providers : Len(log'[p]) >= Len(log[p])

MCInit ==
  /\ part \in {"buying", "selling", "login", "lists of two", "lists of one", "outage", "listings", "statements", "wire"}
  /\ Init /\ (part \notin {"buying", "selling"} => paper)
  /\ LoginInit /\ (part # "login" => ~auth.enabled)
  /\ WatchInit /\ (part \notin {"lists of two", "lists of one"} => backend = "sqlite")
  /\ ProvInit
  /\ WireInit

MCNext ==
  \/ /\ \/ part = "buying" /\ Buying!Next
        \/ part = "selling" /\ Selling!Next
     /\ RoomToBegin
     /\ UNCHANGED <<loginVars, watchVars, provVars, wireVars, part>>
  \/ /\ part = "login" /\ LoginNext /\ RestartsEarly
     /\ UNCHANGED <<vars, watchVars, provVars, wireVars, part>>
  \/ /\ \/ part = "lists of two" /\ OneName!WatchNext /\ NoMemos'
        \/ part = "lists of one" /\ WatchNext /\ OneUser'
     /\ UNCHANGED <<vars, loginVars, provVars, wireVars, part>>
  \/ /\ \/ part = "outage" /\ Outage!ProvNext
        \/ part = "listings" /\ Lists!ProvNext /\ NoReset
        \/ part = "statements" /\ Reports!ProvNext /\ NoReset
     /\ UNCHANGED <<vars, loginVars, watchVars, wireVars, part>>
  \/ part = "wire" /\ WireNext /\ UNCHANGED <<vars, loginVars, watchVars, provVars, part>>

MCSpec == MCInit /\ [][MCNext]_allVars

\* The threads of every part are the same two.
Symmetry == Permutations(Workers \cup Requesters \cup Sessions) \cup Permutations(Owners)
====
