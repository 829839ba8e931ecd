---- MODULE KisTransport ----
(***************************************************************************)
(* HttpxKisOrderTransport (app/broker/kis_order_transport_real.py): how    *)
(* place_order, query_fill_status and cancel_order turn what happens on    *)
(* the wire into an answer, and which of them try again.  RealOrders uses  *)
(* the three calls as single steps; here a call is its requests, and an    *)
(* answer that never arrives may belong to a request that was carried out. *)
(***************************************************************************)
EXTENDS Integers, Sequences, FiniteSets

CONSTANTS
  Ordered,         \* the quantity of every order
  PlaceRetries, QueryRetries, CancelRetries,   \* 0, 2 and 2 in the code
  MaxWireOrders, MaxWireCalls                  \* bounds

ASSUME KisTransportAssumption ==
  /\ Ordered \in Nat \ {0}
  /\ PlaceRetries \in Nat /\ QueryRetries \in Nat /\ CancelRetries \in Nat

VARIABLES
  exchange,     \* external: the orders KIS has, [filled, flag]
  wire,       \* the call in progress, or the last one with its answer
  placed, wireCalls   \* calls of place_order and calls so far

wireVars == <<exchange, wire, placed, wireCalls>>

NoAnswer == [success |-> FALSE, class |-> "-", ref |-> 0, filled |-> 0]
NoWire == [pc |-> "idle", op |-> "-", ref |-> 0, tries |-> 0, before |-> 0, was |-> 0,
           answer |-> NoAnswer]

WireInit == exchange = <<>> /\ wire = NoWire /\ placed = 0 /\ wireCalls = 0

Ended(success, class, ref, filled) ==
  [success |-> success, class |-> class, ref |-> ref, filled |-> filled]

----
\* The outcome of a request as the client sees it: an exception of httpx, an
\* HTTP status, a 200 whose body is no JSON object (garbled), an object without
\* an rt_cd that can be read (uncoded), or KIS's own verdict (rt_cd).  KIS is
\* taken not to have done what it answers with a 4xx or an error code of its own.
Silent == {"timeout", "network"}
Unclear == {"5xx", "3xx", "garbled"}
NotDone == {"4xx", "refused"}
Replies == Silent \cup Unclear \cup NotDone \cup {"uncoded", "ok"}

\* Both are REJECTED to those who read the prefix of the message; the second
\* says rt_cd=? for its reason, and KIS may have done what was asked.
Unreasoned == "REJECTED rt_cd=?"

\* Mutant: an answer that cannot be read is a rejection.
PlaceAnswerRejecting(reply, ref) ==
  CASE reply = "timeout"   -> Ended(FALSE, "TIMEOUT", 0, 0)
    [] reply = "network"   -> Ended(FALSE, "NETWORK_ERROR", 0, 0)
    [] reply \in Unclear   -> Ended(FALSE, "REJECTED", 0, 0)
    [] reply \in NotDone   -> Ended(FALSE, "REJECTED", 0, 0)
    [] reply = "uncoded"   -> Ended(FALSE, Unreasoned, 0, 0)
    [] reply = "ok"        -> Ended(TRUE, "SUBMITTED", ref, 0)

\* _classify_place_response and the exceptions around it.
PlaceAnswer(reply, ref) ==
  CASE reply = "timeout"   -> Ended(FALSE, "TIMEOUT", 0, 0)
    [] reply = "network"   -> Ended(FALSE, "NETWORK_ERROR", 0, 0)
    [] reply \in Unclear   -> Ended(FALSE, "UNKNOWN", 0, 0)
    [] reply \in NotDone   -> Ended(FALSE, "REJECTED", 0, 0)
    [] reply = "uncoded"   -> Ended(FALSE, Unreasoned, 0, 0)
    [] reply = "ok"        -> Ended(TRUE, "SUBMITTED", ref, 0)

CancelAnswer(reply) ==
  CASE reply = "timeout"   -> Ended(FALSE, "TIMEOUT", 0, 0)
    [] reply = "network"   -> Ended(FALSE, "NETWORK_ERROR", 0, 0)
    [] reply \in Unclear   -> Ended(FALSE, "UNKNOWN", 0, 0)
    [] reply \in NotDone   -> Ended(FALSE, "REJECTED", 0, 0)
    [] reply = "uncoded"   -> Ended(FALSE, Unreasoned, 0, 0)
    [] reply = "ok"        -> Ended(TRUE, "CANCELED", 0, 0)

\* _classify_fill_response: the flags come before the quantities, and a fill
\* without a readable order quantity is unknown.
FillClass(row) ==
  CASE row.rejected                                        -> "REJECTED"
    [] ~row.rejected /\ row.canceled                       -> "CANCELED"
    [] ~row.rejected /\ ~row.canceled /\ row.filled = 0     -> "NONE"
    [] ~row.rejected /\ ~row.canceled /\ row.filled > 0 ->
         IF row.filled < row.ordered THEN "PARTIAL"
         ELSE IF row.ordered > 0 THEN "FULL" ELSE "UNKNOWN"

Definite == {"FULL", "PARTIAL", "NONE"}
FillAnswer(reply, rows) ==
  CASE reply # "ok"                 -> Ended(FALSE, "UNKNOWN", 0, 0)
    [] reply = "ok" /\ rows = {}    -> Ended(TRUE, "NONE", 0, 0)
    [] reply = "ok" /\ rows # {}    ->
         LET row == CHOOSE r \in rows : TRUE
         IN  Ended(FillClass(row) \in Definite, FillClass(row), 0, row.filled)

\* Mutant: every call is tried again.
RetriesAlike(op) == QueryRetries

\* _run_with_retries: only an exception of httpx is tried again.
Retries(op) == CASE op = "place" -> PlaceRetries [] op = "query" -> QueryRetries
                 [] op = "cancel" -> CancelRetries

Answered(reply, answer) ==
  IF reply \in Silent /\ wire.tries <= Retries(wire.op)
  THEN wire' = [wire EXCEPT !.tries = @ + 1]
  ELSE wire' = [wire EXCEPT !.pc = "answered", !.answer = answer]

----
Call(op, ref) ==
  /\ wire.pc \in {"idle", "answered"} /\ wireCalls < MaxWireCalls
  /\ op = "place" => Len(exchange) < MaxWireOrders
  /\ wire' = [NoWire EXCEPT !.pc = "sent", !.op = op, !.ref = ref, !.tries = 1,
                !.before = Len(exchange),
                !.was = IF ref \in DOMAIN exchange THEN exchange[ref].filled ELSE 0]
  /\ placed' = placed + (IF op = "place" THEN 1 ELSE 0)
  /\ wireCalls' = wireCalls + 1
  /\ UNCHANGED exchange

\* KIS accepts the order or does not, and the client hears of it or does not.
Accepted == Append(exchange, [filled |-> 0, flag |-> "live"])
Place(reply) ==
  /\ wire.pc = "sent" /\ wire.op = "place"
  /\ \/ reply \notin NotDone /\ exchange' = Accepted
     \/ reply # "ok" /\ UNCHANGED exchange
  /\ \E known \in BOOLEAN :
       Answered(reply, PlaceAnswer(reply, IF known THEN Len(exchange) + 1 ELSE 0))
  /\ UNCHANGED <<placed, wireCalls>>

\* A cancel is carried out once; asked again, KIS refuses it.
Cancelable(i) == i \in DOMAIN exchange /\ exchange[i].flag = "live" /\ exchange[i].filled < Ordered
Cancel(reply) ==
  /\ wire.pc = "sent" /\ wire.op = "cancel"
  /\ \/ /\ reply \notin NotDone /\ Cancelable(wire.ref)
        /\ exchange' = [exchange EXCEPT ![wire.ref].flag = "canceled"]
     \/ reply # "ok" /\ UNCHANGED exchange
  /\ Answered(reply, CancelAnswer(reply))
  /\ UNCHANGED <<placed, wireCalls>>

\* The row KIS shows of an order, if it shows one; either quantity may be
\* unreadable, which the client takes for zero.
ShownRows(i) ==
  {{}} \cup (IF i \notin DOMAIN exchange THEN {}
             ELSE {{[filled |-> f, ordered |-> q,
                     rejected |-> exchange[i].flag = "rejected",
                     canceled |-> exchange[i].flag = "canceled"]} :
                   f \in {0, exchange[i].filled}, q \in {0, Ordered}})
Query(reply) ==
  /\ wire.pc = "sent" /\ wire.op = "query"
  /\ \E rows \in ShownRows(wire.ref) : Answered(reply, FillAnswer(reply, rows))
  /\ UNCHANGED <<exchange, placed, wireCalls>>

\* The market fills, rejects or cancels what KIS has.
MarketMoves(i) ==
  /\ exchange[i].flag = "live"
  /\ \/ exchange[i].filled < Ordered /\ exchange' = [exchange EXCEPT ![i].filled = @ + 1]
     \/ \E f \in {"rejected", "canceled"} :
          exchange[i].filled < Ordered /\ exchange' = [exchange EXCEPT ![i].flag = f]
  /\ UNCHANGED <<wire, placed, wireCalls>>

WireNext ==
  \/ Call("place", 0)
  \/ \E op \in {"query", "cancel"}, ref \in 0 .. Len(exchange) : Call(op, ref)
  \/ \E reply \in Replies : Place(reply) \/ Cancel(reply) \/ Query(reply)
  \/ \E i \in DOMAIN exchange : MarketMoves(i)

WireSpec == WireInit /\ [][WireNext]_wireVars

----
WireTypeOK ==
  /\ \A i \in DOMAIN exchange : exchange[i].filled \in 0 .. Ordered
                              /\ exchange[i].flag \in {"live", "canceled", "rejected"}
  /\ wire.pc \in {"idle", "sent", "answered"} /\ wire.ref \in 0 .. Len(exchange)
  /\ wire.pc # "idle" => wire.tries \in 1 .. Retries(wire.op) + 1
  /\ placed <= wireCalls

\* "NEVER retry place -- duplicate-order risk": however the calls end, KIS holds at
\* most one order for each of them.
NoOrderIsDoubled == Len(exchange) <= placed

\* A definite answer is true: SUBMITTED, and a REJECTED that names its reason, tell
\* whether KIS took the order, CANCELED that it is canceled, and a fill report
\* lies between what was filled when the call began and what is filled now.  A
\* REJECTED with rt_cd=? for its reason tells nothing.
DefiniteAnswersAreTrue ==
  wire.pc = "answered" =>
    LET a == wire.answer IN
    /\ (wire.op = "place" /\ a.class = "SUBMITTED") => Len(exchange) = wire.before + 1
    /\ (wire.op = "place" /\ a.class = "REJECTED") => Len(exchange) = wire.before
    /\ (wire.op = "cancel" /\ a.success) => exchange[wire.ref].flag = "canceled"
    /\ (wire.op = "query" /\ a.class \in {"FULL", "PARTIAL"}) =>
         a.filled \in wire.was .. exchange[wire.ref].filled
    /\ (wire.op = "query" /\ a.class = "FULL") => exchange[wire.ref].filled = Ordered
====
