---- MODULE OutsideCalls_proofs ----
(***************************************************************************)
(* Proofs about the calls to the outside, for every constant and any       *)
(* number of calls.  KisTransport: what makes the two promises of the      *)
(* transport true is that place_order never retries.  ProviderCalls: what  *)
(* the monitor shows and who is asked next follow from the calls, and an   *)
(* ingestion keeps what it fetched.                                        *)
(***************************************************************************)
EXTENDS Services, PaperBroker_proofs, Users_proofs, SumTheorems

Classes == {"-", "TIMEOUT", "NETWORK_ERROR", "UNKNOWN", "REJECTED", Unreasoned, "SUBMITTED",
            "CANCELED", "NONE", "PARTIAL", "FULL"}
WireAnswers == [success : BOOLEAN, class : Classes, ref : Nat, filled : Nat]
Wires == [pc : {"idle", "sent", "answered"}, op : {"-", "place", "query", "cancel"}, ref : Nat,
          tries : Nat, before : Nat, was : Nat, answer : WireAnswers]
ExchangeRows == [filled : 0 .. Ordered, flag : {"live", "canceled", "rejected"}]

WireTypeInv ==
  /\ exchange \in Seq(ExchangeRows)
  /\ wire \in Wires
  /\ wire.ref \in 0 .. Len(exchange)
  /\ wire.pc = "sent" => wire.tries > 0 /\ wire.op # "-"
  /\ placed \in Nat
  /\ wireCalls \in Nat

\* A call of place_order that is on the wire has not reached the exchange: it is
\* still owed an order.  A query remembers what was filled when it began.
Sent == wire.pc = "sent"
Placing == Sent /\ wire.op = "place"
Definitely == \/ wire.op = "cancel" /\ wire.answer.success
              \/ wire.op = "query" /\ wire.answer.class \in {"FULL", "PARTIAL"}
AnswersAreOfAnOrder == wire.pc = "answered" /\ Definitely => wire.ref # 0

WireInv ==
  /\ WireTypeInv
  /\ Placing => Len(exchange) = wire.before /\ Len(exchange) < placed
  /\ NoOrderIsDoubled
  /\ Sent /\ wire.ref # 0 => wire.was <= exchange[wire.ref].filled
  /\ Sent /\ wire.ref = 0 => wire.was = 0
  /\ AnswersAreOfAnOrder
  /\ DefiniteAnswersAreTrue

----
LEMMA WireInvInit == WireInit => WireInv
BY KisTransportAssumption DEF WireInit, WireInv, WireTypeInv, NoWire, NoAnswer, Wires, WireAnswers,
  Classes, Sent, Placing, NoOrderIsDoubled, AnswersAreOfAnOrder, DefiniteAnswersAreTrue,
  ExchangeRows

\* Every answer the client makes of a reply has its fields.
LEMMA AnswersTyped ==
  /\ \A reply \in Replies, ref \in Nat : PlaceAnswer(reply, ref) \in WireAnswers
  /\ \A reply \in Replies : CancelAnswer(reply) \in WireAnswers
BY DEF Replies, Silent, Unclear, NotDone, Unreasoned, PlaceAnswer, CancelAnswer, Ended, WireAnswers, Classes

\* What a query answers of the row KIS shows: a fill report is the order's own.
LEMMA FillTyped ==
  ASSUME WireTypeInv, NEW reply \in Replies, NEW rows \in ShownRows(wire.ref)
  PROVE  LET a == FillAnswer(reply, rows) IN
         /\ a \in WireAnswers
         /\ a.class \in {"FULL", "PARTIAL"} =>
              /\ wire.ref \in DOMAIN exchange
              /\ a.filled = exchange[wire.ref].filled
         /\ a.class = "FULL" => a.filled = Ordered
<1>. DEFINE a == FillAnswer(reply, rows)
<1>1. CASE reply # "ok"
  BY <1>1 DEF FillAnswer, Ended, WireAnswers, Classes
<1>2. CASE reply = "ok" /\ rows = {}
  BY <1>2 DEF FillAnswer, Ended, WireAnswers, Classes
<1>3. CASE reply = "ok" /\ rows # {}
  <2>1. wire.ref \in DOMAIN exchange
    BY <1>3 DEF ShownRows
  <2>2. exchange[wire.ref] \in ExchangeRows
    BY <2>1 DEF WireTypeInv
  <2>3. PICK f \in {0, exchange[wire.ref].filled}, q \in {0, Ordered} :
          rows = {[filled |-> f, ordered |-> q,
                   rejected |-> exchange[wire.ref].flag = "rejected",
                   canceled |-> exchange[wire.ref].flag = "canceled"]}
    BY <1>3, <2>1 DEF ShownRows
  <2>. DEFINE row == [filled |-> f, ordered |-> q,
                      rejected |-> exchange[wire.ref].flag = "rejected",
                      canceled |-> exchange[wire.ref].flag = "canceled"]
  <2>4. (CHOOSE r \in rows : TRUE) = row
    BY <2>3
  <2>5. a = Ended(FillClass(row) \in Definite, FillClass(row), 0, row.filled)
    BY <1>3, <2>4 DEF FillAnswer
  <2>6. /\ FillClass(row) \in Classes
        /\ FillClass(row) = "FULL" => row.filled = Ordered
        /\ FillClass(row) \in {"FULL", "PARTIAL"} => row.filled = exchange[wire.ref].filled
    BY <2>2, KisTransportAssumption DEF FillClass, Classes, ExchangeRows
  <2>7. row.filled \in Nat
    BY <2>2, KisTransportAssumption DEF ExchangeRows
  <2>. QED BY <2>1, <2>5, <2>6, <2>7 DEF Ended, WireAnswers
<1>. QED BY <1>1, <1>2, <1>3

----
(***************************************************************************)
(* The invariant is inductive, one lemma per action.                       *)
(***************************************************************************)
LEMMA CallKeeps ==
  ASSUME WireInv, NEW op \in {"place", "query", "cancel"}, NEW ref \in 0 .. Len(exchange),
         op = "place" => ref = 0, Call(op, ref)
  PROVE  WireInv'
<1>1. /\ wire' = [NoWire EXCEPT !.pc = "sent", !.op = op, !.ref = ref, !.tries = 1,
                    !.before = Len(exchange),
                    !.was = IF ref \in DOMAIN exchange THEN exchange[ref].filled ELSE 0]
      /\ placed' = placed + (IF op = "place" THEN 1 ELSE 0)
      /\ wireCalls' = wireCalls + 1
      /\ exchange' = exchange
  BY DEF Call
<1>2. /\ Len(exchange) \in Nat
      /\ \A i \in DOMAIN exchange : exchange[i].filled \in Nat
  <2>1. \A i \in DOMAIN exchange : exchange[i] \in ExchangeRows
    BY DEF WireInv, WireTypeInv
  <2>. QED BY <2>1, KisTransportAssumption DEF WireInv, WireTypeInv, ExchangeRows
<1>. DEFINE known == IF ref \in DOMAIN exchange THEN exchange[ref].filled ELSE 0
<1>3. wire' \in Wires
  <2>1. wire' = [pc |-> "sent", op |-> op, ref |-> ref, tries |-> 1, before |-> Len(exchange),
                 was |-> known, answer |-> NoAnswer]
    BY <1>1 DEF NoWire
  <2>2. known \in Nat /\ NoAnswer \in WireAnswers
    BY <1>2 DEF NoAnswer, WireAnswers, Classes
  <2>. HIDE DEF known
  <2>. QED BY <1>2, <2>1, <2>2 DEF Wires
<1>4. /\ wire'.pc = "sent" /\ wire'.op = op /\ wire'.ref = ref /\ wire'.tries = 1
      /\ wire'.before = Len(exchange)
      /\ ref # 0 => wire'.was = exchange[ref].filled
      /\ ref = 0 => wire'.was = 0
  BY <1>1, <1>2 DEF NoWire
<1>5. WireTypeInv'
  BY <1>1, <1>2, <1>3, <1>4 DEF WireInv, WireTypeInv
<1>6. NoOrderIsDoubled' /\ (Placing' => Len(exchange') = wire'.before /\ Len(exchange') < placed')
  BY <1>1, <1>2, <1>4 DEF WireInv, WireTypeInv, NoOrderIsDoubled, Placing, Sent
<1>7. /\ Sent' /\ wire'.ref # 0 => wire'.was <= exchange'[wire'.ref].filled
      /\ Sent' /\ wire'.ref = 0 => wire'.was = 0
  BY <1>1, <1>2, <1>4
<1>8. DefiniteAnswersAreTrue' /\ AnswersAreOfAnOrder'
  BY <1>4 DEF DefiniteAnswersAreTrue, AnswersAreOfAnOrder
<1>. QED BY <1>5, <1>6, <1>7, <1>8 DEF WireInv

\* An answer ends the call, or the request goes out again.
LEMMA AnsweredTurns ==
  ASSUME WireTypeInv, Sent, NEW reply, NEW answer \in WireAnswers, Answered(reply, answer)
  PROVE  /\ wire' \in Wires
         /\ wire'.op = wire.op /\ wire'.ref = wire.ref
         /\ wire'.before = wire.before /\ wire'.was = wire.was
         /\ wire'.tries > 0
         /\ \/ wire'.pc = "answered" /\ wire'.answer = answer
            \/ /\ wire'.pc = "sent" /\ reply \in Silent
               /\ wire.tries <= Retries(wire.op)
<1>1. wire \in Wires /\ wire.tries > 0 /\ wire.tries \in Nat /\ wire.pc = "sent"
  BY DEF WireTypeInv, Sent, Wires
<1>2. CASE reply \in Silent /\ wire.tries <= Retries(wire.op)
  <2>1. wire' = [wire EXCEPT !.tries = @ + 1]
    BY <1>2 DEF Answered
  <2>. QED BY <1>1, <1>2, <2>1 DEF Wires
<1>3. CASE ~(reply \in Silent /\ wire.tries <= Retries(wire.op))
  <2>1. wire' = [wire EXCEPT !.pc = "answered", !.answer = answer]
    BY <1>3 DEF Answered
  <2>. QED BY <1>1, <2>1 DEF Wires
<1>. QED BY <1>2, <1>3

\* Here is why an order is not placed twice: place_order has its one try.
LEMMA PlaceKeeps ==
  ASSUME PlaceRetries = 0, WireInv, NEW reply \in Replies, Place(reply)
  PROVE  WireInv'
<1>1. Placing
  BY DEF Place, Placing, Sent
<1>2. PICK known \in BOOLEAN :
        Answered(reply, PlaceAnswer(reply, IF known THEN Len(exchange) + 1 ELSE 0))
  BY DEF Place
<1>. DEFINE answer == PlaceAnswer(reply, IF known THEN Len(exchange) + 1 ELSE 0)
<1>3. Len(exchange) \in Nat /\ answer \in WireAnswers
  <2>1. Len(exchange) \in Nat
    BY DEF WireInv, WireTypeInv
  <2>2. (IF known THEN Len(exchange) + 1 ELSE 0) \in Nat
    BY <2>1
  <2>. QED BY <2>1, <2>2, AnswersTyped
<1>4. wire.tries > 0 /\ Retries(wire.op) = 0 /\ wire.tries \in Nat
  BY <1>1 DEF WireInv, WireTypeInv, Placing, Sent, Retries, Wires
<1>5. /\ wire' \in Wires /\ wire'.pc = "answered" /\ wire'.answer = answer
      /\ wire'.op = "place" /\ wire'.ref = wire.ref /\ wire'.before = wire.before
  <2>. HIDE DEF answer
  <2>. QED BY <1>1, <1>2, <1>3, <1>4, AnsweredTurns DEF WireInv, Placing, answer
<1>6. /\ answer.class = "SUBMITTED" => reply = "ok"
      /\ answer.class = "REJECTED" => reply \in NotDone
  BY DEF PlaceAnswer, Ended, Unreasoned, Replies, Silent, Unclear, NotDone
<1>7. \/ reply \notin NotDone /\ exchange' = Accepted
      \/ reply # "ok" /\ exchange' = exchange
  BY DEF Place
<1>8. /\ Accepted \in Seq(ExchangeRows) /\ Len(Accepted) = Len(exchange) + 1
  BY KisTransportAssumption DEF WireInv, WireTypeInv, Accepted, ExchangeRows
<1>9. UNCHANGED <<placed, wireCalls>>
  BY DEF Place
<1>10. WireTypeInv'
  BY <1>3, <1>5, <1>7, <1>8, <1>9 DEF WireInv, WireTypeInv
<1>11. NoOrderIsDoubled' /\ ~Placing' /\ ~Sent'
  BY <1>1, <1>3, <1>5, <1>7, <1>8, <1>9 DEF WireInv, WireTypeInv, NoOrderIsDoubled, Placing, Sent
<1>12. DefiniteAnswersAreTrue' /\ AnswersAreOfAnOrder'
  <2>1. Len(exchange) = wire.before
    BY <1>1 DEF WireInv
  <2>2. /\ answer.class = "SUBMITTED" => Len(exchange') = wire.before + 1
        /\ answer.class = "REJECTED" => Len(exchange') = wire.before
    BY <1>6, <1>7, <1>8, <2>1 DEF NotDone
  <2>. HIDE DEF answer
  <2>. QED BY <1>5, <2>2 DEF DefiniteAnswersAreTrue, AnswersAreOfAnOrder, Definitely
<1>. QED BY <1>10, <1>11, <1>12 DEF WireInv

\* A cancel may be asked for again: it is carried out once, and a refusal or an
\* unclear answer says nothing of it.
LEMMA CancelKeeps ==
  ASSUME WireInv, NEW reply \in Replies, Cancel(reply)
  PROVE  WireInv'
<1>1. /\ Sent /\ wire.op = "cancel" /\ ~Placing
      /\ Answered(reply, CancelAnswer(reply))
      /\ CancelAnswer(reply) \in WireAnswers
      /\ UNCHANGED <<placed, wireCalls>>
  BY AnswersTyped DEF Cancel, Sent, Placing
<1>2. /\ wire' \in Wires /\ wire'.op = "cancel" /\ wire'.ref = wire.ref
      /\ wire'.was = wire.was /\ wire'.tries > 0
      /\ \/ wire'.pc = "answered" /\ wire'.answer = CancelAnswer(reply)
         \/ wire'.pc = "sent"
  BY <1>1, AnsweredTurns DEF WireInv
<1>3. CancelAnswer(reply).success => reply = "ok"
  BY DEF CancelAnswer, Ended, Unreasoned, Replies, Silent, Unclear, NotDone
<1>4. CASE /\ reply \notin NotDone /\ Cancelable(wire.ref)
           /\ exchange' = [exchange EXCEPT ![wire.ref].flag = "canceled"]
  <2>1. wire.ref \in DOMAIN exchange /\ exchange[wire.ref] \in ExchangeRows
    BY <1>4 DEF Cancelable, WireInv, WireTypeInv
  <2>2. [exchange[wire.ref] EXCEPT !.flag = "canceled"] \in ExchangeRows
    BY <2>1 DEF ExchangeRows
  <2>3. /\ exchange' \in Seq(ExchangeRows) /\ Len(exchange') = Len(exchange)
        /\ exchange'[wire.ref].flag = "canceled"
        /\ exchange'[wire.ref].filled = exchange[wire.ref].filled
    BY <1>4, <2>1, <2>2 DEF WireInv, WireTypeInv, ExchangeRows
  <2>. QED BY <1>1, <1>2, <2>1, <2>3 DEF WireInv, WireTypeInv, Placing, Sent, NoOrderIsDoubled,
         AnswersAreOfAnOrder, Definitely, DefiniteAnswersAreTrue
<1>5. CASE reply # "ok" /\ exchange' = exchange
  BY <1>1, <1>2, <1>3, <1>5 DEF WireInv, WireTypeInv, Placing, Sent, NoOrderIsDoubled,
    AnswersAreOfAnOrder, Definitely, DefiniteAnswersAreTrue
<1>. QED BY <1>4, <1>5 DEF Cancel

LEMMA QueryKeeps ==
  ASSUME WireInv, NEW reply \in Replies, Query(reply)
  PROVE  WireInv'
<1>1. /\ Sent /\ wire.op = "query" /\ ~Placing
      /\ UNCHANGED <<exchange, placed, wireCalls>>
  BY DEF Query, Sent, Placing
<1>2. PICK rows \in ShownRows(wire.ref) : Answered(reply, FillAnswer(reply, rows))
  BY DEF Query
<1>. DEFINE a == FillAnswer(reply, rows)
<1>3. /\ a \in WireAnswers
      /\ a.class \in {"FULL", "PARTIAL"} =>
           wire.ref \in DOMAIN exchange /\ a.filled = exchange[wire.ref].filled
      /\ a.class = "FULL" => a.filled = Ordered
  BY FillTyped DEF WireInv
<1>4. /\ wire' \in Wires /\ wire'.op = "query" /\ wire'.ref = wire.ref
      /\ wire'.was = wire.was /\ wire'.tries > 0
      /\ \/ wire'.pc = "answered" /\ wire'.answer = a
         \/ wire'.pc = "sent"
  <2>. HIDE DEF a
  <2>. QED BY <1>1, <1>2, <1>3, AnsweredTurns DEF WireInv, a
<1>5. WireTypeInv' /\ NoOrderIsDoubled' /\ ~Placing'
  BY <1>1, <1>4 DEF WireInv, WireTypeInv, Placing, Sent, NoOrderIsDoubled
<1>6. /\ Sent' /\ wire'.ref # 0 => wire'.was <= exchange'[wire'.ref].filled
      /\ Sent' /\ wire'.ref = 0 => wire'.was = 0
  BY <1>1, <1>4 DEF WireInv, Sent
<1>7. wire.ref \in DOMAIN exchange => /\ wire.was <= exchange[wire.ref].filled
                                      /\ exchange[wire.ref].filled \in Nat
                                      /\ wire.was \in Nat
  <2>1. wire.ref \in DOMAIN exchange => exchange[wire.ref] \in ExchangeRows /\ wire.ref # 0
    BY DEF WireInv, WireTypeInv
  <2>. QED BY <1>1, <2>1, KisTransportAssumption DEF WireInv, WireTypeInv, ExchangeRows, Wires
<1>8. DefiniteAnswersAreTrue' /\ AnswersAreOfAnOrder'
  <2>1. wire.ref \in DOMAIN exchange => wire.ref # 0
    BY DEF WireInv, WireTypeInv
  <2>. HIDE DEF a
  <2>. QED BY <1>1, <1>3, <1>4, <1>7, <2>1 DEF DefiniteAnswersAreTrue, AnswersAreOfAnOrder,
         Definitely
<1>. QED BY <1>5, <1>6, <1>8 DEF WireInv

\* Fills only grow, and what is canceled stays so.
LEMMA MarketKeeps ==
  ASSUME WireInv, NEW i \in DOMAIN exchange, MarketMoves(i)
  PROVE  WireInv'
<1>1. UNCHANGED <<wire, placed, wireCalls>> /\ exchange[i] \in ExchangeRows
  BY DEF MarketMoves, WireInv, WireTypeInv
<1>2. /\ exchange' \in Seq(ExchangeRows) /\ Len(exchange') = Len(exchange)
      /\ \A j \in DOMAIN exchange :
           /\ exchange[j].filled \in Nat /\ exchange'[j].filled \in Nat
           /\ exchange[j].filled <= exchange'[j].filled /\ exchange'[j].filled <= Ordered
           /\ exchange[j].flag = "canceled" => exchange'[j].flag = "canceled"
  <2>1. \A j \in DOMAIN exchange : exchange[j] \in ExchangeRows
    BY DEF WireInv, WireTypeInv
  <2>2. CASE exchange[i].filled < Ordered /\ exchange' = [exchange EXCEPT ![i].filled = @ + 1]
    <3>1. [exchange[i] EXCEPT !.filled = @ + 1] \in ExchangeRows
      BY <1>1, <2>2, KisTransportAssumption DEF ExchangeRows
    <3>. QED BY <2>1, <2>2, <3>1, KisTransportAssumption DEF WireInv, WireTypeInv, ExchangeRows
  <2>3. CASE \E f \in {"rejected", "canceled"} : /\ exchange[i].filled < Ordered
                                                 /\ exchange' = [exchange EXCEPT ![i].flag = f]
    <3>1. PICK f \in {"rejected", "canceled"} : exchange' = [exchange EXCEPT ![i].flag = f]
      BY <2>3
    <3>2. [exchange[i] EXCEPT !.flag = f] \in ExchangeRows
      BY <1>1 DEF ExchangeRows
    <3>3. exchange[i].flag = "live"
      BY DEF MarketMoves
    <3>. QED BY <2>1, <3>1, <3>2, <3>3, KisTransportAssumption DEF WireInv, WireTypeInv, ExchangeRows
  <2>. QED BY <2>2, <2>3 DEF MarketMoves
<1>3. WireTypeInv' /\ NoOrderIsDoubled'
      /\ (Placing' => Len(exchange') = wire'.before /\ Len(exchange') < placed')
  BY <1>1, <1>2 DEF WireInv, WireTypeInv, NoOrderIsDoubled, Placing, Sent
<1>4. wire.ref # 0 => wire.ref \in DOMAIN exchange
  BY DEF WireInv, WireTypeInv
<1>5. /\ Sent' /\ wire'.ref # 0 => wire'.was <= exchange'[wire'.ref].filled
      /\ Sent' /\ wire'.ref = 0 => wire'.was = 0
  BY <1>1, <1>2, <1>4 DEF WireInv, WireTypeInv, Wires, Sent
<1>6. AnswersAreOfAnOrder'
  BY <1>1 DEF WireInv, AnswersAreOfAnOrder, Definitely
<1>7. DefiniteAnswersAreTrue'
  <2>. DEFINE r == wire.ref
  <2>1. CASE r = 0
    BY <1>1, <1>2, <2>1 DEF WireInv, DefiniteAnswersAreTrue, AnswersAreOfAnOrder, Definitely
  <2>2. CASE r # 0
    <3>1. r \in DOMAIN exchange
      BY <1>4, <2>2
    <3>2. /\ exchange[r].filled \in Nat /\ exchange'[r].filled \in Nat
          /\ exchange[r].filled <= exchange'[r].filled /\ exchange'[r].filled <= Ordered
          /\ exchange[r].flag = "canceled" => exchange'[r].flag = "canceled"
      BY <1>2, <3>1
    <3>3. wire.was \in Nat /\ wire.answer.filled \in Nat
      BY DEF WireInv, WireTypeInv, Wires, WireAnswers
    <3>. QED BY <1>1, <1>2, <3>2, <3>3, KisTransportAssumption DEF WireInv, DefiniteAnswersAreTrue
  <2>. QED BY <2>1, <2>2
<1>. QED BY <1>3, <1>5, <1>6, <1>7 DEF WireInv

----
LEMMA WireInvNext ==
  ASSUME PlaceRetries = 0, WireInv, [WireNext]_wireVars
  PROVE  WireInv'
<1>1. CASE UNCHANGED wireVars
  BY <1>1 DEF wireVars, WireInv, WireTypeInv, Placing, Sent, NoOrderIsDoubled, AnswersAreOfAnOrder,
    Definitely, DefiniteAnswersAreTrue
<1>2. CASE WireNext
  BY <1>2, CallKeeps, PlaceKeeps, CancelKeeps, QueryKeeps, MarketKeeps DEF WireNext
<1>. QED BY <1>1, <1>2

LEMMA WireInvAlways == ASSUME PlaceRetries = 0 PROVE WireSpec => []WireInv
<1>1. WireInv /\ [WireNext]_wireVars => WireInv'
  BY WireInvNext
<1>. QED BY <1>1, WireInvInit, PTL DEF WireSpec

\* "NEVER retry place": with no retries for place_order, KIS never holds more
\* orders than there were calls, whatever is lost, and whatever queries and
\* cancels do.
THEOREM PlacedOnce == ASSUME PlaceRetries = 0 PROVE WireSpec => []NoOrderIsDoubled
<1>1. WireInv => NoOrderIsDoubled
  BY DEF WireInv
<1>. QED BY <1>1, WireInvAlways, PTL

\* With no retries for place_order, a definite answer (a REJECTED is one when it
\* names its reason) is true when it is given and stays true while the market
\* moves on.
THEOREM AnswersAreTrue == ASSUME PlaceRetries = 0 PROVE WireSpec => []DefiniteAnswersAreTrue
<1>1. WireInv => DefiniteAnswersAreTrue
  BY DEF WireInv
<1>. QED BY <1>1, WireInvAlways, PTL

----
(***************************************************************************)
(* ProviderCalls.  The state of a provider, and the breaker's state by the *)
(* calls: an open one remembers when the last call that reached the        *)
(* provider failed, and is half open only while a call that came           *)
(* ResetTimeout later is under way.                                        *)
(***************************************************************************)
Kinds == {"-", "TIMEOUT", "CLIENT_ERROR", "SERVER_ERROR", "UNKNOWN"}
Summaries == [at : Nat, ok : BOOLEAN, kind : Kinds, attempts : Nat]
Remembered == [at : Nat, ok : BOOLEAN, kind : Kinds, attempts : Nat, from : Nat, asked : BOOLEAN]
Breakers == [state : {"CLOSED", "OPEN", "HALF_OPEN"}, failures : Nat, openedAt : Nat]
Statistics == [calls : Nat, ok : Nat, failed : Nat, lastKind : Kinds,
               recent : Seq(Summaries), failures : Seq(Summaries)]

ProvTypeInv ==
  /\ breaker \in [Providers -> Breakers]
  /\ stats \in [Providers -> Statistics]
  /\ log \in [Providers -> Seq(Remembered)]
  /\ time \in Nat
  /\ DOMAIN fetch = DOMAIN NoWork
  /\ fetch.pc \in {"idle", "next", "try", "store"}
  /\ fetch.from \in Nat /\ fetch.attempt \in Nat
  /\ fetch.pc # "idle" => fetch.op \in Ops

AskedIn(calls) == {i \in DOMAIN calls : calls[i].asked}
Serving(p) == fetch.pc = "try" /\ Provider(fetch.op) = p

OpenedLast(b, calls) ==
  b.state # "CLOSED" =>
    AskedIn(calls) # {} /\ b.openedAt = calls[Max(AskedIn(calls))].at

----
LEMMA Indexes ==
  ASSUME NEW calls \in Seq(Remembered), NEW S \in SUBSET DOMAIN calls
  PROVE  /\ IsFiniteSet(S) /\ S \in SUBSET Nat /\ Cardinality(S) \in Nat
         /\ \A i \in S : i \in 1 .. Len(calls)
<1>1. DOMAIN calls = 1 .. Len(calls) /\ Len(calls) \in Nat
  OBVIOUS
<1>2. IsFiniteSet(DOMAIN calls)
  BY <1>1, FS_Interval
<1>3. IsFiniteSet(S) /\ Cardinality(S) \in Nat
  BY <1>2, FS_Subset, FS_CardinalityType
<1>. QED BY <1>1, <1>3

LEMMA Appended ==
  ASSUME NEW calls \in Seq(Remembered), NEW c \in Remembered
  PROVE  /\ Append(calls, c) \in Seq(Remembered)
         /\ Len(Append(calls, c)) = Len(calls) + 1
         /\ DOMAIN Append(calls, c) = DOMAIN calls \cup {Len(calls) + 1}
         /\ DOMAIN calls = 1 .. Len(calls) /\ Len(calls) \in Nat
         /\ \A i \in DOMAIN calls : Append(calls, c)[i] = calls[i]
         /\ Append(calls, c)[Len(calls) + 1] = c
OBVIOUS

----
\* A call that is not among those a buffer is about changes nothing; one that is
\* becomes its newest entry and may push out the oldest.
LEMMA KeepsOld ==
  ASSUME NEW calls \in Seq(Remembered), NEW c \in Remembered, NEW S \in SUBSET DOMAIN calls,
         NEW cap \in Nat \ {0}, NEW buffer \in Seq(Summaries), KeepsNewest(buffer, calls, S, cap)
  PROVE  KeepsNewest(buffer, Append(calls, c), S, cap)
<1>1. \A i \in S : Append(calls, c)[i] = calls[i]
  BY Appended
<1>. QED BY <1>1 DEF KeepsNewest

LEMMA Pushed ==
  ASSUME NEW buffer \in Seq(Summaries), NEW x \in Summaries, NEW cap \in Nat \ {0},
         Len(buffer) <= cap
  PROVE  /\ Push(buffer, x, cap) \in Seq(Summaries)
         /\ Len(buffer) < cap =>
              /\ Len(Push(buffer, x, cap)) = Len(buffer) + 1
              /\ \A k \in 1 .. Len(buffer) : Push(buffer, x, cap)[k] = buffer[k]
              /\ Push(buffer, x, cap)[Len(buffer) + 1] = x
         /\ Len(buffer) = cap =>
              /\ Len(Push(buffer, x, cap)) = Len(buffer)
              /\ \A k \in 1 .. Len(buffer) - 1 : Push(buffer, x, cap)[k] = buffer[k + 1]
              /\ Push(buffer, x, cap)[Len(buffer)] = x
<1>. DEFINE long == Append(buffer, x)
<1>1. /\ long \in Seq(Summaries) /\ Len(long) = Len(buffer) + 1 /\ Len(buffer) \in Nat
      /\ \A k \in 1 .. Len(buffer) : long[k] = buffer[k]
      /\ long[Len(buffer) + 1] = x
  OBVIOUS
<1>. HIDE DEF long
<1>2. Push(buffer, x, cap) = IF Len(long) > cap THEN Tail(long) ELSE long
  BY DEF Push, long
<1>3. CASE Len(buffer) < cap
  BY <1>1, <1>2, <1>3
<1>4. CASE Len(buffer) = cap
  <2>1. Push(buffer, x, cap) = Tail(long) /\ long # <<>>
    BY <1>1, <1>2, <1>4
  <2>2. /\ Tail(long) \in Seq(Summaries) /\ Len(Tail(long)) = Len(buffer)
        /\ \A k \in 1 .. Len(buffer) : Tail(long)[k] = long[k + 1]
    BY <1>1, <2>1
  <2>3. \A k \in 1 .. Len(buffer) - 1 : Tail(long)[k] = buffer[k + 1]
    BY <1>1, <2>2
  <2>4. Tail(long)[Len(buffer)] = x
    BY <1>1, <1>4, <2>2
  <2>. QED BY <1>4, <2>1, <2>2, <2>3, <2>4
<1>. QED BY <1>1, <1>3, <1>4

LEMMA PushKeepsNewest ==
  ASSUME NEW calls \in Seq(Remembered), NEW c \in Remembered, NEW S \in SUBSET DOMAIN calls,
         NEW cap \in Nat \ {0}, NEW buffer \in Seq(Summaries), KeepsNewest(buffer, calls, S, cap)
  PROVE  /\ KeepsNewest(Push(buffer, Seen(c), cap), Append(calls, c), S \cup {Len(calls) + 1}, cap)
         /\ Push(buffer, Seen(c), cap) \in Seq(Summaries)
<1>. DEFINE n == Len(calls) + 1
            S2 == S \cup {n}
            x == Seen(c)
            b2 == Push(buffer, x, cap)
            calls2 == Append(calls, c)
            L == Len(buffer)
            L2 == Len(b2)
<1>1. x \in Summaries
  BY DEF Seen, Summaries, Remembered
<1>2. /\ IsFiniteSet(S) /\ Cardinality(S) \in Nat /\ S \in SUBSET Nat
      /\ \A i \in S : i \in 1 .. Len(calls)
  BY Indexes
<1>3. n \in Nat /\ n \notin S /\ \A i \in S : i < n
  BY <1>2
<1>4. Cardinality(S2) = Cardinality(S) + 1
  BY <1>2, <1>3, FS_AddElement
<1>5. L = IF cap <= Cardinality(S) THEN cap ELSE Cardinality(S)
  <2>1. L = Min({cap, Cardinality(S)})
    BY DEF KeepsNewest
  <2>. QED BY <1>2, <2>1, MinOfTwo
<1>6. L \in Nat /\ L <= cap
  BY <1>2, <1>5
<1>7. b2 \in Seq(Summaries)
  BY <1>1, <1>6, Pushed
<1>8. L2 = Min({cap, Cardinality(S2)})
  <2>1. L2 = IF L < cap THEN L + 1 ELSE L
    BY <1>1, <1>6, Pushed
  <2>2. Cardinality(S2) \in Nat
    BY <1>2, <1>4
  <2>3. Min({cap, Cardinality(S2)}) = IF cap <= Cardinality(S2) THEN cap ELSE Cardinality(S2)
    <3>. HIDE DEF S2
    <3>. QED BY <2>2, MinOfTwo
  <2>. HIDE DEF L2, S2, L
  <2>. QED BY <1>2, <1>4, <1>5, <1>6, <2>1, <2>3
<1>9. \A i \in S : calls2[i] = calls[i]
  BY Appended
<1>10. calls2[n] = c
  BY Appended
<1>11. ASSUME NEW k \in DOMAIN b2
       PROVE  \E i \in S2 : /\ b2[k] = Seen(calls2[i])
                            /\ Cardinality({j \in S2 : j > i}) = L2 - k
  <2>1. k \in 1 .. L2
    BY <1>7
  <2>2. CASE k = L2
    <3>1. b2[k] = x
      BY <1>1, <1>6, <2>2, Pushed
    <3>2. {j \in S2 : j > n} = {}
      BY <1>3
    <3>3. Cardinality({j \in S2 : j > n}) = L2 - k
      <4>1. L2 - k = 0
        BY <1>7, <2>2
      <4>. QED BY <3>2, <4>1, FS_EmptySet
    <3>4. b2[k] = Seen(calls2[n])
      BY <3>1, <1>10
    <3>. QED BY <3>3, <3>4
  <2>3. CASE k # L2
    <3>1. PICK m \in DOMAIN buffer : b2[k] = buffer[m] /\ L - m = (L2 - k) - 1
      <4>1. CASE L < cap
        <5>1. L2 = L + 1 /\ k \in 1 .. L
          BY <1>1, <1>6, <2>1, <2>3, <4>1, Pushed
        <5>2. b2[k] = buffer[k]
          BY <1>1, <1>6, <4>1, <5>1, Pushed
        <5>3. k \in DOMAIN buffer /\ L - k = (L2 - k) - 1
          BY <5>1, <1>6
        <5>. QED BY <5>2, <5>3
      <4>2. CASE L = cap
        <5>1. L2 = L /\ k \in 1 .. L - 1
          BY <1>1, <1>6, <2>1, <2>3, <4>2, Pushed
        <5>2. b2[k] = buffer[k + 1]
          BY <1>1, <1>6, <4>2, <5>1, Pushed
        <5>3. k + 1 \in DOMAIN buffer /\ L - (k + 1) = (L2 - k) - 1
          BY <5>1, <1>6
        <5>. QED BY <5>2, <5>3
      <4>. QED BY <1>6, <4>1, <4>2
    <3>2. PICK i \in S : buffer[m] = Seen(calls[i]) /\ Cardinality({j \in S : j > i}) = L - m
      BY DEF KeepsNewest
    <3>3. {j \in S2 : j > i} = {j \in S : j > i} \cup {n}
      BY <1>3
    <3>4. IsFiniteSet({j \in S : j > i})
      BY <1>2, FS_Subset
    <3>5. Cardinality({j \in S2 : j > i}) = Cardinality({j \in S : j > i}) + 1
      BY <1>3, <3>3, <3>4, FS_AddElement
    <3>6. m \in Nat /\ k \in Nat /\ L2 \in Nat
      BY <2>1, <1>7
    <3>7. Cardinality({j \in S2 : j > i}) = L2 - k
      <4>. DEFINE A == Cardinality({j \in S2 : j > i})
                  D == Cardinality({j \in S : j > i})
      <4>1. A = D + 1 /\ D = L - m /\ L - m = (L2 - k) - 1
        BY <3>1, <3>2, <3>5
      <4>. HIDE DEF A, D, L, L2
      <4>2. A = L2 - k
        BY <4>1, <3>6, <1>6
      <4>. QED BY <4>2 DEF A
    <3>8. b2[k] = Seen(calls2[i])
      BY <3>1, <3>2, <1>9
    <3>. QED BY <3>7, <3>8
  <2>. QED BY <2>2, <2>3
<1>. QED BY <1>7, <1>8, <1>11 DEF KeepsNewest

----
Successes(calls) == {0} \cup {i \in AskedIn(calls) : calls[i].ok}

\* The failures since the last success, one call later.
LEMMA FailuresCounted ==
  ASSUME NEW calls \in Seq(Remembered)
  PROVE  /\ FailuresSinceSuccess(calls) =
              Cardinality({i \in AskedIn(calls) : i > Max(Successes(calls))})
         /\ FailuresSinceSuccess(calls) \in Nat
         /\ Max(Successes(calls)) \in 0 .. Len(calls)
<1>1. FailuresSinceSuccess(calls) = Cardinality({i \in AskedIn(calls) : i > Max(Successes(calls))})
  BY DEF FailuresSinceSuccess, Successes, AskedIn
<1>2. {i \in AskedIn(calls) : i > Max(Successes(calls))} \in SUBSET DOMAIN calls
  BY DEF AskedIn
<1>3. FailuresSinceSuccess(calls) \in Nat
  BY <1>1, <1>2, Indexes
<1>4. \A i \in Successes(calls) : i \in 0 .. Len(calls)
  BY DEF Successes, AskedIn
<1>5. Successes(calls) \subseteq Int /\ Successes(calls) # {}
  <2>1. 0 \in Successes(calls)
    BY DEF Successes
  <2>2. \A i \in Successes(calls) : i \in Int
    <3>. HIDE DEF Successes
    <3>. QED BY <1>4
  <2>. QED BY <2>1, <2>2
<1>6. IsFiniteSet(Successes(calls))
  <2>1. {i \in AskedIn(calls) : calls[i].ok} \in SUBSET DOMAIN calls
    BY DEF AskedIn
  <2>2. IsFiniteSet({i \in AskedIn(calls) : calls[i].ok})
    BY <2>1, Indexes
  <2>. QED BY <2>2, FS_Singleton, FS_Union DEF Successes
<1>7. Max(Successes(calls)) \in Successes(calls)
  BY <1>5, <1>6, LargestIsMax
<1>. QED BY <1>1, <1>3, <1>4, <1>7

LEMMA AskedNext ==
  ASSUME NEW calls \in Seq(Remembered), NEW c \in Remembered
  PROVE  /\ AskedIn(Append(calls, c)) =
              AskedIn(calls) \cup (IF c.asked THEN {Len(calls) + 1} ELSE {})
         /\ Successes(Append(calls, c)) =
              Successes(calls) \cup (IF c.asked /\ c.ok THEN {Len(calls) + 1} ELSE {})
         /\ \A i \in AskedIn(calls) : i \in 1 .. Len(calls) /\ Append(calls, c)[i] = calls[i]
         /\ \A i \in Successes(calls) : i \in 0 .. Len(calls)
         /\ IsFiniteSet(AskedIn(calls)) /\ IsFiniteSet(Successes(calls))
<1>. DEFINE n == Len(calls) + 1
            calls2 == Append(calls, c)
<1>1. /\ DOMAIN calls2 = DOMAIN calls \cup {n} /\ calls2[n] = c
      /\ \A i \in DOMAIN calls : calls2[i] = calls[i] /\ i \in 1 .. Len(calls)
      /\ n \notin DOMAIN calls
  BY Appended
<1>2. AskedIn(calls) \in SUBSET DOMAIN calls
  BY DEF AskedIn
<1>3. IsFiniteSet(AskedIn(calls)) /\ IsFiniteSet({i \in AskedIn(calls) : calls[i].ok})
  BY <1>2, Indexes
<1>4. IsFiniteSet(Successes(calls))
  BY <1>3, FS_Singleton, FS_Union DEF Successes
<1>5. \A i \in Successes(calls) : i \in 0 .. Len(calls)
  BY <1>1, <1>2 DEF Successes
<1>. HIDE DEF n, calls2
<1>6. AskedIn(calls2) = AskedIn(calls) \cup (IF c.asked THEN {n} ELSE {})
  BY <1>1 DEF AskedIn
<1>7. Successes(calls2) = Successes(calls) \cup (IF c.asked /\ c.ok THEN {n} ELSE {})
  <2>1. \A i \in AskedIn(calls) : calls2[i].ok = calls[i].ok
    BY <1>1, <1>2
  <2>2. c.asked => calls2[n].ok = c.ok
    BY <1>1
  <2>. QED BY <1>6, <2>1, <2>2 DEF Successes
<1>. QED BY <1>1, <1>2, <1>3, <1>4, <1>5, <1>6, <1>7 DEF n, calls2

LEMMA FailuresNext ==
  ASSUME NEW calls \in Seq(Remembered), NEW c \in Remembered
  PROVE  FailuresSinceSuccess(Append(calls, c)) =
           IF ~c.asked THEN FailuresSinceSuccess(calls)
           ELSE IF c.ok THEN 0 ELSE FailuresSinceSuccess(calls) + 1
<1>. DEFINE n == Len(calls) + 1
            calls2 == Append(calls, c)
            last == Max(Successes(calls))
            F == {i \in AskedIn(calls) : i > last}
<1>1. calls2 \in Seq(Remembered) /\ n \in Nat /\ c.asked \in BOOLEAN /\ c.ok \in BOOLEAN
  BY Appended DEF Remembered
<1>2. /\ FailuresSinceSuccess(calls) = Cardinality(F) /\ last \in 0 .. Len(calls)
      /\ FailuresSinceSuccess(calls2) = Cardinality({i \in AskedIn(calls2) : i > Max(Successes(calls2))})
  BY <1>1, FailuresCounted
<1>3. /\ AskedIn(calls2) = AskedIn(calls) \cup (IF c.asked THEN {n} ELSE {})
      /\ Successes(calls2) = Successes(calls) \cup (IF c.asked /\ c.ok THEN {n} ELSE {})
      /\ \A i \in AskedIn(calls) : i \in 1 .. Len(calls)
      /\ \A i \in Successes(calls) : i \in 0 .. Len(calls)
      /\ IsFiniteSet(AskedIn(calls)) /\ IsFiniteSet(Successes(calls))
  BY AskedNext
<1>4. n > last /\ \A i \in AskedIn(calls) : ~(i > n)
  BY <1>2, <1>3
<1>5. IsFiniteSet(F) /\ n \notin F
  <2>1. F \subseteq AskedIn(calls)
    OBVIOUS
  <2>. QED BY <1>3, <2>1, FS_Subset
<1>. HIDE DEF F, n, calls2, last
<1>6. CASE ~c.asked
  <2>1. AskedIn(calls2) = AskedIn(calls) /\ Successes(calls2) = Successes(calls)
    BY <1>3, <1>6
  <2>. QED BY <1>2, <1>6, <2>1 DEF F, calls2, last
<1>7. CASE c.asked /\ c.ok
  <2>1. Max(Successes(calls2)) = n
    <3>1. n \in Successes(calls2) /\ Successes(calls2) = Successes(calls) \cup {n}
      BY <1>3, <1>7
    <3>2. \A i \in Successes(calls2) : n >= i /\ i \in Int
      BY <1>1, <1>3, <3>1 DEF n
    <3>3. IsFiniteSet(Successes(calls2))
      BY <1>3, <3>1, FS_AddElement
    <3>. QED BY <3>1, <3>2, <3>3, MaxIs
  <2>2. {i \in AskedIn(calls2) : i > Max(Successes(calls2))} = {}
    BY <1>1, <1>3, <1>4, <1>7, <2>1
  <2>. QED BY <1>2, <1>7, <2>2, FS_EmptySet DEF calls2
<1>8. CASE c.asked /\ ~c.ok
  <2>1. Successes(calls2) = Successes(calls) /\ AskedIn(calls2) = AskedIn(calls) \cup {n}
    BY <1>3, <1>8
  <2>2. {i \in AskedIn(calls2) : i > Max(Successes(calls2))} = F \cup {n}
    BY <1>4, <2>1 DEF F, last
  <2>3. Cardinality(F \cup {n}) = Cardinality(F) + 1
    BY <1>5, FS_AddElement
  <2>. QED BY <1>2, <1>8, <2>2, <2>3 DEF calls2
<1>. QED BY <1>1, <1>6, <1>7, <1>8

\* The call that reached the provider last.
LEMMA NewestAsked ==
  ASSUME NEW calls \in Seq(Remembered), NEW c \in Remembered
  PROVE  /\ c.asked => /\ Max(AskedIn(Append(calls, c))) = Len(calls) + 1
                       /\ AskedIn(Append(calls, c)) # {}
                       /\ Append(calls, c)[Max(AskedIn(Append(calls, c)))] = c
         /\ ~c.asked => AskedIn(Append(calls, c)) = AskedIn(calls)
<1>. DEFINE n == Len(calls) + 1
            A == AskedIn(Append(calls, c))
<1>1. /\ A = AskedIn(calls) \cup (IF c.asked THEN {n} ELSE {})
      /\ \A i \in AskedIn(calls) : i \in 1 .. Len(calls)
      /\ IsFiniteSet(AskedIn(calls))
  BY AskedNext
<1>2. ASSUME c.asked PROVE Max(A) = n /\ A # {}
  <2>1. A = AskedIn(calls) \cup {n}
    BY <1>1, <1>2
  <2>2. n \in Nat /\ IsFiniteSet(A)
    <3>1. IsFiniteSet(AskedIn(calls) \cup {n})
      BY <1>1, FS_AddElement
    <3>. QED BY <2>1, <3>1
  <2>3. n \in A /\ \A i \in A : n >= i /\ i \in Int
    BY <1>1, <2>1, <2>2
  <2>. HIDE DEF A, n
  <2>. QED BY <2>2, <2>3, MaxIs
<1>3. Append(calls, c)[n] = c
  BY Appended
<1>. QED BY <1>1, <1>2, <1>3

----
(***************************************************************************)
(* One recorded call: what the monitor, the breaker and the rests become.  *)
(***************************************************************************)
Digests(s, calls) ==
  /\ s.calls = Len(calls)
  /\ s.failed = Cardinality(Failed(calls))
  /\ s.ok = Len(calls) - Cardinality(Failed(calls))
  /\ KeepsNewest(s.recent, calls, DOMAIN calls, CallCap)
  /\ KeepsNewest(s.failures, calls, Failed(calls), FailCap)

Counts(b, calls) ==
  /\ b.failures = FailuresSinceSuccess(calls)
  /\ (b.state = "CLOSED") = (FailuresSinceSuccess(calls) < Threshold)

Rested(calls, j) ==
  (calls[j].asked /\ FailuresSinceSuccess(SubSeq(calls, 1, j - 1)) >= Threshold)
  => calls[j].from - calls[Max({i \in 1 .. j - 1 : calls[i].asked})].at >= ResetTimeout

LEMMA DigestNext ==
  ASSUME NEW calls \in Seq(Remembered), NEW c \in Remembered, NEW s \in Statistics,
         Digests(s, calls)
  PROVE  /\ RecordResult(s, Seen(c)) \in Statistics
         /\ Digests(RecordResult(s, Seen(c)), Append(calls, c))
<1>. DEFINE n == Len(calls) + 1
            calls2 == Append(calls, c)
            s2 == RecordResult(s, Seen(c))
            recent2 == Push(s.recent, Seen(c), CallCap)
            failures2 == Push(s.failures, Seen(c), FailCap)
<1>0. CallCap \in Nat \ {0} /\ FailCap \in Nat \ {0}
  BY ProviderCallsAssumption
<1>1. /\ calls2 \in Seq(Remembered) /\ Len(calls2) = n /\ DOMAIN calls2 = DOMAIN calls \cup {n}
      /\ \A i \in DOMAIN calls : calls2[i] = calls[i]
      /\ calls2[n] = c /\ n \notin DOMAIN calls
  BY Appended
<1>2. /\ Seen(c) \in Summaries /\ Seen(c).ok = c.ok /\ Seen(c).kind \in Kinds /\ c.ok \in BOOLEAN
  BY DEF Seen, Summaries, Remembered
<1>3. /\ s.calls \in Nat /\ s.ok \in Nat /\ s.failed \in Nat
      /\ s.recent \in Seq(Summaries) /\ s.failures \in Seq(Summaries)
  BY DEF Statistics
<1>4. Failed(calls) \in SUBSET DOMAIN calls
  BY DEF Failed
<1>5. IsFiniteSet(Failed(calls)) /\ Cardinality(Failed(calls)) \in Nat /\ n \notin Failed(calls)
  BY <1>1, <1>4, Indexes
<1>6. /\ KeepsNewest(recent2, calls2, DOMAIN calls2, CallCap) /\ recent2 \in Seq(Summaries)
      /\ KeepsNewest(failures2, calls2, Failed(calls) \cup {n}, FailCap) /\ failures2 \in Seq(Summaries)
      /\ KeepsNewest(s.failures, calls2, Failed(calls), FailCap)
  <2>1. /\ KeepsNewest(s.recent, calls, DOMAIN calls, CallCap)
        /\ KeepsNewest(s.failures, calls, Failed(calls), FailCap)
    BY DEF Digests
  <2>2. KeepsNewest(recent2, calls2, DOMAIN calls \cup {n}, CallCap) /\ recent2 \in Seq(Summaries)
    BY <1>0, <1>3, <2>1, PushKeepsNewest
  <2>3. KeepsNewest(failures2, calls2, Failed(calls) \cup {n}, FailCap) /\ failures2 \in Seq(Summaries)
    BY <1>0, <1>3, <1>4, <2>1, PushKeepsNewest
  <2>4. KeepsNewest(s.failures, calls2, Failed(calls), FailCap)
    BY <1>0, <1>3, <1>4, <2>1, KeepsOld
  <2>. QED BY <1>1, <2>2, <2>3, <2>4
<1>7. Failed(calls2) = IF c.ok THEN Failed(calls) ELSE Failed(calls) \cup {n}
  <2>. HIDE DEF calls2, n
  <2>. QED BY <1>1 DEF Failed
<1>8. Cardinality(Failed(calls2)) = Cardinality(Failed(calls)) + IF c.ok THEN 0 ELSE 1
  <2>1. Cardinality(Failed(calls) \cup {n}) = Cardinality(Failed(calls)) + 1
    BY <1>5, FS_AddElement
  <2>. HIDE DEF calls2, n
  <2>. QED BY <1>5, <1>7, <2>1
<1>9. /\ s.calls = Len(calls) /\ s.failed = Cardinality(Failed(calls))
      /\ s.ok = Len(calls) - Cardinality(Failed(calls)) /\ Len(calls) \in Nat
  BY DEF Digests
<1>. HIDE DEF n, calls2, recent2, failures2
<1>10. CASE c.ok
  <2>1. s2 = [s EXCEPT !.calls = s.calls + 1, !.ok = s.ok + 1, !.lastKind = "-", !.recent = recent2]
    BY <1>2, <1>10 DEF RecordResult, recent2
  <2>2. /\ s2 \in Statistics
        /\ s2.calls = s.calls + 1 /\ s2.ok = s.ok + 1 /\ s2.failed = s.failed
        /\ s2.recent = recent2 /\ s2.failures = s.failures
    <3>. HIDE DEF s2
    <3>1. s2 = [calls |-> s.calls + 1, ok |-> s.ok + 1, failed |-> s.failed, lastKind |-> "-",
                recent |-> recent2, failures |-> s.failures]
      BY <2>1 DEF Statistics
    <3>2. s.calls + 1 \in Nat /\ s.ok + 1 \in Nat /\ "-" \in Kinds
      BY <1>3 DEF Kinds
    <3>. QED BY <1>3, <1>6, <3>1, <3>2 DEF Statistics
  <2>3. Failed(calls2) = Failed(calls) /\ Cardinality(Failed(calls2)) = Cardinality(Failed(calls))
    BY <1>7, <1>10
  <2>. HIDE DEF s2
  <2>4. s2.ok = Len(calls2) - Cardinality(Failed(calls2)) /\ s2.calls = Len(calls2)
    BY <1>1, <1>5, <1>9, <2>2, <2>3 DEF n
  <2>. QED BY <1>6, <1>9, <2>2, <2>3, <2>4 DEF Digests, s2, calls2
<1>11. CASE ~c.ok
  <2>1. s2 = [s EXCEPT !.calls = s.calls + 1, !.failed = s.failed + 1, !.lastKind = Seen(c).kind,
                       !.recent = recent2, !.failures = failures2]
    BY <1>2, <1>11 DEF RecordResult, recent2, failures2
  <2>2. /\ s2 \in Statistics
        /\ s2.calls = s.calls + 1 /\ s2.ok = s.ok /\ s2.failed = s.failed + 1
        /\ s2.recent = recent2 /\ s2.failures = failures2
    <3>. HIDE DEF s2
    <3>1. s2 = [calls |-> s.calls + 1, ok |-> s.ok, failed |-> s.failed + 1,
                lastKind |-> Seen(c).kind, recent |-> recent2, failures |-> failures2]
      BY <2>1 DEF Statistics
    <3>2. s.calls + 1 \in Nat /\ s.failed + 1 \in Nat
      BY <1>3
    <3>. QED BY <1>2, <1>3, <1>6, <3>1, <3>2 DEF Statistics
  <2>3. Failed(calls2) = Failed(calls) \cup {n} /\ Cardinality(Failed(calls2)) = Cardinality(Failed(calls)) + 1
    BY <1>7, <1>8, <1>11
  <2>. HIDE DEF s2
  <2>4. s2.ok = Len(calls2) - Cardinality(Failed(calls2)) /\ s2.calls = Len(calls2)
        /\ s2.failed = Cardinality(Failed(calls2))
    BY <1>1, <1>5, <1>9, <2>2, <2>3 DEF n
  <2>. QED BY <1>6, <1>9, <2>2, <2>3, <2>4 DEF Digests, s2, calls2
<1>. QED BY <1>2, <1>10, <1>11

\* What the earlier calls said of their rests they still say.
LEMMA RestedNext ==
  ASSUME NEW calls \in Seq(Remembered), NEW c \in Remembered,
         \A j \in DOMAIN calls : Rested(calls, j),
         c.asked /\ FailuresSinceSuccess(calls) >= Threshold
           => c.from - calls[Max(AskedIn(calls))].at >= ResetTimeout
  PROVE  \A j \in DOMAIN Append(calls, c) : Rested(Append(calls, c), j)
<1>. DEFINE n == Len(calls) + 1
            calls2 == Append(calls, c)
            Before(q, j) == {i \in 1 .. j - 1 : q[i].asked}
<1>1. /\ calls2 \in Seq(Remembered) /\ Len(calls2) = n /\ DOMAIN calls2 = DOMAIN calls \cup {n}
      /\ DOMAIN calls = 1 .. Len(calls) /\ Len(calls) \in Nat
      /\ \A i \in DOMAIN calls : calls2[i] = calls[i]
      /\ calls2[n] = c
  BY Appended
<1>2. ASSUME NEW j \in 1 .. n PROVE SubSeq(calls2, 1, j - 1) = SubSeq(calls, 1, j - 1)
  <2>1. j - 1 \in Nat /\ j - 1 <= Len(calls)
    BY <1>1, <1>2
  <2>2. \A i \in 1 .. j - 1 : calls2[i] = calls[i]
    BY <1>1, <2>1
  <2>. HIDE DEF calls2
  <2>3. /\ SubSeq(calls2, 1, j - 1) = [i \in 1 .. j - 1 |-> calls2[i]]
        /\ SubSeq(calls, 1, j - 1) = [i \in 1 .. j - 1 |-> calls[i]]
    BY <1>1, <2>1
  <2>. QED BY <2>2, <2>3
<1>3. SubSeq(calls, 1, n - 1) = calls
  <2>1. n - 1 = Len(calls)
    BY <1>1
  <2>. QED BY <1>1, <2>1
<1>4. ASSUME NEW j \in DOMAIN calls PROVE Rested(calls2, j)
  <2>1. j \in 1 .. n /\ \A i \in 1 .. j - 1 : i \in DOMAIN calls
    BY <1>1
  <2>2. Before(calls2, j) = Before(calls, j)
    BY <1>1, <2>1
  <2>3. calls2[j] = calls[j] /\ SubSeq(calls2, 1, j - 1) = SubSeq(calls, 1, j - 1)
    BY <1>1, <1>2, <2>1
  <2>4. ASSUME calls[j].asked, FailuresSinceSuccess(SubSeq(calls, 1, j - 1)) >= Threshold
        PROVE  calls2[Max(Before(calls2, j))] = calls[Max(Before(calls, j))]
    <3>1. CASE Before(calls, j) # {}
      <4>1. Before(calls, j) \in SUBSET DOMAIN calls
        BY <2>1
      <4>2. IsFiniteSet(Before(calls, j)) /\ Before(calls, j) \subseteq Int
        BY <4>1, Indexes
      <4>3. Max(Before(calls, j)) \in DOMAIN calls
        <5>. HIDE DEF Before
        <5>. QED BY <3>1, <4>1, <4>2, LargestIsMax
      <4>. QED BY <1>1, <2>2, <4>3
    <3>2. CASE Before(calls, j) = {}
      <4>1. FailuresSinceSuccess(SubSeq(calls, 1, j - 1)) = 0
        <5>. DEFINE q == SubSeq(calls, 1, j - 1)
        <5>1. q \in Seq(Remembered) /\ DOMAIN q = 1 .. j - 1 /\ \A i \in DOMAIN q : q[i] = calls[i]
          BY <1>1, <2>1
        <5>. HIDE DEF q
        <5>2. AskedIn(q) = {}
          BY <3>2, <5>1 DEF AskedIn
        <5>3. FailuresSinceSuccess(q) = Cardinality({i \in AskedIn(q) : i > Max(Successes(q))})
          BY <5>1, FailuresCounted
        <5>. QED BY <5>2, <5>3, FS_EmptySet DEF q
      <4>. QED BY <2>4, <4>1, ProviderCallsAssumption
    <3>. QED BY <3>1, <3>2
  <2>5. Rested(calls, j)
    OBVIOUS
  <2>. HIDE DEF calls2
  <2>. QED BY <2>2, <2>3, <2>4, <2>5 DEF Rested, Before
<1>5. Rested(calls2, n)
  <2>1. SubSeq(calls2, 1, n - 1) = calls
    BY <1>1, <1>2, <1>3
  <2>2. Before(calls2, n) = AskedIn(calls)
    BY <1>1 DEF AskedIn
  <2>3. ASSUME c.asked, FailuresSinceSuccess(calls) >= Threshold
        PROVE  calls2[Max(AskedIn(calls))] = calls[Max(AskedIn(calls))]
    <3>1. AskedIn(calls) # {}
      <4>1. SUFFICES ASSUME AskedIn(calls) = {} PROVE FALSE
        OBVIOUS
      <4>2. FailuresSinceSuccess(calls) = 0
        BY <4>1, FailuresCounted, FS_EmptySet
      <4>. QED BY <2>3, <4>2, ProviderCallsAssumption
    <3>2. AskedIn(calls) \in SUBSET DOMAIN calls
      BY DEF AskedIn
    <3>3. Max(AskedIn(calls)) \in DOMAIN calls
      <4>1. IsFiniteSet(AskedIn(calls)) /\ AskedIn(calls) \subseteq Int
        BY <3>2, Indexes
      <4>. QED BY <3>1, <3>2, <4>1, LargestIsMax
    <3>. QED BY <1>1, <3>3
  <2>. HIDE DEF calls2, n
  <2>. QED BY <1>1, <2>1, <2>2, <2>3 DEF Rested, Before
<1>. QED BY <1>1, <1>4, <1>5

----
\* The three properties, provider by provider.
LEMMA HealthByProvider ==
  /\ StatsDigestTheLog <=> \A p \in Providers : Digests(stats[p], log[p])
  /\ BreakerCountsFailures <=> \A p \in Providers : Counts(breaker[p], log[p])
  /\ FailingProviderRests <=> \A p \in Providers : \A j \in DOMAIN log[p] : Rested(log[p], j)
<1>1. StatsDigestTheLog <=> \A p \in Providers : Digests(stats[p], log[p])
  BY DEF StatsDigestTheLog, Digests
<1>2. BreakerCountsFailures <=> \A p \in Providers : Counts(breaker[p], log[p])
  BY DEF BreakerCountsFailures, Counts
<1>3. FailingProviderRests <=> \A p \in Providers : \A j \in DOMAIN log[p] : Rested(log[p], j)
  BY DEF FailingProviderRests, Rested
<1>. QED BY <1>1, <1>2, <1>3

ProviderStands(b, calls, serving, from) ==
  /\ OpenedLast(b, calls)
  /\ b.state = "HALF_OPEN" => serving /\ from - b.openedAt >= ResetTimeout
  /\ serving => b.state # "OPEN"

\* Everything about one provider; HealthInv is this for each.
Healthy(s, b, calls, serving, from) ==
  /\ Digests(s, calls)
  /\ Counts(b, calls)
  /\ \A j \in DOMAIN calls : Rested(calls, j)
  /\ ProviderStands(b, calls, serving, from)

HealthInv ==
  /\ ProvTypeInv
  /\ \A p \in Providers : Healthy(stats[p], breaker[p], log[p], Serving(p), fetch.from)

LEMMA HealthInvImplies == HealthInv => HealthFollowsTheCalls
BY HealthByProvider DEF HealthInv, Healthy, HealthFollowsTheCalls

LEMMA Providing == \A op \in Ops : Provider(op) \in Providers
BY DEF Providers

LEMMA NothingRecorded ==
  ASSUME NEW from \in Nat, NEW serving \in BOOLEAN
  PROVE  /\ Healthy(NoStats, Closed, <<>>, serving, from)
         /\ NoStats \in Statistics /\ Closed \in Breakers /\ <<>> \in Seq(Remembered)
<1>. DEFINE none == <<>>
<1>1. none \in Seq(Remembered) /\ DOMAIN none = {} /\ Len(none) = 0
  OBVIOUS
<1>. HIDE DEF none
<1>2. CallCap \in Nat \ {0} /\ FailCap \in Nat \ {0} /\ Threshold \in Nat \ {0}
  BY ProviderCallsAssumption
<1>3. Failed(none) = {} /\ AskedIn(none) = {}
  BY <1>1 DEF Failed, AskedIn
<1>4. ASSUME NEW cap \in Nat \ {0} PROVE KeepsNewest(none, none, {}, cap)
  <2>1. Len(none) = Min({cap, Cardinality({})})
    <3>1. Min({cap, 0}) = 0
      BY MinOfTwo
    <3>. QED BY <1>1, <3>1, FS_EmptySet
  <2>. QED BY <1>1, <2>1 DEF KeepsNewest
<1>5. NoStats \in Statistics /\ Closed \in Breakers
  BY DEF NoStats, Statistics, Kinds, Closed, Breakers
<1>6. Digests(NoStats, none)
  <2>1. /\ NoStats.calls = 0 /\ NoStats.ok = 0 /\ NoStats.failed = 0
        /\ NoStats.recent = none /\ NoStats.failures = none
    BY DEF NoStats, none
  <2>2. Cardinality(Failed(none)) = 0
    BY <1>3, FS_EmptySet
  <2>. QED BY <1>1, <1>2, <1>3, <1>4, <2>1, <2>2 DEF Digests
<1>7. FailuresSinceSuccess(none) = 0
  <2>1. {i \in AskedIn(none) : i > Max(Successes(none))} = {}
    BY <1>3
  <2>. QED BY <1>1, <2>1, FailuresCounted, FS_EmptySet
<1>8. Counts(Closed, none)
  BY <1>2, <1>7 DEF Counts, Closed
<1>9. ProviderStands(Closed, none, serving, from)
  BY DEF ProviderStands, OpenedLast, Closed
<1>. QED BY <1>1, <1>5, <1>6, <1>8, <1>9 DEF Healthy, none

LEMMA HealthInvInit == ProvInit => HealthInv
<1>. SUFFICES ASSUME ProvInit PROVE HealthInv
  OBVIOUS
<1>1. /\ breaker = [p \in Providers |-> Closed] /\ stats = [p \in Providers |-> NoStats]
      /\ log = [p \in Providers |-> <<>>] /\ fetch = NoWork /\ time = 0
  BY DEF ProvInit
<1>2. fetch.from = 0 /\ fetch.pc = "idle" /\ fetch.attempt = 0 /\ \A p \in Providers : Serving(p) = FALSE
  BY <1>1 DEF NoWork, Serving
<1>3. ProvTypeInv
  <2>1. breaker \in [Providers -> Breakers] /\ stats \in [Providers -> Statistics]
    BY <1>1, NothingRecorded
  <2>2. log \in [Providers -> Seq(Remembered)]
    BY <1>1, NothingRecorded
  <2>3. DOMAIN fetch = DOMAIN NoWork
    BY <1>1
  <2>. QED BY <1>1, <1>2, <2>1, <2>2, <2>3 DEF ProvTypeInv
<1>4. \A p \in Providers : Healthy(stats[p], breaker[p], log[p], Serving(p), fetch.from)
  BY <1>1, <1>2, NothingRecorded
<1>. QED BY <1>3, <1>4 DEF HealthInv

\* A recorded call of a healthy provider.  A refusal leaves the breaker alone;
\* the answer to a call that reached the provider moves it.
LEMMA RefusalRecorded ==
  ASSUME NEW calls \in Seq(Remembered), NEW c \in Remembered, NEW s \in Statistics, NEW b \in Breakers,
         NEW serving \in BOOLEAN, NEW from \in Nat, Healthy(s, b, calls, serving, from), ~c.asked
  PROVE  Healthy(RecordResult(s, Seen(c)), b, Append(calls, c), serving, from)
<1>1. Digests(RecordResult(s, Seen(c)), Append(calls, c))
  BY DigestNext DEF Healthy
<1>2. FailuresSinceSuccess(Append(calls, c)) = FailuresSinceSuccess(calls)
  BY FailuresNext
<1>3. Counts(b, Append(calls, c))
  BY <1>2 DEF Healthy, Counts
<1>4. \A j \in DOMAIN Append(calls, c) : Rested(Append(calls, c), j)
  BY RestedNext DEF Healthy
<1>5. ProviderStands(b, Append(calls, c), serving, from)
  <2>1. OpenedLast(b, calls) /\ AskedIn(Append(calls, c)) = AskedIn(calls)
    BY NewestAsked DEF Healthy, ProviderStands
  <2>2. ASSUME AskedIn(calls) # {}
        PROVE  Append(calls, c)[Max(AskedIn(calls))] = calls[Max(AskedIn(calls))]
    <3>1. AskedIn(calls) \in SUBSET DOMAIN calls
      BY DEF AskedIn
    <3>2. IsFiniteSet(AskedIn(calls)) /\ AskedIn(calls) \subseteq Int
      BY <3>1, Indexes
    <3>3. Max(AskedIn(calls)) \in DOMAIN calls
      BY <2>2, <3>1, <3>2, LargestIsMax
    <3>. QED BY <3>3, Appended
  <2>3. OpenedLast(b, Append(calls, c))
    BY <2>1, <2>2 DEF OpenedLast
  <2>. QED BY <2>3 DEF Healthy, ProviderStands
<1>. QED BY <1>1, <1>3, <1>4, <1>5 DEF Healthy

LEMMA AnswerRecorded ==
  ASSUME ProvTypeInv,
         NEW calls \in Seq(Remembered), NEW c \in Remembered, NEW s \in Statistics, NEW b \in Breakers,
         NEW from \in Nat, Healthy(s, b, calls, TRUE, from),
         c.asked, c.from = from, c.at = time
  PROVE  /\ Healthy(RecordResult(s, Seen(c)), AfterCall(b, c.ok), Append(calls, c), FALSE, from)
         /\ AfterCall(b, c.ok) \in Breakers
<1>. DEFINE calls2 == Append(calls, c)
            b2 == AfterCall(b, c.ok)
            f == FailuresSinceSuccess(calls)
<1>1. Digests(RecordResult(s, Seen(c)), calls2)
  BY DigestNext DEF Healthy
<1>2. /\ FailuresSinceSuccess(calls2) = IF c.ok THEN 0 ELSE f + 1
      /\ f \in Nat /\ Threshold \in Nat \ {0} /\ ResetTimeout \in Nat /\ time \in Nat
      /\ c.ok \in BOOLEAN
  BY FailuresNext, FailuresCounted, ProviderCallsAssumption DEF ProvTypeInv, Remembered
<1>3. /\ b.failures = f /\ (b.state = "CLOSED") = (f < Threshold)
      /\ b.state \in {"CLOSED", "OPEN", "HALF_OPEN"} /\ b.openedAt \in Nat
  BY DEF Healthy, Counts, Breakers
<1>4. /\ OpenedLast(b, calls) /\ b.state # "OPEN"
      /\ b.state = "HALF_OPEN" => from - b.openedAt >= ResetTimeout
  BY DEF Healthy, ProviderStands
<1>5. \A j \in DOMAIN calls2 : Rested(calls2, j)
  <2>1. ASSUME f >= Threshold
        PROVE  c.from - calls[Max(AskedIn(calls))].at >= ResetTimeout
    <3>1. b.state = "HALF_OPEN"
      BY <1>2, <1>3, <1>4, <2>1
    <3>. QED BY <1>4, <3>1 DEF OpenedLast
  <2>. QED BY <2>1, RestedNext DEF Healthy
<1>6. b2 = IF c.ok THEN Closed
           ELSE IF b.state = "HALF_OPEN" \/ f + 1 >= Threshold
                THEN [state |-> "OPEN", failures |-> f + 1, openedAt |-> time]
                ELSE [b EXCEPT !.failures = f + 1]
  BY <1>3 DEF AfterCall
<1>7. /\ b2 \in Breakers /\ b2.state # "HALF_OPEN" /\ b2.failures = (IF c.ok THEN 0 ELSE f + 1)
      /\ (b2.state = "CLOSED") = (b2.failures < Threshold)
      /\ b2.state # "CLOSED" => b2.openedAt = time
  <2>. HIDE DEF b2, f
  <2>1. CASE c.ok
    BY <1>2, <1>6, <2>1 DEF Closed, Breakers
  <2>2. CASE ~c.ok /\ (b.state = "HALF_OPEN" \/ f + 1 >= Threshold)
    <3>1. b2 = [state |-> "OPEN", failures |-> f + 1, openedAt |-> time] /\ f + 1 >= Threshold
      BY <1>2, <1>3, <1>6, <2>2
    <3>. QED BY <1>2, <2>2, <3>1 DEF Breakers
  <2>3. CASE ~c.ok /\ ~(b.state = "HALF_OPEN" \/ f + 1 >= Threshold)
    <3>1. b2 = [b EXCEPT !.failures = f + 1] /\ f < Threshold /\ f + 1 < Threshold /\ b.state = "CLOSED"
      BY <1>2, <1>3, <1>6, <2>3
    <3>2. b2 \in Breakers /\ b2.state = "CLOSED" /\ b2.failures = f + 1
      BY <1>2, <1>3, <3>1 DEF Breakers
    <3>. QED BY <1>2, <2>3, <3>1, <3>2
  <2>. QED BY <1>2, <2>1, <2>2, <2>3
<1>8. Counts(b2, calls2)
  <2>. HIDE DEF b2, calls2, f
  <2>. QED BY <1>2, <1>7 DEF Counts
<1>9. ProviderStands(b2, calls2, FALSE, from)
  <2>1. AskedIn(calls2) # {} /\ calls2[Max(AskedIn(calls2))] = c
    BY NewestAsked
  <2>. HIDE DEF b2, calls2, f
  <2>. QED BY <1>7, <2>1 DEF ProviderStands, OpenedLast
<1>. QED BY <1>1, <1>5, <1>7, <1>8, <1>9 DEF Healthy

LEMMA AnswerTyped == \A op \in Ops : \A answer \in Answers(op) : answer.ok \in BOOLEAN /\ answer.kind \in Kinds
<1>1. \A a : DartKind(a) \in Kinds /\ RssKind(a) \in Kinds
  BY DEF DartKind, RssKind, Kinds
<1>2. \A ok, kind, readable, payload :
        Reply(ok, kind, readable, payload).ok = ok /\ Reply(ok, kind, readable, payload).kind = kind
  BY DEF Reply
<1>3. "-" \in Kinds
  BY DEF Kinds
<1>4. ASSUME NEW op \in Ops, NEW answer \in Answers(op)
      PROVE  \E ok \in BOOLEAN, kind \in Kinds : \E readable, payload :
               answer = Reply(ok, kind, readable, payload)
  BY <1>1, <1>3, <1>4 DEF Answers
<1>. QED BY <1>2, <1>4

\* A provider that is not being called stays as healthy as it is, whenever the
\* next call begins.
LEMMA IdleStaysHealthy ==
  ASSUME NEW s, NEW b, NEW calls, NEW from, NEW from2, Healthy(s, b, calls, FALSE, from)
  PROVE  Healthy(s, b, calls, FALSE, from2)
BY DEF Healthy, ProviderStands

\* What a step of the fetch leaves typed: it moves on with the same operation,
\* or it starts or ends one.
FetchTyped(w) ==
  /\ DOMAIN w = DOMAIN NoWork
  /\ w.pc \in {"idle", "next", "try", "store"}
  /\ w.from \in Nat /\ w.attempt \in Nat
  /\ w.pc # "idle" => w.op \in Ops

LEMMA Moved ==
  ASSUME HealthInv, UNCHANGED <<breaker, stats, log>>, time' \in Nat, FetchTyped(fetch'),
         \A p \in Providers : Serving(p)' = Serving(p) /\ (Serving(p) => fetch'.from = fetch.from)
  PROVE  HealthInv'
<1>1. ProvTypeInv'
  BY DEF HealthInv, ProvTypeInv, FetchTyped
<1>2. ASSUME NEW p \in Providers
      PROVE  Healthy(stats[p], breaker[p], log[p], Serving(p)', fetch'.from)
  <2>1. Healthy(stats[p], breaker[p], log[p], Serving(p), fetch.from) /\ Serving(p) \in BOOLEAN
    BY DEF HealthInv, Serving
  <2>2. CASE Serving(p)
    BY <2>1, <2>2
  <2>3. CASE ~Serving(p)
    <3>1. Healthy(stats[p], breaker[p], log[p], FALSE, fetch.from)
      BY <2>1, <2>3
    <3>2. Healthy(stats[p], breaker[p], log[p], FALSE, fetch'.from)
      BY <3>1, IdleStaysHealthy
    <3>. QED BY <2>1, <2>3, <3>2
  <2>. QED BY <2>2, <2>3
<1>. QED BY <1>1, <1>2 DEF HealthInv

LEMMA BeginStep ==
  ASSUME HealthInv, NEW op \in Ops, NEW since, NEW limit, BeginFetch(op, since, limit)
  PROVE  HealthInv'
<1>1. fetch.pc = "idle" /\ UNCHANGED <<breaker, stats, log>> /\ time' = time
  BY DEF BeginFetch
<1>2. /\ DOMAIN fetch' = DOMAIN NoWork /\ fetch'.pc = "next" /\ fetch'.op = op
      /\ fetch'.from = 0 /\ fetch'.attempt = 0
  BY DEF BeginFetch, NoWork
<1>3. \A p \in Providers : ~Serving(p) /\ ~Serving(p)' /\ Serving(p) \in BOOLEAN /\ Serving(p)' \in BOOLEAN
  BY <1>1, <1>2 DEF Serving
<1>4. time' \in Nat /\ FetchTyped(fetch')
  BY <1>1, <1>2 DEF HealthInv, ProvTypeInv, FetchTyped
<1>. QED BY <1>1, <1>3, <1>4, Moved

LEMMA StoreStep ==
  ASSUME HealthInv, Store
  PROVE  HealthInv'
<1>1. fetch.pc = "store" /\ fetch' = NoWork /\ UNCHANGED <<breaker, stats, log>> /\ time' = time
  BY DEF Store
<1>2. DOMAIN fetch' = DOMAIN NoWork /\ fetch'.pc = "idle" /\ fetch'.from = 0 /\ fetch'.attempt = 0
  BY <1>1 DEF NoWork
<1>3. \A p \in Providers : ~Serving(p) /\ ~Serving(p)' /\ Serving(p) \in BOOLEAN /\ Serving(p)' \in BOOLEAN
  BY <1>1, <1>2 DEF Serving
<1>4. time' \in Nat /\ FetchTyped(fetch')
  BY <1>1, <1>2 DEF HealthInv, ProvTypeInv, FetchTyped
<1>. QED BY <1>1, <1>3, <1>4, Moved

LEMMA TimeStep ==
  ASSUME HealthInv, PassTime
  PROVE  HealthInv'
<1>1. UNCHANGED <<breaker, stats, log, fetch>> /\ time' = time + 1
  BY DEF PassTime
<1>2. time' \in Nat /\ FetchTyped(fetch')
  BY <1>1 DEF HealthInv, ProvTypeInv, FetchTyped
<1>3. \A p \in Providers : Serving(p)' = Serving(p)
  BY <1>1 DEF Serving
<1>. QED BY <1>1, <1>2, <1>3, Moved

LEMMA ResetStep ==
  ASSUME HealthInv, NEW q \in Providers, ResetMonitor(q)
  PROVE  HealthInv'
<1>1. /\ fetch.pc = "idle" /\ UNCHANGED <<fetch, time>>
      /\ breaker' = [breaker EXCEPT ![q] = Closed]
      /\ stats' = [stats EXCEPT ![q] = NoStats]
      /\ log' = [log EXCEPT ![q] = <<>>]
  BY DEF ResetMonitor
<1>2. /\ breaker \in [Providers -> Breakers] /\ stats \in [Providers -> Statistics]
      /\ log \in [Providers -> Seq(Remembered)] /\ fetch.from \in Nat
  BY DEF HealthInv, ProvTypeInv
<1>3. /\ breaker' \in [Providers -> Breakers] /\ stats' \in [Providers -> Statistics]
      /\ log' \in [Providers -> Seq(Remembered)]
  BY <1>1, <1>2, NothingRecorded
<1>4. ProvTypeInv'
  BY <1>1, <1>3 DEF HealthInv, ProvTypeInv
<1>5. ASSUME NEW p \in Providers
      PROVE  Healthy(stats'[p], breaker'[p], log'[p], Serving(p)', fetch'.from)
  <2>1. Serving(p)' = Serving(p) /\ Serving(p) \in BOOLEAN /\ fetch'.from = fetch.from
    BY <1>1 DEF Serving
  <2>2. CASE p = q
    <3>1. stats'[p] = NoStats /\ breaker'[p] = Closed /\ log'[p] = <<>>
      BY <1>1, <1>2, <2>2
    <3>. QED BY <1>2, <2>1, <3>1, NothingRecorded
  <2>3. CASE p # q
    <3>1. stats'[p] = stats[p] /\ breaker'[p] = breaker[p] /\ log'[p] = log[p]
      BY <1>1, <1>2, <2>3
    <3>. QED BY <2>1, <3>1 DEF HealthInv
  <2>. QED BY <2>2, <2>3
<1>. QED BY <1>4, <1>5 DEF HealthInv

LEMMA AdmitStep ==
  ASSUME HealthInv, Admit
  PROVE  HealthInv'
<1>. DEFINE q == Provider(fetch.op)
            b == breaker[q]
            b2 == TryReset(b)
<1>1. /\ fetch.pc = "next" /\ b2.state # "OPEN" /\ UNCHANGED <<stats, log, time>>
      /\ breaker' = [breaker EXCEPT ![q] = TryReset(@)]
      /\ fetch' = [fetch EXCEPT !.pc = "try", !.attempt = 1, !.from = time]
  BY DEF Admit
<1>2. /\ breaker \in [Providers -> Breakers] /\ time \in Nat /\ DOMAIN fetch = DOMAIN NoWork
      /\ fetch.op \in Ops /\ q \in Providers
  BY <1>1, Providing DEF HealthInv, ProvTypeInv
<1>3. /\ DOMAIN fetch' = DOMAIN NoWork /\ fetch'.pc = "try" /\ fetch'.attempt = 1
      /\ fetch'.from = time /\ fetch'.op = fetch.op
  BY <1>1, <1>2 DEF NoWork
<1>4. b2 = IF b.state = "OPEN" /\ time - b.openedAt >= ResetTimeout
           THEN [b EXCEPT !.state = "HALF_OPEN"] ELSE b
  BY DEF TryReset
<1>5. b \in Breakers
  BY <1>2
<1>6. Healthy(stats[q], b, log[q], FALSE, fetch.from)
  BY <1>1, <1>2 DEF HealthInv, Serving
<1>7. breaker'[q] = b2 /\ \A p \in Providers : p # q => breaker'[p] = breaker[p]
  BY <1>1, <1>2
<1>. HIDE DEF b, b2
<1>8. b2 \in Breakers /\ Healthy(stats[q], b2, log[q], TRUE, time)
  <2>1. CASE b.state = "CLOSED"
    <3>1. b2 = b
      BY <1>4, <2>1
    <3>. QED BY <1>5, <1>6, <2>1, <3>1 DEF Healthy, ProviderStands
  <2>2. CASE b.state # "CLOSED"
    <3>1. b.state = "OPEN"
      BY <1>5, <1>6, <2>2 DEF Healthy, ProviderStands, Breakers
    <3>2. time - b.openedAt >= ResetTimeout /\ b2 = [b EXCEPT !.state = "HALF_OPEN"]
      BY <1>1, <1>4, <3>1 DEF b2
    <3>3. /\ b2 \in Breakers /\ b2.state = "HALF_OPEN" /\ b2.failures = b.failures
          /\ b2.openedAt = b.openedAt
      BY <1>5, <3>2 DEF Breakers
    <3>4. Counts(b2, log[q])
      BY <1>6, <3>1, <3>3 DEF Healthy, Counts
    <3>5. ProviderStands(b2, log[q], TRUE, time)
      BY <1>6, <2>2, <3>2, <3>3 DEF Healthy, ProviderStands, OpenedLast
    <3>. QED BY <1>6, <3>3, <3>4, <3>5 DEF Healthy
  <2>. QED BY <2>1, <2>2
<1>9. ProvTypeInv'
  <2>1. breaker' \in [Providers -> Breakers]
    BY <1>1, <1>2, <1>8 DEF b2, b
  <2>. QED BY <1>1, <1>2, <1>3, <2>1 DEF HealthInv, ProvTypeInv
<1>10. ASSUME NEW p \in Providers
       PROVE  Healthy(stats'[p], breaker'[p], log'[p], Serving(p)', fetch'.from)
  <2>1. CASE p = q
    <3>1. Serving(p)' = TRUE
      BY <1>3, <2>1 DEF Serving
    <3>. QED BY <1>1, <1>3, <1>7, <1>8, <2>1, <3>1
  <2>2. CASE p # q
    <3>1. Serving(p)' = FALSE /\ Serving(p) = FALSE
      BY <1>1, <1>3, <2>2 DEF Serving
    <3>2. Healthy(stats[p], breaker[p], log[p], FALSE, fetch.from)
      BY <3>1 DEF HealthInv
    <3>3. Healthy(stats[p], breaker[p], log[p], FALSE, fetch'.from)
      BY <3>2, IdleStaysHealthy
    <3>. QED BY <1>1, <1>7, <2>2, <3>1, <3>3
  <2>. QED BY <2>1, <2>2
<1>. QED BY <1>9, <1>10 DEF HealthInv

\* A step that records a call of one provider and ends or suspends its fetch.
LEMMA RecordStep ==
  ASSUME HealthInv, NEW q \in Providers, NEW c \in Remembered, NEW b2 \in Breakers,
         Healthy(RecordResult(stats[q], Seen(c)), b2, Append(log[q], c), FALSE, fetch.from),
         breaker' = [breaker EXCEPT ![q] = b2],
         stats' = [stats EXCEPT ![q] = RecordResult(stats[q], Seen(c))],
         log' = [log EXCEPT ![q] = Append(log[q], c)],
         time' = time, FetchTyped(fetch'), fetch'.pc # "try",
         \A p \in Providers : p # q => ~Serving(p)
  PROVE  HealthInv'
<1>1. /\ breaker \in [Providers -> Breakers] /\ stats \in [Providers -> Statistics]
      /\ log \in [Providers -> Seq(Remembered)]
  BY DEF HealthInv, ProvTypeInv
<1>2. RecordResult(stats[q], Seen(c)) \in Statistics /\ Append(log[q], c) \in Seq(Remembered)
  BY <1>1, DigestNext, Appended DEF HealthInv, Healthy
<1>3. ProvTypeInv'
  BY <1>1, <1>2 DEF HealthInv, ProvTypeInv, FetchTyped
<1>4. ASSUME NEW p \in Providers
      PROVE  Healthy(stats'[p], breaker'[p], log'[p], Serving(p)', fetch'.from)
  <2>1. Serving(p)' = FALSE
    BY DEF Serving
  <2>2. CASE p = q
    <3>1. /\ stats'[p] = RecordResult(stats[q], Seen(c)) /\ breaker'[p] = b2
          /\ log'[p] = Append(log[q], c)
      BY <1>1, <2>2
    <3>2. Healthy(RecordResult(stats[q], Seen(c)), b2, Append(log[q], c), FALSE, fetch'.from)
      BY IdleStaysHealthy
    <3>. QED BY <2>1, <3>1, <3>2
  <2>3. CASE p # q
    <3>1. /\ stats'[p] = stats[p] /\ breaker'[p] = breaker[p] /\ log'[p] = log[p]
          /\ Serving(p) = FALSE
      BY <1>1, <2>3 DEF Serving
    <3>2. Healthy(stats[p], breaker[p], log[p], FALSE, fetch.from)
      BY <3>1 DEF HealthInv
    <3>3. Healthy(stats[p], breaker[p], log[p], FALSE, fetch'.from)
      BY <3>2, IdleStaysHealthy
    <3>. QED BY <2>1, <3>1, <3>3
  <2>. QED BY <2>2, <2>3
<1>. QED BY <1>3, <1>4 DEF HealthInv

LEMMA FastFailStep ==
  ASSUME HealthInv, FastFail
  PROVE  HealthInv'
<1>. DEFINE q == Provider(fetch.op)
            call == Recorded(FALSE, "UNKNOWN", 1)
            c == Remember(call, time, FALSE)
            b2 == breaker[q]
<1>1. /\ fetch.pc = "next" /\ UNCHANGED <<breaker, tables, time>>
      /\ stats' = [stats EXCEPT ![q] = RecordResult(@, call)]
      /\ log' = [log EXCEPT ![q] = Append(@, c)]
      /\ fetch' = [fetch EXCEPT !.todo = Tail(@), !.pc = Done(fetch, fetch.out), !.failed = @ + 1]
  BY DEF FastFail
<1>2. /\ breaker \in [Providers -> Breakers] /\ stats \in [Providers -> Statistics]
      /\ log \in [Providers -> Seq(Remembered)] /\ time \in Nat
      /\ DOMAIN fetch = DOMAIN NoWork /\ fetch.from \in Nat /\ fetch.attempt \in Nat
      /\ fetch.op \in Ops /\ q \in Providers
  BY <1>1, Providing DEF HealthInv, ProvTypeInv
<1>3. /\ c \in Remembered /\ Seen(c) = call /\ c.asked = FALSE
  <2>1. "UNKNOWN" \in Kinds /\ 1 \in Nat
    BY DEF Kinds
  <2>. QED BY <1>2, <2>1 DEF Recorded, Remember, Remembered, Seen
<1>4. /\ DOMAIN fetch' = DOMAIN NoWork /\ fetch'.pc \in {"store", "next"}
      /\ fetch'.from = fetch.from /\ fetch'.op = fetch.op /\ fetch'.attempt = fetch.attempt
  BY <1>1, <1>2 DEF NoWork, Done
<1>5. Healthy(stats[q], breaker[q], log[q], FALSE, fetch.from)
  BY <1>1, <1>2 DEF HealthInv, Serving
<1>6. Healthy(RecordResult(stats[q], Seen(c)), b2, Append(log[q], c), FALSE, fetch.from)
  BY <1>2, <1>3, <1>5, RefusalRecorded
<1>7. breaker' = [breaker EXCEPT ![q] = b2] /\ b2 \in Breakers
  BY <1>1, <1>2
<1>8. (\A p \in Providers : ~Serving(p)) /\ time' = time /\ fetch'.pc # "try"
  BY <1>1, <1>4 DEF Serving
<1>9. FetchTyped(fetch')
  BY <1>2, <1>4 DEF FetchTyped
<1>10. /\ stats' = [stats EXCEPT ![q] = RecordResult(stats[q], Seen(c))]
       /\ log' = [log EXCEPT ![q] = Append(log[q], c)]
  BY <1>1, <1>3
<1>. HIDE DEF q, c, call, b2
<1>. QED BY <1>2, <1>3, <1>6, <1>7, <1>8, <1>9, <1>10, RecordStep

LEMMA AskStep ==
  ASSUME HealthInv, NEW answer \in Answers(fetch.op), Ask(answer)
  PROVE  HealthInv'
<1>. DEFINE q == Provider(fetch.op)
            call == Recorded(answer.ok, answer.kind, fetch.attempt)
            c == Remember(call, fetch.from, TRUE)
            out == Gathered(fetch, answer)
            b2 == AfterCall(breaker[q], answer.ok)
<1>1. fetch.pc = "try" /\ time' = time
  BY DEF Ask
<1>2. /\ breaker \in [Providers -> Breakers] /\ stats \in [Providers -> Statistics]
      /\ log \in [Providers -> Seq(Remembered)] /\ time \in Nat
      /\ DOMAIN fetch = DOMAIN NoWork /\ fetch.from \in Nat /\ fetch.attempt \in Nat
      /\ fetch.op \in Ops /\ q \in Providers
  BY <1>1, Providing DEF HealthInv, ProvTypeInv
<1>3. CASE Retryable(answer)
  <2>1. fetch' = [fetch EXCEPT !.attempt = @ + 1] /\ UNCHANGED <<breaker, stats, log>>
    BY <1>3 DEF Ask
  <2>2. /\ DOMAIN fetch' = DOMAIN NoWork /\ fetch'.pc = fetch.pc /\ fetch'.op = fetch.op
        /\ fetch'.from = fetch.from /\ fetch'.attempt = fetch.attempt + 1
    BY <1>2, <2>1 DEF NoWork
  <2>3. FetchTyped(fetch')
    BY <1>1, <1>2, <2>2 DEF FetchTyped
  <2>4. \A p \in Providers : Serving(p)' = Serving(p)
    BY <2>2 DEF Serving
  <2>. QED BY <1>1, <1>2, <2>1, <2>2, <2>3, <2>4, Moved
<1>4. CASE ~Retryable(answer)
  <2>1. /\ breaker' = [breaker EXCEPT ![q] = AfterCall(@, answer.ok)]
        /\ stats' = [stats EXCEPT ![q] = RecordResult(@, call)]
        /\ log' = [log EXCEPT ![q] = Append(@, c)]
        /\ fetch' = [fetch EXCEPT
             !.out = out, !.todo = Tail(@), !.pc = Done(fetch, out),
             !.good = IF answer.readable THEN @ \cup {<<Head(fetch.todo), answer.payload>>} ELSE @,
             !.failed = IF answer.readable THEN @ ELSE @ + 1]
    BY <1>4 DEF Ask
  <2>2. answer.ok \in BOOLEAN /\ answer.kind \in Kinds
    BY <1>2, AnswerTyped
  <2>3. /\ c \in Remembered /\ Seen(c) = call /\ c.ok = answer.ok /\ c.asked = TRUE
        /\ c.from = fetch.from /\ c.at = time
    BY <1>2, <2>2 DEF Recorded, Remember, Remembered, Seen
  <2>4. /\ DOMAIN fetch' = DOMAIN NoWork /\ fetch'.pc \in {"store", "next"}
        /\ fetch'.from = fetch.from /\ fetch'.op = fetch.op /\ fetch'.attempt = fetch.attempt
    <3>. HIDE DEF out
    <3>. QED BY <1>2, <2>1 DEF NoWork, Done
  <2>5. Healthy(stats[q], breaker[q], log[q], TRUE, fetch.from)
    BY <1>1, <1>2 DEF HealthInv, Serving
  <2>6. /\ Healthy(RecordResult(stats[q], Seen(c)), b2, Append(log[q], c), FALSE, fetch.from)
        /\ b2 \in Breakers
    <3>1. ProvTypeInv /\ stats[q] \in Statistics /\ breaker[q] \in Breakers /\ log[q] \in Seq(Remembered)
      BY <1>2 DEF HealthInv
    <3>. HIDE DEF q, c, call
    <3>. QED BY <1>2, <2>3, <2>5, <3>1, AnswerRecorded
  <2>7. FetchTyped(fetch')
    BY <1>2, <2>4 DEF FetchTyped
  <2>8. /\ breaker' = [breaker EXCEPT ![q] = b2]
        /\ stats' = [stats EXCEPT ![q] = RecordResult(stats[q], Seen(c))]
        /\ log' = [log EXCEPT ![q] = Append(log[q], c)]
    BY <2>1, <2>3
  <2>9. \A p \in Providers : p # q => ~Serving(p)
    BY DEF Serving
  <2>. HIDE DEF q, c, call, b2
  <2>. QED BY <1>1, <1>2, <2>3, <2>4, <2>6, <2>7, <2>8, <2>9, RecordStep
<1>. QED BY <1>3, <1>4

LEMMA HealthInvNext == HealthInv /\ [ProvNext]_provVars => HealthInv'
<1>. SUFFICES ASSUME HealthInv, [ProvNext]_provVars PROVE HealthInv'
  OBVIOUS
<1>1. CASE UNCHANGED provVars
  BY <1>1 DEF provVars, HealthInv, ProvTypeInv, Serving
<1>2. ASSUME NEW op \in Ops, NEW since \in SinceOf(op), NEW limit \in LimitsOf(op),
             BeginFetch(op, since, limit)
      PROVE  HealthInv'
  BY <1>2, BeginStep
<1>3. CASE FastFail
  BY <1>3, FastFailStep
<1>4. CASE Admit
  BY <1>4, AdmitStep
<1>5. ASSUME NEW answer \in Answers(fetch.op), Ask(answer) PROVE HealthInv'
  BY <1>5, AskStep
<1>6. CASE Store
  BY <1>6, StoreStep
<1>7. ASSUME NEW p \in Providers, ResetMonitor(p) PROVE HealthInv'
  BY <1>7, ResetStep
<1>8. CASE PassTime
  BY <1>8, TimeStep
<1>. QED BY <1>1, <1>2, <1>3, <1>4, <1>5, <1>6, <1>7, <1>8 DEF ProvNext

(***************************************************************************)
(* The health of a provider follows from its calls: what the monitor shows *)
(* is a digest of them, the breaker counts the failures since the last     *)
(* success and no refusal, and a provider that has failed Threshold times  *)
(* in a row is left alone for ResetTimeout; for any targets, outages,      *)
(* thresholds and buffer lengths, any number of calls and resets.          *)
(***************************************************************************)
THEOREM HealthAlwaysFollows == ProvSpec => []HealthFollowsTheCalls
<1>1. ProvInit => HealthInv
  BY HealthInvInit
<1>2. HealthInv /\ [ProvNext]_provVars => HealthInv'
  BY HealthInvNext
<1>3. HealthInv => HealthFollowsTheCalls
  BY HealthInvImplies
<1>. QED BY <1>1, <1>2, <1>3, PTL DEF ProvSpec

----
(***************************************************************************)
(* What a fetch gathers.  The rows that a filter leaves are the rows at    *)
(* the places it keeps, each once and in their order.                      *)
(***************************************************************************)
RowsIn(rows) == {rows[i] : i \in DOMAIN rows}

LEMMA PickedRows ==
  ASSUME NEW S, NEW rows \in Seq(S), NEW places, places \subseteq DOMAIN rows
  PROVE  /\ Picked(rows, places) \in Seq(S)
         /\ RowsIn(Picked(rows, places)) = {rows[i] : i \in places}
<1>. DEFINE order == {p \in places \X places : p[1] < p[2]}
            n == Cardinality(places)
            place(i) == 1 + Cardinality({j \in places : j < i})
            at(k) == CHOOSE i \in places : place(i) = k
<1>1. DOMAIN rows = 1 .. Len(rows) /\ Len(rows) \in Nat /\ \A i \in DOMAIN rows : rows[i] \in S
  OBVIOUS
<1>2. IsFiniteSet(places) /\ places \subseteq Int /\ n \in Nat
  <2>1. IsFiniteSet(1 .. Len(rows))
    BY <1>1, FS_Interval
  <2>2. IsFiniteSet(places)
    BY <1>1, <2>1, FS_Subset
  <2>3. n \in Nat
    BY <2>2, FS_CardinalityType
  <2>. QED BY <1>1, <2>2, <2>3
<1>3. StrictlyOrders(order, places)
  BY <1>2 DEF StrictlyOrders
<1>4. \A i \in places : Standing(places, order, i) = place(i)
  <2>. TAKE i \in places
  <2>1. {j \in places : <<j, i>> \in order} = {j \in places : j < i}
    OBVIOUS
  <2>. QED BY <2>1 DEF Standing
<1>. HIDE DEF order
<1>5. /\ \A i \in places : place(i) \in 1 .. n
      /\ \A k \in 1 .. n : \E i \in places : place(i) = k
      /\ \A i, j \in places : place(i) = place(j) => i = j
  <2>1. /\ \A i \in places : Standing(places, order, i) \in 1 .. n
        /\ \A i, j \in places : <<i, j>> \in order <=> Standing(places, order, i) < Standing(places, order, j)
        /\ \A k \in 1 .. n : \E i \in places : Standing(places, order, i) = k
    BY <1>2, <1>3, StandingsAreRanks
  <2>. HIDE DEF n, place
  <2>2. ASSUME NEW i \in places, NEW j \in places, place(i) = place(j) PROVE i = j
    <3>1. <<i, j>> \notin order /\ <<j, i>> \notin order
      BY <1>2, <1>4, <2>1, <2>2
    <3>. QED BY <1>2, <1>3, <3>1 DEF StrictlyOrders
  <2>. QED BY <1>4, <2>1, <2>2
<1>. HIDE DEF place
<1>6. \A k \in 1 .. n : at(k) \in places /\ place(at(k)) = k
  BY <1>5
<1>7. \A i \in places : at(place(i)) = i
  BY <1>5, <1>6
<1>8. Picked(rows, places) = [k \in 1 .. n |-> rows[at(k)]]
  BY DEF Picked, place
<1>. HIDE DEF n, at
<1>9. Picked(rows, places) \in Seq(S)
  BY <1>1, <1>2, <1>6, <1>8
<1>10. RowsIn(Picked(rows, places)) = {rows[i] : i \in places}
  BY <1>5, <1>6, <1>7, <1>8 DEF RowsIn
<1>. QED BY <1>9, <1>10

LEMMA PartsOfASequence ==
  ASSUME NEW S, NEW s \in Seq(S), NEW t \in Seq(S)
  PROVE  /\ s \o t \in Seq(S) /\ Len(s \o t) = Len(s) + Len(t)
         /\ RowsIn(s \o t) = RowsIn(s) \cup RowsIn(t)
         /\ \A m \in 0 .. Len(t) : SubSeq(t, 1, m) \in Seq(S) /\ Len(SubSeq(t, 1, m)) = m
         /\ SubSeq(t, 1, Len(t)) = t
<1>1. /\ s \o t \in Seq(S) /\ Len(s \o t) = Len(s) + Len(t) /\ Len(s) \in Nat /\ Len(t) \in Nat
      /\ \A i \in 1 .. Len(s) : (s \o t)[i] = s[i]
      /\ \A i \in 1 .. Len(t) : (s \o t)[Len(s) + i] = t[i]
  OBVIOUS
<1>2. RowsIn(s \o t) \subseteq RowsIn(s) \cup RowsIn(t)
  <2>. SUFFICES ASSUME NEW i \in 1 .. Len(s) + Len(t) PROVE (s \o t)[i] \in RowsIn(s) \cup RowsIn(t)
    BY <1>1 DEF RowsIn
  <2>1. CASE i <= Len(s)
    BY <1>1, <2>1 DEF RowsIn
  <2>2. CASE i > Len(s)
    <3>1. i - Len(s) \in 1 .. Len(t) /\ i = Len(s) + (i - Len(s))
      BY <1>1, <2>2
    <3>2. (s \o t)[i] = t[i - Len(s)]
      BY <1>1, <3>1
    <3>. QED BY <1>1, <3>1, <3>2 DEF RowsIn
  <2>. QED BY <1>1, <2>1, <2>2
<1>3. RowsIn(s) \cup RowsIn(t) \subseteq RowsIn(s \o t)
  <2>1. \A i \in DOMAIN s : s[i] \in RowsIn(s \o t)
    BY <1>1 DEF RowsIn
  <2>2. \A i \in DOMAIN t : t[i] \in RowsIn(s \o t)
    <3>. TAKE i \in DOMAIN t
    <3>1. i \in 1 .. Len(t) /\ Len(s) + i \in DOMAIN (s \o t)
      BY <1>1
    <3>. QED BY <1>1, <3>1 DEF RowsIn
  <2>. QED BY <2>1, <2>2 DEF RowsIn
<1>4. \A m \in 0 .. Len(t) : SubSeq(t, 1, m) \in Seq(S) /\ Len(SubSeq(t, 1, m)) = m
  OBVIOUS
<1>5. SubSeq(t, 1, Len(t)) = t
  OBVIOUS
<1>. QED BY <1>1, <1>2, <1>3, <1>4, <1>5

----
\* A fetch of a listing holds the whole rows of the answers it could read: all of them,
\* or, for disclosures, those from the cutoff on, as long as it has room.
YoungRows(rows, since) == {r \in rows : r.day >= since}
ListingHolds(w) ==
  /\ w.since \in Int /\ w.limit \in Int /\ w.out \in Seq(Entries)
  /\ w.op = "news" => RowsIn(w.out) = RowsOf(w)
  /\ w.op = "disclosures" /\ Len(w.out) < w.limit => RowsIn(w.out) = YoungRows(RowsOf(w), w.since)
ListingInv == fetch.pc # "idle" /\ IsListing(fetch.op) => ListingHolds(fetch)

\* The tables keep their names and what is in them.
TablesInv == tables = [news |-> tables.news, fundamentals |-> tables.fundamentals, earnings |-> tables.earnings]

WorkInv ==
  /\ DOMAIN fetch = DOMAIN NoWork
  /\ fetch.pc \in {"idle", "next", "try", "store"}
  /\ fetch.pc # "idle" => fetch.op \in Ops

IngestInv == WorkInv /\ TablesInv /\ ListingInv

LEMMA WholeRows ==
  ASSUME NEW rows \in Seq(Entries)
  PROVE  /\ WholeEntries(rows) \in Seq(Entries) /\ WholeDisclosures(rows) = WholeEntries(rows)
         /\ ToSet(WholeEntries(rows)) = RowsIn(WholeEntries(rows))
BY PickedRows DEF WholeEntries, WholeDisclosures, ToSet, RowsIn

LEMMA FreshRows ==
  ASSUME NEW rows \in Seq(Entries), NEW since \in Int
  PROVE  Since(rows, since) \in Seq(Entries) /\ RowsIn(Since(rows, since)) = YoungRows(RowsIn(rows), since)
<1>1. /\ Since(rows, since) \in Seq(Entries)
      /\ RowsIn(Since(rows, since)) = {rows[i] : i \in {k \in DOMAIN rows : rows[k].day >= since}}
  BY PickedRows DEF Since
<1>. QED BY <1>1 DEF YoungRows, RowsIn

\* One more answer was read.
OneMore(w, w2, target, rows) == w2.good = w.good \cup {<<target, rows>>}

LEMMA RowsOfMore ==
  ASSUME NEW w, NEW w2, NEW target, NEW rows \in Seq(Entries), OneMore(w, w2, target, rows)
  PROVE  RowsOf(w2) = RowsOf(w) \cup RowsIn(WholeEntries(rows))
<1>1. ToSet(WholeEntries(<<target, rows>>[2])) = RowsIn(WholeEntries(rows))
  BY WholeRows
<1>. QED BY <1>1 DEF RowsOf, OneMore

LEMMA GatheredNews ==
  ASSUME NEW w, ListingHolds(w), w.op = "news", NEW w2, NEW target, NEW rows \in Seq(Entries),
         OneMore(w, w2, target, rows), w2.out = WithNews(w, rows)
  PROVE  w2.out \in Seq(Entries) /\ RowsIn(w2.out) = RowsOf(w2)
<1>1. WholeEntries(rows) \in Seq(Entries) /\ w.out \in Seq(Entries) /\ RowsIn(w.out) = RowsOf(w)
  BY WholeRows DEF ListingHolds
<1>2. w2.out = w.out \o WholeEntries(rows)
  BY DEF WithNews
<1>3. w2.out \in Seq(Entries) /\ RowsIn(w2.out) = RowsIn(w.out) \cup RowsIn(WholeEntries(rows))
  BY <1>1, <1>2, PartsOfASequence
<1>4. RowsOf(w2) = RowsOf(w) \cup RowsIn(WholeEntries(rows))
  BY RowsOfMore
<1>. QED BY <1>1, <1>3, <1>4

LEMMA GatheredDisclosures ==
  ASSUME NEW w, ListingHolds(w), w.op = "disclosures", NEW w2, NEW target, NEW rows \in Seq(Entries),
         OneMore(w, w2, target, rows), w2.out = WithDisclosures(w, rows)
  PROVE  /\ w2.out \in Seq(Entries)
         /\ Len(w2.out) < w.limit => RowsIn(w2.out) = YoungRows(RowsOf(w2), w.since)
<1>. DEFINE fresh == Since(WholeDisclosures(rows), w.since)
            m == Min({Len(fresh), Room(w.limit, w.out)})
            part == SubSeq(fresh, 1, m)
<1>1. WholeDisclosures(rows) = WholeEntries(rows) /\ WholeEntries(rows) \in Seq(Entries)
  BY WholeRows
<1>2. w.out \in Seq(Entries) /\ Len(w.out) \in Nat /\ w.limit \in Int /\ w.since \in Int
  BY DEF ListingHolds
<1>3. /\ fresh \in Seq(Entries) /\ Len(fresh) \in Nat
      /\ RowsIn(fresh) = YoungRows(RowsIn(WholeEntries(rows)), w.since)
  <2>1. fresh = Since(WholeEntries(rows), w.since)
    BY <1>1
  <2>. HIDE DEF fresh
  <2>2. fresh \in Seq(Entries)
    BY <1>1, <1>2, <2>1, FreshRows
  <2>3. RowsIn(fresh) = YoungRows(RowsIn(WholeEntries(rows)), w.since)
    BY <1>1, <1>2, <2>1, FreshRows
  <2>. QED BY <2>2, <2>3
<1>4. w2.out = w.out \o part
  BY DEF WithDisclosures
<1>. HIDE DEF fresh
<1>5. Room(w.limit, w.out) = IF 1 >= w.limit - Len(w.out) THEN 1 ELSE w.limit - Len(w.out)
  BY <1>2, MaxOfTwo DEF Room
<1>6. m = IF Len(fresh) <= Room(w.limit, w.out) THEN Len(fresh) ELSE Room(w.limit, w.out)
  <2>1. Len(fresh) \in Int /\ Room(w.limit, w.out) \in Int
    BY <1>2, <1>3, <1>5
  <2>. QED BY <2>1, MinOfTwo
<1>7. m \in 0 .. Len(fresh)
  BY <1>2, <1>3, <1>5, <1>6
<1>. HIDE DEF m
<1>8. part \in Seq(Entries) /\ Len(part) = m
  BY <1>2, <1>3, <1>7, PartsOfASequence
<1>9. /\ w2.out \in Seq(Entries) /\ Len(w2.out) = Len(w.out) + m
      /\ RowsIn(w2.out) = RowsIn(w.out) \cup RowsIn(part)
  <2>. HIDE DEF part
  <2>0. w.out \o part \in Seq(Entries) /\ Len(w.out \o part) = Len(w.out) + Len(part)
    <3>1. \A s, t \in Seq(Entries) : s \o t \in Seq(Entries) /\ Len(s \o t) = Len(s) + Len(t)
      BY PartsOfASequence
    <3>. QED BY <1>2, <1>8, <3>1
  <2>1. w2.out \in Seq(Entries) /\ Len(w2.out) = Len(w.out) + Len(part)
    BY <1>4, <2>0
  <2>2. RowsIn(w2.out) = RowsIn(w.out) \cup RowsIn(part)
    BY <1>2, <1>4, <1>8, PartsOfASequence
  <2>. QED BY <1>8, <2>1, <2>2
<1>10. ASSUME Len(w2.out) < w.limit PROVE RowsIn(w2.out) = YoungRows(RowsOf(w2), w.since)
  <2>1. Len(w.out) < w.limit /\ m = Len(fresh)
    BY <1>2, <1>3, <1>5, <1>6, <1>7, <1>9, <1>10
  <2>2. part = fresh
    BY <1>2, <1>3, <2>1, PartsOfASequence
  <2>3. RowsIn(w.out) = YoungRows(RowsOf(w), w.since)
    BY <2>1 DEF ListingHolds
  <2>4. RowsOf(w2) = RowsOf(w) \cup RowsIn(WholeEntries(rows))
    BY RowsOfMore
  <2>. QED BY <1>3, <1>9, <2>2, <2>3, <2>4 DEF YoungRows
<1>. QED BY <1>9, <1>10

LEMMA AnswersOfAListing ==
  ASSUME NEW op \in Ops, IsListing(op), NEW answer \in Answers(op)
  PROVE  /\ answer.readable \in BOOLEAN
         /\ answer.readable => answer.payload \in Seq(Entries)
<1>2. \/ \E l \in Listings : answer = Reply(TRUE, "-", TRUE, l)
      \/ \E ok, kind : answer = Reply(ok, kind, FALSE, <<>>)
  BY DEF Answers
<1>3. CASE \E l \in Listings : answer = Reply(TRUE, "-", TRUE, l)
  <2>1. PICK l \in Listings : answer = Reply(TRUE, "-", TRUE, l)
    BY <1>3
  <2>2. answer.readable = TRUE /\ answer.payload = l
    BY <2>1 DEF Reply
  <2>. QED BY <2>2, ProviderCallsAssumption
<1>4. CASE \E ok, kind : answer = Reply(ok, kind, FALSE, <<>>)
  <2>1. PICK ok, kind : answer = Reply(ok, kind, FALSE, <<>>)
    BY <1>4
  <2>2. answer.readable = FALSE
    BY <2>1 DEF Reply
  <2>. QED BY <2>2
<1>. QED BY <1>2, <1>3, <1>4

----
LEMMA FirstOfAKind ==
  ASSUME NEW S, NEW rows \in Seq(S), NEW i \in DOMAIN rows
  PROVE  \E j \in DOMAIN rows : /\ rows[j].url = rows[i].url
                                /\ \A k \in 1 .. (j - 1) : rows[k].url # rows[j].url
<1>. DEFINE copies == {k \in DOMAIN rows : rows[k].url = rows[i].url}
            down == [k \in DOMAIN rows |-> -k]
            downs == {down[k] : k \in copies}
<1>1. DOMAIN rows = 1 .. Len(rows) /\ Len(rows) \in Nat
  OBVIOUS
<1>2. IsFiniteSet(copies)
  <2>1. IsFiniteSet(1 .. Len(rows)) /\ copies \subseteq 1 .. Len(rows)
    BY <1>1, FS_Interval
  <2>. QED BY <2>1, FS_Subset
<1>3. IsFiniteSet(downs)
  <2>. HIDE DEF copies
  <2>. QED BY <1>2, ImageFinite
<1>4. downs # {} /\ downs \subseteq Int
  BY <1>1
<1>5. PICK m \in downs : \A y \in downs : m >= y
  <2>. HIDE DEF downs
  <2>. QED BY <1>3, <1>4, LargestIsMax
<1>6. PICK j \in copies : m = down[j]
  BY <1>5
<1>7. ASSUME NEW k \in copies PROVE j <= k
  <2>1. k \in Int /\ j \in Int /\ m = -j /\ down[k] = -k /\ down[k] \in downs
    BY <1>1, <1>6
  <2>2. m >= down[k]
    BY <1>5, <2>1
  <2>. HIDE DEF down
  <2>. QED BY <2>1, <2>2
<1>8. \A k \in 1 .. (j - 1) : rows[k].url # rows[j].url
  <2>. SUFFICES ASSUME NEW k \in 1 .. (j - 1), rows[k].url = rows[j].url PROVE FALSE
    OBVIOUS
  <2>1. j \in 1 .. Len(rows) /\ k \in DOMAIN rows /\ k < j /\ k \in Int /\ j \in Int
    BY <1>1
  <2>. QED BY <1>6, <1>7, <2>1
<1>. QED BY <1>8

LEMMA OnceEach ==
  ASSUME NEW rows \in Seq(Entries)
  PROVE  /\ Deduplicated(rows) \in Seq(Entries)
         /\ RowsIn(Deduplicated(rows)) \subseteq RowsIn(rows)
         /\ \A r \in RowsIn(rows) : \E s \in RowsIn(Deduplicated(rows)) : s.url = r.url
<1>. DEFINE places == {i \in DOMAIN rows : \A j \in 1 .. (i - 1) : rows[j].url # rows[i].url}
<1>1. Deduplicated(rows) \in Seq(Entries) /\ RowsIn(Deduplicated(rows)) = {rows[i] : i \in places}
  BY PickedRows DEF Deduplicated
<1>2. ASSUME NEW i \in DOMAIN rows PROVE \E j \in places : rows[j].url = rows[i].url
  BY FirstOfAKind
<1>. QED BY <1>1, <1>2 DEF RowsIn

\* What a fetch with room to spare returns is every fresh row once.
LEMMA RoomKeepsAll ==
  ASSUME NEW w, ListingHolds(w), w.op \in {"news", "disclosures"}, SameDayCopies(w),
         Len(FetchResult(w)) < w.limit
  PROVE  {r.url : r \in {q \in RowsOf(w) : q.day >= w.since}}
           = {FetchResult(w)[i].url : i \in DOMAIN FetchResult(w)}
<1>1. {FetchResult(w)[i].url : i \in DOMAIN FetchResult(w)} = {r.url : r \in RowsIn(FetchResult(w))}
  BY DEF RowsIn
<1>2. CASE w.op = "disclosures"
  <2>1. FetchResult(w) = w.out
    BY <1>2 DEF FetchResult
  <2>2. RowsIn(FetchResult(w)) = YoungRows(RowsOf(w), w.since)
    BY <1>2, <2>1 DEF ListingHolds
  <2>. QED BY <1>1, <2>2 DEF YoungRows
<1>3. CASE w.op = "news"
  <2>. DEFINE once == Deduplicated(w.out)
              fresh == Since(once, w.since)
  <2>1. w.out \in Seq(Entries) /\ RowsIn(w.out) = RowsOf(w) /\ w.since \in Int /\ w.limit \in Int
    BY <1>3 DEF ListingHolds
  <2>2. /\ once \in Seq(Entries) /\ RowsIn(once) \subseteq RowsOf(w)
        /\ \A r \in RowsOf(w) : \E s \in RowsIn(once) : s.url = r.url
    BY <2>1, OnceEach
  <2>3. FetchResult(w) = IF w.limit # 0 /\ Len(fresh) > w.limit THEN SubSeq(fresh, 1, w.limit) ELSE fresh
    BY <1>3 DEF FetchResult
  <2>. HIDE DEF once
  <2>4. /\ fresh \in Seq(Entries) /\ Len(fresh) \in Nat
        /\ RowsIn(fresh) = YoungRows(RowsIn(once), w.since)
    <3>1. fresh \in Seq(Entries)
      BY <2>1, <2>2, FreshRows
    <3>2. RowsIn(fresh) = YoungRows(RowsIn(once), w.since)
      BY <2>1, <2>2, FreshRows
    <3>. HIDE DEF fresh
    <3>. QED BY <3>1, <3>2
  <2>. HIDE DEF fresh
  <2>5. FetchResult(w) = fresh
    <3>1. SUFFICES ASSUME w.limit # 0, Len(fresh) > w.limit PROVE FALSE
      BY <2>3
    <3>2. FetchResult(w) = SubSeq(fresh, 1, w.limit)
      BY <2>3, <3>1
    <3>3. CASE w.limit > 0
      <4>1. w.limit \in 0 .. Len(fresh)
        BY <2>1, <2>4, <3>1, <3>3
      <4>2. Len(SubSeq(fresh, 1, w.limit)) = w.limit
        BY <2>1, <2>4, <4>1, PartsOfASequence
      <4>. QED BY <2>1, <3>2, <4>2
    <3>4. CASE w.limit < 0
      <4>1. Len(SubSeq(fresh, 1, w.limit)) = 0
        BY <2>1, <2>4, <3>4
      <4>. QED BY <2>1, <3>2, <3>4, <4>1
    <3>. QED BY <2>1, <3>1, <3>3, <3>4
  <2>6. ASSUME NEW r \in RowsOf(w), r.day >= w.since
        PROVE  \E s \in RowsIn(fresh) : s.url = r.url
    <3>1. PICK s \in RowsIn(once) : s.url = r.url
      BY <2>2
    <3>2. s.day = r.day
      BY <2>2, <3>1 DEF SameDayCopies
    <3>. QED BY <2>4, <2>6, <3>1, <3>2 DEF YoungRows
  <2>7. \A s \in RowsIn(fresh) : s \in RowsOf(w) /\ s.day >= w.since
    BY <2>2, <2>4 DEF YoungRows
  <2>8. {r.url : r \in {q \in RowsOf(w) : q.day >= w.since}} = {r.url : r \in RowsIn(fresh)}
    BY <2>6, <2>7
  <2>. QED BY <1>1, <2>5, <2>8
<1>. QED BY <1>2, <1>3

----
LEMMA IngestInvInit == ProvInit => IngestInv
BY DEF ProvInit, IngestInv, WorkInv, TablesInv, ListingInv, NoWork, EmptyTables

\* The fields of a fetch that a step leaves alone.
Same(w, w2) ==
  /\ w2.op = w.op /\ w2.since = w.since /\ w2.limit = w.limit /\ w2.out = w.out /\ w2.good = w.good

LEMMA SameHolds ==
  ASSUME NEW w, NEW w2, ListingHolds(w), Same(w, w2)
  PROVE  ListingHolds(w2)
<1>1. RowsOf(w2) = RowsOf(w)
  BY DEF Same, RowsOf
<1>. QED BY <1>1 DEF ListingHolds, Same

LEMMA IngestInvNext == IngestInv /\ [ProvNext]_provVars => IngestInv'
<1>. SUFFICES ASSUME IngestInv, [ProvNext]_provVars PROVE IngestInv'
  OBVIOUS
<1>0. WorkInv /\ TablesInv /\ ListingInv
  BY DEF IngestInv
<1>1. ASSUME UNCHANGED <<fetch, tables>> PROVE IngestInv'
  BY <1>0, <1>1 DEF IngestInv, WorkInv, TablesInv, ListingInv, ListingHolds, RowsOf
<1>2. ASSUME UNCHANGED tables, WorkInv', ~(fetch'.pc = "idle"), Same(fetch, fetch'), fetch.pc # "idle"
      PROVE  IngestInv'
  <2>1. TablesInv'
    BY <1>0, <1>2 DEF TablesInv
  <2>2. ASSUME IsListing(fetch'.op) PROVE ListingHolds(fetch')
    <3>1. ListingHolds(fetch)
      BY <1>0, <1>2, <2>2 DEF ListingInv, Same
    <3>. QED BY <1>2, <3>1, SameHolds
  <2>3. ListingInv'
    <3>1. IsListing(fetch'.op) => ListingHolds(fetch')
      BY <2>2
    <3>. QED BY <3>1 DEF ListingInv, ListingHolds, RowsOf, IsListing
  <2>. QED BY <1>2, <2>1, <2>3 DEF IngestInv
<1>3. ASSUME NEW op \in Ops, NEW since \in SinceOf(op), NEW limit \in LimitsOf(op),
             BeginFetch(op, since, limit)
      PROVE  IngestInv'
  <2>1. /\ tables' = tables
        /\ fetch' = [NoWork EXCEPT !.op = op, !.pc = "next", !.todo = Targets,
                                   !.since = since, !.limit = limit]
    BY <1>3 DEF BeginFetch
  <2>2. /\ DOMAIN fetch' = DOMAIN NoWork /\ fetch'.pc = "next" /\ fetch'.op = op
        /\ fetch'.since = since /\ fetch'.limit = limit /\ fetch'.out = <<>> /\ fetch'.good = {}
    BY <2>1 DEF NoWork
  <2>3. since \in Int /\ limit \in Int
    BY ProviderCallsAssumption DEF SinceOf, LimitsOf
  <2>4. RowsOf(fetch') = {}
    BY <2>2 DEF RowsOf
  <2>5. RowsIn(fetch'.out) = {} /\ fetch'.out \in Seq(Entries)
    BY <2>2 DEF RowsIn
  <2>6. ListingHolds(fetch')
    BY <2>2, <2>3, <2>4, <2>5 DEF ListingHolds, YoungRows
  <2>7. ListingInv'
    BY <2>6 DEF ListingInv, ListingHolds, RowsOf
  <2>8. WorkInv'
    BY <2>2 DEF WorkInv
  <2>. QED BY <1>0, <2>1, <2>7, <2>8 DEF IngestInv, TablesInv
<1>4. CASE FastFail
  <2>1. /\ fetch.pc = "next" /\ tables' = tables
        /\ fetch' = [fetch EXCEPT !.todo = Tail(@), !.pc = Done(fetch, fetch.out), !.failed = @ + 1]
    BY <1>4 DEF FastFail
  <2>2. /\ DOMAIN fetch' = DOMAIN NoWork /\ Same(fetch, fetch') /\ fetch'.pc \in {"store", "next"}
    BY <1>0, <2>1 DEF WorkInv, NoWork, Same, Done
  <2>3. WorkInv'
    BY <1>0, <2>1, <2>2 DEF WorkInv, Same
  <2>. QED BY <1>2, <2>1, <2>2, <2>3
<1>5. CASE Admit
  <2>1. /\ fetch.pc = "next" /\ tables' = tables
        /\ fetch' = [fetch EXCEPT !.pc = "try", !.attempt = 1, !.from = time]
    BY <1>5 DEF Admit
  <2>2. /\ DOMAIN fetch' = DOMAIN NoWork /\ Same(fetch, fetch') /\ fetch'.pc = "try"
    BY <1>0, <2>1 DEF WorkInv, NoWork, Same
  <2>3. WorkInv'
    BY <1>0, <2>1, <2>2 DEF WorkInv, Same
  <2>. QED BY <1>2, <2>1, <2>2, <2>3
<1>6. ASSUME NEW answer \in Answers(fetch.op), Ask(answer) PROVE IngestInv'
  <2>1. fetch.pc = "try" /\ tables' = tables /\ DOMAIN fetch = DOMAIN NoWork /\ fetch.op \in Ops
    BY <1>0, <1>6 DEF Ask, WorkInv
  <2>2. CASE Retryable(answer)
    <3>1. fetch' = [fetch EXCEPT !.attempt = @ + 1]
      BY <1>6, <2>2 DEF Ask
    <3>2. /\ DOMAIN fetch' = DOMAIN NoWork /\ Same(fetch, fetch') /\ fetch'.pc = "try"
      BY <2>1, <3>1 DEF NoWork, Same
    <3>3. WorkInv'
      BY <2>1, <3>2 DEF WorkInv, Same
    <3>. QED BY <1>2, <2>1, <3>2, <3>3
  <2>3. CASE ~Retryable(answer)
    <3>. DEFINE out == Gathered(fetch, answer)
    <3>1. fetch' = [fetch EXCEPT
             !.out = out, !.todo = Tail(@), !.pc = Done(fetch, out),
             !.good = IF answer.readable THEN @ \cup {<<Head(fetch.todo), answer.payload>>} ELSE @,
             !.failed = IF answer.readable THEN @ ELSE @ + 1]
      BY <1>6, <2>3 DEF Ask
    <3>. HIDE DEF out
    <3>2. /\ DOMAIN fetch' = DOMAIN NoWork /\ fetch'.op = fetch.op /\ fetch'.since = fetch.since
          /\ fetch'.limit = fetch.limit /\ fetch'.out = out /\ fetch'.pc \in {"store", "next"}
          /\ fetch'.good = IF answer.readable THEN fetch.good \cup {<<Head(fetch.todo), answer.payload>>}
                           ELSE fetch.good
      BY <2>1, <3>1 DEF NoWork, Done
    <3>3. WorkInv'
      BY <2>1, <3>2 DEF WorkInv
    <3>4. ASSUME IsListing(fetch.op) PROVE ListingHolds(fetch')
      <4>1. ListingHolds(fetch) /\ fetch.op \in {"news", "disclosures"}
        BY <1>0, <2>1, <3>4 DEF ListingInv, IsListing
      <4>2. answer.readable \in BOOLEAN /\ (answer.readable => answer.payload \in Seq(Entries))
        BY <2>1, <3>4, AnswersOfAListing
      <4>3. CASE ~answer.readable
        <5>1. out = fetch.out
          BY <4>3 DEF out, Gathered
        <5>2. Same(fetch, fetch')
          BY <3>2, <4>3, <5>1 DEF Same
        <5>. QED BY <4>1, <5>2, SameHolds
      <4>4. CASE answer.readable /\ fetch.op = "news"
        <5>1. fetch'.out = WithNews(fetch, answer.payload)
          BY <3>2, <4>4 DEF out, Gathered
        <5>2. OneMore(fetch, fetch', Head(fetch.todo), answer.payload)
          BY <3>2, <4>4 DEF OneMore
        <5>3. fetch'.out \in Seq(Entries) /\ RowsIn(fetch'.out) = RowsOf(fetch')
          BY <4>1, <4>2, <4>4, <5>1, <5>2, GatheredNews
        <5>. QED BY <3>2, <4>1, <4>4, <5>3 DEF ListingHolds
      <4>5. CASE answer.readable /\ fetch.op = "disclosures"
        <5>1. fetch'.out = WithDisclosures(fetch, answer.payload)
          BY <3>2, <4>5 DEF out, Gathered
        <5>2. OneMore(fetch, fetch', Head(fetch.todo), answer.payload)
          BY <3>2, <4>5 DEF OneMore
        <5>3. /\ fetch'.out \in Seq(Entries)
              /\ Len(fetch'.out) < fetch.limit => RowsIn(fetch'.out) = YoungRows(RowsOf(fetch'), fetch.since)
          BY <4>1, <4>2, <4>5, <5>1, <5>2, GatheredDisclosures
        <5>. QED BY <3>2, <4>1, <4>5, <5>3 DEF ListingHolds
      <4>. QED BY <4>1, <4>2, <4>3, <4>4, <4>5
    <3>5. ListingInv'
      <4>1. IsListing(fetch'.op) => ListingHolds(fetch')
        BY <3>2, <3>4
      <4>. QED BY <4>1 DEF ListingInv, ListingHolds, RowsOf, IsListing
    <3>. QED BY <1>0, <2>1, <3>3, <3>5 DEF IngestInv, TablesInv
  <2>. QED BY <2>2, <2>3
<1>7. CASE Store
  <2>1. fetch.pc = "store" /\ fetch' = NoWork /\ fetch.op \in Ops
    BY <1>0, <1>7 DEF Store, WorkInv
  <2>2. WorkInv' /\ ListingInv'
    BY <2>1 DEF WorkInv, ListingInv, NoWork
  <2>3. \/ \E x : tables' = [tables EXCEPT !.news = x]
        \/ \E x : tables' = [tables EXCEPT ![fetch.op] = x]
    BY <1>7 DEF Store
  <2>4. TablesInv'
    BY <1>0, <2>1, <2>3, ProviderCallsAssumption DEF TablesInv
  <2>. QED BY <2>2, <2>4 DEF IngestInv
<1>8. CASE (\E p \in Providers : ResetMonitor(p)) \/ PassTime \/ UNCHANGED provVars
  BY <1>1, <1>8 DEF ResetMonitor, PassTime, provVars
<1>. QED BY <1>3, <1>4, <1>5, <1>6, <1>7, <1>8 DEF ProvNext

LEMMA StoreKeeps ==
  ASSUME IngestInv, Store
  PROVE  StoredStays
<1>1. fetch.pc = "store" /\ fetch.op \in Ops /\ TablesInv
  BY DEF Store, IngestInv, WorkInv
<1>. DEFINE found == FetchResult(fetch)
<1>2. CASE IsListing(fetch.op)
  <2>1. tables' = [tables EXCEPT !.news = Inserted(@, found, fetch.op)]
    BY <1>2 DEF Store
  <2>. HIDE DEF found
  <2>2. /\ tables'.news = Inserted(tables.news, found, fetch.op)
        /\ tables'.fundamentals = tables.fundamentals /\ tables'.earnings = tables.earnings
    BY <1>1, <2>1 DEF TablesInv
  <2>3. \A u \in DOMAIN tables.news : u \in DOMAIN tables'.news /\ tables'.news[u] = tables.news[u]
    BY <2>2 DEF Inserted
  <2>. QED BY <2>2, <2>3 DEF StoredStays
<1>3. CASE ~IsListing(fetch.op)
  <2>1. tables' = [tables EXCEPT ![fetch.op] = Upserted(@, found)]
    BY <1>3 DEF Store
  <2>. HIDE DEF found
  <2>2. fetch.op \in {"fundamentals", "earnings"}
    BY <1>1, <1>3, ProviderCallsAssumption DEF IsListing
  <2>3. /\ tables'.news = tables.news
        /\ \A t \in {"fundamentals", "earnings"} :
             tables'[t] = IF t = fetch.op THEN Upserted(tables[t], found) ELSE tables[t]
    BY <1>1, <2>1, <2>2 DEF TablesInv
  <2>4. ASSUME NEW table, NEW key \in DOMAIN table
        PROVE  /\ key \in DOMAIN Upserted(table, found)
               /\ key[2] # time => Upserted(table, found)[key] = table[key]
    <3>1. key[2] # time => {i \in DOMAIN found : <<found[i].target, time>> = key} = {}
      OBVIOUS
    <3>. QED BY <3>1 DEF Upserted
  <2>. QED BY <2>3, <2>4 DEF StoredStays
<1>. QED BY <1>2, <1>3

\* An ingestion returns each fresh row of the answers it could read, and what is
\* stored stays: a news row is not rewritten by a later copy, a statement fetched
\* today leaves other days alone (ingest_disclosures and its three siblings).
THEOREM IngestionAlwaysKeeps == ProvSpec => IngestionKeepsWhatItGot
<1>1. IngestInv => GoodAnswersAreKept
  <2>. SUFFICES ASSUME IngestInv, fetch.pc = "store", IsListing(fetch.op), SameDayCopies(fetch),
                       Len(FetchResult(fetch)) < fetch.limit
                PROVE  {r.url : r \in {q \in RowsOf(fetch) : q.day >= fetch.since}}
                         = {FetchResult(fetch)[i].url : i \in DOMAIN FetchResult(fetch)}
    BY DEF GoodAnswersAreKept
  <2>1. ListingHolds(fetch) /\ fetch.op \in {"news", "disclosures"}
    BY DEF IngestInv, ListingInv, IsListing
  <2>. QED BY <2>1, RoomKeepsAll
<1>2. IngestInv /\ [ProvNext]_provVars => [StoredStays]_tables
  <2>. SUFFICES ASSUME IngestInv, [ProvNext]_provVars, tables' # tables PROVE StoredStays
    OBVIOUS
  <2>1. Store
    BY DEF ProvNext, provVars, BeginFetch, FastFail, Admit, Ask, ResetMonitor, PassTime
  <2>. QED BY <2>1, StoreKeeps
<1>. QED BY <1>1, <1>2, IngestInvInit, IngestInvNext, PTL DEF ProvSpec, IngestionKeepsWhatItGot

\* A request goes out at most once more than its operation is tried again,
\* whatever the number of retries.
WithinTries == wire.pc # "idle" => wire.op # "-" /\ wire.tries \in 1 .. Retries(wire.op) + 1
WireShapeInv == WireTypeInv /\ WithinTries /\ placed <= wireCalls

LEMMA AnswerShape ==
  ASSUME WireShapeInv, Sent, NEW reply, NEW answer \in WireAnswers, Answered(reply, answer)
  PROVE  /\ wire' \in Wires /\ wire'.ref = wire.ref /\ wire'.tries > 0
         /\ wire'.op = wire.op /\ wire'.op # "-"
         /\ wire'.tries \in 1 .. Retries(wire'.op) + 1
<1>1. /\ wire' \in Wires /\ wire'.op = wire.op /\ wire'.ref = wire.ref /\ wire'.tries > 0
  BY AnsweredTurns DEF WireShapeInv
<1>2. wire.op # "-" /\ wire.tries \in 1 .. Retries(wire.op) + 1 /\ Retries(wire.op) \in Nat
  BY KisTransportAssumption DEF WireShapeInv, WireTypeInv, WithinTries, Sent, Wires, Retries
<1>3. wire'.tries = wire.tries \/ (wire.tries <= Retries(wire.op) /\ wire'.tries = wire.tries + 1)
  BY DEF Answered, WireShapeInv, WireTypeInv, Wires
<1>. HIDE DEF Retries
<1>. QED BY <1>1, <1>2, <1>3

\* The orders of KIS keep their shape under every step.
LEMMA ExchangeShape ==
  ASSUME WireTypeInv, WireNext
  PROVE  exchange' \in Seq(ExchangeRows) /\ Len(exchange') \in Nat /\ Len(exchange) <= Len(exchange')
<1>1. exchange \in Seq(ExchangeRows) /\ \A i \in DOMAIN exchange : exchange[i] \in ExchangeRows
  BY DEF WireTypeInv
<1>2. CASE exchange' = exchange
  BY <1>1, <1>2
<1>3. CASE exchange' = Accepted
  BY <1>1, <1>3, KisTransportAssumption DEF Accepted, ExchangeRows
<1>4. ASSUME NEW i \in DOMAIN exchange, NEW row \in ExchangeRows, exchange' = [exchange EXCEPT ![i] = row]
      PROVE  exchange' \in Seq(ExchangeRows) /\ Len(exchange') = Len(exchange)
  BY <1>1, <1>4
<1>5. ASSUME NEW i \in DOMAIN exchange, NEW f \in {"rejected", "canceled"},
             exchange' = [exchange EXCEPT ![i].flag = f]
      PROVE  exchange' \in Seq(ExchangeRows) /\ Len(exchange') = Len(exchange)
  <2>1. [exchange[i] EXCEPT !.flag = f] \in ExchangeRows
    BY <1>1 DEF ExchangeRows
  <2>. QED BY <1>5, <2>1, <1>4
<1>6. ASSUME NEW i \in DOMAIN exchange, exchange[i].filled < Ordered,
             exchange' = [exchange EXCEPT ![i].filled = @ + 1]
      PROVE  exchange' \in Seq(ExchangeRows) /\ Len(exchange') = Len(exchange)
  <2>1. [exchange[i] EXCEPT !.filled = @ + 1] \in ExchangeRows
    <3>1. exchange[i] \in ExchangeRows
      BY <1>1
    <3>2. exchange[i].filled + 1 \in 0 .. Ordered
      BY <1>6, <3>1, KisTransportAssumption DEF ExchangeRows
    <3>. QED BY <3>1, <3>2 DEF ExchangeRows
  <2>. QED BY <1>6, <2>1, <1>4
<1>7. Len(exchange) \in Nat
  BY <1>1
<1>8. \/ exchange' = exchange \/ exchange' = Accepted
      \/ \E i \in DOMAIN exchange, f \in {"rejected", "canceled"} : exchange' = [exchange EXCEPT ![i].flag = f]
      \/ \E i \in DOMAIN exchange : /\ exchange[i].filled < Ordered
                                    /\ exchange' = [exchange EXCEPT ![i].filled = @ + 1]
  BY DEF WireNext, Call, Place, Cancel, Cancelable, Query, MarketMoves
<1>. QED BY <1>2, <1>3, <1>5, <1>6, <1>7, <1>8

LEMMA WireShapeNext == WireShapeInv /\ [WireNext]_wireVars => WireShapeInv'
<1>. SUFFICES ASSUME WireShapeInv, [WireNext]_wireVars PROVE WireShapeInv'
  OBVIOUS
<1>1. CASE UNCHANGED wireVars
  BY <1>1 DEF wireVars, WireShapeInv, WireTypeInv, WithinTries
<1>2. CASE WireNext
  <2>. USE <1>2
  <2>1. /\ exchange' \in Seq(ExchangeRows) /\ Len(exchange') \in Nat /\ Len(exchange) \in Nat
        /\ Len(exchange) <= Len(exchange') /\ placed \in Nat /\ wireCalls \in Nat
        /\ placed <= wireCalls /\ wire.ref \in 0 .. Len(exchange)
    BY ExchangeShape DEF WireShapeInv, WireTypeInv
  <2>2. ASSUME NEW op \in {"place", "query", "cancel"}, NEW ref \in 0 .. Len(exchange), Call(op, ref)
        PROVE  WireShapeInv'
    <3>. DEFINE known == IF ref \in DOMAIN exchange THEN exchange[ref].filled ELSE 0
    <3>1. wire' = [pc |-> "sent", op |-> op, ref |-> ref, tries |-> 1, before |-> Len(exchange),
                   was |-> known, answer |-> NoAnswer]
      BY <2>2 DEF Call, NoWire
    <3>2. known \in Nat /\ NoAnswer \in WireAnswers
      <4>1. exchange \in Seq(ExchangeRows)
        BY DEF WireShapeInv, WireTypeInv
      <4>2. ref \in DOMAIN exchange => exchange[ref] \in ExchangeRows
        BY <4>1
      <4>. QED BY <4>2, KisTransportAssumption DEF NoAnswer, WireAnswers, Classes, ExchangeRows
    <3>3. placed' \in Nat /\ wireCalls' \in Nat /\ placed' <= wireCalls'
      BY <2>1, <2>2 DEF Call
    <3>4. Retries(op) \in Nat
      BY KisTransportAssumption DEF Retries
    <3>. HIDE DEF known
    <3>5. wire' \in Wires /\ wire'.pc = "sent" /\ wire'.op = op /\ wire'.ref = ref /\ wire'.tries = 1
      BY <2>1, <3>1, <3>2 DEF Wires
    <3>. QED BY <2>1, <2>2, <3>3, <3>4, <3>5 DEF WireShapeInv, WireTypeInv, WithinTries, Retries
  <2>3. ASSUME NEW reply \in Replies, NEW answer \in WireAnswers, Sent, Answered(reply, answer),
               UNCHANGED <<placed, wireCalls>>
        PROVE  WireShapeInv'
    <3>1. /\ wire' \in Wires /\ wire'.ref = wire.ref /\ wire'.tries > 0
          /\ wire'.op = wire.op /\ wire'.op # "-"
          /\ wire'.tries \in 1 .. Retries(wire'.op) + 1
      BY <2>3, AnswerShape
    <3>. QED BY <2>1, <2>3, <3>1 DEF WireShapeInv, WireTypeInv, WithinTries
  <2>4. ASSUME NEW reply \in Replies, Place(reply) PROVE WireShapeInv'
    <3>1. PICK known \in BOOLEAN :
            Answered(reply, PlaceAnswer(reply, IF known THEN Len(exchange) + 1 ELSE 0))
      BY <2>4 DEF Place
    <3>2. (IF known THEN Len(exchange) + 1 ELSE 0) \in Nat
      BY <2>1
    <3>3. Sent /\ UNCHANGED <<placed, wireCalls>>
      BY <2>4 DEF Place, Sent
    <3>. QED BY <2>3, <3>1, <3>2, <3>3, AnswersTyped
  <2>5. ASSUME NEW reply \in Replies, Cancel(reply) PROVE WireShapeInv'
    BY <2>3, <2>5, AnswersTyped DEF Cancel, Sent
  <2>6. ASSUME NEW reply \in Replies, Query(reply) PROVE WireShapeInv'
    <3>1. PICK rows \in ShownRows(wire.ref) : Answered(reply, FillAnswer(reply, rows))
      BY <2>6 DEF Query
    <3>2. FillAnswer(reply, rows) \in WireAnswers
      BY FillTyped DEF WireShapeInv
    <3>3. Sent /\ UNCHANGED <<placed, wireCalls>>
      BY <2>6 DEF Query, Sent
    <3>. QED BY <2>3, <3>1, <3>2, <3>3
  <2>7. ASSUME NEW i \in DOMAIN exchange, MarketMoves(i) PROVE WireShapeInv'
    <3>1. UNCHANGED <<wire, placed, wireCalls>>
      BY <2>7 DEF MarketMoves
    <3>. QED BY <2>1, <3>1 DEF WireShapeInv, WireTypeInv, WithinTries
  <2>. QED BY <2>1, <2>2, <2>4, <2>5, <2>6, <2>7 DEF WireNext
<1>. QED BY <1>1, <1>2

\* The orders at KIS and the call in progress keep their shape, and no request
\* goes out more often than its operation's retries allow; with any number of them.
THEOREM WireShape == WireSpec => []WireTypeOK
<1>1. WireInit => WireShapeInv
  BY WireInvInit DEF WireInit, NoWire, WireInv, WireShapeInv, WithinTries
<1>2. WireShapeInv => WireTypeOK
  <2>. SUFFICES ASSUME WireShapeInv PROVE WireTypeOK
    OBVIOUS
  <2>1. \A i \in DOMAIN exchange : exchange[i] \in ExchangeRows
    BY DEF WireShapeInv, WireTypeInv
  <2>. QED BY <2>1 DEF WireShapeInv, WireTypeInv, WithinTries, WireTypeOK, Wires, ExchangeRows
<1>. QED BY <1>1, <1>2, WireShapeNext, PTL DEF WireSpec

----
\* The retry loop stays below MaxAttempts, and time within its bound.
AttemptsInv == fetch.attempt \in 0 .. MaxAttempts /\ time \in 0 .. MaxNow

LEMMA AttemptsInvNext == HealthInv /\ AttemptsInv /\ [ProvNext]_provVars => AttemptsInv'
<1>. SUFFICES ASSUME HealthInv, AttemptsInv, [ProvNext]_provVars PROVE AttemptsInv'
  OBVIOUS
<1>1. /\ MaxAttempts \in Nat \ {0} /\ MaxNow \in Nat /\ DOMAIN fetch = DOMAIN NoWork
      /\ fetch.attempt \in 0 .. MaxAttempts /\ time \in 0 .. MaxNow
  BY ProviderCallsAssumption DEF HealthInv, ProvTypeInv, AttemptsInv
<1>2. CASE UNCHANGED provVars
  BY <1>2 DEF provVars, AttemptsInv
<1>3. ASSUME NEW op, NEW since, NEW limit, BeginFetch(op, since, limit) PROVE AttemptsInv'
  BY <1>1, <1>3 DEF BeginFetch, NoWork, AttemptsInv
<1>4. CASE FastFail
  BY <1>1, <1>4 DEF FastFail, NoWork, AttemptsInv
<1>5. CASE Admit
  BY <1>1, <1>5 DEF Admit, NoWork, AttemptsInv
<1>6. ASSUME NEW answer, Ask(answer) PROVE AttemptsInv'
  <2>1. CASE Retryable(answer)
    BY <1>1, <1>6, <2>1 DEF Ask, Retryable, NoWork, AttemptsInv
  <2>2. CASE ~Retryable(answer)
    <3>. DEFINE out == Gathered(fetch, answer)
                good == IF answer.readable THEN fetch.good \cup {<<Head(fetch.todo), answer.payload>>}
                        ELSE fetch.good
                failed == IF answer.readable THEN fetch.failed ELSE fetch.failed + 1
    <3>1. fetch' = [fetch EXCEPT !.out = out, !.todo = Tail(@), !.pc = Done(fetch, out),
                                 !.good = good, !.failed = failed]
          /\ time' = time
      BY <1>6, <2>2 DEF Ask
    <3>. HIDE DEF out, good, failed
    <3>2. fetch'.attempt = fetch.attempt
      BY <1>1, <3>1 DEF NoWork
    <3>. QED BY <1>1, <3>1, <3>2 DEF AttemptsInv
  <2>. QED BY <2>1, <2>2
<1>7. CASE Store
  BY <1>1, <1>7 DEF Store, NoWork, AttemptsInv
<1>8. ASSUME NEW p, ResetMonitor(p) PROVE AttemptsInv'
  BY <1>8 DEF ResetMonitor, AttemptsInv
<1>9. CASE PassTime
  BY <1>1, <1>9 DEF PassTime, AttemptsInv
<1>. QED BY <1>2, <1>3, <1>4, <1>5, <1>6, <1>7, <1>8, <1>9 DEF ProvNext

\* Breakers, ring buffers and the fetch in progress keep their shape: no buffer
\* exceeds its cap, and a request is asked at most MaxAttempts times.
THEOREM ProviderShape == ProvSpec => []ProvTypeOK
<1>1. ProvInit => HealthInv /\ AttemptsInv
  BY HealthInvInit, ProviderCallsAssumption DEF ProvInit, NoWork, AttemptsInv
<1>2. HealthInv /\ AttemptsInv => ProvTypeOK
  <2>. SUFFICES ASSUME HealthInv, AttemptsInv PROVE ProvTypeOK
    OBVIOUS
  <2>1. ASSUME NEW buffer, NEW calls \in Seq(Remembered), NEW S \in SUBSET DOMAIN calls,
               NEW cap \in Nat, KeepsNewest(buffer, calls, S, cap)
        PROVE  Len(buffer) <= cap
    <3>1. Cardinality(S) \in Nat /\ Len(buffer) = Min({cap, Cardinality(S)})
      BY <2>1, Indexes DEF KeepsNewest
    <3>. QED BY <3>1, MinOfTwo
  <2>2. ASSUME NEW p \in Providers
        PROVE  Len(stats[p].recent) <= CallCap /\ Len(stats[p].failures) <= FailCap
    <3>1. Digests(stats[p], log[p]) /\ log[p] \in Seq(Remembered)
      BY DEF HealthInv, Healthy, ProvTypeInv
    <3>2. Failed(log[p]) \in SUBSET DOMAIN log[p]
      BY DEF Failed
    <3>. QED BY <2>1, <3>1, <3>2, ProviderCallsAssumption DEF Digests
  <2>3. \A p \in Providers : breaker[p] \in Breakers
    BY DEF HealthInv, ProvTypeInv
  <2>. QED BY <2>2, <2>3 DEF HealthInv, ProvTypeInv, AttemptsInv, ProvTypeOK, Breakers
<1>. QED BY <1>1, <1>2, HealthInvNext, AttemptsInvNext, PTL DEF ProvSpec

----
(***************************************************************************)
(* The parts that serve requests, side by side.                            *)
(***************************************************************************)
\* Whatever the paper broker, the login guard, the watchlists, the providers and
\* the transport to the broker do, and in whatever order, each keeps the shape of
\* its rows, counters and buffers.
THEOREM ServicesKeepTheirShape == ServicesSpec => []ServicesTypeOK
<1>1. TypeOK /\ LoginTypeOK /\ WatchTypeOK /\ ProvTypeOK /\ WireTypeOK => ServicesTypeOK
  BY DEF ServicesTypeOK
<1>. QED
  BY <1>1, TypeCorrect, LoginShape, WatchShape, ProviderShape, WireShape, PTL DEF ServicesSpec
====
