----------------------------- MODULE NativeBook -----------------------------
(***************************************************************************)
(* The book of the committee-run market, round by round.  The market       *)
(* runtime keeps the commitments and remaining quantities of the resting   *)
(* orders in arrival order; the nodes keep their secret-shared fields and  *)
(* remaining reservations in the same slots.  A round runs the matching    *)
(* circuit on all slots and the arriving order and rebuilds both.          *)
(***************************************************************************)
EXTENDS MatchCircuit

CONSTANTS
    MaxMatchSlots,  \* MAX_MATCH_SLOTS
    WireBits,       \* the circuit decomposes proof wires into this many bits
    Prices, MaxQuantity,
    MaxRounds       \* bound: rounds in a behaviour

VARIABLES
    book,      \* resting orders in slot order
    sequence,  \* rounds completed
    command,   \* the order that arrived last
    levels,    \* the public depth published for the last round
    wires      \* the settlement proof wires of the last round, per slot

vars == <<book, sequence, command, levels, wires>>

\* SecretOrder::new_with_controls and the edge only let an order through whose
\* reservation covers its worst fill and fits the circuit; this is the tightest.
RequiredReserve(side, price, quantity) ==
    IF side = "buy" THEN price * quantity ELSE quantity

Init ==
    /\ book = <<>>
    /\ sequence = 0
    /\ command = [none |-> {}]
    /\ levels = <<>>
    /\ wires = <<>>

\* Slots with nothing left are dropped; the others keep their order.
NextBook(after) == SelectSeq(after, LAMBDA slot : slot.quantity > 0)

\* pump, from the plan to the done record: a book larger than the circuit
\* stops the market, and what remains of the arriving order takes the last
\* place.
Round(o) ==
    LET result == CircuitResult(book, o)
        after == BookWires(book, o)
    IN  /\ Len(book) <= MaxMatchSlots
        /\ o.reserve < 2^WireBits
        /\ book' = NextBook(after)
        /\ sequence' = sequence + 1
        /\ command' = [submit |-> o]
        /\ levels' = result.public_levels
        /\ wires' = [i \in DOMAIN book |-> ProofWires(book, result.slots, o, i)]

Arriving(side, price, quantity, can_rest) ==
    [id |-> sequence + 1, side |-> side, price |-> price, quantity |-> quantity,
     can_rest |-> can_rest, reserve |-> RequiredReserve(side, price, quantity)]

Next ==
    \E side \in {"buy", "sell"}, price \in Prices, quantity \in 1 .. MaxQuantity,
       can_rest \in BOOLEAN :
        /\ sequence < MaxRounds
        /\ Round(Arriving(side, price, quantity, can_rest))

Spec == Init /\ [][Next]_vars

-----------------------------------------------------------------------------
(* Properties *)

\* The book as OrderBook sees it.
AsOrders(slots) ==
    {[id |-> slots[i].id, side |-> slots[i].side, price |-> slots[i].price,
      remaining |-> slots[i].quantity, expires_at |-> 0] : i \in DOMAIN slots}

AsCommand ==
    IF command = [none |-> {}] THEN command
    ELSE LET o == command.submit IN
         [submit |-> [id |-> o.id, side |-> o.side, price |-> o.price,
                      quantity |-> o.quantity, can_rest |-> o.can_rest, expires_at |-> 0]]

Abstract == INSTANCE OrderBook
    WITH book <- AsOrders(book), command <- AsCommand, Expiries <- {0}, now <- 0

\* The oblivious circuit and pump's slot bookkeeping together implement a
\* price-time priority book: for every sequence of orders the fills, what
\* remains and what comes to rest are the ones OrderBook calls right.
ImplementsOrderBook == Abstract!BookSpec

\* A fill can always be settled. What a resting order still has reserved covers
\* its worst fill, however many partial fills, at whatever better prices and in
\* whatever slot order, consumed it before; and each value that the circuit
\* splits into bits for the settlement proof is in the range of its bits, so no
\* remainder goes below zero part of the way through the slots.
FillsProvable ==
    /\ \A i \in DOMAIN book :
        book[i].reserve >= RequiredReserve(book[i].side, book[i].price, book[i].quantity)
    /\ \A i \in DOMAIN wires : \A field \in DOMAIN wires[i] :
        wires[i][field] \in 0 .. 2^WireBits - 1

\* The depth revealed by a round is exactly the book that the round leaves:
\* one level per side and price with resting orders, with their total, bids
\* before asks and best price first.
DepthIsBook ==
    /\ {[side |-> levels[k].side, price |-> levels[k].price, quantity |-> levels[k].quantity] :
            k \in DOMAIN levels}
         = {[side |-> book[i].side, price |-> book[i].price,
             quantity |-> MapThenSumSet(LAMBDA j : book[j].quantity,
                            {j \in DOMAIN book : SameLevel(book[i], book[j])})] :
            i \in DOMAIN book}
    /\ \A k \in 1 .. Len(levels) - 1 :
          LET v == levels[k]
              w == levels[k + 1]
          IN  \/ v.side = "buy" /\ w.side = "sell"
              \/ v.side = w.side /\ v.side = "buy" /\ v.price > w.price
              \/ v.side = w.side /\ v.side = "sell" /\ v.price < w.price
=============================================================================
