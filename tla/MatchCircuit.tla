---------------------------- MODULE MatchCircuit ----------------------------
(***************************************************************************)
(* The MP-SPDZ matching circuit that matching_program generates, as a      *)
(* function of the values that are secret-shared into it.  The circuit is  *)
(* oblivious: it computes the same wires for every slot whatever the       *)
(* values are, so price-time priority is a sum over all other slots, not a *)
(* loop that stops.  A slot that no resting order occupies has active = 0  *)
(* and yields zeros; it is left out.  Blindings carry no value.            *)
(*                                                                         *)
(* A slot is a record with id (the handle wire), side, price, quantity and *)
(* reserve; the arriving order also has can_rest.                          *)
(***************************************************************************)
EXTENDS Integers, Sequences, FiniteSetsExt

\* price_cross: arriving_side.if_else(resting >= arriving, arriving >= resting).
PriceCross(slot, arriving) ==
    IF arriving.side = "sell" THEN slot.price >= arriving.price
                              ELSE arriving.price >= slot.price

Eligible(slots, arriving, i) ==
    /\ slots[i].side # arriving.side
    /\ PriceCross(slots[i], arriving)
    /\ slots[i].quantity > 0

\* Mutant: at equal prices the later slot is served first.
BetterLate(slots, arriving, i, j) ==
    \/ IF arriving.side = "sell" THEN slots[j].price > slots[i].price
                                 ELSE slots[j].price < slots[i].price
    \/ slots[j].price = slots[i].price /\ j > i

\* better_{i}_{j}: slot j is served before slot i.
Better(slots, arriving, i, j) ==
    \/ IF arriving.side = "sell" THEN slots[j].price > slots[i].price
                                 ELSE slots[j].price < slots[i].price
    \/ slots[j].price = slots[i].price /\ j < i

HigherQuantity(slots, arriving, i) ==
    MapThenSumSet(LAMBDA j : slots[j].quantity,
        {j \in DOMAIN slots \ {i} :
            Eligible(slots, arriving, j) /\ Better(slots, arriving, i, j)})

Available(slots, arriving, i) ==
    Max({0, arriving.quantity - HigherQuantity(slots, arriving, i)})

\* matched, trade_price and trade_quantity of one slot.
SlotResult(slots, arriving, i) ==
    LET available == Available(slots, arriving, i)
        matched == Eligible(slots, arriving, i) /\ available > 0
    IN  [matched |-> matched,
         trade_price |-> IF matched THEN slots[i].price ELSE 0,
         trade_quantity |-> IF matched THEN Min({slots[i].quantity, available}) ELSE 0]

SlotResults(slots, arriving) ==
    [i \in DOMAIN slots |-> SlotResult(slots, arriving, i)]

Traded(results) ==
    MapThenSumSet(LAMBDA i : results[i].trade_quantity, DOMAIN results)

\* Mutant: an immediate-or-cancel order publishes what is left of it.
PublishedRemainingAlways(results, arriving) == arriving.quantity - Traded(results)

\* published_remaining: an order that may not rest has nothing left.
PublishedRemaining(results, arriving) ==
    IF arriving.can_rest THEN arriving.quantity - Traded(results) ELSE 0

Cash(result) == result.trade_quantity * result.trade_price

\* Mutant: sellers deliver cash and buyers securities.
DeliverySwapped(side, result) ==
    IF side = "sell" THEN Cash(result) ELSE result.trade_quantity

\* What a party delivers out of its reservation for one slot: a seller
\* securities, a buyer cash.
Delivery(side, result) ==
    IF side = "sell" THEN result.trade_quantity ELSE Cash(result)

\* arriving_reserve_remaining when the circuit has reached slot i. Deliveries
\* are taken in slot order, whatever the priority of the slots was.
ArrivingReserve(results, arriving, i) ==
    arriving.reserve -
        MapThenSumSet(LAMBDA j : Delivery(arriving.side, results[j]), 1 .. i - 1)

MakerPoolRemainder(slots, results, i) ==
    slots[i].reserve - Delivery(slots[i].side, results[i])

\* The values of one slot that the settlement proof decomposes into 32 bits.
ProofWires(slots, results, arriving, i) ==
    LET own == ArrivingReserve(results, arriving, i)
        theirs == slots[i].reserve
        matched == results[i].matched
        price == results[i].trade_price
    IN  [trade_quantity |-> results[i].trade_quantity,
         trade_price |-> price,
         limit_difference |->
            IF ~matched THEN 0
            ELSE IF arriving.side = "sell" THEN price - arriving.price
                                           ELSE arriving.price - price,
         securities_remainder |->
            (IF arriving.side = "sell" THEN own ELSE theirs) - results[i].trade_quantity,
         cash_remainder |->
            (IF arriving.side = "sell" THEN theirs ELSE own) - Cash(results[i]),
         maker_pool_remainder |-> MakerPoolRemainder(slots, results, i)]

\* private_book_wires: every slot stays in place with what is left of it, and
\* the arriving order follows. A slot is active while its quantity is positive.
BookWires(slots, arriving) ==
    LET results == SlotResults(slots, arriving)
    IN  [i \in DOMAIN slots |->
            [slots[i] EXCEPT !.quantity = @ - results[i].trade_quantity,
                             !.reserve = MakerPoolRemainder(slots, results, i)]]
        \o <<[id |-> arriving.id, side |-> arriving.side, price |-> arriving.price,
              quantity |-> PublishedRemaining(results, arriving),
              reserve |-> ArrivingReserve(results, arriving, Len(slots) + 1)]>>

-----------------------------------------------------------------------------
(* Public depth *)

SameLevel(v, w) == v.side = w.side /\ v.price = w.price

\* Mutant: a level shows only its first order.
DepthQuantityFirst(wires, i) == wires[i].quantity

\* depth_quantity: all active orders at the level of wire i.
DepthQuantity(wires, i) ==
    MapThenSumSet(LAMBDA j : wires[j].quantity,
        {j \in DOMAIN wires : wires[j].quantity > 0 /\ SameLevel(wires[i], wires[j])})

\* depth_first: wire i is the first active one at its level.
DepthFirst(wires, i) ==
    /\ wires[i].quantity > 0
    /\ \A j \in 1 .. i - 1 : ~(wires[j].quantity > 0 /\ SameLevel(wires[i], wires[j]))

\* The sort key orders bids by falling price, then asks by rising price.
DepthOrder(v, w) ==
    \/ v.side = "buy" /\ w.side = "sell"
    \/ v.side = w.side /\ (IF v.side = "sell" THEN v.price < w.price ELSE v.price > w.price)

\* The levels in the order of their sort keys.
PublicLevels(wires) ==
    LET levels == {[side |-> wires[i].side, price |-> wires[i].price,
                    quantity |-> DepthQuantity(wires, i)] :
                        i \in {j \in DOMAIN wires : DepthFirst(wires, j)}}
    IN  [k \in 1 .. Cardinality(levels) |->
            CHOOSE v \in levels : Cardinality({w \in levels : DepthOrder(w, v)}) = k - 1]

\* OCLOB_SLOT_*, OCLOB_ARRIVING_REMAINING and OCLOB_LEVEL_*: all that is revealed.
CircuitResult(slots, arriving) ==
    LET results == SlotResults(slots, arriving)
    IN  [slots |-> results,
         arriving_remaining |-> PublishedRemaining(results, arriving),
         public_levels |-> PublicLevels(BookWires(slots, arriving))]
=============================================================================
