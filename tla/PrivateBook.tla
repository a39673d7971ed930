---------------------------- MODULE PrivateBook ----------------------------
(***************************************************************************)
(* The service's confidential book: oclob-core's PrivateBook, driven by    *)
(* the service with the circuit's results.  Unlike the committee's book it *)
(* has price queues, hands the circuit only the best MAX_MATCH_SLOTS       *)
(* opposite orders, expires orders and accepts cancellations.  The book    *)
(* does not rely on the service to expire orders first: it skips what has  *)
(* expired.  A commitment binds every field of an order and a salt; here   *)
(* it is the order itself.                                                 *)
(***************************************************************************)
EXTENDS MatchCircuit, SequencesExt

CONSTANTS
    MaxMatchSlots,
    Prices, MaxQuantity, Expiries,
    Orders,       \* the orders of an instance; equal ones differ in their salt
    MaxCommands,  \* bound: commands in a behaviour
    MaxTime       \* bound: the clock

VARIABLES
    bids, asks,  \* one queue of resting orders per price
    sequence,
    admitted,    \* the commitments of all orders processed
    command,     \* the last command
    now

vars == <<bids, asks, sequence, admitted, command, now>>

Order ==
    [salt : 1 .. 2, side : {"buy", "sell"}, price : Prices, quantity : 1 .. MaxQuantity,
     can_rest : BOOLEAN, expires_at : Expiries]

ASSUME OrdersAssumption == Orders \subseteq Order

Init ==
    /\ bids = [p \in Prices |-> <<>>]
    /\ asks = [p \in Prices |-> <<>>]
    /\ sequence = 0
    /\ admitted = {}
    /\ command = [none |-> {}]
    /\ now = 0

\* A BTreeMap iterates from the lowest price, reversed from the highest.
InPriceOrder(queues, ascending) ==
    LET sorted == SetToSortSeq(Prices, LAMBDA p, q : IF ascending THEN p < q ELSE p > q)
    IN  FlattenSeq([k \in DOMAIN sorted |-> queues[sorted[k]]])

\* Mutant: expired orders still trade.
Opposite(o) ==
    IF o.side = "buy" THEN InPriceOrder(asks, TRUE)
                      ELSE InPriceOrder(bids, FALSE)

\* The unexpired orders opposite to o, in price-time priority.
LiveOpposite(o) ==
    LET ordered == IF o.side = "buy" THEN InPriceOrder(asks, TRUE)
                                     ELSE InPriceOrder(bids, FALSE)
    IN  SelectSeq(ordered, LAMBDA r : r.order.expires_at >= now)

Reserve(side, price, quantity) ==
    IF side = "buy" THEN price * quantity ELSE quantity

\* private_match_batch: what is secret-shared into the circuit, with the
\* reservation that compatibility_private_values fills in.
MatchBatch(o) ==
    LET live == LiveOpposite(o)
    IN  [i \in 1 .. Min({Len(live), MaxMatchSlots}) |->
            [id |-> live[i].order, side |-> live[i].order.side, price |-> live[i].order.price,
             quantity |-> live[i].remaining,
             reserve |-> Reserve(live[i].order.side, live[i].order.price, live[i].remaining)]]

ArrivingInput(o) ==
    [id |-> o, side |-> o.side, price |-> o.price, quantity |-> o.quantity,
     can_rest |-> o.can_rest, reserve |-> Reserve(o.side, o.price, o.quantity)]

CrossesLimit(o, price) ==
    IF o.side = "buy" THEN o.price >= price ELSE o.price <= price

\* Mutant: the service does not refuse a sweep larger than the circuit.
NeverExceedsCapacity(o) == FALSE

\* exceeds_fixed_match_capacity: the first MaxMatchSlots crossing orders do
\* not fill o and there is another one.
ExceedsMatchCapacity(o) ==
    LET crossing == SelectSeq(LiveOpposite(o), LAMBDA r : CrossesLimit(o, r.order.price))
    IN  /\ Len(crossing) > MaxMatchSlots
        /\ MapThenSumSet(LAMBDA i : crossing[i].remaining, 1 .. MaxMatchSlots) < o.quantity

-----------------------------------------------------------------------------
(* expected_batch: the reference that every circuit result is compared to *)

\* One turn of the loop over the slots.
FillSlot(o, done, slot) ==
    LET crossed == /\ slot.side # o.side
                   /\ CrossesLimit(o, slot.price)
                   /\ done.left > 0
                   /\ slot.quantity > 0
        quantity == IF crossed THEN Min({done.left, slot.quantity}) ELSE 0
    IN  [left |-> done.left - quantity,
         slots |-> Append(done.slots,
                     [matched |-> crossed,
                      trade_price |-> IF crossed THEN slot.price ELSE 0,
                      trade_quantity |-> quantity])]

\* The BTreeMap of side and price to total quantity, sorted for publication.
ExpectedLevels(batch, slots, o, remaining) ==
    LET left == [i \in DOMAIN batch |-> batch[i].quantity - slots[i].trade_quantity]
        total(side, price) ==
            MapThenSumSet(LAMBDA i : left[i],
                {i \in DOMAIN batch : batch[i].side = side /\ batch[i].price = price})
            + IF o.side = side /\ o.price = price THEN remaining ELSE 0
        levels == {[side |-> side, price |-> price, quantity |-> total(side, price)] :
                      side \in {"buy", "sell"}, price \in Prices}
    IN  SetToSortSeq({v \in levels : v.quantity > 0},
            LAMBDA v, w :
                \/ v.side = "buy" /\ w.side = "sell"
                \/ v.side = "buy" /\ w.side = "buy" /\ v.price > w.price
                \/ v.side = "sell" /\ w.side = "sell" /\ v.price < w.price)

ExpectedBatch(batch, o) ==
    LET filled == FoldLeft(LAMBDA done, slot : FillSlot(o, done, slot),
                           [left |-> o.quantity, slots |-> <<>>], batch)
        remaining == IF o.can_rest THEN filled.left ELSE 0
    IN  [slots |-> filled.slots,
         arriving_remaining |-> remaining,
         public_levels |-> ExpectedLevels(batch, filled.slots, o, remaining)]

-----------------------------------------------------------------------------
(* Commands *)

\* update_remainder for each matched slot: the remainder stays in its place,
\* an order with nothing left leaves its queue.
Updated(queue, batch, slots) ==
    LET spent(r) ==
            MapThenSumSet(LAMBDA i : slots[i].trade_quantity,
                          {i \in DOMAIN batch : batch[i].id = r.order})
    IN  SelectSeq([k \in DOMAIN queue |-> [queue[k] EXCEPT !.remaining = @ - spent(queue[k])]],
                  LAMBDA r : r.remaining > 0)

\* insert_record: what remains of a good-til-cancelled order goes to the end
\* of the queue of its price.
Inserted(queues, o, remaining) ==
    IF o.can_rest /\ remaining > 0
    THEN [queues EXCEPT ![o.price] =
            Append(@, [order |-> o, remaining |-> remaining, sequence |-> sequence + 1])]
    ELSE queues

\* OrderAuthority::verify and check_admission.
Admissible(o) ==
    /\ now <= o.expires_at
    /\ o \notin admitted

\* stage_with_assurance up to apply_mpc_batch_result, on the staged clone of
\* the book that replaces the live one.
Submit(o) ==
    LET batch == MatchBatch(o)
        result == CircuitResult(batch, ArrivingInput(o))
        updatedBids == [p \in Prices |-> Updated(bids[p], batch, result.slots)]
        updatedAsks == [p \in Prices |-> Updated(asks[p], batch, result.slots)]
    IN  /\ Admissible(o)
        /\ ~ExceedsMatchCapacity(o)
        /\ result = ExpectedBatch(batch, o)
        /\ bids' = IF o.side = "buy" THEN Inserted(updatedBids, o, result.arriving_remaining)
                                     ELSE updatedBids
        /\ asks' = IF o.side = "sell" THEN Inserted(updatedAsks, o, result.arriving_remaining)
                                      ELSE updatedAsks
        /\ sequence' = sequence + 1
        /\ admitted' = admitted \cup {o}
        /\ command' = [submit |-> o]
        /\ UNCHANGED now

\* remove_by_commitment.
Without(queues, orders) ==
    [p \in Prices |-> SelectSeq(queues[p], LAMBDA r : r.order \notin orders)]

Resting == UNION {ToSet(bids[p]) \cup ToSet(asks[p]) : p \in Prices}

Removed(orders) ==
    /\ bids' = Without(bids, orders)
    /\ asks' = Without(asks, orders)
    /\ sequence' = sequence + 1
    /\ command' = [remove |-> {r.sequence : r \in {q \in Resting : q.order \in orders}}]
    /\ UNCHANGED <<admitted, now>>

\* apply_cancellation by someone who knows the cancellation secret. The
\* command's own commitment is fresh, and is left out of admitted.
Cancel(r) ==
    /\ r \in Resting
    /\ Removed({r.order})

ExpiredOrders == {r.order : r \in {q \in Resting : q.order.expires_at < now}}

\* expire_due and apply_expiry.
Expire ==
    /\ ExpiredOrders # {}
    /\ Removed(ExpiredOrders)

Tick ==
    /\ now < MaxTime
    /\ now' = now + 1
    /\ UNCHANGED <<bids, asks, sequence, admitted, command>>

Next ==
    \/ /\ sequence < MaxCommands
       /\ \/ \E o \in Orders : Submit(o)
          \/ \E r \in Resting : Cancel(r)
          \/ Expire
    \/ Tick

Spec == Init /\ [][Next]_vars

-----------------------------------------------------------------------------
(* Properties *)

\* The book as OrderBook sees it.
RestingOrders ==
    {[id |-> r.sequence, side |-> r.order.side, price |-> r.order.price,
      remaining |-> r.remaining, expires_at |-> r.order.expires_at] : r \in Resting}

AsCommand ==
    IF command = [none |-> {}] \/ "remove" \in DOMAIN command THEN command
    ELSE LET o == command.submit IN
         [submit |-> [id |-> sequence, side |-> o.side, price |-> o.price,
                      quantity |-> o.quantity, can_rest |-> o.can_rest,
                      expires_at |-> o.expires_at]]

Abstract == INSTANCE OrderBook
    WITH book <- RestingOrders, command <- AsCommand

\* Matching through a circuit of fixed size, with price queues, expiry and
\* cancellation, implements the price-time priority book of OrderBook. It
\* would not if the batch left out an order that the arriving one reaches.
ImplementsOrderBook == Abstract!BookSpec

\* No live bid reaches a live ask: an order that may not match everything it
\* reaches is refused by exceeds_fixed_match_capacity instead of resting
\* across the book. Expired orders may lie across it until they are removed.
LiveBookNeverCrossed ==
    \A r, q \in Resting :
        /\ r.order.side = "buy" /\ q.order.side = "sell"
        /\ now <= r.order.expires_at /\ now <= q.order.expires_at
        => r.order.price < q.order.price

\* For every book that can arise and every order that can arrive next, the
\* circuit's parallel computation reveals exactly what the sequential
\* expected_batch computes, so no honest round ends in InvalidMpcResult.
ResultNeverRejected ==
    \A o \in Orders :
        CircuitResult(MatchBatch(o), ArrivingInput(o)) = ExpectedBatch(MatchBatch(o), o)

=============================================================================
