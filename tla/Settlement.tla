----------------------------- MODULE Settlement -----------------------------
(***************************************************************************)
(* The settlement engine of oclob-settlement: confidential balances of     *)
(* cash and securities, the pre-trade reservation book, the atomic         *)
(* settlement of one arriving order's fills, and what a prepared canonical *)
(* transition carries to the ledger.                                       *)
(*                                                                         *)
(* The module is a set of operators on an engine value; Exchange is the    *)
(* state machine that holds the engine.  An operator that the code lets    *)
(* fail gives the set of engines it may lead to: one, or none when it      *)
(* fails.  Callers work on a clone and drop it on an error, so the engine  *)
(* is never half changed.  Commitments, range proofs, zkPI                 *)
(* instructions and threshold signatures carry no value that is not in the *)
(* engine; the values inside the commitments are modelled, the commitments *)
(* are not.  An order's commitment and reservation id are the order        *)
(* itself.  validate_market_rules bounds max_fee by zero, so fees are left *)
(* out.                                                                    *)
(***************************************************************************)
EXTENDS Integers, Sequences, FiniteSetsExt

CONSTANTS
    Participants,       \* the settlement handles that have accounts
    InitialCash, InitialSecurities,
    MaxBalance,         \* 2^RANGE_BITS - 1: the range-proof domain
    ReservationHorizon, \* 3600 s: the furthest expiry a reservation is proved for
    BatchLifetime       \* 600 s: how long a prepared settlement may be submitted

NewEngine ==
    [cash |-> [p \in Participants |-> InitialCash],
     securities |-> [p \in Participants |-> InitialSecurities],
     entity |-> <<>>,
     capacity |-> <<>>,
     records |-> <<>>,
     height |-> 0]

\* BTreeMap::insert.
Put(map, key, value) == [k \in DOMAIN map \cup {key} |-> IF k = key THEN value ELSE map[k]]

-----------------------------------------------------------------------------
(* The reservation book *)

Kind(side) == IF side = "buy" THEN "cash" ELSE "securities"

\* The worst case a remainder may still have to pay or deliver.
Required(kind, price, quantity) ==
    IF kind = "cash" THEN price * quantity ELSE quantity

Limit(o) == Required(Kind(o.side), o.price, o.quantity)

Balances(e, p) == [cash |-> e.cash[p], securities |-> e.securities[p]]

CanBind(e, p, entity) ==
    \A q \in DOMAIN e.entity : q = p <=> e.entity[q] = entity

\* bind_eligible_participant: binds the handle and copies its balances into
\* the entity's capacity.
Bind(e, p, entity) ==
    [e EXCEPT !.entity = Put(@, p, entity),
              !.capacity = Put(@, entity, Balances(e, p))]

Active(e, entity, kind) ==
    {o \in DOMAIN e.records :
        /\ o.entity = entity
        /\ Kind(o.side) = kind
        /\ e.records[o].status = "active"}

InUse(e, entity, kind) ==
    SumFunctionOnSet([o \in Active(e, entity, kind) |-> e.records[o].remaining],
                     Active(e, entity, kind))

\* Mutant: the other active reservations are not counted.
CanReserveAlone(e, o) ==
    /\ o \notin DOMAIN e.records
    /\ Limit(o) <= e.capacity[o.entity][Kind(o.side)]

CanReserve(e, o) ==
    /\ o.participant \in DOMAIN e.entity
    /\ e.entity[o.participant] = o.entity
    /\ o \notin DOMAIN e.records
    /\ InUse(e, o.entity, Kind(o.side)) + Limit(o) <= e.capacity[o.entity][Kind(o.side)]

\* reserve_order. The value inside the reserve commitment is kept apart from
\* the remaining amount: the two are updated by different code.
Reserve(e, o) ==
    IF CanReserve(e, o)
    THEN {[e EXCEPT
            !.records = Put(@, o, [remaining_quantity |-> o.quantity, remaining |-> Limit(o),
                                   committed |-> Limit(o), status |-> "active"]),
            !.height = @ + 1]}
    ELSE {}

\* consume_record.
ConsumedRecord(o, r, spent, quantity) ==
    LET left == r.remaining_quantity - quantity IN
    [r EXCEPT !.remaining_quantity = left,
              !.remaining = Required(Kind(o.side), o.price, left),
              !.status = IF left = 0 THEN "consumed" ELSE "active"]

Spent(o, fill) == Required(Kind(o.side), fill.price, fill.quantity)

RespectsLimit(o, price) ==
    IF o.side = "buy" THEN price <= o.price ELSE price >= o.price

\* One side of consume_fill: the record is live, covers the fill and, after
\* it, still covers the remainder.
CoversFill(e, o, fill, now) ==
    /\ o \in DOMAIN e.records
    /\ o.expires_at >= now
    /\ RespectsLimit(o, fill.price)
    /\ e.records[o].status = "active"
    /\ fill.quantity <= e.records[o].remaining_quantity
    /\ e.records[o].remaining - Spent(o, fill)
          >= Required(Kind(o.side), o.price, e.records[o].remaining_quantity - fill.quantity)

CanConsumeFill(e, fill, now) ==
    /\ fill.maker.side # fill.taker.side
    /\ CoversFill(e, fill.maker, fill, now)
    /\ CoversFill(e, fill.taker, fill, now)

ConsumeFill(e, fill) ==
    LET consumed(o) == ConsumedRecord(o, e.records[o], Spent(o, fill), fill.quantity) IN
    [e EXCEPT !.records = [@ EXCEPT ![fill.maker] = consumed(fill.maker),
                                    ![fill.taker] = consumed(fill.taker)]]

CanRelease(e, o) ==
    /\ o \in DOMAIN e.records
    /\ e.records[o].status = "active"

ReleasedRecord(r) ==
    [r EXCEPT !.remaining = 0, !.remaining_quantity = 0, !.status = "released"]

\* release_order and release_orders_atomic: all of them or none.
Release(e, orders) ==
    IF orders # {} /\ \A o \in orders : CanRelease(e, o)
    THEN {[e EXCEPT
            !.records = [o \in DOMAIN @ |->
                IF o \in orders THEN ReleasedRecord(@[o]) ELSE @[o]],
            !.height = @ + 1]}
    ELSE {}

\* refresh_capacity for every account after a settlement.
RefreshCapacities(e) ==
    [e EXCEPT !.capacity = [x \in DOMAIN @ |->
        Balances(e, CHOOSE p \in DOMAIN e.entity : e.entity[p] = x)]]

-----------------------------------------------------------------------------
(* Settlement of a batch of fills *)

Seller(fill) == IF fill.maker.side = "sell" THEN fill.maker ELSE fill.taker
Buyer(fill) == IF fill.maker.side = "sell" THEN fill.taker ELSE fill.maker

\* Delivery against payment between two accounts, within the proof domain.
CanExchange(e, fill) ==
    LET s == Seller(fill).participant
        b == Buyer(fill).participant
        cash == fill.price * fill.quantity
    IN  /\ s # b
        /\ e.securities[s] >= fill.quantity
        /\ e.cash[b] >= cash
        /\ e.cash[s] + cash <= MaxBalance
        /\ e.securities[b] + fill.quantity <= MaxBalance

Transfer(balances, from, to, amount) ==
    [balances EXCEPT ![from] = @ - amount, ![to] = @ + amount]

\* The four balances of a fill.
DvP(e, fill) ==
    LET s == Seller(fill).participant
        b == Buyer(fill).participant
    IN  [e EXCEPT !.securities = Transfer(@, s, b, fill.quantity),
                  !.cash = Transfer(@, b, s, fill.price * fill.quantity)]

\* The checks that both batch paths make before the first fill. Prices and
\* quantities are unsigned.
WellFormedBatch(fills, o, remaining, now) ==
    /\ Len(fills) \in Nat \ {0}
    /\ \A i \in 1 .. Len(fills) :
        fills[i].price \in Nat /\ fills[i].quantity \in Nat \ {0} /\ fills[i].taker = o
    /\ o.expires_at >= now
    /\ MapThenSumSet(LAMBDA i : fills[i].quantity, DOMAIN fills) + remaining = o.quantity
    /\ IsInjective([i \in DOMAIN fills |-> fills[i].maker])

\* reconcile_arriving, also the status of reconcile_arriving_collaborative:
\* what an immediate-or-cancel order did not fill is released.
Reconciled(o, r, remaining) ==
    LET required == IF o.ioc THEN 0 ELSE Required(Kind(o.side), o.price, remaining) IN
    [r EXCEPT !.remaining = required,
              !.remaining_quantity = IF required > 0 THEN remaining ELSE 0,
              !.status = IF required > 0 THEN "active"
                         ELSE IF r.remaining > 0 THEN "released" ELSE "consumed"]

CanReconcile(e, o, remaining) ==
    /\ e.records[o].remaining_quantity = remaining
    /\ DOMAIN e.entity = Participants

Settled(e, o, remaining) ==
    LET reconciled == [e.records EXCEPT ![o] = Reconciled(o, @, remaining)] IN
    [RefreshCapacities([e EXCEPT !.records = reconciled]) EXCEPT !.height = @ + 1]

\* One turn of settle_batch's loop.
SettleFill(engines, fill, now) ==
    {DvP(ConsumeFill(e, fill), fill) :
        e \in {x \in engines : CanConsumeFill(x, fill, now) /\ CanExchange(x, fill)}}

\* settle_batch.
SettleBatch(e, fills, o, remaining, now) ==
    IF WellFormedBatch(fills, o, remaining, now)
    THEN LET after[i \in 0 .. Len(fills)] ==
                IF i = 0 THEN {e} ELSE SettleFill(after[i - 1], fills[i], now)
         IN  {Settled(x, o, remaining) :
                x \in {y \in after[Len(fills)] : CanReconcile(y, o, remaining)}}
    ELSE {}

\* apply_collaborative_remainders: what the proof leaves in the two reserve
\* commitments, the improvement over the limit price included.
WithRemainders(e, fill) ==
    LET remainder(o) == [e.records[o] EXCEPT !.committed = @ - Spent(o, fill)] IN
    [e EXCEPT !.records = [@ EXCEPT ![fill.maker] = remainder(fill.maker),
                                    ![fill.taker] = remainder(fill.taker)]]

\* The proof of a fill shows that both committed reserves cover it.
ReservesOpen(e, fill) ==
    \A o \in {fill.maker, fill.taker} : e.records[o].committed >= Spent(o, fill)

\* One turn of settle_batch_collaborative's loop.
SettleFillCollaborative(engines, fill, now) ==
    {DvP(WithRemainders(ConsumeFill(e, fill), fill), fill) :
        e \in {x \in engines :
                /\ CanConsumeFill(x, fill, now)
                /\ ReservesOpen(x, fill)
                /\ CanExchange(x, fill)}}

\* settle_batch_collaborative, on an engine whose committee is pinned.
SettleBatchCollaborative(e, fills, o, remaining, now) ==
    IF WellFormedBatch(fills, o, remaining, now)
    THEN LET after[i \in 0 .. Len(fills)] ==
                IF i = 0 THEN {e} ELSE SettleFillCollaborative(after[i - 1], fills[i], now)
         IN  {Settled(x, o, remaining) :
                x \in {y \in after[Len(fills)] : CanReconcile(y, o, remaining)}}
    ELSE {}

-----------------------------------------------------------------------------
(* The canonical ledger *)

\* canonical_account_openings: one account per balance and one whose
\* commitment is the root of the reservation book.
Accounts(e) ==
    [cash |-> e.cash, securities |-> e.securities,
     reservations |-> [entity |-> e.entity, capacity |-> e.capacity, records |-> e.records]]

\* canonical_account_deltas: the accounts a transition moves.
Deltas(before, after) == {a \in DOMAIN before : before[a] # after[a]}

\* state_snapshot.
Snapshot(e) == [accounts |-> Accounts(e), height |-> e.height]

\* PreparedCanonicalTransition: the engine it starts from, the one it leads to.
Transition(e, candidate, deadline) ==
    [base |-> Snapshot(e), candidate |-> candidate, deadline |-> deadline]

\* What both admission paths demand of the copy that holds the new reservation:
\* it differs from the live engine by that reservation and by nothing else.
OnlyReserves(e, reserved, o) ==
    /\ reserved.height = e.height + 1
    /\ Deltas(Accounts(e), Accounts(reserved)) = {"reservations"}
    /\ reserved.records[o].status = "active"
    /\ reserved.records[o].remaining = Limit(o)

\* The check of build_reservation_zkpi.
InHorizon(o, now) == o.expires_at >= now /\ o.expires_at <= now + ReservationHorizon

PrepareReservation(e, reserved, o, now) ==
    IF OnlyReserves(e, reserved, o) /\ InHorizon(o, now)
    THEN {Transition(e, reserved, o.expires_at)}
    ELSE {}

PrepareBatch(e, fills, o, remaining, now) ==
    {Transition(e, c, now + BatchLifetime) : c \in SettleBatch(e, fills, o, remaining, now)}

PrepareBatchCollaborative(e, fills, o, remaining, now) ==
    {Transition(e, c, now + BatchLifetime) :
        c \in SettleBatchCollaborative(e, fills, o, remaining, now)}

\* The reservation and its fills as one transition of the live engine.
PrepareAdmissionBatch(e, reserved, fills, o, remaining, now) ==
    IF OnlyReserves(e, reserved, o) /\ InHorizon(o, now)
    THEN {Transition(e, t.candidate, Min({t.deadline, o.expires_at})) :
            t \in PrepareBatch(reserved, fills, o, remaining, now)}
    ELSE {}

PrepareAdmissionBatchCollaborative(e, reserved, fills, o, remaining, now) ==
    IF OnlyReserves(e, reserved, o) /\ InHorizon(o, now)
    THEN {Transition(e, t.candidate, Min({t.deadline, o.expires_at})) :
            t \in PrepareBatchCollaborative(reserved, fills, o, remaining, now)}
    ELSE {}

\* PreparedCanonicalTransition::accept: the engine takes the ledger's height.
AcceptTransition(e, t, height) ==
    IF Snapshot(e) = t.base THEN {[t.candidate EXCEPT !.height = height]} ELSE {}
=============================================================================
