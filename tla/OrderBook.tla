----------------------------- MODULE OrderBook -----------------------------
(***************************************************************************)
(* What an OCLOB market promises its participants: a continuous limit      *)
(* order book with price-time priority.  Both books of the program, the    *)
(* committee's (NativeBook) and the service's (PrivateBook), implement     *)
(* this specification.  It says which fills are right, not how to find     *)
(* them.                                                                   *)
(***************************************************************************)
EXTENDS Integers, FiniteSetsExt

CONSTANTS
    Prices,      \* limit prices
    MaxQuantity, \* the largest order quantity
    Expiries     \* last seconds of orders

VARIABLES
    book,      \* the resting orders, a set
    sequence,  \* the number of commands processed; an order is named by its own
    command,   \* the last command: an order that arrived, or orders removed
    now        \* the clock

bookVars == <<book, sequence, command, now>>

Sides == {"buy", "sell"}

\* The order o takes liquidity from the resting order r if prices cross.
Takes(o, r) ==
    /\ r.side # o.side
    /\ IF o.side = "buy" THEN r.price <= o.price ELSE r.price >= o.price
    /\ now <= r.expires_at

\* r is served before q by an order of the other side: better price, then
\* earlier arrival.
Before(r, q) ==
    \/ r.price # q.price /\ (IF r.side = "buy" THEN r.price > q.price ELSE r.price < q.price)
    \/ r.price = q.price /\ r.id < q.id

RestingPart(o, remaining) ==
    [id |-> o.id, side |-> o.side, price |-> o.price, remaining |-> remaining,
     expires_at |-> o.expires_at]

Quantity(orders) == MapThenSumSet(LAMBDA r : r.remaining, orders)

\* The fills of an arriving order: it takes from the first in priority, never
\* more than rests there, and stops only when it or the crossing orders are
\* exhausted.
RightFills(o, crossing, fill) ==
    /\ \A r \in crossing : fill[r] <= r.remaining
    /\ \A r, q \in crossing : fill[q] > 0 /\ Before(r, q) => fill[r] = r.remaining
    /\ MapThenSumSet(LAMBDA r : fill[r], crossing) = Min({o.quantity, Quantity(crossing)})

BookInit ==
    /\ book = {}
    /\ sequence = 0
    /\ command = [none |-> {}]
    /\ now = 0

\* An order arrives. can_rest distinguishes good-til-cancelled orders from
\* immediate-or-cancel ones.
Submit(o) ==
    /\ command' = [submit |-> o]
    /\ o.id = sequence + 1
    /\ now <= o.expires_at
    /\ sequence' = o.id
    /\ LET crossing == {r \in book : Takes(o, r)} IN
       \E fill \in [crossing -> 0 .. MaxQuantity] :
          /\ RightFills(o, crossing, fill)
          /\ LET left == o.quantity - MapThenSumSet(LAMBDA r : fill[r], crossing)
                 filled == {[r EXCEPT !.remaining = @ - fill[r]] : r \in crossing}
             IN  book' = (book \ crossing)
                            \cup {r \in filled : r.remaining > 0}
                            \cup (IF o.can_rest /\ left > 0 THEN {RestingPart(o, left)} ELSE {})
    /\ UNCHANGED now

\* A cancellation removes one order, an expiry all orders past their time.
Remove(orders) ==
    /\ command' = [remove |-> {r.id : r \in orders}]
    /\ orders # {}
    /\ \/ \E r \in orders : orders = {r}
       \/ orders = {r \in book : r.expires_at < now}
    /\ book' = book \ orders
    /\ sequence' = sequence + 1
    /\ UNCHANGED now

Pass ==
    /\ now' > now
    /\ UNCHANGED <<book, sequence, command>>

BookNext ==
    \/ \E side \in Sides, price \in Prices, quantity \in 1 .. MaxQuantity,
          can_rest \in BOOLEAN, expires_at \in Expiries :
          Submit([id |-> sequence + 1, side |-> side, price |-> price,
                  quantity |-> quantity, can_rest |-> can_rest, expires_at |-> expires_at])
    \/ \E orders \in SUBSET book : Remove(orders)
    \/ Pass

BookSpec == BookInit /\ [][BookNext]_bookVars
=============================================================================
