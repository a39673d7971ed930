----------------------------- MODULE NativeFill -----------------------------
(***************************************************************************)
(* The settlement of matched orders on their pre-trade reservations: the   *)
(* joint proof of a fill, the claim keys the two wallets issue, what a     *)
(* proof node checks before it signs, and what it reads back before it     *)
(* calls the round final.  The nodes work through an ordered log of rounds *)
(* and cancellations.  The coordinator keeps no state here: it may ask for *)
(* any proof, key or signature at any time and as often as it likes.       *)
(*                                                                         *)
(* Digests are the tuples they are computed from, commitments the amounts  *)
(* they hide, and a signed statement is the statement.                     *)
(***************************************************************************)
EXTENDS Integers, FiniteSets, Sequences, FiniteSetsExt

CONSTANTS
    Nodes,          \* the committee
    Signers,        \* SIGNING_QUORUM: the nodes that sign
    Orders,         \* admitted orders; each has one reservation
    Side,           \* [Orders -> {"buy", "sell"}]
    Limit,          \* [Orders -> Nat]: the signed limit price
    Amount,         \* [Orders -> Nat]: what the reservation holds
    Holder,         \* [Orders -> participants]
    Deadline,       \* [Orders -> Nat]: retention deadline
    Log,            \* the certified order of rounds and cancellations
    Horizon,        \* max_horizon of a payment instruction
    MaxMatchSlots,  \* MAX_MATCH_SLOTS: slots of a round
    ValueRange,     \* amounts and prices a range proof covers
    None,
    MaxProofs,      \* bound: proofs made in all
    MaxOther,       \* bound: transactions of other applications
    MaxTime         \* bound: clock

VARIABLES
    at,         \* [Nodes -> Nat]: the log item a node works on
    open,       \* [Nodes -> BOOLEAN]: the item is executed, not yet final
    drawn,      \* proofs made so far of each fill: the parties hold the last
    keys,       \* [Orders -> [sequences -> claim-key record or None]]
    request,    \* the statement being signed and the nodes that approved it
    certified,  \* statements with the committee's signature on the current root
    ledger,     \* the canonical ledger
    observed,   \* [Nodes -> finality records]
    now

vars == <<at, open, drawn, keys, request, certified, ledger, observed, now>>

Legs == {"securities_delivery", "securities_refund", "cash_delivery", "cash_refund"}

IsRound(p) == Log[p].kind = "round"

Rounds == {p \in DOMAIN Log : IsRound(p)}

Slots(p) == DOMAIN Log[p].fills

\* The identity of one fill: its round and its slot.
collaborative_job_id(p, s) == <<p, s>>

Jobs == UNION {{collaborative_job_id(p, s) : s \in Slots(p)} : p \in Rounds}

Maker(job) == Log[job[1]].fills[job[2]].maker

Taker(job) == Log[job[1]].taker

Pair(job) == {Maker(job), Taker(job)}

Payer == [job \in Jobs |-> CHOOSE o \in Pair(job) : Side[o] = "buy"]

Payee == [job \in Jobs |-> CHOOSE o \in Pair(job) : Side[o] = "sell"]

Quantity(job) == Log[job[1]].fills[job[2]].quantity

Price(job) == Log[job[1]].fills[job[2]].price

\* The orders that a round matched.
InRound(p) == {Log[p].taker} \cup {f.maker : f \in Range(Log[p].fills)}

\* Reservations hold amounts, and every signer is a node.
ASSUME CommitteeAssumption ==
    /\ Signers \subseteq Nodes
    /\ Side \in [Orders -> {"buy", "sell"}]
    /\ Amount \in [Orders -> Nat]
    /\ Deadline \in [Orders -> Nat]
    /\ MaxMatchSlots \in Nat

\* What ordering and matching guarantee of the log: a round has fills, each
\* between two sides, and an order that is cancelled or used up on arrival is
\* matched no more.
ASSUME LogAssumption ==
    /\ Len(Log) \in Nat /\ DOMAIN Log = 1 .. Len(Log)
    /\ \A p \in Rounds :
        /\ Slots(p) # {} /\ Slots(p) \subseteq 0 .. MaxMatchSlots - 1
        /\ Log[p].taker \in Orders
        /\ Log[p].left = 0 => \A q \in Rounds : q > p => Log[p].taker \notin InRound(q)
    /\ \A job \in Jobs :
        /\ Maker(job) \in Orders /\ Side[Maker(job)] # Side[Taker(job)]
        /\ Quantity(job) \in Nat \ {0} /\ Price(job) \in Nat \ {0}
    /\ \A c \in DOMAIN Log \ Rounds :
        /\ Log[c].order \in Orders
        /\ \A p \in Rounds : p > c => Log[c].order \notin InRound(p)

\* What one leg takes from a reservation: securities, or quantity times price.
Spent(job, o) == IF Side[o] = "sell" THEN Quantity(job) ELSE Quantity(job) * Price(job)

\* Fills of the log before this one.
Earlier(job) == {j \in Jobs : j[1] < job[1] \/ (j[1] = job[1] /\ j[2] < job[2])}

\* The reserve the matching program carried into each fill.
Reserve ==
    [job \in Jobs |-> [o \in Orders |->
        Amount[o] - SumFunctionOnSet([j \in Jobs |-> Spent(j, o)],
                                     {j \in Earlier(job) : o \in Pair(j)})]]

-----------------------------------------------------------------------------
(* The joint proof of a fill. *)

FillDeadline(job) == Min({Deadline[o] : o \in Pair(job)})

\* The deadline is no more than an hour ahead.
validate_request(job) ==
    FillDeadline(job) \in now .. (now + Horizon)

\* The handle is computed from shares of every node; the two must differ.
maker_handle(job) == Holder[Maker(job)]

prove_zkpi_ranges(job) == {Quantity(job), Price(job)} \subseteq ValueRange

prove_limit(job) ==
    IF Side[Taker(job)] = "buy" THEN Price(job) <= Limit[Taker(job)]
                                ELSE Price(job) >= Limit[Taker(job)]

\* The two remainders are not negative.
prove_dvp(job) == \A o \in Pair(job) : Spent(job, o) <= Reserve[job][o]

\* A node's completed record of a round outlives the round.
Executed(n, p) == p < at[n] \/ (p = at[n] /\ open[n])

\* Every node loads its own share of the fill it executed.
load_fill(job) == \A n \in Nodes : Executed(n, job[1])

\* The signers release the payment only for the fill they loaded.
authorize_zkpi(job) == \A n \in Signers : Executed(n, job[1])

ProofsMade == SumFunctionOnSet(drawn, Jobs)

\* A repeated proof draws a new asset blinding: a new payment instruction.
prove_fill(job) ==
    /\ load_fill(job)
    /\ validate_request(job)
    /\ maker_handle(job) # Holder[Taker(job)]
    /\ prove_zkpi_ranges(job)
    /\ authorize_zkpi(job)
    /\ prove_limit(job)
    /\ prove_dvp(job)
    /\ ProofsMade < MaxProofs
    /\ drawn' = [drawn EXCEPT ![job] = @ + 1]
    /\ UNCHANGED <<at, open, keys, request, certified, ledger, observed, now>>

\* Who is paid by each of the four claims of a fill.
Recipient(job, leg) ==
    IF leg \in {"securities_delivery", "cash_refund"} THEN Payer[job] ELSE Payee[job]

-----------------------------------------------------------------------------
(* Reservation heads, and heads that wait for a certified group. *)

Spends(f) == {f.maker, f.taker}

Spend(f, o) == CHOOSE h \in Spends(f) : h.hold = o

\* What tells two statements of one fill apart.
Receipt(f) == <<f.job, f.parent, f.draw, f.taker.close>>

\* A head after a fill took its leg from it.
Advanced(h, f) ==
    [h EXCEPT !.sequence = @ + 1,
              !.remaining = @ - Spent(f.job, h.hold),
              !.receipt = Receipt(f),
              !.status = IF Spend(f, h.hold).close THEN "consumed" ELSE @]

Matches(h, spend) ==
    /\ h.status = "active"
    /\ h.hold = spend.hold
    /\ h.sequence = spend.sequence
    /\ h.receipt = spend.receipt
    /\ h.remaining = spend.remaining

\* The head after a certified member of a group that is not yet accepted;
\* the empty set when the member does not extend the head.
project_pending_native_head(h, f) ==
    IF Cardinality(f.slots) > 1 /\ f.parent = ledger.root
       /\ \E spend \in Spends(f) : Matches(h, spend)
    THEN {Advanced(h, f)} ELSE {}

\* The head after the certified fills that name it, in slot order.
Projected(o, prior) ==
    LET named(slot) == {f \in prior : f.job[2] = slot /\ o \in {h.hold : h \in Spends(f)}}
        after[k \in 0 .. MaxMatchSlots] ==
            IF k = 0 THEN {ledger.head[o]}
            ELSE IF named(k - 1) = {} THEN after[k - 1]
            ELSE UNION {project_pending_native_head(h, f) : h \in after[k - 1], f \in named(k - 1)}
    IN  after[MaxMatchSlots]

\* Certified fills of the round at earlier slots.
Prior(job) ==
    SUBSET {f \in certified : /\ f.kind = "fill"
                              /\ f.job[1] = job[1]
                              /\ f.job[2] < job[2]}

-----------------------------------------------------------------------------
(* One-time keys for the claims of a fill. *)

Named(h) == [hold |-> h.hold, sequence |-> h.sequence]

\* The two orders must belong to the payer and the payee of the instruction,
\* on the two asset rails; the empty set otherwise.
issue_from_sequences(job, mh, th) ==
    {[nullifier |-> job, payer |-> Named(pair[1]), payee |-> Named(pair[2])] :
        pair \in {q \in {<<mh, th>>, <<th, mh>>} :
            /\ q[1].hold # q[2].hold
            /\ Holder[q[1].hold] = Holder[Payer[job]]
            /\ Holder[q[2].hold] = Holder[Payee[job]]
            /\ Side[q[1].hold] = "buy" /\ Side[q[2].hold] = "sell"}}

\* What both wallets are asked to sign for, at the current active heads.
native_claim_authorization_issue(job, mh, th) ==
    IF mh.status = "active" /\ th.status = "active"
    THEN issue_from_sequences(job, mh, th) ELSE {}

saved_claim_authorizations(o, sequence) == {k \in keys[o] : k.sequence = sequence}

LastDraw(o, sequence) == Max({0} \cup {k.draw : k \in saved_claim_authorizations(o, sequence)})

\* Both signing keys are drawn before the record is offered to the journal.
generate(o, sequence, issue) ==
    [sequence |-> sequence, issue |-> issue, draw |-> LastDraw(o, sequence) + 1]

put_replacing(o, k) == {l \in keys[o] : l.sequence # k.sequence} \cup {k}

\* The journal keeps the first record of a reservation and sequence.
put_first(o, k) ==
    IF saved_claim_authorizations(o, k.sequence) # {} THEN keys[o] ELSE keys[o] \cup {k}

\* A wallet is asked for the keys of its two claims of a fill.  It reads both
\* heads at one root and follows the certified group to the named sequences.
issue_claim_authorizations(job, o) ==
    /\ drawn[job] > 0
    /\ o \in Pair(job)
    /\ now <= Deadline[o]
    /\ \A p \in Pair(job) : ledger.head[p].status = "active"
    /\ \E prior \in Prior(job) :
       \E mh \in Projected(Maker(job), prior), th \in Projected(Taker(job), prior) :
       \E issue \in native_claim_authorization_issue(job, mh, th) :
        /\ \A f \in prior : Pair(f.job) \cap Pair(job) # {}
        /\ LET sequence == IF o = mh.hold THEN mh.sequence ELSE th.sequence IN
           keys' = [keys EXCEPT ![o] = put_first(o, generate(o, sequence, issue))]
        /\ UNCHANGED <<at, open, drawn, request, certified, ledger, observed, now>>

\* The wallet's answer fits only the issue it was made for.
Authorizations(h, issue) ==
    {k \in saved_claim_authorizations(h.hold, h.sequence) : k.issue = issue}


-----------------------------------------------------------------------------
(* What the coordinator asks the nodes to sign. *)

SpendOf(h, close) ==
    [hold |-> h.hold, sequence |-> h.sequence, receipt |-> h.receipt,
     remaining |-> h.remaining, close |-> close]

\* The slots of the group a fill names; a fill alone names no group.
native_batch_binding(job) == Slots(job[1])

prepare_native_fill(job, slots, mh, th, issue, km, kt, closeMaker, closeTaker) ==
    [kind |-> "fill", job |-> job, draw |-> drawn[job], parent |-> ledger.root,
     slots |-> slots, issue |-> issue,
     maker |-> SpendOf(mh, closeMaker), taker |-> SpendOf(th, closeTaker),
     keys |-> [maker |-> km.draw, taker |-> kt.draw]]

\* A node's own record of the two orders it matched, against the authority
\* and the head the request names for one of them.
verify_authority(executed, spend) ==
    /\ spend.hold = executed
    /\ now <= Deadline[executed]
    /\ spend.sequence = 0 => spend.receipt = None /\ spend.remaining = Amount[executed]

\* Closure is for the last fill of an arriving order that is used up.
TakerMayClose(job) ==
    /\ Log[job[1]].left = 0
    /\ job[2] = Max(Slots(job[1]))

\* The answers of both wallets, for this pair at these sequences, with keys
\* that the reservations' owners signed.
verify_claims(f) ==
    f.issue \in issue_from_sequences(f.job, f.maker, f.taker)

\* The reserves the node's own proof was made from.
verify_reserves(f) ==
    \A spend \in Spends(f) : spend.remaining = Reserve[f.job][spend.hold]

verify_group_named(f) == f.slots \subseteq native_batch_binding(f.job)

\* NativeFillVerifier::verify_group, with the slots of the node's own record.
verify_group(f) == f.slots = native_batch_binding(f.job)

\* NativeFillVerifier::verify: every check before a node signs.
verify(f) ==
    /\ verify_group(f)
    /\ f.draw = drawn[f.job]
    /\ ~f.maker.close
    /\ f.taker.close => TakerMayClose(f.job)
    /\ verify_authority(Maker(f.job), f.maker)
    /\ verify_authority(Taker(f.job), f.taker)
    /\ verify_claims(f)
    /\ verify_reserves(f)
    /\ now <= FillDeadline(f.job)

authorize_native_fill(n, f) == Executed(n, f.job[1]) /\ verify(f)

\* The release is of the cancellation the node has applied.
LifecycleEntry(n, r) ==
    /\ at[n] \in DOMAIN Log \ Rounds
    /\ open[n]
    /\ Log[at[n]].order = r.order

authorize_release_any(n, r) == ledger.head[r.order].status = "active"

\* A node signs a release only for its own entry, at the current head of the
\* reservation.
authorize_release(n, r) ==
    /\ LifecycleEntry(n, r)
    /\ ledger.root = r.parent
    /\ ledger.head[r.order].status = "active"
    /\ ledger.head[r.order].sequence = r.sequence
    /\ ledger.head[r.order].receipt = r.receipt

Authorizes(n, body) ==
    IF body.kind = "fill" THEN authorize_native_fill(n, body) ELSE authorize_release(n, body)

SameAction(b, c) ==
    IF b.kind = "fill" /\ c.kind = "fill" THEN b.job = c.job ELSE b.kind = c.kind

\* A statement goes to the signers one by one; the committee's signature
\* exists when all of them have approved the same bytes.  Of each fill the
\* coordinator keeps the statement certified last.
Approve(n, body, approved) ==
    /\ Authorizes(n, body)
    /\ IF approved \cup {n} = Signers
       THEN /\ request' = None
            /\ certified' = {b \in certified : ~SameAction(b, body)} \cup {body}
       ELSE /\ request' = [body |-> body, approved |-> approved \cup {n}]
            /\ UNCHANGED certified
    /\ UNCHANGED <<at, open, drawn, keys, ledger, observed, now>>

\* The coordinator may name any two orders with any closure and any group.
\* A new request abandons the one before it.
ProposeFill(job, n) ==
    /\ drawn[job] > 0
    /\ Executed(n, job[1])
    /\ \E prior \in Prior(job) :
       \E mh, th \in UNION {Projected(o, prior) : o \in {q \in Orders : keys[q] # {}}} :
       \E issue \in native_claim_authorization_issue(job, mh, th) :
       \E km \in Authorizations(mh, issue), kt \in Authorizations(th, issue) :
       \E slots \in SUBSET Slots(job[1]), closeMaker, closeTaker \in BOOLEAN :
          /\ job[2] \in slots
          /\ Approve(n, prepare_native_fill(job, slots, mh, th, issue, km, kt,
                                            closeMaker, closeTaker), {})

ProposeRelease(o, n) ==
    Approve(n, [kind |-> "release", order |-> o, parent |-> ledger.root,
                sequence |-> ledger.head[o].sequence,
                receipt |-> ledger.head[o].receipt], {})

certify_native_fill(n) ==
    /\ request # None
    /\ n \notin request.approved
    /\ Approve(n, request.body, request.approved)

-----------------------------------------------------------------------------
(* The canonical ledger. *)

\* A statement for a root that has passed can never be accepted: it is
\* forgotten, signed or not.
Outdated ==
    /\ request' = None
    /\ certified' = {}
    /\ UNCHANGED <<at, open, drawn, keys, observed, now>>

\* All heads after one fill; the empty set when it does not extend them.
Applied(heads, f) ==
    {[h EXCEPT ![f.maker.hold] = Advanced(@, f), ![f.taker.hold] = Advanced(@, f)] :
        h \in {g \in heads : \A spend \in Spends(f) : Matches(g[spend.hold], spend)}}

\* All heads after the members of a group at one slot.
SlotApplied(heads, fills, slot) ==
    LET members == {f \in fills : f.job[2] = slot} IN
    IF members = {} THEN heads ELSE UNION {Applied(heads, f) : f \in members}

\* All heads after a group of fills, in slot order.
GroupApplied(fills) ==
    LET after[k \in 0 .. MaxMatchSlots] ==
            IF k = 0 THEN {ledger.head} ELSE SlotApplied(after[k - 1], fills, k - 1)
    IN  after[MaxMatchSlots]

\* The ledger takes the whole group that the fills name, in slot order, on
\* the root they were signed for and before their deadlines.
SettleFills(fills) ==
    /\ \A f \in fills : /\ f.kind = "fill"
                        /\ f.parent = ledger.root
                        /\ f.slots = {g.job[2] : g \in fills}
                        /\ now <= FillDeadline(f.job)
    /\ \A f, g \in fills : f.job[1] = g.job[1]
    /\ \E heads \in GroupApplied(fills) :
        ledger' = [root |-> ledger.root + 1, head |-> heads,
                   accepted |-> ledger.accepted \cup {[before |-> ledger.root, body |-> fills]}]
    /\ Outdated

\* A head that was given back to its owner.
Returned(h, receipt) ==
    [h EXCEPT !.status = "released", !.sequence = @ + 1, !.receipt = receipt]

Released(o, receipt) == [ledger.head EXCEPT ![o] = Returned(@, receipt)]

SettleRelease(r) ==
    /\ r.kind = "release"
    /\ r.parent = ledger.root
    /\ ledger.head[r.order].status = "active"
    /\ ledger.head[r.order].sequence = r.sequence
    /\ ledger' = [root |-> ledger.root + 1,
                  head |-> Released(r.order, <<r.order, r.parent>>),
                  accepted |-> ledger.accepted \cup {[before |-> ledger.root, body |-> {r}]}]
    /\ Outdated

\* After its deadline a reservation is returned to its owner.
ExpireHold(o) ==
    /\ now > Deadline[o]
    /\ ledger.head[o].status = "active"
    /\ ledger' = [ledger EXCEPT !.root = @ + 1, !.head = Released(o, <<"expired", o>>)]
    /\ Outdated

\* Other applications move the root.
OtherTransaction ==
    /\ ledger.root < MaxOther + Cardinality(ledger.accepted)
    /\ ledger' = [ledger EXCEPT !.root = @ + 1]
    /\ Outdated

-----------------------------------------------------------------------------
(* What the nodes do with the log. *)

\* A round runs on all nodes, a cancellation is applied by each alone; both
\* wait until the node has made the item before it final.
OpenItem(n) ==
    /\ at[n] \in DOMAIN Log
    /\ ~open[n]
    /\ IsRound(at[n]) => \A m \in Nodes : at[m] = at[n]
    /\ open' = [open EXCEPT ![n] = TRUE]
    /\ UNCHANGED <<at, drawn, keys, request, certified, ledger, observed, now>>

AcceptedAnything(before, fill) == TRUE

\* The transaction the ledger accepted is the one of this exact fill.
validate_accepted(before, fill) ==
    \E tx \in ledger.accepted : tx.before = before /\ fill \in tx.body

\* The finalized fill is of the pair, the slots and the closure the node
\* executed; the time is the deadline's, not the clock's.
verify_finalized_execution(f) ==
    /\ verify_group(f)
    /\ verify_claims(f)
    /\ ~f.maker.close
    /\ f.taker.close => TakerMayClose(f.job)
    /\ f.maker.hold = Maker(f.job) /\ f.taker.hold = Taker(f.job)

Observation(f) == [job |-> f.job, before |-> f.parent, fill |-> Receipt(f)]

\* A node reads the acceptance of a fill; its first record of a slot stays.
observe(n, f) ==
    /\ f.kind = "fill"
    /\ Executed(n, f.job[1])
    /\ validate_accepted(f.parent, f)
    /\ verify_finalized_execution(f)
    /\ f.job[1] = at[n]
    /\ \A r \in observed[n] : r.job # f.job
    /\ observed' = [observed EXCEPT ![n] = @ \cup {Observation(f)}]
    /\ UNCHANGED <<at, open, drawn, keys, request, certified, ledger, now>>

Recorded(n, p) == {r \in observed[n] : r.job[1] = p}

\* The observations of a round belong to one transaction.
aggregate_finality(n, p) == \A q, r \in Recorded(n, p) : q.before = r.before

\* Every matched slot was read.
require_complete(n, p) ==
    /\ {r.job[2] : r \in Recorded(n, p)} = Slots(p)
    /\ aggregate_finality(n, p)

Advance(n) ==
    /\ at' = [at EXCEPT ![n] = @ + 1]
    /\ open' = [open EXCEPT ![n] = FALSE]
    /\ UNCHANGED <<drawn, keys, request, certified, ledger, observed, now>>

FinalizeRound(n) ==
    /\ at[n] \in Rounds
    /\ open[n]
    /\ require_complete(n, at[n])
    /\ Advance(n)

\* The release was accepted and the reservation still stands where it left it.
confirm_release(n, r) ==
    /\ r.kind = "release"
    /\ LifecycleEntry(n, r)
    /\ validate_accepted(r.parent, r)
    /\ ledger.head[r.order].status = "released"
    /\ ledger.head[r.order].sequence = r.sequence + 1
    /\ ledger.head[r.order].receipt = <<r.order, r.parent>>
    /\ Advance(n)

\* The keys of a fill's claims, each drawn by the wallet that is paid.
ClaimKey(f, leg) ==
    LET o == Recipient(f.job, leg) IN
    [owner |-> o, leg |-> leg, sequence |-> Spend(f, o).sequence,
     draw |-> IF f.maker.hold = o THEN f.keys.maker ELSE f.keys.taker]

\* The journal's signer for a claim that the ledger holds.
claim_authorization(key, job) ==
    {k \in keys[key.owner] : /\ k.sequence = key.sequence
                             /\ k.draw = key.draw
                             /\ k.issue.nullifier = job}

\* What the coordinator can still show a node.
Statements == certified \cup UNION {tx.body : tx \in ledger.accepted}

Tick ==
    /\ now < MaxTime
    /\ now' = now + 1
    /\ UNCHANGED <<at, open, drawn, keys, request, certified, ledger, observed>>

Init ==
    /\ at = [n \in Nodes |-> 1]
    /\ open = [n \in Nodes |-> FALSE]
    /\ drawn = [job \in Jobs |-> 0]
    /\ keys = [o \in Orders |-> {}]
    /\ request = None
    /\ certified = {}
    /\ ledger = [root |-> 0, accepted |-> {},
                 head |-> [o \in Orders |->
                    [hold |-> o, status |-> "active", sequence |-> 0,
                     remaining |-> Amount[o], receipt |-> None]]]
    /\ observed = [n \in Nodes |-> {}]
    /\ now = 0

Next ==
    \/ \E job \in Jobs : prove_fill(job)
    \/ \E job \in Jobs, o \in Orders : issue_claim_authorizations(job, o)
    \/ \E job \in Jobs, n \in Signers : ProposeFill(job, n)
    \/ \E o \in Orders, n \in Signers : ProposeRelease(o, n)
    \/ \E n \in Signers : certify_native_fill(n)
    \/ \E fills \in SUBSET certified : fills # {} /\ SettleFills(fills)
    \/ \E r \in certified : SettleRelease(r)
    \/ \E o \in Orders : ExpireHold(o)
    \/ OtherTransaction
    \/ \E n \in Nodes : OpenItem(n)
    \/ \E n \in Nodes, f \in Statements : observe(n, f)
    \/ \E n \in Nodes : FinalizeRound(n)
    \/ \E n \in Nodes, r \in Statements : confirm_release(n, r)
    \/ Tick

Spec == Init /\ [][Next]_vars

-----------------------------------------------------------------------------
(* Properties. *)

FillTransactions == {tx \in ledger.accepted : \A b \in tx.body : b.kind = "fill"}

RoundOf(tx) == (CHOOSE f \in tx.body : TRUE).job[1]

\* Whatever a coordinator puts into a request (native.rs, verify and
\* verify_group), the ledger settles a round whole and once: every matched
\* slot, between the two orders the nodes matched, for what they matched.
RoundsSettleWhole ==
    /\ \A tx \in FillTransactions :
        /\ {f.job : f \in tx.body} = {collaborative_job_id(RoundOf(tx), s) : s \in Slots(RoundOf(tx))}
        /\ \A f \in tx.body : f.maker.hold = Maker(f.job) /\ f.taker.hold = Taker(f.job)
    /\ \A tx, ty \in FillTransactions : RoundOf(tx) = RoundOf(ty) => tx = ty

Settled(p) == \E tx \in FillTransactions : RoundOf(tx) = p

\* While a round that some node executed is not settled, the reservations of
\* its orders are open and hold exactly the reserve the matching program
\* used, unless their deadline has passed: no closure by an earlier fill
\* (taker_may_close) and no release of a cancelled order (authorize_release)
\* can take the funds of a match.
MatchedStaysFunded ==
    \A n \in Nodes : at[n] \in Rounds /\ open[n] /\ ~Settled(at[n]) =>
        \A o \in InRound(at[n]) :
            LET first == Min({s \in Slots(at[n]) : o \in Pair(<<at[n], s>>)}) IN
            now <= Deadline[o] =>
                /\ ledger.head[o].status = "active"
                /\ ledger.head[o].remaining = Reserve[<<at[n], first>>][o]

\* Every claim the ledger made can be redeemed: the wallet that is paid
\* still has the key the claim names (corporate_journal.rs,
\* issue_claim_authorizations and claim_authorization), however often keys
\* were asked for and proofs and signatures were made again; and no key
\* opens two claims.
ClaimsRedeemable ==
    LET settled == UNION {tx.body : tx \in FillTransactions} IN
    /\ \A f \in settled, leg \in Legs : claim_authorization(ClaimKey(f, leg), f.job) # {}
    /\ \A f, g \in settled, leg \in Legs : ClaimKey(f, leg) = ClaimKey(g, leg) => f = g

\* What a node recorded as final (native_finality.rs, observe) is on the
\* ledger, and a node goes past a round only when one accepted transaction
\* holds every slot of it.
ObservedIsCanonical ==
    \A n \in Nodes :
        /\ \A r \in observed[n] : \E tx \in FillTransactions :
            /\ tx.before = r.before
            /\ \E f \in tx.body : Receipt(f) = r.fill
        /\ \A p \in Rounds : p < at[n] => Settled(p)
=============================================================================
