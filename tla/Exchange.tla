------------------------------ MODULE Exchange ------------------------------
(***************************************************************************)
(* The exchange service with its durable request queues and the canonical  *)
(* ledger: oclob-service, driven by the demo server.                       *)
(*                                                                         *)
(* A participant's order waits in the participant's queue, an outbox of    *)
(* zkpi_defmi_sdk.  A worker claims the oldest entry and executes it.  On  *)
(* the local path OclobService::submit does all of it in one call.  On the *)
(* native path a submission is prepared from a copy of the service, taken  *)
(* to the ledger and accepted when the ledger has moved; with an           *)
(* optimistic claim a challenge window lies in between.  The path is fixed *)
(* for a behaviour.  On the collaborative path the acceptance program      *)
(* drives the engine itself.                                               *)
(*                                                                         *)
(* The book is the sequence of resting orders in order of arrival: the     *)
(* circuit sorts them by price (PrivateBook shows that the price queues    *)
(* give it the same).  The committee's votes, the MPC run and the proofs   *)
(* of a staged submission either succeed or fail the submission.           *)
(***************************************************************************)
EXTENDS Settlement, MatchCircuit, FiniteSets

CONSTANTS
    Orders,           \* the orders that may be placed
    Paths,            \* the execution paths considered
    MaxMatchSlots,
    Exclusive,        \* the demo server's lock: one worker at a time
    MaxTime,          \* bound: the clock
    MaxPlaced,        \* bound: requests enqueued
    MaxFaults         \* bound: failures of calls

ASSUME PathsAssumption == Paths \subseteq {"local", "native", "collaborative"}

\* Amounts are unsigned, and an order is placed by a participant.
ASSUME AmountsAssumption ==
    /\ IsFiniteSet(Participants)
    /\ InitialCash \in Nat /\ InitialSecurities \in Nat
    /\ \A o \in Orders :
        /\ o.participant \in Participants
        /\ o.side \in {"buy", "sell"}
        /\ o.price \in Nat /\ o.quantity \in Nat

VARIABLES
    path,
    service,    \* OclobService: book, sequence, consumed presentations, engine
    queue,      \* per participant, the entries of its outbox
    worker,     \* per participant, the submission in progress
    ledger,     \* the canonical accounts and height, once they are opened
    halted,     \* the demo's stage is "failed"
    now,
    faults

vars == <<path, service, queue, worker, ledger, halted, now, faults>>

NewService == [book |-> <<>>, sequence |-> 0, consumed |-> {}, engine |-> NewEngine]

Idle == [step |-> "idle"]

Init ==
    /\ path \in Paths
    /\ service = NewService
    /\ queue = [p \in Participants |-> <<>>]
    /\ worker = [p \in Participants |-> Idle]
    /\ ledger = {}
    /\ halted = FALSE
    /\ now = 0
    /\ faults = 0

-----------------------------------------------------------------------------
(* The outbox (external) *)

Terminal == {"settled", "aborted", "manual_review"}

\* claim_next never lets a later request overtake the oldest open one.
Oldest(p) ==
    {i \in DOMAIN queue[p] :
        /\ queue[p][i].status \notin Terminal
        /\ \A j \in 1 .. i - 1 : queue[p][j].status \in Terminal}

Marked(p, status) ==
    [queue EXCEPT ![p] = [i \in DOMAIN @ |->
        IF i \in Oldest(p) THEN [@[i] EXCEPT !.status = status] ELSE @[i]]]

-----------------------------------------------------------------------------
(* Staging a submission *)

Slots(book) ==
    [i \in DOMAIN book |->
        [id |-> book[i].order, side |-> book[i].order.side, price |-> book[i].order.price,
         quantity |-> book[i].remaining, reserve |-> book[i].reserve]]

Arriving(o) ==
    [id |-> o, side |-> o.side, price |-> o.price, quantity |-> o.quantity,
     can_rest |-> ~o.ioc, reserve |-> Limit(o)]

\* The orders of the book that have not expired, as private_match_batch hands
\* them to the circuit.
Live(book) == SelectSeq(book, LAMBDA r : r.order.expires_at >= now)

\* The public fills of a match, in slot order.
Fills(live, o, results) ==
    LET all == [i \in DOMAIN results |->
                  [maker |-> live[i].order, taker |-> o,
                   price |-> results[i].trade_price, quantity |-> results[i].trade_quantity]]
    IN  SelectSeq(all, LAMBDA f : f.quantity > 0)

\* apply_mpc_batch_result: what has expired stays until expire_due. The reserve
\* of an order is what the circuit leaves in its share.
Applied(book, wires) ==
    SelectSeq(book, LAMBDA r : r.order.expires_at < now)
        \o SelectSeq([k \in DOMAIN wires |->
                        [order |-> wires[k].id, remaining |-> wires[k].quantity,
                         reserve |-> wires[k].reserve]],
                     LAMBDA r : r.remaining > 0)

\* private_match_batch, the MPC run and apply_mpc_batch_result.
Match(book, o) ==
    {[fills |-> Fills(Live(book), o, results),
      remaining |-> PublishedRemaining(results, Arriving(o)),
      book |-> Applied(book, BookWires(Slots(Live(book)), Arriving(o)))] :
        results \in {SlotResults(Slots(Live(book)), Arriving(o))}}

\* The eligibility presentation of the order has not been used.
FirstUse(s, o) == o \notin s.consumed

\* The errors of stage_with_assurance that are not retryable: the authority
\* has expired, the sweep exceeds the circuit, the presentation is used.
Rejects(s, o) ==
    \/ now > o.expires_at
    \/ \E m \in Match(s.book, o) : Len(m.fills) > MaxMatchSlots
    \/ ~FirstUse(s, o)

\* Mutant: the staged eligibility store is a new one instead of a copy.
StagedAnew(s, o) ==
    {[fills |-> m.fills,
      remaining |-> m.remaining,
      service |-> [book |-> m.book, sequence |-> s.sequence + 1, consumed |-> {o}, engine |-> e]] :
        m \in Match(s.book, o),
        e \in Reserve(Bind(s.engine, o.participant, o.entity), o)}

\* stage_with_assurance: everything on copies of the service's parts.
Staged(s, o) ==
    IF CanBind(s.engine, o.participant, o.entity)
    THEN {[fills |-> m.fills,
           remaining |-> m.remaining,
           service |-> [book |-> m.book,
                        sequence |-> s.sequence + 1,
                        consumed |-> s.consumed \cup {o},
                        engine |-> e]] :
            m \in Match(s.book, o),
            e \in Reserve(Bind(s.engine, o.participant, o.entity), o)}
    ELSE {}

\* The engine after the fills of o. Without fills the reservation stands.
SettledEngine(staged, o) ==
    IF staged.fills = <<>> THEN {staged.service.engine}
    ELSE SettleBatch(staged.service.engine, staged.fills, o, staged.remaining, now)

Expired(book) == {r.order : r \in {q \in Range(book) : q.order.expires_at < now}}

\* Mutant: expired orders leave the book with their reservation.
ExpireDueUnreleased(s) ==
    {[s EXCEPT !.book = Live(@), !.sequence = IF Expired(s.book) = {} THEN @ ELSE @ + 1]}

\* expire_due: one expiry command for all that has expired.
ExpireDue(s) ==
    IF Expired(s.book) = {} THEN {s}
    ELSE {[s EXCEPT !.book = Live(@), !.sequence = @ + 1, !.engine = e] :
            e \in Release(s.engine, Expired(s.book))}

\* submit after the expiry: the settlement of the staged submission, or the
\* release of an immediate-or-cancel order that found nothing.
Submitted(s, o) ==
    UNION {{[staged.service EXCEPT !.engine = e] :
              e \in IF o.ioc /\ staged.fills = <<>>
                    THEN Release(staged.service.engine, {o})
                    ELSE SettledEngine(staged, o)} :
           staged \in Staged(s, o)}

-----------------------------------------------------------------------------
(* Requests and the local path *)

Free == Exclusive => \A p \in Participants : worker[p] = Idle

Placed == UNION {{queue[p][i].order : i \in DOMAIN queue[p]} : p \in Participants}

\* DemoRuntime::place_order refuses a halted market and what has expired. An
\* order that is already queued is answered from its entry.
Placeable(o) ==
    /\ ~halted
    /\ now <= o.expires_at
    /\ o \notin Placed
    /\ Cardinality(Placed) < MaxPlaced

\* DurableOclobQueue::enqueue.
Enqueue(o) ==
    /\ path # "collaborative"
    /\ Placeable(o)
    /\ queue' = [queue EXCEPT ![o.participant] = Append(@, [order |-> o, status |-> "queued"])]
    /\ UNCHANGED <<path, service, worker, ledger, halted, now, faults>>

\* Mutant: an expired request is passed over and stays.
ClaimUnexpired(p) ==
    /\ Free /\ ~halted
    /\ worker[p] = Idle
    /\ \E i \in Oldest(p) :
        /\ queue[p][i].order.expires_at >= now
        /\ queue' = Marked(p, "dispatching")
        /\ worker' = [worker EXCEPT ![p] = [step |-> "claimed", order |-> queue[p][i].order]]
    /\ UNCHANGED <<path, service, ledger, halted, now, faults>>

\* pump_with up to dispatch: an expired request ends before anything was
\* reserved for it.
Claim(p) ==
    /\ Free /\ ~halted
    /\ worker[p] = Idle
    /\ \E i \in Oldest(p) :
        LET o == queue[p][i].order IN
        IF o.expires_at < now
        THEN queue' = Marked(p, "aborted") /\ UNCHANGED worker
        ELSE /\ queue' = Marked(p, "dispatching")
             /\ worker' = [worker EXCEPT ![p] = [step |-> "claimed", order |-> o]]
    /\ UNCHANGED <<path, service, ledger, halted, now, faults>>

\* dispatch_with after the execution: a retryable failure leaves the entry.
Dispatched(p, outcome) ==
    /\ worker' = [worker EXCEPT ![p] = Idle]
    /\ queue' = CASE outcome = "executed" -> Marked(p, "settled")
                  [] outcome = "rejected" -> Marked(p, "aborted")
                  [] outcome = "uncertain" -> Marked(p, "manual_review")
                  [] outcome = "retry" -> queue

Fault == faults < MaxFaults /\ faults' = faults + 1

\* DurableOclobQueue::pump: OclobService::submit and its outcome. The expiry
\* stays although the submission fails. MPC, ordering or proof may fail.
ExecuteLocal(p) ==
    /\ path = "local"
    /\ worker[p].step = "claimed"
    /\ \E base \in ExpireDue(service) :
        \/ /\ Rejects(base, worker[p].order)
           /\ service' = base
           /\ Dispatched(p, "rejected")
           /\ UNCHANGED faults
        \/ /\ ~Rejects(base, worker[p].order)
           /\ Submitted(base, worker[p].order) = {}
           /\ service' = base
           /\ Dispatched(p, "retry")
           /\ UNCHANGED faults
        \/ /\ ~Rejects(base, worker[p].order)
           /\ service' \in Submitted(base, worker[p].order)
           /\ Dispatched(p, "executed")
           /\ UNCHANGED faults
        \/ /\ service' = base
           /\ Dispatched(p, "retry")
           /\ Fault
    /\ UNCHANGED <<path, ledger, halted, now>>

\* The execution succeeded and record_settlement did not.
ExecuteUnrecorded(p) ==
    /\ path = "local"
    /\ worker[p].step = "claimed"
    /\ \E base \in ExpireDue(service) :
        /\ ~Rejects(base, worker[p].order)
        /\ service' \in Submitted(base, worker[p].order)
    /\ Dispatched(p, "retry")
    /\ Fault
    /\ UNCHANGED <<path, ledger, halted, now>>

\* OclobService::cancel by someone who knows the order's cancellation secret.
Cancel(o) ==
    /\ path = "local"
    /\ \E r \in Range(service.book) : r.order = o
    /\ \E e \in Release(service.engine, {o}) :
        service' = [service EXCEPT !.book = SelectSeq(@, LAMBDA r : r.order # o),
                                   !.sequence = @ + 1,
                                   !.engine = e]
    /\ UNCHANGED <<path, queue, worker, ledger, halted, now, faults>>

\* expire_due called by itself.
Expire ==
    /\ path = "local"
    /\ Expired(service.book) # {}
    /\ service' \in ExpireDue(service)
    /\ UNCHANGED <<path, queue, worker, ledger, halted, now, faults>>

-----------------------------------------------------------------------------
(* The native path *)

PublicRoot(s) ==
    [sequence |-> s.sequence,
     levels |-> PublicLevels(Slots(s.book))]

Base(s) == [root |-> PublicRoot(s), settlement |-> Snapshot(s.engine)]

\* execute maps every error to CanonicalUncertain and stops the market.
Fail(p) ==
    /\ Dispatched(p, "uncertain")
    /\ halted' = TRUE

\* prepare_staged. A no-fill immediate-or-cancel order is refused.
Transitions(o, staged) ==
    LET reserved == staged.service.engine IN
    IF staged.fills # <<>>
    THEN PrepareAdmissionBatch(service.engine, reserved, staged.fills, o, staged.remaining, now)
    ELSE IF o.ioc THEN {}
    ELSE PrepareReservation(service.engine, reserved, o, now)

\* The submission remembers the state it was computed from. The staged copy of
\* the settlement is the live engine: the candidate belongs to the transition.
Prepared(p, o, staged) ==
    /\ \E t \in Transitions(o, staged) :
        worker' = [worker EXCEPT ![p] =
            [step |-> "prepared", order |-> o, base |-> Base(service), transition |-> t,
             next |-> [staged.service EXCEPT !.engine = service.engine]]]
    /\ UNCHANGED <<queue, halted>>

\* Staging on the native path is refused while an expired order rests.
NativeStaged(o) ==
    IF Expired(service.book) # {} \/ Rejects(service, o) THEN {} ELSE Staged(service, o)

\* prepare_canonical_submit.
Prepare(p) ==
    /\ path = "native"
    /\ worker[p].step = "claimed"
    /\ LET o == worker[p].order IN
        \/ \E staged \in NativeStaged(o) : Prepared(p, o, staged)
        \/ /\ \A staged \in NativeStaged(o) : Transitions(o, staged) = {}
           /\ Fail(p)
    /\ UNCHANGED <<path, service, ledger, now, faults>>

\* prepare_optimistic_submit: the claim is admitted, signed and proposed.
Propose(p) ==
    /\ path = "native"
    /\ worker[p].step = "claimed"
    /\ \/ /\ \E staged \in NativeStaged(worker[p].order) :
                worker' = [worker EXCEPT ![p] =
                    [step |-> "pending", order |-> worker[p].order,
                     base |-> Base(service), staged |-> staged]]
          /\ UNCHANGED <<queue, halted>>
       \/ NativeStaged(worker[p].order) = {} /\ Fail(p)
    /\ UNCHANGED <<path, service, ledger, now, faults>>

\* The state a submission was computed from is the service's present state.
Fresh(base) == base = Base(service)

\* PendingOclobSubmission::finalize, when the challenge window is over.
Finalize(p) ==
    /\ worker[p].step = "pending"
    /\ \/ /\ Fresh(worker[p].base)
          /\ Prepared(p, worker[p].order, worker[p].staged)
       \/ /\ Fresh(worker[p].base) => Transitions(worker[p].order, worker[p].staged) = {}
          /\ Fail(p)
    /\ UNCHANGED <<path, service, ledger, now, faults>>

\* A call fails before the ledger moves: a challenged claim, a health check,
\* an unreachable validator.
CallFails(p) ==
    /\ path = "native"
    /\ worker[p].step # "idle"
    /\ Fault
    /\ Fail(p)
    /\ UNCHANGED <<path, service, ledger, now>>

\* OptimisticGateway::bootstrap compares the accounts or opens them.
Bootstrapped(t) == ledger = {} \/ \E l \in ledger : l.accounts = t.base.accounts

\* The ledger after settle: every leg still has its value from before, and all
\* legs move at once.
Moved(t) ==
    LET after == Accounts(t.candidate)
        base == IF ledger = {} THEN {[accounts |-> t.base.accounts, height |-> 0]} ELSE ledger
        legs == Deltas(t.base.accounts, after)
    IN  {[accounts |-> [a \in DOMAIN after |-> IF a \in legs THEN after[a] ELSE l.accounts[a]],
          height |-> l.height + 1] :
            l \in {x \in base : \A a \in legs : x.accounts[a] = t.base.accounts[a]}}

LedgerTakes(t) == now <= t.deadline /\ Bootstrapped(t) /\ Moved(t) # {}

\* OptimisticGateway::settle.
LedgerSettle(p) ==
    /\ worker[p].step = "prepared"
    /\ \/ /\ LedgerTakes(worker[p].transition)
          /\ ledger' = Moved(worker[p].transition)
          /\ worker' = [worker EXCEPT ![p].step = "settled"]
          /\ UNCHANGED <<queue, halted>>
       \/ ~LedgerTakes(worker[p].transition) /\ Fail(p) /\ UNCHANGED ledger
    /\ UNCHANGED <<path, service, now, faults>>

\* The transaction is accepted and its readback fails, or the process is not
\* told: the caller sees an error.
LedgerUnconfirmed(p) ==
    /\ worker[p].step = "prepared"
    /\ LedgerTakes(worker[p].transition)
    /\ ledger' = Moved(worker[p].transition)
    /\ Fail(p)
    /\ Fault
    /\ UNCHANGED <<path, service, now>>

\* The service when a submission is accepted at a height.
Accepted(w, height) ==
    IF Fresh(w.base)
    THEN {[w.next EXCEPT !.engine = e] : e \in AcceptTransition(w.next.engine, w.transition, height)}
    ELSE {}

\* Mutant: a prepared submission is accepted before the ledger has moved.
AcceptEarly(p) ==
    /\ worker[p].step \in {"prepared", "settled"}
    /\ service' \in Accepted(worker[p], service.engine.height + 1)
    /\ Dispatched(p, "executed")
    /\ UNCHANGED <<path, ledger, halted, now, faults>>

\* PreparedOclobSubmission::accept: book, ordering, settlement and eligibility
\* are replaced together.
Accept(p) ==
    /\ worker[p].step = "settled"
    /\ \E l \in ledger :
        \/ /\ service' \in Accepted(worker[p], l.height)
           /\ Dispatched(p, "executed")
           /\ UNCHANGED halted
        \/ Accepted(worker[p], l.height) = {} /\ Fail(p) /\ UNCHANGED service
    /\ UNCHANGED <<path, ledger, now, faults>>

\* Accepted, and record_settlement fails: the request will be claimed again.
AcceptUnrecorded(p) ==
    /\ worker[p].step = "settled"
    /\ \E l \in ledger : service' \in Accepted(worker[p], l.height)
    /\ Dispatched(p, "retry")
    /\ Fault
    /\ UNCHANGED <<path, halted, ledger, now>>

-----------------------------------------------------------------------------
(* The collaborative path *)

\* One admission of the acceptance program: the committee's result is reserved
\* and settled on a copy, taken to the ledger and accepted.
Admit(o) ==
    /\ path = "collaborative"
    /\ ~o.ioc
    /\ Cardinality(service.consumed) < MaxPlaced
    /\ ~Rejects(service, o)
    /\ \E staged \in Staged(service, o) :
       \E t \in IF staged.fills = <<>>
                THEN PrepareReservation(service.engine, staged.service.engine, o, now)
                ELSE PrepareAdmissionBatchCollaborative(service.engine, staged.service.engine,
                        staged.fills, o, staged.remaining, now) :
        /\ LedgerTakes(t)
        /\ ledger' = Moved(t)
        /\ \E l \in Moved(t) : \E e \in AcceptTransition(service.engine, t, l.height) :
            service' = [staged.service EXCEPT !.engine = e]
    /\ UNCHANGED <<path, queue, worker, halted, now, faults>>

Tick ==
    /\ now < MaxTime
    /\ now' = now + 1
    /\ UNCHANGED <<path, service, queue, worker, ledger, halted, faults>>

Next ==
    \/ \E o \in Orders : Enqueue(o) \/ Cancel(o) \/ Admit(o)
    \/ \E p \in Participants :
        \/ Claim(p) \/ ExecuteLocal(p) \/ ExecuteUnrecorded(p)
        \/ Prepare(p) \/ Propose(p) \/ Finalize(p) \/ CallFails(p)
        \/ LedgerSettle(p) \/ LedgerUnconfirmed(p) \/ Accept(p) \/ AcceptUnrecorded(p)
    \/ Expire
    \/ Tick

Spec == Init /\ [][Next]_vars

\* The step in which a worker leaves its request, with whatever outcome.
Leaves(p) ==
    /\ worker[p] # Idle
    /\ worker' = [worker EXCEPT ![p] = Idle]

\* A worker with a request to claim claims it, one that has a request comes to
\* an end with it, and the clock moves.
Fairness ==
    /\ \A p \in Participants : WF_vars(Claim(p)) /\ WF_worker(Leaves(p))
    /\ WF_vars(Tick)

FairSpec == Spec /\ Fairness

-----------------------------------------------------------------------------
(* Properties *)

\* The book and the reservation book, which submit, cancel, expire_due and
\* accept update by separate code, agree: an order rests exactly while its
\* reservation is active, with the same remainder, and the reservation covers
\* the worst case of that remainder and no more. On the collaborative path the
\* reserve commitment that the ledger holds opens to the reserve that the
\* circuit left in the committee's shares, and never falls below the record.
BookMatchesReservations ==
    LET record(o) == service.engine.records[o]
        active == {o \in DOMAIN service.engine.records : record(o).status = "active"}
    IN  /\ active = {r.order : r \in Range(service.book)}
        /\ \A r \in Range(service.book) :
            /\ record(r.order).remaining_quantity = r.remaining
            /\ record(r.order).remaining = Required(Kind(r.order.side), r.order.price, r.remaining)
            /\ path = "collaborative" =>
                record(r.order).committed = r.reserve /\ r.reserve >= record(r.order).remaining

\* What is reserved is there: the active reservations of a participant never
\* exceed the balance they will be paid from, although reserve compares them
\* with a cached capacity that only bindings and settlements refresh. And no
\* settlement makes or loses cash or securities.
Solvent ==
    LET e == service.engine
        total(balances) == SumFunctionOnSet(balances, Participants)
    IN  /\ \A p \in DOMAIN e.entity : \A kind \in {"cash", "securities"} :
            InUse(e, e.entity[p], kind) <= Balances(e, p)[kind]
        /\ total(e.cash) = InitialCash * Cardinality(Participants)
        /\ total(e.securities) = InitialSecurities * Cardinality(Participants)

\* The service is never ahead of the ledger, and never behind it by more than
\* one accepted transition that a worker is about to accept or that is under
\* manual review.
LedgerInStep ==
    LET shows(e) == \E l \in ledger : l.accounts = Accounts(e) IN
    path # "local" =>
        \/ ledger = {} /\ service = NewService
        \/ shows(service.engine)
        \/ \E p \in Participants :
            \/ worker[p].step = "settled" /\ shows(worker[p].transition.candidate)
            \/ \E i \in DOMAIN queue[p] : queue[p][i].status = "manual_review"

\* A submission that was prepared from an older state never replaces a newer
\* one: every change of the service extends the command sequence and keeps
\* all earlier admissions.
NoUpdateLost ==
    [][service' # service =>
        /\ service'.sequence > service.sequence
        /\ service.consumed \subseteq service'.consumed]_vars

\* On the local path every request ends: it settles, or it is given up when
\* it expires, however often its execution fails with a retryable error.
RequestsEnd ==
    path = "local" =>
        <>[](\A p \in Participants : \A i \in DOMAIN queue[p] : queue[p][i].status \in Terminal)

\* The unfilled part of an immediate-or-cancel order is released when the
\* order has traded, as the plan says: such an order executes.
IocExecutes ==
    \A p \in Participants : \A base \in ExpireDue(service) :
        /\ path = "local"
        /\ worker[p].step = "claimed"
        /\ worker[p].order.ioc
        /\ ~Rejects(base, worker[p].order)
        /\ Staged(base, worker[p].order) # {}
        => Submitted(base, worker[p].order) # {}

=============================================================================
