--------------------------- MODULE ExchangeProofs ---------------------------
(***************************************************************************)
(* Proofs about Exchange, for any participants, orders, paths and          *)
(* balances, and with or without the demo server's lock.                   *)
(*                                                                         *)
(* A submission in progress was computed from a copy of the service.  What *)
(* makes it safe to install is that every change of the service raises the *)
(* command sequence: a submission whose base has the present sequence was  *)
(* computed from the present set of admissions (Carries).  That the ledger *)
(* does not run away from the service rests on the reservation book, which *)
(* gains the arriving order with every transition (Reserves).              *)
(***************************************************************************)
EXTENDS Exchange, SumLemmas

----------------------------------------------------------------------------
(* Command sequence and admissions                                         *)

IsService(s) ==
    /\ s = [book |-> s.book, sequence |-> s.sequence, consumed |-> s.consumed,
            engine |-> s.engine]
    /\ s.sequence \in Nat

\* What a change of the service may do to sequence and admissions.
Extends(s, t) == t.sequence > s.sequence /\ s.consumed \subseteq t.consumed

InProgress == {"pending", "prepared", "settled"}

\* The service that a submission in progress will install.
Carried(w) == IF w.step = "pending" THEN w.staged.service ELSE w.next

\* A submission in progress extends the service it was computed from, and
\* that is the present one when the sequence is the same.
Carries(w, s) ==
    /\ w.step \in {"prepared", "settled"} =>
        w = [step |-> w.step, order |-> w.order, base |-> w.base,
             transition |-> w.transition, next |-> w.next]
    /\ w.step \in InProgress =>
        /\ IsService(Carried(w))
        /\ w.base.root.sequence \in Nat
        /\ w.base.root.sequence <= s.sequence
        /\ Carried(w).sequence = w.base.root.sequence + 1
        /\ w.base.root.sequence = s.sequence => s.consumed \subseteq Carried(w).consumed

SequenceInv ==
    /\ IsService(service)
    /\ worker = [p \in Participants |-> worker[p]]
    /\ \A p \in Participants : Carries(worker[p], service)

\* A worker that holds no submission carries nothing.
LEMMA NotInProgress ==
    ASSUME NEW w, NEW s, w.step \notin InProgress
    PROVE  Carries(w, s)
  BY Zenon DEF Carries, InProgress

\* In particular an idle worker carries nothing.
LEMMA IdleCarries == \A s : Carries(Idle, s)
  BY NotInProgress DEF Idle, InProgress

\* stage_with_assurance takes the next command sequence and uses one
\* presentation more.
LEMMA StagedExtends ==
    ASSUME NEW s, IsService(s), NEW o, NEW staged \in Staged(s, o)
    PROVE  /\ IsService(staged.service)
           /\ staged.service.sequence = s.sequence + 1
           /\ staged.service.consumed = s.consumed \cup {o}
  BY DEF Staged, IsService

\* A command that takes the next sequence and admits nobody (cancel,
\* expire_due) extends the service.
LEMMA CommandExtends ==
    ASSUME NEW s, IsService(s), NEW b, NEW e, NEW t,
           t = [s EXCEPT !.book = b, !.sequence = s.sequence + 1, !.engine = e]
    PROVE  IsService(t) /\ Extends(s, t) /\ t.engine = e
<1>1. t = [book |-> b, sequence |-> s.sequence + 1, consumed |-> s.consumed, engine |-> e]
  BY Zenon DEF IsService
<1>2. s.sequence + 1 \in Nat /\ s.sequence + 1 > s.sequence
  BY DEF IsService
<1> QED  BY Zenon, <1>1, <1>2 DEF IsService, Extends

\* A service with another settlement engine has the same sequence and
\* admissions.
LEMMA EngineReplaced ==
    ASSUME NEW s, IsService(s), NEW e, NEW t, t = [s EXCEPT !.engine = e]
    PROVE  /\ IsService(t)
           /\ t.sequence = s.sequence /\ t.consumed = s.consumed /\ t.engine = e
<1>1. t = [book |-> s.book, sequence |-> s.sequence, consumed |-> s.consumed, engine |-> e]
  BY Zenon DEF IsService
<1> QED  BY Zenon, <1>1 DEF IsService

\* expire_due extends the service or has nothing to do.
LEMMA ExpireDueExtends ==
    ASSUME NEW s, IsService(s), NEW t \in ExpireDue(s)
    PROVE  IsService(t) /\ (t = s \/ Extends(s, t))
<1>1. CASE t = s
  BY Zenon, <1>1
<1>2. CASE t # s
  <2>1. PICK b, e : t = [s EXCEPT !.book = b, !.sequence = s.sequence + 1, !.engine = e]
    BY Zenon, <1>2 DEF ExpireDue
  <2> QED  BY Zenon, <2>1, CommandExtends
<1> QED  BY Zenon, <1>1, <1>2

\* submit after the expiry extends the service.
LEMMA SubmittedExtends ==
    ASSUME NEW s, IsService(s), NEW o, NEW t \in Submitted(s, o)
    PROVE  IsService(t) /\ Extends(s, t)
<1>0. PICK staged \in Staged(s, o) :
        t \in {[staged.service EXCEPT !.engine = e] :
                e \in IF o.ioc /\ staged.fills = <<>>
                      THEN Release(staged.service.engine, {o}) ELSE SettledEngine(staged, o)}
  BY Zenon DEF Submitted
<1>1. PICK e : t = [staged.service EXCEPT !.engine = e]
  BY Zenon, <1>0
<1>2. /\ IsService(staged.service)
      /\ staged.service.sequence = s.sequence + 1
      /\ staged.service.consumed = s.consumed \cup {o}
  BY Zenon, StagedExtends
<1>3. IsService(t) /\ t.sequence = s.sequence + 1 /\ t.consumed = s.consumed \cup {o}
  BY <1>1, <1>2, EngineReplaced
<1> QED  BY <1>3 DEF IsService, Extends

\* A submission in progress stays sound when the service is extended.
LEMMA CarriesExtended ==
    ASSUME NEW w, NEW s, NEW t, IsService(s), IsService(t), Carries(w, s),
           t = s \/ Extends(s, t)
    PROVE  Carries(w, t)
  BY DEF Carries, IsService, Extends

\* Installing a submission whose base is the present state extends it.
LEMMA AcceptedExtends ==
    ASSUME IsService(service), NEW w, Carries(w, service), w.step \in {"prepared", "settled"},
           NEW height, NEW t \in Accepted(w, height)
    PROVE  IsService(t) /\ Extends(service, t)
<1>1. /\ w.base = Base(service)
      /\ \E e : t = [w.next EXCEPT !.engine = e]
  BY Zenon DEF Accepted, Fresh
<1>2. w.base.root.sequence = service.sequence
  BY <1>1 DEF Base, PublicRoot
<1>3. /\ IsService(w.next)
      /\ w.next.sequence = service.sequence + 1
      /\ service.consumed \subseteq w.next.consumed
  BY Zenon, <1>2 DEF Carries, Carried, InProgress
<1>4. IsService(t) /\ t.sequence = service.sequence + 1 /\ t.consumed = w.next.consumed
  BY <1>1, <1>3, EngineReplaced
<1> QED  BY <1>3, <1>4 DEF IsService, Extends

\* Each step that changes the service extends it, and leaves the workers
\* with submissions that are sound for it.
LEMMA SequenceStep ==
    ASSUME SequenceInv, [Next]_vars
    PROVE  SequenceInv' /\ (service' = service \/ Extends(service, service'))
<1> USE DEF SequenceInv
\* Steps that leave the service and the submissions in progress.
<1>0. ASSUME service' = service,
             \/ worker' = worker
             \/ \E p \in Participants : \E w :
                    /\ worker' = [worker EXCEPT ![p] = w]
                    /\ Carries(w, service)
      PROVE  SequenceInv' /\ (service' = service \/ Extends(service, service'))
  BY Zenon, <1>0
\* Steps that extend the service, in which one worker at most comes to an end.
<1>1. ASSUME IsService(service'), service' = service \/ Extends(service, service'),
             worker' = worker \/ \E p \in Participants : worker' = [worker EXCEPT ![p] = Idle]
      PROVE  SequenceInv' /\ (service' = service \/ Extends(service, service'))
  <2>1. \A p \in Participants : Carries(worker[p], service')
    BY Zenon, <1>1, CarriesExtended
  <2>2. Carries(Idle, service')
    BY Zenon, IdleCarries
  <2> QED  BY Zenon, <1>1, <2>1, <2>2
<1>2. CASE UNCHANGED vars
  BY Zenon, <1>0, <1>2 DEF vars
<1>3. CASE \E o \in Orders : Enqueue(o)
  BY Zenon, <1>0, <1>3 DEF Enqueue
<1>4. ASSUME NEW o \in Orders, Cancel(o) PROVE IsService(service') /\ Extends(service, service')
  <2>1. PICK b, e : service' = [service EXCEPT !.book = b, !.sequence = service.sequence + 1,
                                               !.engine = e]
    BY Zenon, <1>4 DEF Cancel
  <2> QED  BY Zenon, <2>1, CommandExtends
<1>5. ASSUME NEW o \in Orders, Admit(o) PROVE IsService(service') /\ Extends(service, service')
  <2>0. PICK staged \in Staged(service, o) : \E e : service' = [staged.service EXCEPT !.engine = e]
    BY Zenon, <1>5 DEF Admit
  <2>1. PICK e : service' = [staged.service EXCEPT !.engine = e]
    BY Zenon, <2>0
  <2>2. /\ IsService(service') /\ service'.sequence = service.sequence + 1
        /\ service'.consumed = service.consumed \cup {o}
    BY <2>1, StagedExtends, EngineReplaced
  <2> QED  BY <2>2 DEF IsService, Extends
<1>6. ASSUME NEW p \in Participants, ExecuteLocal(p) \/ ExecuteUnrecorded(p)
      PROVE  /\ IsService(service')
             /\ service' = service \/ Extends(service, service')
             /\ worker' = [worker EXCEPT ![p] = Idle]
  <2>1. PICK base \in ExpireDue(service) :
            service' = base \/ service' \in Submitted(base, worker[p].order)
    BY Zenon, <1>6 DEF ExecuteLocal, ExecuteUnrecorded
  <2>2. IsService(base) /\ (base = service \/ Extends(service, base))
    BY Zenon, ExpireDueExtends
  <2>4. service' # base => IsService(service') /\ Extends(base, service')
    BY Zenon, <2>1, <2>2, SubmittedExtends
  <2>5. service' = service \/ Extends(service, service')
    BY <2>2, <2>4 DEF Extends, IsService
  <2>6. worker' = [worker EXCEPT ![p] = Idle]
    BY Zenon, <1>6 DEF ExecuteLocal, ExecuteUnrecorded, Dispatched
  <2> QED  BY Zenon, <2>2, <2>4, <2>5, <2>6
<1>7. ASSUME NEW p \in Participants, Prepare(p) \/ Propose(p) \/ Finalize(p) \/ Claim(p)
      PROVE  /\ service' = service
             /\ \/ worker' = worker
                \/ \E w : worker' = [worker EXCEPT ![p] = w] /\ Carries(w, service)
  <2>1. service' = service
    BY Zenon, <1>7 DEF Prepare, Propose, Finalize, Claim
  <2>2. ASSUME worker' = [worker EXCEPT ![p] = Idle]
        PROVE  \E w : worker' = [worker EXCEPT ![p] = w] /\ Carries(w, service)
    BY Zenon, <2>2, IdleCarries
  <2>3. ASSUME NEW o, NEW staged, Prepared(p, o, staged), IsService(staged.service),
               staged.service.sequence = service.sequence + 1,
               service.consumed \subseteq staged.service.consumed
        PROVE  \E w : worker' = [worker EXCEPT ![p] = w] /\ Carries(w, service)
    <3>1. PICK t : worker' = [worker EXCEPT ![p] =
                [step |-> "prepared", order |-> o, base |-> Base(service), transition |-> t,
                 next |-> [staged.service EXCEPT !.engine = service.engine]]]
      BY Zenon, <2>3 DEF Prepared
    <3>2. PICK next : next = [staged.service EXCEPT !.engine = service.engine]
      OBVIOUS
    <3>3. PICK w : w = [step |-> "prepared", order |-> o, base |-> Base(service),
                        transition |-> t, next |-> next]
      OBVIOUS
    <3>4. /\ IsService(next) /\ next.sequence = service.sequence + 1
          /\ service.consumed \subseteq next.consumed
      BY <2>3, <3>2, EngineReplaced
    <3>5. /\ w = [step |-> w.step, order |-> w.order, base |-> w.base,
                  transition |-> w.transition, next |-> w.next]
          /\ Carried(w) = next /\ w.base.root.sequence = service.sequence
      BY Zenon, <3>3 DEF Carried, Base, PublicRoot
    <3>6. Carries(w, service)
      BY <3>4, <3>5 DEF Carries, IsService
    <3> QED  BY Zenon, <3>1, <3>2, <3>3, <3>6
  <2>4. CASE Claim(p)
    <3>1. CASE \E o : worker' = [worker EXCEPT ![p] = [step |-> "claimed", order |-> o]]
      <4>1. PICK o, w : w = [step |-> "claimed", order |-> o] /\ worker' = [worker EXCEPT ![p] = w]
        BY Zenon, <3>1
      <4>2. Carries(w, service)
        BY <4>1, NotInProgress DEF InProgress
      <4> QED  BY Zenon, <2>1, <4>1, <4>2
    <3> QED  BY Zenon, <2>1, <2>4, <3>1 DEF Claim
  <2>5. CASE Prepare(p)
    <3>1. CASE Fail(p)
      BY Zenon, <2>1, <2>2, <3>1 DEF Fail, Dispatched
    <3>2. CASE ~Fail(p)
      <4>1. PICK staged \in Staged(service, worker[p].order) : Prepared(p, worker[p].order, staged)
        BY Zenon, <2>5, <3>2 DEF Prepare, NativeStaged
      <4> QED  BY <2>1, <2>3, <4>1, StagedExtends
    <3> QED  BY Zenon, <3>1, <3>2
  <2>6. CASE Finalize(p)
    <3>1. CASE Fail(p)
      BY Zenon, <2>1, <2>2, <3>1 DEF Fail, Dispatched
    <3>2. CASE ~Fail(p)
      <4>1. /\ worker[p].step = "pending" /\ worker[p].base = Base(service)
            /\ Prepared(p, worker[p].order, worker[p].staged)
        BY Zenon, <2>6, <3>2 DEF Finalize, Fresh
      <4>2. worker[p].base.root.sequence = service.sequence
        BY <4>1 DEF Base, PublicRoot
      <4>3. /\ IsService(worker[p].staged.service)
            /\ worker[p].staged.service.sequence = service.sequence + 1
            /\ service.consumed \subseteq worker[p].staged.service.consumed
        BY Zenon, <4>1, <4>2 DEF Carries, Carried, InProgress
      <4> QED  BY Zenon, <2>1, <2>3, <4>1, <4>3
    <3> QED  BY Zenon, <3>1, <3>2
  <2>7. CASE Propose(p)
    <3>1. CASE Fail(p)
      BY Zenon, <2>1, <2>2, <3>1 DEF Fail, Dispatched
    <3>2. CASE ~Fail(p)
      <4>1. PICK staged \in Staged(service, worker[p].order) :
                worker' = [worker EXCEPT ![p] =
                    [step |-> "pending", order |-> worker[p].order,
                     base |-> Base(service), staged |-> staged]]
        BY Zenon, <2>7, <3>2 DEF Propose, NativeStaged
      <4>2. PICK w : w = [step |-> "pending", order |-> worker[p].order,
                          base |-> Base(service), staged |-> staged]
        OBVIOUS
      <4>3. /\ IsService(staged.service) /\ staged.service.sequence = service.sequence + 1
            /\ service.consumed \subseteq staged.service.consumed
        BY StagedExtends
      <4>4. w.step = "pending" /\ Carried(w) = staged.service
            /\ w.base.root.sequence = service.sequence
        BY Zenon, <4>2 DEF Carried, Base, PublicRoot
      <4>5. Carries(w, service)
        BY <4>3, <4>4 DEF Carries, IsService
      <4> QED  BY Zenon, <2>1, <4>1, <4>2, <4>5
    <3> QED  BY Zenon, <3>1, <3>2
  <2> QED  BY Zenon, <1>7, <2>4, <2>5, <2>6, <2>7
<1>8. ASSUME NEW p \in Participants,
             CallFails(p) \/ LedgerSettle(p) \/ LedgerUnconfirmed(p)
      PROVE  /\ service' = service
             /\ \E w : worker' = [worker EXCEPT ![p] = w] /\ Carries(w, service)
  <2>1. service' = service
    BY Zenon, <1>8 DEF CallFails, LedgerSettle, LedgerUnconfirmed
  <2>2. CASE Fail(p)
    BY Zenon, <2>1, <2>2, IdleCarries DEF Fail, Dispatched
  <2>3. CASE ~Fail(p)
    <3>1. /\ worker[p].step = "prepared"
          /\ worker' = [worker EXCEPT ![p] = [worker[p] EXCEPT !.step = "settled"]]
      BY Zenon, <1>8, <2>3 DEF CallFails, LedgerSettle, LedgerUnconfirmed
    <3>2. PICK v : v = worker[p]
      OBVIOUS
    <3>3. v = [step |-> v.step, order |-> v.order, base |-> v.base,
               transition |-> v.transition, next |-> v.next] /\ v.step = "prepared"
      BY Zenon, <3>1, <3>2 DEF Carries
    <3>4. PICK w : w = [v EXCEPT !.step = "settled"]
      OBVIOUS
    <3>5. w = [step |-> "settled", order |-> v.order, base |-> v.base,
               transition |-> v.transition, next |-> v.next]
      BY Zenon, <3>3, <3>4
    <3>6. Carries(w, service)
      BY Zenon, <3>2, <3>3, <3>5 DEF Carries, Carried, InProgress
    <3> QED  BY Zenon, <2>1, <3>1, <3>2, <3>4, <3>6
  <2> QED  BY Zenon, <2>2, <2>3
<1>9. ASSUME NEW p \in Participants, Accept(p) \/ AcceptUnrecorded(p)
      PROVE  /\ IsService(service')
             /\ service' = service \/ Extends(service, service')
             /\ worker' = [worker EXCEPT ![p] = Idle]
  <2>1. worker' = [worker EXCEPT ![p] = Idle]
    BY Zenon, <1>9 DEF Accept, AcceptUnrecorded, Dispatched, Fail
  <2>2. /\ worker[p].step = "settled"
        /\ service' = service \/ \E l \in ledger : service' \in Accepted(worker[p], l.height)
    BY Zenon, <1>9 DEF Accept, AcceptUnrecorded
  <2> QED  BY Zenon, <2>1, <2>2, AcceptedExtends
<1>10. CASE Expire
  BY Zenon, <1>1, <1>10, ExpireDueExtends DEF Expire
<1>11. CASE Tick
  BY Zenon, <1>0, <1>11 DEF Tick
<1>12. ASSUME NEW p \in Participants,
              \/ Claim(p) \/ ExecuteLocal(p) \/ ExecuteUnrecorded(p)
              \/ Prepare(p) \/ Propose(p) \/ Finalize(p) \/ CallFails(p)
              \/ LedgerSettle(p) \/ LedgerUnconfirmed(p) \/ Accept(p) \/ AcceptUnrecorded(p)
       PROVE  SequenceInv' /\ (service' = service \/ Extends(service, service'))
  <2>1. CASE ExecuteLocal(p) \/ ExecuteUnrecorded(p)
    BY Zenon, <1>1, <1>6, <2>1
  <2>2. CASE Claim(p) \/ Prepare(p) \/ Propose(p) \/ Finalize(p)
    BY Zenon, <1>0, <1>7, <2>2
  <2>3. CASE CallFails(p) \/ LedgerSettle(p) \/ LedgerUnconfirmed(p)
    BY Zenon, <1>0, <1>8, <2>3
  <2>4. CASE Accept(p) \/ AcceptUnrecorded(p)
    BY Zenon, <1>1, <1>9, <2>4
  <2> QED  BY Zenon, <1>12, <2>1, <2>2, <2>3, <2>4
<1>13. ASSUME NEW o \in Orders, Cancel(o) \/ Admit(o)
       PROVE  SequenceInv' /\ (service' = service \/ Extends(service, service'))
  BY Zenon, <1>1, <1>4, <1>5, <1>13 DEF Cancel, Admit
<1> HIDE DEF SequenceInv
<1> QED  BY Zenon, <1>2, <1>3, <1>10, <1>11, <1>12, <1>13 DEF Next

\* The invariant of the sequence holds in every reachable state.
LEMMA SequenceInvariant == Spec => []SequenceInv
<1>1. Init => SequenceInv
  <2> SUFFICES ASSUME Init PROVE SequenceInv
    OBVIOUS
  <2>1. IsService(service)
    BY Zenon DEF Init, NewService, IsService
  <2>2. \A p \in Participants : worker[p] = Idle
    BY Zenon DEF Init
  <2>3. worker = [p \in Participants |-> worker[p]]
    BY Zenon DEF Init
  <2> QED  BY Zenon, <2>1, <2>2, <2>3, IdleCarries DEF SequenceInv
<1>2. SequenceInv /\ [Next]_vars => SequenceInv'
  BY Zenon, SequenceStep
<1> QED  BY <1>1, <1>2, PTL DEF Spec

\* A submission that was prepared from an older state never replaces a newer
\* one (PreparedOclobSubmission::accept, PendingOclobSubmission::finalize):
\* every change of the service extends the command sequence and keeps all
\* earlier admissions.
THEOREM UpdatesKept == Spec => NoUpdateLost
<1>1. SequenceInv /\ [Next]_vars =>
        [service' # service =>
            /\ service'.sequence > service.sequence
            /\ service.consumed \subseteq service'.consumed]_vars
  BY Zenon, SequenceStep DEF Extends
<1> QED  BY <1>1, SequenceInvariant, PTL DEF Spec, NoUpdateLost

----------------------------------------------------------------------------
(* Service and ledger                                                      *)

IsEngine(e) ==
    e = [cash |-> e.cash, securities |-> e.securities, entity |-> e.entity,
         capacity |-> e.capacity, records |-> e.records, height |-> e.height]

\* The orders in the reservation book of some accounts.
Known(accounts) == DOMAIN accounts.reservations.records

\* The engine e is the accounts with the reservation of o added, among other
\* changes.
Adds(accounts, o, e) ==
    /\ IsEngine(e)
    /\ o \notin Known(accounts)
    /\ DOMAIN e.records = Known(accounts) \cup {o}

\* A submission in progress reserves its order on the state it came from.
Reserves(w) ==
    /\ w.step = "pending" => Adds(w.base.settlement.accounts, w.order, w.staged.service.engine)
    /\ w.step \in {"prepared", "settled"} =>
        /\ w.base.settlement = w.transition.base
        /\ DOMAIN w.transition.base.accounts = {"cash", "securities", "reservations"}
        /\ Adds(w.transition.base.accounts, w.order, w.transition.candidate)

\* The service has every reservation that the base of a submission has.
Reaches(w, s) ==
    w.step \in InProgress => Known(w.base.settlement.accounts) \subseteq DOMAIN s.engine.records

UnderReview == \E p \in Participants : \E i \in DOMAIN queue[p] : queue[p][i].status = "manual_review"

Settling(p) == worker[p].step = "settled"

\* Ledger and service are equal, or the ledger is ahead by the transition of
\* the one worker that is about to accept it.
InStep ==
    \/ /\ ledger = {} /\ service = NewService
       /\ \A p \in Participants : ~Settling(p)
    \/ \E l : /\ ledger = {l} /\ l.accounts = Accounts(service.engine)
              /\ \A p \in Participants : ~Settling(p)
    \/ \E l, p : /\ ledger = {l} /\ p \in Participants /\ Settling(p)
                 /\ l.accounts = Accounts(worker[p].transition.candidate)
                 /\ worker[p].order \notin DOMAIN service.engine.records
                 /\ \A q \in Participants : Settling(q) => q = p

Status == {"queued", "dispatching"} \cup Terminal

OldestIn(entries) ==
    {i \in DOMAIN entries :
        /\ entries[i].status \notin Terminal
        /\ \A j \in 1 .. i - 1 : entries[j].status \in Terminal}

Entries == Seq([order : Orders, status : Status])

\* Every worker with a request has an open entry in its queue.
QueueInv ==
    /\ queue \in [Participants -> Entries]
    /\ path = "collaborative" => \A p \in Participants : queue[p] = <<>>
    /\ \A p \in Participants : worker[p].step # "idle" => OldestIn(queue[p]) # {}

LedgerInv ==
    /\ QueueInv
    /\ path # "local" =>
        /\ IsEngine(service.engine)
        /\ \A p \in Participants : Reserves(worker[p]) /\ Reaches(worker[p], service)
        /\ UnderReview \/ InStep

Same(e, D) == IsEngine(e) /\ DOMAIN e.records = D

\* An engine with one part replaced is an engine with the other parts as
\* they were.
LEMMA RecordsReplaced ==
    ASSUME NEW e, IsEngine(e), NEW r, NEW x, x = [e EXCEPT !.records = r]
    PROVE  /\ IsEngine(x) /\ x.records = r
           /\ x.cash = e.cash /\ x.securities = e.securities /\ x.entity = e.entity
           /\ x.capacity = e.capacity /\ x.height = e.height
<1>1. x = [cash |-> e.cash, securities |-> e.securities, entity |-> e.entity,
           capacity |-> e.capacity, records |-> r, height |-> e.height]
  BY Zenon DEF IsEngine
<1> QED  BY Zenon, <1>1 DEF IsEngine

\* The same for the balances.
LEMMA BalancesReplaced ==
    ASSUME NEW e, IsEngine(e), NEW s, NEW c, NEW x, x = [e EXCEPT !.securities = s, !.cash = c]
    PROVE  /\ IsEngine(x) /\ x.cash = c /\ x.securities = s
           /\ x.records = e.records /\ x.entity = e.entity
           /\ x.capacity = e.capacity /\ x.height = e.height
<1>1. x = [cash |-> c, securities |-> s, entity |-> e.entity,
           capacity |-> e.capacity, records |-> e.records, height |-> e.height]
  BY Zenon DEF IsEngine
<1> QED  BY Zenon, <1>1 DEF IsEngine

\* The same for the capacities.
LEMMA CapacityReplaced ==
    ASSUME NEW e, IsEngine(e), NEW k, NEW x, x = [e EXCEPT !.capacity = k]
    PROVE  /\ IsEngine(x) /\ x.capacity = k
           /\ x.cash = e.cash /\ x.securities = e.securities /\ x.entity = e.entity
           /\ x.records = e.records /\ x.height = e.height
<1>1. x = [cash |-> e.cash, securities |-> e.securities, entity |-> e.entity,
           capacity |-> k, records |-> e.records, height |-> e.height]
  BY Zenon DEF IsEngine
<1> QED  BY Zenon, <1>1 DEF IsEngine

\* The same for the height.
LEMMA HeightReplaced ==
    ASSUME NEW e, IsEngine(e), NEW h, NEW x, x = [e EXCEPT !.height = h]
    PROVE  /\ IsEngine(x) /\ x.height = h
           /\ x.cash = e.cash /\ x.securities = e.securities /\ x.entity = e.entity
           /\ x.records = e.records /\ x.capacity = e.capacity
<1>1. x = [cash |-> e.cash, securities |-> e.securities, entity |-> e.entity,
           capacity |-> e.capacity, records |-> e.records, height |-> h]
  BY Zenon DEF IsEngine
<1> QED  BY Zenon, <1>1 DEF IsEngine

\* One fill changes the records of two orders and four balances
\* (consume_fill).
LEMMA FillKeepsRecords ==
    ASSUME NEW D, NEW engines, \A x \in engines : Same(x, D), NEW fill, NEW t
    PROVE  /\ \A x \in SettleFill(engines, fill, t) : Same(x, D)
           /\ \A x \in SettleFillCollaborative(engines, fill, t) : Same(x, D)
<1>1. ASSUME NEW x, Same(x, D) PROVE Same(ConsumeFill(x, fill), D)
  <2>1. PICK a, b : ConsumeFill(x, fill) =
            [x EXCEPT !.records = [x.records EXCEPT ![fill.maker] = a, ![fill.taker] = b]]
    BY Zenon DEF ConsumeFill
  <2>2. DOMAIN [x.records EXCEPT ![fill.maker] = a, ![fill.taker] = b] = D
    BY Zenon, <1>1 DEF Same
  <2> QED  BY <1>1, <2>1, <2>2, RecordsReplaced DEF Same
<1>2. ASSUME NEW x, Same(x, D) PROVE Same(WithRemainders(x, fill), D)
  <2>1. PICK a, b : WithRemainders(x, fill) =
            [x EXCEPT !.records = [x.records EXCEPT ![fill.maker] = a, ![fill.taker] = b]]
    BY Zenon DEF WithRemainders
  <2>2. DOMAIN [x.records EXCEPT ![fill.maker] = a, ![fill.taker] = b] = D
    BY Zenon, <1>2 DEF Same
  <2> QED  BY <1>2, <2>1, <2>2, RecordsReplaced DEF Same
<1>3. ASSUME NEW x, Same(x, D) PROVE Same(DvP(x, fill), D)
  <2>1. PICK s, c : DvP(x, fill) = [x EXCEPT !.securities = s, !.cash = c]
    BY Zenon DEF DvP
  <2>2. PICK y : y = DvP(x, fill) /\ y = [x EXCEPT !.securities = s, !.cash = c]
    BY Zenon, <2>1
  <2>3. IsEngine(y) /\ y.records = x.records
    <3>1. y = [cash |-> c, securities |-> s, entity |-> x.entity,
               capacity |-> x.capacity, records |-> x.records, height |-> x.height]
      BY Zenon, <1>3, <2>2 DEF Same, IsEngine
    <3> QED  BY Zenon, <3>1 DEF IsEngine
  <2> QED  BY Zenon, <1>3, <2>2, <2>3 DEF Same
<1> QED  BY Zenon, <1>1, <1>2, <1>3 DEF SettleFill, SettleFillCollaborative

\* One turn of either loop.
Turn(collaborative, engines, fill, t) ==
    IF collaborative THEN SettleFillCollaborative(engines, fill, t)
                     ELSE SettleFill(engines, fill, t)

IsLoop(g, n, collaborative, e, fills, t) ==
    g = [i \in 0 .. n |-> IF i = 0 THEN {e} ELSE Turn(collaborative, g[i - 1], fills[i], t)]

\* The loops of settle_batch and settle_batch_collaborative are defined for
\* every number of fills.
LEMMA LoopDefined ==
    ASSUME NEW c, NEW e, NEW fills, NEW t, NEW n \in Nat
    PROVE  \E g : IsLoop(g, n, c, e, fills, t)
<1> DEFINE T == {m \in Nat : ~\E g : IsLoop(g, m, c, e, fills, t)}
<1>0. T \in SUBSET Nat /\ \A m \in Nat : m \in T <=> ~\E g : IsLoop(g, m, c, e, fills, t)
  BY Zenon
<1> HIDE DEF T
<1>1. ASSUME T # {} PROVE FALSE
  <2>1. PICK m \in T : \A k \in T : m <= k
    BY Zenon, <1>0, <1>1, LeastNumber
  <2>2. CASE m = 0
    <3>1. PICK g : g = [i \in 0 .. 0 |-> {e}]
      OBVIOUS
    <3>2. IsLoop(g, 0, c, e, fills, t)
      BY <3>1 DEF IsLoop
    <3> QED  BY Zenon, <1>0, <2>1, <2>2, <3>2
  <2>3. CASE m # 0
    <3>0. m \in Nat
      BY Zenon, <1>0, <2>1
    <3>1. m - 1 \in Nat /\ m - 1 \notin T
      BY <2>1, <2>3, <3>0
    <3>2. PICK g : IsLoop(g, m - 1, c, e, fills, t)
      BY Zenon, <1>0, <3>1
    <3>3. PICK h : h = [i \in 0 .. m |->
                          IF i = m THEN Turn(c, g[i - 1], fills[i], t) ELSE g[i]]
      OBVIOUS
    <3>4. /\ h[m] = Turn(c, h[m - 1], fills[m], t)
          /\ \A i \in 0 .. m - 1 : h[i] = g[i]
      BY <2>3, <3>0, <3>3
    <3>5. \A i \in 0 .. m - 1 : g[i] = IF i = 0 THEN {e} ELSE Turn(c, g[i - 1], fills[i], t)
      BY Zenon, <3>1, <3>2 DEF IsLoop
    <3>6. \A i \in 0 .. m : h[i] = IF i = 0 THEN {e} ELSE Turn(c, h[i - 1], fills[i], t)
      BY <2>3, <3>0, <3>4, <3>5
    <3>7. IsLoop(h, m, c, e, fills, t)
      BY Zenon, <3>3, <3>6 DEF IsLoop
    <3> QED  BY Zenon, <1>0, <2>1, <3>7
  <2> QED  BY Zenon, <2>2, <2>3
<1> QED  BY Zenon, <1>0, <1>1

\* Each turn keeps the shape of the engine and the orders of its reservation
\* book, and so does the loop.
LEMMA LoopKeepsRecords ==
    ASSUME NEW c, NEW e, NEW fills, NEW t, NEW n \in Nat, NEW D, Same(e, D),
           NEW g, IsLoop(g, n, c, e, fills, t)
    PROVE  \A x \in g[n] : Same(x, D)
<1> DEFINE T == {m \in 0 .. n : ~\A x \in g[m] : Same(x, D)}
<1>0. T \in SUBSET Nat /\ \A m \in 0 .. n : m \in T <=> ~\A x \in g[m] : Same(x, D)
  <2>1. 0 .. n \subseteq Nat
    OBVIOUS
  <2> QED  BY Zenon, <2>1
<1>1. T \subseteq 0 .. n
  BY Zenon
<1> HIDE DEF T
<1>2. \A i \in 0 .. n : g[i] = IF i = 0 THEN {e} ELSE Turn(c, g[i - 1], fills[i], t)
  BY Zenon DEF IsLoop
<1>3. ASSUME T # {} PROVE FALSE
  <2>1. PICK m \in T : \A k \in T : m <= k
    BY Zenon, <1>0, <1>3, LeastNumber
  <2>2. m # 0
    BY <1>0, <1>2, <2>1
  <2>3. m \in 0 .. n /\ m - 1 \in 0 .. n /\ m - 1 \notin T
    BY <1>1, <2>1, <2>2
  <2>4. \A x \in g[m - 1] : Same(x, D)
    BY Zenon, <1>0, <2>3
  <2>5. g[m] = Turn(c, g[m - 1], fills[m], t)
    BY Zenon, <1>2, <2>2, <2>3
  <2>6. \A x \in g[m] : Same(x, D)
    BY Zenon, <2>4, <2>5, FillKeepsRecords DEF Turn
  <2> QED  BY Zenon, <1>0, <2>1, <2>3, <2>6
<1>4. n \in 0 .. n
  OBVIOUS
<1> QED  BY Zenon, <1>0, <1>3, <1>4

\* settle_batch and settle_batch_collaborative open no reservation and drop
\* none.
LEMMA BatchKeepsRecords ==
    ASSUME NEW D, NEW e, Same(e, D), NEW fills, NEW o, NEW remaining, NEW t,
           NEW c \in SettleBatch(e, fills, o, remaining, t)
                    \cup SettleBatchCollaborative(e, fills, o, remaining, t)
    PROVE  Same(c, D)
<1>1. WellFormedBatch(fills, o, remaining, t)
  BY Zenon DEF SettleBatch, SettleBatchCollaborative
<1>2. Len(fills) \in Nat
  BY Zenon, <1>1 DEF WellFormedBatch
<1>3. \E x : Same(x, D) /\ c = Settled(x, o, remaining)
  <2> DEFINE P == CHOOSE g : g = [i \in 0 .. Len(fills) |->
                    IF i = 0 THEN {e} ELSE SettleFill(g[i - 1], fills[i], t)]
             C == CHOOSE g : g = [i \in 0 .. Len(fills) |->
                    IF i = 0 THEN {e} ELSE SettleFillCollaborative(g[i - 1], fills[i], t)]
  <2>1. /\ \E g : g = [i \in 0 .. Len(fills) |->
                    IF i = 0 THEN {e} ELSE SettleFill(g[i - 1], fills[i], t)]
        /\ \E g : g = [i \in 0 .. Len(fills) |->
                    IF i = 0 THEN {e} ELSE SettleFillCollaborative(g[i - 1], fills[i], t)]
    <3>1. PICK g : IsLoop(g, Len(fills), FALSE, e, fills, t)
      BY Zenon, <1>2, LoopDefined
    <3>2. PICK h : IsLoop(h, Len(fills), TRUE, e, fills, t)
      BY Zenon, <1>2, LoopDefined
    <3>3. g = [i \in 0 .. Len(fills) |->
                    IF i = 0 THEN {e} ELSE SettleFill(g[i - 1], fills[i], t)]
      BY Zenon, <3>1 DEF IsLoop, Turn
    <3>4. h = [i \in 0 .. Len(fills) |->
                    IF i = 0 THEN {e} ELSE SettleFillCollaborative(h[i - 1], fills[i], t)]
      BY Zenon, <3>2 DEF IsLoop, Turn
    <3> QED  BY Zenon, <3>3, <3>4
  <2>2. IsLoop(P, Len(fills), FALSE, e, fills, t)
    BY Zenon, <2>1 DEF IsLoop, Turn
  <2>3. IsLoop(C, Len(fills), TRUE, e, fills, t)
    BY Zenon, <2>1 DEF IsLoop, Turn
  <2>4. c \in SettleBatch(e, fills, o, remaining, t) =>
            \E x \in P[Len(fills)] : c = Settled(x, o, remaining)
    BY Zenon, <1>1 DEF SettleBatch
  <2>5. c \in SettleBatchCollaborative(e, fills, o, remaining, t) =>
            \E x \in C[Len(fills)] : c = Settled(x, o, remaining)
    BY Zenon, <1>1 DEF SettleBatchCollaborative
  <2> HIDE DEF P, C
  <2>6. \A x \in P[Len(fills)] \cup C[Len(fills)] : Same(x, D)
    BY Zenon, <1>2, <2>2, <2>3, LoopKeepsRecords
  <2> QED  BY Zenon, <2>4, <2>5, <2>6
<1>4. PICK x : Same(x, D) /\ c = Settled(x, o, remaining)
  BY Zenon, <1>3
<1>5. PICK y : y = [x EXCEPT !.records = [x.records EXCEPT ![o] = Reconciled(o, @, remaining)]]
  OBVIOUS
<1>6. IsEngine(y) /\ DOMAIN y.records = D
  BY <1>4, <1>5, RecordsReplaced DEF Same
<1>7. PICK z : z = RefreshCapacities(y)
  OBVIOUS
<1>8. IsEngine(z) /\ z.records = y.records
  BY <1>6, <1>7, CapacityReplaced DEF RefreshCapacities
<1>9. c = [z EXCEPT !.height = z.height + 1]
  BY Zenon, <1>4, <1>5, <1>7 DEF Settled
<1>10. IsEngine(c) /\ c.records = z.records
  BY <1>8, <1>9, HeightReplaced
<1> QED  BY Zenon, <1>6, <1>8, <1>10 DEF Same

\* stage_with_assurance adds the reservation of the order and no other.
LEMMA StagedAdds ==
    ASSUME NEW s, IsEngine(s.engine), NEW o, NEW staged \in Staged(s, o)
    PROVE  Adds(Accounts(s.engine), o, staged.service.engine)
<1>1. PICK m, e : /\ e \in Reserve(Bind(s.engine, o.participant, o.entity), o)
                  /\ staged = [fills |-> m.fills, remaining |-> m.remaining,
                               service |-> [book |-> m.book, sequence |-> s.sequence + 1,
                                            consumed |-> s.consumed \cup {o}, engine |-> e]]
  BY DEF Staged
<1>2. staged.service.engine = e
  BY Zenon, <1>1
<1>3. PICK b : b = Bind(s.engine, o.participant, o.entity)
  OBVIOUS
<1>4. IsEngine(b) /\ b.records = s.engine.records
  <2>1. PICK n, k : b = [s.engine EXCEPT !.entity = n, !.capacity = k]
    BY Zenon, <1>3 DEF Bind
  <2>2. b = [cash |-> s.engine.cash, securities |-> s.engine.securities, entity |-> n,
             capacity |-> k, records |-> s.engine.records, height |-> s.engine.height]
    BY Zenon, <2>1 DEF IsEngine
  <2> QED  BY Zenon, <2>2 DEF IsEngine
<1>5. /\ o \notin DOMAIN b.records
      /\ \E v : e = [b EXCEPT !.records = Put(b.records, o, v), !.height = b.height + 1]
  BY Zenon, <1>1, <1>3 DEF Reserve, CanReserve
<1>6. PICK v : e = [b EXCEPT !.records = Put(b.records, o, v), !.height = b.height + 1]
  BY Zenon, <1>5
<1>7. IsEngine(e) /\ DOMAIN e.records = DOMAIN b.records \cup {o}
  <2>1. e = [cash |-> b.cash, securities |-> b.securities, entity |-> b.entity,
             capacity |-> b.capacity, records |-> Put(b.records, o, v), height |-> b.height + 1]
    BY Zenon, <1>4, <1>6 DEF IsEngine
  <2> QED  BY Zenon, <2>1 DEF IsEngine, Put
<1>8. Known(Accounts(s.engine)) = DOMAIN s.engine.records
  BY Zenon DEF Known, Accounts
<1> QED  BY Zenon, <1>2, <1>4, <1>5, <1>7, <1>8 DEF Adds

\* A prepared transition starts from the live engine and leads to one with
\* the reservation of the order added (prepare_canonical_reservation,
\* prepare_canonical_admission_batch).
LEMMA TransitionAdds ==
    ASSUME NEW e, NEW o, NEW reserved, NEW fills, NEW remaining, NEW t, NEW x,
           Adds(Accounts(e), o, reserved),
           \/ x \in PrepareReservation(e, reserved, o, t)
           \/ x \in PrepareAdmissionBatch(e, reserved, fills, o, remaining, t)
           \/ x \in PrepareAdmissionBatchCollaborative(e, reserved, fills, o, remaining, t)
    PROVE  x.base = Snapshot(e) /\ Adds(Accounts(e), o, x.candidate)
<1> DEFINE D == Known(Accounts(e)) \cup {o}
<1>1. Same(reserved, D)
  BY Zenon DEF Adds, Same
<1>2. \E c, d : x = Transition(e, c, d) /\ Same(c, D)
  <2>1. CASE x \in PrepareReservation(e, reserved, o, t)
    BY Zenon, <1>1, <2>1 DEF PrepareReservation
  <2>2. CASE ~(x \in PrepareReservation(e, reserved, o, t))
    <3>1. PICK y, d : /\ x = Transition(e, y.candidate, d)
                      /\ y \in PrepareBatch(reserved, fills, o, remaining, t)
                             \cup PrepareBatchCollaborative(reserved, fills, o, remaining, t)
      BY Zenon, <2>2 DEF PrepareAdmissionBatch, PrepareAdmissionBatchCollaborative
    <3>2. PICK c \in SettleBatch(reserved, fills, o, remaining, t)
                        \cup SettleBatchCollaborative(reserved, fills, o, remaining, t) :
                y = Transition(reserved, c, t + BatchLifetime)
      BY Zenon, <3>1 DEF PrepareBatch, PrepareBatchCollaborative
    <3>3. y.candidate = c
      BY Zenon, <3>2 DEF Transition
    <3>4. Same(c, D)
      BY Zenon, <1>1, BatchKeepsRecords
    <3> QED  BY Zenon, <3>1, <3>3, <3>4
  <2> QED  BY Zenon, <2>1, <2>2
<1>3. PICK c, d : x = Transition(e, c, d) /\ Same(c, D)
  BY Zenon, <1>2
<1>4. x.base = Snapshot(e) /\ x.candidate = c
  BY Zenon, <1>3 DEF Transition
<1> QED  BY Zenon, <1>3, <1>4 DEF Adds, Same
\* A transition that settles leaves the ledger with the accounts of its
\* candidate, although only the accounts that differ are moved
\* (canonical_account_deltas).
LEMMA MovedShows ==
    ASSUME NEW t, DOMAIN t.base.accounts = {"cash", "securities", "reservations"},
           ledger = {} \/ \E l : ledger = {l} /\ l.accounts = t.base.accounts
    PROVE  \E l : Moved(t) = {l} /\ l.accounts = Accounts(t.candidate)
<1> DEFINE before == t.base.accounts
           after == Accounts(t.candidate)
           legs == Deltas(before, after)
           base == IF ledger = {} THEN {[accounts |-> before, height |-> 0]} ELSE ledger
           moved(l) == [accounts |-> [a \in DOMAIN after |->
                                        IF a \in legs THEN after[a] ELSE l.accounts[a]],
                        height |-> l.height + 1]
<1>1. Moved(t) = {moved(l) : l \in {x \in base : \A a \in legs : x.accounts[a] = before[a]}}
  BY Zenon DEF Moved
<1>2. PICK b : b.accounts = before /\ base = {b}
  OBVIOUS
<1>3. DOMAIN after = DOMAIN before /\ after = [a \in DOMAIN after |-> after[a]]
  BY Zenon DEF Accounts
<1>4. \A a \in DOMAIN before : a \notin legs => before[a] = after[a]
  BY Zenon DEF Deltas
<1> HIDE DEF base, legs, after, before
<1>5. moved(b).accounts = after
  BY Zenon, <1>2, <1>3, <1>4
<1> HIDE DEF moved
<1>6. Moved(t) = {moved(b)}
  BY Zenon, <1>1, <1>2
<1> QED  BY Zenon, <1>5, <1>6 DEF after

\* Marking the oldest open entry touches one queue and keeps its length.
LEMMA MarkedQueue ==
    ASSUME queue \in [Participants -> Entries], NEW p \in Participants, NEW st \in Status
    PROVE  /\ Marked(p, st) \in [Participants -> Entries]
           /\ \A q \in Participants : q # p => Marked(p, st)[q] = queue[q]
           /\ DOMAIN Marked(p, st)[p] = DOMAIN queue[p]
           /\ \A i \in DOMAIN queue[p] :
                Marked(p, st)[p][i].status = IF i \in Oldest(p) THEN st ELSE queue[p][i].status
<1>1. PICK s, O : s = queue[p] /\ O = Oldest(p)
  OBVIOUS
<1>2. PICK m : m = [i \in DOMAIN s |-> IF i \in O THEN [s[i] EXCEPT !.status = st] ELSE s[i]]
  OBVIOUS
<1>3. s \in Entries
  BY Zenon, <1>1
<1>4. \A i \in DOMAIN s : /\ m[i] \in [order : Orders, status : Status]
                          /\ m[i].status = IF i \in O THEN st ELSE s[i].status
  <2> SUFFICES ASSUME NEW i \in DOMAIN s
               PROVE  /\ m[i] \in [order : Orders, status : Status]
                      /\ m[i].status = IF i \in O THEN st ELSE s[i].status
    OBVIOUS
  <2>0. s[i] \in [order : Orders, status : Status]
    <3>1. \A T : s \in Seq(T) => s[i] \in T
      OBVIOUS
    <3> QED  BY Zenon, <1>3, <3>1 DEF Entries
  <2>1. PICK r : r = s[i] /\ r \in [order : Orders, status : Status]
    BY Zenon, <2>0
  <2>2. /\ [r EXCEPT !.status = st] \in [order : Orders, status : Status]
        /\ [r EXCEPT !.status = st].status = st
    BY Zenon, <2>1
  <2>3. m[i] = IF i \in O THEN [r EXCEPT !.status = st] ELSE r
    BY Zenon, <1>2, <2>1
  <2> QED  BY Zenon, <2>1, <2>2, <2>3
<1>5. m \in Entries /\ DOMAIN m = DOMAIN s
  BY <1>2, <1>3, <1>4 DEF Entries
<1>6. Marked(p, st) = [queue EXCEPT ![p] = m]
  BY Zenon, <1>1, <1>2 DEF Marked
<1> QED  BY Zenon, <1>1, <1>4, <1>5, <1>6
\* What the steps do to the queues and to who is at work.
QueueAction ==
    \/ /\ queue' = queue
       /\ \A q \in Participants : worker'[q].step # "idle" => worker[q].step # "idle"
    \/ \E p \in Participants, st \in Status :
         /\ queue' = Marked(p, st)
         /\ Oldest(p) # {}
         /\ worker'[p].step # "idle" => st = "dispatching"
         /\ \A q \in Participants : q # p => worker'[q] = worker[q]
    \/ /\ \E o \in Orders : Enqueue(o)
       /\ worker' = worker

\* The oldest entry stays the oldest when it is marked as dispatching, and
\* no request overtakes it.  What is under review stays so.
LEMMA QueueMoves ==
    ASSUME SequenceInv, QueueInv, path' = path, QueueAction
    PROVE  QueueInv' /\ (UnderReview => UnderReview')
<1>0. \A p : Oldest(p) = OldestIn(queue[p])
  BY Zenon DEF Oldest, OldestIn
<1>1. CASE /\ queue' = queue
           /\ \A q \in Participants : worker'[q].step # "idle" => worker[q].step # "idle"
  BY Zenon, <1>1 DEF QueueInv, UnderReview
<1>2. ASSUME NEW p \in Participants, NEW st \in Status, queue' = Marked(p, st),
             Oldest(p) # {}, worker'[p].step # "idle" => st = "dispatching",
             \A q \in Participants : q # p => worker'[q] = worker[q]
      PROVE  QueueInv' /\ (UnderReview => UnderReview')
  <2>1. /\ queue' \in [Participants -> Entries]
        /\ \A q \in Participants : q # p => queue'[q] = queue[q]
        /\ DOMAIN queue'[p] = DOMAIN queue[p]
        /\ \A i \in DOMAIN queue[p] :
             queue'[p][i].status = IF i \in Oldest(p) THEN st ELSE queue[p][i].status
    <3>1. queue \in [Participants -> Entries]
      BY Zenon DEF QueueInv
    <3>2. PICK m : m = Marked(p, st)
      OBVIOUS
    <3>3. /\ m \in [Participants -> Entries]
          /\ \A q \in Participants : q # p => m[q] = queue[q]
          /\ DOMAIN m[p] = DOMAIN queue[p]
          /\ \A i \in DOMAIN queue[p] :
                m[p][i].status = IF i \in Oldest(p) THEN st ELSE queue[p][i].status
      BY Zenon, <3>1, <3>2, MarkedQueue
    <3>4. queue' = m
      BY Zenon, <1>2, <3>2
    <3> QED  BY Zenon, <3>3, <3>4
  <2>2. path # "collaborative"
    <3>1. queue[p] = <<>> => OldestIn(queue[p]) = {}
      BY DEF OldestIn
    <3> QED  BY Zenon, <1>0, <1>2, <3>1 DEF QueueInv
  <2>3. st = "dispatching" => OldestIn(queue'[p]) # {}
    <3>1. SUFFICES ASSUME st = "dispatching" PROVE OldestIn(queue'[p]) # {}
      OBVIOUS
    <3>2. PICK i : i \in OldestIn(queue[p])
      BY Zenon, <1>0, <1>2
    <3>3. \A j \in DOMAIN queue[p] : queue[p][j].status \in Terminal => queue'[p][j].status \in Terminal
      BY Zenon, <1>0, <2>1 DEF OldestIn
    <3>4. queue'[p][i].status \notin Terminal
      <4>1. i \in DOMAIN queue[p] /\ i \in Oldest(p)
        BY Zenon, <1>0, <3>2 DEF OldestIn
      <4>2. queue'[p][i].status = "dispatching"
        BY Zenon, <2>1, <3>1, <4>1
      <4> QED  BY Zenon, <4>2 DEF Terminal
    <3>5. \A j \in 1 .. i - 1 : j \in DOMAIN queue[p]
      <4>1. queue[p] \in Entries /\ i \in DOMAIN queue[p]
        BY Zenon, <3>2 DEF QueueInv, OldestIn
      <4> QED  BY <4>1 DEF Entries
    <3>6. i \in OldestIn(queue'[p])
      BY Zenon, <2>1, <3>2, <3>3, <3>4, <3>5 DEF OldestIn
    <3> QED  BY Zenon, <3>6
  <2>4. \A q \in Participants : worker'[q].step # "idle" => OldestIn(queue'[q]) # {}
    BY Zenon, <1>2, <2>1, <2>3 DEF QueueInv
  <2>5. UnderReview => UnderReview'
    <3>1. "manual_review" \in Terminal
      BY Zenon DEF Terminal
    <3>2. SUFFICES ASSUME NEW q \in Participants, NEW i \in DOMAIN queue[q],
                          queue[q][i].status = "manual_review"
                   PROVE  i \in DOMAIN queue'[q] /\ queue'[q][i].status = "manual_review"
      BY Zenon DEF UnderReview
    <3>3. i \notin OldestIn(queue[q])
      BY Zenon, <3>1, <3>2 DEF OldestIn
    <3> QED  BY Zenon, <1>0, <2>1, <3>2, <3>3
  <2> QED  BY Zenon, <2>1, <2>2, <2>4, <2>5 DEF QueueInv
<1>3. ASSUME NEW o \in Orders, Enqueue(o), worker' = worker
      PROVE  QueueInv' /\ (UnderReview => UnderReview')
  <2>1. PICK p, x : /\ path # "collaborative" /\ x = [order |-> o, status |-> "queued"]
                    /\ queue' = [queue EXCEPT ![p] = Append(queue[p], x)]
    BY Zenon, <1>3 DEF Enqueue
  <2>2. x \in [order : Orders, status : Status]
    BY Zenon, <2>1 DEF Status
  <2>3. ASSUME NEW q \in Participants
        PROVE  /\ queue'[q] \in Entries
               /\ DOMAIN queue[q] \subseteq DOMAIN queue'[q]
               /\ \A i \in DOMAIN queue[q] : /\ queue'[q][i] = queue[q][i]
                                             /\ i \in Nat /\ 1 .. i - 1 \subseteq DOMAIN queue[q]
    <3>1. PICK s : s = queue[q] /\ s \in Entries
      BY Zenon DEF QueueInv
    <3>2. \A T : s \in Seq(T) /\ x \in T =>
            /\ Append(s, x) \in Seq(T) /\ DOMAIN s \subseteq DOMAIN Append(s, x)
            /\ \A i \in DOMAIN s : Append(s, x)[i] = s[i] /\ i \in Nat /\ 1 .. i - 1 \subseteq DOMAIN s
      OBVIOUS
    <3>3. queue'[q] = s \/ queue'[q] = Append(s, x)
      BY Zenon, <2>1, <3>1 DEF QueueInv
    <3>4. \A i \in DOMAIN s : i \in Nat /\ 1 .. i - 1 \subseteq DOMAIN s
      BY <3>1 DEF Entries
    <3> QED  BY Zenon, <2>2, <3>1, <3>2, <3>3, <3>4 DEF Entries
  <2>4. queue' \in [Participants -> Entries]
    BY Zenon, <2>1, <2>3 DEF QueueInv
  <2>5. \A q \in Participants : OldestIn(queue[q]) \subseteq OldestIn(queue'[q])
    BY Zenon, <2>3 DEF OldestIn
  <2>6. UnderReview => UnderReview'
    BY Zenon, <2>3 DEF UnderReview
  <2> QED  BY Zenon, <1>3, <2>1, <2>4, <2>5, <2>6 DEF QueueInv
<1> QED  BY Zenon, <1>1, <1>2, <1>3 DEF QueueAction

\* dispatch_with marks the entry it has claimed, or leaves it for a retry.
LEMMA DispatchedMoves ==
    ASSUME SequenceInv, QueueInv, NEW p \in Participants, worker[p].step # "idle",
           NEW outcome \in {"executed", "rejected", "uncertain", "retry"}, Dispatched(p, outcome)
    PROVE  QueueAction
<1>1. worker' = [worker EXCEPT ![p] = Idle]
  BY Zenon DEF Dispatched
<1>2. worker'[p].step = "idle" /\ \A q \in Participants : q # p => worker'[q] = worker[q]
  BY Zenon, <1>1 DEF SequenceInv, Idle
<1>3. Oldest(p) # {}
  BY Zenon DEF QueueInv, Oldest, OldestIn
<1>4. queue' = queue \/ \E st \in Status : queue' = Marked(p, st)
  BY Zenon DEF Dispatched, Status, Terminal
<1> QED  BY Zenon, <1>2, <1>3, <1>4 DEF QueueAction

\* When execute fails, the request is under manual review.
LEMMA FailReviews ==
    ASSUME SequenceInv, QueueInv, NEW p \in Participants, worker[p].step # "idle", Fail(p)
    PROVE  UnderReview'
<1>1. queue' = Marked(p, "manual_review")
  BY Zenon DEF Fail, Dispatched
<1>2. PICK i : i \in Oldest(p)
  BY Zenon DEF QueueInv, Oldest, OldestIn
<1>3. PICK m : m = Marked(p, "manual_review")
  OBVIOUS
<1>4. i \in DOMAIN queue[p]
  BY Zenon, <1>2 DEF Oldest
<1>5. "manual_review" \in Status
  BY Zenon DEF Status, Terminal
<1>6. i \in DOMAIN m[p] /\ m[p][i].status = "manual_review"
  BY Zenon, <1>2, <1>3, <1>4, <1>5, MarkedQueue DEF QueueInv
<1> QED  BY Zenon, <1>1, <1>3, <1>6 DEF UnderReview

\* The outboxes keep their invariant, and nothing that is under review is
\* lost.
LEMMA QueueStep ==
    ASSUME SequenceInv, QueueInv, [Next]_vars
    PROVE  QueueInv' /\ (UnderReview => UnderReview') /\ path' = path
<1>1. path' = path
  BY Zenon DEF Next, vars, Enqueue, Cancel, Admit, Claim, ExecuteLocal, ExecuteUnrecorded, Prepare,
     Propose, Finalize, CallFails, LedgerSettle, LedgerUnconfirmed, Accept, AcceptUnrecorded,
     Expire, Tick
<1>2. ASSUME queue' = queue, worker' = worker PROVE QueueAction
  BY Zenon, <1>2 DEF QueueAction
<1>3. ASSUME NEW p \in Participants, queue' = queue, worker[p].step # "idle",
             NEW w, worker' = [worker EXCEPT ![p] = w]
      PROVE  QueueAction
  <2>1. \A q \in Participants : q # p => worker'[q] = worker[q]
    BY Zenon, <1>3 DEF SequenceInv
  <2> QED  BY Zenon, <1>3, <2>1 DEF QueueAction
<1>4. ASSUME NEW p \in Participants, Claim(p) PROVE QueueAction
  <2>1. Oldest(p) # {} /\ worker[p] = Idle
    BY Zenon, <1>4 DEF Claim
  <2>2. CASE queue' = Marked(p, "aborted") /\ worker' = worker
    <3>1. "aborted" \in Status /\ worker'[p].step = "idle"
      BY <2>1, <2>2 DEF Status, Terminal, Idle
    <3> QED  BY Zenon, <2>1, <2>2, <3>1 DEF QueueAction
  <2>3. CASE \E w : queue' = Marked(p, "dispatching") /\ worker' = [worker EXCEPT ![p] = w]
    <3>1. "dispatching" \in Status
      BY Zenon DEF Status
    <3>2. \A q \in Participants : q # p => worker'[q] = worker[q]
      BY Zenon, <2>3 DEF SequenceInv
    <3> QED  BY Zenon, <2>1, <2>3, <3>1, <3>2 DEF QueueAction
  <2> QED  BY Zenon, <1>4, <2>2, <2>3 DEF Claim
<1>5. ASSUME NEW p \in Participants,
             \/ ExecuteLocal(p) \/ ExecuteUnrecorded(p) \/ Prepare(p) \/ Propose(p)
             \/ Finalize(p) \/ CallFails(p) \/ LedgerSettle(p) \/ LedgerUnconfirmed(p)
             \/ Accept(p) \/ AcceptUnrecorded(p)
      PROVE  QueueAction
  <2>1. worker[p].step # "idle"
    BY Zenon, <1>5 DEF ExecuteLocal, ExecuteUnrecorded, Prepare, Propose, Finalize, CallFails,
       LedgerSettle, LedgerUnconfirmed, Accept, AcceptUnrecorded
  <2>2. \/ \E outcome \in {"executed", "rejected", "uncertain", "retry"} : Dispatched(p, outcome)
        \/ queue' = queue /\ \E w : worker' = [worker EXCEPT ![p] = w]
    <3>1. CASE ExecuteLocal(p) \/ ExecuteUnrecorded(p)
      BY Zenon, <3>1 DEF ExecuteLocal, ExecuteUnrecorded
    <3>2. CASE Fail(p)
      BY Zenon, <3>2 DEF Fail
    <3>3. CASE (Prepare(p) \/ Propose(p) \/ Finalize(p)) /\ ~Fail(p)
      BY Zenon, <3>3 DEF Prepare, Propose, Finalize, Prepared
    <3>4. CASE CallFails(p) \/ LedgerUnconfirmed(p)
      BY Zenon, <3>2, <3>4 DEF CallFails, LedgerUnconfirmed
    <3>5. CASE LedgerSettle(p) /\ ~Fail(p)
      <4>1. queue' = queue /\ worker' = [worker EXCEPT ![p].step = "settled"]
        BY Zenon, <3>5 DEF LedgerSettle
      <4> QED  BY Zenon, <4>1
    <3>6. CASE (Accept(p) \/ AcceptUnrecorded(p)) /\ ~Fail(p)
      BY Zenon, <3>6 DEF Accept, AcceptUnrecorded
    <3> QED  BY Zenon, <1>5, <3>1, <3>2, <3>3, <3>4, <3>5, <3>6
  <2> QED  BY Zenon, <1>3, <2>1, <2>2, DispatchedMoves
<1>6. ASSUME \/ UNCHANGED vars \/ Expire \/ Tick
             \/ \E o \in Orders : Enqueue(o) \/ Cancel(o) \/ Admit(o)
      PROVE  QueueAction
  BY Zenon, <1>2, <1>6 DEF vars, Expire, Tick, Cancel, Admit, Enqueue, QueueAction
<1>7. QueueAction
  BY Zenon, <1>4, <1>5, <1>6 DEF Next
<1> QED  BY Zenon, <1>1, <1>7, QueueMoves

\* The accounts of an engine do not show its height.
LEMMA SameAccounts ==
    ASSUME NEW c, IsEngine(c), NEW h, NEW e, e = [c EXCEPT !.height = h]
    PROVE  IsEngine(e) /\ Accounts(e) = Accounts(c) /\ e.records = c.records
<1>1. /\ IsEngine(e) /\ e.cash = c.cash /\ e.securities = c.securities /\ e.entity = c.entity
      /\ e.records = c.records /\ e.capacity = c.capacity
  BY HeightReplaced
<1> QED  BY Zenon, <1>1 DEF Accounts

\* Snapshot and Base carry the accounts of the engine.
LEMMA BaseAccounts ==
    ASSUME NEW s
    PROVE  /\ Base(s).settlement = Snapshot(s.engine)
           /\ Snapshot(s.engine).accounts = Accounts(s.engine)
           /\ Known(Accounts(s.engine)) = DOMAIN s.engine.records
           /\ DOMAIN Accounts(s.engine) = {"cash", "securities", "reservations"}
  BY Zenon DEF Base, Snapshot, Known, Accounts

\* accept installs the engine that the ledger has taken, and keeps every
\* reservation of the service.
LEMMA AcceptedShows ==
    ASSUME NEW w, w.step = "settled", Carries(w, service), Reserves(w),
           NEW h, NEW s \in Accepted(w, h)
    PROVE  /\ IsEngine(s.engine)
           /\ Accounts(s.engine) = Accounts(w.transition.candidate)
           /\ DOMAIN service.engine.records \subseteq DOMAIN s.engine.records
<1>1. PICK e \in AcceptTransition(w.next.engine, w.transition, h) :
        w.base = Base(service) /\ s = [w.next EXCEPT !.engine = e]
  BY Zenon DEF Accepted, Fresh
<1>2. s.engine = e
  <2>1. IsService(w.next)
    BY Zenon DEF Carries, Carried, InProgress
  <2> QED  BY <1>1, <2>1, EngineReplaced
<1>3. e = [w.transition.candidate EXCEPT !.height = h]
  BY Zenon, <1>1 DEF AcceptTransition
<1>4. /\ w.base.settlement = w.transition.base
      /\ Adds(w.transition.base.accounts, w.order, w.transition.candidate)
  BY Zenon DEF Reserves
<1>5. /\ IsEngine(e) /\ Accounts(e) = Accounts(w.transition.candidate)
      /\ e.records = w.transition.candidate.records
  BY Zenon, <1>3, <1>4, SameAccounts DEF Adds
<1>6. w.transition.base.accounts = Accounts(service.engine)
  BY Zenon, <1>1, <1>4, BaseAccounts
<1>7. DOMAIN service.engine.records \subseteq DOMAIN w.transition.candidate.records
  BY Zenon, <1>4, <1>6, BaseAccounts DEF Adds
<1> QED  BY Zenon, <1>2, <1>5, <1>7

\* A submission that is prepared from the present service reserves its order.
LEMMA PreparedReserves ==
    ASSUME IsEngine(service.engine), NEW p, NEW o, NEW staged, Prepared(p, o, staged),
           Adds(Accounts(service.engine), o, staged.service.engine)
    PROVE  \E w : /\ worker' = [worker EXCEPT ![p] = w] /\ w.step = "prepared"
                 /\ Reserves(w) /\ Reaches(w, service)
<1>1. PICK t \in Transitions(o, staged) : worker' = [worker EXCEPT ![p] =
            [step |-> "prepared", order |-> o, base |-> Base(service), transition |-> t,
             next |-> [staged.service EXCEPT !.engine = service.engine]]]
  BY Zenon DEF Prepared
<1>2. PICK w : /\ w = [step |-> "prepared", order |-> o, base |-> Base(service), transition |-> t,
                       next |-> [staged.service EXCEPT !.engine = service.engine]]
               /\ worker' = [worker EXCEPT ![p] = w]
  BY Zenon, <1>1
<1>3. t.base = Snapshot(service.engine) /\ Adds(Accounts(service.engine), o, t.candidate)
  <2>1. \/ t \in PrepareReservation(service.engine, staged.service.engine, o, now)
        \/ t \in PrepareAdmissionBatch(service.engine, staged.service.engine, staged.fills, o,
                                        staged.remaining, now)
    BY Zenon, <1>1 DEF Transitions
  <2> QED  BY Zenon, <2>1, TransitionAdds
<1>4. /\ w.step = "prepared" /\ w.order = o /\ w.base = Base(service) /\ w.transition = t
  BY Zenon, <1>2
<1>5. w.step # "pending"
  BY Zenon, <1>4
<1>6. Reserves(w)
  BY Zenon, <1>3, <1>4, <1>5, BaseAccounts DEF Reserves
<1>7. Reaches(w, service)
  BY Zenon, <1>4, BaseAccounts DEF Reaches
<1> QED  BY Zenon, <1>2, <1>4, <1>6, <1>7

\* What the step from service and workers to the next ones must establish.
NextInStep ==
    /\ IsEngine(service'.engine)
    /\ \A p \in Participants : Reserves(worker'[p]) /\ Reaches(worker'[p], service')
    /\ UnderReview' \/ InStep'

\* A worker that is idle or has claimed a request has nothing to reserve.
LEMMA NothingReserved ==
    ASSUME NEW w, NEW s, w.step \notin InProgress
    PROVE  Reserves(w) /\ Reaches(w, s)
  BY Zenon DEF Reserves, Reaches, InProgress

\* In particular an idle worker.
LEMMA IdleReserves == Idle.step = "idle" /\ \A s : Reserves(Idle) /\ Reaches(Idle, s)
  BY Zenon, NothingReserved DEF Idle, InProgress

\* Steps that touch neither ledger nor service: one worker goes on, short of
\* the ledger.
LEMMA WorkerGoesOn ==
    ASSUME SequenceInv, LedgerInv, path # "local", UnderReview => UnderReview',
           service' = service, ledger' = ledger,
           \/ worker' = worker
           \/ \E p \in Participants : \E w :
                /\ worker' = [worker EXCEPT ![p] = w]
                /\ worker[p].step # "settled" /\ w.step # "settled"
                /\ Reserves(w) /\ Reaches(w, service)
    PROVE  NextInStep
<1>1. CASE worker' = worker
  <2>1. \A q \in Participants : Settling(q)' <=> Settling(q)
    BY Zenon, <1>1 DEF Settling
  <2>2. UnderReview' \/ InStep'
    BY Zenon, <1>1, <2>1 DEF LedgerInv, InStep
  <2> QED  BY Zenon, <1>1, <2>2 DEF NextInStep, LedgerInv
<1>2. ASSUME NEW p \in Participants, NEW w, worker' = [worker EXCEPT ![p] = w],
             worker[p].step # "settled", w.step # "settled", Reserves(w), Reaches(w, service)
      PROVE  NextInStep
  <2>1. worker'[p] = w /\ \A q \in Participants : q # p => worker'[q] = worker[q]
    BY Zenon, <1>2 DEF SequenceInv
  <2>2. \A q \in Participants : /\ Settling(q)' <=> Settling(q)
                                /\ Settling(q) => worker'[q] = worker[q]
    BY Zenon, <1>2, <2>1 DEF Settling
  <2>3. \A q \in Participants : Reserves(worker'[q]) /\ Reaches(worker'[q], service')
    BY Zenon, <1>2, <2>1 DEF LedgerInv
  <2>4. UnderReview' \/ InStep'
    BY Zenon, <2>2 DEF LedgerInv, InStep
  <2> QED  BY Zenon, <2>3, <2>4 DEF NextInStep, LedgerInv
<1> QED  BY Zenon, <1>1, <1>2

\* A failed call leaves its request under review.
LEMMA WorkerFails ==
    ASSUME SequenceInv, LedgerInv, path # "local", NEW p \in Participants,
           worker[p].step # "idle", Fail(p), service' = service
    PROVE  NextInStep
<1>1. worker' = [worker EXCEPT ![p] = Idle]
  BY Zenon DEF Fail, Dispatched
<1>2. worker'[p] = Idle /\ \A q \in Participants : q # p => worker'[q] = worker[q]
  BY Zenon, <1>1 DEF SequenceInv
<1>3. UnderReview'
  BY Zenon, FailReviews DEF LedgerInv
<1> QED  BY Zenon, <1>2, <1>3, IdleReserves DEF NextInStep, LedgerInv

\* A transition that is prepared on the service's accounts, with an order
\* the service does not have, is the only one the ledger takes: settle.
LEMMA WorkerSettles ==
    ASSUME SequenceInv, LedgerInv, path # "local", UnderReview => UnderReview',
           NEW p \in Participants, worker[p].step = "prepared",
           LedgerTakes(worker[p].transition), ledger' = Moved(worker[p].transition),
           worker' = [worker EXCEPT ![p].step = "settled"], service' = service
    PROVE  NextInStep
<1>1. PICK v, w : /\ v = worker[p] /\ w = [v EXCEPT !.step = "settled"]
                  /\ worker' = [worker EXCEPT ![p] = w]
  OBVIOUS
<1>2. /\ w.step = "settled" /\ w.order = v.order /\ w.base = v.base /\ w.transition = v.transition
      /\ v.step = "prepared"
  <2>1. v = [step |-> v.step, order |-> v.order, base |-> v.base,
             transition |-> v.transition, next |-> v.next]
    BY Zenon, <1>1 DEF SequenceInv, Carries
  <2>2. w = [step |-> "settled", order |-> v.order, base |-> v.base,
             transition |-> v.transition, next |-> v.next]
    BY Zenon, <1>1, <2>1
  <2> QED  BY Zenon, <1>1, <2>2
<1>3. worker'[p] = w /\ \A q \in Participants : q # p => worker'[q] = worker[q]
  BY Zenon, <1>1 DEF SequenceInv
<1>4. Reserves(v) /\ Reaches(v, service)
  BY Zenon, <1>1 DEF LedgerInv
<1>5. /\ v.base.settlement = v.transition.base
      /\ DOMAIN v.transition.base.accounts = {"cash", "securities", "reservations"}
      /\ Adds(v.transition.base.accounts, v.order, v.transition.candidate)
  BY Zenon, <1>2, <1>4 DEF Reserves
<1>6. Reserves(w) /\ Reaches(w, service')
  <2>1. w.step # "pending" /\ w.step \in InProgress /\ v.step \in InProgress
    BY Zenon, <1>2 DEF InProgress
  <2> QED  BY Zenon, <1>2, <1>4, <1>5, <2>1 DEF Reserves, Reaches
<1>7. \A q \in Participants : Reserves(worker'[q]) /\ Reaches(worker'[q], service')
  BY Zenon, <1>3, <1>6 DEF LedgerInv
<1>8. CASE UnderReview
  BY Zenon, <1>7, <1>8 DEF NextInStep, LedgerInv
<1>9. CASE ~UnderReview
  <2>1. InStep
    BY Zenon, <1>9 DEF LedgerInv
  <2>2. ledger = {} \/ \E l \in ledger : l.accounts = v.transition.base.accounts
    BY Zenon, <1>1 DEF LedgerTakes, Bootstrapped
  <2>3. /\ ledger = {} \/ \E l : ledger = {l} /\ l.accounts = v.transition.base.accounts
        /\ \A q \in Participants : ~Settling(q)
        /\ v.order \notin DOMAIN service.engine.records
    <3>1. CASE /\ ledger = {} /\ service = NewService
               /\ \A q \in Participants : ~Settling(q)
      BY <3>1 DEF NewService, NewEngine
    <3>2. ASSUME NEW l, ledger = {l}, l.accounts = Accounts(service.engine),
                 \A q \in Participants : ~Settling(q)
          PROVE  /\ l.accounts = v.transition.base.accounts
                 /\ v.order \notin DOMAIN service.engine.records
      BY Zenon, <1>5, <2>2, <3>2, BaseAccounts DEF Adds
    <3>3. ASSUME NEW l, NEW q \in Participants, ledger = {l}, Settling(q),
                 l.accounts = Accounts(worker[q].transition.candidate),
                 worker[q].order \notin DOMAIN service.engine.records
          PROVE  FALSE
      <4>1. v.transition.base.accounts = Accounts(worker[q].transition.candidate)
        BY Zenon, <2>2, <3>3
      <4>2. Known(v.transition.base.accounts) \subseteq DOMAIN service.engine.records
        BY Zenon, <1>2, <1>4, <1>5 DEF Reaches, InProgress
      <4>3. worker[q].order \in DOMAIN worker[q].transition.candidate.records
        BY Zenon, <3>3 DEF LedgerInv, Reserves, Settling, Adds
      <4>4. Known(Accounts(worker[q].transition.candidate)) =
                DOMAIN worker[q].transition.candidate.records
        BY Zenon DEF Known, Accounts
      <4> QED  BY Zenon, <3>3, <4>1, <4>2, <4>3, <4>4
    <3> QED  BY Zenon, <2>1, <3>1, <3>2, <3>3 DEF InStep
  <2>4. PICK l : ledger' = {l} /\ l.accounts = Accounts(v.transition.candidate)
    BY Zenon, <1>1, <1>5, <2>3, MovedShows
  <2>5. \A q \in Participants : Settling(q)' => q = p
    BY Zenon, <1>3, <2>3 DEF Settling
  <2>6. /\ Settling(p)' /\ l.accounts = Accounts(worker'[p].transition.candidate)
        /\ worker'[p].order \notin DOMAIN service'.engine.records
    BY Zenon, <1>2, <1>3, <2>3, <2>4 DEF Settling
  <2>7. InStep'
    BY Zenon, <2>4, <2>5, <2>6 DEF InStep
  <2> QED  BY Zenon, <1>7, <2>7 DEF NextInStep, LedgerInv
<1> QED  BY Zenon, <1>8, <1>9

\* accept catches the service up with the ledger: PreparedOclobSubmission.
LEMMA WorkerAccepts ==
    ASSUME SequenceInv, LedgerInv, path # "local", UnderReview => UnderReview',
           NEW p \in Participants, worker[p].step = "settled",
           NEW h, service' \in Accepted(worker[p], h),
           worker' = [worker EXCEPT ![p] = Idle], ledger' = ledger
    PROVE  NextInStep
<1>1. worker'[p] = Idle /\ \A q \in Participants : q # p => worker'[q] = worker[q]
  BY Zenon DEF SequenceInv
<1>2. /\ IsEngine(service'.engine)
      /\ Accounts(service'.engine) = Accounts(worker[p].transition.candidate)
      /\ DOMAIN service.engine.records \subseteq DOMAIN service'.engine.records
  BY Zenon, AcceptedShows DEF SequenceInv, LedgerInv
<1>3. \A q \in Participants : Reserves(worker'[q]) /\ Reaches(worker'[q], service')
  BY Zenon, <1>1, <1>2, IdleReserves DEF LedgerInv, Reaches
<1>4. ASSUME InStep PROVE InStep'
  <2>1. PICK l : /\ ledger = {l} /\ l.accounts = Accounts(worker[p].transition.candidate)
                 /\ \A q \in Participants : Settling(q) => q = p
    BY Zenon, <1>4 DEF InStep, Settling
  <2>2. Idle.step # "settled"
    BY Zenon, IdleReserves
  <2>3. \A q \in Participants : ~Settling(q)'
    BY Zenon, <1>1, <2>1, <2>2 DEF Settling
  <2> QED  BY Zenon, <1>2, <2>1, <2>3 DEF InStep
<1> QED  BY Zenon, <1>2, <1>3, <1>4 DEF NextInStep, LedgerInv

\* One admission of the acceptance program moves ledger and service together.
LEMMA AdmitInStep ==
    ASSUME SequenceInv, LedgerInv, NEW o \in Orders, Admit(o), UnderReview => UnderReview'
    PROVE  NextInStep
<1>1. PICK staged \in Staged(service, o) :
      \E t \in IF staged.fills = <<>>
               THEN PrepareReservation(service.engine, staged.service.engine, o, now)
               ELSE PrepareAdmissionBatchCollaborative(service.engine, staged.service.engine,
                       staged.fills, o, staged.remaining, now) :
        /\ LedgerTakes(t)
        /\ ledger' = Moved(t)
        /\ \E l \in Moved(t) : \E e \in AcceptTransition(service.engine, t, l.height) :
            service' = [staged.service EXCEPT !.engine = e]
  BY Zenon DEF Admit
<1>2. PICK t : /\ \/ t \in PrepareReservation(service.engine, staged.service.engine, o, now)
                  \/ t \in PrepareAdmissionBatchCollaborative(service.engine,
                            staged.service.engine, staged.fills, o, staged.remaining, now)
               /\ LedgerTakes(t)
               /\ ledger' = Moved(t)
               /\ \E l \in Moved(t) : \E e \in AcceptTransition(service.engine, t, l.height) :
                    service' = [staged.service EXCEPT !.engine = e]
  BY Zenon, <1>1
<1>3. PICK h : \E e \in AcceptTransition(service.engine, t, h) :
                    service' = [staged.service EXCEPT !.engine = e]
  BY Zenon, <1>2
<1>4. PICK e : /\ e = [t.candidate EXCEPT !.height = h]
               /\ service' = [staged.service EXCEPT !.engine = e]
  BY Zenon, <1>3 DEF AcceptTransition
<1>5. path # "local" /\ IsEngine(service.engine) /\ worker' = worker
  BY Zenon DEF Admit, LedgerInv
<1>6. t.base = Snapshot(service.engine) /\ Adds(Accounts(service.engine), o, t.candidate)
  <2>1. Adds(Accounts(service.engine), o, staged.service.engine)
    BY Zenon, <1>5, StagedAdds
  <2> QED  BY Zenon, <1>2, <2>1, TransitionAdds
<1>7. service'.engine = e
  <2>1. IsService(staged.service)
    BY Zenon, StagedExtends DEF SequenceInv
  <2> QED  BY <1>4, <2>1, EngineReplaced
<1>8. IsEngine(e) /\ Accounts(e) = Accounts(t.candidate) /\ e.records = t.candidate.records
  BY Zenon, <1>4, <1>6, SameAccounts DEF Adds
<1>9. \A q \in Participants : worker[q].step = "idle"
  <2>1. \A q \in Participants : queue[q] = <<>>
    BY Zenon DEF Admit, LedgerInv, QueueInv
  <2>2. OldestIn(<<>>) = {}
    BY DEF OldestIn
  <2> QED  BY Zenon, <2>1, <2>2 DEF LedgerInv, QueueInv
<1>10. \A q \in Participants : Reserves(worker'[q]) /\ Reaches(worker'[q], service')
  <2>1. "idle" \notin InProgress
    BY Zenon DEF InProgress
  <2> QED  BY Zenon, <1>5, <1>9, <2>1, NothingReserved
<1>11. /\ t.base.accounts = Accounts(service.engine)
       /\ DOMAIN t.base.accounts = {"cash", "securities", "reservations"}
  BY Zenon, <1>6, BaseAccounts
<1>12. ASSUME InStep PROVE InStep'
  <2>1. \A q \in Participants : ~Settling(q) /\ ~Settling(q)'
    BY Zenon, <1>5, <1>9 DEF Settling
  <2>2. ledger = {} \/ \E l : ledger = {l} /\ l.accounts = t.base.accounts
    BY Zenon, <1>11, <1>12, <2>1 DEF InStep
  <2>3. PICK l : ledger' = {l} /\ l.accounts = Accounts(t.candidate)
    BY Zenon, <1>2, <1>11, <2>2, MovedShows
  <2> QED  BY Zenon, <1>7, <1>8, <2>1, <2>3 DEF InStep
<1> QED  BY Zenon, <1>5, <1>7, <1>8, <1>10, <1>12 DEF NextInStep, LedgerInv

\* A worker that holds a staged submission proposes it with the state that it
\* was staged on.
LEMMA ProposedReserves ==
    ASSUME IsEngine(service.engine), NEW o, NEW staged \in Staged(service, o), NEW w,
           w = [step |-> "pending", order |-> o, base |-> Base(service), staged |-> staged]
    PROVE  w.step = "pending" /\ Reserves(w) /\ Reaches(w, service)
<1>1. w.step = "pending" /\ w.order = o /\ w.base = Base(service) /\ w.staged = staged
  OBVIOUS
<1>2. Adds(Accounts(service.engine), o, staged.service.engine)
  BY Zenon, StagedAdds
<1>3. Reserves(w)
  BY Zenon, <1>1, <1>2, BaseAccounts DEF Reserves
<1>4. Reaches(w, service)
  BY Zenon, <1>1, BaseAccounts DEF Reaches
<1> QED  BY Zenon, <1>1, <1>3, <1>4

\* Every step keeps ledger and service in step, whatever fails and in
\* whatever order the workers run.
LEMMA LedgerStep ==
    ASSUME SequenceInv, LedgerInv, [Next]_vars
    PROVE  LedgerInv'
<1>1. QueueInv' /\ (UnderReview => UnderReview') /\ path' = path
  BY Zenon, QueueStep DEF LedgerInv
<1>2. CASE path = "local"
  BY Zenon, <1>1, <1>2 DEF LedgerInv
<1>3. CASE path # "local"
  <2> USE <1>3
  <2>0. IsEngine(service.engine) /\ \A p \in Participants : Reserves(worker[p])
    BY Zenon DEF LedgerInv
  <2>1. SUFFICES NextInStep
    BY Zenon, <1>1, <2>1 DEF LedgerInv, NextInStep
  <2>2. ASSUME worker' = worker, service' = service, ledger' = ledger PROVE NextInStep
    BY Zenon, <1>1, <2>2, WorkerGoesOn
  <2>3. ASSUME NEW p \in Participants, NEW w, service' = service, ledger' = ledger,
               worker' = [worker EXCEPT ![p] = w],
               worker[p].step # "settled", w.step # "settled", Reserves(w), Reaches(w, service)
        PROVE  NextInStep
    BY Zenon, <1>1, <2>3, WorkerGoesOn
  <2>4. ASSUME NEW p \in Participants, worker[p].step # "idle", Fail(p), service' = service
        PROVE  NextInStep
    BY Zenon, <2>4, WorkerFails
  <2>5. ASSUME NEW p \in Participants, Claim(p) PROVE NextInStep
    <3>1. service' = service /\ ledger' = ledger /\ worker[p] = Idle
      BY Zenon, <2>5 DEF Claim
    <3>2. \/ worker' = worker
          \/ \E o : worker' = [worker EXCEPT ![p] = [step |-> "claimed", order |-> o]]
      BY Zenon, <2>5 DEF Claim
    <3>3. \A o : LET w == [step |-> "claimed", order |-> o]
                 IN  w.step # "settled" /\ w.step \notin InProgress
      BY Zenon DEF InProgress
    <3>4. worker[p].step # "settled"
      BY <3>1 DEF Idle
    <3> QED  BY Zenon, <2>2, <2>3, <3>1, <3>2, <3>3, <3>4, NothingReserved
  <2>6. ASSUME NEW p \in Participants, NEW o, NEW staged, Prepared(p, o, staged),
               Adds(Accounts(service.engine), o, staged.service.engine),
               service' = service, ledger' = ledger, worker[p].step # "settled"
        PROVE  NextInStep
    <3>1. PICK w : /\ worker' = [worker EXCEPT ![p] = w] /\ w.step = "prepared"
                   /\ Reserves(w) /\ Reaches(w, service)
      BY Zenon, <2>0, <2>6, PreparedReserves
    <3>2. w.step # "settled"
      BY Zenon, <3>1
    <3> QED  BY Zenon, <2>3, <2>6, <3>1, <3>2
  <2>7. ASSUME NEW o, NEW staged \in NativeStaged(o) PROVE staged \in Staged(service, o)
    BY Zenon, <2>7 DEF NativeStaged
  <2>8. ASSUME NEW p \in Participants, Prepare(p) PROVE NextInStep
    <3>1. /\ service' = service /\ ledger' = ledger
          /\ worker[p].step # "settled" /\ worker[p].step # "idle"
      BY Zenon, <2>8 DEF Prepare
    <3>2. ASSUME NEW o, NEW staged \in NativeStaged(o), Prepared(p, o, staged)
          PROVE  NextInStep
      <4>1. Adds(Accounts(service.engine), o, staged.service.engine)
        BY Zenon, <2>0, <2>7, <3>2, StagedAdds
      <4> QED  BY Zenon, <2>6, <3>1, <3>2, <4>1
    <3> QED  BY Zenon, <2>4, <2>8, <3>1, <3>2 DEF Prepare
  <2>9. ASSUME NEW p \in Participants, Propose(p) PROVE NextInStep
    <3>1. /\ service' = service /\ ledger' = ledger
          /\ worker[p].step # "settled" /\ worker[p].step # "idle"
      BY Zenon, <2>9 DEF Propose
    <3>2. ASSUME NEW o, NEW staged \in NativeStaged(o),
                 worker' = [worker EXCEPT ![p] =
                    [step |-> "pending", order |-> o, base |-> Base(service), staged |-> staged]]
          PROVE  NextInStep
      <4>1. PICK w : /\ w = [step |-> "pending", order |-> o, base |-> Base(service),
                             staged |-> staged]
                     /\ worker' = [worker EXCEPT ![p] = w]
        BY Zenon, <3>2
      <4>2. w.step = "pending" /\ Reserves(w) /\ Reaches(w, service)
        BY Zenon, <2>0, <2>7, <3>2, <4>1, ProposedReserves
      <4>3. w.step # "settled"
        BY Zenon, <4>2
      <4> QED  BY Zenon, <2>3, <3>1, <4>1, <4>2, <4>3
    <3> QED  BY Zenon, <2>4, <2>9, <3>1, <3>2 DEF Propose
  <2>10. ASSUME NEW p \in Participants, Finalize(p) PROVE NextInStep
    <3>1. /\ service' = service /\ ledger' = ledger
          /\ worker[p].step # "settled" /\ worker[p].step # "idle" /\ worker[p].step = "pending"
      BY Zenon, <2>10 DEF Finalize
    <3>2. ASSUME Fresh(worker[p].base), Prepared(p, worker[p].order, worker[p].staged)
          PROVE  NextInStep
      <4>1. Adds(Accounts(service.engine), worker[p].order, worker[p].staged.service.engine)
        BY Zenon, <2>0, <3>1, <3>2, BaseAccounts DEF Fresh, Reserves
      <4> QED  BY Zenon, <2>6, <3>1, <3>2, <4>1
    <3> QED  BY Zenon, <2>4, <2>10, <3>1, <3>2 DEF Finalize
  <2>11. ASSUME NEW p \in Participants, CallFails(p) PROVE NextInStep
    BY Zenon, <2>4, <2>11 DEF CallFails
  <2>12. ASSUME NEW p \in Participants, LedgerSettle(p) PROVE NextInStep
    <3>1. service' = service /\ worker[p].step = "prepared" /\ worker[p].step # "idle"
      BY Zenon, <2>12 DEF LedgerSettle
    <3> QED  BY Zenon, <1>1, <2>4, <2>12, <3>1, WorkerSettles DEF LedgerSettle
  <2>13. ASSUME NEW p \in Participants, LedgerUnconfirmed(p) PROVE NextInStep
    <3>1. service' = service /\ worker[p].step # "idle"
      BY Zenon, <2>13 DEF LedgerUnconfirmed
    <3> QED  BY Zenon, <2>4, <2>13, <3>1 DEF LedgerUnconfirmed
  <2>14. ASSUME NEW p \in Participants, Accept(p) \/ AcceptUnrecorded(p) PROVE NextInStep
    <3>1. /\ ledger' = ledger /\ worker[p].step = "settled" /\ worker[p].step # "idle"
          /\ \/ \E h : service' \in Accepted(worker[p], h) /\ worker' = [worker EXCEPT ![p] = Idle]
             \/ Fail(p) /\ service' = service
      BY Zenon, <2>14 DEF Accept, AcceptUnrecorded, Dispatched
    <3> QED  BY Zenon, <1>1, <2>4, <3>1, WorkerAccepts
  <2>15. ASSUME NEW o \in Orders, Admit(o) PROVE NextInStep
    BY Zenon, <1>1, <2>15, AdmitInStep
  <2>16. ASSUME NEW o \in Orders, Enqueue(o) \/ Cancel(o) PROVE NextInStep
    BY Zenon, <2>2, <2>16 DEF Enqueue, Cancel
  <2>17. ASSUME NEW p \in Participants, ExecuteLocal(p) \/ ExecuteUnrecorded(p) PROVE NextInStep
    BY Zenon, <2>17 DEF ExecuteLocal, ExecuteUnrecorded
  <2>18. ASSUME Expire \/ Tick \/ UNCHANGED vars PROVE NextInStep
    BY Zenon, <2>2, <2>18 DEF Expire, Tick, vars
  <2> QED
    BY Zenon, <2>5, <2>8, <2>9, <2>10, <2>11, <2>12, <2>13, <2>14, <2>15, <2>16, <2>17, <2>18 DEF Next
<1> QED  BY Zenon, <1>2, <1>3

\* The inductive invariant of every execution.
LEMMA LedgerInvariant == Spec => [](SequenceInv /\ LedgerInv)
<1>1. Init => SequenceInv /\ LedgerInv
  <2> SUFFICES ASSUME Init PROVE SequenceInv /\ LedgerInv
    OBVIOUS
  <2>1. \A p \in Participants : worker[p] = Idle
    BY Zenon DEF Init
  <2>2. \A p \in Participants : queue[p] = <<>>
    BY Zenon DEF Init
  <2>3. QueueInv
    <3>1. queue \in [Participants -> Entries]
      BY DEF Init, Entries
    <3> QED  BY Zenon, <2>1, <2>2, <3>1, IdleReserves DEF QueueInv
  <2>4. SequenceInv
    BY Zenon, <2>1, IdleCarries DEF SequenceInv, Init, NewService, IsService
  <2>5. IsEngine(service.engine)
    BY Zenon DEF Init, NewService, NewEngine, IsEngine
  <2>6. InStep
    <3>1. \A p \in Participants : ~Settling(p)
      BY Zenon, <2>1, IdleReserves DEF Settling
    <3> QED  BY Zenon, <3>1 DEF InStep, Init
  <2> QED  BY Zenon, <2>1, <2>3, <2>4, <2>5, <2>6, IdleReserves DEF LedgerInv
<1>2. SequenceInv /\ LedgerInv /\ [Next]_vars => (SequenceInv /\ LedgerInv)'
  BY Zenon, SequenceStep, LedgerStep
<1> QED  BY <1>1, <1>2, PTL DEF Spec

\* LedgerInStep: on both ledger paths the service is never ahead of the
\* ledger, and behind it only by the one transition that a worker is about to
\* accept, or while a request is under manual review. For any number of
\* participants, orders and faults, whatever the order of the workers.
THEOREM LedgerFollowed == Spec => []LedgerInStep
<1>1. LedgerInv => LedgerInStep
  <2> SUFFICES ASSUME LedgerInv, path # "local" PROVE LedgerInStep
    BY Zenon DEF LedgerInStep
  <2>1. CASE UnderReview
    BY Zenon, <2>1 DEF UnderReview, LedgerInStep
  <2>2. CASE InStep
    <3>1. \A l : l \in {l}
      OBVIOUS
    <3> QED  BY Zenon, <2>2, <3>1 DEF InStep, Settling, LedgerInStep
  <2> QED  BY Zenon, <2>1, <2>2 DEF LedgerInv
<1> QED  BY <1>1, LedgerInvariant, PTL

----------------------------------------------------------------------------
(* Reservations and balances                                               *)

Kinds == {"cash", "securities"}

\* A record covers the worst case of its remainder, and nothing is left of an
\* order whose reservation is not active.
RecordSound(o, r) ==
    /\ r = [remaining_quantity |-> r.remaining_quantity, remaining |-> r.remaining,
            committed |-> r.committed, status |-> r.status]
    /\ r.remaining_quantity \in Nat
    /\ r.remaining = Required(Kind(o.side), o.price, r.remaining_quantity)
    /\ r.status # "active" => r.remaining_quantity = 0

RecordsSound(records) ==
    /\ records = [o \in DOMAIN records |-> records[o]]
    /\ IsFiniteSet(DOMAIN records) /\ DOMAIN records \subseteq Orders
    /\ \A o \in DOMAIN records : RecordSound(o, records[o])

\* What each record adds to the use that an entity makes of a balance.
Terms(records, x, k) ==
    [o \in DOMAIN records |-> IF o.entity = x /\ Kind(o.side) = k THEN records[o].remaining ELSE 0]

Held(records, x, k) == SumFunctionOnSet(Terms(records, x, k), DOMAIN records)

\* Every reservation belongs to a bound handle, and no entity has two.
EntitiesSound(e) ==
    /\ e.entity = [p \in DOMAIN e.entity |-> e.entity[p]]
    /\ DOMAIN e.entity \subseteq Participants
    /\ \A p, q \in DOMAIN e.entity : e.entity[p] = e.entity[q] => p = q
    /\ \A p \in DOMAIN e.entity : e.entity[p] \in DOMAIN e.capacity
    /\ \A o \in DOMAIN e.records :
        o.participant \in DOMAIN e.entity /\ e.entity[o.participant] = o.entity

Balanced(e) ==
    /\ e.cash \in [Participants -> Nat] /\ e.securities \in [Participants -> Nat]
    /\ SumFunctionOnSet(e.cash, Participants) = InitialCash * Cardinality(Participants)
    /\ SumFunctionOnSet(e.securities, Participants) = InitialSecurities * Cardinality(Participants)

Covered(e) ==
    \A p \in DOMAIN e.entity :
        /\ Held(e.records, e.entity[p], "cash") <= e.cash[p]
        /\ Held(e.records, e.entity[p], "securities") <= e.securities[p]

\* What holds also between two fills of a batch.
EngineSound(e) ==
    IsEngine(e) /\ RecordsSound(e.records) /\ EntitiesSound(e) /\ Balanced(e) /\ Covered(e)

\* The cached capacities are the balances.
Refreshed(e) == \A p \in DOMAIN e.entity : e.capacity[e.entity[p]] = Balances(e, p)

\* Worst cases are natural numbers, and nothing is needed for nothing.
LEMMA RequiredFacts ==
    ASSUME NEW k, NEW price \in Nat
    PROVE  /\ \A q \in Nat : Required(k, price, q) \in Nat
           /\ Required(k, price, 0) = 0
<1>1. \A q \in Nat : price * q \in Nat
  OBVIOUS
<1>2. price * 0 = 0
  OBVIOUS
<1> QED  BY Zenon, <1>1, <1>2 DEF Required

\* The amounts of sound records add up.
LEMMA HeldFacts ==
    ASSUME NEW r, RecordsSound(r)
    PROVE  /\ \A o \in DOMAIN r : r[o].remaining \in Nat /\ r[o].remaining_quantity \in Nat
           /\ \A x, k : /\ Ints(Terms(r, x, k), DOMAIN r)
                        /\ Held(r, x, k) \in Int
<1>1. \A o \in DOMAIN r : r[o].remaining \in Nat /\ r[o].remaining_quantity \in Nat
  <2> SUFFICES ASSUME NEW o \in DOMAIN r
               PROVE  r[o].remaining \in Nat /\ r[o].remaining_quantity \in Nat
    BY Zenon
  <2>1. o.price \in Nat
    BY Zenon, AmountsAssumption DEF RecordsSound
  <2>2. RecordSound(o, r[o])
    BY Zenon DEF RecordsSound
  <2>3. /\ r[o].remaining_quantity \in Nat
        /\ r[o].remaining = Required(Kind(o.side), o.price, r[o].remaining_quantity)
    BY Zenon, <2>2 DEF RecordSound
  <2> QED  BY Zenon, <2>1, <2>3, RequiredFacts
<1>2. ASSUME NEW x, NEW k
      PROVE  Ints(Terms(r, x, k), DOMAIN r) /\ Held(r, x, k) \in Int
  <2>1. 0 \in Int /\ Nat \subseteq Int
    OBVIOUS
  <2>2. \A o \in DOMAIN r : Terms(r, x, k)[o] \in Int
    BY Zenon, <1>1, <2>1 DEF Terms
  <2>3. Ints(Terms(r, x, k), DOMAIN r)
    BY Zenon, <2>2 DEF Ints
  <2> QED  BY Zenon, <2>3, SumInt DEF Held, RecordsSound
<1> QED  BY Zenon, <1>1, <1>2

\* What the engine counts as in use is the sum over all records: what is not
\* active adds nothing.
LEMMA InUseIsHeld ==
    ASSUME NEW e, RecordsSound(e.records), NEW x, NEW k
    PROVE  InUse(e, x, k) = Held(e.records, x, k)
<1>1. PICK D, A, f : D = DOMAIN e.records /\ A = Active(e, x, k) /\ f = Terms(e.records, x, k)
  BY Zenon
<1>2. IsFiniteSet(D) /\ A \subseteq D /\ IsFiniteSet(A) /\ Ints(f, D)
  <2>1. A \subseteq D
    BY Zenon, <1>1 DEF Active
  <2> QED  BY Zenon, <1>1, <2>1, FS_Subset, HeldFacts DEF RecordsSound
<1>3. \A o \in D \ A : f[o] = 0
  <2> SUFFICES ASSUME NEW o \in D, o \notin A PROVE f[o] = 0
    BY Zenon
  <2>1. o.price \in Nat /\ RecordSound(o, e.records[o])
    BY Zenon, <1>1, AmountsAssumption DEF RecordsSound
  <2>2. (o.entity = x /\ Kind(o.side) = k) => e.records[o].remaining = 0
    BY Zenon, <1>1, <2>1, RequiredFacts DEF Active, RecordSound
  <2> QED  BY Zenon, <1>1, <2>2 DEF Terms
<1>4. SumFunctionOnSet(f, D) = SumFunctionOnSet(f, A)
  BY Zenon, <1>2, <1>3, SumPart
<1>5. PICK g : g = [o \in A |-> e.records[o].remaining]
  BY Zenon
<1>6. \A o \in A : g[o] = f[o]
  BY Zenon, <1>1, <1>2, <1>5 DEF Active, Terms
<1>7. SumFunctionOnSet(g, A) = SumFunctionOnSet(f, A)
  BY Zenon, <1>2, <1>6, SumSame
<1> QED  BY Zenon, <1>1, <1>4, <1>5, <1>7 DEF InUse, Held

\* When records shrink, so does what is in use; and by as much as one of them
\* shrinks, for the entity and the balance that it is drawn on.
LEMMA HeldFalls ==
    ASSUME NEW r, NEW s, RecordsSound(r), RecordsSound(s), DOMAIN s = DOMAIN r,
           \A o \in DOMAIN r : s[o].remaining <= r[o].remaining
    PROVE  /\ \A x, k : Held(s, x, k) <= Held(r, x, k)
           /\ \A a \in DOMAIN r : \A d \in Int : s[a].remaining <= r[a].remaining - d =>
                Held(s, a.entity, Kind(a.side)) <= Held(r, a.entity, Kind(a.side)) - d
<1>0. 0 <= 0
  OBVIOUS
<1>1. ASSUME NEW x, NEW k
      PROVE  /\ IsFiniteSet(DOMAIN r) /\ Ints(Terms(r, x, k), DOMAIN r)
             /\ Ints(Terms(s, x, k), DOMAIN r)
             /\ \A o \in DOMAIN r : Terms(s, x, k)[o] <= Terms(r, x, k)[o]
  <2>1. \A o \in DOMAIN r : Terms(s, x, k)[o] <= Terms(r, x, k)[o]
    BY Zenon, <1>0 DEF Terms
  <2> QED  BY Zenon, <2>1, HeldFacts DEF RecordsSound
<1>2. \A x, k : Held(s, x, k) <= Held(r, x, k)
  BY Zenon, <1>1, SumLess DEF Held
<1>3. ASSUME NEW a \in DOMAIN r, NEW d \in Int, s[a].remaining <= r[a].remaining - d
      PROVE  Held(s, a.entity, Kind(a.side)) <= Held(r, a.entity, Kind(a.side)) - d
  <2>1. PICK f, g : f = Terms(r, a.entity, Kind(a.side)) /\ g = Terms(s, a.entity, Kind(a.side))
    BY Zenon
  <2>2. g[a] <= f[a] - d
    BY Zenon, <1>3, <2>1 DEF Terms
  <2>3. SumFunctionOnSet(g, DOMAIN r) <= SumFunctionOnSet(f, DOMAIN r) - d
    BY Zenon, <1>1, <2>1, <2>2, SumDrop
  <2> QED  BY Zenon, <2>1, <2>3 DEF Held
<1> QED  BY Zenon, <1>2, <1>3

\* The parts of the engine that Balanced, EntitiesSound and Refreshed read.
Alike(x, e) ==
    /\ x.cash = e.cash /\ x.securities = e.securities
    /\ x.entity = e.entity /\ x.capacity = e.capacity

\* An engine whose records shrink stays sound.
LEMMA RecordsFall ==
    ASSUME NEW e, EngineSound(e), NEW s, RecordsSound(s), DOMAIN s = DOMAIN e.records,
           \A o \in DOMAIN s : s[o].remaining <= e.records[o].remaining,
           NEW x, x = [e EXCEPT !.records = s]
    PROVE  EngineSound(x) /\ x.records = s /\ Alike(x, e)
<1>0. IsEngine(e) /\ EntitiesSound(e) /\ Balanced(e) /\ Covered(e)
  BY Zenon DEF EngineSound
<1>1. IsEngine(x) /\ x.records = s /\ Alike(x, e)
  BY <1>0, RecordsReplaced DEF Alike
<1>2. EntitiesSound(x) /\ Balanced(x)
  <2>1. EntitiesSound(x)
    BY <1>0, <1>1 DEF EntitiesSound, Alike
  <2>2. Balanced(x)
    BY <1>0, <1>1 DEF Balanced, Alike
  <2> QED  BY Zenon, <2>1, <2>2
<1>3. \A y, k : Held(s, y, k) <= Held(e.records, y, k) /\ Held(s, y, k) \in Int
                /\ Held(e.records, y, k) \in Int
  BY Zenon, HeldFalls, HeldFacts DEF EngineSound
<1>4. \A a, b, c \in Int : a <= b /\ b <= c => a <= c
  OBVIOUS
<1>5. \A p \in DOMAIN e.entity : e.cash[p] \in Int /\ e.securities[p] \in Int
  <2>1. \A n \in Nat : n \in Int
    OBVIOUS
  <2> QED  BY Zenon, <2>1 DEF EngineSound, EntitiesSound, Balanced
<1>6. Covered(x)
  <2>1. ASSUME NEW p \in DOMAIN e.entity
        PROVE  /\ Held(s, e.entity[p], "cash") <= e.cash[p]
               /\ Held(s, e.entity[p], "securities") <= e.securities[p]
    <3>1. /\ Held(e.records, e.entity[p], "cash") <= e.cash[p]
          /\ Held(e.records, e.entity[p], "securities") <= e.securities[p]
      BY Zenon, <1>0 DEF Covered
    <3> QED  BY Zenon, <1>3, <1>4, <1>5, <3>1
  <2> QED  BY Zenon, <1>1, <2>1 DEF Covered, Alike
<1> QED  BY Zenon, <1>1, <1>2, <1>6 DEF EngineSound

\* So does one whose records and balances stay as they are: the height is no
\* part of it.
LEMMA AlikeSound ==
    ASSUME NEW e, EngineSound(e), NEW x, IsEngine(x), x.records = e.records, Alike(x, e)
    PROVE  EngineSound(x)
<1>1. EntitiesSound(e) /\ Balanced(e) /\ Covered(e) /\ RecordsSound(e.records)
  BY Zenon DEF EngineSound
<1>2. EntitiesSound(x)
  BY <1>1 DEF EntitiesSound, Alike
<1>3. Balanced(x)
  BY <1>1 DEF Balanced, Alike
<1>4. Covered(x)
  BY Zenon, <1>1 DEF Covered, Alike
<1> QED  BY Zenon, <1>1, <1>2, <1>3, <1>4 DEF EngineSound

\* An engine moved to another height.
LEMMA HeightSound ==
    ASSUME NEW e, EngineSound(e), NEW h, NEW x, x = [e EXCEPT !.height = h]
    PROVE  EngineSound(x) /\ x.records = e.records /\ Alike(x, e)
<1>1. IsEngine(e)
  BY Zenon DEF EngineSound
<1>2. IsEngine(x) /\ x.records = e.records /\ Alike(x, e)
  BY <1>1, HeightReplaced DEF Alike
<1> QED  BY Zenon, <1>2, AlikeSound

\* Engines that are alike have the same capacities and balances.
LEMMA AlikeRefreshed ==
    ASSUME NEW x, NEW e, Alike(x, e), Refreshed(e)
    PROVE  Refreshed(x)
  BY Zenon DEF Alike, Refreshed, Balances

\* The engine with two parts replaced.
Rebound(e, n, c) == [e EXCEPT !.entity = n, !.capacity = c]
Rebooked(e, s, h) == [e EXCEPT !.records = s, !.height = h]
Rebalanced(e, g, c) == [e EXCEPT !.securities = g, !.cash = c]

\* The other parts are as they were when a handle is bound.
LEMMA ReboundEngine ==
    ASSUME NEW e, IsEngine(e), NEW n, NEW c, NEW x, x = Rebound(e, n, c)
    PROVE  /\ IsEngine(x) /\ x.records = e.records /\ x.height = e.height
           /\ x.cash = e.cash /\ x.securities = e.securities
           /\ x.entity = n /\ x.capacity = c
<1>1. PICK y : y = [e EXCEPT !.entity = n, !.capacity = c]
  BY Zenon
<1>2. y = [cash |-> e.cash, securities |-> e.securities, entity |-> n,
           capacity |-> c, records |-> e.records, height |-> e.height]
  BY Zenon, <1>1 DEF IsEngine
<1>3. x = y
  BY Zenon, <1>1 DEF Rebound
<1>4. /\ IsEngine(y) /\ y.records = e.records /\ y.height = e.height
      /\ y.cash = e.cash /\ y.securities = e.securities
      /\ y.entity = n /\ y.capacity = c
  BY Zenon, <1>2 DEF IsEngine
<1> QED  BY Zenon, <1>3, <1>4

\* The same when the reservation book is replaced.
LEMMA RebookedEngine ==
    ASSUME NEW e, IsEngine(e), NEW s, NEW h, NEW x, x = Rebooked(e, s, h)
    PROVE  /\ IsEngine(x) /\ x.records = s /\ x.height = h
           /\ x.cash = e.cash /\ x.securities = e.securities
           /\ x.entity = e.entity /\ x.capacity = e.capacity
<1>1. PICK y : y = [e EXCEPT !.records = s, !.height = h]
  BY Zenon
<1>2. y = [cash |-> e.cash, securities |-> e.securities, entity |-> e.entity,
           capacity |-> e.capacity, records |-> s, height |-> h]
  BY Zenon, <1>1 DEF IsEngine
<1>3. x = y
  BY Zenon, <1>1 DEF Rebooked
<1>4. /\ IsEngine(y) /\ y.records = s /\ y.height = h
      /\ y.cash = e.cash /\ y.securities = e.securities
      /\ y.entity = e.entity /\ y.capacity = e.capacity
  BY Zenon, <1>2 DEF IsEngine
<1> QED  BY Zenon, <1>3, <1>4

\* The same when the balances are.
LEMMA RebalancedEngine ==
    ASSUME NEW e, IsEngine(e), NEW g, NEW c, NEW x, x = Rebalanced(e, g, c)
    PROVE  /\ IsEngine(x) /\ x.records = e.records /\ x.height = e.height
           /\ x.cash = c /\ x.securities = g
           /\ x.entity = e.entity /\ x.capacity = e.capacity
<1>1. PICK y : y = [e EXCEPT !.securities = g, !.cash = c]
  BY Zenon
<1>2. y = [cash |-> c, securities |-> g, entity |-> e.entity,
           capacity |-> e.capacity, records |-> e.records, height |-> e.height]
  BY Zenon, <1>1 DEF IsEngine
<1>3. x = y
  BY Zenon, <1>1 DEF Rebalanced
<1>4. /\ IsEngine(y) /\ y.records = e.records /\ y.height = e.height
      /\ y.cash = c /\ y.securities = g
      /\ y.entity = e.entity /\ y.capacity = e.capacity
  BY Zenon, <1>2 DEF IsEngine
<1> QED  BY Zenon, <1>3, <1>4

\* bind_eligible_participant: a handle that is new has no reservation yet.
LEMMA BindSound ==
    ASSUME NEW e, EngineSound(e), Refreshed(e), NEW p \in Participants, NEW x,
           CanBind(e, p, x), NEW b, b = Bind(e, p, x)
    PROVE  EngineSound(b) /\ Refreshed(b)
<1>1. PICK n, c : n = Put(e.entity, p, x) /\ c = Put(e.capacity, x, Balances(e, p))
  BY Zenon
<1>2. /\ IsEngine(b) /\ b.records = e.records /\ b.entity = n /\ b.capacity = c
      /\ b.cash = e.cash /\ b.securities = e.securities
  <2>1. b = Rebound(e, n, c)
    BY Zenon, <1>1 DEF Bind, Rebound
  <2>2. IsEngine(e)
    BY Zenon DEF EngineSound
  <2> QED  BY <2>1, <2>2, ReboundEngine
<1>3. /\ DOMAIN n = DOMAIN e.entity \cup {p} /\ n[p] = x
      /\ n = [q \in DOMAIN n |-> n[q]]
      /\ \A q \in DOMAIN e.entity : q # p => n[q] = e.entity[q] /\ n[q] # x
      /\ \A q \in DOMAIN e.entity : n[q] = e.entity[q]
      /\ DOMAIN c = DOMAIN e.capacity \cup {x} /\ c[x] = Balances(e, p)
      /\ \A y \in DOMAIN e.capacity : y # x => c[y] = e.capacity[y]
  BY Zenon, <1>1 DEF Put, CanBind
<1>4. EntitiesSound(b)
  <2>1. /\ DOMAIN e.entity \subseteq Participants
        /\ \A q, a \in DOMAIN e.entity : e.entity[q] = e.entity[a] => q = a
        /\ \A q \in DOMAIN e.entity : e.entity[q] \in DOMAIN e.capacity
        /\ \A o \in DOMAIN e.records :
            o.participant \in DOMAIN e.entity /\ e.entity[o.participant] = o.entity
    BY Zenon DEF EngineSound, EntitiesSound
  <2>2. DOMAIN n \subseteq Participants
    BY Zenon, <1>3, <2>1
  <2>3. \A q, a \in DOMAIN n : n[q] = n[a] => q = a
    BY Zenon, <1>3, <2>1
  <2>4. \A q \in DOMAIN n : n[q] \in DOMAIN c
    BY Zenon, <1>3, <2>1
  <2>5. \A o \in DOMAIN e.records : o.participant \in DOMAIN n /\ n[o.participant] = o.entity
    BY Zenon, <1>3, <2>1
  <2>6. b.entity = [q \in DOMAIN b.entity |-> b.entity[q]]
    BY <1>2, <1>3
  <2> QED  BY Zenon, <1>2, <2>2, <2>3, <2>4, <2>5, <2>6 DEF EntitiesSound
<1>5. Balanced(b)
  BY Zenon, <1>2 DEF EngineSound, Balanced
<1>6. \A q \in Participants : e.cash[q] \in Nat /\ e.securities[q] \in Nat
  BY Zenon DEF EngineSound, Balanced
<1>7. ASSUME p \notin DOMAIN e.entity, NEW k PROVE Held(e.records, x, k) = 0
  <2>0. \A o \in DOMAIN e.records :
            o.participant \in DOMAIN e.entity /\ e.entity[o.participant] = o.entity
    BY Zenon DEF EngineSound, EntitiesSound
  <2>1. \A o \in DOMAIN e.records : o.entity # x
    BY Zenon, <1>7, <2>0 DEF CanBind
  <2>2. \A o \in DOMAIN e.records : Terms(e.records, x, k)[o] = 0
    BY Zenon, <2>1 DEF Terms
  <2> QED  BY Zenon, <2>2, SumZero DEF Held, EngineSound, RecordsSound
<1>8. Covered(b)
  <2>1. \A m \in Nat : 0 <= m
    OBVIOUS
  <2>2. ASSUME NEW q \in DOMAIN n, q \in DOMAIN e.entity
        PROVE  /\ Held(e.records, n[q], "cash") <= e.cash[q]
               /\ Held(e.records, n[q], "securities") <= e.securities[q]
    BY Zenon, <1>3, <2>2 DEF EngineSound, Covered
  <2>3. ASSUME NEW q \in DOMAIN n, q \notin DOMAIN e.entity
        PROVE  /\ Held(e.records, n[q], "cash") <= e.cash[q]
               /\ Held(e.records, n[q], "securities") <= e.securities[q]
    <3>1. q = p /\ p \notin DOMAIN e.entity
      BY Zenon, <1>3, <2>3
    <3> QED  BY Zenon, <1>3, <1>6, <1>7, <2>1, <3>1
  <2> QED  BY Zenon, <1>2, <2>2, <2>3 DEF Covered
<1>9. Refreshed(b)
  <2>1. \A q : Balances(b, q) = Balances(e, q)
    BY Zenon, <1>2 DEF Balances
  <2>2. ASSUME NEW q \in DOMAIN n PROVE c[n[q]] = Balances(e, q)
    <3>1. CASE q = p
      BY Zenon, <1>3, <3>1
    <3>2. CASE q # p
      <4>1. q \in DOMAIN e.entity /\ n[q] = e.entity[q] /\ n[q] # x
        BY Zenon, <1>3, <3>2
      <4>2. e.entity[q] \in DOMAIN e.capacity
        BY Zenon, <4>1 DEF EngineSound, EntitiesSound
      <4> QED  BY Zenon, <1>3, <4>1, <4>2 DEF Refreshed
    <3> QED  BY Zenon, <3>1, <3>2
  <2> QED  BY Zenon, <1>2, <2>1, <2>2 DEF Refreshed
<1> QED  BY Zenon, <1>2, <1>4, <1>5, <1>8, <1>9 DEF EngineSound

HeldWith(r, o, amount, x, k) ==
    IF o.entity = x /\ Kind(o.side) = k THEN amount + Held(r, x, k) ELSE Held(r, x, k)

\* A new reservation adds its limit to what is in use, for its own entity
\* and balance only.
LEMMA HeldRises ==
    ASSUME NEW r, RecordsSound(r), NEW o \in Orders, o \notin DOMAIN r, NEW v, NEW s,
           s = Put(r, o, v), RecordsSound(s)
    PROVE  \A x, k : Held(s, x, k) = HeldWith(r, o, v.remaining, x, k)
<1> SUFFICES ASSUME NEW x, NEW k
             PROVE  Held(s, x, k) = IF o.entity = x /\ Kind(o.side) = k
                                    THEN v.remaining + Held(r, x, k) ELSE Held(r, x, k)
  BY Zenon DEF HeldWith
<1>1. PICK f, g, D : f = Terms(r, x, k) /\ g = Terms(s, x, k) /\ D = DOMAIN r
  BY Zenon
<1>2. /\ DOMAIN s = D \cup {o} /\ s[o] = v /\ \A q \in D : s[q] = r[q]
      /\ o \notin D /\ IsFiniteSet(D)
  BY Zenon, <1>1 DEF Put, RecordsSound
<1>3. Ints(g, D \cup {o}) /\ Held(r, x, k) \in Int
  BY Zenon, <1>1, <1>2, HeldFacts
<1>4. Held(s, x, k) = g[o] + SumFunctionOnSet(g, D)
  BY Zenon, <1>1, <1>2, <1>3, SumAdd DEF Held
<1>5. \A q \in D : g[q] = f[q]
  BY Zenon, <1>1, <1>2 DEF Terms
<1>6. SumFunctionOnSet(g, D) = Held(r, x, k)
  <2>1. SumFunctionOnSet(g, D) = SumFunctionOnSet(f, D)
    BY Zenon, <1>2, <1>5, SumSame
  <2> QED  BY Zenon, <1>1, <2>1 DEF Held
<1>7. g[o] = IF o.entity = x /\ Kind(o.side) = k THEN v.remaining ELSE 0
  BY Zenon, <1>1, <1>2 DEF Terms
<1>8. \A n \in Int : 0 + n = n
  OBVIOUS
<1> QED  BY Zenon, <1>3, <1>4, <1>6, <1>7, <1>8

\* reserve_order: what is in use and the new limit fit in the capacity, and
\* that is the balance.
LEMMA ReserveSound ==
    ASSUME NEW e, EngineSound(e), Refreshed(e), NEW o \in Orders, NEW x \in Reserve(e, o)
    PROVE  EngineSound(x) /\ Refreshed(x)
<1>1. PICK v, s : /\ v = [remaining_quantity |-> o.quantity, remaining |-> Limit(o),
                          committed |-> Limit(o), status |-> "active"]
                  /\ s = Put(e.records, o, v)
  BY Zenon
<1>2. /\ CanReserve(e, o)
      /\ x = Rebooked(e, s, e.height + 1)
  BY Zenon, <1>1 DEF Reserve, Rebooked
<1>3. IsEngine(x) /\ x.records = s /\ Alike(x, e)
  <2>1. IsEngine(e)
    BY Zenon DEF EngineSound
  <2> QED  BY <1>2, <2>1, RebookedEngine DEF Alike
<1>4. o.price \in Nat /\ o.quantity \in Nat /\ Limit(o) \in Nat
  BY Zenon, AmountsAssumption, RequiredFacts DEF Limit
<1>5. RecordSound(o, v) /\ v.remaining = Limit(o)
  <2>1. v.remaining_quantity = o.quantity /\ v.remaining = Limit(o) /\ v.committed = Limit(o)
        /\ v.status = "active"
    BY Zenon, <1>1
  <2> QED  BY Zenon, <1>1, <1>4, <2>1 DEF RecordSound, Limit
<1>6. /\ o \notin DOMAIN e.records /\ DOMAIN s = DOMAIN e.records \cup {o}
      /\ s[o] = v /\ \A q \in DOMAIN e.records : s[q] = e.records[q]
      /\ s = [q \in DOMAIN s |-> s[q]]
  BY Zenon, <1>1, <1>2 DEF CanReserve, Put
<1>7. RecordsSound(s)
  <2>1. /\ IsFiniteSet(DOMAIN e.records) /\ DOMAIN e.records \subseteq Orders
        /\ \A q \in DOMAIN e.records : RecordSound(q, e.records[q])
    BY Zenon DEF EngineSound, RecordsSound
  <2>2. IsFiniteSet(DOMAIN e.records \cup {o})
    BY <2>1, FS_AddElement
  <2>3. IsFiniteSet(DOMAIN s)
    BY Zenon, <1>6, <2>2
  <2> QED  BY Zenon, <1>5, <1>6, <2>1, <2>3 DEF RecordsSound
<1>8. /\ o.participant \in DOMAIN e.entity /\ e.entity[o.participant] = o.entity
      /\ Held(e.records, o.entity, Kind(o.side)) + Limit(o)
            <= Balances(e, o.participant)[Kind(o.side)]
  BY Zenon, <1>2, InUseIsHeld DEF CanReserve, EngineSound, Refreshed
<1>9. EntitiesSound(x) /\ Balanced(x)
  BY Zenon, <1>3, <1>6, <1>8 DEF EngineSound, EntitiesSound, Balanced, Alike
<1>10. ASSUME NEW p \in DOMAIN e.entity, NEW k \in Kinds
       PROVE  Held(s, e.entity[p], k) <= Balances(e, p)[k]
  <2>1. Held(s, e.entity[p], k) = IF o.entity = e.entity[p] /\ Kind(o.side) = k
                                  THEN Limit(o) + Held(e.records, e.entity[p], k)
                                  ELSE Held(e.records, e.entity[p], k)
    <3>1. RecordsSound(e.records) /\ s = Put(e.records, o, v)
      BY Zenon, <1>1 DEF EngineSound
    <3>2. o \notin DOMAIN e.records
      BY Zenon, <1>6
    <3>3. \A y, a : Held(s, y, a) = HeldWith(e.records, o, v.remaining, y, a)
      BY <1>7, <3>1, <3>2, HeldRises
    <3> QED  BY Zenon, <1>5, <3>3 DEF HeldWith
  <2>2. Held(e.records, e.entity[p], k) \in Int
    BY Zenon, HeldFacts DEF EngineSound
  <2>3. CASE o.entity = e.entity[p] /\ Kind(o.side) = k
    <3>1. p = o.participant
      BY Zenon, <1>8, <2>3 DEF EngineSound, EntitiesSound
    <3>2. \A a, b \in Int : a + b = b + a
      OBVIOUS
    <3>3. Limit(o) \in Int
      BY <1>4
    <3>4. Limit(o) + Held(e.records, e.entity[p], k) = Held(e.records, e.entity[p], k) + Limit(o)
      BY Zenon, <2>2, <3>2, <3>3
    <3> QED  BY Zenon, <1>8, <2>1, <2>3, <3>1, <3>4
  <2>4. CASE ~(o.entity = e.entity[p] /\ Kind(o.side) = k)
    <3>1. Held(e.records, e.entity[p], k) <= Balances(e, p)[k]
      <4>1. Balances(e, p)["cash"] = e.cash[p] /\ Balances(e, p)["securities"] = e.securities[p]
        BY Zenon DEF Balances
      <4> QED  BY Zenon, <1>10, <4>1 DEF EngineSound, Covered, Kinds
    <3> QED  BY Zenon, <2>1, <2>4, <3>1
  <2> QED  BY Zenon, <2>3, <2>4
<1>11. Covered(x)
  <2>1. \A p : Balances(e, p)["cash"] = e.cash[p] /\ Balances(e, p)["securities"] = e.securities[p]
    BY Zenon DEF Balances
  <2> QED  BY Zenon, <1>3, <1>10, <2>1 DEF Covered, Alike, Kinds
<1> QED  BY Zenon, <1>3, <1>7, <1>9, <1>11, AlikeRefreshed DEF EngineSound

\* release_order and release_orders_atomic return what they release.
LEMMA ReleaseSound ==
    ASSUME NEW e, EngineSound(e), Refreshed(e), NEW orders, NEW x \in Release(e, orders)
    PROVE  EngineSound(x) /\ Refreshed(x)
<1>1. PICK s : s = [o \in DOMAIN e.records |->
                      IF o \in orders THEN ReleasedRecord(e.records[o]) ELSE e.records[o]]
  BY Zenon
<1>2. x = Rebooked(e, s, e.height + 1)
  BY Zenon, <1>1 DEF Release, Rebooked
<1>3. ASSUME NEW o \in DOMAIN e.records
      PROVE  RecordSound(o, s[o]) /\ s[o].remaining <= e.records[o].remaining
  <2>1. PICK r : r = e.records[o]
    BY Zenon
  <2>2. RecordSound(o, r) /\ o.price \in Nat /\ r.remaining \in Nat
    BY Zenon, <2>1, AmountsAssumption, HeldFacts DEF EngineSound, RecordsSound
  <2>3. PICK z : z = ReleasedRecord(r)
    BY Zenon
  <2>4. z = [remaining_quantity |-> 0, remaining |-> 0, committed |-> r.committed,
             status |-> "released"]
    BY Zenon, <2>2, <2>3 DEF ReleasedRecord, RecordSound
  <2>5. RecordSound(o, z) /\ z.remaining = 0
    <3>1. z.remaining_quantity = 0 /\ z.remaining = 0 /\ z.committed = r.committed
          /\ z.status = "released" /\ 0 \in Nat
      BY Zenon, <2>4
    <3> QED  BY Zenon, <2>2, <2>4, <3>1, RequiredFacts DEF RecordSound
  <2>6. s[o] = r \/ s[o] = z
    BY Zenon, <1>1, <2>1, <2>3
  <2>7. 0 <= r.remaining /\ r.remaining <= r.remaining
    BY <2>2
  <2> QED  BY Zenon, <2>1, <2>2, <2>5, <2>6, <2>7
<1>4. DOMAIN s = DOMAIN e.records /\ RecordsSound(s)
  BY Zenon, <1>1, <1>3 DEF EngineSound, RecordsSound
<1>5. PICK y : y = [e EXCEPT !.records = s]
  BY Zenon
<1>6. EngineSound(y) /\ y.records = s /\ Alike(y, e)
  BY Zenon, <1>3, <1>4, <1>5, RecordsFall
<1>7. IsEngine(x) /\ x.records = y.records /\ Alike(x, y)
  <2>1. IsEngine(e)
    BY Zenon DEF EngineSound
  <2>2. IsEngine(x) /\ x.records = s /\ Alike(x, e)
    BY <1>2, <2>1, RebookedEngine DEF Alike
  <2> QED  BY Zenon, <1>6, <2>2 DEF Alike
<1>8. EngineSound(x)
  BY Zenon, <1>6, <1>7, AlikeSound
<1> QED  BY Zenon, <1>6, <1>7, <1>8, AlikeRefreshed

\* One side of consume_fill: the record stays sound and gives up at least what
\* the fill spends, because it covered the fill and the remainder.
LEMMA ConsumedSound ==
    ASSUME NEW e, RecordsSound(e.records), NEW o, NEW fill, NEW t, CoversFill(e, o, fill, t),
           fill.price \in Nat, fill.quantity \in Nat,
           NEW z, z = ConsumedRecord(o, e.records[o], Spent(o, fill), fill.quantity)
    PROVE  /\ RecordSound(o, z) /\ Spent(o, fill) \in Nat
           /\ z.remaining <= e.records[o].remaining - Spent(o, fill)
<1>1. PICK r, left : r = e.records[o] /\ left = r.remaining_quantity - fill.quantity
  BY Zenon
<1>2. /\ o \in DOMAIN e.records /\ RecordSound(o, r) /\ o.price \in Nat
      /\ r.remaining_quantity \in Nat /\ r.remaining \in Nat
      /\ fill.quantity <= r.remaining_quantity
      /\ r.remaining - Spent(o, fill) >= Required(Kind(o.side), o.price, left)
  BY Zenon, <1>1, AmountsAssumption, HeldFacts DEF CoversFill, RecordsSound
<1>3. left \in Nat
  BY <1>1, <1>2
<1>4. Spent(o, fill) \in Nat /\ Required(Kind(o.side), o.price, left) \in Nat
  BY Zenon, <1>2, <1>3, RequiredFacts DEF Spent
<1>5. z = [remaining_quantity |-> left, remaining |-> Required(Kind(o.side), o.price, left),
           committed |-> r.committed, status |-> IF left = 0 THEN "consumed" ELSE "active"]
  BY Zenon, <1>1, <1>2 DEF ConsumedRecord, RecordSound
<1>6. /\ z.remaining_quantity = left /\ z.remaining = Required(Kind(o.side), o.price, left)
      /\ z.committed = r.committed /\ z.status = IF left = 0 THEN "consumed" ELSE "active"
  BY <1>5
<1>7. RecordSound(o, z)
  BY Zenon, <1>3, <1>5, <1>6 DEF RecordSound
<1>8. z.remaining <= r.remaining - Spent(o, fill)
  BY <1>2, <1>4, <1>6
<1> QED  BY Zenon, <1>1, <1>4, <1>7, <1>8

\* The parties of a fill that consume_fill lets through.
LEMMA FillParties ==
    ASSUME NEW e, RecordsSound(e.records), EntitiesSound(e), NEW fill, NEW t,
           CanConsumeFill(e, fill, t)
    PROVE  /\ fill.maker \in DOMAIN e.records /\ fill.taker \in DOMAIN e.records
           /\ fill.maker # fill.taker
           /\ {Buyer(fill), Seller(fill)} = {fill.maker, fill.taker}
           /\ Kind(Buyer(fill).side) = "cash" /\ Kind(Seller(fill).side) = "securities"
           /\ \A o \in {Buyer(fill), Seller(fill)} :
                o.participant \in DOMAIN e.entity /\ e.entity[o.participant] = o.entity
<1>1. /\ fill.maker \in DOMAIN e.records /\ fill.taker \in DOMAIN e.records
      /\ fill.maker.side # fill.taker.side
  BY Zenon DEF CanConsumeFill, CoversFill
<1>2. fill.maker.side \in {"buy", "sell"} /\ fill.taker.side \in {"buy", "sell"}
  BY Zenon, <1>1, AmountsAssumption DEF RecordsSound
<1>3. "sell" # "buy"
  OBVIOUS
<1>4. Kind("buy") = "cash" /\ Kind("sell") = "securities"
  BY Zenon, <1>3 DEF Kind
<1>5. /\ fill.maker.participant \in DOMAIN e.entity
      /\ e.entity[fill.maker.participant] = fill.maker.entity
      /\ fill.taker.participant \in DOMAIN e.entity
      /\ e.entity[fill.taker.participant] = fill.taker.entity
  BY Zenon, <1>1 DEF EntitiesSound
<1>6. CASE fill.maker.side = "sell"
  <2>1. Seller(fill) = fill.maker /\ Buyer(fill) = fill.taker /\ fill.taker.side = "buy"
    BY Zenon, <1>1, <1>2, <1>6 DEF Seller, Buyer
  <2> QED  BY Zenon, <1>1, <1>4, <1>5, <1>6, <2>1
<1>7. CASE fill.maker.side # "sell"
  <2>1. /\ Seller(fill) = fill.taker /\ Buyer(fill) = fill.maker
        /\ fill.taker.side = "sell" /\ fill.maker.side = "buy"
    BY Zenon, <1>1, <1>2, <1>7 DEF Seller, Buyer
  <2> QED  BY Zenon, <1>1, <1>4, <1>5, <2>1
<1> QED  BY Zenon, <1>6, <1>7

\* consume_fill frees at both parties what the fill will move.
LEMMA ConsumeSound ==
    ASSUME NEW e, EngineSound(e), NEW fill, fill.price \in Nat, fill.quantity \in Nat,
           NEW t, CanConsumeFill(e, fill, t), NEW x, x = ConsumeFill(e, fill)
    PROVE  /\ EngineSound(x) /\ Alike(x, e)
           /\ Held(x.records, Buyer(fill).entity, "cash")
                <= e.cash[Buyer(fill).participant] - fill.price * fill.quantity
           /\ Held(x.records, Seller(fill).entity, "securities")
                <= e.securities[Seller(fill).participant] - fill.quantity
<1>1. PICK r, m, u, a, b, s :
        /\ r = e.records /\ m = fill.maker /\ u = fill.taker
        /\ a = ConsumedRecord(m, r[m], Spent(m, fill), fill.quantity)
        /\ b = ConsumedRecord(u, r[u], Spent(u, fill), fill.quantity)
        /\ s = [r EXCEPT ![m] = a, ![u] = b]
  BY Zenon
<1>2. x = [e EXCEPT !.records = s]
  BY Zenon, <1>1 DEF ConsumeFill
<1>3. RecordsSound(r) /\ EntitiesSound(e)
  BY Zenon, <1>1 DEF EngineSound
<1>4. /\ m \in DOMAIN r /\ u \in DOMAIN r /\ m # u
      /\ {Buyer(fill), Seller(fill)} = {m, u}
      /\ Kind(Buyer(fill).side) = "cash" /\ Kind(Seller(fill).side) = "securities"
      /\ \A o \in {Buyer(fill), Seller(fill)} :
            o.participant \in DOMAIN e.entity /\ e.entity[o.participant] = o.entity
  BY Zenon, <1>1, <1>3, FillParties
<1>5. /\ RecordSound(m, a) /\ Spent(m, fill) \in Nat
      /\ a.remaining <= r[m].remaining - Spent(m, fill)
      /\ RecordSound(u, b) /\ Spent(u, fill) \in Nat
      /\ b.remaining <= r[u].remaining - Spent(u, fill)
  BY Zenon, <1>1, <1>3, ConsumedSound DEF CanConsumeFill
<1>6. /\ DOMAIN s = DOMAIN r /\ s = [o \in DOMAIN s |-> s[o]] /\ s[m] = a /\ s[u] = b
      /\ \A o \in DOMAIN r : o # m /\ o # u => s[o] = r[o]
  BY Zenon, <1>1, <1>3, <1>4 DEF RecordsSound
<1>7. RecordsSound(s)
  BY Zenon, <1>3, <1>5, <1>6 DEF RecordsSound
<1>8. \A o \in DOMAIN r : s[o].remaining <= r[o].remaining
  <2>1. \A o \in DOMAIN r : r[o].remaining \in Nat /\ s[o].remaining \in Nat
    BY Zenon, <1>3, <1>6, <1>7, HeldFacts
  <2>2. \A i, j, d \in Nat : i <= j - d => i <= j
    OBVIOUS
  <2>3. \A j \in Nat : j <= j
    OBVIOUS
  <2> QED  BY Zenon, <1>4, <1>5, <1>6, <2>1, <2>2, <2>3
<1>9. EngineSound(x) /\ x.records = s /\ Alike(x, e)
  <2>1. /\ DOMAIN s = DOMAIN e.records
        /\ \A o \in DOMAIN s : s[o].remaining <= e.records[o].remaining
    BY Zenon, <1>1, <1>6, <1>8
  <2> QED  BY <1>2, <1>7, <2>1, RecordsFall
<1>10. ASSUME NEW o \in {m, u}
       PROVE  Held(s, o.entity, Kind(o.side)) <= Held(r, o.entity, Kind(o.side)) - Spent(o, fill)
  <2>1. /\ Spent(o, fill) \in Nat /\ o \in DOMAIN r
        /\ s[o].remaining <= r[o].remaining - Spent(o, fill)
    BY Zenon, <1>4, <1>5, <1>6
  <2>2. Spent(o, fill) \in Int
    BY <2>1
  <2> QED  BY Zenon, <1>3, <1>6, <1>7, <1>8, <2>1, <2>2, HeldFalls
<1>11. /\ Spent(Buyer(fill), fill) = fill.price * fill.quantity
       /\ Spent(Seller(fill), fill) = fill.quantity
  BY Zenon, <1>4 DEF Spent, Required
<1>12. /\ Held(r, Buyer(fill).entity, "cash") <= e.cash[Buyer(fill).participant]
       /\ Held(r, Seller(fill).entity, "securities") <= e.securities[Seller(fill).participant]
  BY Zenon, <1>1, <1>4 DEF EngineSound, Covered
<1>13. \A h, i, j, d \in Int : h <= i - d /\ i <= j => h <= j - d
  OBVIOUS
<1>14. \A o \in {Buyer(fill), Seller(fill)} :
            e.cash[o.participant] \in Int /\ e.securities[o.participant] \in Int
  <2>1. \A n \in Nat : n \in Int
    OBVIOUS
  <2> QED  BY Zenon, <1>4, <2>1 DEF EngineSound, EntitiesSound, Balanced
<1>15. \A y, k : Held(r, y, k) \in Int /\ Held(s, y, k) \in Int
  BY Zenon, <1>3, <1>7, HeldFacts
<1>16. fill.price * fill.quantity \in Int /\ fill.quantity \in Int
  OBVIOUS
<1>17. Held(s, Buyer(fill).entity, "cash")
                <= e.cash[Buyer(fill).participant] - fill.price * fill.quantity
  <2>1. Held(s, Buyer(fill).entity, "cash")
            <= Held(r, Buyer(fill).entity, "cash") - fill.price * fill.quantity
    BY Zenon, <1>4, <1>10, <1>11
  <2> QED  BY Zenon, <1>12, <1>13, <1>14, <1>15, <1>16, <2>1
<1>18. Held(s, Seller(fill).entity, "securities")
                <= e.securities[Seller(fill).participant] - fill.quantity
  <2>1. Held(s, Seller(fill).entity, "securities")
            <= Held(r, Seller(fill).entity, "securities") - fill.quantity
    BY Zenon, <1>4, <1>10, <1>11
  <2> QED  BY Zenon, <1>12, <1>13, <1>14, <1>15, <1>16, <2>1
<1> QED  BY Zenon, <1>9, <1>17, <1>18

Recommitted(r, d) == [r EXCEPT !.committed = d]

\* apply_collaborative_remainders changes the commitments only.
LEMMA RemaindersSound ==
    ASSUME NEW e, EngineSound(e), NEW fill, NEW x, x = WithRemainders(e, fill)
    PROVE  EngineSound(x) /\ Alike(x, e) /\ \A y, k : Held(x.records, y, k) = Held(e.records, y, k)
<1>1. PICK r, m, u, a, b, s :
        /\ r = e.records /\ m = fill.maker /\ u = fill.taker
        /\ a = Recommitted(r[m], r[m].committed - Spent(m, fill))
        /\ b = Recommitted(r[u], r[u].committed - Spent(u, fill))
        /\ s = [r EXCEPT ![m] = a, ![u] = b]
  BY Zenon
<1>2. x = [e EXCEPT !.records = s]
  BY Zenon, <1>1 DEF WithRemainders, Recommitted
<1>3. RecordsSound(r)
  BY Zenon, <1>1 DEF EngineSound
<1>4. ASSUME NEW o, NEW d, NEW v, NEW z, RecordSound(o, v), z = Recommitted(v, d)
      PROVE  RecordSound(o, z) /\ z.remaining = v.remaining
  <2>1. z = [remaining_quantity |-> v.remaining_quantity, remaining |-> v.remaining,
             committed |-> d, status |-> v.status]
    BY Zenon, <1>4 DEF RecordSound, Recommitted
  <2>2. /\ z.remaining_quantity = v.remaining_quantity /\ z.remaining = v.remaining
        /\ z.committed = d /\ z.status = v.status
    BY Zenon, <2>1
  <2> QED  BY Zenon, <1>4, <2>1, <2>2 DEF RecordSound
<1>5. DOMAIN s = DOMAIN r /\ s = [o \in DOMAIN s |-> s[o]]
  BY Zenon, <1>1, <1>3 DEF RecordsSound
<1>6. ASSUME NEW o \in DOMAIN r PROVE RecordSound(o, s[o]) /\ s[o].remaining = r[o].remaining
  <2>1. RecordSound(o, r[o])
    BY Zenon, <1>3 DEF RecordsSound
  <2>2. s[o] = r[o] \/ (o = m /\ s[o] = a) \/ (o = u /\ s[o] = b)
    BY Zenon, <1>1, <1>3 DEF RecordsSound
  <2>3. ASSUME o = m PROVE RecordSound(o, a) /\ a.remaining = r[o].remaining
    <3>1. PICK d : a = Recommitted(r[o], d)
      BY Zenon, <1>1, <2>3
    <3> QED  BY <1>4, <2>1, <3>1
  <2>4. ASSUME o = u PROVE RecordSound(o, b) /\ b.remaining = r[o].remaining
    <3>1. PICK d : b = Recommitted(r[o], d)
      BY Zenon, <1>1, <2>4
    <3> QED  BY <1>4, <2>1, <3>1
  <2> QED  BY Zenon, <2>1, <2>2, <2>3, <2>4
<1>7. RecordsSound(s)
  BY Zenon, <1>3, <1>5, <1>6 DEF RecordsSound
<1>8. \A o \in DOMAIN r : s[o].remaining <= r[o].remaining
  <2>1. \A j \in Nat : j <= j
    OBVIOUS
  <2> QED  BY Zenon, <1>3, <1>6, <2>1, HeldFacts
<1>9. EngineSound(x) /\ x.records = s /\ Alike(x, e)
  <2>1. /\ DOMAIN s = DOMAIN e.records
        /\ \A o \in DOMAIN s : s[o].remaining <= e.records[o].remaining
    BY Zenon, <1>1, <1>5, <1>8
  <2> QED  BY <1>2, <1>7, <2>1, RecordsFall
<1>10. ASSUME NEW y, NEW k PROVE Held(s, y, k) = Held(r, y, k)
  <2>1. PICK f, g, D : f = Terms(r, y, k) /\ g = Terms(s, y, k) /\ D = DOMAIN r
    BY Zenon
  <2>2. ASSUME NEW o \in DOMAIN r PROVE g[o] = f[o]
    <3>1. f[o] = IF o.entity = y /\ Kind(o.side) = k THEN r[o].remaining ELSE 0
      BY Zenon, <2>1 DEF Terms
    <3>2. g[o] = IF o.entity = y /\ Kind(o.side) = k THEN s[o].remaining ELSE 0
      BY Zenon, <1>5, <2>1 DEF Terms
    <3> QED  BY Zenon, <1>6, <3>1, <3>2
  <2>3. IsFiniteSet(D) /\ \A o \in D : g[o] = f[o]
    BY Zenon, <1>3, <2>1, <2>2 DEF RecordsSound
  <2>4. SumFunctionOnSet(g, D) = SumFunctionOnSet(f, D)
    BY <2>3, SumSame
  <2>5. Held(r, y, k) = SumFunctionOnSet(f, D)
    BY Zenon, <2>1 DEF Held
  <2>6. DOMAIN s = D
    BY Zenon, <1>5, <2>1
  <2>7. Held(s, y, k) = SumFunctionOnSet(g, D)
    BY Zenon, <2>1, <2>6 DEF Held
  <2> QED  BY Zenon, <2>4, <2>5, <2>7
<1>11. \A y, k : Held(s, y, k) = Held(e.records, y, k)
  <2>1. r = e.records
    BY Zenon, <1>1
  <2> QED  BY Zenon, <1>10, <2>1
<1> QED  BY Zenon, <1>9, <1>11

\* Delivery against payment moves two amounts that the reservations have freed.
LEMMA ExchangeSound ==
    ASSUME NEW e, EngineSound(e), NEW fill, fill.price \in Nat, fill.quantity \in Nat,
           CanExchange(e, fill),
           \A o \in {Buyer(fill), Seller(fill)} :
                o.participant \in DOMAIN e.entity /\ e.entity[o.participant] = o.entity,
           Held(e.records, Buyer(fill).entity, "cash")
                <= e.cash[Buyer(fill).participant] - fill.price * fill.quantity,
           Held(e.records, Seller(fill).entity, "securities")
                <= e.securities[Seller(fill).participant] - fill.quantity,
           NEW x, x = DvP(e, fill)
    PROVE  EngineSound(x)
<1>1. PICK s, b, v, q, c, g :
        /\ s = Seller(fill).participant /\ b = Buyer(fill).participant
        /\ v = fill.price * fill.quantity /\ q = fill.quantity
        /\ c = [e.cash EXCEPT ![b] = e.cash[b] - v, ![s] = e.cash[s] + v]
        /\ g = [e.securities EXCEPT ![s] = e.securities[s] - q, ![b] = e.securities[b] + q]
  BY Zenon
<1>2. /\ s # b /\ e.securities[s] >= q /\ e.cash[b] >= v
      /\ s \in DOMAIN e.entity /\ b \in DOMAIN e.entity
      /\ e.entity[s] = Seller(fill).entity /\ e.entity[b] = Buyer(fill).entity
  BY Zenon, <1>1 DEF CanExchange
<1>3. s \in Participants /\ b \in Participants
  BY Zenon, <1>2 DEF EngineSound, EntitiesSound
<1>4. v \in Nat /\ q \in Nat /\ v \in Int /\ q \in Int
  BY <1>1
<1>5. e.cash \in [Participants -> Nat] /\ e.securities \in [Participants -> Nat]
  BY Zenon DEF EngineSound, Balanced
<1>6. /\ e.cash[s] \in Nat /\ e.cash[b] \in Nat /\ e.securities[s] \in Nat /\ e.securities[b] \in Nat
      /\ e.cash[s] + v \in Nat /\ e.cash[b] - v \in Nat
      /\ e.securities[s] - q \in Nat /\ e.securities[b] + q \in Nat
  BY <1>2, <1>3, <1>4, <1>5
<1>7. x = Rebalanced(e, g, c)
  BY Zenon, <1>1 DEF DvP, Transfer, Rebalanced
<1>8. /\ IsEngine(x) /\ x.cash = c /\ x.securities = g
      /\ x.records = e.records /\ x.entity = e.entity /\ x.capacity = e.capacity
  <2>1. IsEngine(e)
    BY Zenon DEF EngineSound
  <2> QED  BY <1>7, <2>1, RebalancedEngine
<1>9. /\ c \in [Participants -> Nat] /\ g \in [Participants -> Nat]
      /\ c[s] = e.cash[s] + v /\ c[b] = e.cash[b] - v
      /\ g[s] = e.securities[s] - q /\ g[b] = e.securities[b] + q
      /\ \A p \in Participants \ {s, b} : c[p] = e.cash[p] /\ g[p] = e.securities[p]
  BY Zenon, <1>1, <1>2, <1>3, <1>5, <1>6
<1>10. /\ SumFunctionOnSet(c, Participants) = SumFunctionOnSet(e.cash, Participants)
       /\ SumFunctionOnSet(g, Participants) = SumFunctionOnSet(e.securities, Participants)
  <2>1. Ints(e.cash, Participants) /\ Ints(e.securities, Participants)
    <3>1. \A n \in Nat : n \in Int
      OBVIOUS
    <3> QED  BY Zenon, <1>5, <3>1 DEF Ints
  <2>2. IsFiniteSet(Participants)
    BY Zenon, AmountsAssumption
  <2>3. SumFunctionOnSet(g, Participants) = SumFunctionOnSet(e.securities, Participants)
    <3>1. /\ g[s] = e.securities[s] - q /\ g[b] = e.securities[b] + q
          /\ \A p \in Participants \ {s, b} : g[p] = e.securities[p]
      BY Zenon, <1>9
    <3> QED  BY <1>2, <1>3, <1>4, <2>1, <2>2, <3>1, SumMove
  <2>4. SumFunctionOnSet(c, Participants) = SumFunctionOnSet(e.cash, Participants)
    <3>1. /\ c[b] = e.cash[b] - v /\ c[s] = e.cash[s] + v
          /\ \A p \in Participants \ {b, s} : c[p] = e.cash[p]
      BY Zenon, <1>9
    <3> QED  BY <1>2, <1>3, <1>4, <2>1, <2>2, <3>1, SumMove
  <2> QED  BY Zenon, <2>3, <2>4
<1>11. Balanced(x)
  BY Zenon, <1>8, <1>9, <1>10 DEF EngineSound, Balanced
<1>12. Covered(x)
  <2>1. \A y, k : Held(e.records, y, k) \in Int
    BY Zenon, HeldFacts DEF EngineSound
  <2>2. \A h \in Int : \A n, d \in Nat : h <= n => h <= n + d
    OBVIOUS
  <2>3. /\ Held(e.records, e.entity[b], "cash") <= e.cash[b] - v
        /\ Held(e.records, e.entity[s], "securities") <= e.securities[s] - q
    BY Zenon, <1>1, <1>2
  <2>4. ASSUME NEW p \in DOMAIN e.entity
        PROVE  /\ Held(e.records, e.entity[p], "cash") <= c[p]
               /\ Held(e.records, e.entity[p], "securities") <= g[p]
    <3>1. /\ Held(e.records, e.entity[p], "cash") <= e.cash[p]
          /\ Held(e.records, e.entity[p], "securities") <= e.securities[p]
          /\ p \in Participants
      BY Zenon DEF EngineSound, Covered, EntitiesSound
    <3>2. CASE p = s
      BY Zenon, <1>4, <1>6, <1>9, <2>1, <2>2, <2>3, <3>1, <3>2
    <3>3. CASE p = b
      BY Zenon, <1>4, <1>6, <1>9, <2>1, <2>2, <2>3, <3>1, <3>3
    <3>4. CASE p # s /\ p # b
      BY Zenon, <1>9, <3>1, <3>4
    <3> QED  BY Zenon, <3>2, <3>3, <3>4
  <2> QED  BY Zenon, <1>8, <2>4 DEF Covered
<1>13. RecordsSound(x.records) /\ EntitiesSound(x)
  <2>1. RecordsSound(e.records) /\ EntitiesSound(e)
    BY Zenon DEF EngineSound
  <2>2. EntitiesSound(x)
    BY <1>8, <2>1 DEF EntitiesSound
  <2> QED  BY Zenon, <1>8, <2>1, <2>2
<1> QED  BY Zenon, <1>8, <1>11, <1>12, <1>13 DEF EngineSound

\* One turn of either loop.
LEMMA TurnSound ==
    ASSUME NEW engines, \A e \in engines : EngineSound(e), NEW fill,
           fill.price \in Nat, fill.quantity \in Nat, NEW t, NEW c
    PROVE  \A x \in Turn(c, engines, fill, t) : EngineSound(x)
<1>1. ASSUME NEW e \in engines, CanConsumeFill(e, fill, t), CanExchange(e, fill)
      PROVE  /\ EngineSound(DvP(ConsumeFill(e, fill), fill))
             /\ EngineSound(DvP(WithRemainders(ConsumeFill(e, fill), fill), fill))
  <2>1. PICK y, z : y = ConsumeFill(e, fill) /\ z = WithRemainders(y, fill)
    BY Zenon
  <2>2. /\ EngineSound(y) /\ Alike(y, e)
        /\ Held(y.records, Buyer(fill).entity, "cash")
                <= e.cash[Buyer(fill).participant] - fill.price * fill.quantity
        /\ Held(y.records, Seller(fill).entity, "securities")
                <= e.securities[Seller(fill).participant] - fill.quantity
    BY Zenon, <1>1, <2>1, ConsumeSound
  <2>3. EngineSound(z) /\ Alike(z, y) /\ \A x, k : Held(z.records, x, k) = Held(y.records, x, k)
    <3>1. EngineSound(y) /\ z = WithRemainders(y, fill)
      BY Zenon, <2>1, <2>2
    <3>2. EngineSound(z) /\ Alike(z, y)
      BY Zenon, <3>1, RemaindersSound
    <3>3. ASSUME NEW x, NEW k PROVE Held(z.records, x, k) = Held(y.records, x, k)
      BY <3>1, RemaindersSound
    <3> QED  BY Zenon, <3>2, <3>3
  <2>4. \A o \in {Buyer(fill), Seller(fill)} :
            o.participant \in DOMAIN e.entity /\ e.entity[o.participant] = o.entity
    BY Zenon, <1>1, FillParties DEF EngineSound
  <2>5. CanExchange(y, fill) /\ CanExchange(z, fill)
    BY Zenon, <1>1, <2>2, <2>3 DEF CanExchange, Alike
  <2>6. EngineSound(DvP(y, fill))
    BY Zenon, <2>2, <2>4, <2>5, ExchangeSound DEF Alike
  <2>7. EngineSound(DvP(z, fill))
    BY Zenon, <2>2, <2>3, <2>4, <2>5, ExchangeSound DEF Alike
  <2> QED  BY Zenon, <2>1, <2>6, <2>7
<1> QED  BY Zenon, <1>1 DEF Turn, SettleFill, SettleFillCollaborative

\* So the loop, for any number of fills.
LEMMA LoopSound ==
    ASSUME NEW c, NEW e, EngineSound(e), NEW fills, NEW t, NEW n \in Nat,
           \A i \in 1 .. n : fills[i].price \in Nat /\ fills[i].quantity \in Nat,
           NEW g, IsLoop(g, n, c, e, fills, t)
    PROVE  \A x \in g[n] : EngineSound(x)
<1> DEFINE T == {m \in 0 .. n : ~\A x \in g[m] : EngineSound(x)}
<1>0. T \in SUBSET Nat /\ \A m \in 0 .. n : m \in T <=> ~\A x \in g[m] : EngineSound(x)
  <2>1. 0 .. n \subseteq Nat
    OBVIOUS
  <2> QED  BY Zenon, <2>1
<1>1. T \subseteq 0 .. n
  BY Zenon
<1> HIDE DEF T
<1>2. \A i \in 0 .. n : g[i] = IF i = 0 THEN {e} ELSE Turn(c, g[i - 1], fills[i], t)
  BY Zenon DEF IsLoop
<1>3. ASSUME T # {} PROVE FALSE
  <2>1. PICK m \in T : \A k \in T : m <= k
    BY Zenon, <1>0, <1>3, LeastNumber
  <2>2. m # 0
    <3>1. 0 \in 0 .. n
      OBVIOUS
    <3> QED  BY Zenon, <1>0, <1>2, <2>1, <3>1
  <2>3. m \in 0 .. n /\ m - 1 \in 0 .. n /\ m - 1 \notin T /\ m \in 1 .. n
    BY <1>1, <2>1, <2>2
  <2>4. \A x \in g[m - 1] : EngineSound(x)
    BY Zenon, <1>0, <2>3
  <2>5. g[m] = Turn(c, g[m - 1], fills[m], t)
    BY Zenon, <1>2, <2>2, <2>3
  <2>6. \A x \in g[m] : EngineSound(x)
    BY Zenon, <2>3, <2>4, <2>5, TurnSound
  <2> QED  BY Zenon, <1>0, <2>1, <2>3, <2>6
<1>4. n \in 0 .. n
  OBVIOUS
<1> QED  BY Zenon, <1>0, <1>3, <1>4

\* reconcile_arriving keeps what covers the remainder, or nothing.
LEMMA ReconciledSound ==
    ASSUME NEW o, o.price \in Nat, NEW r, RecordSound(o, r), NEW z,
           z = Reconciled(o, r, r.remaining_quantity)
    PROVE  RecordSound(o, z) /\ z.remaining <= r.remaining
<1>1. PICK d, q, st :
        /\ d = IF o.ioc THEN 0 ELSE Required(Kind(o.side), o.price, r.remaining_quantity)
        /\ q = IF d > 0 THEN r.remaining_quantity ELSE 0
        /\ st = IF d > 0 THEN "active" ELSE IF r.remaining > 0 THEN "released" ELSE "consumed"
  BY Zenon
<1>2. z = [remaining_quantity |-> q, remaining |-> d, committed |-> r.committed, status |-> st]
  <2>1. z = [r EXCEPT !.remaining = d, !.remaining_quantity = q, !.status = st]
    BY Zenon, <1>1 DEF Reconciled
  <2> QED  BY Zenon, <2>1 DEF RecordSound
<1>3. /\ z.remaining_quantity = q /\ z.remaining = d
      /\ z.committed = r.committed /\ z.status = st
  BY <1>2
<1>4. /\ r.remaining_quantity \in Nat /\ r.remaining \in Nat
      /\ r.remaining = Required(Kind(o.side), o.price, r.remaining_quantity)
  BY Zenon, RequiredFacts DEF RecordSound
<1>5. d = 0 \/ d = r.remaining
  BY Zenon, <1>1, <1>4
<1>6. d \in Nat /\ d <= r.remaining /\ (~(d > 0) => d = 0) /\ 0 \in Nat
  BY <1>4, <1>5
<1>7. d = Required(Kind(o.side), o.price, q) /\ q \in Nat
  <2>1. CASE d > 0
    <3>1. d # 0
      BY <1>6, <2>1
    <3> QED  BY Zenon, <1>1, <1>4, <1>5, <2>1, <3>1
  <2>2. CASE ~(d > 0)
    BY Zenon, <1>1, <1>6, <2>2, RequiredFacts
  <2> QED  BY Zenon, <2>1, <2>2
<1>8. st # "active" => q = 0
  BY Zenon, <1>1
<1> QED  BY Zenon, <1>2, <1>3, <1>6, <1>7, <1>8 DEF RecordSound

\* The cached capacities are the balances again when all are refreshed.
LEMMA CapacitiesSound ==
    ASSUME NEW e, EngineSound(e), NEW x, x = RefreshCapacities(e)
    PROVE  EngineSound(x) /\ Refreshed(x)
<1>1. PICK k : k = [y \in DOMAIN e.capacity |->
                      Balances(e, CHOOSE p \in DOMAIN e.entity : e.entity[p] = y)]
  BY Zenon
<1>2. x = [e EXCEPT !.capacity = k]
  BY Zenon, <1>1 DEF RefreshCapacities
<1>3. /\ IsEngine(x) /\ x.capacity = k /\ x.records = e.records
      /\ x.cash = e.cash /\ x.securities = e.securities /\ x.entity = e.entity
  <2>1. IsEngine(e)
    BY Zenon DEF EngineSound
  <2> QED  BY <1>2, <2>1, CapacityReplaced
<1>4. EngineSound(x)
  <2>1. RecordsSound(e.records) /\ EntitiesSound(e) /\ Balanced(e) /\ Covered(e)
    BY Zenon DEF EngineSound
  <2>2. DOMAIN x.capacity = DOMAIN e.capacity
    BY Zenon, <1>1, <1>3
  <2>3. EntitiesSound(x)
    BY <1>3, <2>1, <2>2 DEF EntitiesSound
  <2>4. Balanced(x)
    BY <1>3, <2>1 DEF Balanced
  <2>5. Covered(x)
    BY Zenon, <1>3, <2>1 DEF Covered
  <2> QED  BY Zenon, <1>3, <2>1, <2>3, <2>4, <2>5 DEF EngineSound
<1>5. ASSUME NEW p \in DOMAIN e.entity PROVE k[e.entity[p]] = Balances(e, p)
  <2>1. e.entity[p] \in DOMAIN e.capacity
    BY Zenon DEF EngineSound, EntitiesSound
  <2>2. PICK q : q = CHOOSE a \in DOMAIN e.entity : e.entity[a] = e.entity[p]
    BY Zenon
  <2>3. q \in DOMAIN e.entity /\ e.entity[q] = e.entity[p]
    BY Zenon, <2>2
  <2>4. q = p
    BY Zenon, <2>3 DEF EngineSound, EntitiesSound
  <2> QED  BY Zenon, <1>1, <2>1, <2>2, <2>4
<1>6. \A p : Balances(x, p) = Balances(e, p)
  BY Zenon, <1>3 DEF Balances
<1>7. Refreshed(x)
  BY Zenon, <1>3, <1>5, <1>6 DEF Refreshed
<1> QED  BY Zenon, <1>4, <1>7

\* The end of a batch.
LEMMA SettledSound ==
    ASSUME NEW e, EngineSound(e), NEW o, NEW remaining, CanReconcile(e, o, remaining),
           NEW x, x = Settled(e, o, remaining)
    PROVE  EngineSound(x) /\ Refreshed(x)
<1>1. PICK r, z, s : /\ r = e.records /\ z = Reconciled(o, r[o], remaining)
                     /\ s = [r EXCEPT ![o] = z]
  BY Zenon
<1>2. RecordsSound(r) /\ r[o].remaining_quantity = remaining
  BY Zenon, <1>1 DEF EngineSound, CanReconcile
<1>3. DOMAIN s = DOMAIN r /\ s = [a \in DOMAIN s |-> s[a]]
  BY Zenon, <1>1, <1>2 DEF RecordsSound
<1>4. ASSUME NEW a \in DOMAIN r PROVE RecordSound(a, s[a]) /\ s[a].remaining <= r[a].remaining
  <2>1. RecordSound(a, r[a]) /\ a.price \in Nat /\ r[a].remaining \in Nat
    BY Zenon, <1>2, AmountsAssumption, HeldFacts DEF RecordsSound
  <2>2. r[a].remaining <= r[a].remaining
    BY <2>1
  <2>3. CASE a = o
    <3>1. s[a] = z
      BY Zenon, <1>1, <1>2, <2>3 DEF RecordsSound
    <3>2. RecordSound(o, z) /\ z.remaining <= r[o].remaining
      BY Zenon, <1>1, <1>2, <2>1, <2>3, ReconciledSound
    <3> QED  BY Zenon, <2>3, <3>1, <3>2
  <2>4. CASE a # o
    <3>1. s[a] = r[a]
      BY Zenon, <1>1, <1>2, <2>4 DEF RecordsSound
    <3> QED  BY Zenon, <2>1, <2>2, <3>1
  <2> QED  BY Zenon, <2>3, <2>4
<1>5. RecordsSound(s)
  BY Zenon, <1>2, <1>3, <1>4 DEF RecordsSound
<1>6. PICK y, c : y = [e EXCEPT !.records = s] /\ c = RefreshCapacities(y)
  BY Zenon
<1>7. EngineSound(y)
  BY Zenon, <1>1, <1>3, <1>4, <1>5, <1>6, RecordsFall
<1>8. EngineSound(c) /\ Refreshed(c)
  BY Zenon, <1>6, <1>7, CapacitiesSound
<1>9. x = [c EXCEPT !.height = c.height + 1]
  BY Zenon, <1>1, <1>6 DEF Settled
<1> QED  BY Zenon, <1>8, <1>9, HeightSound, AlikeRefreshed

Sound(e) == EngineSound(e) /\ Refreshed(e)

\* settle_batch and settle_batch_collaborative.
LEMMA BatchSound ==
    ASSUME NEW e, EngineSound(e), NEW fills, NEW o, NEW remaining, NEW t,
           NEW c \in SettleBatch(e, fills, o, remaining, t)
                    \cup SettleBatchCollaborative(e, fills, o, remaining, t)
    PROVE  Sound(c)
<1>1. WellFormedBatch(fills, o, remaining, t)
  BY Zenon DEF SettleBatch, SettleBatchCollaborative
<1>2. /\ Len(fills) \in Nat
      /\ \A i \in 1 .. Len(fills) : fills[i].price \in Nat /\ fills[i].quantity \in Nat
  BY Zenon, <1>1 DEF WellFormedBatch
<1>3. \E x : EngineSound(x) /\ CanReconcile(x, o, remaining) /\ c = Settled(x, o, remaining)
  <2> DEFINE P == CHOOSE g : g = [i \in 0 .. Len(fills) |->
                    IF i = 0 THEN {e} ELSE SettleFill(g[i - 1], fills[i], t)]
             C == CHOOSE g : g = [i \in 0 .. Len(fills) |->
                    IF i = 0 THEN {e} ELSE SettleFillCollaborative(g[i - 1], fills[i], t)]
  <2>1. /\ \E g : g = [i \in 0 .. Len(fills) |->
                    IF i = 0 THEN {e} ELSE SettleFill(g[i - 1], fills[i], t)]
        /\ \E g : g = [i \in 0 .. Len(fills) |->
                    IF i = 0 THEN {e} ELSE SettleFillCollaborative(g[i - 1], fills[i], t)]
    <3>1. PICK g : IsLoop(g, Len(fills), FALSE, e, fills, t)
      BY Zenon, <1>2, LoopDefined
    <3>2. PICK h : IsLoop(h, Len(fills), TRUE, e, fills, t)
      BY Zenon, <1>2, LoopDefined
    <3>3. g = [i \in 0 .. Len(fills) |->
                    IF i = 0 THEN {e} ELSE SettleFill(g[i - 1], fills[i], t)]
      BY Zenon, <3>1 DEF IsLoop, Turn
    <3>4. h = [i \in 0 .. Len(fills) |->
                    IF i = 0 THEN {e} ELSE SettleFillCollaborative(h[i - 1], fills[i], t)]
      BY Zenon, <3>2 DEF IsLoop, Turn
    <3> QED  BY Zenon, <3>3, <3>4
  <2>2. IsLoop(P, Len(fills), FALSE, e, fills, t)
    BY Zenon, <2>1 DEF IsLoop, Turn
  <2>3. IsLoop(C, Len(fills), TRUE, e, fills, t)
    BY Zenon, <2>1 DEF IsLoop, Turn
  <2>4. c \in SettleBatch(e, fills, o, remaining, t) =>
            \E x \in P[Len(fills)] : CanReconcile(x, o, remaining) /\ c = Settled(x, o, remaining)
    BY Zenon, <1>1 DEF SettleBatch
  <2>5. c \in SettleBatchCollaborative(e, fills, o, remaining, t) =>
            \E x \in C[Len(fills)] : CanReconcile(x, o, remaining) /\ c = Settled(x, o, remaining)
    BY Zenon, <1>1 DEF SettleBatchCollaborative
  <2> HIDE DEF P, C
  <2>6. \A x \in P[Len(fills)] \cup C[Len(fills)] : EngineSound(x)
    BY Zenon, <1>2, <2>2, <2>3, LoopSound
  <2> QED  BY Zenon, <2>4, <2>5, <2>6
<1> QED  BY Zenon, <1>3, SettledSound DEF Sound

\* stage_with_assurance binds and reserves on a copy.
LEMMA StagedSound ==
    ASSUME NEW s, Sound(s.engine), NEW o \in Orders, NEW staged \in Staged(s, o)
    PROVE  Sound(staged.service.engine)
<1>1. PICK m, e : /\ e \in Reserve(Bind(s.engine, o.participant, o.entity), o)
                  /\ staged = [fills |-> m.fills, remaining |-> m.remaining,
                               service |-> [book |-> m.book, sequence |-> s.sequence + 1,
                                            consumed |-> s.consumed \cup {o}, engine |-> e]]
  BY DEF Staged
<1>2. staged.service.engine = e
  BY Zenon, <1>1
<1>3. PICK b : b = Bind(s.engine, o.participant, o.entity)
  BY Zenon
<1>4. CanBind(s.engine, o.participant, o.entity) /\ o.participant \in Participants
  <2>1. CanBind(s.engine, o.participant, o.entity)
    BY DEF Staged
  <2> QED  BY Zenon, <2>1, AmountsAssumption
<1>5. EngineSound(b) /\ Refreshed(b)
  BY Zenon, <1>3, <1>4, BindSound DEF Sound
<1> QED  BY Zenon, <1>1, <1>2, <1>3, <1>5, ReserveSound DEF Sound

\* The candidate of a prepared transition.
LEMMA TransitionSound ==
    ASSUME NEW e, NEW o, NEW reserved, Sound(reserved), NEW fills, NEW remaining, NEW t, NEW x,
           \/ x \in PrepareReservation(e, reserved, o, t)
           \/ x \in PrepareAdmissionBatch(e, reserved, fills, o, remaining, t)
           \/ x \in PrepareAdmissionBatchCollaborative(e, reserved, fills, o, remaining, t)
    PROVE  Sound(x.candidate)
<1>1. \E c, d : x = Transition(e, c, d) /\ Sound(c)
  <2>1. CASE x \in PrepareReservation(e, reserved, o, t)
    BY Zenon, <2>1 DEF PrepareReservation
  <2>2. CASE ~(x \in PrepareReservation(e, reserved, o, t))
    <3>1. PICK y, d : /\ x = Transition(e, y.candidate, d)
                      /\ y \in PrepareBatch(reserved, fills, o, remaining, t)
                             \cup PrepareBatchCollaborative(reserved, fills, o, remaining, t)
      BY Zenon, <2>2 DEF PrepareAdmissionBatch, PrepareAdmissionBatchCollaborative
    <3>2. PICK c \in SettleBatch(reserved, fills, o, remaining, t)
                        \cup SettleBatchCollaborative(reserved, fills, o, remaining, t) :
                y = Transition(reserved, c, t + BatchLifetime)
      BY Zenon, <3>1 DEF PrepareBatch, PrepareBatchCollaborative
    <3>3. y.candidate = c
      BY Zenon, <3>2 DEF Transition
    <3>4. Sound(c)
      BY Zenon, BatchSound DEF Sound
    <3> QED  BY Zenon, <3>1, <3>3, <3>4
  <2> QED  BY Zenon, <2>1, <2>2
<1>2. PICK c, d : x = Transition(e, c, d) /\ Sound(c)
  BY Zenon, <1>1
<1>3. x.candidate = c
  BY Zenon, <1>2 DEF Transition
<1> QED  BY Zenon, <1>2, <1>3

\* What a worker holds is sound.
SoundWork(w) ==
    /\ w.step # "idle" => w.order \in Orders
    /\ w.step = "pending" => Sound(w.staged.service.engine)
    /\ w.step \in {"prepared", "settled"} => Sound(w.transition.candidate)

SolventInv == Sound(service.engine) /\ \A p \in Participants : SoundWork(worker[p])

\* A new engine: nothing is reserved, and every account has its endowment.
LEMMA NewEngineSound == Sound(NewEngine)
<1>1. PICK e : e = NewEngine
  BY Zenon
<1>2. /\ IsEngine(e) /\ e.records = <<>> /\ e.entity = <<>>
      /\ e.cash = [p \in Participants |-> InitialCash]
      /\ e.securities = [p \in Participants |-> InitialSecurities]
  BY Zenon, <1>1 DEF NewEngine, IsEngine
<1>3. DOMAIN e.records = {} /\ DOMAIN e.entity = {} /\ IsFiniteSet({})
      /\ e.records = [o \in DOMAIN e.records |-> e.records[o]]
      /\ e.entity = [p \in DOMAIN e.entity |-> e.entity[p]]
  <2>1. DOMAIN <<>> = {} /\ <<>> = [i \in {} |-> i] /\ <<>> = [i \in DOMAIN <<>> |-> <<>>[i]]
    OBVIOUS
  <2>2. IsFiniteSet({})
    BY FS_EmptySet
  <2> QED  BY Zenon, <1>2, <2>1, <2>2
<1>4. RecordsSound(e.records) /\ EntitiesSound(e) /\ Covered(e) /\ Refreshed(e)
  BY Zenon, <1>3 DEF RecordsSound, EntitiesSound, Covered, Refreshed
<1>5. e.cash \in [Participants -> Nat] /\ e.securities \in [Participants -> Nat]
  BY Zenon, <1>2, AmountsAssumption
<1>6. Balanced(e)
  <2>1. IsFiniteSet(Participants) /\ InitialCash \in Int /\ InitialSecurities \in Int
    BY AmountsAssumption
  <2>2. \A p \in Participants : e.cash[p] = InitialCash /\ e.securities[p] = InitialSecurities
    BY Zenon, <1>2
  <2>3. SumFunctionOnSet(e.cash, Participants) = InitialCash * Cardinality(Participants)
    BY Zenon, <2>1, <2>2, SumConstant
  <2>4. SumFunctionOnSet(e.securities, Participants)
            = InitialSecurities * Cardinality(Participants)
    BY Zenon, <2>1, <2>2, SumConstant
  <2> QED  BY Zenon, <1>5, <2>3, <2>4 DEF Balanced
<1> QED  BY Zenon, <1>1, <1>2, <1>4, <1>6 DEF Sound, EngineSound

\* expire_due releases or has nothing to do.
LEMMA ExpireDueSound ==
    ASSUME NEW s, IsService(s), Sound(s.engine), NEW t \in ExpireDue(s)
    PROVE  Sound(t.engine)
<1>1. CASE t = s
  BY Zenon, <1>1
<1>2. CASE t # s
  <2>1. PICK e \in Release(s.engine, Expired(s.book)) :
            t = [s EXCEPT !.book = Live(s.book), !.sequence = s.sequence + 1, !.engine = e]
    BY Zenon, <1>2 DEF ExpireDue
  <2>2. t.engine = e
    <3>1. t = [book |-> Live(s.book), sequence |-> s.sequence + 1, consumed |-> s.consumed,
               engine |-> e]
      BY Zenon, <2>1 DEF IsService
    <3> QED  BY Zenon, <3>1
  <2> QED  BY Zenon, <2>1, <2>2, ReleaseSound DEF Sound
<1> QED  BY Zenon, <1>1, <1>2

\* submit after the expiry.
LEMMA SubmittedSound ==
    ASSUME NEW s, IsService(s), Sound(s.engine), NEW o \in Orders, NEW t \in Submitted(s, o)
    PROVE  Sound(t.engine)
<1>0. PICK staged \in Staged(s, o) :
        t \in {[staged.service EXCEPT !.engine = e] :
                e \in IF o.ioc /\ staged.fills = <<>>
                      THEN Release(staged.service.engine, {o}) ELSE SettledEngine(staged, o)}
  BY Zenon DEF Submitted
<1>1. PICK e : /\ t = [staged.service EXCEPT !.engine = e]
               /\ e \in Release(staged.service.engine, {o}) \/ e \in SettledEngine(staged, o)
  BY Zenon, <1>0
<1>2. Sound(staged.service.engine) /\ IsService(staged.service)
  BY Zenon, StagedSound, StagedExtends
<1>3. t.engine = e
  BY <1>1, <1>2, EngineReplaced
<1>4. CASE e \in Release(staged.service.engine, {o})
  BY Zenon, <1>2, <1>3, <1>4, ReleaseSound DEF Sound
<1>5. CASE e \in SettledEngine(staged, o)
  <2>1. \/ e = staged.service.engine
        \/ e \in SettleBatch(staged.service.engine, staged.fills, o, staged.remaining, now)
    BY Zenon, <1>5 DEF SettledEngine
  <2>2. CASE e = staged.service.engine
    BY Zenon, <1>2, <1>3, <2>2
  <2>3. CASE e \in SettleBatch(staged.service.engine, staged.fills, o, staged.remaining, now)
    BY Zenon, <1>2, <1>3, <2>3, BatchSound DEF Sound
  <2> QED  BY Zenon, <2>1, <2>2, <2>3
<1> QED  BY Zenon, <1>1, <1>4, <1>5

\* accept installs the candidate at the ledger's height.
LEMMA AcceptedSound ==
    ASSUME NEW w, w.step = "settled", Carries(w, service), SoundWork(w),
           NEW h, NEW s \in Accepted(w, h)
    PROVE  Sound(s.engine)
<1>1. PICK e \in AcceptTransition(w.next.engine, w.transition, h) : s = [w.next EXCEPT !.engine = e]
  BY Zenon DEF Accepted
<1>2. IsService(w.next) /\ Sound(w.transition.candidate)
  BY Zenon DEF Carries, Carried, InProgress, SoundWork
<1>3. s.engine = e
  BY <1>1, <1>2, EngineReplaced
<1>4. e = [w.transition.candidate EXCEPT !.height = h]
  BY Zenon, <1>1 DEF AcceptTransition
<1>5. EngineSound(e) /\ Alike(e, w.transition.candidate)
  BY <1>2, <1>4, HeightSound DEF Sound
<1> QED  BY Zenon, <1>2, <1>3, <1>5, AlikeRefreshed DEF Sound

\* prepare_staged puts a sound candidate in the worker's hands.
LEMMA PreparedSound ==
    ASSUME NEW p, NEW o \in Orders, NEW staged, Prepared(p, o, staged), Sound(staged.service.engine)
    PROVE  \E w : worker' = [worker EXCEPT ![p] = w] /\ SoundWork(w)
<1>1. PICK t \in Transitions(o, staged) : worker' = [worker EXCEPT ![p] =
            [step |-> "prepared", order |-> o, base |-> Base(service), transition |-> t,
             next |-> [staged.service EXCEPT !.engine = service.engine]]]
  BY Zenon DEF Prepared
<1>2. PICK w : /\ w = [step |-> "prepared", order |-> o, base |-> Base(service), transition |-> t,
                       next |-> [staged.service EXCEPT !.engine = service.engine]]
               /\ worker' = [worker EXCEPT ![p] = w]
  BY Zenon, <1>1
<1>3. \/ t \in PrepareReservation(service.engine, staged.service.engine, o, now)
      \/ t \in PrepareAdmissionBatch(service.engine, staged.service.engine, staged.fills, o,
                                      staged.remaining, now)
  BY Zenon, <1>1 DEF Transitions
<1>4. Sound(t.candidate)
  BY Zenon, <1>3, TransitionSound
<1>5. w.step = "prepared" /\ w.order = o /\ w.transition = t
  BY Zenon, <1>2
<1>6. w.step # "pending"
  BY Zenon, <1>5
<1> QED  BY Zenon, <1>2, <1>4, <1>5, <1>6 DEF SoundWork

\* One admission of the acceptance program.
LEMMA AdmitSound ==
    ASSUME IsService(service), Sound(service.engine), NEW o \in Orders, Admit(o)
    PROVE  Sound(service'.engine)
<1>1. PICK staged \in Staged(service, o) :
      \E t \in IF staged.fills = <<>>
               THEN PrepareReservation(service.engine, staged.service.engine, o, now)
               ELSE PrepareAdmissionBatchCollaborative(service.engine, staged.service.engine,
                       staged.fills, o, staged.remaining, now) :
        \E l \in Moved(t) : \E e \in AcceptTransition(service.engine, t, l.height) :
            service' = [staged.service EXCEPT !.engine = e]
  BY Zenon DEF Admit
<1>2. PICK t : /\ \/ t \in PrepareReservation(service.engine, staged.service.engine, o, now)
                  \/ t \in PrepareAdmissionBatchCollaborative(service.engine,
                            staged.service.engine, staged.fills, o, staged.remaining, now)
               /\ \E l \in Moved(t) : \E e \in AcceptTransition(service.engine, t, l.height) :
                    service' = [staged.service EXCEPT !.engine = e]
  BY Zenon, <1>1
<1>3. PICK h : \E e \in AcceptTransition(service.engine, t, h) :
                    service' = [staged.service EXCEPT !.engine = e]
  BY Zenon, <1>2
<1>4. PICK e : /\ e = [t.candidate EXCEPT !.height = h]
               /\ service' = [staged.service EXCEPT !.engine = e]
  BY Zenon, <1>3 DEF AcceptTransition
<1>5. Sound(staged.service.engine) /\ IsService(staged.service)
  BY Zenon, StagedSound, StagedExtends
<1>6. Sound(t.candidate)
  BY Zenon, <1>2, <1>5, TransitionSound
<1>7. Sound(e)
  <2>1. EngineSound(e) /\ Alike(e, t.candidate)
    BY <1>4, <1>6, HeightSound DEF Sound
  <2> QED  BY Zenon, <1>6, <2>1, AlikeRefreshed DEF Sound
<1>8. service'.engine = e
  <2>1. PICK n : n = [staged.service EXCEPT !.engine = e]
    BY Zenon
  <2>2. n.engine = e
    BY <1>5, <2>1, EngineReplaced
  <2> QED  BY Zenon, <1>4, <2>1, <2>2
<1> QED  BY Zenon, <1>7, <1>8

\* An idle worker holds nothing.
LEMMA IdleSound == SoundWork(Idle)
  BY Zenon, IdleReserves DEF SoundWork

\* Every step leaves a sound engine, and submissions that lead to one.
LEMMA SolventStep ==
    ASSUME SequenceInv, QueueInv, SolventInv, [Next]_vars
    PROVE  SolventInv'
<1>0. /\ IsService(service) /\ Sound(service.engine)
      /\ \A p \in Participants : SoundWork(worker[p]) /\ Carries(worker[p], service)
  BY Zenon DEF SequenceInv, SolventInv
<1>1. ASSUME Sound(service'.engine),
             \/ worker' = worker
             \/ \E p \in Participants : \E w : worker' = [worker EXCEPT ![p] = w] /\ SoundWork(w)
      PROVE  SolventInv'
  <2>1. \A p \in Participants : SoundWork(worker'[p])
    BY Zenon, <1>0, <1>1 DEF SequenceInv
  <2> QED  BY Zenon, <1>1, <2>1 DEF SolventInv
<1>2. ASSUME service' = service PROVE Sound(service'.engine)
  BY Zenon, <1>0, <1>2
<1>3. ASSUME NEW p \in Participants, Fail(p), service' = service PROVE SolventInv'
  BY Zenon, <1>1, <1>2, <1>3, IdleSound DEF Fail, Dispatched
<1>4. CASE UNCHANGED vars \/ Tick
  BY Zenon, <1>1, <1>2, <1>4 DEF vars, Tick
<1>5. ASSUME NEW o \in Orders, Enqueue(o) PROVE SolventInv'
  BY Zenon, <1>1, <1>2, <1>5 DEF Enqueue
<1>6. ASSUME NEW o \in Orders, Cancel(o) PROVE SolventInv'
  <2>1. PICK b, e : /\ e \in Release(service.engine, {o})
                    /\ service' = [service EXCEPT !.book = b, !.sequence = service.sequence + 1,
                                                  !.engine = e]
    BY Zenon, <1>6 DEF Cancel
  <2>2. Sound(e)
    BY Zenon, <1>0, <2>1, ReleaseSound DEF Sound
  <2>3. PICK n : n = [service EXCEPT !.book = b, !.sequence = service.sequence + 1, !.engine = e]
    BY Zenon
  <2>4. n.engine = e
    <3>1. n = [book |-> b, sequence |-> service.sequence + 1, consumed |-> service.consumed,
               engine |-> e]
      BY Zenon, <1>0, <2>3 DEF IsService
    <3> QED  BY Zenon, <3>1
  <2>5. service'.engine = e
    BY Zenon, <2>1, <2>3, <2>4
  <2> QED  BY Zenon, <1>1, <1>6, <2>2, <2>5 DEF Cancel
<1>7. ASSUME NEW o \in Orders, Admit(o) PROVE SolventInv'
  BY Zenon, <1>0, <1>1, <1>7, AdmitSound DEF Admit
<1>8. CASE Expire
  <2>1. \A t \in ExpireDue(service) : Sound(t.engine)
    BY Zenon, <1>0, ExpireDueSound
  <2> QED  BY Zenon, <1>1, <1>8, <2>1 DEF Expire
<1>9. ASSUME NEW p \in Participants, Claim(p) PROVE SolventInv'
  <2>1. CASE worker' = worker
    BY Zenon, <1>1, <1>2, <1>9, <2>1 DEF Claim
  <2>2. CASE worker' # worker
    <3>1. PICK i \in Oldest(p) :
            worker' = [worker EXCEPT ![p] = [step |-> "claimed", order |-> queue[p][i].order]]
      BY Zenon, <1>9, <2>2 DEF Claim
    <3>2. queue[p][i].order \in Orders
      <4>1. queue[p] \in Entries /\ i \in DOMAIN queue[p]
        BY Zenon, <3>1 DEF QueueInv, Oldest
      <4>2. \A T : queue[p] \in Seq(T) => queue[p][i] \in T
        BY <4>1
      <4>3. queue[p][i] \in [order : Orders, status : Status]
        BY Zenon, <4>1, <4>2 DEF Entries
      <4> QED  BY <4>3
    <3>3. PICK w : w = [step |-> "claimed", order |-> queue[p][i].order]
      BY Zenon
    <3>4. SoundWork(w)
      <4>1. w.step = "claimed" /\ w.order = queue[p][i].order
        BY Zenon, <3>3
      <4> QED  BY Zenon, <3>2, <4>1 DEF SoundWork
    <3> QED  BY Zenon, <1>1, <1>2, <1>9, <3>1, <3>3, <3>4 DEF Claim
  <2> QED  BY Zenon, <2>1, <2>2
<1>10. ASSUME NEW p \in Participants, worker[p].step = "claimed" \/ worker[p].step = "pending"
       PROVE  worker[p].order \in Orders
  BY Zenon, <1>0, <1>10 DEF SoundWork
<1>11. ASSUME NEW p \in Participants, ExecuteLocal(p) \/ ExecuteUnrecorded(p) PROVE SolventInv'
  <2>1. PICK base \in ExpireDue(service) :
            service' = base \/ service' \in Submitted(base, worker[p].order)
    BY Zenon, <1>11 DEF ExecuteLocal, ExecuteUnrecorded
  <2>2. IsService(base) /\ Sound(base.engine)
    BY Zenon, <1>0, ExpireDueExtends, ExpireDueSound
  <2>3. worker[p].order \in Orders
    BY Zenon, <1>10, <1>11 DEF ExecuteLocal, ExecuteUnrecorded
  <2>4. \A t \in Submitted(base, worker[p].order) : Sound(t.engine)
    BY Zenon, <2>2, <2>3, SubmittedSound
  <2>5. Sound(service'.engine)
    BY Zenon, <2>1, <2>2, <2>4
  <2>6. worker' = [worker EXCEPT ![p] = Idle]
    BY Zenon, <1>11 DEF ExecuteLocal, ExecuteUnrecorded, Dispatched
  <2> QED  BY Zenon, <1>1, <2>5, <2>6, IdleSound
<1>12. ASSUME NEW o \in Orders, NEW staged \in NativeStaged(o)
       PROVE  Sound(staged.service.engine)
  <2>1. staged \in Staged(service, o)
    BY Zenon, <1>12 DEF NativeStaged
  <2> QED  BY Zenon, <1>0, <2>1, StagedSound
<1>13. ASSUME NEW p \in Participants, Prepare(p) PROVE SolventInv'
  <2>1. service' = service /\ worker[p].order \in Orders
    BY Zenon, <1>10, <1>13 DEF Prepare
  <2>2. ASSUME NEW staged \in NativeStaged(worker[p].order), Prepared(p, worker[p].order, staged)
        PROVE  SolventInv'
    <3>1. \E w : worker' = [worker EXCEPT ![p] = w] /\ SoundWork(w)
      BY Zenon, <1>12, <2>1, <2>2, PreparedSound
    <3> QED  BY Zenon, <1>1, <1>2, <2>1, <3>1
  <2> QED  BY Zenon, <1>3, <1>13, <2>1, <2>2 DEF Prepare
<1>14. ASSUME NEW p \in Participants, Propose(p) PROVE SolventInv'
  <2>1. service' = service /\ worker[p].order \in Orders
    BY Zenon, <1>10, <1>14 DEF Propose
  <2>2. ASSUME NEW staged \in NativeStaged(worker[p].order),
               worker' = [worker EXCEPT ![p] =
                    [step |-> "pending", order |-> worker[p].order,
                     base |-> Base(service), staged |-> staged]]
        PROVE  SolventInv'
    <3>1. PICK w : /\ w = [step |-> "pending", order |-> worker[p].order,
                           base |-> Base(service), staged |-> staged]
                   /\ worker' = [worker EXCEPT ![p] = w]
      BY Zenon, <2>2
    <3>2. w.step = "pending" /\ w.order = worker[p].order /\ w.staged = staged
      BY Zenon, <3>1
    <3>3. w.step \notin {"prepared", "settled"}
      BY Zenon, <3>2
    <3>4. SoundWork(w)
      BY Zenon, <1>12, <2>1, <3>2, <3>3 DEF SoundWork
    <3> QED  BY Zenon, <1>1, <1>2, <2>1, <3>1, <3>4
  <2> QED  BY Zenon, <1>3, <1>14, <2>1, <2>2 DEF Propose
<1>15. ASSUME NEW p \in Participants, Finalize(p) PROVE SolventInv'
  <2>1. service' = service /\ worker[p].step = "pending" /\ worker[p].order \in Orders
    BY Zenon, <1>10, <1>15 DEF Finalize
  <2>2. Sound(worker[p].staged.service.engine)
    BY Zenon, <1>0, <2>1 DEF SoundWork
  <2>3. ASSUME Prepared(p, worker[p].order, worker[p].staged) PROVE SolventInv'
    <3>1. \E w : worker' = [worker EXCEPT ![p] = w] /\ SoundWork(w)
      BY Zenon, <2>1, <2>2, <2>3, PreparedSound
    <3> QED  BY Zenon, <1>1, <1>2, <2>1, <3>1
  <2> QED  BY Zenon, <1>3, <1>15, <2>1, <2>3 DEF Finalize
<1>16. ASSUME NEW p \in Participants, CallFails(p) \/ LedgerUnconfirmed(p) PROVE SolventInv'
  BY Zenon, <1>3, <1>16 DEF CallFails, LedgerUnconfirmed
<1>17. ASSUME NEW p \in Participants, LedgerSettle(p) PROVE SolventInv'
  <2>1. service' = service /\ worker[p].step = "prepared"
    BY Zenon, <1>17 DEF LedgerSettle
  <2>2. ASSUME worker' = [worker EXCEPT ![p].step = "settled"] PROVE SolventInv'
    <3>1. PICK v, w : /\ v = worker[p] /\ w = [v EXCEPT !.step = "settled"]
                      /\ worker' = [worker EXCEPT ![p] = w]
      BY Zenon, <2>2
    <3>2. v = [step |-> v.step, order |-> v.order, base |-> v.base,
               transition |-> v.transition, next |-> v.next] /\ SoundWork(v) /\ v.step = "prepared"
      BY Zenon, <1>0, <2>1, <3>1 DEF Carries
    <3>3. w = [step |-> "settled", order |-> v.order, base |-> v.base,
               transition |-> v.transition, next |-> v.next]
      BY Zenon, <3>1, <3>2
    <3>4. w.step = "settled" /\ w.order = v.order /\ w.transition = v.transition
      BY Zenon, <3>3
    <3>5. w.step # "pending" /\ v.step # "idle" /\ v.step \in {"prepared", "settled"}
      BY Zenon, <3>2, <3>4
    <3>6. SoundWork(w)
      BY Zenon, <3>2, <3>4, <3>5 DEF SoundWork
    <3> QED  BY Zenon, <1>1, <1>2, <2>1, <3>1, <3>6
  <2> QED  BY Zenon, <1>3, <1>17, <2>1, <2>2 DEF LedgerSettle
<1>18. ASSUME NEW p \in Participants, Accept(p) \/ AcceptUnrecorded(p) PROVE SolventInv'
  <2>1. /\ worker[p].step = "settled"
        /\ \/ /\ \E h : service' \in Accepted(worker[p], h)
              /\ worker' = [worker EXCEPT ![p] = Idle]
           \/ Fail(p) /\ service' = service
    BY Zenon, <1>18 DEF Accept, AcceptUnrecorded, Dispatched
  <2>2. \A h : \A t \in Accepted(worker[p], h) : Sound(t.engine)
    BY Zenon, <1>0, <2>1, AcceptedSound
  <2> QED  BY Zenon, <1>1, <1>3, <2>1, <2>2, IdleSound
<1> QED
  BY Zenon, <1>4, <1>5, <1>6, <1>7, <1>8, <1>9, <1>11, <1>13, <1>14, <1>15, <1>16, <1>17, <1>18 DEF Next

\* Solvent: reservations are always covered by the balances they will be paid
\* from, and settlement makes and loses nothing. On every path, for any
\* participants, orders, endowments and faults: the cached capacity that
\* reserve_order compares with is the balance whenever it is read.
THEOREM NeverOverdrawn == Spec => []Solvent
<1>1. Init => SolventInv
  <2> SUFFICES ASSUME Init PROVE SolventInv
    OBVIOUS
  <2>1. service.engine = NewEngine /\ \A p \in Participants : worker[p] = Idle
    BY Zenon DEF Init, NewService
  <2> QED  BY Zenon, <2>1, NewEngineSound, IdleSound DEF SolventInv
<1>2. SequenceInv /\ LedgerInv /\ SolventInv /\ [Next]_vars => SolventInv'
  BY Zenon, SolventStep DEF LedgerInv
<1>3. SolventInv => Solvent
  <2> SUFFICES ASSUME SolventInv PROVE Solvent
    OBVIOUS
  <2>1. PICK e : e = service.engine
    BY Zenon
  <2>2. EngineSound(e)
    BY Zenon, <2>1 DEF SolventInv, Sound
  <2>3. ASSUME NEW p \in DOMAIN e.entity, NEW k \in {"cash", "securities"}
        PROVE  InUse(e, e.entity[p], k) <= Balances(e, p)[k]
    <3>1. InUse(e, e.entity[p], k) = Held(e.records, e.entity[p], k)
      BY Zenon, <2>2, InUseIsHeld DEF EngineSound
    <3>2. Balances(e, p)["cash"] = e.cash[p] /\ Balances(e, p)["securities"] = e.securities[p]
      BY Zenon DEF Balances
    <3> QED  BY Zenon, <2>2, <3>1, <3>2 DEF EngineSound, Covered
  <2> QED  BY Zenon, <2>1, <2>2, <2>3 DEF Solvent, EngineSound, Balanced
<1> QED  BY <1>1, <1>2, <1>3, LedgerInvariant, PTL DEF Spec

=============================================================================
