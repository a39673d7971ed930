--------------------------- MODULE CorporateQueue ---------------------------
(***************************************************************************)
(* The corporate side of an order: from the signed intent to the receipt   *)
(* of the seven nodes and the hand-over to the market, or to the proof     *)
(* that nothing was reserved, or to the release of what was.               *)
(*                                                                         *)
(* Two processes of one participant share the encrypted journal and the    *)
(* dispatch queue: "intake", the CLI or the API under the intake lock, and *)
(* "worker", the dispatcher under the worker lock.  Every journal record   *)
(* is written once (put_first) and each write is a step of its own: a      *)
(* process may stop after any of them and be started again.                *)
(*                                                                         *)
(* External: the outbox file of zkpi_defmi_sdk that holds the queue, the   *)
(* credit facility and reservation heads of the DeFMI chain, the market's  *)
(* fills.  Commitments are their values; random bytes are the name of the  *)
(* process that drew them.                                                 *)
(***************************************************************************)
EXTENDS Naturals, FiniteSets, FiniteSetsExt

CONSTANTS
    Authorized,       \* requests whose funding is prepared by the worker
    PreparedFirst,    \* requests whose funding is prepared by the intake
    Limit,            \* the reservation limit of a request
    ExpiresAt,        \* its deadline
    InitialAvailable, \* the facility's capacity
    MaxAttempts,      \* dispatch attempts before manual review
    MaxTime,          \* bound: the clock
    MaxFaults         \* bound: crashes and lost replies

VARIABLES
    journal,    \* NativeCorporateJournal: <<stage, request>> -> record
    queue,      \* NativeCorporateDispatch: request -> entry
    proc,       \* what each process is doing
    chain,      \* the facility and the reservation heads
    sent,       \* reserve requests that left a process
    delivered,  \* ciphertext sets that reached a node
    market,     \* signed inputs that reached the market
    now,
    faults

vars == <<journal, queue, proc, chain, sent, delivered, market, now, faults>>

Requests == Authorized \cup PreparedFirst

Processes == {"intake", "worker"}

Idle == [step |-> "idle"]

Initial == [sequence |-> 0, available |-> InitialAvailable, held |-> 0, outstanding |-> 0]

NoHold == [status |-> "none"]

Init ==
    /\ journal = <<>>
    /\ queue = <<>>
    /\ proc = [p \in Processes |-> Idle]
    /\ chain = [facility |-> Initial, hold |-> [r \in Requests |-> NoHold]]
    /\ sent = {} /\ delivered = {} /\ market = {}
    /\ now = 0
    /\ faults = 0

-----------------------------------------------------------------------------
(* The journal *)

Has(stage, r) == <<stage, r>> \in DOMAIN journal

Record(stage, r) == journal[<<stage, r>>]

\* Mutant: the writer goes on with its own bytes.
AdoptOwn(stage, r, body) == body

\* What put_first returns: the record that was there, or the new one.
Adopt(stage, r, body) == IF Has(stage, r) THEN Record(stage, r) ELSE body

\* The value under a key is written once.
FirstSeen(f, key, value) ==
    [k \in DOMAIN f \cup {key} |-> IF k \in DOMAIN f THEN f[k] ELSE value]

\* put_first: the first record stays.
Put(stage, r, body) == journal' = FirstSeen(journal, <<stage, r>>, body)

\* The intents of the journal.  The sequence of an intent is kept as the set of
\* the intents that were saved before it.
Intents == {r \in Requests : Has("intent", r)}

Earlier(r) == Record("intent", r)

\* The request has left the turn order.
Completed(r) == \E stage \in {"receipt", "resolved", "authorization-end"} : Has(stage, r)

\* Mutant: an admitted, resolved or ended predecessor is not waited for.
AnyTurn(r) == ~Has("resolved", r) /\ ~Has("authorization-end", r)

\* require_turn: an ended request is refused, an admitted one passes, any other
\* must be the oldest that is not completed.
HasTurn(r) ==
    /\ ~Has("resolved", r) /\ ~Has("authorization-end", r)
    /\ \/ Has("receipt", r)
       \/ \A q \in Earlier(r) : Completed(q)

\* The durable proof that nothing was reserved: was_never_reserved.
NeverReserved(r) ==
    \/ Has("authorization-end", r)
    \/ Has("expiry-result", r) /\ Record("expiry-result", r) = "never_reserved"

-----------------------------------------------------------------------------
(* The private facility witness *)

Capacity(f) == [available |-> f.available, held |-> f.held, outstanding |-> f.outstanding]

Generations == {k[2] : k \in {j \in DOMAIN journal : j[1] = "funding"}}

\* latest_funding: the recorded witness of the highest generation.
LatestFunding ==
    IF Generations = {} THEN Capacity(Initial)
    ELSE Capacity(journal[<<"funding", Max(Generations)>>])

\* save_funding_witness: one witness names a generation.
CanSaveFunding(f) == Adopt("funding", f.sequence, f) = f

\* Mutant: the refund of a closed hold is not returned.
MovementNoRefund(h, limit) ==
    [sequence |-> 1 + h.sequence, unavailable |-> limit,
     held |-> IF h.status = "active" THEN h.remaining ELSE 0, consumed |-> limit - h.remaining]

\* apply_reserve_movement for the head h of a reserve of the given limit.
Movement(h, limit) ==
    LET active == h.status = "active"
        consumed == limit - h.remaining
    IN [sequence |-> 1 + h.sequence,
        unavailable |-> consumed + (IF active THEN h.remaining ELSE 0),
        held |-> IF active THEN h.remaining ELSE 0,
        consumed |-> consumed]

\* The reserves of the journal that may have moved the facility.
Recorded == {r \in Requests : Has("reserve", r)}

Counted == {r \in Recorded : ~NeverReserved(r)}

\* The canonical head belongs to the journal's reserve.
OwnHead(r) ==
    /\ chain.hold[r].status # "none"
    /\ chain.hold[r].bytes = Record("reserve", r).bytes

\* recover_facility: the movements of all canonical heads, accepted only when
\* they add up to the canonical facility.
RecoverFacility ==
    LET first == Min({Record("reserve", r).before.sequence : r \in Recorded})
        moved(r) == Movement(chain.hold[r], Limit[r])
        total(Part(_)) == MapThenSumSet(Part, Counted)
    IN  IF \/ Recorded = {}
           \/ \E r \in Counted : ~OwnHead(r)
           \/ \E r \in Recorded : /\ Record("reserve", r).before.sequence = first
                                  /\ Capacity(Record("reserve", r).before) # Capacity(Initial)
        THEN {}
        ELSE {f \in {[sequence |-> first + total(LAMBDA r : moved(r).sequence),
                      available |-> InitialAvailable - total(LAMBDA r : moved(r).unavailable),
                      held |-> total(LAMBDA r : moved(r).held),
                      outstanding |-> total(LAMBDA r : moved(r).consumed)]} :
                f = chain.facility}

\* The witness names the canonical generation.
WitnessCurrent == LatestFunding = Capacity(chain.facility)

\* An unspent note and the facility cover the limit.
Funded(r) == chain.facility.available >= Limit[r]

\* The signed reserve for the canonical state; bytes are its random bytes.
NewReserve(p) == [bytes |-> p, before |-> chain.facility]

\* facility_after: the witness of the generation the reserve creates.
After(r) ==
    LET f == Record("reserve", r).before IN
    [f EXCEPT !.sequence = @ + 1, !.available = @ - Limit[r], !.held = @ + Limit[r]]

-----------------------------------------------------------------------------
(* Steps of a process *)

At(p, step) == proc[p].step = step

\* What a process is at, for which request, and the bytes or reads it carries.
Goto(p, step) == proc' = [proc EXCEPT ![p].step = step]

Carry(p, step, x) == proc' = [proc EXCEPT ![p] = [step |-> step, id |-> @.id, carried |-> x]]

Start(p, step, r) == proc' = [proc EXCEPT ![p] = [step |-> step, id |-> r, carried |-> {}]]

\* An error ends the attempt; the records stay.
Stop(p) == proc' = [proc EXCEPT ![p] = Idle]

Fault == faults < MaxFaults /\ faults' = faults + 1

Outside == <<chain, sent, delivered, market>>

\* The process dies.
Crash(p) ==
    /\ proc[p] # Idle
    /\ Fault
    /\ Stop(p)
    /\ UNCHANGED <<journal, queue, Outside, now>>

-----------------------------------------------------------------------------
(* Intake: oclob-edge-submit and the corporate API, one at a time *)

\* The API takes a saved request again, a new one only before it expires.
Acceptable(r) == Has("intent", r) \/ now <= ExpiresAt[r]

\* A client brings a request, and brings it again until it has an answer.
Accept(r) ==
    /\ proc["intake"] = Idle
    /\ ~Completed(r) /\ (r \in Authorized => r \notin DOMAIN queue)
    /\ Acceptable(r)
    /\ Put("intent", r, Intents)
    /\ IF r \in Authorized THEN Start("intake", "authorize", r) ELSE Start("intake", "prepare", r)
    /\ UNCHANGED <<queue, Outside, now, faults>>

\* CorporateReserveAuthorization::create: signed terms with fresh blindings.
NewTerms(p) == p

\* The signed terms are saved before the queue names them.
Authorize(p) ==
    /\ At(p, "authorize")
    /\ Put("authorization", proc[p].id, NewTerms(p))
    /\ Goto(p, "enqueue")
    /\ UNCHANGED <<queue, Outside, now, faults>>

\* enqueue_first_seen: a request already queued stays as it is.
Enqueue(p) ==
    /\ At(p, "enqueue")
    /\ queue' = FirstSeen(queue, proc[p].id, [status |-> "queued", attempts |-> 0,
                                              order |-> Cardinality(DOMAIN queue) + 1])
    /\ Stop(p)
    /\ UNCHANGED <<journal, Outside, now, faults>>

-----------------------------------------------------------------------------
(* Preparing the reserve: the intake for its own requests, the worker for   *)
(* authorized ones that were claimed without one.                           *)

AfterPrepared(p) == IF p = "intake" THEN {"enqueue", "turn"} ELSE {"turn"}

\* prepare_reservation_from_note, prepare_authorized_reservation.  The witness
\* must open the canonical facility and cover the limit.
Prepare(p) ==
    LET r == proc[p].id IN
    /\ At(p, "prepare")
    /\ \/ ~HasTurn(r) /\ Stop(p)
       \/ HasTurn(r) /\ Has("reserve", r) /\ \E next \in AfterPrepared(p) : Goto(p, next)
       \/ /\ HasTurn(r) /\ ~Has("reserve", r) /\ ~(WitnessCurrent /\ now <= ExpiresAt[r])
          /\ IF p = "worker" THEN Goto(p, "refund") ELSE Stop(p)
       \/ /\ HasTurn(r) /\ ~Has("reserve", r) /\ WitnessCurrent /\ now <= ExpiresAt[r]
          /\ IF Funded(r) THEN Carry(p, "save_reserve", NewReserve(p))
             ELSE IF p = "worker" THEN Goto(p, "end") ELSE Stop(p)
    /\ UNCHANGED <<journal, queue, Outside, now, faults>>

\* save_stage "reserve": the exact bytes are durable before they are sent.
SaveReserve(p) ==
    /\ At(p, "save_reserve")
    /\ Put("reserve", proc[p].id, proc[p].carried)
    /\ \E next \in AfterPrepared(p) : Goto(p, next)
    /\ UNCHANGED <<queue, Outside, now, faults>>

\* After a failed preparation the worker tries to rebuild the witness.
Refund(p) ==
    /\ At(p, "refund")
    /\ \/ \E f \in RecoverFacility : Put("funding", f.sequence, f)
       \/ RecoverFacility = {} /\ UNCHANGED journal
    /\ Stop(p)
    /\ UNCHANGED <<queue, Outside, now, faults>>

\* recover_wallet run from the command line.
RecoverWallet ==
    /\ \E f \in RecoverFacility : ~Has("funding", f.sequence) /\ Put("funding", f.sequence, f)
    /\ UNCHANGED <<queue, proc, Outside, now, faults>>

-----------------------------------------------------------------------------
(* complete_native_submission *)

\* verify_finalized: the canonical hold is ours and untouched.
Verified(r) ==
    /\ OwnHead(r)
    /\ chain.hold[r].status = "active" /\ chain.hold[r].sequence = 0
    /\ now <= ExpiresAt[r]

\* The first record that is missing decides where the submission resumes.
Resume(p) ==
    LET r == proc[p].id IN
    /\ At(p, "turn")
    /\ \/ ~HasTurn(r) /\ Stop(p)
       \/ HasTurn(r) /\ Has("delivery", r) /\ Has("receipt", r) /\ Goto(p, "admitted")
       \/ /\ HasTurn(r) /\ Has("delivery", r) /\ ~Has("receipt", r)
          /\ Carry(p, "distribute", Record("delivery", r))
       \/ /\ HasTurn(r) /\ ~Has("delivery", r) /\ Has("admission", r)
          /\ IF Verified(r) THEN Goto(p, "witness") ELSE Stop(p)
       \/ HasTurn(r) /\ ~Has("delivery", r) /\ ~Has("admission", r) /\ Goto(p, "mark")
    /\ UNCHANGED <<journal, queue, Outside, now, faults>>

\* mark_reserve_send_started: one record, may_send, decides between sending and
\* ending.
MarkSend(p) ==
    LET r == proc[p].id IN
    /\ At(p, "mark")
    /\ Put("reserve-send", r, "send")
    /\ IF Adopt("reserve-send", r, "send") = "send" THEN Carry(p, "send", Record("reserve", r)) ELSE Stop(p)
    /\ UNCHANGED <<queue, Outside, now, faults>>

\* finalize_reservation sends the saved request.
Send(p) ==
    /\ At(p, "send")
    /\ sent' = sent \cup {[id |-> proc[p].id, body |-> proc[p].carried]}
    /\ Goto(p, "reply")
    /\ UNCHANGED <<journal, queue, chain, delivered, market, now, faults>>

\* The ingress accepts the request only for the generation it was proved for.
CanReserve(m) ==
    /\ chain.hold[m.id].status = "none"
    /\ m.body.before = chain.facility
    /\ now <= ExpiresAt[m.id]

\* dispatch "reserve" at the ingress: a canonical hold, once.
Reserve(m) ==
    /\ CanReserve(m)
    /\ chain' = [facility |-> [chain.facility EXCEPT !.sequence = @ + 1, !.available = @ - Limit[m.id],
                                                     !.held = @ + Limit[m.id]],
                 hold |-> [chain.hold EXCEPT ![m.id] =
                             [status |-> "active", sequence |-> 0, remaining |-> Limit[m.id],
                              bytes |-> m.body.bytes, closer |-> "none"]]]
    /\ UNCHANGED <<journal, queue, proc, sent, delivered, market, now, faults>>

\* The answer: the finalized hold, a refusal, or none.
Reply(p) ==
    LET r == proc[p].id IN
    /\ At(p, "reply")
    /\ \/ Verified(r) /\ Goto(p, "save_admission") /\ UNCHANGED faults
       \/ ~Verified(r) /\ ~CanReserve([id |-> r, body |-> proc[p].carried]) /\ Stop(p) /\ UNCHANGED faults
       \/ Fault /\ Stop(p)
    /\ UNCHANGED <<journal, queue, Outside, now>>

\* save_stage "admission".
SaveAdmission(p) ==
    /\ At(p, "save_admission")
    /\ Put("admission", proc[p].id, proc[p].id)
    /\ Goto(p, "witness")
    /\ UNCHANGED <<queue, Outside, now, faults>>

\* save_reserved_witness.
SaveWitness(p) ==
    LET f == After(proc[p].id) IN
    /\ At(p, "witness")
    /\ Put("funding", f.sequence, f)
    /\ IF CanSaveFunding(f) THEN Goto(p, "build") ELSE Stop(p)
    /\ UNCHANGED <<queue, Outside, now, faults>>

\* build_reserved_delivery, which encrypts afresh, and save_stage "delivery".
BuildDelivery(p) ==
    LET r == proc[p].id IN
    /\ At(p, "build")
    /\ IF now > ExpiresAt[r] THEN Stop(p) /\ UNCHANGED journal
       ELSE Put("delivery", r, p) /\ Carry(p, "distribute", Adopt("delivery", r, p))
    /\ UNCHANGED <<queue, Outside, now, faults>>

\* submit_prepared: every node acknowledges, or only some did.
Distribute(p) ==
    LET r == proc[p].id IN
    /\ At(p, "distribute")
    /\ \/ /\ now > ExpiresAt[r]
          /\ Stop(p) /\ UNCHANGED <<delivered, faults>>
       \/ /\ now <= ExpiresAt[r]
          /\ delivered' = delivered \cup {[id |-> r, body |-> proc[p].carried]}
          /\ Goto(p, "save_receipt") /\ UNCHANGED faults
       \/ /\ now <= ExpiresAt[r]
          /\ delivered' = delivered \cup {[id |-> r, body |-> proc[p].carried]}
          /\ Stop(p) /\ Fault
    /\ UNCHANGED <<journal, queue, chain, sent, market, now>>

\* save_receipt ends the request's turn.
SaveReceipt(p) ==
    /\ At(p, "save_receipt")
    /\ Put("receipt", proc[p].id, proc[p].carried)
    /\ Goto(p, "admitted")
    /\ UNCHANGED <<queue, Outside, now, faults>>

\* The worker records the admission in its queue; the client goes on to publish.
Admitted(p) ==
    /\ At(p, "admitted")
    /\ IF p = "worker" THEN queue' = [queue EXCEPT ![proc[p].id].status = "admitted"] /\ Stop(p)
       ELSE Start(p, "publish", proc[p].id) /\ UNCHANGED queue
    /\ UNCHANGED <<journal, Outside, now, faults>>

-----------------------------------------------------------------------------
(* publish_corporate_admissions *)

\* The worker looks for admissions the market has not acknowledged.
Publish(r) ==
    /\ proc["worker"] = Idle
    /\ Has("receipt", r) /\ ~Has("market", r)
    /\ Start("worker", "publish", r)
    /\ UNCHANGED <<journal, queue, Outside, now, faults>>

\* persist_market_dispatch: the randomized signature is durable before it is sent.
SignInput(p) ==
    LET r == proc[p].id IN
    /\ At(p, "publish")
    /\ Put("market-input", r, p)
    /\ IF Has("market", r) THEN Stop(p) ELSE Carry(p, "submit", Adopt("market-input", r, p))
    /\ UNCHANGED <<queue, Outside, now, faults>>

\* submit: the market has the input, whether or not its answer arrives.
Submit(p) ==
    /\ At(p, "submit")
    /\ market' = market \cup {[id |-> proc[p].id, body |-> proc[p].carried]}
    /\ \/ Goto(p, "acknowledge") /\ UNCHANGED faults
       \/ Stop(p) /\ Fault
    /\ UNCHANGED <<journal, queue, chain, sent, delivered, now>>

\* save_stage "market".
Acknowledge(p) ==
    /\ At(p, "acknowledge")
    /\ Put("market", proc[p].id, proc[p].carried)
    /\ Stop(p)
    /\ UNCHANGED <<queue, Outside, now, faults>>

-----------------------------------------------------------------------------
(* NativeCorporateDispatch::pump.  The outbox closes an entry for good when  *)
(* it is admitted, aborted, released or out of attempts.                     *)

Open(r) == r \in DOMAIN queue /\ queue[r].status \in {"queued", "release_pending"}

Oldest(r) == Open(r) /\ \A q \in DOMAIN queue : Open(q) => queue[q].order >= queue[r].order

\* verified_request: the entry names records the journal has.
Intact(r) == Has("intent", r) /\ Has(IF r \in Authorized THEN "authorization" ELSE "reserve", r)

\* An authorization that ended in the journal is first closed in the queue.
Unrecorded(r) == r \in DOMAIN queue /\ queue[r].status # "aborted" /\ Has("authorization-end", r)

\* Mutant: an entry already marked release-pending is passed over.
RecordEndQueued ==
    /\ proc["worker"] = Idle
    /\ \E r \in Requests : /\ Unrecorded(r) /\ queue[r].status = "queued"
                            /\ queue' = [queue EXCEPT ![r].status = "aborted"]
    /\ UNCHANGED <<journal, proc, Outside, now, faults>>

RecordEnd ==
    /\ proc["worker"] = Idle
    /\ \E r \in Requests : Unrecorded(r) /\ Intact(r) /\ queue' = [queue EXCEPT ![r].status = "aborted"]
    /\ UNCHANGED <<journal, proc, Outside, now, faults>>

\* claim_next answers Expire, and the entry is marked release-pending.
ClaimExpired(r) ==
    /\ proc["worker"] = Idle
    /\ \A q \in Requests : ~Unrecorded(q)
    /\ Open(r) /\ now > ExpiresAt[r] /\ Intact(r)
    /\ queue' = [queue EXCEPT ![r].status = "release_pending"]
    /\ Start("worker", IF r \in Authorized /\ ~Has("reserve", r) THEN "end" ELSE "observe", r)
    /\ UNCHANGED <<journal, Outside, now, faults>>

\* claim_next answers Dispatch: the oldest open entry, while attempts last.
ClaimDispatch(r) ==
    /\ proc["worker"] = Idle
    /\ \A q \in Requests : ~Unrecorded(q)
    /\ \A q \in DOMAIN queue : Open(q) => now <= ExpiresAt[q]
    /\ Oldest(r) /\ queue[r].status = "queued"
    /\ IF queue[r].attempts = MaxAttempts
       THEN queue' = [queue EXCEPT ![r].status = "manual_review"] /\ UNCHANGED proc
       ELSE /\ Intact(r)
            /\ queue' = [queue EXCEPT ![r].attempts = @ + 1]
            /\ Start("worker", IF r \in Authorized /\ ~Has("reserve", r) THEN "prepare" ELSE "turn", r)
    /\ UNCHANGED <<journal, Outside, now, faults>>

-----------------------------------------------------------------------------
(* end_unprepared_authorization *)

Touched(r) == \E stage \in {"reserve", "admission", "delivery", "receipt"} : Has(stage, r)

\* The fence goes up only while nothing was prepared.
FenceUnprepared(p) ==
    LET r == proc[p].id IN
    /\ At(p, "end")
    /\ IF Touched(r) THEN Stop(p) /\ UNCHANGED journal
       ELSE /\ Put("reserve-send", r, "end")
            /\ IF Adopt("reserve-send", r, "end") = "send" THEN Stop(p) ELSE Goto(p, "ended")
    /\ UNCHANGED <<queue, Outside, now, faults>>

\* The end is durable in the journal before the queue hears of it.
EndAuthorization(p) ==
    /\ At(p, "ended")
    /\ Put("authorization-end", proc[p].id, now > ExpiresAt[proc[p].id])
    /\ Carry(p, "record", "never_reserved")
    /\ UNCHANGED <<queue, Outside, now, faults>>

-----------------------------------------------------------------------------
(* reconcile_expired_submission *)

\* The canonical state, read once; a saved result is not looked for again.
Observe(p) ==
    LET r == proc[p].id IN
    /\ At(p, "observe")
    /\ \/ Has("expiry-result", r) /\ Carry(p, "recover", Record("expiry-result", r))
       \/ ~Has("expiry-result", r) /\ ~Has("reserve", r) /\ Stop(p)
       \/ /\ ~Has("expiry-result", r) /\ Has("reserve", r)
          /\ Carry(p, IF chain.facility = Record("reserve", r).before THEN "seal" ELSE "head", chain)
    /\ UNCHANGED <<journal, queue, Outside, now, faults>>

\* Mutant: the clock and the unchanged facility count as proof.
SealByClock(p) ==
    /\ At(p, "seal")
    /\ Goto(p, "confirm")
    /\ UNCHANGED <<journal, queue, Outside, now, faults>>

\* seal_never_dispatched: the fence, unless the request went further.
Seal(p) ==
    LET r == proc[p].id IN
    /\ At(p, "seal")
    /\ IF \E stage \in {"admission", "delivery", "receipt"} : Has(stage, r)
       THEN Goto(p, "head") /\ UNCHANGED journal
       ELSE /\ Put("reserve-send", r, "end")
            /\ Goto(p, IF Adopt("reserve-send", r, "end") = "send" THEN "head" ELSE "confirm")
    /\ UNCHANGED <<queue, Outside, now, faults>>

\* The root must not have moved since the facility was read.
Confirm(p) ==
    /\ At(p, "confirm")
    /\ IF chain = proc[p].carried THEN Carry(p, "result", "never_reserved") ELSE Stop(p)
    /\ UNCHANGED <<journal, queue, Outside, now, faults>>

\* The head names an untouched reserve; the release is saved before it is issued.
SaveRelease(p) ==
    LET r == proc[p].id IN
    /\ At(p, "head")
    /\ IF /\ chain = proc[p].carried /\ OwnHead(r)
          /\ chain.hold[r].sequence <= 1
          /\ Has("expiry", r) \/ (chain.hold[r].status = "active" /\ chain.hold[r].sequence = 0)
       THEN Put("expiry", r, p) /\ Goto(p, "release")
       ELSE Stop(p) /\ UNCHANGED journal
    /\ UNCHANGED <<queue, Outside, now, faults>>

\* The next head of a hold.
NextHead(r, status, by, consumed) ==
    [chain.hold EXCEPT ![r] = [status |-> status, sequence |-> @.sequence + 1,
                               remaining |-> @.remaining - consumed, bytes |-> @.bytes,
                               closer |-> by]]

\* What a release or a closing fill gives back to the facility.
Closed(r, status, by, consumed) ==
    [facility |-> [chain.facility EXCEPT !.sequence = @ + 1, !.held = @ - chain.hold[r].remaining,
                     !.available = @ + chain.hold[r].remaining - consumed,
                     !.outstanding = @ + consumed],
     hold |-> NextHead(r, status, by, consumed)]

\* Mutant: the queue hears of the release before the journal.
ReleaseUnrecorded(p) ==
    LET r == proc[p].id IN
    /\ At(p, "release")
    /\ chain' = IF chain.hold[r].status = "active" THEN Closed(r, "released", "corporate", 0) ELSE chain
    /\ Carry(p, "record", "released")
    /\ UNCHANGED <<journal, queue, sent, delivered, market, now, faults>>

\* release_application: the chain releases an expired, untouched hold and answers
\* a repeated release with the first; the answer may be lost.
IssueRelease(p) ==
    LET r == proc[p].id
        free == chain.hold[r].status = "active" /\ chain.hold[r].sequence = 0
    IN
    /\ At(p, "release")
    /\ chain' = IF free THEN Closed(r, "released", "corporate", 0) ELSE chain
    /\ \/ chain'.hold[r].closer = "corporate" /\ Carry(p, "result", "released") /\ UNCHANGED faults
       \/ chain'.hold[r].closer # "corporate" /\ Stop(p) /\ UNCHANGED faults
       \/ Stop(p) /\ Fault
    /\ UNCHANGED <<journal, queue, sent, delivered, market, now>>

\* save_expiry_resolution.
SaveResult(p) ==
    /\ At(p, "result")
    /\ Put("expiry-result", proc[p].id, proc[p].carried)
    /\ Goto(p, "recover")
    /\ UNCHANGED <<queue, Outside, now, faults>>

\* recover_wallet must succeed before the request counts as resolved.
Recover(p) ==
    /\ At(p, "recover")
    /\ \/ \E f \in RecoverFacility : Put("funding", f.sequence, f) /\ Goto(p, "resolve")
       \/ RecoverFacility = {} /\ Stop(p) /\ UNCHANGED journal
    /\ UNCHANGED <<queue, Outside, now, faults>>

\* complete_expiry.
Resolve(p) ==
    /\ At(p, "resolve")
    /\ Put("resolved", proc[p].id, proc[p].carried)
    /\ Goto(p, "record")
    /\ UNCHANGED <<queue, Outside, now, faults>>

\* The last step: record_pre_reserve_abort or record_release in the queue.
RecordExpiry(p) ==
    /\ At(p, "record")
    /\ queue' = [queue EXCEPT ![proc[p].id].status =
                   IF proc[p].carried = "released" THEN "released" ELSE "aborted"]
    /\ Stop(p)
    /\ UNCHANGED <<journal, Outside, now, faults>>

-----------------------------------------------------------------------------
(* The market and the clock *)

Published(r) == \E m \in market : m.id = r

\* The market fills a published order, in part or to the end, and an IOC or a
\* completed order gives its remainder back.
Fill(r, consumed, close) ==
    /\ Published(r) /\ chain.hold[r].status = "active" /\ now <= ExpiresAt[r]
    /\ consumed <= chain.hold[r].remaining
    /\ consumed = chain.hold[r].remaining => close
    /\ chain' = IF close THEN Closed(r, "consumed", "market", consumed)
                ELSE [facility |-> [chain.facility EXCEPT !.sequence = @ + 1, !.held = @ - consumed,
                                                          !.outstanding = @ + consumed],
                      hold |-> NextHead(r, "active", "none", consumed)]
    /\ UNCHANGED <<journal, queue, proc, sent, delivered, market, now, faults>>

\* The committee cancels or expires a published order.
MarketRelease(r) ==
    /\ Published(r) /\ chain.hold[r].status = "active"
    /\ chain' = Closed(r, "released", "market", 0)
    /\ UNCHANGED <<journal, queue, proc, sent, delivered, market, now, faults>>

Tick ==
    /\ now < MaxTime
    /\ now' = now + 1
    /\ UNCHANGED <<journal, queue, proc, Outside, faults>>

-----------------------------------------------------------------------------
\* Whatever the process is in the middle of.
Work(p) ==
    \/ Authorize(p) \/ Enqueue(p) \/ Prepare(p) \/ SaveReserve(p) \/ Refund(p)
    \/ Resume(p) \/ MarkSend(p) \/ Send(p) \/ Reply(p) \/ SaveAdmission(p) \/ SaveWitness(p)
    \/ BuildDelivery(p) \/ Distribute(p) \/ SaveReceipt(p) \/ Admitted(p)
    \/ SignInput(p) \/ Submit(p) \/ Acknowledge(p)
    \/ FenceUnprepared(p) \/ EndAuthorization(p)
    \/ Observe(p) \/ Seal(p) \/ Confirm(p) \/ SaveRelease(p) \/ IssueRelease(p)
    \/ SaveResult(p) \/ Recover(p) \/ Resolve(p) \/ RecordExpiry(p)

Next ==
    \/ \E p \in Processes : Work(p) \/ Crash(p)
    \/ \E r \in Requests :
         \/ Accept(r) \/ Publish(r) \/ ClaimExpired(r) \/ ClaimDispatch(r) \/ MarketRelease(r)
         \/ \E consumed \in 1..Limit[r], close \in BOOLEAN : Fill(r, consumed, close)
    \/ RecordEnd \/ RecoverWallet \/ Tick
    \/ \E m \in sent : Reserve(m)

\* Processes are restarted and go on, the ingress answers and time passes.  The
\* outbox does not offer an entry again before its retry interval, so the
\* worker's loop comes back to every expired one.
Fairness ==
    /\ \A p \in Processes : WF_vars(Work(p))
    /\ \A r \in Requests : SF_vars(ClaimExpired(r)) /\ WF_vars(ClaimDispatch(r))
    /\ WF_vars(RecordEnd) /\ WF_vars(Tick)
    /\ WF_vars(\E m \in sent : Reserve(m))

Spec == Init /\ [][Next]_vars /\ Fairness

-----------------------------------------------------------------------------
\* What the journal calls never reserved has no canonical hold, and no reserve
\* request still on its way can create one: the send fence decides once between
\* sending and ending, whatever the other process does.
EndedNeverReserved ==
    \A r \in Requests : NeverReserved(r) => chain.hold[r].status = "none" /\ \A m \in sent : m.id # r

OneEach(wire) == \A m, n \in wire : m.id = n.id => m = n

\* Whoever sends, and however often it is retried, a request has one reserve, one
\* set of ciphertexts and one signed market input: a writer that lost the race
\* adopts the saved bytes.
OneRequestOnTheWire == OneEach(sent) /\ OneEach(delivered) /\ OneEach(market)

\* The dispatch queue never says more than the journal and the chain: admitted
\* means the seven receipts are saved, aborted means never reserved, released
\* means the canonical hold was released and its funds recovered.
QueueFollowsJournal ==
    \A r \in DOMAIN queue :
        /\ queue[r].status = "admitted" => Has("receipt", r)
        /\ queue[r].status = "aborted" => NeverReserved(r)
        /\ queue[r].status = "released" => chain.hold[r].status = "released" /\ Has("resolved", r)

\* A request is sent to the chain only after every earlier one of the company has
\* been admitted or has ended: require_turn keeps the order of the intents.
ReservesInTurn ==
    \A m \in sent : \A q \in Earlier(m.id) : Completed(q)

\* The private witness can always be rebuilt from the journal and the canonical
\* heads as soon as every prepared reserve either has a head or is known never to
\* have been sent: no fill, refund, release or crash leaves the company unable to
\* open its own facility. A saved witness is the facility the chain had at its
\* generation.
FundsRecoverable ==
    /\ (Recorded # {} /\ \A r \in Counted : OwnHead(r)) => RecoverFacility # {}
    /\ \A n \in Generations : n = chain.facility.sequence => Record("funding", n) = chain.facility

\* What the worker may not settle by itself: a hold that may still exist but has
\* no head, a hold the market has touched, or a witness that another such
\* request keeps from being rebuilt.
Unresolved(r) ==
    /\ queue[r].status = "release_pending"
    /\ \/ /\ chain.hold[r].status = "none" /\ ~NeverReserved(r) /\ Has("reserve", r)
          /\ Adopt("reserve-send", r, "end") = "send" \/ chain.facility # Record("reserve", r).before
       \/ /\ chain.hold[r].status # "none" /\ chain.hold[r].closer # "corporate"
          /\ chain.hold[r].sequence > 0
       \/ Has("expiry-result", r) /\ RecoverFacility = {}

\* Every queued request comes to an end, admitted, aborted, released or handed to
\* a person, unless what became of its reserve is really open: no crash, lost
\* answer or race between client and worker leaves an entry behind.
EntriesEnd ==
    \A r \in Requests : (r \in DOMAIN queue) ~> (~Open(r) \/ Unresolved(r))
=============================================================================
