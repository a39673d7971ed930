------------------------ MODULE CorporateQueueProofs -------------------------
(***************************************************************************)
(* Proofs about CorporateQueue, for any requests, limits and deadlines and *)
(* any number of crashes and lost replies.  Journal records are written    *)
(* once, so what a process relies on while the other one works is a record *)
(* that exists (StepSound), and what may be said of a request follows from *)
(* the records it has (JournalSound, WireSound, ChainSound, QueueSound).   *)
(* First the steps on the journal, then those on the wire, of the chain    *)
(* and of the dispatch queue.                                              *)
(***************************************************************************)
EXTENDS CorporateQueue, TLAPS

\* The send fence of the request is up, for sending or for ending.
Fence(r, send) == Has("reserve-send", r) /\ Record("reserve-send", r) = send

\* Every earlier request of the company has been admitted or has ended.
Turn(r) == \A q \in Earlier(r) : Completed(q)

Released(r) == chain.hold[r].status = "released"

\* The process carries the saved record of the stage.
Carries(x, stage) == Has(stage, x.id) /\ x.carried = Record(stage, x.id)

Shaped(x) ==
    \/ x = Idle
    \/ /\ x = [step |-> x.step, id |-> x.id, carried |-> x.carried]
       /\ x.step # "idle"
       /\ x.id \in Requests /\ Has("intent", x.id)

\* Steps that only the dispatcher takes.
WorkerSteps ==
    {"refund", "end", "ended", "observe", "seal", "confirm", "head", "release", "result",
     "recover", "resolve", "record"}

\* What a process in state x may rely on while it submits a request.
SubmitSound(x) ==
    /\ x.step \in {"turn", "mark", "send"} => Has("reserve", x.id)
    /\ x.step \in {"mark", "send"} => Turn(x.id)
    /\ x.step = "send" => Carries(x, "reserve") /\ Fence(x.id, "send")
    /\ x.step \in {"distribute", "save_receipt"} => Carries(x, "delivery")
    /\ x.step = "admitted" => Has("receipt", x.id)
    /\ x.step = "submit" => Carries(x, "market-input")

\* What the dispatcher may rely on while it ends one.
EndSound(x) ==
    /\ x.step \in {"ended", "confirm"} => Fence(x.id, "end")
    /\ x.step \in {"seal", "confirm", "head", "release", "result"} => ~Has("expiry-result", x.id)
    /\ x.step = "release" => chain.hold[x.id].status # "none"
    /\ x.step = "result" => \/ x.carried = "never_reserved" /\ Fence(x.id, "end")
                            \/ x.carried = "released" /\ Released(x.id)
    /\ x.step \in {"recover", "resolve"} => Carries(x, "expiry-result")
    /\ x.step = "record" => \/ x.carried = "never_reserved" /\ NeverReserved(x.id)
                            \/ x.carried = "released" /\ Released(x.id) /\ Has("resolved", x.id)

StepSound(p, x) ==
    /\ Shaped(x)
    /\ x.step \in WorkerSteps => p = "worker"
    /\ SubmitSound(x)
    /\ EndSound(x)

\* What the records of a request say together.
Consistent(r) ==
    /\ Has("reserve-send", r) => Record("reserve-send", r) \in {"send", "end"}
    /\ Has("authorization-end", r) => Fence(r, "end")
    /\ Has("expiry-result", r) =>
        \/ Record("expiry-result", r) = "never_reserved" /\ Fence(r, "end")
        \/ Record("expiry-result", r) = "released" /\ Released(r)
    /\ Has("receipt", r) => Has("intent", r) /\ Has("delivery", r)

JournalSound == \A r \in Requests : Consistent(r)

\* A message is what the journal has saved for it.
Saved(wire, stage) ==
    \A m \in wire : /\ m = [id |-> m.id, body |-> m.body]
                    /\ m.id \in Requests /\ Has(stage, m.id) /\ m.body = Record(stage, m.id)

WireSound ==
    /\ Saved(sent, "reserve") /\ Saved(delivered, "delivery") /\ Saved(market, "market-input")
    /\ \A m \in sent : Fence(m.id, "send") /\ Has("intent", m.id) /\ Turn(m.id)

HoldSound(r) ==
    \/ chain.hold[r] = NoHold
    \/ LET h == chain.hold[r] IN
       /\ h = [status |-> h.status, sequence |-> h.sequence, remaining |-> h.remaining,
               bytes |-> h.bytes, closer |-> h.closer]
       /\ h.status \in {"active", "released", "consumed"}
       /\ h.closer = "corporate" => h.status = "released"
       /\ Fence(r, "send")

ChainSound == DOMAIN chain.hold = Requests /\ \A r \in Requests : HoldSound(r)

QueueSound ==
    /\ DOMAIN queue \subseteq Requests
    /\ \A r \in DOMAIN queue :
        queue[r] = [status |-> queue[r].status, attempts |-> queue[r].attempts,
                    order |-> queue[r].order]
    /\ QueueFollowsJournal

IInv ==
    /\ DOMAIN proc = Processes /\ \A p \in Processes : StepSound(p, proc[p])
    /\ JournalSound
    /\ WireSound
    /\ ChainSound
    /\ QueueSound

-----------------------------------------------------------------------------
(* The journal and the processes *)

\* No record is lost or changed.
Grows == \A stage, r : Has(stage, r) => Has(stage, r)' /\ Record(stage, r)' = Record(stage, r)

\* No record of the stage is new.
NoNew(stage) == \A r : Has(stage, r)' => Has(stage, r)

\* put_first: the first record of a stage stays.
LEMMA PutFacts ==
    ASSUME NEW stage, NEW r, NEW body, Put(stage, r, body)
    PROVE  /\ Grows
           /\ Has(stage, r)' /\ Record(stage, r)' = Adopt(stage, r, body)
           /\ \A st, q : Has(st, q)' => Has(st, q) \/ (st = stage /\ q = r)
           /\ \A st : st # stage => NoNew(st)
<1>1. /\ DOMAIN journal' = DOMAIN journal \cup {<<stage, r>>}
      /\ \A k \in DOMAIN journal : journal'[k] = journal[k]
      /\ <<stage, r>> \notin DOMAIN journal => journal'[<<stage, r>>] = body
  BY Zenon DEF Put, FirstSeen
<1>2. \A st, q : <<st, q>> = <<stage, r>> <=> st = stage /\ q = r
  OBVIOUS
<1> QED  BY <1>1, <1>2 DEF Grows, NoNew, Has, Record, Adopt

\* Leaving the journal alone.
LEMMA KeepFacts == ASSUME UNCHANGED journal PROVE Grows /\ \A stage : NoNew(stage)
BY Zenon DEF Grows, NoNew, Has, Record

\* A process at a step, for a request, with what it carries.
Doing(step, r, carried) == [step |-> step, id |-> r, carried |-> carried]

\* Process p is now in state y and the other one where it was.
Moved(p, y) ==
    /\ DOMAIN proc' = Processes /\ proc'[p] = y
    /\ \A q \in Processes \ {p} : proc'[q] = proc[q]

\* Until process p starts another request its moves are for r, with c at hand.
Moves(p, r, c) ==
    /\ \A t : Goto(p, t) => Moved(p, Doing(t, r, c))
    /\ \A t, d : Carry(p, t, d) => Moved(p, Doing(t, r, d))

\* A process at a step works for a known request.
LEMMA AtFacts ==
    ASSUME IInv, NEW p \in Processes, NEW step, step # "idle", At(p, step)
    PROVE  \E r \in Requests, c \in {proc[p].carried} :
              /\ r = proc[p].id /\ c = proc[p].carried /\ Has("intent", r)
              /\ StepSound(p, Doing(step, r, c)) /\ Moves(p, r, c)
<1>1. PICK r, c : r = proc[p].id /\ c = proc[p].carried
  OBVIOUS
<1>2. r \in Requests /\ proc[p] = Doing(step, r, c) /\ Has("intent", r) /\ DOMAIN proc = Processes
  BY <1>1 DEF IInv, StepSound, Shaped, At, Idle, Doing
<1>3. StepSound(p, Doing(step, r, c))
  BY Zenon, <1>2 DEF IInv
<1>4. \A t : Goto(p, t) => Moved(p, Doing(t, r, c))
  BY <1>2 DEF Goto, Doing, Moved
<1>5. \A t, d : Carry(p, t, d) => Moved(p, Doing(t, r, d))
  BY Zenon, <1>1, <1>2 DEF Carry, Doing, Moved
<1> QED  BY <1>1, <1>2, <1>3, <1>4, <1>5 DEF Moves

\* A process may start a request and may stop at any time.
LEMMA StartFacts ==
    ASSUME DOMAIN proc = Processes, NEW p \in Processes
    PROVE  /\ \A t, r : Start(p, t, r) => Moved(p, Doing(t, r, {}))
           /\ Stop(p) => Moved(p, Idle)
BY Zenon DEF Start, Stop, Moved, Doing

-----------------------------------------------------------------------------
(* What no step takes back *)

HoldsKept ==
    \A r \in Requests : /\ chain.hold[r].status # "none" => (chain.hold[r].status # "none")'
                        /\ Released(r) => Released(r)'

\* The records that others draw conclusions from.
Deciding == {"intent", "reserve-send", "authorization-end", "expiry-result", "receipt"}

\* A turn once reached stays reached: what came before an intent is in its record.
LEMMA TurnStable == ASSUME Grows, NEW r, Has("intent", r), Turn(r) PROVE Turn(r)'
<1>1. \A q : Completed(q) => Completed(q)'
  BY Zenon DEF Completed, Grows
<1> QED  BY <1>1 DEF Turn, Earlier, Grows

\* What a process relies on survives the steps of the other one.
LEMMA OtherProc ==
    ASSUME NEW q \in Processes, NEW x, StepSound(q, x), Grows, HoldsKept,
           q = "worker" => NoNew("expiry-result")
    PROVE  StepSound(q, x)'
<1>1. CASE x = Idle
  BY Zenon, <1>1 DEF StepSound, SubmitSound, EndSound, Shaped, Idle, WorkerSteps
<1>2. CASE x # Idle
  <2>1. x.id \in Requests /\ Has("intent", x.id) /\ Shaped(x)'
    BY Zenon, <1>2 DEF StepSound, Shaped, Grows
  <2>2. \A stage : Has(stage, x.id) => Has(stage, x.id)' /\ Record(stage, x.id)' = Record(stage, x.id)
    BY Zenon DEF Grows
  <2>3. /\ \A stage : Carries(x, stage) => Carries(x, stage)'
        /\ Fence(x.id, "send") => Fence(x.id, "send")'
        /\ Fence(x.id, "end") => Fence(x.id, "end")'
        /\ NeverReserved(x.id) => NeverReserved(x.id)'
        /\ Turn(x.id) => Turn(x.id)'
        /\ Released(x.id) => Released(x.id)'
        /\ chain.hold[x.id].status # "none" => (chain.hold[x.id].status # "none")'
    BY Zenon, <2>1, <2>2, TurnStable DEF Carries, Fence, NeverReserved, HoldsKept
  <2>4. x.step \in WorkerSteps /\ ~Has("expiry-result", x.id) => ~Has("expiry-result", x.id)'
    BY Zenon DEF StepSound, NoNew
  <2>5. SubmitSound(x)'
    BY Zenon, <2>2, <2>3 DEF StepSound, SubmitSound
  <2>6. EndSound(x)'
    BY Zenon, <2>2, <2>3, <2>4 DEF StepSound, EndSound, WorkerSteps
  <2> QED  BY <2>1, <2>5, <2>6 DEF StepSound
<1> QED  BY <1>1, <1>2

\* What the journal says of a request survives every record of another kind.
LEMMA ConsistentStable ==
    ASSUME NEW r \in Requests, Consistent(r), Grows, HoldsKept,
           \A stage \in Deciding \ {"intent"} : Has(stage, r)' => Has(stage, r)
    PROVE  Consistent(r)'
<1>1. /\ Fence(r, "end") => Fence(r, "end")'
  BY Zenon DEF Fence, Grows
<1> QED  BY <1>1 DEF Consistent, Grows, Deciding, HoldsKept

\* The journal survives every record that nobody decides by.
LEMMA JournalStable ==
    ASSUME JournalSound, Grows, HoldsKept, \A stage \in Deciding : NoNew(stage)
    PROVE  JournalSound'
BY Zenon, ConsistentStable DEF JournalSound, NoNew, Deciding

\* What was put on a wire stays what was saved.
LEMMA WireStable ==
    ASSUME WireSound, Grows, UNCHANGED <<sent, delivered, market>>
    PROVE  WireSound'
<1>1. \A stage : /\ Saved(sent, stage) => Saved(sent, stage)'
                 /\ Saved(delivered, stage) => Saved(delivered, stage)'
                 /\ Saved(market, stage) => Saved(market, stage)'
  BY Zenon DEF Saved, Grows
<1>2. \A m \in sent : Fence(m.id, "send")' /\ Has("intent", m.id)' /\ Turn(m.id)'
  BY TurnStable DEF WireSound, Saved, Fence, Grows
<1> QED  BY <1>1, <1>2 DEF WireSound

\* Holds stay backed by the send fence.
LEMMA ChainStable == ASSUME ChainSound, Grows, UNCHANGED chain PROVE ChainSound' /\ HoldsKept
<1>1. \A r \in Requests : HoldSound(r) => HoldSound(r)'
  BY Zenon DEF HoldSound, Fence, Grows
<1> QED  BY <1>1 DEF ChainSound, HoldsKept, Released

\* A queue entry that is left alone stays true.
LEMMA QueueStable == ASSUME QueueSound, Grows, HoldsKept, UNCHANGED queue PROVE QueueSound'
<1>1. \A r \in Requests : NeverReserved(r) => NeverReserved(r)'
  BY Zenon DEF NeverReserved, Grows
<1> QED  BY <1>1 DEF QueueSound, QueueFollowsJournal, Grows, HoldsKept, Released

\* A step of one process, in the journal only.
LEMMA JournalStep ==
    ASSUME IInv, NEW p \in Processes, Grows, HoldsKept => JournalSound',
           p = "worker" \/ NoNew("expiry-result"),
           UNCHANGED <<queue, Outside>>, NEW y, Moved(p, y), HoldsKept => StepSound(p, y)'
    PROVE  IInv'
<1>1. ChainSound' /\ HoldsKept
  BY Zenon, ChainStable DEF IInv, Outside
<1>2. WireSound'
  BY Zenon, WireStable DEF IInv, Outside
<1>3. QueueSound'
  BY Zenon, <1>1, QueueStable DEF IInv
<1>4. \A q \in Processes : StepSound(q, proc[q])'
  <2>1. ASSUME NEW q \in Processes \ {p} PROVE StepSound(q, proc[q])'
    <3>1. PICK x : x = proc[q] /\ x = proc'[q]
      BY Zenon DEF Moved
    <3>2. q = "worker" => NoNew("expiry-result")
      BY Zenon, <2>1 DEF Processes
    <3>3. StepSound(q, x)'
      BY Zenon, <1>1, <3>1, <3>2, OtherProc DEF IInv
    <3> QED  BY <3>1, <3>3 DEF StepSound
  <2>2. StepSound(p, proc[p])'
    BY Zenon, <1>1 DEF Moved, StepSound
  <2> QED  BY <2>1, <2>2
<1> QED  BY <1>1, <1>2, <1>3, <1>4 DEF IInv, Moved

\* A step of one process that adds at most a record nobody decides by.
LEMMA QuietStep ==
    ASSUME IInv, NEW p \in Processes, Grows, \A stage \in Deciding : NoNew(stage),
           UNCHANGED <<queue, Outside>>, NEW y, Moved(p, y), HoldsKept => StepSound(p, y)'
    PROVE  IInv'
<1>1. NoNew("expiry-result")
  BY Zenon DEF Deciding
<1>2. HoldsKept => JournalSound'
  BY Zenon, JournalStable DEF IInv
<1> QED  BY <1>1, <1>2, JournalStep

\* Steps at which a process relies on nothing but its request.
Plain(p) ==
    {"authorize", "enqueue", "prepare", "save_reserve", "reply", "save_admission", "witness",
     "build", "publish", "acknowledge"}
    \cup (IF p = "worker" THEN {"refund", "end", "observe"} ELSE {})

\* An idle process relies on nothing.
LEMMA IdleSound == ASSUME NEW p PROVE StepSound(p, Idle)'
BY Zenon DEF StepSound, SubmitSound, EndSound, Shaped, Idle, WorkerSteps

\* A process at a plain step relies on the intent of its request.
LEMMA PlainSound ==
    ASSUME NEW p, NEW t \in Plain(p), NEW r \in Requests, Has("intent", r)', NEW c
    PROVE  StepSound(p, Doing(t, r, c))'
<1> DEFINE x == Doing(t, r, c)
<1>1. x = [step |-> x.step, id |-> x.id, carried |-> x.carried] /\ x.step = t /\ x.id = r
  BY Zenon DEF Doing
<1>2. t # "idle" /\ (t \in WorkerSteps => p = "worker")
  BY Zenon DEF Plain, WorkerSteps
<1> HIDE DEF x
<1>3. SubmitSound(x)' /\ EndSound(x)'
  BY Zenon, <1>1 DEF Plain, SubmitSound, EndSound
<1> QED  BY <1>1, <1>2, <1>3 DEF StepSound, Shaped, x

\* At any other step it relies on what the step asks for.
LEMMA DoingSound ==
    ASSUME NEW p, NEW t, t # "idle", t \in WorkerSteps => p = "worker",
           NEW r \in Requests, Has("intent", r)', NEW c,
           SubmitSound(Doing(t, r, c))', EndSound(Doing(t, r, c))'
    PROVE  StepSound(p, Doing(t, r, c))'
<1> DEFINE x == Doing(t, r, c)
<1>1. x = [step |-> x.step, id |-> x.id, carried |-> x.carried] /\ x.step = t /\ x.id = r
  BY Zenon DEF Doing
<1> HIDE DEF x
<1> QED  BY <1>1 DEF StepSound, Shaped, x

-----------------------------------------------------------------------------
(* Steps that read and decide *)

\* Prepare: the reserve is in the journal before the request asks for its turn.
LEMMA PrepareKeeps == ASSUME IInv, NEW p \in Processes, Prepare(p) PROVE IInv'
<1>1. DOMAIN proc = Processes
  BY Zenon DEF IInv
<1>2. PICK r \in Requests, c \in {proc[p].carried} :
        /\ r = proc[p].id /\ c = proc[p].carried /\ Has("intent", r)
        /\ StepSound(p, Doing("prepare", r, c)) /\ Moves(p, r, c)
  BY Zenon, AtFacts DEF Prepare
<1>3. UNCHANGED <<journal, queue, Outside>> /\ Grows /\ (\A stage : NoNew(stage)) /\ Has("intent", r)'
  BY Zenon, <1>2, KeepFacts DEF Prepare, Grows
<1>4. \/ Stop(p)
      \/ \E t \in {"enqueue", "turn"} : Has("reserve", r) /\ Goto(p, t)
      \/ p = "worker" /\ \E t \in {"refund", "end"} : Goto(p, t)
      \/ \E d : Carry(p, "save_reserve", d)
  BY Zenon, <1>2 DEF Prepare, AfterPrepared
<1>5. PICK y : Moved(p, y) /\ StepSound(p, y)'
  <2>1. CASE Stop(p)
    BY Zenon, <1>1, <2>1, StartFacts, IdleSound
  <2>2. ASSUME Has("reserve", r), Goto(p, "turn") PROVE StepSound(p, Doing("turn", r, c))'
    <3>1. SubmitSound(Doing("turn", r, c))' /\ EndSound(Doing("turn", r, c))'
      BY Zenon, <1>3, <2>2 DEF SubmitSound, EndSound, Doing, Grows
    <3> QED  BY <1>3, <3>1, DoingSound DEF WorkerSteps, Moves
  <2>3. \A d : StepSound(p, Doing("enqueue", r, d))' /\ StepSound(p, Doing("save_reserve", r, d))'
    BY Zenon, <1>3, PlainSound DEF Plain, Moves
  <2>4. p = "worker" => StepSound(p, Doing("refund", r, c))' /\ StepSound(p, Doing("end", r, c))'
    BY Zenon, <1>3, PlainSound DEF Plain, Moves
  <2> QED  BY <1>2, <1>4, <2>1, <2>2, <2>3, <2>4 DEF Moves
<1> QED  BY <1>3, <1>5, QuietStep

\* A request that has its turn, and no receipt, has it for good.
LEMMA HasTurnFacts == ASSUME NEW r, HasTurn(r) PROVE Has("receipt", r) \/ Turn(r)
BY Zenon DEF HasTurn, Turn

\* Resume: without a delivery there is no receipt, so the turn is the request's own.
LEMMA ResumeKeeps == ASSUME IInv, NEW p \in Processes, Resume(p) PROVE IInv'
<1>1. DOMAIN proc = Processes
  BY Zenon DEF IInv
<1>2. PICK r \in Requests, c \in {proc[p].carried} :
        /\ r = proc[p].id /\ c = proc[p].carried /\ Has("intent", r)
        /\ StepSound(p, Doing("turn", r, c)) /\ Moves(p, r, c)
  BY Zenon, AtFacts DEF Resume
<1>3. UNCHANGED <<journal, queue, Outside>> /\ Grows /\ (\A stage : NoNew(stage)) /\ Has("intent", r)'
  BY Zenon, <1>2, KeepFacts DEF Resume, Grows
<1>4. \/ Stop(p)
      \/ Has("receipt", r) /\ Goto(p, "admitted")
      \/ Has("delivery", r) /\ Carry(p, "distribute", Record("delivery", r))
      \/ Goto(p, "witness")
      \/ HasTurn(r) /\ ~Has("delivery", r) /\ Goto(p, "mark")
  BY Zenon, <1>2 DEF Resume
<1>5. Has("reserve", r)
  BY Zenon, <1>2 DEF StepSound, SubmitSound, Doing
<1>6. HasTurn(r) /\ ~Has("delivery", r) => Turn(r)
  BY Zenon, <1>2, HasTurnFacts DEF IInv, JournalSound, Consistent, Intents
<1>7. PICK y : Moved(p, y) /\ StepSound(p, y)'
  <2>1. CASE Stop(p)
    BY Zenon, <1>1, <2>1, StartFacts, IdleSound
  <2>2. CASE Has("receipt", r) /\ Goto(p, "admitted")
    <3>1. SubmitSound(Doing("admitted", r, c))' /\ EndSound(Doing("admitted", r, c))'
      BY Zenon, <1>3, <2>2 DEF SubmitSound, EndSound, Doing, Grows
    <3> QED  BY <1>2, <1>3, <2>2, <3>1, DoingSound DEF WorkerSteps, Moves
  <2>3. CASE Has("delivery", r) /\ Carry(p, "distribute", Record("delivery", r))
    <3>1. PICK d : d = Record("delivery", r)
      BY Zenon
    <3>2. SubmitSound(Doing("distribute", r, d))' /\ EndSound(Doing("distribute", r, d))'
      BY Zenon, <1>3, <2>3, <3>1 DEF SubmitSound, EndSound, Doing, Grows, Carries
    <3> QED  BY <1>2, <1>3, <2>3, <3>1, <3>2, DoingSound DEF WorkerSteps, Moves
  <2>4. CASE Goto(p, "witness")
    BY Zenon, <1>2, <1>3, <2>4, PlainSound DEF Plain, Moves
  <2>5. CASE HasTurn(r) /\ ~Has("delivery", r) /\ Goto(p, "mark")
    <3>1. SubmitSound(Doing("mark", r, c))' /\ EndSound(Doing("mark", r, c))'
      BY Zenon, <1>2, <1>3, <1>5, <1>6, <2>5, TurnStable DEF SubmitSound, EndSound, Doing, Grows
    <3> QED  BY SMTT(30), <1>2, <1>3, <2>5, <3>1, DoingSound DEF WorkerSteps, Moves
  <2> QED  BY <1>4, <2>1, <2>2, <2>3, <2>4, <2>5
<1> QED  BY <1>3, <1>7, QuietStep

\* A saved expiry result is carried on; without one none appears meanwhile.
LEMMA ObserveKeeps == ASSUME IInv, NEW p \in Processes, Observe(p) PROVE IInv'
<1>1. DOMAIN proc = Processes
  BY Zenon DEF IInv
<1>2. PICK r \in Requests, c \in {proc[p].carried} :
        /\ r = proc[p].id /\ c = proc[p].carried /\ Has("intent", r)
        /\ StepSound(p, Doing("observe", r, c)) /\ Moves(p, r, c)
  BY Zenon, AtFacts DEF Observe
<1>3. UNCHANGED <<journal, queue, Outside>> /\ Grows /\ (\A stage : NoNew(stage)) /\ Has("intent", r)'
  BY Zenon, <1>2, KeepFacts DEF Observe, Grows
<1>4. \/ Stop(p)
      \/ Has("expiry-result", r) /\ \E d : d = Record("expiry-result", r) /\ Carry(p, "recover", d)
      \/ ~Has("expiry-result", r) /\ \E d : \E t \in {"seal", "head"} : Carry(p, t, d)
  BY Zenon, <1>2 DEF Observe
<1>5. p = "worker"
  BY Zenon, <1>2 DEF StepSound, WorkerSteps, Doing
<1>6. PICK y : Moved(p, y) /\ StepSound(p, y)'
  <2>1. CASE Stop(p)
    BY Zenon, <1>1, <2>1, StartFacts, IdleSound
  <2>2. ASSUME NEW d, Has("expiry-result", r), d = Record("expiry-result", r)
        PROVE  StepSound(p, Doing("recover", r, d))'
    <3>1. SubmitSound(Doing("recover", r, d))' /\ EndSound(Doing("recover", r, d))'
      BY Zenon, <1>3, <2>2 DEF SubmitSound, EndSound, Doing, Grows, Carries
    <3> QED  BY <1>3, <1>5, <3>1, DoingSound DEF Moves
  <2>3. ASSUME NEW d, NEW t \in {"seal", "head"}, ~Has("expiry-result", r)
        PROVE  StepSound(p, Doing(t, r, d))'
    <3>1. SubmitSound(Doing(t, r, d))' /\ EndSound(Doing(t, r, d))'
      BY Zenon, <1>3, <2>3 DEF SubmitSound, EndSound, Doing, NoNew
    <3> QED  BY <1>3, <1>5, <3>1, DoingSound DEF Moves
  <2> QED  BY <1>2, <1>4, <2>1, <2>2, <2>3 DEF Moves
<1> QED  BY <1>3, <1>6, QuietStep

\* The answer of the ingress, and the second look at the facility.
LEMMA ReplyConfirmKeep ==
    ASSUME IInv, NEW p \in Processes, Reply(p) \/ Confirm(p) PROVE IInv'
<1>1. DOMAIN proc = Processes
  BY Zenon DEF IInv
<1>2. PICK s \in {"reply", "confirm"}, r \in Requests, c \in {proc[p].carried} :
        /\ r = proc[p].id /\ c = proc[p].carried /\ s = proc[p].step /\ Has("intent", r)
        /\ StepSound(p, Doing(s, r, c)) /\ Moves(p, r, c)
  BY Zenon, AtFacts DEF Reply, Confirm, At
<1>3. UNCHANGED <<journal, queue, Outside>> /\ Grows /\ (\A stage : NoNew(stage)) /\ Has("intent", r)'
  BY Zenon, <1>2, KeepFacts DEF Reply, Confirm, Grows
<1>4. \/ Stop(p)
      \/ Goto(p, "save_admission")
      \/ s = "confirm" /\ Carry(p, "result", "never_reserved")
  BY Zenon, <1>2 DEF Reply, Confirm, At
<1>5. PICK y : Moved(p, y) /\ StepSound(p, y)'
  <2>1. CASE Stop(p)
    BY Zenon, <1>1, <2>1, StartFacts, IdleSound
  <2>2. CASE Goto(p, "save_admission")
    BY Zenon, <1>2, <1>3, <2>2, PlainSound DEF Plain, Moves
  <2>3. CASE s = "confirm" /\ Carry(p, "result", "never_reserved")
    <3>1. p = "worker" /\ Fence(r, "end") /\ ~Has("expiry-result", r)
      BY Zenon, <1>2, <2>3 DEF StepSound, EndSound, WorkerSteps, Doing
    <3>2. Fence(r, "end")' /\ ~Has("expiry-result", r)'
      BY Zenon, <1>3, <3>1 DEF Fence, Grows, NoNew
    <3>3. SubmitSound(Doing("result", r, "never_reserved"))' /\ EndSound(Doing("result", r, "never_reserved"))'
      BY Zenon, <3>2 DEF SubmitSound, EndSound, Doing
    <3> QED  BY <1>2, <1>3, <2>3, <3>1, <3>3, DoingSound DEF Moves
  <2> QED  BY <1>4, <2>1, <2>2, <2>3
<1> QED  BY <1>3, <1>5, QuietStep

-----------------------------------------------------------------------------
(* Steps that save a record nobody decides by *)

\* Such a record changes nothing the other process relies on.
LEMMA PutQuiet ==
    ASSUME NEW stage, stage \notin Deciding, NEW r, NEW body, Put(stage, r, body)
    PROVE  Grows /\ \A st \in Deciding : NoNew(st)
BY Zenon, PutFacts

\* The terms, the admission and the funding witness.
LEMMA PlainPutKeeps ==
    ASSUME IInv, NEW p \in Processes,
           Authorize(p) \/ SaveAdmission(p) \/ SaveWitness(p) \/ Acknowledge(p) \/ Refund(p)
    PROVE  IInv'
<1>1. DOMAIN proc = Processes
  BY Zenon DEF IInv
<1>2. PICK s \in {"authorize", "save_admission", "witness", "acknowledge", "refund"},
           r \in Requests, c \in {proc[p].carried} :
        /\ r = proc[p].id /\ c = proc[p].carried /\ s = proc[p].step /\ Has("intent", r)
        /\ StepSound(p, Doing(s, r, c)) /\ Moves(p, r, c)
  BY Zenon, AtFacts DEF Authorize, SaveAdmission, SaveWitness, Acknowledge, Refund, At
<1>3. \/ UNCHANGED journal
      \/ \E q, body : \E stage \in {"authorization", "admission", "funding", "market"} : Put(stage, q, body)
  BY Zenon DEF Authorize, SaveAdmission, SaveWitness, Acknowledge, Refund
<1>4. Grows /\ \A st \in Deciding : NoNew(st)
  BY Zenon, <1>3, PutQuiet, KeepFacts DEF Deciding
<1>5. UNCHANGED <<queue, Outside>> /\ Has("intent", r)'
  BY Zenon, <1>2, <1>4 DEF Authorize, SaveAdmission, SaveWitness, Acknowledge, Refund, Grows
<1>6. Stop(p) \/ \E t \in {"enqueue", "witness", "build"} : Goto(p, t)
  BY Zenon DEF Authorize, SaveAdmission, SaveWitness, Acknowledge, Refund
<1>7. PICK y : Moved(p, y) /\ StepSound(p, y)'
  <2>1. CASE Stop(p)
    BY Zenon, <1>1, <2>1, StartFacts, IdleSound
  <2>2. ASSUME NEW t \in {"enqueue", "witness", "build"}, Goto(p, t)
        PROVE  Moved(p, Doing(t, r, c)) /\ StepSound(p, Doing(t, r, c))'
    BY Zenon, <1>2, <1>5, <2>2, PlainSound DEF Plain, Moves
  <2> QED  BY <1>6, <2>1, <2>2
<1> QED  BY <1>4, <1>5, <1>7, QuietStep

\* The reserve is saved before the request asks for its turn.
LEMMA SaveReserveKeeps == ASSUME IInv, NEW p \in Processes, SaveReserve(p) PROVE IInv'
<1>1. PICK r \in Requests, c \in {proc[p].carried} :
        /\ r = proc[p].id /\ c = proc[p].carried /\ Has("intent", r)
        /\ StepSound(p, Doing("save_reserve", r, c)) /\ Moves(p, r, c)
  BY Zenon, AtFacts DEF SaveReserve
<1>2. Put("reserve", r, c) /\ UNCHANGED <<queue, Outside>>
      /\ \E t \in {"enqueue", "turn"} : Goto(p, t)
  BY Zenon, <1>1 DEF SaveReserve, AfterPrepared
<1>3. Grows /\ \A st \in Deciding : NoNew(st)
  BY Zenon, <1>2, PutQuiet DEF Deciding
<1>4. Has("reserve", r)' /\ Has("intent", r)'
  BY Zenon, <1>1, <1>2, <1>3, PutFacts DEF Grows
<1>5. StepSound(p, Doing("enqueue", r, c))'
  BY Zenon, <1>4, PlainSound DEF Plain, Moves
<1>6. StepSound(p, Doing("turn", r, c))'
  <2>1. SubmitSound(Doing("turn", r, c))' /\ EndSound(Doing("turn", r, c))'
    BY Zenon, <1>4 DEF SubmitSound, EndSound, Doing
  <2> QED  BY SMTT(30), <1>4, <2>1, DoingSound DEF WorkerSteps, Moves
<1> QED  BY <1>1, <1>2, <1>3, <1>5, <1>6, QuietStep DEF Moves

\* The ciphertexts and the market input are those of the first writer.
LEMMA AdoptKeeps == ASSUME IInv, NEW p \in Processes, BuildDelivery(p) \/ SignInput(p) PROVE IInv'
<1>1. DOMAIN proc = Processes
  BY Zenon DEF IInv
<1>2. PICK s \in {"build", "publish"}, r \in Requests, c \in {proc[p].carried} :
        /\ r = proc[p].id /\ c = proc[p].carried /\ s = proc[p].step /\ Has("intent", r)
        /\ StepSound(p, Doing(s, r, c)) /\ Moves(p, r, c)
  BY Zenon, AtFacts DEF BuildDelivery, SignInput, At
<1>3. /\ UNCHANGED <<queue, Outside>>
      /\ \/ UNCHANGED journal /\ Stop(p)
         \/ Put("delivery", r, p) /\ Carry(p, "distribute", Adopt("delivery", r, p))
         \/ Put("market-input", r, p) /\ Stop(p)
         \/ Put("market-input", r, p) /\ Carry(p, "submit", Adopt("market-input", r, p))
  BY Zenon, <1>2 DEF BuildDelivery, SignInput
<1>4. Grows /\ \A st \in Deciding : NoNew(st)
  BY Zenon, <1>3, PutQuiet, KeepFacts DEF Deciding
<1>5. Has("intent", r)'
  BY Zenon, <1>2, <1>4 DEF Grows
<1>6. PICK y : Moved(p, y) /\ StepSound(p, y)'
  <2>1. CASE Stop(p)
    BY Zenon, <1>1, <2>1, StartFacts, IdleSound
  <2>2. CASE Put("delivery", r, p) /\ Carry(p, "distribute", Adopt("delivery", r, p))
    <3>1. PICK d : d = Adopt("delivery", r, p)
      OBVIOUS
    <3>2. Has("delivery", r)' /\ d = Record("delivery", r)'
      BY Zenon, <2>2, <3>1, PutFacts
    <3>3. SubmitSound(Doing("distribute", r, d))' /\ EndSound(Doing("distribute", r, d))'
      BY Zenon, <3>2 DEF SubmitSound, EndSound, Doing, Carries
    <3> QED  BY <1>2, <1>5, <2>2, <3>1, <3>3, DoingSound DEF WorkerSteps, Moves
  <2>3. CASE Put("market-input", r, p) /\ Carry(p, "submit", Adopt("market-input", r, p))
    <3>1. PICK d : d = Adopt("market-input", r, p)
      OBVIOUS
    <3>2. Has("market-input", r)' /\ d = Record("market-input", r)'
      BY Zenon, <2>3, <3>1, PutFacts
    <3>3. SubmitSound(Doing("submit", r, d))' /\ EndSound(Doing("submit", r, d))'
      BY Zenon, <3>2 DEF SubmitSound, EndSound, Doing, Carries
    <3> QED  BY Zenon, <1>2, <1>5, <2>3, <3>1, <3>3, DoingSound DEF WorkerSteps, Moves
  <2> QED  BY <1>3, <2>1, <2>2, <2>3
<1> QED  BY <1>3, <1>4, <1>6, QuietStep

\* The head that a release is saved for exists.
LEMMA SaveReleaseKeeps == ASSUME IInv, NEW p \in Processes, SaveRelease(p) PROVE IInv'
<1>1. DOMAIN proc = Processes
  BY Zenon DEF IInv
<1>2. PICK r \in Requests, c \in {proc[p].carried} :
        /\ r = proc[p].id /\ c = proc[p].carried /\ Has("intent", r)
        /\ StepSound(p, Doing("head", r, c)) /\ Moves(p, r, c)
  BY Zenon, AtFacts DEF SaveRelease
<1>3. /\ UNCHANGED <<queue, Outside>>
      /\ \/ UNCHANGED journal /\ Stop(p)
         \/ chain.hold[r].status # "none" /\ Put("expiry", r, p) /\ Goto(p, "release")
  BY Zenon, <1>2 DEF SaveRelease, OwnHead
<1>4. Grows /\ \A st \in Deciding : NoNew(st)
  BY Zenon, <1>3, PutQuiet, KeepFacts DEF Deciding
<1>5. p = "worker" /\ ~Has("expiry-result", r)
  BY Zenon, <1>2 DEF StepSound, EndSound, WorkerSteps, Doing
<1>6. ~Has("expiry-result", r)' /\ Has("intent", r)'
  BY Zenon, <1>2, <1>4, <1>5 DEF Grows, NoNew, Deciding
<1>7. PICK y : Moved(p, y) /\ (HoldsKept => StepSound(p, y)')
  <2>1. CASE Stop(p)
    BY Zenon, <1>1, <2>1, StartFacts, IdleSound
  <2>2. CASE chain.hold[r].status # "none" /\ Goto(p, "release")
    <3>1. HoldsKept => SubmitSound(Doing("release", r, c))' /\ EndSound(Doing("release", r, c))'
      BY Zenon, <1>6, <2>2 DEF SubmitSound, EndSound, Doing, HoldsKept
    <3> QED  BY SMTT(30), <1>2, <1>5, <1>6, <2>2, <3>1, DoingSound DEF Moves
  <2> QED  BY <1>3, <2>1, <2>2
<1> QED  BY Zenon, <1>3, <1>4, <1>7, QuietStep

\* The rebuilt witness and the resolution follow the saved expiry result.
LEMMA ResolveKeeps == ASSUME IInv, NEW p \in Processes, Recover(p) \/ Resolve(p) PROVE IInv'
<1>1. DOMAIN proc = Processes
  BY Zenon DEF IInv
<1>2. PICK s \in {"recover", "resolve"}, r \in Requests, c \in {proc[p].carried} :
        /\ r = proc[p].id /\ c = proc[p].carried /\ s = proc[p].step /\ Has("intent", r)
        /\ StepSound(p, Doing(s, r, c)) /\ Moves(p, r, c)
  BY Zenon, AtFacts DEF Recover, Resolve, At
<1>3. /\ UNCHANGED <<queue, Outside>>
      /\ \/ UNCHANGED journal /\ Stop(p)
         \/ (\E n, f : Put("funding", n, f)) /\ Goto(p, "resolve")
         \/ Put("resolved", r, c) /\ Goto(p, "record")
  BY Zenon, <1>2 DEF Recover, Resolve
<1>4. Grows /\ \A st \in Deciding : NoNew(st)
  BY Zenon, <1>3, PutQuiet, KeepFacts DEF Deciding
<1>5. p = "worker" /\ Has("expiry-result", r) /\ c = Record("expiry-result", r)
  BY Zenon, <1>2 DEF StepSound, EndSound, Carries, WorkerSteps, Doing
<1>6. Has("expiry-result", r)' /\ c = Record("expiry-result", r)' /\ Has("intent", r)'
  BY Zenon, <1>2, <1>4, <1>5 DEF Grows
<1>7. PICK y : Moved(p, y) /\ (HoldsKept => StepSound(p, y)')
  <2>1. CASE Stop(p)
    BY Zenon, <1>1, <2>1, StartFacts, IdleSound
  <2>2. CASE Goto(p, "resolve")
    <3>1. SubmitSound(Doing("resolve", r, c))' /\ EndSound(Doing("resolve", r, c))'
      BY Zenon, <1>6 DEF SubmitSound, EndSound, Doing, Carries
    <3> QED  BY SMTT(30), <1>2, <1>5, <1>6, <2>2, <3>1, DoingSound DEF Moves
  <2>3. CASE Put("resolved", r, c) /\ Goto(p, "record")
    <3>1. c = "never_reserved" \/ (c = "released" /\ Released(r))
      BY Zenon, <1>5 DEF IInv, JournalSound, Consistent
    <3>2. Has("resolved", r)'
      BY Zenon, <2>3, PutFacts
    <3>3. c = "never_reserved" => NeverReserved(r)'
      BY Zenon, <1>6 DEF NeverReserved
    <3>4. HoldsKept => SubmitSound(Doing("record", r, c))' /\ EndSound(Doing("record", r, c))'
      BY Zenon, <3>1, <3>2, <3>3 DEF SubmitSound, EndSound, Doing, HoldsKept
    <3> QED  BY Zenon, <1>2, <1>5, <1>6, <2>3, <3>4, DoingSound DEF Moves
  <2> QED  BY <1>3, <2>1, <2>2, <2>3
<1> QED  BY <1>3, <1>4, <1>7, QuietStep

-----------------------------------------------------------------------------
(* Steps that save a record by which the request is decided *)

\* The send fence goes up once, whoever gets there first.
LEMMA FencePut ==
    ASSUME JournalSound, NEW r \in Requests, NEW b \in {"send", "end"}, Put("reserve-send", r, b)
    PROVE  /\ Grows /\ NoNew("expiry-result")
           /\ HoldsKept => JournalSound'
           /\ Adopt("reserve-send", r, b) \in {"send", "end"}
           /\ Has("reserve-send", r)' /\ Record("reserve-send", r)' = Adopt("reserve-send", r, b)
<1>1. /\ Grows /\ NoNew("expiry-result") /\ NoNew("intent")
      /\ \A st, q : Has(st, q)' => Has(st, q) \/ (st = "reserve-send" /\ q = r)
  BY PutFacts
<1>2. PICK a : a = Adopt("reserve-send", r, b)
  OBVIOUS
<1>3. a \in {"send", "end"}
  BY Zenon, <1>2 DEF Adopt, JournalSound, Consistent
<1>4. Has("reserve-send", r)' /\ Record("reserve-send", r)' = a
  BY Zenon, <1>2, PutFacts
<1>5. HoldsKept => Consistent(r)'
  <2>1. Fence(r, "end") => Fence(r, "end")'
    BY Zenon, <1>1 DEF Fence, Grows
  <2> QED  BY <1>1, <1>3, <1>4, <2>1 DEF JournalSound, Consistent, Grows, HoldsKept
<1>6. \A q \in Requests \ {r} : HoldsKept => Consistent(q)'
  BY Zenon, <1>1, ConsistentStable DEF JournalSound
<1> QED  BY <1>1, <1>2, <1>3, <1>4, <1>5, <1>6 DEF JournalSound, Fence

\* mark_reserve_send_started: who may send carries the saved reserve.
LEMMA MarkSendKeeps == ASSUME IInv, NEW p \in Processes, MarkSend(p) PROVE IInv'
<1>1. DOMAIN proc = Processes /\ JournalSound
  BY Zenon DEF IInv
<1>2. PICK r \in Requests, c \in {proc[p].carried} :
        /\ r = proc[p].id /\ c = proc[p].carried /\ Has("intent", r)
        /\ StepSound(p, Doing("mark", r, c)) /\ Moves(p, r, c)
  BY Zenon, AtFacts DEF MarkSend
<1>3. /\ UNCHANGED <<queue, Outside>> /\ Put("reserve-send", r, "send")
      /\ IF Adopt("reserve-send", r, "send") = "send" THEN Carry(p, "send", Record("reserve", r)) ELSE Stop(p)
  BY Zenon, <1>2 DEF MarkSend
<1>4. /\ Grows /\ NoNew("expiry-result")
      /\ HoldsKept => JournalSound'
      /\ Adopt("reserve-send", r, "send") = "send" => Fence(r, "send")'
  BY Zenon, <1>1, <1>3, FencePut DEF Fence
<1>5. Has("reserve", r) /\ Turn(r)
  BY Zenon, <1>2 DEF StepSound, SubmitSound, Doing
<1>6. Has("reserve", r)' /\ Has("intent", r)' /\ Turn(r)'
  BY Zenon, <1>2, <1>4, <1>5, TurnStable DEF Grows
<1>7. PICK y : Moved(p, y) /\ StepSound(p, y)'
  <2>1. CASE Stop(p)
    BY Zenon, <1>1, <2>1, StartFacts, IdleSound
  <2>2. CASE Adopt("reserve-send", r, "send") = "send" /\ Carry(p, "send", Record("reserve", r))
    <3>1. PICK d : d = Record("reserve", r)
      OBVIOUS
    <3>2. d = Record("reserve", r)'
      BY Zenon, <1>4, <1>5, <3>1 DEF Grows
    <3>3. SubmitSound(Doing("send", r, d))' /\ EndSound(Doing("send", r, d))'
      BY Zenon, <1>4, <1>6, <2>2, <3>2 DEF SubmitSound, EndSound, Doing, Carries
    <3> QED  BY <1>2, <1>6, <2>2, <3>1, <3>3, DoingSound DEF WorkerSteps, Moves
  <2> QED  BY <1>3, <2>1, <2>2
<1> QED  BY <1>3, <1>4, <1>7, JournalStep

\* end_unprepared_authorization and seal_never_dispatched: who ends holds the fence.
LEMMA SealKeeps == ASSUME IInv, NEW p \in Processes, FenceUnprepared(p) \/ Seal(p) PROVE IInv'
<1>1. DOMAIN proc = Processes /\ JournalSound
  BY Zenon DEF IInv
<1>2. PICK s \in {"end", "seal"}, r \in Requests, c \in {proc[p].carried} :
        /\ r = proc[p].id /\ c = proc[p].carried /\ s = proc[p].step /\ Has("intent", r)
        /\ StepSound(p, Doing(s, r, c)) /\ Moves(p, r, c)
  BY Zenon, AtFacts DEF FenceUnprepared, Seal, At
<1>3. /\ UNCHANGED <<queue, Outside>>
      /\ UNCHANGED journal \/ Put("reserve-send", r, "end")
      /\ \/ Stop(p)
         \/ s = "end" /\ Put("reserve-send", r, "end") /\ Adopt("reserve-send", r, "end") # "send" /\ Goto(p, "ended")
         \/ s = "seal" /\ Goto(p, "head")
         \/ s = "seal" /\ Put("reserve-send", r, "end") /\ Adopt("reserve-send", r, "end") # "send" /\ Goto(p, "confirm")
  BY Zenon, <1>2 DEF FenceUnprepared, Seal, At
<1>4. /\ Grows /\ NoNew("expiry-result")
      /\ HoldsKept => JournalSound'
  <2>1. CASE UNCHANGED journal
    BY Zenon, <1>1, <2>1, KeepFacts, JournalStable
  <2>2. CASE Put("reserve-send", r, "end")
    BY Zenon, <1>1, <2>2, FencePut
  <2> QED  BY <1>3, <2>1, <2>2
<1>5. Put("reserve-send", r, "end") /\ Adopt("reserve-send", r, "end") # "send" => Fence(r, "end")'
  BY Zenon, <1>1, FencePut DEF Fence
<1>6. p = "worker" /\ Has("intent", r)' /\ (s = "seal" => ~Has("expiry-result", r)')
  BY Zenon, <1>2, <1>4 DEF StepSound, EndSound, WorkerSteps, Doing, Grows, NoNew
<1>7. PICK y : Moved(p, y) /\ StepSound(p, y)'
  <2>1. CASE Stop(p)
    BY Zenon, <1>1, <2>1, StartFacts, IdleSound
  <2>2. ASSUME NEW t \in {"ended", "head", "confirm"}, Goto(p, t),
               t # "ended" => s = "seal",
               t # "head" => Put("reserve-send", r, "end") /\ Adopt("reserve-send", r, "end") # "send"
        PROVE  Moved(p, Doing(t, r, c)) /\ StepSound(p, Doing(t, r, c))'
    <3>1. SubmitSound(Doing(t, r, c))' /\ EndSound(Doing(t, r, c))'
      BY Zenon, <1>5, <1>6, <2>2 DEF SubmitSound, EndSound, Doing
    <3> QED  BY <1>2, <1>6, <2>2, <3>1, DoingSound DEF Moves
  <2> QED  BY <1>3, <2>1, <2>2
<1> QED  BY <1>3, <1>4, <1>7, JournalStep

\* An authorization ends behind its fence.
LEMMA EndAuthorizationKeeps == ASSUME IInv, NEW p \in Processes, EndAuthorization(p) PROVE IInv'
<1>1. PICK r \in Requests, c \in {proc[p].carried} :
        /\ r = proc[p].id /\ c = proc[p].carried /\ Has("intent", r)
        /\ StepSound(p, Doing("ended", r, c)) /\ Moves(p, r, c)
  BY Zenon, AtFacts DEF EndAuthorization
<1>2. /\ UNCHANGED <<queue, Outside>> /\ Carry(p, "record", "never_reserved")
      /\ \E body : Put("authorization-end", r, body)
  BY Zenon, <1>1 DEF EndAuthorization
<1>3. /\ Grows /\ NoNew("expiry-result") /\ NoNew("intent") /\ Has("authorization-end", r)'
      /\ \A st, q : Has(st, q)' => Has(st, q) \/ (st = "authorization-end" /\ q = r)
  BY <1>2, PutFacts
<1>4. p = "worker" /\ Fence(r, "end")
  BY Zenon, <1>1 DEF StepSound, EndSound, WorkerSteps, Doing
<1>5. Fence(r, "end")' /\ Has("intent", r)'
  BY Zenon, <1>1, <1>3, <1>4 DEF Fence, Grows
<1>6. HoldsKept => JournalSound'
  <2>1. HoldsKept => Consistent(r)'
    BY Zenon, <1>3, <1>5 DEF IInv, JournalSound, Consistent, Grows, HoldsKept
  <2>2. \A q \in Requests \ {r} : HoldsKept => Consistent(q)'
    BY Zenon, <1>3, ConsistentStable DEF IInv, JournalSound
  <2> QED  BY <2>1, <2>2 DEF JournalSound
<1>7. StepSound(p, Doing("record", r, "never_reserved"))'
  <2>1. NeverReserved(r)'
    BY Zenon, <1>3 DEF NeverReserved
  <2>2. SubmitSound(Doing("record", r, "never_reserved"))' /\ EndSound(Doing("record", r, "never_reserved"))'
    BY Zenon, <2>1 DEF SubmitSound, EndSound, Doing
  <2> QED  BY <1>4, <1>5, <2>2, DoingSound DEF Moves
<1> QED  BY Zenon, <1>1, <1>2, <1>3, <1>6, <1>7, JournalStep DEF Moves

\* An expiry result is saved once, by the dispatcher, and is what it carries.
LEMMA SaveResultKeeps == ASSUME IInv, NEW p \in Processes, SaveResult(p) PROVE IInv'
<1>1. PICK r \in Requests, c \in {proc[p].carried} :
        /\ r = proc[p].id /\ c = proc[p].carried /\ Has("intent", r)
        /\ StepSound(p, Doing("result", r, c)) /\ Moves(p, r, c)
  BY Zenon, AtFacts DEF SaveResult
<1>2. UNCHANGED <<queue, Outside>> /\ Goto(p, "recover") /\ Put("expiry-result", r, c)
  BY Zenon, <1>1 DEF SaveResult
<1>3. /\ p = "worker" /\ ~Has("expiry-result", r)
      /\ \/ c = "never_reserved" /\ Fence(r, "end")
         \/ c = "released" /\ Released(r)
  BY Zenon, <1>1 DEF StepSound, EndSound, WorkerSteps, Doing
<1>4. /\ Grows /\ NoNew("intent")
      /\ Has("expiry-result", r)' /\ Record("expiry-result", r)' = c
      /\ \A st, q : Has(st, q)' => Has(st, q) \/ (st = "expiry-result" /\ q = r)
  BY Zenon, <1>2, <1>3, PutFacts DEF Adopt
<1>5. (Fence(r, "end") => Fence(r, "end")') /\ Has("intent", r)'
  BY Zenon, <1>1, <1>4 DEF Fence, Grows
<1>6. HoldsKept => JournalSound'
  <2>1. HoldsKept => Consistent(r)'
    BY Zenon, <1>3, <1>4, <1>5 DEF IInv, JournalSound, Consistent, Grows, HoldsKept
  <2>2. \A q \in Requests \ {r} : HoldsKept => Consistent(q)'
    BY Zenon, <1>4, ConsistentStable DEF IInv, JournalSound
  <2> QED  BY <2>1, <2>2 DEF JournalSound
<1>7. StepSound(p, Doing("recover", r, c))'
  <2>1. SubmitSound(Doing("recover", r, c))' /\ EndSound(Doing("recover", r, c))'
    BY Zenon, <1>4 DEF SubmitSound, EndSound, Doing, Carries
  <2> QED  BY <1>3, <1>5, <2>1, DoingSound DEF Moves
<1> QED  BY Zenon, <1>1, <1>2, <1>3, <1>4, <1>6, <1>7, JournalStep DEF Moves

\* A receipt is saved for a saved delivery.
LEMMA SaveReceiptKeeps == ASSUME IInv, NEW p \in Processes, SaveReceipt(p) PROVE IInv'
<1>1. PICK r \in Requests, c \in {proc[p].carried} :
        /\ r = proc[p].id /\ c = proc[p].carried /\ Has("intent", r)
        /\ StepSound(p, Doing("save_receipt", r, c)) /\ Moves(p, r, c)
  BY Zenon, AtFacts DEF SaveReceipt
<1>2. UNCHANGED <<queue, Outside>> /\ Goto(p, "admitted") /\ Put("receipt", r, c)
  BY Zenon, <1>1 DEF SaveReceipt
<1>3. /\ Grows /\ NoNew("expiry-result") /\ NoNew("intent") /\ Has("receipt", r)'
      /\ \A st, q : Has(st, q)' => Has(st, q) \/ (st = "receipt" /\ q = r)
  BY SMTT(30), <1>2, PutFacts
<1>4. Has("delivery", r)
  BY Zenon, <1>1 DEF StepSound, SubmitSound, Carries, Doing
<1>5. Has("delivery", r)' /\ Has("intent", r)' /\ (Fence(r, "end") => Fence(r, "end")')
  BY Zenon, <1>1, <1>3, <1>4 DEF Grows, Fence
<1>6. HoldsKept => JournalSound'
  <2>1. HoldsKept => Consistent(r)'
    BY Zenon, <1>3, <1>5 DEF IInv, JournalSound, Consistent, Grows, HoldsKept
  <2>2. \A q \in Requests \ {r} : HoldsKept => Consistent(q)'
    BY Zenon, <1>3, ConsistentStable DEF IInv, JournalSound
  <2> QED  BY <2>1, <2>2 DEF JournalSound
<1>7. StepSound(p, Doing("admitted", r, c))'
  <2>1. SubmitSound(Doing("admitted", r, c))' /\ EndSound(Doing("admitted", r, c))'
    BY Zenon, <1>3 DEF SubmitSound, EndSound, Doing
  <2> QED  BY <1>5, <2>1, DoingSound DEF WorkerSteps, Moves
<1> QED  BY <1>1, <1>2, <1>3, <1>6, <1>7, JournalStep DEF Moves

\* A new intent follows every earlier one, so nobody loses a turn.
LEMMA AcceptKeeps == ASSUME IInv, NEW r \in Requests, Accept(r) PROVE IInv'
<1>1. /\ UNCHANGED <<queue, Outside>> /\ Put("intent", r, Intents)
      /\ \E t \in {"authorize", "prepare"} : Start("intake", t, r)
  BY Zenon DEF Accept
<1>2. DOMAIN proc = Processes /\ "intake" \in Processes /\ JournalSound
  BY Zenon DEF IInv, Processes
<1>3. /\ Grows /\ NoNew("expiry-result") /\ Has("intent", r)'
      /\ \A st, q : Has(st, q)' => Has(st, q) \/ (st = "intent" /\ q = r)
  BY <1>1, PutFacts
<1>4. HoldsKept => JournalSound'
  BY Zenon, <1>2, <1>3, ConsistentStable DEF JournalSound, Deciding
<1>5. PICK y : Moved("intake", y) /\ StepSound("intake", y)'
  BY Zenon, <1>1, <1>2, <1>3, StartFacts, PlainSound DEF Plain, Moves
<1> QED  BY <1>1, <1>2, <1>3, <1>4, <1>5, JournalStep

-----------------------------------------------------------------------------
(* Steps that reach the chain, the nodes or the market *)

\* A step that moves at most one process.
LEMMA StepKeeps ==
    ASSUME IInv, Grows, HoldsKept, NoNew("expiry-result"),
           JournalSound', WireSound', ChainSound', QueueSound',
           proc' = proc \/ \E y : \E p \in Processes : Moved(p, y) /\ StepSound(p, y)'
    PROVE  IInv'
<1>1. ASSUME NEW q \in Processes, NEW x, x = proc[q], x = proc'[q] PROVE StepSound(q, x)'
  BY Zenon, <1>1, OtherProc DEF IInv
<1>2. CASE proc' = proc
  BY Zenon, <1>1, <1>2 DEF IInv, StepSound
<1>3. ASSUME NEW p \in Processes, NEW y, Moved(p, y), StepSound(p, y)' PROVE IInv'
  <2>1. DOMAIN proc' = Processes /\ StepSound(p, proc[p])'
    BY Zenon, <1>3 DEF Moved, StepSound
  <2>2. ASSUME NEW q \in Processes \ {p} PROVE StepSound(q, proc[q])'
    <3>1. PICK x : x = proc[q] /\ x = proc'[q]
      BY Zenon, <1>3 DEF Moved
    <3> QED  BY Zenon, <1>1, <3>1 DEF StepSound
  <2> QED  BY <2>1, <2>2 DEF IInv
<1> QED  BY <1>2, <1>3

\* Steps that leave the journal alone.
LEMMA NoRecord ==
    ASSUME IInv, UNCHANGED journal
    PROVE  /\ Grows /\ NoNew("expiry-result") /\ (\A st \in Deciding : NoNew(st))
           /\ HoldsKept => JournalSound'
BY Zenon, KeepFacts, JournalStable DEF IInv

\* finalize_reservation, submit_prepared and submit send what is saved.
LEMMA WireKeeps ==
    ASSUME IInv, NEW p \in Processes, Send(p) \/ Distribute(p) \/ Submit(p) PROVE IInv'
<1>1. DOMAIN proc = Processes
  BY Zenon DEF IInv
<1>2. PICK s \in {"send", "distribute", "submit"}, r \in Requests, c \in {proc[p].carried} :
        /\ r = proc[p].id /\ c = proc[p].carried /\ s = proc[p].step /\ Has("intent", r)
        /\ StepSound(p, Doing(s, r, c)) /\ Moves(p, r, c)
  BY Zenon, AtFacts DEF Send, Distribute, Submit, At
<1>3. /\ UNCHANGED <<journal, queue, chain>>
      /\ sent' = sent \/ (s = "send" /\ sent' = sent \cup {[id |-> r, body |-> c]})
      /\ delivered' = delivered \/ (s = "distribute" /\ delivered' = delivered \cup {[id |-> r, body |-> c]})
      /\ market' = market \/ (s = "submit" /\ market' = market \cup {[id |-> r, body |-> c]})
      /\ \/ Stop(p)
         \/ \E t \in {"reply", "acknowledge"} : Goto(p, t)
         \/ s = "distribute" /\ Goto(p, "save_receipt")
  BY Zenon, <1>2 DEF Send, Distribute, Submit, At
<1>4. /\ s = "send" => Has("reserve", r) /\ c = Record("reserve", r) /\ Fence(r, "send") /\ Turn(r)
      /\ s = "distribute" => Has("delivery", r) /\ c = Record("delivery", r)
      /\ s = "submit" => Has("market-input", r) /\ c = Record("market-input", r)
  BY Zenon, <1>2 DEF StepSound, SubmitSound, Carries, Doing
<1>5. Grows /\ NoNew("expiry-result") /\ (HoldsKept => JournalSound') /\ Has("intent", r)'
  BY Zenon, <1>2, <1>3, NoRecord DEF Grows
<1>6. ChainSound' /\ HoldsKept
  BY Zenon, <1>3, <1>5, ChainStable DEF IInv
<1>7. QueueSound'
  BY Zenon, <1>3, <1>5, <1>6, QueueStable DEF IInv
<1>8. WireSound'
  <2>1. Saved(sent', "reserve") /\ Saved(delivered', "delivery") /\ Saved(market', "market-input")
    BY <1>3, <1>4 DEF IInv, WireSound, Saved
  <2>2. Saved(sent, "reserve")' /\ Saved(delivered, "delivery")' /\ Saved(market, "market-input")'
    BY Zenon, <1>3, <2>1 DEF Saved, Has, Record
  <2>3. ASSUME NEW m \in sent' PROVE Fence(m.id, "send") /\ Has("intent", m.id) /\ Turn(m.id) /\ m.id \in Requests
    BY <1>2, <1>3, <1>4, <2>1 DEF IInv, WireSound, Saved
  <2>4. ASSUME NEW m \in sent' PROVE Fence(m.id, "send")' /\ Has("intent", m.id)' /\ Turn(m.id)'
    BY Zenon, <1>5, <2>3, TurnStable DEF Fence, Grows
  <2> QED  BY <2>2, <2>4 DEF WireSound
<1>9. \E y : Moved(p, y) /\ StepSound(p, y)'
  <2>1. CASE Stop(p)
    BY Zenon, <1>1, <2>1, StartFacts, IdleSound
  <2>2. ASSUME NEW t \in {"reply", "acknowledge"}, Goto(p, t)
        PROVE  Moved(p, Doing(t, r, c)) /\ StepSound(p, Doing(t, r, c))'
    BY Zenon, <1>2, <1>5, <2>2, PlainSound DEF Plain, Moves
  <2>3. CASE s = "distribute" /\ Goto(p, "save_receipt")
    <3>1. SubmitSound(Doing("save_receipt", r, c))' /\ EndSound(Doing("save_receipt", r, c))'
      BY Zenon, <1>4, <1>5, <2>3 DEF SubmitSound, EndSound, Doing, Carries, Grows
    <3> QED  BY Zenon, <1>2, <1>5, <2>3, <3>1, DoingSound DEF WorkerSteps, Moves
  <2> QED  BY Zenon, <1>3, <2>1, <2>2, <2>3
<1> QED  BY <1>5, <1>6, <1>7, <1>8, <1>9, StepKeeps

\* A hold moves on, and once released or consumed it never moves again.
LEMMA HeadFacts ==
    ASSUME ChainSound, Grows, NEW r \in Requests, chain.hold[r].status = "active",
           NEW status \in {"active", "released", "consumed"}, NEW by, NEW consumed,
           by = "corporate" => status = "released", chain'.hold = NextHead(r, status, by, consumed)
    PROVE  ChainSound' /\ HoldsKept /\ chain'.hold[r].closer = by
<1>1. /\ DOMAIN chain'.hold = Requests /\ \A q \in Requests \ {r} : chain'.hold[q] = chain.hold[q]
      /\ \E n, m, b : chain'.hold[r] = [status |-> status, sequence |-> n, remaining |-> m,
                                        bytes |-> b, closer |-> by]
  BY Zenon DEF ChainSound, NextHead
<1>2. \A q \in Requests : Fence(q, "send") => Fence(q, "send")'
  BY Zenon DEF Fence, Grows
<1>3. HoldSound(r)'
  <2>1. Fence(r, "send")'
    <3>1. HoldSound(r) /\ chain.hold[r] # NoHold
      BY DEF ChainSound, NoHold
    <3> QED  BY <1>2, <3>1 DEF HoldSound
  <2> QED  BY <1>1, <2>1 DEF HoldSound
<1>4. \A q \in Requests \ {r} : HoldSound(q)'
  BY Zenon, <1>1, <1>2 DEF ChainSound, HoldSound
<1>5. ChainSound'
  BY Zenon, <1>1, <1>3, <1>4 DEF ChainSound
<1>6. HoldsKept
  BY <1>1 DEF HoldsKept, Released
<1> QED  BY <1>1, <1>5, <1>6

\* A step of the chain that keeps what holds have become.
LEMMA ChainStep ==
    ASSUME IInv, UNCHANGED <<journal, queue, sent, delivered, market>>, ChainSound', HoldsKept,
           proc' = proc \/ \E y : \E p \in Processes : Moved(p, y) /\ StepSound(p, y)'
    PROVE  IInv'
<1>1. Grows /\ NoNew("expiry-result") /\ JournalSound'
  BY Zenon, NoRecord
<1>2. WireSound' /\ QueueSound'
  BY Zenon, <1>1, WireStable, QueueStable DEF IInv
<1> QED  BY <1>1, <1>2, StepKeeps

\* The ingress reserves only what was sent, behind the fence.
LEMMA ReserveKeeps == ASSUME IInv, NEW m \in sent, Reserve(m) PROVE IInv'
<1>1. PICK r \in Requests : r = m.id /\ Fence(r, "send")
  BY Zenon DEF IInv, WireSound, Saved
<1>2. PICK n, b : /\ chain.hold[r].status = "none"
                  /\ chain'.hold = [chain.hold EXCEPT ![r] = [status |-> "active", sequence |-> 0,
                                      remaining |-> n, bytes |-> b, closer |-> "none"]]
  BY Zenon, <1>1 DEF Reserve, CanReserve
<1>3. UNCHANGED <<journal, queue, proc, sent, delivered, market>>
  BY Zenon DEF Reserve
<1>4. /\ DOMAIN chain'.hold = Requests /\ \A q \in Requests \ {r} : chain'.hold[q] = chain.hold[q]
      /\ chain'.hold[r] = [status |-> "active", sequence |-> 0, remaining |-> n, bytes |-> b, closer |-> "none"]
  BY Zenon, <1>2 DEF IInv, ChainSound
<1>5. \A q \in Requests : Fence(q, "send") => Fence(q, "send")'
  BY Zenon, <1>3 DEF Fence, Has, Record
<1>6. HoldSound(r)'
  BY <1>1, <1>4, <1>5 DEF HoldSound
<1>7. \A q \in Requests \ {r} : HoldSound(q)'
  BY Zenon, <1>4, <1>5 DEF IInv, ChainSound, HoldSound
<1>8. ChainSound' /\ HoldsKept
  BY Zenon, <1>2, <1>4, <1>6, <1>7 DEF ChainSound, HoldsKept, Released
<1> QED  BY <1>3, <1>8, ChainStep

\* The market fills or releases a live hold.
LEMMA MarketKeeps ==
    ASSUME IInv, NEW r \in Requests,
           MarketRelease(r) \/ \E consumed \in 1..Limit[r], close \in BOOLEAN : Fill(r, consumed, close)
    PROVE  IInv'
<1>1. UNCHANGED <<journal, queue, proc, sent, delivered, market>> /\ chain.hold[r].status = "active"
  BY Zenon DEF MarketRelease, Fill
<1>2. PICK status, by, consumed :
        /\ status \in {"active", "released", "consumed"} /\ by \in {"market", "none"}
        /\ chain'.hold = NextHead(r, status, by, consumed)
  <2>1. CASE MarketRelease(r)
    BY Zenon, <2>1 DEF MarketRelease, Closed
  <2>2. ASSUME NEW consumed, NEW close \in BOOLEAN, Fill(r, consumed, close)
        PROVE  \/ chain'.hold = NextHead(r, "consumed", "market", consumed)
               \/ chain'.hold = NextHead(r, "active", "none", consumed)
    BY Zenon, <2>2 DEF Fill, Closed
  <2> QED  BY <2>1, <2>2
<1>3. Grows
  BY Zenon, <1>1, KeepFacts
<1>4. ChainSound' /\ HoldsKept
  BY Zenon, <1>1, <1>2, <1>3, HeadFacts DEF IInv
<1> QED  BY <1>1, <1>4, ChainStep

\* release_application: the result says released when the hold is.
LEMMA IssueReleaseKeeps == ASSUME IInv, NEW p \in Processes, IssueRelease(p) PROVE IInv'
<1>1. PICK r \in Requests, c \in {proc[p].carried} :
        /\ r = proc[p].id /\ c = proc[p].carried /\ Has("intent", r)
        /\ StepSound(p, Doing("release", r, c)) /\ Moves(p, r, c)
  BY Zenon, AtFacts DEF IssueRelease
<1>2. /\ UNCHANGED <<journal, queue, sent, delivered, market>>
      /\ chain' = chain \/ (chain.hold[r].status = "active" /\ chain'.hold = NextHead(r, "released", "corporate", 0))
      /\ Stop(p) \/ (chain'.hold[r].closer = "corporate" /\ Carry(p, "result", "released"))
  BY Zenon, <1>1 DEF IssueRelease, Closed
<1>3. p = "worker" /\ ~Has("expiry-result", r) /\ chain.hold[r].status # "none"
  BY Zenon, <1>1 DEF StepSound, EndSound, WorkerSteps, Doing
<1>4. Grows /\ NoNew("expiry-result") /\ DOMAIN proc = Processes
  BY Zenon, <1>2, KeepFacts DEF IInv
<1>5. ChainSound' /\ HoldsKept
  <2>1. CASE chain' = chain
    BY Zenon, <1>4, <2>1, ChainStable DEF IInv
  <2>2. CASE chain.hold[r].status = "active" /\ chain'.hold = NextHead(r, "released", "corporate", 0)
    BY Zenon, <1>4, <2>2, HeadFacts DEF IInv
  <2> QED  BY <1>2, <2>1, <2>2
<1>6. chain'.hold[r].closer = "corporate" => Released(r)'
  <2>1. HoldSound(r)' /\ chain'.hold[r].status # "none"
    BY Zenon, <1>3, <1>5 DEF ChainSound, HoldsKept
  <2>2. chain'.hold[r] # NoHold
    BY <2>1 DEF NoHold
  <2> QED  BY <2>1, <2>2 DEF HoldSound, Released
<1>7. \E y : Moved(p, y) /\ StepSound(p, y)'
  <2>1. CASE Stop(p)
    BY Zenon, <1>4, <2>1, StartFacts, IdleSound
  <2>2. CASE chain'.hold[r].closer = "corporate" /\ Carry(p, "result", "released")
    <3>1. ~Has("expiry-result", r)' /\ Has("intent", r)'
      BY Zenon, <1>1, <1>3, <1>4 DEF NoNew, Grows
    <3>2. SubmitSound(Doing("result", r, "released"))' /\ EndSound(Doing("result", r, "released"))'
      BY Zenon, <1>6, <2>2, <3>1 DEF SubmitSound, EndSound, Doing
    <3> QED  BY Zenon, <1>1, <1>3, <2>2, <3>1, <3>2, DoingSound DEF Moves
  <2> QED  BY Zenon, <1>2, <2>1, <2>2
<1> QED  BY Zenon, <1>2, <1>5, <1>7, ChainStep

-----------------------------------------------------------------------------
(* Steps in the dispatch queue *)

\* A step in the queue, by one process or by none.
LEMMA QueueStep ==
    ASSUME IInv, UNCHANGED <<journal, Outside>>, QueueSound',
           proc' = proc \/ \E y : \E p \in Processes : Moved(p, y) /\ StepSound(p, y)'
    PROVE  IInv'
<1>1. Grows /\ NoNew("expiry-result") /\ (HoldsKept => JournalSound')
  BY Zenon, NoRecord
<1>2. ChainSound' /\ HoldsKept
  BY Zenon, <1>1, ChainStable DEF IInv, Outside
<1>3. WireSound'
  BY Zenon, <1>1, WireStable DEF IInv, Outside
<1> QED  BY <1>1, <1>2, <1>3, StepKeeps

\* An entry takes a status that the journal and the chain bear out.
LEMMA StatusKeeps ==
    ASSUME QueueSound, UNCHANGED <<journal, chain>>, NEW r \in Requests, NEW status,
           queue' = [queue EXCEPT ![r].status = status],
           status = "admitted" => Has("receipt", r),
           status = "aborted" => NeverReserved(r),
           status = "released" => Released(r) /\ Has("resolved", r)
    PROVE  QueueSound'
<1>1. /\ DOMAIN queue' = DOMAIN queue /\ \A q \in DOMAIN queue \ {r} : queue'[q] = queue[q]
      /\ r \in DOMAIN queue => queue'[r] = [status |-> status, attempts |-> queue[r].attempts,
                                            order |-> queue[r].order]
  BY DEF QueueSound
<1>2. \A stage, q : Has(stage, q)' <=> Has(stage, q)
  BY Zenon DEF Has
<1>3. \A q : NeverReserved(q)' <=> NeverReserved(q)
  BY Zenon DEF NeverReserved, Has, Record
<1> QED  BY <1>1, <1>2, <1>3 DEF QueueSound, QueueFollowsJournal, Released

\* enqueue_first_seen: a new entry is queued, an old one stays.
LEMMA EnqueueKeeps == ASSUME IInv, NEW p \in Processes, Enqueue(p) PROVE IInv'
<1>1. PICK r \in Requests : r = proc[p].id
  BY Zenon, AtFacts DEF Enqueue
<1>2. PICK n : queue' = FirstSeen(queue, r, [status |-> "queued", attempts |-> 0, order |-> n])
  <2>1. PICK n : n = Cardinality(DOMAIN queue) + 1
    OBVIOUS
  <2>2. queue' = FirstSeen(queue, r, [status |-> "queued", attempts |-> 0, order |-> n])
    BY Zenon, <1>1, <2>1 DEF Enqueue
  <2> QED  BY Zenon, <2>2
<1>3. UNCHANGED <<journal, Outside>> /\ Stop(p) /\ DOMAIN proc = Processes
  BY Zenon DEF Enqueue, IInv
<1>4. /\ DOMAIN queue' = DOMAIN queue \cup {r} /\ \A q \in DOMAIN queue : queue'[q] = queue[q]
      /\ r \notin DOMAIN queue => queue'[r] = [status |-> "queued", attempts |-> 0, order |-> n]
  BY Zenon, <1>2 DEF FirstSeen
<1>5. \A stage, q : (Has(stage, q)' <=> Has(stage, q)) /\ Record(stage, q)' = Record(stage, q)
  BY Zenon, <1>3 DEF Has, Record
<1>6. \A q : NeverReserved(q)' <=> NeverReserved(q)
  BY Zenon, <1>5 DEF NeverReserved
<1>7. QueueSound'
  BY <1>3, <1>4, <1>5, <1>6 DEF IInv, QueueSound, QueueFollowsJournal, Outside
<1>8. \E y : Moved(p, y) /\ StepSound(p, y)'
  BY Zenon, <1>3, StartFacts, IdleSound
<1> QED  BY <1>3, <1>7, <1>8, QueueStep

\* The worker records an admission for a saved receipt; the client publishes.
LEMMA AdmittedKeeps == ASSUME IInv, NEW p \in Processes, Admitted(p) PROVE IInv'
<1>1. PICK r \in Requests, c \in {proc[p].carried} :
        /\ r = proc[p].id /\ c = proc[p].carried /\ Has("intent", r)
        /\ StepSound(p, Doing("admitted", r, c))
  BY Zenon, AtFacts DEF Admitted
<1>2. /\ UNCHANGED <<journal, Outside>> /\ DOMAIN proc = Processes
      /\ \/ queue' = [queue EXCEPT ![r].status = "admitted"] /\ Stop(p)
         \/ Start(p, "publish", r) /\ UNCHANGED queue
  BY Zenon, <1>1 DEF Admitted, IInv
<1>3. Has("receipt", r) /\ Has("intent", r)' /\ Grows
  BY Zenon, <1>1, <1>2, KeepFacts DEF StepSound, SubmitSound, Doing, Grows
<1>4. QueueSound'
  <2>1. HoldsKept
    BY Zenon, <1>2 DEF HoldsKept, Released, Outside
  <2>2. CASE UNCHANGED queue
    BY Zenon, <1>3, <2>1, <2>2, QueueStable DEF IInv
  <2>3. CASE queue' = [queue EXCEPT ![r].status = "admitted"]
    <3>1. PICK status : status = "admitted"
      OBVIOUS
    <3>2. queue' = [queue EXCEPT ![r].status = status] /\ QueueSound /\ UNCHANGED <<journal, chain>>
      BY Zenon, <1>2, <2>3, <3>1 DEF IInv, Outside
    <3>3. status # "aborted" /\ status # "released" /\ Has("receipt", r)
      BY Zenon, <1>3, <3>1
    <3> QED  BY Zenon, <3>2, <3>3, StatusKeeps
  <2> QED  BY <1>2, <2>2, <2>3
<1>5. \E y : Moved(p, y) /\ StepSound(p, y)'
  BY Zenon, <1>2, <1>3, StartFacts, IdleSound, PlainSound DEF Plain, Moves
<1> QED  BY <1>2, <1>4, <1>5, QueueStep

\* The last step of an expiry records what the journal and the chain say.
LEMMA RecordExpiryKeeps == ASSUME IInv, NEW p \in Processes, RecordExpiry(p) PROVE IInv'
<1>1. PICK r \in Requests, c \in {proc[p].carried} :
        /\ r = proc[p].id /\ c = proc[p].carried /\ Has("intent", r)
        /\ StepSound(p, Doing("record", r, c))
  BY Zenon, AtFacts DEF RecordExpiry
<1>2. /\ UNCHANGED <<journal, Outside>> /\ DOMAIN proc = Processes /\ Stop(p)
      /\ queue' = [queue EXCEPT ![r].status = IF c = "released" THEN "released" ELSE "aborted"]
  BY Zenon, <1>1 DEF RecordExpiry, IInv
<1>3. \/ c = "never_reserved" /\ NeverReserved(r)
      \/ c = "released" /\ Released(r) /\ Has("resolved", r)
  BY Zenon, <1>1 DEF StepSound, EndSound, Doing
<1>4. PICK status \in {"released", "aborted"} :
        /\ queue' = [queue EXCEPT ![r].status = status]
        /\ status = "released" <=> c = "released"
  BY Zenon, <1>2
<1>5. QueueSound'
  BY Zenon, <1>2, <1>3, <1>4, StatusKeeps DEF IInv, Outside
<1> QED  BY <1>2, <1>5, QueueStep, StartFacts, IdleSound

\* An authorization that ended in the journal is closed in the queue.
LEMMA RecordEndKeeps == ASSUME IInv, RecordEnd PROVE IInv'
<1>1. PICK r \in Requests : Has("authorization-end", r) /\ queue' = [queue EXCEPT ![r].status = "aborted"]
  BY Zenon DEF RecordEnd, Unrecorded
<1>2. UNCHANGED <<journal, Outside, proc>>
  BY Zenon DEF RecordEnd
<1>3. QueueSound'
  <2>1. PICK status : status = "aborted"
    OBVIOUS
  <2>2. queue' = [queue EXCEPT ![r].status = status] /\ QueueSound /\ UNCHANGED <<journal, chain>>
    BY Zenon, <1>1, <1>2, <2>1 DEF IInv, Outside
  <2>3. NeverReserved(r)
    BY Zenon, <1>1 DEF NeverReserved
  <2> QED  BY Zenon, <2>1, <2>2, <2>3, StatusKeeps
<1> QED  BY <1>2, <1>3, QueueStep

\* claim_next: the entry names records that the journal has.
LEMMA ClaimKeeps == ASSUME IInv, NEW r \in Requests, ClaimExpired(r) \/ ClaimDispatch(r) PROVE IInv'
<1>1. UNCHANGED <<journal, Outside>> /\ DOMAIN proc = Processes /\ "worker" \in Processes
  BY Zenon DEF ClaimExpired, ClaimDispatch, IInv, Processes
<1>2. \/ \E status \in {"release_pending", "manual_review"} : queue' = [queue EXCEPT ![r].status = status]
      \/ queue' = [queue EXCEPT ![r].attempts = @ + 1]
  BY Zenon DEF ClaimExpired, ClaimDispatch
<1>3. QueueSound'
  <2>1. CASE \E status \in {"release_pending", "manual_review"} : queue' = [queue EXCEPT ![r].status = status]
    BY Zenon, <1>1, <2>1, StatusKeeps DEF IInv, Outside
  <2>2. CASE queue' = [queue EXCEPT ![r].attempts = @ + 1]
    <3>1. /\ DOMAIN queue' = DOMAIN queue /\ \A q \in DOMAIN queue \ {r} : queue'[q] = queue[q]
          /\ r \in DOMAIN queue => queue'[r] = [status |-> queue[r].status,
                                attempts |-> queue[r].attempts + 1, order |-> queue[r].order]
      BY <2>2 DEF IInv, QueueSound
    <3>2. \A stage, q : (Has(stage, q)' <=> Has(stage, q)) /\ Record(stage, q)' = Record(stage, q)
      BY Zenon, <1>1 DEF Has, Record
    <3>3. \A q : NeverReserved(q)' <=> NeverReserved(q)
      BY Zenon, <3>2 DEF NeverReserved
    <3> QED  BY <1>1, <3>1, <3>2, <3>3 DEF IInv, QueueSound, QueueFollowsJournal, Outside
  <2> QED  BY <1>2, <2>1, <2>2
<1>4. \/ proc' = proc
      \/ /\ Intact(r)
         /\ \/ \E t \in {"end", "observe", "prepare"} : Start("worker", t, r)
            \/ Start("worker", "turn", r) /\ (r \in Authorized => Has("reserve", r))
  BY Zenon DEF ClaimExpired, ClaimDispatch
<1>5. ASSUME NEW t \in {"end", "observe", "prepare"}, Start("worker", t, r), Intact(r)
      PROVE  Moved("worker", Doing(t, r, {})) /\ StepSound("worker", Doing(t, r, {}))'
  <2>1. Has("intent", r)'
    BY Zenon, <1>1, <1>5 DEF Intact, Has
  <2> QED  BY <1>1, <1>5, <2>1, StartFacts, PlainSound DEF Plain, Moves
<1>6. ASSUME Start("worker", "turn", r), Intact(r), r \in Authorized => Has("reserve", r)
      PROVE  Moved("worker", Doing("turn", r, {})) /\ StepSound("worker", Doing("turn", r, {}))'
  <2>1. Has("intent", r)' /\ Has("reserve", r)'
    BY Zenon, <1>1, <1>6 DEF Intact, Has
  <2>2. SubmitSound(Doing("turn", r, {}))' /\ EndSound(Doing("turn", r, {}))'
    BY Zenon, <2>1 DEF SubmitSound, EndSound, Doing
  <2> QED  BY <1>1, <1>6, <2>1, <2>2, StartFacts, DoingSound DEF WorkerSteps, Moves
<1> QED  BY <1>1, <1>3, <1>4, <1>5, <1>6, QueueStep

-----------------------------------------------------------------------------
(* The theorems *)

\* Init: nothing is recorded, sent or reserved.
LEMMA InitSound == Init => IInv
<1> SUFFICES ASSUME Init PROVE IInv
  OBVIOUS
<1>1. \A stage, r : ~Has(stage, r)
  BY DEF Init, Has
<1>2. JournalSound
  BY Zenon, <1>1 DEF JournalSound, Consistent
<1>3. \A p \in Processes : StepSound(p, Idle)
  BY Zenon DEF StepSound, SubmitSound, EndSound, Shaped, Idle, WorkerSteps
<1>4. ChainSound
  BY Zenon DEF Init, ChainSound, HoldSound
<1> QED  BY <1>2, <1>3, <1>4 DEF Init, IInv, WireSound, Saved, QueueSound, QueueFollowsJournal

\* A crash, the publishing loop, recover_wallet from the command line and time.
LEMMA OtherKeeps ==
    ASSUME IInv, \/ \E p \in Processes : Crash(p)
                 \/ \E r \in Requests : Publish(r)
                 \/ RecoverWallet \/ Tick \/ UNCHANGED vars
    PROVE  IInv'
<1>1. UNCHANGED <<queue, Outside>> /\ DOMAIN proc = Processes /\ "worker" \in Processes
  BY Zenon DEF Crash, Publish, RecoverWallet, Tick, vars, Outside, IInv, Processes
<1>2. UNCHANGED journal \/ \E n, f : Put("funding", n, f)
  BY Zenon DEF Crash, Publish, RecoverWallet, Tick, vars
<1>3. Grows /\ \A st \in Deciding : NoNew(st)
  BY Zenon, <1>2, KeepFacts, PutQuiet DEF Deciding
<1>4. \/ proc' = proc \/ \E p \in Processes : Stop(p)
      \/ \E r \in Requests : Has("intent", r) /\ Start("worker", "publish", r)
  BY Zenon DEF Crash, Publish, RecoverWallet, Tick, vars, IInv, JournalSound, Consistent
<1>5. CASE proc' = proc
  <2>1. NoNew("expiry-result")
    BY Zenon, <1>3 DEF Deciding
  <2>2. ChainSound' /\ HoldsKept
    BY Zenon, <1>1, <1>3, ChainStable DEF IInv, Outside
  <2>3. JournalSound' /\ WireSound' /\ QueueSound'
    BY Zenon, <1>1, <1>3, <2>1, <2>2, JournalStable, WireStable, QueueStable DEF IInv, Outside
  <2> QED  BY <1>3, <1>5, <2>1, <2>2, <2>3, StepKeeps
<1>6. ASSUME NEW p \in Processes, Stop(p) PROVE IInv'
  BY Zenon, <1>1, <1>3, <1>6, StartFacts, IdleSound, QuietStep
<1>7. ASSUME NEW r \in Requests, Has("intent", r), Start("worker", "publish", r) PROVE IInv'
  <2>1. Has("intent", r)'
    BY Zenon, <1>3, <1>7 DEF Grows
  <2>2. Moved("worker", Doing("publish", r, {})) /\ StepSound("worker", Doing("publish", r, {}))'
    BY Zenon, <1>1, <1>7, <2>1, StartFacts, PlainSound DEF Plain, Moves
  <2> QED  BY <1>1, <1>3, <2>2, QuietStep
<1> QED  BY <1>4, <1>5, <1>6, <1>7

\* The inductive invariant holds of every run of client, dispatcher and chain.
THEOREM Invariant == Spec => []IInv
<1>1. IInv /\ [Next]_vars => IInv'
  <2> SUFFICES ASSUME IInv, [Next]_vars PROVE IInv'
    OBVIOUS
  <2>1. ASSUME NEW p \in Processes, Work(p) PROVE IInv'
    BY Zenon, <2>1, PlainPutKeeps, EnqueueKeeps, PrepareKeeps, SaveReserveKeeps, ResumeKeeps, MarkSendKeeps,
       WireKeeps, ReplyConfirmKeep, AdoptKeeps, SaveReceiptKeeps, AdmittedKeeps, SealKeeps,
       EndAuthorizationKeeps, ObserveKeeps, SaveReleaseKeeps, IssueReleaseKeeps, SaveResultKeeps,
       ResolveKeeps, RecordExpiryKeeps DEF Work
  <2> QED  BY <2>1, OtherKeeps, AcceptKeeps, ClaimKeeps, MarketKeeps, RecordEndKeeps, ReserveKeeps DEF Next
<1> QED  BY <1>1, InitSound, PTL DEF Spec

\* The send fence: what counts as never reserved has no hold and no reserve
\* request under way, for any interleaving of client, dispatcher and crashes.
THEOREM EndedStaysUnreserved == Spec => []EndedNeverReserved
<1>1. IInv => EndedNeverReserved
  <2> SUFFICES ASSUME IInv, NEW r \in Requests, NeverReserved(r)
               PROVE  chain.hold[r].status = "none" /\ \A m \in sent : m.id # r
    BY Zenon DEF EndedNeverReserved
  <2>1. Fence(r, "end")
    BY Zenon DEF IInv, JournalSound, Consistent, NeverReserved
  <2>2. ~Fence(r, "send")
    BY Zenon, <2>1 DEF Fence
  <2>3. \A m \in sent : m.id # r
    BY Zenon, <2>2 DEF IInv, WireSound
  <2>4. chain.hold[r] = NoHold
    BY Zenon, <2>2 DEF IInv, ChainSound, HoldSound
  <2> QED  BY <2>3, <2>4 DEF NoHold
<1> QED  BY <1>1, Invariant, PTL

\* One reserve, one set of ciphertexts and one market input per request.
THEOREM OneRequest == Spec => []OneRequestOnTheWire
<1>1. IInv => OneRequestOnTheWire
  <2>1. ASSUME NEW wire, NEW stage, Saved(wire, stage) PROVE OneEach(wire)
    BY Zenon, <2>1 DEF Saved, OneEach
  <2> QED  BY <2>1 DEF IInv, WireSound, OneRequestOnTheWire
<1> QED  BY <1>1, Invariant, PTL

\* The dispatch queue never says more than the journal and the chain.
THEOREM QueueTrue == Spec => []QueueFollowsJournal
<1>1. IInv => QueueFollowsJournal
  BY DEF IInv, QueueSound
<1> QED  BY <1>1, Invariant, PTL

\* Reserves are sent in the order of the intents.
THEOREM InTurn == Spec => []ReservesInTurn
<1>1. IInv => ReservesInTurn
  BY DEF IInv, WireSound, ReservesInTurn, Turn
<1> QED  BY <1>1, Invariant, PTL
=============================================================================
