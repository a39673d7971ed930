---------------------------- MODULE MarketRound ----------------------------
(***************************************************************************)
(* The resident market (market_runtime.rs, market_journal.rs and the       *)
(* oclob-market-worker program) with the committee and the canonical       *)
(* ledger it drives.  One order at a time is taken through a round:        *)
(* certificate, plan, execution, signed fills, settlement, finality on     *)
(* every node, completion.  Each result is written to a first-seen journal *)
(* and a restarted worker continues at the first missing record.           *)
(*                                                                         *)
(* The nodes are seen from outside: NodeStore has their inside and         *)
(* NativeBook has the matching, which is any choice of fills here.  A      *)
(* request that fails without an effect is a step that is not taken.       *)
(***************************************************************************)
EXTENDS Integers, Sequences, FiniteSets, Functions

CONSTANTS
    Orders,
    Nodes,
    OrderingQuorum,        \* votes of an order certificate
    Quantity,      \* units of each order, and of its reservation
    Deadline,      \* retention deadline of each order
    PlanLife,      \* 300 seconds
    MaxSlots,      \* MAX_MATCH_SLOTS
    Capacity,      \* records the journal can hold (8192, less two)
    MaxTime,       \* bound of the clock
    MaxOther,      \* bound on ledger transactions of other applications
    MaxFaults,     \* bound on crashes and failed executions
    None

ASSUME MarketAssumption ==
    /\ Quantity \in [Orders -> Nat \ {0}]
    /\ Deadline \in [Orders -> Nat]
    /\ OrderingQuorum \in 1..Cardinality(Nodes)
    /\ {PlanLife, MaxSlots, Capacity, MaxTime, MaxOther, MaxFaults} \subseteq Nat
    /\ None \notin Orders /\ None \notin Nat /\ None # [step |-> "final"]

VARIABLES
    intake,        \* the orders of the journal's intake records, in their sequence
    completed,     \* the orders of its completion records, in their sequence
    journal,       \* the other records of the encrypted first-seen journal, and the
                   \* book each completion left: kind and order to body
    up,            \* a worker process holds the worker lock
    pending,       \* what the worker has obtained and not yet recorded
    node,          \* the committee
    output,        \* what the MPC of a round opens
    ledger,        \* the canonical ledger
    published,     \* the round whose book the public file shows
    now,
    others, faults \* counters behind the two bounds

vars == <<intake, completed, journal, up, pending, node, output, ledger, published, now, others, faults>>
queue == <<intake, completed>>
worker == <<up, pending, published>>
bounds == <<now, others, faults>>

----------------------------------------------------------------------------

AllNone == [o \in Orders |-> None]

Kinds == {"certificate", "plan", "execution", "signed", "settled", "finality", "done"}

Digest(c) == [order |-> c.order, voters |-> c.voters]

FreshNode ==
    [head |-> None, stage |-> "idle", round |-> None, completed |-> AllNone, debris |-> {},
     observed |-> {}, finalized |-> {}, heads |-> AllNone]

Init ==
    /\ intake = << >>
    /\ completed = << >>
    /\ journal = [k \in Kinds |-> AllNone]
    /\ up = FALSE
    /\ pending = None
    /\ node = [n \in Nodes |-> FreshNode]
    /\ output = AllNone
    /\ ledger = [root |-> 0, remaining |-> Quantity, open |-> Orders, accepted |-> {}]
    /\ published = None
    /\ now = 0
    /\ others = 0
    /\ faults = 0

----------------------------------------------------------------------------
(* The journal                                                             *)

Saved(kind, o) == journal[kind][o]

Has(kind, o) == Saved(kind, o) # None

\* One encrypted outbox holds the records of every kind.
Records == Len(intake) + Cardinality({r \in Kinds \X Orders : Has(r[1], r[2])})

Room == Records < Capacity

Put(kind, o, body) ==
    /\ Room
    /\ journal' = [journal EXCEPT ![kind] = [@ EXCEPT ![o] = body]]

Intaken == {intake[i] : i \in 1..Len(intake)}

Done == {completed[i] : i \in 1..Len(completed)}

FirstWaiting ==
    LET done == Done IN
    {i \in 1..Len(intake) : intake[i] \notin done /\ \A j \in 1..(i - 1) : intake[j] \in done}

\* next(): the earliest intake without a completion.
Current == IF FirstWaiting = {} THEN None ELSE intake[CHOOSE i \in FirstWaiting : TRUE]

\* The last completion.
Previous == IF completed = << >> THEN None ELSE completed[Len(completed)]

\* The resting orders and what is left of each; their priority is NativeBook's.
Book == IF completed = << >> THEN << >> ELSE Saved("done", Previous)

\* A book larger than the circuit is an error.
BookFits == Cardinality(DOMAIN Book) <= MaxSlots

\* pump works on o.
Pumping(o) == up /\ o = Current /\ BookFits

Fills(o) == Saved("execution", o).fills

Filled(o) == {p \in DOMAIN Fills(o) : Fills(o)[p] > 0}

PlanLive(o) == Has("plan", o) /\ now <= Saved("plan", o).expires

----------------------------------------------------------------------------
(* The intake thread and the clock                                         *)

\* receive_connection and accept: an intake is acknowledged once it is in the
\* journal; a repetition finds it there.
Accept(o) ==
    /\ up
    /\ o \notin Intaken
    /\ now <= Deadline[o]
    /\ Room
    /\ intake' = Append(intake, o)
    /\ UNCHANGED <<completed, journal, worker, node, output, ledger, bounds>>

Tick ==
    /\ now < MaxTime
    /\ now' = now + 1
    /\ UNCHANGED <<queue, journal, worker, node, output, ledger, others, faults>>

----------------------------------------------------------------------------
(* pump: certificate, plan, execution                                      *)

\* collect_order_certificate: whichever votes arrive, at least a quorum.
CollectCertificate(o) ==
    /\ ~Has("certificate", o)
    /\ now <= Deadline[o]
    /\ \E voters \in SUBSET Nodes :
        /\ Cardinality(voters) >= OrderingQuorum
        /\ Put("certificate", o,
               [order |-> o, voters |-> voters,
                previous |-> IF Previous = None THEN None ELSE Digest(Saved("certificate", Previous))])
    /\ UNCHANGED <<queue, worker, node, output, ledger, bounds>>

Ends(o) == {Deadline[p] : p \in DOMAIN Book \cup {o}} \cup {now + PlanLife}

\* The earliest of the deadlines, as a set.
PlanExpiry(o) == {t \in Ends(o) : \A u \in Ends(o) : t <= u}

NeedsPlanAgain(o) == ~Has("execution", o)

NeedsPlan(o) == ~Has("plan", o)

\* RoundPlan::sign refuses a plan that is over when it is issued.
SignPlan(o) ==
    /\ Has("certificate", o)
    /\ NeedsPlan(o)
    /\ \E expires \in PlanExpiry(o) :
        /\ now <= expires
        /\ Put("plan", o, [certificate |-> Saved("certificate", o), resting |-> DOMAIN Book,
                           expires |-> expires])
    /\ UNCHANGED <<queue, worker, node, output, ledger, bounds>>

Executing(o) == PlanLive(o) /\ ~Has("execution", o) /\ Pumping(o)

\* No matched round of the node awaits its finality.
BarrierDown(s) ==
    \A r \in {o \in Orders : s.completed[o] # None} :
        (\E p \in DOMAIN s.completed[r].fills : s.completed[r].fills[p] > 0) => r \in s.finalized

\* The certificate is the node's head, or extends it.
Acceptable(s, c) ==
    \/ s.head = Digest(c)
    \/ s.head = c.previous /\ BarrierDown(s)

Started(s, o) ==
    [s EXCEPT !.head = Digest(Saved("plan", o).certificate), !.stage = "running", !.round = o]

\* One Execute request reaches a node.  Its party waits for the other parties
\* in a fresh directory; a completed round would answer with its receipt.
StartExecute(n, o) ==
    /\ node[n].stage = "idle"
    /\ Executing(o)
    /\ Acceptable(node[n], Saved("plan", o).certificate)
    /\ BarrierDown(node[n])
    /\ node[n].completed[o] = None
    /\ <<"dir", o>> \notin node[n].debris
    /\ node' = [node EXCEPT ![n] = Started(node[n], o)]
    /\ UNCHANGED <<queue, journal, worker, output, ledger, bounds>>

\* What a node's shares of an order add up to.
Amount(s, p) == IF s.heads[p] = None THEN Quantity[p] ELSE s.heads[p]

\* The units an arriving order takes.
Taken(fills) ==
    IF \A p \in DOMAIN fills : fills[p] = 0 THEN 0
    ELSE SumFunction(fills)

\* Fills of the resting orders by an arriving one, whose remainder rests or
\* is dropped.
Results(o, amount) ==
    {r \in [fills : {f \in [DOMAIN amount -> 0..Quantity[o]] :
                       \A p \in DOMAIN amount : f[p] <= amount[p]},
            left : 0..Quantity[o]] :
       /\ Taken(r.fills) <= Quantity[o]
       /\ r.left \in {0, Quantity[o] - Taken(r.fills)}}

\* All parties of a round are connected: the program runs and opens its
\* output, which depends on the inputs only.
RunMpc(o) ==
    /\ \A n \in Nodes : node[n].stage = "running" /\ node[n].round = o
    /\ \E n \in Nodes :
        \E r \in Results(o, [p \in Saved("plan", o).resting |-> Amount(node[n], p)]) :
            output' = [output EXCEPT ![o] = IF @ = None THEN r ELSE @]
    /\ node' = [n \in Nodes |-> [node[n] EXCEPT !.stage = "finished"]]
    /\ UNCHANGED <<queue, journal, worker, ledger, bounds>>

\* The private state is retained in a new file and the receipt recorded; where
\* a file of the round was left, retain_private_state refuses.
Finished(s) ==
    [s EXCEPT !.stage = "idle", !.round = None,
              !.completed = [o \in Orders |-> IF o = s.round /\ <<"file", o>> \notin s.debris
                                             THEN output[o] ELSE s.completed[o]]]

RecordCompleted(n) ==
    /\ node[n].stage = "finished"
    /\ node' = [node EXCEPT ![n] = Finished(node[n])]
    /\ UNCHANGED <<queue, journal, worker, output, ledger, bounds>>

\* The party of a round is gone; what it left in the file system stays.
Abandoned(s, left) ==
    [s EXCEPT !.stage = "idle", !.round = None, !.debris = @ \cup {<<x, s.round>> : x \in left}]

\* A party fails or times out; its directory is removed.  Once the private
\* state is retained only the store's write can fail, and the file stays.
ExecuteFails(n) ==
    /\ faults < MaxFaults
    /\ node[n].stage # "idle"
    /\ \E left \in SUBSET {"file"} :
        /\ left # {} => node[n].stage = "finished"
        /\ node' = [node EXCEPT ![n] = Abandoned(node[n], left)]
    /\ faults' = faults + 1
    /\ UNCHANGED <<queue, journal, worker, output, ledger, now, others>>

\* execute_agreed_round: every node's receipt, all with the same result.
AgreedExecution(o) ==
    /\ \A n \in Nodes : node[n].completed[o] # None
    /\ \A n, m \in Nodes : node[n].completed[o] = node[m].completed[o]

CollectExecution(o) ==
    /\ Executing(o)
    /\ AgreedExecution(o)
    /\ \E n \in Nodes : Put("execution", o, node[n].completed[o])
    /\ UNCHANGED <<queue, worker, node, output, ledger, bounds>>

----------------------------------------------------------------------------
(* settle: signed fills, the ledger, finality on every node                *)

Matched(o) == Has("execution", o) /\ Filled(o) # {}

\* The authorities of taker and makers are opened from node releases, which
\* need a live plan; the taker's reservation head is read first.
BeginSigning(o) ==
    /\ pending = None
    /\ Matched(o)
    /\ ~Has("signed", o)
    /\ PlanLive(o)
    /\ pending' = [step |-> "signing", parent |-> ledger.root, left |-> Cardinality(Filled(o))]
    /\ UNCHANGED <<queue, journal, up, published, node, output, ledger, bounds>>

\* The worker has read, proved or been answered something it has not recorded.
Holding(step) == pending # None /\ pending.step = step

\* One slot is proved and certified.  prepare_native_fill wants the maker's
\* head at the root of the taker's head, or the whole attempt is given up.
SignFill(o) ==
    /\ Holding("signing") /\ pending.left > 0
    /\ pending' = IF ledger.root = pending.parent /\ PlanLive(o)
                  THEN [step |-> "signing", parent |-> pending.parent, left |-> pending.left - 1]
                  ELSE None
    /\ UNCHANGED <<queue, journal, up, published, node, output, ledger, bounds>>

RecordSigned(o) ==
    /\ Holding("signing") /\ pending.left = 0
    /\ Put("signed", o, pending.parent)
    /\ pending' = None
    /\ UNCHANGED <<queue, up, published, node, output, ledger, bounds>>

\* Mutant: the fills are submitted before they are recorded.
RequestUnrecorded(o) ==
    IF pending = None THEN Saved("signed", o)
    ELSE IF pending.step = "signing" /\ pending.left = 0 THEN pending.parent ELSE None

\* The fills to submit: only what the journal has.
Request(o) == IF pending = None THEN Saved("signed", o) ELSE None

Statement(o, parent) == [round |-> o, parent |-> parent]

\* The ledger applies a group of fills whole, on the root it was signed for and
\* before the deadline of every order in it.
Settleable(o, parent) ==
    /\ ledger.root = parent
    /\ \A p \in Filled(o) \cup {o} : now <= Deadline[p] /\ p \in ledger.open

\* The taker's reservation is closed when nothing of the order is left.
SettledLedger(o, parent) ==
    LET result == Saved("execution", o) IN
    [root |-> ledger.root + 1,
     remaining |-> [p \in Orders |->
        IF p \in DOMAIN result.fills THEN ledger.remaining[p] - result.fills[p]
        ELSE IF p = o THEN ledger.remaining[p] - Taken(result.fills) ELSE ledger.remaining[p]],
     open |-> IF result.left = 0 THEN ledger.open \ {o} ELSE ledger.open,
     accepted |-> ledger.accepted \cup {Statement(o, parent)}]

\* A statement that was accepted is answered with its acceptance.
AnswersAgain(o, parent) == Statement(o, parent) \in ledger.accepted

Submitting(o) ==
    /\ Matched(o)
    /\ ~Has("settled", o)
    /\ Request(o) # None

\* The ledger accepts the fills; the answer may be lost.
SubmitSettlement(o) ==
    /\ Submitting(o)
    /\ Settleable(o, Request(o))
    /\ ledger' = SettledLedger(o, Request(o))
    /\ pending' \in {None, [step |-> "settled", parent |-> Request(o)]}
    /\ UNCHANGED <<queue, journal, up, published, node, output, bounds>>

ResubmitSettlement(o) ==
    /\ Submitting(o)
    /\ AnswersAgain(o, Request(o))
    /\ pending' = [step |-> "settled", parent |-> Request(o)]
    /\ UNCHANGED <<queue, journal, up, published, node, output, ledger, bounds>>

RecordSettled(o) ==
    /\ Holding("settled")
    /\ Put("settled", o, pending.parent)
    /\ pending' = None
    /\ UNCHANGED <<queue, up, published, node, output, ledger, bounds>>

\* Every pump of a settled round asks the nodes again, recorded or not.
Finalizing(o) == Has("settled", o) /\ pending = None /\ Pumping(o)

\* confirm_oclob_native_finality: the node reads the ledger itself.
ConfirmFinality(n, o) ==
    /\ o \notin node[n].observed
    /\ Finalizing(o)
    /\ Statement(o, Saved("settled", o)) \in ledger.accepted
    /\ node' = [node EXCEPT ![n] = [node[n] EXCEPT !.observed = @ \cup {o}]]
    /\ UNCHANGED <<queue, journal, worker, output, ledger, bounds>>

\* Mutant: the arriving order's own remainder gets no head.
FinalHeadsDropTaker(s, o) ==
    [p \in Orders |-> IF p \in DOMAIN s.completed[o].fills
                      THEN Amount(s, p) - s.completed[o].fills[p] ELSE s.heads[p]]

\* The round's private state becomes the head of its resting orders and, if
\* something is left of it, of the arriving one.
FinalHeads(s, o) ==
    [p \in Orders |->
        IF p \in DOMAIN s.completed[o].fills THEN Amount(s, p) - s.completed[o].fills[p]
        ELSE IF p = o /\ s.completed[o].left > 0 THEN s.completed[o].left ELSE s.heads[p]]

Finalized(s, o) == [s EXCEPT !.finalized = @ \cup {o}, !.heads = FinalHeads(s, o)]

\* finalize_agreed_private_state asks all nodes once all have confirmed; a
\* node wants its own observation and a live plan.
FinalizeNode(n, o) ==
    /\ \A m \in Nodes : o \in node[m].observed
    /\ o \notin node[n].finalized
    /\ Finalizing(o)
    /\ PlanLive(o)
    /\ node' = [node EXCEPT ![n] = Finalized(node[n], o)]
    /\ UNCHANGED <<queue, journal, worker, output, ledger, bounds>>

EveryNodeFinal(o) == \A n \in Nodes : o \in node[n].finalized

\* Every node's receipt is collected, from a node that finalized before too.
RecordFinality(o) ==
    /\ Finalizing(o)
    /\ EveryNodeFinal(o)
    /\ PlanLive(o)
    /\ IF Has("finality", o) THEN UNCHANGED journal ELSE Put("finality", o, "final")
    /\ pending' = [step |-> "final"]
    /\ UNCHANGED <<queue, up, published, node, output, ledger, bounds>>

----------------------------------------------------------------------------
(* Completion, the public book, crashes                                    *)

\* What the round leaves of the resting orders, and the arriving one's rest.
NextBook(o) ==
    [p \in {q \in DOMAIN Book : Book[q] > Fills(o)[q]} \cup {q \in {o} : Saved("execution", o).left > 0} |->
        IF p = o THEN Saved("execution", o).left ELSE Book[p] - Fills(o)[p]]

\* checked_sub: a fill larger than what the book has is an error.
FitsBook(o) == \A p \in DOMAIN Book : Fills(o)[p] <= Book[p]

CompleteRound(o) ==
    /\ Has("execution", o)
    /\ IF Matched(o) THEN pending = [step |-> "final"] ELSE pending = None
    /\ FitsBook(o)
    /\ Put("done", o, NextBook(o))
    /\ completed' = Append(completed, o)
    /\ pending' = None
    /\ UNCHANGED <<intake, up, published, node, output, ledger, bounds>>

\* reconcile_public_book: at start and after every pump.
Publish ==
    /\ up
    /\ Previous # None
    /\ published # Previous
    /\ published' = Previous
    /\ UNCHANGED <<queue, journal, up, pending, node, output, ledger, bounds>>

\* Mutant: the lock of a crashed process is still held.
StartWorkerLocked ==
    /\ ~up
    /\ faults = 0
    /\ up' = TRUE
    /\ UNCHANGED <<queue, journal, pending, published, node, output, ledger, bounds>>

\* The worker lock admits one process; the system drops it with the process.
StartWorker ==
    /\ ~up
    /\ up' = TRUE
    /\ UNCHANGED <<queue, journal, pending, published, node, output, ledger, bounds>>

CrashWorker ==
    /\ up
    /\ faults < MaxFaults
    /\ up' = FALSE
    /\ pending' = None
    /\ faults' = faults + 1
    /\ UNCHANGED <<queue, journal, published, node, output, ledger, now, others>>

\* Mutant: a restarted node has forgotten the chain.
RestartedUnordered(s, left) == [Abandoned(s, left) EXCEPT !.head = None]

Restarted(s, left) == Abandoned(s, left)

\* What a node killed in a round may leave: the round's directory, its
\* private-state file, or both; no restart removes them.
Leftovers(stage) ==
    {left \in SUBSET {"dir", "file"} :
        /\ stage = "idle" <=> left = {}
        /\ stage = "running" => left = {"dir"}}

RestartNode(n) ==
    /\ faults < MaxFaults
    /\ \E left \in Leftovers(node[n].stage) : node' = [node EXCEPT ![n] = Restarted(node[n], left)]
    /\ faults' = faults + 1
    /\ UNCHANGED <<queue, journal, worker, output, ledger, now, others>>

\* Reservations, claims and transfers of others move the ledger's root.
OtherTransaction ==
    /\ others < MaxOther
    /\ others' = others + 1
    /\ ledger' = [root |-> ledger.root + 1, remaining |-> ledger.remaining,
                  open |-> ledger.open, accepted |-> ledger.accepted]
    /\ UNCHANGED <<queue, journal, worker, node, output, now, faults>>

\* What one pump may do next for the order it works on.
WorkerStep(o) ==
    /\ Pumping(o)
    /\ \/ CollectCertificate(o)
       \/ SignPlan(o)
       \/ CollectExecution(o)
       \/ BeginSigning(o)
       \/ SignFill(o)
       \/ RecordSigned(o)
       \/ SubmitSettlement(o)
       \/ ResubmitSettlement(o)
       \/ RecordSettled(o)
       \/ RecordFinality(o)
       \/ CompleteRound(o)

NodeStep(n) ==
    \/ \E o \in Orders : StartExecute(n, o) \/ ConfirmFinality(n, o) \/ FinalizeNode(n, o)
    \/ RecordCompleted(n)

Next ==
    \/ \E o \in Orders : Accept(o) \/ WorkerStep(o) \/ RunMpc(o)
    \/ \E n \in Nodes : NodeStep(n) \/ ExecuteFails(n) \/ RestartNode(n)
    \/ Publish
    \/ StartWorker
    \/ CrashWorker
    \/ OtherTransaction
    \/ Tick

Spec == Init /\ [][Next]_vars

\* The worker pumps every 250 ms and repeats failed requests, a supervisor
\* restarts it, and the nodes serve.  Time, other transactions, intake and
\* faults need not happen.
Fairness ==
    /\ WF_vars(StartWorker)
    /\ WF_vars(Publish)
    /\ WF_vars(\E o \in Orders : WorkerStep(o))
    /\ WF_vars(\E o \in Orders : RunMpc(o))
    /\ \A n \in Nodes : WF_vars(NodeStep(n))

FairSpec == Spec /\ Fairness

----------------------------------------------------------------------------
(* Properties                                                              *)

HeadOf(o) == IF o = None THEN None ELSE Digest(Saved("certificate", o))

\* A node's chain ends with the certificate the journal has for the last
\* completed order or for the current one, whatever crashes of the worker and
\* of the nodes lie between; so no node is ever left behind or on a fork.
ChainFollowsJournal ==
    \A n \in Nodes :
        \/ node[n].head = HeadOf(Previous)
        \/ Current # None /\ Has("certificate", Current) /\ node[n].head = HeadOf(Current)

\* The ledger accepts at most one set of fills for a round: what was signed is
\* journalled before it is submitted, and an unknown answer is settled by
\* submitting the same fills again.
SettledOnce ==
    \A s, t \in ledger.accepted : s.round = t.round => s = t

\* Until the current round is accepted, every entry of the journal's book has
\* exactly that quantity in an open reservation of the ledger; until a node has
\* finalized the round, its shares of the order add up to the same quantity.
BookIsCanonical ==
    \A p \in DOMAIN Book :
        /\ (\A s \in ledger.accepted : s.round # Current) =>
             p \in ledger.open /\ ledger.remaining[p] = Book[p]
        /\ \A n \in Nodes : Current \notin node[n].finalized => Amount(node[n], p) = Book[p]

\* The MPC of the current order cannot end on every node.
ExecutionLost(o) ==
    \/ ~PlanLive(o)
    \/ \E n \in Nodes : node[n].completed[o] = None /\ \E x \in {"dir", "file"} : <<x, o>> \in node[n].debris
    \/ /\ \E n \in Nodes : node[n].completed[o] # None
       /\ \E n \in Nodes : node[n].completed[o] = None /\ node[n].stage # "finished"

SigningLost(o) == ~PlanLive(o) /\ ~(Holding("signing") /\ pending.left = 0)

SettlementLost(o) ==
    /\ Statement(o, Saved("signed", o)) \notin ledger.accepted
    /\ \/ ledger.root # Saved("signed", o)
       \/ \E p \in Filled(o) \cup {o} : now > Deadline[p]

\* Where the worker can only repeat an error: the order of its stages.
Stalled(o) ==
    \/ ~BookFits
    \/ ~Room
    \/ ~Has("certificate", o) /\ now > Deadline[o]
    \/ Has("certificate", o) /\ ~Has("plan", o) /\ \A expires \in PlanExpiry(o) : now > expires
    \/ Has("plan", o) /\ ~Has("execution", o) /\ ExecutionLost(o)
    \/ Matched(o) /\ ~Has("signed", o) /\ SigningLost(o)
    \/ Has("signed", o) /\ ~Has("settled", o) /\ SettlementLost(o)
    \/ Has("settled", o) /\ ~PlanLive(o) /\ pending # [step |-> "final"]

Blocked == \E o \in {Current} : o # None /\ Stalled(o)

\* No retry, restart or later event revives a stalled round, and nothing after
\* it in the journal is served: the records are first-seen and never replaced.
StallIsFinal == [][Blocked => Blocked' /\ Current' = Current]_vars

\* With finitely many orders acknowledged, all of them are completed or the
\* market stalls for one of the reasons of Stalled; crashes, lost answers and
\* failed parties alone do not stop it.
Progress == Current # None ~> (Current = None \/ Blocked)
=============================================================================
