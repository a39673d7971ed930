----------------------------- MODULE NodeStore -----------------------------
(***************************************************************************)
(* One committee node's durable store (oclob-node/src/lib.rs) behind its   *)
(* request handlers (network.rs): admission of encrypted orders, accepted  *)
(* order certificates, MPC rounds, observed canonical fills, private book  *)
(* heads, and the release (cancellation or expiry) of a reserved order.    *)
(*                                                                         *)
(* A request handler holds the store lock for one read or one update; the  *)
(* execute lock is held over a whole Execute request and taken by the      *)
(* lifecycle requests, so a round is several steps between which the other *)
(* requests run.                                                           *)
(*                                                                         *)
(* Votes and certificate digests are NodeOrdering's subject: here a        *)
(* certificate is available for any commitment this node would accept.     *)
(* Clocks only make a node refuse a request, and any request may be        *)
(* refused or never sent, so no time is kept.                              *)
(***************************************************************************)
EXTENDS FiniteSets

CONSTANTS
    Orders,      \* order commitments; a round is named by its arriving order
    Commands,    \* digests of lifecycle commands
    Target,      \* the order each lifecycle command releases
    Holds,       \* reservation nullifiers
    Hold,        \* the reservation of an order, None for a legacy order
    None

ASSUME NodeStoreAssumption ==
    /\ Target \in [Commands -> Orders]
    /\ Hold \in [Orders -> Holds \cup {None}]
    /\ None \notin Orders \cup Commands \cup Holds
    /\ None \notin [matched : SUBSET Orders, remaining : BOOLEAN]
    /\ Orders \cap Commands = {}

VARIABLES
    memory,      \* the state of the running process
    disk,        \* the state the next process opens
    files,       \* what <work_root>/private-state/<round> holds
    dirs,        \* rounds whose working directory outlived a process
    executing,   \* the Execute request that holds the execute lock
    plans,       \* the coordinator's one signed plan per certificate
    executed,    \* execution receipts returned to the coordinator
    settled,     \* rounds whose fills the canonical ledger accepted
    released     \* commands whose release the canonical ledger accepted

vars == <<memory, disk, files, dirs, executing, plans, executed, settled, released>>
store == <<memory, disk>>
ledger == <<settled, released>>
round == <<files, dirs, executing, plans, executed>>

----------------------------------------------------------------------------

Native(o) == Hold[o] # None

\* What the MPC round opens: which resting orders matched and whether the
\* arriving order keeps a remainder.
Results(resting) == [matched : SUBSET resting, remaining : BOOLEAN]

Receipts ==
    UNION { [resting : {resting}, parent : [resting -> Orders \cup {None}],
             result : Results(resting)] : resting \in SUBSET Orders }

StoreState ==
    [records : SUBSET Orders,
     reservation_claims : [Holds -> Orders \cup {None}],
     ordered_commitments : SUBSET (Orders \cup Commands),
     ordering_head : Orders \cup Commands \cup {None},
     lifecycle : [Commands -> {"absent", "staged", "certified", "final"}],
     completed_rounds : [Orders -> Receipts \cup {None}],
     native_finalities : SUBSET {p \in Orders \X Orders : p[1] # p[2]},
     finalized_private_rounds : SUBSET Orders,
     private_heads : [Orders -> Orders \cup {None}]]

EmptyStore ==
    [records |-> {},
     reservation_claims |-> [h \in Holds |-> None],
     ordered_commitments |-> {},
     ordering_head |-> None,
     lifecycle |-> [c \in Commands |-> "absent"],
     completed_rounds |-> [o \in Orders |-> None],
     native_finalities |-> {},
     finalized_private_rounds |-> {},
     private_heads |-> [o \in Orders |-> None]]

Init ==
    /\ memory = EmptyStore
    /\ disk = EmptyStore
    /\ files = [o \in Orders |-> None]
    /\ dirs = {}
    /\ executing = None
    /\ plans = [o \in Orders |-> None]
    /\ executed = [o \in Orders |-> None]
    /\ settled = {}
    /\ released = {}

\* Every update clones the state, changes it and persists it; a persist error
\* restores the clone.  The error may come before or after the rename, so the
\* file then holds the old or the new state.
Save(next, ok) ==
    IF ok THEN memory' = next /\ disk' = next
          ELSE memory' = memory /\ disk' \in {disk, next}

----------------------------------------------------------------------------
(* What the handlers ask of the store                                      *)

Certified(s, c) == s.lifecycle[c] \in {"certified", "final"}

Matched(s, r) == s.completed_rounds[r] # None /\ s.completed_rounds[r].result.matched # {}

BarrierIgnoresFills(s) == \A c \in Commands : s.lifecycle[c] # "certified"

\* No accepted release awaits its canonical confirmation, and no matched
\* round awaits the finality of its private state.
require_lifecycle_barrier(s) ==
    /\ \A c \in Commands : s.lifecycle[c] # "certified"
    /\ \A r \in Orders : Matched(s, r) => r \in s.finalized_private_rounds

lifecycle_blocks(s, o) == \E c \in Commands : Target[c] = o /\ Certified(s, c)

\* An order needs its record and no ordered release; a command needs its
\* staged entry and the barrier down.
ordering_admission(s, x) ==
    IF x \in Orders
    THEN x \in s.records /\ ~lifecycle_blocks(s, x)
    ELSE s.lifecycle[x] # "absent" /\ require_lifecycle_barrier(s)

\* The heads a round starts from.  The arriving order is part of the digest
\* but its head is not.
private_parent_digest(s, resting) == [o \in resting |-> s.private_heads[o]]

----------------------------------------------------------------------------
(* Admission                                                               *)

\* One reservation admits one order, also after that order is gone.
ClaimFree(s, o) == Native(o) => s.reservation_claims[Hold[o]] \in {None, o}

IngestedState(s, o) ==
    [s EXCEPT !.records = @ \cup {o},
              !.reservation_claims =
                  [h \in Holds |-> IF Native(o) /\ h = Hold[o] THEN o ELSE @[h]]]

\* The admission receipt is signed over the stored record; caching it in the
\* record changes nothing the other handlers read.
Ingest(o) ==
    /\ ~lifecycle_blocks(memory, o)
    /\ ClaimFree(memory, o)
    /\ o \notin memory.records
    /\ \E ok \in BOOLEAN : Save(IngestedState(memory, o), ok)
    /\ UNCHANGED <<round, ledger>>

----------------------------------------------------------------------------
(* Order certificates                                                      *)

\* A new certificate extends the chain with a commitment not ordered before.
Acceptable(s, x) ==
    /\ x \in Orders => require_lifecycle_barrier(s)
    /\ ordering_admission(s, x)
    /\ x \notin s.ordered_commitments

AcceptedState(s, x) ==
    [s EXCEPT !.ordered_commitments = @ \cup {x},
              !.ordering_head = x,
              !.lifecycle = [c \in Commands |-> IF c = x THEN "certified" ELSE @[c]]]

\* A retry of the current head succeeds without a change.
accept_order_certificate(x, ok) ==
    \/ x = memory.ordering_head /\ ok /\ UNCHANGED store
    \/ Acceptable(memory, x) /\ Save(AcceptedState(memory, x), ok)

----------------------------------------------------------------------------
(* An MPC round: one Execute request                                       *)

\* The market's book when it signs the plan of an ordered order: earlier
\* orders that were executed and keep a remainder.
Resting(o) == {p \in Orders \ {o} : executed[p] # None /\ executed[p].result.remaining}

\* The coordinator signs one plan per certificate and resends that plan.
Plan(o, resting) ==
    /\ IF plans[o] = None THEN resting \subseteq Resting(o) ELSE resting = plans[o]
    /\ plans' = [plans EXCEPT ![o] = resting]

ExecuteLockFree == executing = None

Execute(o) ==
    /\ ExecuteLockFree
    /\ \E resting \in SUBSET Orders, ok \in BOOLEAN :
        /\ Plan(o, resting)
        /\ accept_order_certificate(o, ok)
        /\ executing' = IF ok THEN [round |-> o, stage |-> "accepted"] ELSE None
    /\ UNCHANGED <<files, dirs, executed, ledger>>

\* A completed round answers with its stored receipt.
ReturnReceipt ==
    /\ executing # None
    /\ executing.stage = "accepted"
    /\ memory.completed_rounds[executing.round] # None
    /\ executed' = [executed EXCEPT ![executing.round] = memory.completed_rounds[executing.round]]
    /\ executing' = None
    /\ UNCHANGED <<store, files, dirs, plans, ledger>>

Preparable(s, o) ==
    /\ require_lifecycle_barrier(s)
    /\ \A p \in plans[o] \cup {o} : p \in s.records /\ ~lifecycle_blocks(s, p)

\* prepare_round, then the executor's fresh working directory.
PrepareRound ==
    /\ executing # None
    /\ executing.stage = "accepted"
    /\ memory.completed_rounds[executing.round] = None
    /\ Preparable(memory, executing.round)
    /\ executing.round \notin dirs
    /\ executing' = [round |-> executing.round, stage |-> "running",
                     parent |-> private_parent_digest(memory, plans[executing.round])]
    /\ UNCHANGED <<store, files, dirs, plans, executed, ledger>>

FileOverwritten(r) == TRUE

\* retain_private_state creates the round's directory and fails on an
\* existing one.
FileAbsent(r) == files[r] = None

\* The party's program ends: its share of the new book is moved into the
\* private-state directory of the round.
RunMpc ==
    /\ executing # None
    /\ executing.stage = "running"
    /\ FileAbsent(executing.round)
    /\ \E result \in Results(plans[executing.round]) :
        LET receipt == [resting |-> plans[executing.round],
                        parent |-> executing.parent, result |-> result]
        IN /\ files' = [files EXCEPT ![executing.round] = result]
           /\ executing' = [round |-> executing.round, stage |-> "done", receipt |-> receipt]
    /\ UNCHANGED <<store, dirs, plans, executed, ledger>>

CompletedState(s, r, receipt) == [s EXCEPT !.completed_rounds[r] = receipt]

\* The receipt is stored before it is returned.
RecordCompletedRound ==
    /\ executing # None
    /\ executing.stage = "done"
    /\ \E ok \in BOOLEAN :
        /\ Save(CompletedState(memory, executing.round, executing.receipt), ok)
        /\ executed' = IF ok THEN [executed EXCEPT ![executing.round] = executing.receipt]
                             ELSE executed
    /\ executing' = None
    /\ UNCHANGED <<files, dirs, plans, ledger>>

\* A round that cannot be prepared, a replay, a disagreement or a timeout
\* ends the request with an error and removes its working directory.
ExecuteFails ==
    /\ executing # None
    /\ executing.stage \in {"accepted", "running"}
    /\ executing' = None
    /\ UNCHANGED <<store, files, dirs, plans, executed, ledger>>

----------------------------------------------------------------------------
(* Canonical finality and the private book                                 *)

ObservedState(s, r, maker) == [s EXCEPT !.native_finalities = @ \cup {<<r, maker>>}]

\* The node reads the accepted transaction of one matched slot itself.
RecordNativeFinality(r, maker) ==
    /\ memory.completed_rounds[r] # None
    /\ r \in settled
    /\ maker \in memory.completed_rounds[r].result.matched
    /\ <<r, maker>> \notin memory.native_finalities
    /\ r \notin memory.finalized_private_rounds
    /\ \E ok \in BOOLEAN : Save(ObservedState(memory, r, maker), ok)
    /\ UNCHANGED <<round, ledger>>

RoundOrders(s, r) == s.completed_rounds[r].resting \cup {r}

NativeRound(s, r) == \E o \in RoundOrders(s, r) : Native(o)

CompleteWithoutSlots(s, r) ==
    {maker \in Orders : <<r, maker>> \in s.native_finalities}
      = s.completed_rounds[r].result.matched

\* Every matched slot, and at least one, was observed by this node.
require_complete(s, r) ==
    /\ Matched(s, r)
    /\ {maker \in Orders : <<r, maker>> \in s.native_finalities}
         = s.completed_rounds[r].result.matched

ParentCurrent(s, r) ==
    s.completed_rounds[r].parent = private_parent_digest(s, s.completed_rounds[r].resting)

FinalizedState(s, r) ==
    [s EXCEPT !.finalized_private_rounds = @ \cup {r},
              !.private_heads =
                  [o \in Orders |->
                     CASE o \in s.completed_rounds[r].resting -> r
                       [] o = r -> IF s.completed_rounds[r].result.remaining THEN r ELSE None
                       [] OTHER -> @[o]]]

\* A retry of a finalized round returns the stored receipt.
FinalizePrivateRound(r) ==
    /\ executed[r] # None
    /\ memory.completed_rounds[r] # None
    /\ r \notin memory.finalized_private_rounds
    /\ RoundOrders(memory, r) \subseteq memory.records
    /\ NativeRound(memory, r) => require_complete(memory, r)
    /\ ParentCurrent(memory, r)
    /\ files[r] = memory.completed_rounds[r].result
    /\ \E ok \in BOOLEAN : Save(FinalizedState(memory, r), ok)
    /\ UNCHANGED <<round, ledger>>

----------------------------------------------------------------------------
(* Cancellation and expiry                                                 *)

StagedState(s, c) == [s EXCEPT !.lifecycle[c] = "staged"]

StageLifecycle(c) ==
    /\ ExecuteLockFree
    /\ memory.lifecycle[c] = "absent"
    /\ require_lifecycle_barrier(memory)
    /\ ~lifecycle_blocks(memory, Target[c])
    /\ Target[c] \in memory.records \cap memory.ordered_commitments
    /\ Native(Target[c])
    /\ \E ok \in BOOLEAN : Save(StagedState(memory, c), ok)
    /\ UNCHANGED <<round, ledger>>

ApplyLifecycleUnlocked(c) ==
    /\ memory.lifecycle[c] # "absent"
    /\ \E ok \in BOOLEAN : accept_order_certificate(c, ok)
    /\ UNCHANGED <<round, ledger>>

\* An Execute request that carries a command's certificate has the same effect:
\* the certificate is accepted and the round cannot be prepared.
ApplyLifecycle(c) ==
    /\ ExecuteLockFree
    /\ memory.lifecycle[c] # "absent"
    /\ \E ok \in BOOLEAN : accept_order_certificate(c, ok)
    /\ UNCHANGED <<round, ledger>>

ConfirmedKeepsHead(s, c) ==
    [s EXCEPT !.lifecycle[c] = "final", !.records = @ \ {Target[c]}]

ConfirmedState(s, c) ==
    [s EXCEPT !.lifecycle[c] = "final",
              !.records = @ \ {Target[c]},
              !.private_heads[Target[c]] = None]

\* The ledger's current head of the reservation is this command's release.
ConfirmRelease(c) ==
    /\ memory.lifecycle[c] = "certified"
    /\ c \in released
    /\ \E ok \in BOOLEAN : Save(ConfirmedState(memory, c), ok)
    /\ UNCHANGED <<round, ledger>>

----------------------------------------------------------------------------
(* The process and the canonical ledger                                    *)

\* A killed process leaves the working directory of the running round.
Restart ==
    /\ memory' = disk
    /\ dirs' = IF executing # None /\ executing.stage = "running"
               THEN dirs \cup {executing.round} ELSE dirs
    /\ executing' = None
    /\ UNCHANGED <<disk, files, plans, executed, ledger>>

Reserved(o) == \A c \in released : Target[c] # o

\* The ledger applies all fills of a round, or none, to live reservations.
CanonicalSettle(r) ==
    /\ executed[r] # None
    /\ executed[r].result.matched # {}
    /\ r \notin settled
    /\ \A o \in executed[r].result.matched \cup {r} : Native(o) /\ Reserved(o)
    /\ settled' = settled \cup {r}
    /\ UNCHANGED <<store, round, released>>

\* The ledger releases what remains of a live reservation once.
CanonicalRelease(c) ==
    /\ memory.lifecycle[c] = "certified"
    /\ Reserved(Target[c])
    /\ released' = released \cup {c}
    /\ UNCHANGED <<store, round, settled>>

RoundStep ==
    \/ ReturnReceipt
    \/ PrepareRound
    \/ RunMpc
    \/ RecordCompletedRound
    \/ ExecuteFails

Next ==
    \/ \E o \in Orders :
        \/ Ingest(o)
        \/ Execute(o)
        \/ FinalizePrivateRound(o)
        \/ CanonicalSettle(o)
        \/ \E maker \in Orders : RecordNativeFinality(o, maker)
    \/ \E c \in Commands :
        \/ StageLifecycle(c)
        \/ ApplyLifecycle(c)
        \/ ConfirmRelease(c)
        \/ CanonicalRelease(c)
    \/ RoundStep
    \/ Restart

Spec == Init /\ [][Next]_vars

----------------------------------------------------------------------------
(* Properties                                                              *)

\* read_state's consistency checks.
Readable(s) ==
    /\ (s.ordered_commitments = {}) <=> (s.ordering_head = None)
    /\ \A c \in Commands :
        /\ Certified(s, c) <=> c \in s.ordered_commitments
        /\ s.lifecycle[c] = "final" =>
            Target[c] \notin s.records /\ s.private_heads[Target[c]] = None
    /\ \A o \in Orders : s.private_heads[o] # None =>
        /\ o \in s.records
        /\ s.completed_rounds[s.private_heads[o]] # None
        /\ s.private_heads[o] \in s.finalized_private_rounds
    /\ \A p \in s.native_finalities :
        s.completed_rounds[p[1]] # None /\ p[2] \in s.completed_rounds[p[1]].result.matched
    /\ \A r \in s.finalized_private_rounds :
        /\ s.completed_rounds[r] # None
        /\ NativeRound(s, r) => require_complete(s, r)

\* A node that stops at any moment can start again: read_state accepts
\* whatever file a crash or a failed persist left.
StoreReadable == Readable(disk)

\* "Persist the signed public receipt before acknowledging the coordinator":
\* a receipt once returned is the receipt every later process returns, and
\* whatever was retried, a stored receipt describes the private-state file that
\* the heads of its round point into.
ReceiptDurable ==
    /\ \A r \in Orders : executed[r] # None =>
        /\ memory.completed_rounds[r] = executed[r]
        /\ disk.completed_rounds[r] = executed[r]
    /\ \A s \in {memory, disk}, r \in Orders :
        s.completed_rounds[r] # None => files[r] = s.completed_rounds[r].result

\* A release never overtakes a fill: while a matched round awaits the ledger,
\* every reservation it fills from is live, so the ledger can still settle it.
NoStrandedFill ==
    \A s \in {memory, disk}, r \in Orders :
        Matched(s, r) /\ r \notin settled =>
            \A o \in s.completed_rounds[r].result.matched \cup {r} : Reserved(o)

Finalizable(s, r) == RoundOrders(s, r) \subseteq s.records /\ ParentCurrent(s, r)

\* A matched round of reserved orders that awaits finality can still be
\* finalized: its orders are stored and the heads it was computed from are the
\* current heads.  (A round of orders without reservations is finalized
\* without settlement, and may be while another round runs.)
MatchedRoundFinalizable ==
    \A r \in Orders :
        /\ Matched(memory, r) /\ r \notin memory.finalized_private_rounds
        /\ \A o \in RoundOrders(memory, r) : Native(o)
        => Finalizable(memory, r)

\* The node keeps the encrypted order of an ordered release until it has
\* read the release's finality from the ledger (NATIVE_LIFECYCLE_JA.md).
PendingReleaseKeepsRecord ==
    \A c \in Commands : memory.lifecycle[c] = "certified" => Target[c] \in memory.records

HeadsFromParents(s, t) ==
    \A r \in t.finalized_private_rounds \ s.finalized_private_rounds, o \in Orders :
        NativeRound(t, r) /\ t.private_heads[o] # s.private_heads[o] =>
            s.private_heads[o] = IF o = r THEN None ELSE t.completed_rounds[r].parent[o]

\* "It prevents a delayed finalization from overwriting a newer head": by a
\* round with reserved orders a head moves only from the head that round was
\* computed from; the arriving order of a round had none.
HeadsAdvanceFromParents == [][HeadsFromParents(memory, memory')]_vars
=============================================================================
