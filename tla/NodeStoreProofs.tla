--------------------------- MODULE NodeStoreProofs ---------------------------
(***************************************************************************)
(* Proofs about NodeStore, for any orders, reservations and release        *)
(* commands.  A request handler computes its next state from the memory,   *)
(* and the file holds the memory or what one failed save has written, so   *)
(* the inductive invariant speaks of either copy of the state (SoundState, *)
(* Durable), of the two together (Ahead) and of the Execute request under  *)
(* way (ExecuteSound).  First, each handler's next state may be saved;     *)
(* then saving, crashing and the Execute request keep the invariant.       *)
(***************************************************************************)
EXTENDS NodeStore, TLAPS

Rounds(s) == {r \in Orders : s.completed_rounds[r] # None}

AnyResult == [matched : SUBSET Orders, remaining : BOOLEAN]

\* A round takes orders that were executed before it, none of which awaits
\* its finality.
RestingSettled(s) ==
    \A r \in Rounds(s) :
        /\ r \notin s.completed_rounds[r].resting
        /\ \A o \in s.completed_rounds[r].resting :
            o \in Rounds(s) /\ (Matched(s, o) => o \in s.finalized_private_rounds)

Pending(s) == {r \in Orders : Matched(s, r) /\ r \notin s.finalized_private_rounds}

\* What holds of the state in memory and of the state on disk.
SoundState(s) ==
    /\ s \in StoreState
    /\ Readable(s)
    /\ RestingSettled(s)
    /\ \A c \in Commands : s.lifecycle[c] # "absent" => Native(Target[c])
    /\ \A c \in Commands : s.lifecycle[c] = "certified" => Pending(s) = {}
    /\ \A q, r \in Pending(s) : q = r
    /\ \A r \in Pending(s) : (\A o \in RoundOrders(s, r) : Native(o)) => Finalizable(s, r)
    /\ \A o \in Orders : s.private_heads[o] # None => o \in RoundOrders(s, s.private_heads[o])

\* What a copy of the state has in common with files, coordinator and ledger.
Durable(s) ==
    /\ \A r \in Orders : executed[r] # None => s.completed_rounds[r] = executed[r]
    /\ \A r \in Rounds(s) : files[r] = s.completed_rounds[r].result
    /\ \A p \in s.native_finalities : p[1] \in settled
    /\ \A c \in released : Certified(s, c)

\* t is s, or one save ahead of it.
Ahead(s, t) ==
    /\ t.completed_rounds = s.completed_rounds \/ t.lifecycle = s.lifecycle
    /\ \A r \in Rounds(s) : t.completed_rounds[r] = s.completed_rounds[r]
    /\ \A c \in Commands : Certified(s, c) => Certified(t, c)
    /\ HeadsFromParents(s, t)

\* The plan of a round names executed orders, and not the arriving one.
Planned(o) ==
    /\ plans[o] \subseteq Orders \ {o}
    /\ \A p \in plans[o] : executed[p] # None

PlansSound == \A o \in Orders : plans[o] # None => Planned(o)

ParentKept(r, parent) ==
    /\ parent \in [plans[r] -> Orders \cup {None}]
    /\ (\A o \in plans[r] \cup {r} : Native(o)) => parent = private_parent_digest(memory, plans[r])

\* From prepare_round on the round is unknown, the barrier stays down and its
\* orders stay stored, live and unchanged.
ExecuteSound ==
    executing # None =>
        /\ executing.round \in Orders
        /\ executing.stage \in {"accepted", "running", "done"}
        /\ Planned(executing.round)
        /\ executing.stage \in {"running", "done"} =>
            /\ memory.completed_rounds[executing.round] = None
            /\ Preparable(memory, executing.round)
        /\ executing.stage = "running" => ParentKept(executing.round, executing.parent)
        /\ executing.stage = "done" =>
            /\ executing.receipt \in Receipts
            /\ executing.receipt.resting = plans[executing.round]
            /\ executing.receipt.result = files[executing.round]
            /\ ParentKept(executing.round, executing.receipt.parent)

Typed ==
    /\ files \in [Orders -> AnyResult \cup {None}]
    /\ plans \in [Orders -> (SUBSET Orders) \cup {None}]
    /\ executed \in [Orders -> Receipts \cup {None}]
    /\ settled \subseteq Orders
    /\ released \subseteq Commands

\* t may be saved in place of s.
Saves(s, t) == SoundState(t) /\ Durable(t) /\ Ahead(s, t)

IInv ==
    /\ Typed
    /\ SoundState(memory) /\ SoundState(disk)
    /\ Durable(memory) /\ Durable(disk)
    /\ Ahead(memory, disk)
    /\ PlansSound
    /\ ExecuteSound

----------------------------------------------------------------------------
(* The states the handlers compute                                         *)

\* Ingest: an order that no ordered release blocks is stored.
LEMMA IngestSound ==
    ASSUME NEW s, SoundState(s), Durable(s), NEW o \in Orders, ~lifecycle_blocks(s, o)
    PROVE  Saves(s, IngestedState(s, o))
<1> DEFINE t == IngestedState(s, o)
<1>1. /\ t \in StoreState
      /\ t.records = s.records \cup {o}
      /\ t.ordered_commitments = s.ordered_commitments /\ t.ordering_head = s.ordering_head
      /\ t.lifecycle = s.lifecycle /\ t.completed_rounds = s.completed_rounds
      /\ t.native_finalities = s.native_finalities /\ t.private_heads = s.private_heads
      /\ t.finalized_private_rounds = s.finalized_private_rounds
  BY Zenon, NodeStoreAssumption DEF SoundState, StoreState, IngestedState, Native
<1> HIDE DEF t
<1>2. Readable(t)
  BY <1>1 DEF SoundState, Readable, Certified, lifecycle_blocks, NativeRound, RoundOrders,
              require_complete, Matched
<1>3. RestingSettled(t) /\ Pending(t) = Pending(s)
  BY Zenon, <1>1 DEF SoundState, RestingSettled, Rounds, Matched, Pending
<1>4. \A r \in Orders : RoundOrders(t, r) = RoundOrders(s, r) /\ (Finalizable(s, r) => Finalizable(t, r))
  BY Zenon, <1>1 DEF RoundOrders, Finalizable, ParentCurrent, private_parent_digest
<1>5. SoundState(t)
  BY <1>1, <1>2, <1>3, <1>4 DEF SoundState, Pending, StoreState
<1>6. Ahead(s, t)
  BY Zenon, <1>1 DEF Ahead, HeadsFromParents, Certified, Rounds
<1>7. Durable(t)
  BY Zenon, <1>1 DEF Durable, Certified, Rounds
<1> QED  BY <1>5, <1>6, <1>7 DEF t, Saves

\* accept_order_certificate: a command takes effect with the barrier down.
LEMMA AcceptSound ==
    ASSUME Typed, NEW s, SoundState(s), Durable(s), NEW x \in Orders \cup Commands, Acceptable(s, x)
    PROVE  Saves(s, AcceptedState(s, x))
<1> DEFINE t == AcceptedState(s, x)
<1>1. /\ t \in StoreState
      /\ t.ordered_commitments = s.ordered_commitments \cup {x} /\ t.ordering_head = x
      /\ t.lifecycle = [c \in Commands |-> IF c = x THEN "certified" ELSE s.lifecycle[c]]
      /\ t.records = s.records /\ t.completed_rounds = s.completed_rounds
      /\ t.native_finalities = s.native_finalities /\ t.private_heads = s.private_heads
      /\ t.finalized_private_rounds = s.finalized_private_rounds
  BY Zenon DEF SoundState, StoreState, AcceptedState
<1> HIDE DEF t
<1>2. x # None /\ (x \in Commands => s.lifecycle[x] = "staged" /\ x \notin s.ordered_commitments)
  BY Zenon, NodeStoreAssumption DEF SoundState, StoreState, Readable, Certified, Acceptable,
                             ordering_admission
<1>3. \A c \in Commands : c # x => t.lifecycle[c] = s.lifecycle[c]
  BY Zenon, <1>1
<1>4. x \in Commands => t.lifecycle[x] = "certified" /\ Pending(s) = {}
  BY Zenon, <1>1, NodeStoreAssumption DEF Acceptable, ordering_admission, require_lifecycle_barrier, Pending
<1>5. Readable(t)
  <2>1. \A c \in Commands : Certified(t, c) <=> c \in t.ordered_commitments
    BY Zenon, <1>1, <1>2, <1>3, <1>4 DEF SoundState, Readable, Certified
  <2>2. \A c \in Commands : t.lifecycle[c] = "final" => s.lifecycle[c] = "final"
    BY Zenon, <1>3, <1>4
  <2> QED  BY <1>1, <1>2, <2>1, <2>2 DEF SoundState, Readable, NativeRound, RoundOrders,
                                         require_complete, Matched
<1>6. RestingSettled(t) /\ Pending(t) = Pending(s)
  BY <1>1 DEF SoundState, RestingSettled, Rounds, Matched, Pending
<1>7. \A r \in Orders : RoundOrders(t, r) = RoundOrders(s, r) /\ (Finalizable(s, r) => Finalizable(t, r))
  BY Zenon, <1>1 DEF RoundOrders, Finalizable, ParentCurrent, private_parent_digest
<1>8. \A c \in Commands : t.lifecycle[c] # "absent" => Native(Target[c])
  BY Zenon, <1>2, <1>3 DEF SoundState
<1>9. SoundState(t)
  BY <1>1, <1>3, <1>4, <1>5, <1>6, <1>7, <1>8 DEF SoundState, Pending, StoreState
<1>10. \A c \in Commands : Certified(s, c) => Certified(t, c)
  BY Zenon, <1>1, <1>3, <1>4 DEF Certified
<1>11. Ahead(s, t)
  BY Zenon, <1>1, <1>10 DEF Ahead, HeadsFromParents, Rounds
<1>12. Durable(t)
  BY Zenon, <1>1, <1>10 DEF Durable, Rounds, Typed
<1> QED  BY <1>9, <1>11, <1>12 DEF t, Saves

\* stage_lifecycle: only a reserved order is released.
LEMMA StageSound ==
    ASSUME NEW s, SoundState(s), Durable(s), NEW c \in Commands,
           s.lifecycle[c] = "absent", Native(Target[c])
    PROVE  Saves(s, StagedState(s, c))
<1> DEFINE t == StagedState(s, c)
<1>1. /\ t \in StoreState
      /\ t.ordered_commitments = s.ordered_commitments /\ t.ordering_head = s.ordering_head
      /\ t.lifecycle = [s.lifecycle EXCEPT ![c] = "staged"]
      /\ t.records = s.records /\ t.completed_rounds = s.completed_rounds
      /\ t.native_finalities = s.native_finalities /\ t.private_heads = s.private_heads
      /\ t.finalized_private_rounds = s.finalized_private_rounds
  BY Zenon DEF SoundState, StoreState, StagedState
<1> HIDE DEF t
<1>2. s.lifecycle \in [Commands -> {"absent", "staged", "certified", "final"}]
  BY Zenon DEF SoundState, StoreState
<1>3. t.lifecycle[c] = "staged" /\ \A d \in Commands \ {c} : t.lifecycle[d] = s.lifecycle[d]
  BY Zenon, <1>1, <1>2
<1>4. \A d \in Commands : Certified(t, d) <=> Certified(s, d)
  BY Zenon, <1>3 DEF Certified
<1>5. Readable(t)
  BY <1>1, <1>3, <1>4 DEF SoundState, Readable, NativeRound, RoundOrders, require_complete, Matched
<1>6. RestingSettled(t) /\ Pending(t) = Pending(s)
  BY Zenon, <1>1 DEF SoundState, RestingSettled, Rounds, Matched, Pending
<1>7. \A r \in Orders : RoundOrders(t, r) = RoundOrders(s, r) /\ (Finalizable(s, r) => Finalizable(t, r))
  BY Zenon, <1>1 DEF RoundOrders, Finalizable, ParentCurrent, private_parent_digest
<1>8. SoundState(t)
  BY <1>1, <1>3, <1>5, <1>6, <1>7 DEF SoundState, Pending, StoreState
<1>9. Ahead(s, t)
  BY Zenon, <1>1, <1>4 DEF Ahead, HeadsFromParents, Rounds
<1>10. Durable(t)
  BY <1>1, <1>4 DEF Durable, Certified, Rounds
<1> QED  BY <1>8, <1>9, <1>10 DEF t, Saves

\* confirm_release: no round awaits its finality when a release is certified.
LEMMA ConfirmSound ==
    ASSUME NEW s, SoundState(s), Durable(s), NEW c \in Commands, s.lifecycle[c] = "certified"
    PROVE  Saves(s, ConfirmedState(s, c))
<1> DEFINE t == ConfirmedState(s, c)
<1>1. /\ t \in StoreState
      /\ t.ordered_commitments = s.ordered_commitments /\ t.ordering_head = s.ordering_head
      /\ t.lifecycle = [s.lifecycle EXCEPT ![c] = "final"]
      /\ t.records = s.records \ {Target[c]} /\ t.completed_rounds = s.completed_rounds
      /\ t.native_finalities = s.native_finalities
      /\ t.private_heads = [s.private_heads EXCEPT ![Target[c]] = None]
      /\ t.finalized_private_rounds = s.finalized_private_rounds
  BY Zenon, NodeStoreAssumption DEF SoundState, StoreState, ConfirmedState
<1> HIDE DEF t
<1>2. /\ s.lifecycle \in [Commands -> {"absent", "staged", "certified", "final"}]
      /\ s.private_heads \in [Orders -> Orders \cup {None}] /\ Target[c] \in Orders
  BY Zenon, NodeStoreAssumption DEF SoundState, StoreState
<1>3. t.lifecycle[c] = "final" /\ \A d \in Commands \ {c} : t.lifecycle[d] = s.lifecycle[d]
  BY Zenon, <1>1, <1>2
<1>4. /\ t.private_heads[Target[c]] = None
      /\ \A o \in Orders \ {Target[c]} : t.private_heads[o] = s.private_heads[o]
  BY Zenon, <1>1, <1>2
<1>5. \A d \in Commands : Certified(t, d) <=> Certified(s, d)
  BY Zenon, <1>3 DEF Certified
<1>6. Readable(t)
  <2>1. \A d \in Commands : t.lifecycle[d] = "final" =>
            Target[d] \notin t.records /\ t.private_heads[Target[d]] = None
    BY <1>1, <1>3, <1>4, NodeStoreAssumption DEF SoundState, Readable
  <2>2. \A o \in Orders : t.private_heads[o] # None =>
          /\ o \in t.records
          /\ t.completed_rounds[t.private_heads[o]] # None
          /\ t.private_heads[o] \in t.finalized_private_rounds
    BY <1>1, <1>4 DEF SoundState, Readable
  <2> QED  BY <1>1, <1>5, <2>1, <2>2 DEF SoundState, Readable, NativeRound, RoundOrders,
                                         require_complete, Matched
<1>7. RestingSettled(t) /\ Pending(t) = Pending(s) /\ Pending(s) = {}
  BY Zenon, <1>1 DEF SoundState, RestingSettled, Rounds, Matched, Pending
<1>8. \A r \in Orders : RoundOrders(t, r) = RoundOrders(s, r)
  BY Zenon, <1>1 DEF RoundOrders
<1>9. \A o \in Orders : t.private_heads[o] # None => o \in RoundOrders(t, t.private_heads[o])
  BY <1>1, <1>2, <1>4, <1>8 DEF SoundState
<1>10. \A d \in Commands : t.lifecycle[d] # "absent" => Native(Target[d])
  BY Zenon, <1>3 DEF SoundState
<1>11. SoundState(t)
  BY Zenon, <1>1, <1>6, <1>7, <1>9, <1>10 DEF SoundState
<1>12. Ahead(s, t)
  BY Zenon, <1>1, <1>5 DEF Ahead, HeadsFromParents, Rounds
<1>13. Durable(t)
  BY <1>1, <1>5 DEF Durable, Certified, Rounds
<1> QED  BY <1>11, <1>12, <1>13 DEF t, Saves

\* record_native_finality: the fill of a completed, unfinalized round.
LEMMA ObserveSound ==
    ASSUME NEW s, SoundState(s), Durable(s), NEW r \in Rounds(s), NEW maker \in Orders,
           r \in settled, maker \in s.completed_rounds[r].result.matched,
           r \notin s.finalized_private_rounds
    PROVE  Saves(s, ObservedState(s, r, maker))
<1> DEFINE t == ObservedState(s, r, maker)
<1>1. r \in Orders /\ s.completed_rounds[r] \in Receipts /\ r # maker
  <2>1. r \in Orders /\ s.completed_rounds[r] \in Receipts
    BY Zenon DEF SoundState, StoreState, Rounds
  <2>2. maker \in s.completed_rounds[r].resting
    BY <2>1 DEF Receipts, Results
  <2> QED  BY <2>1, <2>2 DEF SoundState, RestingSettled
<1>2. /\ t \in StoreState
      /\ t.ordered_commitments = s.ordered_commitments /\ t.ordering_head = s.ordering_head
      /\ t.lifecycle = s.lifecycle
      /\ t.records = s.records /\ t.completed_rounds = s.completed_rounds
      /\ t.native_finalities = s.native_finalities \cup {<<r, maker>>}
      /\ t.private_heads = s.private_heads
      /\ t.finalized_private_rounds = s.finalized_private_rounds
  BY <1>1 DEF SoundState, StoreState, ObservedState
<1> HIDE DEF t
<1>3. Readable(t)
  <2>1. \A p \in t.native_finalities :
          t.completed_rounds[p[1]] # None /\ p[2] \in t.completed_rounds[p[1]].result.matched
    BY <1>2 DEF SoundState, Readable, Rounds
  <2>2. \A q \in t.finalized_private_rounds :
          /\ t.completed_rounds[q] # None
          /\ NativeRound(t, q) => require_complete(t, q)
    <3> SUFFICES ASSUME NEW q \in t.finalized_private_rounds
                 PROVE  /\ t.completed_rounds[q] # None
                        /\ NativeRound(t, q) => require_complete(t, q)
      OBVIOUS
    <3>1. q # r /\ q \in s.finalized_private_rounds
      BY Zenon, <1>2
    <3>2. \A m \in Orders : <<q, m>> \in t.native_finalities <=> <<q, m>> \in s.native_finalities
      BY Zenon, <1>2, <3>1
    <3> QED  BY <1>2, <3>1, <3>2 DEF SoundState, Readable, NativeRound, RoundOrders,
                                     require_complete, Matched
  <2> QED  BY <1>2, <2>1, <2>2 DEF SoundState, Readable, Certified
<1>4. RestingSettled(t) /\ Pending(t) = Pending(s)
  BY Zenon, <1>2 DEF SoundState, RestingSettled, Rounds, Matched, Pending
<1>5. \A q \in Orders : RoundOrders(t, q) = RoundOrders(s, q) /\ (Finalizable(s, q) => Finalizable(t, q))
  BY Zenon, <1>2 DEF RoundOrders, Finalizable, ParentCurrent, private_parent_digest
<1>6. SoundState(t)
  BY <1>2, <1>3, <1>4, <1>5 DEF SoundState, Pending, StoreState
<1>7. Ahead(s, t)
  BY Zenon, <1>2 DEF Ahead, HeadsFromParents, Rounds, Certified
<1>8. Durable(t)
  BY <1>2 DEF Durable, Certified, Rounds
<1> QED  BY <1>6, <1>7, <1>8 DEF t, Saves

\* A finalized round with reserved orders has settled.
LEMMA FinalizedSettled ==
    ASSUME NEW s, SoundState(s), Durable(s), NEW r \in Orders, Matched(s, r),
           r \in s.finalized_private_rounds, NativeRound(s, r)
    PROVE  r \in settled
<1>1. require_complete(s, r)
  BY Zenon DEF SoundState, Readable
<1>2. PICK maker \in Orders : <<r, maker>> \in s.native_finalities
  BY Zenon, <1>1 DEF require_complete, Matched
<1> QED  BY <1>2 DEF Durable

\* finalize_private_round: the heads of the round's orders move to it.
LEMMA FinalizeSound ==
    ASSUME NEW s, SoundState(s), Durable(s), NEW r \in Rounds(s),
           r \notin s.finalized_private_rounds, RoundOrders(s, r) \subseteq s.records,
           NativeRound(s, r) => require_complete(s, r), ParentCurrent(s, r)
    PROVE  Saves(s, FinalizedState(s, r))
<1> DEFINE t == FinalizedState(s, r)
           resting == s.completed_rounds[r].resting
<1>1. /\ r \in Orders /\ r \notin resting /\ resting \subseteq Orders
      /\ s.private_heads \in [Orders -> Orders \cup {None}]
  BY Zenon DEF SoundState, StoreState, Rounds, RestingSettled, Receipts
<1>2. /\ t \in StoreState
      /\ t.ordered_commitments = s.ordered_commitments /\ t.ordering_head = s.ordering_head
      /\ t.lifecycle = s.lifecycle
      /\ t.records = s.records /\ t.completed_rounds = s.completed_rounds
      /\ t.native_finalities = s.native_finalities
      /\ t.private_heads = [o \in Orders |->
            CASE o \in resting -> r
              [] o = r -> IF s.completed_rounds[r].result.remaining THEN r ELSE None
              [] OTHER -> s.private_heads[o]]
      /\ t.finalized_private_rounds = s.finalized_private_rounds \cup {r}
  BY Zenon, <1>1 DEF SoundState, StoreState, FinalizedState
<1> HIDE DEF t, resting
<1>3. /\ \A o \in resting : t.private_heads[o] = r
      /\ t.private_heads[r] \in {r, None}
      /\ \A o \in Orders \ (resting \cup {r}) : t.private_heads[o] = s.private_heads[o]
      /\ RoundOrders(s, r) = resting \cup {r}
  BY Zenon, <1>1, <1>2 DEF RoundOrders, resting
<1>4. \A q \in Orders : RoundOrders(t, q) = RoundOrders(s, q) /\ (Matched(t, q) <=> Matched(s, q))
  BY Zenon, <1>2 DEF RoundOrders, Matched
<1>5. Pending(t) = Pending(s) \ {r} /\ Rounds(t) = Rounds(s)
  BY Zenon, <1>2, <1>4 DEF Pending, Rounds
<1>6. Readable(t)
  <2>1. \A c \in Commands : t.lifecycle[c] = "final" =>
            Target[c] \notin t.records /\ t.private_heads[Target[c]] = None
    BY <1>2, <1>3, NodeStoreAssumption DEF SoundState, Readable
  <2>2. \A o \in Orders : t.private_heads[o] # None =>
          /\ o \in t.records
          /\ t.completed_rounds[t.private_heads[o]] # None
          /\ t.private_heads[o] \in t.finalized_private_rounds
    BY <1>1, <1>2, <1>3 DEF SoundState, Readable, Rounds
  <2>3. \A q \in t.finalized_private_rounds :
          /\ t.completed_rounds[q] # None
          /\ NativeRound(t, q) => require_complete(t, q)
    BY <1>2 DEF SoundState, Readable, Rounds, NativeRound, RoundOrders, require_complete, Matched
  <2> QED  BY <1>2, <2>1, <2>2, <2>3 DEF SoundState, Readable, Certified
<1>7. RestingSettled(t)
  <2> SUFFICES ASSUME NEW q \in Rounds(s)
               PROVE  /\ q \notin t.completed_rounds[q].resting
                      /\ \A o \in t.completed_rounds[q].resting :
                          o \in Rounds(s) /\ (Matched(t, o) => o \in t.finalized_private_rounds)
    BY Zenon, <1>5 DEF RestingSettled
  <2>1. s.completed_rounds[q].resting \subseteq Orders
    BY DEF SoundState, StoreState, Rounds, Receipts
  <2> QED  BY <1>2, <1>4, <2>1 DEF SoundState, RestingSettled
<1>8. ASSUME NEW q \in Pending(t), \A o \in RoundOrders(t, q) : Native(o)
      PROVE  Finalizable(t, q)
  <2>1. q \in Pending(s) /\ q # r /\ q \in Orders /\ RoundOrders(t, q) = RoundOrders(s, q)
    BY Zenon, <1>4, <1>5 DEF Pending
  <2>2. Finalizable(s, q)
    BY Zenon, <1>8, <2>1 DEF SoundState
  <2>3. ~Matched(s, r)
    BY Zenon, <1>1, <2>1 DEF SoundState, Pending
  <2>4. \A o \in RoundOrders(s, r) : ~Native(o)
    BY Zenon, <2>3 DEF require_complete, NativeRound
  <2>5. \A o \in s.completed_rounds[q].resting :
          o \in Orders /\ t.private_heads[o] = s.private_heads[o]
    <3>1. s.completed_rounds[q].resting \subseteq Orders
      BY <2>1 DEF SoundState, StoreState, Pending, Matched, Receipts
    <3> QED  BY SMTT(30), <1>3, <1>8, <2>1, <2>4, <3>1 DEF RoundOrders
  <2> QED  BY <1>2, <2>1, <2>2, <2>5 DEF Finalizable, ParentCurrent, private_parent_digest, RoundOrders
<1>9. \A o \in Orders : t.private_heads[o] # None => o \in RoundOrders(t, t.private_heads[o])
  <2> SUFFICES ASSUME NEW o \in Orders, t.private_heads[o] # None
               PROVE  o \in RoundOrders(t, t.private_heads[o])
    OBVIOUS
  <2>1. CASE o \in resting \cup {r}
    BY Zenon, <1>1, <1>3, <1>4, <2>1
  <2>2. CASE o \notin resting \cup {r}
    BY Zenon, <1>1, <1>3, <1>4, <2>2 DEF SoundState
  <2> QED  BY <2>1, <2>2
<1>10. SoundState(t)
  BY Zenon, <1>2, <1>5, <1>6, <1>7, <1>8, <1>9 DEF SoundState
<1>11. HeadsFromParents(s, t)
  <2> SUFFICES ASSUME NativeRound(t, r), NEW o \in Orders, t.private_heads[o] # s.private_heads[o]
               PROVE  s.private_heads[o] = IF o = r THEN None ELSE t.completed_rounds[r].parent[o]
    BY Zenon, <1>2 DEF HeadsFromParents
  <2>1. CASE o = r
    <3>1. Matched(s, r)
      BY Zenon, <1>2 DEF require_complete, NativeRound, RoundOrders
    <3>2. ASSUME s.private_heads[r] # None PROVE FALSE
      <4>1. PICK q \in Orders : q = s.private_heads[r]
        BY Zenon, <1>1, <3>2
      <4>2. q \in Rounds(s) /\ q \in s.finalized_private_rounds /\ r \in RoundOrders(s, q)
        BY Zenon, <1>1, <3>2, <4>1 DEF SoundState, Readable, Rounds
      <4>3. r \in s.completed_rounds[q].resting
        BY Zenon, <4>2 DEF RoundOrders
      <4> QED  BY <3>1, <4>2, <4>3 DEF SoundState, RestingSettled
    <3> QED  BY <2>1, <3>2
  <2>2. CASE o # r
    BY <1>2, <1>3, <2>2 DEF ParentCurrent, private_parent_digest, resting
  <2> QED  BY <2>1, <2>2
<1>12. Ahead(s, t)
  BY Zenon, <1>2, <1>11 DEF Ahead, Rounds, Certified
<1>13. Durable(t)
  BY <1>2 DEF Durable, Certified, Rounds
<1> QED  BY <1>10, <1>12, <1>13 DEF t, Saves

\* record_completed_round: with the barrier down, over stored orders.
LEMMA CompleteSound ==
    ASSUME NEW s, SoundState(s), Durable(s), NEW r \in Orders, s.completed_rounds[r] = None,
           require_lifecycle_barrier(s), NEW receipt \in Receipts,
           r \notin receipt.resting, receipt.resting \subseteq Rounds(s),
           receipt.resting \cup {r} \subseteq s.records, receipt.result = files[r],
           (\A o \in receipt.resting \cup {r} : Native(o))
             => receipt.parent = private_parent_digest(s, receipt.resting)
    PROVE  Saves(s, CompletedState(s, r, receipt))
<1> DEFINE t == CompletedState(s, r, receipt)
<1>1. /\ t \in StoreState
      /\ t.ordered_commitments = s.ordered_commitments /\ t.ordering_head = s.ordering_head
      /\ t.lifecycle = s.lifecycle /\ t.records = s.records
      /\ t.completed_rounds = [s.completed_rounds EXCEPT ![r] = receipt]
      /\ t.native_finalities = s.native_finalities /\ t.private_heads = s.private_heads
      /\ t.finalized_private_rounds = s.finalized_private_rounds
  BY Zenon DEF SoundState, StoreState, CompletedState
<1> HIDE DEF t
<1>2. /\ s.completed_rounds \in [Orders -> Receipts \cup {None}]
      /\ s.finalized_private_rounds \subseteq Orders
      /\ s.native_finalities \subseteq Orders \X Orders
      /\ s.private_heads \in [Orders -> Orders \cup {None}]
  BY Zenon DEF SoundState, StoreState
<1>3. /\ t.completed_rounds[r] = receipt
      /\ \A q \in Orders \ {r} : t.completed_rounds[q] = s.completed_rounds[q]
      /\ Rounds(s) \subseteq Rounds(t) \ {r} /\ Rounds(t) \subseteq Rounds(s) \cup {r}
  BY Zenon, <1>1, <1>2 DEF Rounds
<1>4. \A q \in Orders \ {r} : /\ RoundOrders(t, q) = RoundOrders(s, q)
                              /\ Matched(t, q) <=> Matched(s, q)
  BY Zenon, <1>3 DEF RoundOrders, Matched
<1>5. Pending(s) = {} /\ \A c \in Commands : s.lifecycle[c] # "certified"
  BY Zenon DEF Pending, require_lifecycle_barrier
<1>6. Pending(t) \subseteq {r}
  BY Zenon, <1>1, <1>4, <1>5 DEF Pending
<1>7. Readable(t)
  <2>1. \A o \in Orders : t.private_heads[o] # None =>
          /\ o \in t.records
          /\ t.completed_rounds[t.private_heads[o]] # None
          /\ t.private_heads[o] \in t.finalized_private_rounds
    BY SMTT(30), <1>1, <1>2, <1>3 DEF SoundState, Readable
  <2>2. \A p \in t.native_finalities :
          t.completed_rounds[p[1]] # None /\ p[2] \in t.completed_rounds[p[1]].result.matched
    BY SMTT(30), <1>1, <1>2, <1>3 DEF SoundState, Readable
  <2>3. ASSUME NEW q \in t.finalized_private_rounds
        PROVE  t.completed_rounds[q] # None /\ (NativeRound(t, q) => require_complete(t, q))
    <3>1. /\ q \in Orders /\ s.completed_rounds[q] # None
          /\ NativeRound(s, q) => require_complete(s, q)
      BY Zenon, <1>1, <1>2 DEF SoundState, Readable
    <3>2. q # r /\ t.completed_rounds[q] = s.completed_rounds[q]
      BY Zenon, <1>3, <3>1
    <3>3. NativeRound(t, q) => NativeRound(s, q)
      BY Zenon, <1>4, <3>1, <3>2 DEF NativeRound
    <3>4. require_complete(s, q) => require_complete(t, q)
      BY Zenon, <1>1, <1>4, <3>1, <3>2 DEF require_complete
    <3> QED  BY <3>1, <3>2, <3>3, <3>4
  <2>4. /\ (t.ordered_commitments = {}) <=> (t.ordering_head = None)
        /\ \A c \in Commands :
             /\ Certified(t, c) <=> c \in t.ordered_commitments
             /\ t.lifecycle[c] = "final" => Target[c] \notin t.records /\ t.private_heads[Target[c]] = None
    BY <1>1 DEF SoundState, Readable, Certified
  <2> QED  BY Zenon, <2>1, <2>2, <2>3, <2>4 DEF Readable
<1>8. RestingSettled(t)
  <2> SUFFICES ASSUME NEW q \in Rounds(t)
               PROVE  /\ q \notin t.completed_rounds[q].resting
                      /\ \A o \in t.completed_rounds[q].resting :
                          o \in Rounds(t) /\ (Matched(t, o) => o \in t.finalized_private_rounds)
    BY Zenon DEF RestingSettled
  <2>1. CASE q = r
    <3>1. \A o \in receipt.resting : o \in Orders \ {r} /\ o \notin Pending(s)
      BY Zenon, <1>5 DEF Rounds
    <3> QED  BY <1>1, <1>3, <1>4, <2>1, <3>1 DEF Pending
  <2>2. CASE q # r
    <3>1. q \in Rounds(s)
      BY Zenon, <1>3, <2>2
    <3>2. \A o \in s.completed_rounds[q].resting : o \in Rounds(s) /\ o # r
      BY Zenon, <1>3, <3>1 DEF SoundState, RestingSettled
    <3> QED  BY <1>1, <1>3, <1>4, <2>2, <3>1, <3>2 DEF SoundState, RestingSettled, Rounds
  <2> QED  BY <2>1, <2>2
<1>9. ASSUME \A o \in RoundOrders(t, r) : Native(o) PROVE Finalizable(t, r)
  <2>1. RoundOrders(t, r) = receipt.resting \cup {r}
    BY Zenon, <1>3 DEF RoundOrders
  <2> QED  BY <1>1, <1>3, <1>9, <2>1 DEF Finalizable, ParentCurrent, private_parent_digest
<1>10. \A o \in Orders : t.private_heads[o] # None => o \in RoundOrders(t, t.private_heads[o])
  <2> SUFFICES ASSUME NEW o \in Orders, s.private_heads[o] # None
               PROVE  o \in RoundOrders(t, s.private_heads[o])
    BY Zenon, <1>1
  <2>1. s.private_heads[o] \in Orders \ {r}
    BY Zenon, <1>2 DEF SoundState, Readable
  <2> QED  BY <1>4, <2>1 DEF SoundState
<1>11. SoundState(t)
  BY Zenon, <1>1, <1>5, <1>6, <1>7, <1>8, <1>9, <1>10 DEF SoundState
<1>12. Ahead(s, t)
  BY Zenon, <1>1, <1>3 DEF Ahead, HeadsFromParents, Rounds, Certified
<1>13. Durable(t)
  <2>1. \A q \in Orders : executed[q] # None => t.completed_rounds[q] = executed[q]
    BY Zenon, <1>3 DEF Durable
  <2>2. \A q \in Rounds(t) : files[q] = t.completed_rounds[q].result
    BY Zenon, <1>3 DEF Durable, Rounds
  <2> QED  BY <1>1, <2>1, <2>2 DEF Durable, Certified
<1> QED  BY <1>11, <1>12, <1>13 DEF t, Saves

----------------------------------------------------------------------------
(* Saving, and the request under way                                       *)

\* Saving such a state, or failing to, keeps both copies sound.
LEMMA SaveKeeps ==
    ASSUME IInv, NEW t, Saves(memory, t), NEW ok \in BOOLEAN, Save(t, ok),
           UNCHANGED <<files, executed, settled, released>>
    PROVE  /\ SoundState(memory)' /\ SoundState(disk)'
           /\ Durable(memory)' /\ Durable(disk)'
           /\ Ahead(memory, disk)'
<1>1. /\ SoundState(memory) /\ SoundState(disk) /\ SoundState(t)
      /\ Durable(memory) /\ Durable(disk) /\ Durable(t)
      /\ Ahead(memory, disk) /\ Ahead(memory, t)
  BY Zenon DEF IInv, Saves
<1>2. \A s : Ahead(s, s)
  BY Zenon DEF Ahead, HeadsFromParents
<1>3. /\ memory' \in {memory, t} /\ disk' \in {disk, t}
      /\ memory' = t => disk' = t \/ memory = t
  BY Zenon DEF Save
<1>4. Ahead(memory', disk')
  BY Zenon, <1>1, <1>2, <1>3
<1>5. SoundState(memory') /\ SoundState(disk')
  BY Zenon, <1>1, <1>3
<1>6. Durable(memory)' /\ Durable(disk)'
  BY Zenon, <1>1, <1>3 DEF Durable, Rounds, Certified
<1> QED  BY <1>4, <1>5, <1>6

\* The other requests that run during an Execute request leave the orders of
\* its round as they are.
LEMMA ExecuteKept ==
    ASSUME IInv, UNCHANGED <<files, executing, plans, executed>>,
           memory'.completed_rounds = memory.completed_rounds,
           memory'.lifecycle = memory.lifecycle,
           memory.records \subseteq memory'.records,
           memory.finalized_private_rounds \subseteq memory'.finalized_private_rounds,
           require_lifecycle_barrier(memory) =>
             \A o \in Orders : Native(o) => memory'.private_heads[o] = memory.private_heads[o]
    PROVE  ExecuteSound'
<1> SUFFICES ASSUME executing # None PROVE ExecuteSound'
  BY Zenon DEF ExecuteSound
<1>1. ExecuteSound /\ executing.round \in Orders /\ plans[executing.round] \subseteq Orders
  BY Zenon DEF IInv, ExecuteSound, Planned
<1>2. Preparable(memory, executing.round) => Preparable(memory, executing.round)'
  BY Zenon DEF Preparable, require_lifecycle_barrier, lifecycle_blocks, Certified, Matched
<1>3. ASSUME NEW parent, Preparable(memory, executing.round), ParentKept(executing.round, parent)
      PROVE  ParentKept(executing.round, parent)'
  BY <1>1, <1>3 DEF ParentKept, private_parent_digest, Preparable
<1> QED  BY <1>1, <1>2, <1>3 DEF ExecuteSound, Planned

----------------------------------------------------------------------------
(* The inductive invariant                                                 *)

\* An empty store is sound.
LEMMA InitSound == Init => IInv
<1> SUFFICES ASSUME Init PROVE IInv
  OBVIOUS
<1>1. EmptyStore \in StoreState
  BY Zenon DEF EmptyStore, StoreState
<1>2. /\ Rounds(EmptyStore) = {} /\ Pending(EmptyStore) = {}
      /\ \A c \in Commands : EmptyStore.lifecycle[c] = "absent" /\ ~Certified(EmptyStore, c)
      /\ \A o \in Orders : EmptyStore.private_heads[o] = None
  BY Zenon DEF EmptyStore, Rounds, Pending, Matched, Certified
<1>3. Readable(EmptyStore)
  BY Zenon, <1>2 DEF Readable, EmptyStore
<1>4. SoundState(EmptyStore)
  BY Zenon, <1>1, <1>2, <1>3 DEF SoundState, RestingSettled
<1>5. Durable(EmptyStore)
  BY Zenon, <1>2 DEF Durable, Init, EmptyStore
<1>6. Ahead(EmptyStore, EmptyStore)
  BY Zenon DEF Ahead, HeadsFromParents
<1>7. Typed /\ PlansSound /\ ExecuteSound
  BY Zenon DEF Typed, PlansSound, ExecuteSound, Init
<1> QED  BY <1>4, <1>5, <1>6, <1>7 DEF IInv, Init

\* Ingest runs beside an Execute request and adds a record.
LEMMA IngestKeeps == ASSUME IInv, NEW o \in Orders, Ingest(o) PROVE IInv'
<1> DEFINE t == IngestedState(memory, o)
<1>1. PICK ok \in BOOLEAN : Save(t, ok)
  BY Zenon DEF Ingest
<1>2. UNCHANGED <<files, dirs, executing, plans, executed, settled, released>>
  BY Zenon DEF Ingest, round, ledger
<1>3. Saves(memory, t)
  BY Zenon, IngestSound DEF IInv, Ingest
<1>4. /\ SoundState(memory)' /\ SoundState(disk)' /\ Durable(memory)' /\ Durable(disk)'
      /\ Ahead(memory, disk)'
  BY Zenon, <1>1, <1>2, <1>3, SaveKeeps
<1>5. memory' \in {memory, t}
  BY Zenon, <1>1 DEF Save
<1>6. ExecuteSound'
  <2>1. memory \in StoreState
    BY Zenon DEF IInv, SoundState
  <2>2. /\ memory'.completed_rounds = memory.completed_rounds /\ memory'.lifecycle = memory.lifecycle
        /\ memory.records \subseteq memory'.records /\ memory'.private_heads = memory.private_heads
        /\ memory'.finalized_private_rounds = memory.finalized_private_rounds
    <3>1. PICK claims : t = [memory EXCEPT !.records = @ \cup {o}, !.reservation_claims = claims]
      BY Zenon DEF IngestedState
    <3>2. PICK u : u = t
      OBVIOUS
    <3>3. /\ u.completed_rounds = memory.completed_rounds /\ u.lifecycle = memory.lifecycle
          /\ memory.records \subseteq u.records /\ u.private_heads = memory.private_heads
          /\ u.finalized_private_rounds = memory.finalized_private_rounds
      BY <2>1, <3>1, <3>2 DEF StoreState
    <3> QED  BY <1>5, <3>2, <3>3
  <2> QED  BY <1>2, <2>2, ExecuteKept
<1> QED  BY <1>2, <1>4, <1>6 DEF IInv, Typed, PlansSound, Planned

\* So does the observation of a canonical fill.
LEMMA ObserveKeeps ==
    ASSUME IInv, NEW r \in Orders, NEW maker \in Orders, RecordNativeFinality(r, maker) PROVE IInv'
<1> DEFINE t == ObservedState(memory, r, maker)
<1>1. PICK ok \in BOOLEAN : Save(t, ok)
  BY Zenon DEF RecordNativeFinality
<1>2. UNCHANGED <<files, dirs, executing, plans, executed, settled, released>>
  BY Zenon DEF RecordNativeFinality, round, ledger
<1>3. Saves(memory, t)
  BY Zenon, ObserveSound DEF IInv, RecordNativeFinality, Rounds
<1>4. /\ SoundState(memory)' /\ SoundState(disk)' /\ Durable(memory)' /\ Durable(disk)'
      /\ Ahead(memory, disk)'
  BY Zenon, <1>1, <1>2, <1>3, SaveKeeps
<1>5. memory' \in {memory, t}
  BY Zenon, <1>1 DEF Save
<1>6. ExecuteSound'
  <2>1. memory \in StoreState
    BY Zenon DEF IInv, SoundState
  <2> QED  BY SMTT(30), <1>2, <1>5, <2>1, ExecuteKept DEF ObservedState, StoreState
<1> QED  BY <1>2, <1>4, <1>6 DEF IInv, Typed, PlansSound, Planned

\* With the barrier down only a round without reserved orders is finalized, so
\* the heads of reserved orders stay where a running round found them.
LEMMA FinalizeKeeps == ASSUME IInv, NEW r \in Orders, FinalizePrivateRound(r) PROVE IInv'
<1> DEFINE t == FinalizedState(memory, r)
<1>1. PICK ok \in BOOLEAN : Save(t, ok)
  BY Zenon DEF FinalizePrivateRound
<1>2. UNCHANGED <<files, dirs, executing, plans, executed, settled, released>>
  BY Zenon DEF FinalizePrivateRound, round, ledger
<1>3. Saves(memory, t)
  BY Zenon, FinalizeSound DEF IInv, FinalizePrivateRound, Rounds
<1>4. /\ SoundState(memory)' /\ SoundState(disk)' /\ Durable(memory)' /\ Durable(disk)'
      /\ Ahead(memory, disk)'
  BY Zenon, <1>1, <1>2, <1>3, SaveKeeps
<1>5. memory' \in {memory, t}
  BY Zenon, <1>1 DEF Save
<1>6. /\ t.completed_rounds = memory.completed_rounds /\ t.lifecycle = memory.lifecycle
      /\ t.records = memory.records
      /\ t.finalized_private_rounds = memory.finalized_private_rounds \cup {r}
      /\ \A o \in Orders \ RoundOrders(memory, r) : t.private_heads[o] = memory.private_heads[o]
  BY Zenon DEF IInv, SoundState, StoreState, FinalizedState, RoundOrders
<1>7. ASSUME require_lifecycle_barrier(memory), NEW o \in Orders, Native(o)
      PROVE  t.private_heads[o] = memory.private_heads[o]
  <2>1. ~Matched(memory, r)
    BY Zenon, <1>7 DEF require_lifecycle_barrier, FinalizePrivateRound
  <2>2. o \notin RoundOrders(memory, r)
    BY Zenon, <1>7, <2>1 DEF FinalizePrivateRound, NativeRound, require_complete
  <2> QED  BY <1>6, <2>2
<1> HIDE DEF t
<1>8. ExecuteSound'
  BY Zenon, <1>2, <1>5, <1>6, <1>7, ExecuteKept
<1> QED  BY <1>2, <1>4, <1>8 DEF IInv, Typed, PlansSound, Planned

\* The lifecycle requests take the execute lock.
LEMMA StageKeeps == ASSUME IInv, NEW c \in Commands, StageLifecycle(c) PROVE IInv'
<1> DEFINE t == StagedState(memory, c)
<1>1. PICK ok \in BOOLEAN : Save(t, ok)
  BY Zenon DEF StageLifecycle
<1>2. UNCHANGED <<files, dirs, executing, plans, executed, settled, released>> /\ executing = None
  BY Zenon DEF StageLifecycle, round, ledger, ExecuteLockFree
<1>3. Saves(memory, t)
  BY Zenon, StageSound DEF IInv, StageLifecycle
<1>4. /\ SoundState(memory)' /\ SoundState(disk)' /\ Durable(memory)' /\ Durable(disk)'
      /\ Ahead(memory, disk)'
  BY Zenon, <1>1, <1>2, <1>3, SaveKeeps
<1> QED  BY Zenon, <1>2, <1>4 DEF IInv, Typed, PlansSound, Planned, ExecuteSound

\* Accepting a certificate, again or for the first time.
LEMMA AcceptKeeps ==
    ASSUME IInv, NEW x \in Orders \cup Commands, NEW ok \in BOOLEAN,
           accept_order_certificate(x, ok), UNCHANGED <<files, executed, settled, released>>
    PROVE  /\ SoundState(memory)' /\ SoundState(disk)' /\ Durable(memory)' /\ Durable(disk)'
           /\ Ahead(memory, disk)'
<1>1. CASE UNCHANGED store
  BY Zenon, <1>1 DEF IInv, store, Durable, Rounds, Certified
<1>2. CASE Acceptable(memory, x) /\ Save(AcceptedState(memory, x), ok)
  <2>1. Saves(memory, AcceptedState(memory, x))
    BY Zenon, <1>2, AcceptSound DEF IInv
  <2> QED  BY <1>2, <2>1, SaveKeeps
<1> QED  BY SMTT(30), <1>1, <1>2 DEF accept_order_certificate

\* A command is accepted with the execute lock held.
LEMMA ApplyKeeps == ASSUME IInv, NEW c \in Commands, ApplyLifecycle(c) PROVE IInv'
<1>1. PICK ok \in BOOLEAN : accept_order_certificate(c, ok)
  BY Zenon DEF ApplyLifecycle
<1>2. UNCHANGED <<files, dirs, executing, plans, executed, settled, released>> /\ executing = None
  BY Zenon DEF ApplyLifecycle, round, ledger, ExecuteLockFree
<1>3. /\ SoundState(memory)' /\ SoundState(disk)' /\ Durable(memory)' /\ Durable(disk)'
      /\ Ahead(memory, disk)'
  BY Zenon, <1>1, <1>2, AcceptKeeps
<1> QED  BY Zenon, <1>2, <1>3 DEF IInv, Typed, PlansSound, Planned, ExecuteSound

\* A release is confirmed while a certificate is accepted at most: no round
\* runs when a release is certified.
LEMMA ConfirmKeeps == ASSUME IInv, NEW c \in Commands, ConfirmRelease(c) PROVE IInv'
<1> DEFINE t == ConfirmedState(memory, c)
<1>1. PICK ok \in BOOLEAN : Save(t, ok)
  BY Zenon DEF ConfirmRelease
<1>2. UNCHANGED <<files, dirs, executing, plans, executed, settled, released>>
  BY Zenon DEF ConfirmRelease, round, ledger
<1>3. Saves(memory, t)
  BY Zenon, ConfirmSound DEF IInv, ConfirmRelease
<1>4. /\ SoundState(memory)' /\ SoundState(disk)' /\ Durable(memory)' /\ Durable(disk)'
      /\ Ahead(memory, disk)'
  BY Zenon, <1>1, <1>2, <1>3, SaveKeeps
<1>5. executing # None => executing.stage \notin {"running", "done"}
  BY Zenon DEF IInv, ExecuteSound, ConfirmRelease, Preparable, require_lifecycle_barrier
<1>6. ExecuteSound'
  BY Zenon, <1>2, <1>5 DEF IInv, ExecuteSound, Planned
<1> QED  BY <1>2, <1>4, <1>6 DEF IInv, Typed, PlansSound, Planned

\* An Execute request is accepted for the plan the coordinator signed.
LEMMA ExecuteKeeps == ASSUME IInv, NEW o \in Orders, Execute(o) PROVE IInv'
<1>1. PICK resting \in SUBSET Orders, ok \in BOOLEAN :
        /\ Plan(o, resting)
        /\ accept_order_certificate(o, ok)
        /\ executing' = IF ok THEN [round |-> o, stage |-> "accepted"] ELSE None
  BY Zenon DEF Execute
<1>2. UNCHANGED <<files, dirs, executed, settled, released>>
  BY Zenon DEF Execute, ledger
<1>3. /\ SoundState(memory)' /\ SoundState(disk)' /\ Durable(memory)' /\ Durable(disk)'
      /\ Ahead(memory, disk)'
  BY Zenon, <1>1, <1>2, AcceptKeeps
<1>4. plans' = [plans EXCEPT ![o] = resting] /\ plans \in [Orders -> (SUBSET Orders) \cup {None}]
  BY Zenon, <1>1 DEF Plan, IInv, Typed
<1>5. Planned(o)'
  <2>1. resting \subseteq Orders \ {o} /\ \A p \in resting : executed[p] # None
    BY Zenon, <1>1 DEF Plan, Resting, IInv, PlansSound, Planned
  <2> QED  BY <1>2, <1>4, <2>1 DEF Planned
<1>6. PlansSound'
  BY Zenon, <1>2, <1>4, <1>5 DEF IInv, PlansSound, Planned
<1>7. ExecuteSound'
  BY Zenon, <1>1, <1>5 DEF ExecuteSound
<1> QED  BY <1>2, <1>3, <1>4, <1>6, <1>7 DEF IInv, Typed

\* A receipt in memory is on disk.
LEMMA ReturnKeeps == ASSUME IInv, ReturnReceipt PROVE IInv'
<1> DEFINE r == executing.round
           receipt == memory.completed_rounds[r]
<1>1. /\ r \in Rounds(memory) /\ r \in Orders /\ receipt \in Receipts
      /\ executed' = [executed EXCEPT ![r] = receipt]
      /\ UNCHANGED <<memory, disk, files, dirs, plans, settled, released>> /\ executing' = None
  BY Zenon DEF ReturnReceipt, IInv, ExecuteSound, Rounds, SoundState, StoreState, store, ledger
<1>2. receipt # None /\ disk.completed_rounds[r] = receipt
  BY Zenon, <1>1 DEF IInv, Ahead, Rounds
<1> HIDE DEF r, receipt
<1>3. Durable(memory)' /\ Durable(disk)'
  BY Zenon, <1>1, <1>2 DEF IInv, Typed, Durable, Rounds, Certified, receipt
<1>4. PlansSound'
  BY Zenon, <1>1, <1>2 DEF IInv, Typed, PlansSound, Planned
<1>5. ExecuteSound' /\ Typed'
  BY Zenon, <1>1 DEF ExecuteSound, IInv, Typed
<1> QED  BY SMTT(30), <1>1, <1>3, <1>4, <1>5 DEF IInv

\* prepare_round finds the round new and its orders stored and live.
LEMMA PrepareKeeps == ASSUME IInv, PrepareRound PROVE IInv'
<1> DEFINE r == executing.round
           parent == private_parent_digest(memory, plans[r])
<1>1. /\ r \in Orders /\ Planned(r)
      /\ memory.completed_rounds[r] = None /\ Preparable(memory, r)
      /\ executing' = [round |-> r, stage |-> "running", parent |-> parent]
      /\ UNCHANGED <<memory, disk, files, dirs, plans, executed, settled, released>>
  BY Zenon DEF PrepareRound, IInv, ExecuteSound, store, ledger
<1>2. memory.private_heads \in [Orders -> Orders \cup {None}]
  BY Zenon DEF IInv, SoundState, StoreState
<1>3. ParentKept(r, parent)
  BY Zenon, <1>1, <1>2 DEF ParentKept, private_parent_digest, Planned
<1> HIDE DEF r, parent
<1>4. ExecuteSound'
  BY Zenon, <1>1, <1>3 DEF ExecuteSound, ParentKept, Planned, Preparable
<1>5. Durable(memory)' /\ Durable(disk)'
  BY Zenon, <1>1 DEF IInv, Durable, Rounds, Certified
<1> QED  BY Zenon, <1>1, <1>4, <1>5 DEF IInv, Typed, PlansSound, Planned

\* The private state goes into a new directory, so no receipt speaks of it yet.
LEMMA RunKeeps == ASSUME IInv, RunMpc PROVE IInv'
<1>r. PICK r \in Orders : r = executing.round
  BY Zenon DEF RunMpc, IInv, ExecuteSound
<1>1. PICK result \in Results(plans[r]) :
        /\ files' = [files EXCEPT ![r] = result]
        /\ executing' = [round |-> r, stage |-> "done",
                         receipt |-> [resting |-> plans[r], parent |-> executing.parent,
                                      result |-> result]]
  BY Zenon, <1>r DEF RunMpc
<1>2. /\ r \in Orders /\ Planned(r) /\ files[r] = None
      /\ memory.completed_rounds[r] = None /\ Preparable(memory, r)
      /\ ParentKept(r, executing.parent)
      /\ UNCHANGED <<memory, disk, dirs, plans, executed, settled, released>>
  BY Zenon, <1>r DEF RunMpc, FileAbsent, IInv, ExecuteSound, store, ledger
<1>3. result \in AnyResult /\ result \in Results(plans[r]) /\ plans[r] \in SUBSET Orders
  BY Zenon, <1>2 DEF Results, AnyResult, Planned
<1>4. ASSUME NEW s \in {memory, disk} PROVE s.completed_rounds[r] = None
  <2>1. s.completed_rounds[r] \in Receipts \cup {None}
    BY Zenon, <1>2 DEF IInv, SoundState, StoreState
  <2>2. s.completed_rounds[r] # None => s.completed_rounds[r].result = None
    BY Zenon, <1>2 DEF IInv, Durable, Rounds
  <2>3. \A x \in Receipts : x.result \in [matched : SUBSET Orders, remaining : BOOLEAN]
    BY DEF Receipts, Results
  <2> QED  BY <2>1, <2>2, <2>3, NodeStoreAssumption
<1>5. Durable(memory)' /\ Durable(disk)'
  BY Zenon, <1>1, <1>2, <1>4 DEF IInv, Typed, Durable, Rounds, Certified
<1>6. ExecuteSound'
  <2> DEFINE receipt == [resting |-> plans[r], parent |-> executing.parent, result |-> result]
  <2>1. receipt \in Receipts
    BY <1>2, <1>3 DEF Receipts, ParentKept
  <2>2. /\ executing'.round = r /\ executing'.stage = "done" /\ executing'.receipt = receipt
        /\ files'[r] = result
    BY Zenon, <1>1, <1>2 DEF IInv, Typed
  <2>3. Preparable(memory, r)' /\ Planned(r)'
    BY Zenon, <1>2 DEF Preparable, Planned
  <2>4. PICK x : x = executing.parent /\ executing'.receipt.parent = x /\ ParentKept(r, x)
    BY SMTT(30), <1>2, <2>2
  <2>5. ParentKept(r, x)'
    BY Zenon, <1>2, <2>4 DEF ParentKept
  <2>6. executing'.receipt.resting = plans'[r] /\ executing'.receipt.result = files'[r]
    <3>1. executing'.receipt.resting = plans[r] /\ executing'.receipt.result = result
      BY <2>2
    <3> QED  BY <1>2, <2>2, <3>1
  <2>7. executing'.receipt \in Receipts /\ (memory.completed_rounds[r] = None)'
    BY Zenon, <1>2, <2>1, <2>2
  <2> QED  BY Zenon, <1>2, <2>2, <2>3, <2>4, <2>5, <2>6, <2>7 DEF ExecuteSound
<1>7. Typed'
  BY Zenon, <1>1, <1>2, <1>3 DEF IInv, Typed
<1> QED  BY Zenon, <1>2, <1>5, <1>6, <1>7 DEF IInv, PlansSound, Planned

\* The receipt is stored with the barrier down, over stored and live orders.
LEMMA RecordKeeps == ASSUME IInv, RecordCompletedRound PROVE IInv'
<1>r. PICK r \in Orders : r = executing.round
  BY Zenon DEF RecordCompletedRound, IInv, ExecuteSound
<1>x. PICK receipt \in Receipts : receipt = executing.receipt
  BY Zenon DEF RecordCompletedRound, IInv, ExecuteSound
<1> DEFINE t == CompletedState(memory, r, receipt)
<1>1. PICK ok \in BOOLEAN :
        /\ Save(t, ok)
        /\ executed' = IF ok THEN [executed EXCEPT ![r] = receipt] ELSE executed
  BY Zenon, <1>r, <1>x DEF RecordCompletedRound
<1>2. /\ Planned(r) /\ memory.completed_rounds[r] = None /\ Preparable(memory, r)
      /\ receipt.resting = plans[r] /\ receipt.result = files[r] /\ ParentKept(r, receipt.parent)
      /\ executing' = None
      /\ UNCHANGED <<files, dirs, plans, settled, released>>
  BY Zenon, <1>r, <1>x DEF RecordCompletedRound, IInv, ExecuteSound, ledger
<1>3. Saves(memory, t)
  <2>1. plans[r] \subseteq Rounds(memory) /\ r \notin plans[r]
    BY Zenon, <1>2 DEF Planned, IInv, Durable, Rounds
  <2>2. require_lifecycle_barrier(memory) /\ plans[r] \cup {r} \subseteq memory.records
    BY Zenon, <1>2 DEF Preparable
  <2>3. (\A o \in plans[r] \cup {r} : Native(o)) => receipt.parent = private_parent_digest(memory, plans[r])
    BY Zenon, <1>2 DEF ParentKept
  <2> QED  BY Zenon, <1>2, <2>1, <2>2, <2>3, CompleteSound DEF IInv
<1>4. executed[r] = None
  BY Zenon, <1>2 DEF IInv, Durable
<1>5. CASE ok = FALSE
  <2>1. /\ SoundState(memory)' /\ SoundState(disk)' /\ Durable(memory)' /\ Durable(disk)'
        /\ Ahead(memory, disk)'
    BY Zenon, <1>1, <1>2, <1>3, <1>5, SaveKeeps
  <2> QED  BY Zenon, <1>1, <1>2, <1>5, <2>1 DEF IInv, Typed, PlansSound, Planned, ExecuteSound
<1>6. CASE ok = TRUE
  <2>1. memory' = t /\ disk' = t /\ executed' = [executed EXCEPT ![r] = receipt]
    BY Zenon, <1>1, <1>6 DEF Save
  <2>2. t.completed_rounds[r] = receipt /\ SoundState(t) /\ Durable(t)
    BY Zenon, <1>3 DEF Saves, CompletedState, IInv, SoundState, StoreState
  <2> HIDE DEF t
  <2>3. Ahead(memory', disk') /\ SoundState(memory') /\ SoundState(disk')
    BY Zenon, <2>1, <2>2 DEF Ahead, HeadsFromParents
  <2>4. executed \in [Orders -> Receipts \cup {None}]
    BY Zenon DEF IInv, Typed
  <2>5. Durable(memory)' /\ Durable(disk)'
    BY Zenon, <1>2, <2>1, <2>2, <2>4 DEF Durable, Rounds, Certified
  <2>6. PlansSound'
    BY Zenon, <1>2, <1>4, <2>1, <2>4 DEF IInv, PlansSound, Planned
  <2>7. Typed' /\ ExecuteSound'
    BY Zenon, <1>2, <2>1 DEF IInv, Typed, ExecuteSound
  <2> QED  BY <2>3, <2>5, <2>6, <2>7 DEF IInv
<1> QED  BY Zenon, <1>5, <1>6

\* A restarted process opens what is on disk and has no request under way.
LEMMA RestartKeeps == ASSUME IInv, Restart PROVE IInv'
<1>1. memory' = disk /\ UNCHANGED <<disk, files, plans, executed, settled, released>> /\ executing' = None
  BY Zenon DEF Restart, ledger
<1>2. Ahead(memory', disk')
  BY Zenon, <1>1 DEF Ahead, HeadsFromParents
<1>3. Durable(memory)' /\ Durable(disk)'
  BY Zenon, <1>1 DEF IInv, Durable, Rounds, Certified
<1> QED  BY Zenon, <1>1, <1>2, <1>3 DEF IInv, Typed, PlansSound, Planned, ExecuteSound

\* The ledger releases only what the node has certified, on disk as well.
LEMMA LedgerKeeps ==
    ASSUME IInv, \/ \E r \in Orders : CanonicalSettle(r)
                 \/ \E c \in Commands : CanonicalRelease(c)
    PROVE  IInv'
<1>1. UNCHANGED <<memory, disk, files, dirs, executing, plans, executed>>
  BY Zenon DEF CanonicalSettle, CanonicalRelease, store, round
<1>2. /\ settled \subseteq settled' /\ settled' \subseteq Orders
      /\ released' \subseteq Commands
      /\ \A c \in released' : c \in released \/ memory.lifecycle[c] = "certified"
  BY Zenon DEF CanonicalSettle, CanonicalRelease, IInv, Typed
<1>3. \A c \in released' : Certified(memory, c) /\ Certified(disk, c)
  BY Zenon, <1>2 DEF IInv, Durable, Ahead, Certified
<1>4. Durable(memory)' /\ Durable(disk)'
  BY Zenon, <1>1, <1>2, <1>3 DEF IInv, Durable, Rounds, Certified
<1>5. ExecuteSound' /\ PlansSound'
  BY Zenon, <1>1 DEF IInv, ExecuteSound, PlansSound, Planned, ParentKept, Preparable
<1> QED  BY SMTT(30), <1>1, <1>2, <1>4, <1>5 DEF IInv, Typed

\* The inductive invariant holds of every run of the node.
THEOREM Invariant == Spec => []IInv
<1>1. IInv /\ [Next]_vars => IInv'
  <2> SUFFICES ASSUME IInv, [Next]_vars PROVE IInv'
    OBVIOUS
  <2>1. CASE ExecuteFails \/ UNCHANGED vars
    <3>1. /\ executing' \in {executing, None}
          /\ UNCHANGED <<memory, disk, files, plans, executed, settled, released>>
      BY Zenon, <2>1 DEF ExecuteFails, vars, store, ledger
    <3>2. Durable(memory)' /\ Durable(disk)'
      BY Zenon, <3>1 DEF IInv, Durable, Rounds, Certified
    <3>3. ExecuteSound' /\ PlansSound'
      BY Zenon, <3>1 DEF IInv, ExecuteSound, PlansSound, Planned, ParentKept, Preparable
    <3> QED  BY <3>1, <3>2, <3>3 DEF IInv, Typed
  <2> QED  BY <2>1, IngestKeeps, ExecuteKeeps, FinalizeKeeps, ObserveKeeps, StageKeeps, ApplyKeeps,
              ConfirmKeeps, ReturnKeeps, PrepareKeeps, RunKeeps, RecordKeeps, RestartKeeps,
              LedgerKeeps DEF Next, RoundStep
<1> QED  BY <1>1, InitSound, PTL DEF Spec

----------------------------------------------------------------------------
(* What follows                                                            *)

\* read_state opens every file that a crash or a failed persist leaves.
THEOREM AlwaysReadable == Spec => []StoreReadable
<1>1. IInv => StoreReadable
  BY Zenon DEF IInv, SoundState, StoreReadable
<1> QED  BY <1>1, Invariant, PTL

\* A returned receipt is the one in memory and on disk, and names its file.
THEOREM ReceiptsDurable == Spec => []ReceiptDurable
<1>1. IInv => ReceiptDurable
  BY DEF IInv, Durable, Rounds, ReceiptDurable
<1> QED  BY <1>1, Invariant, PTL

\* The fills of the state's matched rounds can still settle.
Funded(s) ==
    \A r \in Orders : Matched(s, r) /\ r \notin settled =>
        \A o \in s.completed_rounds[r].result.matched \cup {r} : Reserved(o)

\* Between a release and the ledger lie the command's acceptance, which waits
\* for the fills, and the barrier, which keeps rounds waiting for the release.
LEMMA ReleaseKeepsFunded ==
    ASSUME IInv, NoStrandedFill, NEW c \in Commands, CanonicalRelease(c)
    PROVE  NoStrandedFill'
<1>1. /\ memory.lifecycle[c] = "certified" /\ released' = released \cup {c}
      /\ UNCHANGED <<memory, disk, settled>>
  BY Zenon DEF CanonicalRelease, store
<1>2. ASSUME NEW s, SoundState(s), Durable(s), s.lifecycle[c] = "certified",
             NEW r \in Orders, Matched(s, r),
             Target[c] \in s.completed_rounds[r].result.matched \cup {r}
      PROVE  r \in settled
  <2>1. Native(Target[c]) /\ Pending(s) = {}
    BY Zenon, <1>2 DEF SoundState
  <2>2. s.completed_rounds[r] \in Receipts
    BY Zenon, <1>2 DEF SoundState, StoreState, Matched
  <2>3. s.completed_rounds[r].result.matched \subseteq s.completed_rounds[r].resting
    BY <2>2 DEF Receipts, Results
  <2>4. NativeRound(s, r)
    BY Zenon, <1>2, <2>1, <2>3 DEF NativeRound, RoundOrders
  <2>5. r \in s.finalized_private_rounds
    BY Zenon, <1>2, <2>1 DEF Pending
  <2> QED  BY SMTT(30), <1>2, <2>4, <2>5, FinalizedSettled
<1>3. ASSUME NEW s \in {memory, disk}, NEW r \in Orders, Matched(s, r),
             Target[c] \in s.completed_rounds[r].result.matched \cup {r}
      PROVE  r \in settled
  <2>1. CASE s.lifecycle[c] = "certified"
    BY Zenon, <1>2, <1>3, <2>1 DEF IInv
  <2>2. CASE s.completed_rounds = memory.completed_rounds
    BY Zenon, <1>1, <1>2, <1>3, <2>2 DEF IInv, Matched
  <2> QED  BY <1>1, <2>1, <2>2 DEF IInv, Ahead
<1> QED  BY <1>1, <1>3 DEF NoStrandedFill, Reserved, Matched

\* A round is completed over orders that no release has blocked.
LEMMA RecordKeepsFunded == ASSUME IInv, NoStrandedFill, RecordCompletedRound PROVE NoStrandedFill'
<1>r. PICK r \in Orders : r = executing.round
  BY Zenon DEF RecordCompletedRound, IInv, ExecuteSound
<1>x. PICK receipt \in Receipts : receipt = executing.receipt
  BY Zenon DEF RecordCompletedRound, IInv, ExecuteSound
<1> DEFINE t == CompletedState(memory, r, receipt)
<1>1. /\ memory' \in {memory, t} /\ disk' \in {disk, t} /\ UNCHANGED <<settled, released>>
  BY Zenon, <1>r, <1>x DEF RecordCompletedRound, Save, ledger
<1>2. Preparable(memory, r) /\ receipt.resting = plans[r]
  BY Zenon, <1>r, <1>x DEF RecordCompletedRound, IInv, ExecuteSound
<1>3. t.completed_rounds = [memory.completed_rounds EXCEPT ![r] = receipt]
  BY Zenon DEF IInv, SoundState, StoreState, CompletedState
<1> HIDE DEF t
<1>4. \A o \in receipt.result.matched \cup {r} : Reserved(o)
  <2>1. receipt.result.matched \subseteq plans[r]
    BY <1>2 DEF Receipts, Results
  <2>2. \A o \in plans[r] \cup {r} : ~lifecycle_blocks(memory, o)
    BY Zenon, <1>2 DEF Preparable
  <2> QED  BY Zenon, <2>1, <2>2 DEF Reserved, lifecycle_blocks, IInv, Durable, Typed
<1>5. Funded(memory) /\ Funded(disk)
  BY Zenon DEF NoStrandedFill, Funded
<1>6. memory.completed_rounds \in [Orders -> Receipts \cup {None}]
  BY Zenon DEF IInv, SoundState, StoreState
<1>7. Funded(t)
  BY Zenon, <1>3, <1>4, <1>5, <1>6 DEF Funded, Matched
<1> QED  BY SMTT(30), <1>1, <1>5, <1>7 DEF NoStrandedFill, Funded, Reserved

\* Every other request leaves the completed rounds and the ledger alone.
LEMMA OthersKeepFunded ==
    ASSUME IInv, NoStrandedFill, UNCHANGED <<settled, released>>,
           memory'.completed_rounds \in {memory.completed_rounds, disk.completed_rounds},
           disk'.completed_rounds \in {memory.completed_rounds, disk.completed_rounds}
    PROVE  NoStrandedFill'
BY Zenon DEF NoStrandedFill, Reserved, Matched

\* A handler's next state keeps the completed rounds.
LEMMA SavedRounds ==
    ASSUME IInv, NEW t, t.completed_rounds = memory.completed_rounds,
           NEW ok \in BOOLEAN, Save(t, ok)
    PROVE  /\ memory'.completed_rounds = memory.completed_rounds
           /\ disk'.completed_rounds \in {memory.completed_rounds, disk.completed_rounds}
BY Zenon DEF Save

\* No release overtakes a fill: while a matched round awaits the ledger, the
\* reservations it fills from are live, in memory and on disk.
THEOREM FillsNeverStranded == Spec => []NoStrandedFill
<1>1. Init => NoStrandedFill
  <2>1. ASSUME Init, NEW s \in {memory, disk}, NEW r \in Orders PROVE s.completed_rounds[r] = None
    <3>1. EmptyStore.completed_rounds = [o \in Orders |-> None]
      BY Zenon DEF EmptyStore
    <3> QED  BY <2>1, <3>1 DEF Init
  <2> QED  BY Zenon, <2>1 DEF NoStrandedFill, Matched
<1>2. IInv /\ NoStrandedFill /\ [Next]_vars => NoStrandedFill'
  <2> SUFFICES ASSUME IInv, NoStrandedFill, [Next]_vars PROVE NoStrandedFill'
    OBVIOUS
  <2> DEFINE Copies == {memory.completed_rounds, disk.completed_rounds}
             Same(t) == t.completed_rounds = memory.completed_rounds
  <2>1. memory \in StoreState
    BY Zenon DEF IInv, SoundState
  <2>2. \A x, y : /\ Same(IngestedState(memory, x)) /\ Same(AcceptedState(memory, x))
                  /\ Same(ObservedState(memory, x, y)) /\ Same(FinalizedState(memory, x))
                  /\ Same(StagedState(memory, x)) /\ Same(ConfirmedState(memory, x))
    BY Zenon, <2>1 DEF StoreState, IngestedState, AcceptedState, ObservedState, FinalizedState,
                StagedState, ConfirmedState
  <2>3. ASSUME NEW o \in Orders, Ingest(o) \/ FinalizePrivateRound(o)
                                \/ \E maker \in Orders : RecordNativeFinality(o, maker)
        PROVE  NoStrandedFill'
    BY Zenon, <2>2, <2>3, SavedRounds, OthersKeepFunded
       DEF Ingest, FinalizePrivateRound, RecordNativeFinality, ledger
  <2>4. ASSUME NEW c \in Commands, StageLifecycle(c) \/ ConfirmRelease(c) PROVE NoStrandedFill'
    BY Zenon, <2>2, <2>4, SavedRounds, OthersKeepFunded DEF StageLifecycle, ConfirmRelease, ledger
  <2>5. ASSUME NEW x, (x \in Orders /\ Execute(x)) \/ (x \in Commands /\ ApplyLifecycle(x))
        PROVE  NoStrandedFill'
    <3>1. PICK ok \in BOOLEAN : accept_order_certificate(x, ok)
      BY Zenon, <2>5 DEF Execute, ApplyLifecycle
    <3>2. memory'.completed_rounds \in Copies /\ disk'.completed_rounds \in Copies
      BY Zenon, <2>2, <3>1, SavedRounds DEF accept_order_certificate, store
    <3> QED  BY <2>5, <3>2, OthersKeepFunded DEF Execute, ApplyLifecycle, ledger
  <2>6. CASE \/ ReturnReceipt \/ PrepareRound \/ RunMpc \/ ExecuteFails \/ Restart
             \/ UNCHANGED vars
    <3>1. UNCHANGED <<disk, settled, released>> /\ memory' \in {memory, disk}
      BY Zenon, <2>6 DEF ReturnReceipt, PrepareRound, RunMpc, ExecuteFails, Restart, vars, store, ledger
    <3> QED  BY <3>1, OthersKeepFunded
  <2>7. ASSUME NEW r \in Orders, CanonicalSettle(r) PROVE NoStrandedFill'
    BY Zenon, <2>7 DEF CanonicalSettle, store, NoStrandedFill, Matched, Reserved
  <2> QED  BY <2>3, <2>4, <2>5, <2>6, <2>7, ReleaseKeepsFunded, RecordKeepsFunded DEF Next, RoundStep
<1> QED  BY <1>1, <1>2, Invariant, PTL DEF Spec

\* A matched round of reserved orders can be finalized until it is.
THEOREM RoundsFinalizable == Spec => []MatchedRoundFinalizable
<1>1. IInv => MatchedRoundFinalizable
  BY Zenon DEF IInv, SoundState, Pending, MatchedRoundFinalizable
<1> QED  BY <1>1, Invariant, PTL

\* A late finalization overwrites no newer head: the round's parent heads are
\* the heads it replaces, also when a restart reveals a save that had failed.
THEOREM HeadsAdvance == Spec => HeadsAdvanceFromParents
<1>1. IInv /\ [Next]_vars => [HeadsFromParents(memory, memory')]_vars
  <2> SUFFICES ASSUME IInv, Next PROVE HeadsFromParents(memory, memory')
    OBVIOUS
  <2> DEFINE Same(t) == t.finalized_private_rounds = memory.finalized_private_rounds
  <2>1. ASSUME Same(memory') PROVE HeadsFromParents(memory, memory')
    BY Zenon, <2>1 DEF HeadsFromParents
  <2>2. CASE Restart
    BY Zenon, <2>2 DEF Restart, IInv, Ahead
  <2>3. ASSUME NEW r \in Orders, FinalizePrivateRound(r) PROVE HeadsFromParents(memory, memory')
    <3>1. memory' \in {memory, FinalizedState(memory, r)}
      BY Zenon, <2>3 DEF FinalizePrivateRound, Save
    <3>2. Saves(memory, FinalizedState(memory, r))
      BY Zenon, <2>3, FinalizeSound DEF IInv, FinalizePrivateRound, Rounds
    <3> QED  BY SMTT(30), <2>1, <3>1, <3>2 DEF Saves, Ahead
  <2>4. memory \in StoreState
    BY Zenon DEF IInv, SoundState
  <2>5. \A x, y : /\ Same(IngestedState(memory, x)) /\ Same(AcceptedState(memory, x))
                  /\ Same(ObservedState(memory, x, y)) /\ Same(CompletedState(memory, x, y))
                  /\ Same(StagedState(memory, x)) /\ Same(ConfirmedState(memory, x))
    BY Zenon, <2>4 DEF StoreState, IngestedState, AcceptedState, ObservedState, CompletedState,
                StagedState, ConfirmedState
  <2>6. ASSUME NEW t, Same(t), NEW ok \in BOOLEAN, Save(t, ok) PROVE Same(memory')
    BY Zenon, <2>6 DEF Save
  <2>7. ASSUME NEW o \in Orders,
               \/ Ingest(o) \/ Execute(o) \/ CanonicalSettle(o)
               \/ \E maker \in Orders : RecordNativeFinality(o, maker)
        PROVE  Same(memory')
    BY Zenon, <2>5, <2>6, <2>7 DEF Ingest, Execute, accept_order_certificate, CanonicalSettle,
                            RecordNativeFinality, store
  <2>8. ASSUME NEW c \in Commands,
               StageLifecycle(c) \/ ApplyLifecycle(c) \/ ConfirmRelease(c) \/ CanonicalRelease(c)
        PROVE  Same(memory')
    BY Zenon, <2>5, <2>6, <2>8 DEF StageLifecycle, ApplyLifecycle, accept_order_certificate,
                            ConfirmRelease, CanonicalRelease, store
  <2>9. CASE RoundStep
    BY Zenon, <2>1, <2>5, <2>6, <2>9 DEF RoundStep, ReturnReceipt, PrepareRound, RunMpc,
                                  RecordCompletedRound, ExecuteFails, store
  <2> QED  BY Zenon, <2>1, <2>2, <2>3, <2>7, <2>8, <2>9 DEF Next
<1> QED  BY <1>1, Invariant, PTL DEF Spec, HeadsAdvanceFromParents
=============================================================================
